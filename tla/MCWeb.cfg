\* The web server: the list of clients against the connections, the mutex and
\* its timeout, posted commands, and the stop before an update.
SPECIFICATION FairSpec
CONSTANTS
  Fd = {1, 2}
  NoFd = NoFd
  MaxClients = 2
  Capacity = 1
  Decimal <- MCDecimal
  Float <- MCFloat
  Body <- MCBody
  MaxConnects = 3
  MaxTimeouts = 1
  MaxPosts = 1
INVARIANTS
  TypeOK
  ListAgrees
  PostedAsWritten
PROPERTIES
  TasksReturn
  StaleLeaves
\* Browsers stop at their bound, and web_server_stop ends both tasks.
CHECK_DEADLOCK FALSE
