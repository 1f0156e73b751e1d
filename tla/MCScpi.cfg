SPECIFICATION Spec
CONSTANTS
  c1 = c1
  c2 = c2
  c3 = c3
  Conn = {c1, c2}
  NoConn = NoConn
  MaxClients = 2
  NumSockets = 2
  NumChannels = 1
  Line <- AllLines
  QueueLength = 1
  MaxLines = 2
  MaxMeasurements = 2
SYMMETRY Symmetric
INVARIANTS
  TypeOK
  SubscriptionsLive
  AtMostOneStray
  ErrorNotLost
  MisdirectedOnlyAfterClose
\* Clients send a bounded number of lines, and the server may be stopped.
CHECK_DEADLOCK FALSE
