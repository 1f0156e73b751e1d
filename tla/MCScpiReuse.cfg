SPECIFICATION Spec
CONSTANTS
  c1 = c1
  c2 = c2
  c3 = c3
  Conn = {c1, c2}
  NoConn = NoConn
  MaxClients = 1
  NumSockets = 2
  NumChannels = 1
  Line <- QueryOnly
  QueueLength = 2
  MaxLines = 1
  MaxMeasurements = 0
INVARIANT
  ReplyToAsker
\* Clients send a bounded number of lines, and the server may be stopped.
CHECK_DEADLOCK FALSE
