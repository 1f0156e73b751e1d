SPECIFICATION FairSpec
CONSTANTS
  c1 = c1
  c2 = c2
  c3 = c3
  Conn = {c1, c2}
  NoConn = NoConn
  MaxClients = 1
  NumSockets = 2
  NumChannels = 1
  Line <- PlainLines
  QueueLength = 1
  MaxLines = 2
  MaxMeasurements = 1
INVARIANT
  SlotsAndSockets
PROPERTIES
  LinesRead
  ConnectionDecided
\* Clients send a bounded number of lines, and the server may be stopped.
CHECK_DEADLOCK FALSE
