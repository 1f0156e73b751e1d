SPECIFICATION FairSpec
CONSTANTS
  c1 = c1
  c2 = c2
  c3 = c3
  Conn = {c1, c2}
  NoConn = NoConn
  MaxClients = 2
  NumSockets = 3
  NumChannels = 1
  Line <- IacLines
  QueueLength = 1
  MaxLines = 2
  MaxMeasurements = 0
PROPERTY
  LinesRead
\* Clients send a bounded number of lines, and the server may be stopped.
CHECK_DEADLOCK FALSE
