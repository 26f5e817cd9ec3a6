SPECIFICATION TcpSpec
CHECK_DEADLOCK FALSE
CONSTANTS
  MaxUnits = 1
  NetFaultBound = 0
  ResendBound = 0
PROPERTIES
  AckEndsSend
