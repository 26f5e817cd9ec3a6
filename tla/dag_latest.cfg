\* One node, one writer that writes a path twice.
SPECIFICATION Spec
CONSTANTS
  root = root
  file = file
  e = e
  d1 = d1
  d2 = d2
  w1 = w1
  w2 = w2
  w3 = w3
  Node <- MCSingle
  Path <- MCPath
  Root = root
  Payload <- MCOnePayload
  Empty = e
  Writer <- MCOneWriter
  Home <- MCOneHome
  MaxTicks = 1
  MaxWrites = 2
PROPERTIES
  ReadsLastWrite
