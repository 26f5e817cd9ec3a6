\* Two nodes, three writers, blocks exchanged in any order.
SPECIFICATION Spec
CONSTANTS
  root = root
  file = file
  e = e
  d1 = d1
  d2 = d2
  w1 = w1
  w2 = w2
  w3 = w3
  Node <- MCPair
  Path <- MCPath
  Root = root
  Payload <- MCPayload
  Empty = e
  Writer <- MCWriters
  Home <- MCHome
  MaxTicks = 1
  MaxWrites = 3
SYMMETRY MCAlike
INVARIANTS
  TypeOK
  HeadIsNewest
  HistoryComplete
  Converged
  SyncProgresses
  PendingIsStored
