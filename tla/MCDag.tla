-------------------------------- MODULE MCDag --------------------------------
(***************************************************************************)
(* Small instances of Dag: two nodes, of which the first has two writers.  *)
(***************************************************************************)
EXTENDS Dag, TLC

CONSTANTS root, file, e, d1, d2, w1, w2, w3

MCPath == {root, file}
MCPayload == {e, d1}
MCWriters == {w1, w2, w3}
MCAlike == Permutations({w1, w2})
MCHome == [w \in MCWriters |-> IF w = w3 THEN 2 ELSE 1]
MCPair == {1, 2}

MCOnePayload == {e, d1, d2}
MCSingle == {1}
MCOneWriter == {w1}
MCOneHome == [w \in MCOneWriter |-> 1]
=============================================================================
