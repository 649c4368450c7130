----------------------------- MODULE MCNetSync ------------------------------
(* Instances of NetSync for TLC. *)
EXTENDS NetSync

CONSTANTS c1, a2, a3, a4, b2, p0, p1, p2

(* A chain c1 a2 a3 a4 and a fork b2. *)
MCBlocks == {c1, a2, a3, a4, b2}
MCPrev   == [b \in MCBlocks |-> CASE b = c1 -> Zero [] b \in {a2, b2} -> c1 [] b = a3 -> a2 [] b = a4 -> a3]
MCNum    == [b \in MCBlocks |-> CASE b = c1 -> 1 [] b \in {a2, b2} -> 2 [] b = a3 -> 3 [] b = a4 -> 4]

(* Two nodes on different forks; the one on the longer fork may produce    *)
(* another block.                                                          *)
PairNodes == {p0, p1}
PairDials == {<<p0, p1>>}
PairStart == [n \in PairNodes |-> IF n = p0 THEN b2 ELSE a2]
PairBase  == [n \in PairNodes |-> 1]
PairMakes == [n \in PairNodes |-> IF n = p1 THEN {a3} ELSE {}]

(* A node that has to catch up with two peers: both offer the block after  *)
(* its head.                                                               *)
StarNodes == {p0, p1, p2}
StarDials == {<<p0, p1>>, <<p0, p2>>}
StarStart == [n \in StarNodes |-> CASE n = p0 -> Zero [] n = p1 -> a3 [] n = p2 -> b2]
StarBase  == [n \in StarNodes |-> IF n = p0 THEN 0 ELSE 1]
StarMakes == [n \in StarNodes |-> {}]
=============================================================================
