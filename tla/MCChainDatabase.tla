-------------------------- MODULE MCChainDatabase --------------------------
(* Two forks over a common first block: a1 - a2 - a3 and a1 - b2 - b3 - b4. *)
(* t1 is in a2 and in b3, t2 in b4.                                         *)
EXTENDS ChainDatabase
CONSTANTS a1, a2, a3, b2, b3, b4, t1, t2, w1, w2, w3
MCBlocks == {a1, a2, a3, b2, b3, b4}
MCPrev   == [b \in MCBlocks |->
               CASE b = a1 -> Zero [] b \in {a2, b2} -> a1 [] b = a3 -> a2
                 [] b = b3 -> b2 [] b = b4 -> b3]
MCNum    == [b \in MCBlocks |->
               CASE b = a1 -> 1 [] b \in {a2, b2} -> 2 [] b \in {a3, b3} -> 3 [] b = b4 -> 4]
MCTxs    == {t1, t2}
MCBlockTxs == [b \in MCBlocks |->
                 CASE b \in {a2, b3} -> <<t1>> [] b = b4 -> <<t2>> [] OTHER -> <<>>]
(* w2 signs the first fork and w3 the second: neither makes the other's     *)
(* blocks irreversible before b4.                                           *)
MCSigner == [b \in MCBlocks |-> CASE b \in {a1, b4} -> w1 [] b \in {a2, a3} -> w2 [] b \in {b2, b3} -> w3]
Chained    == [t \in MCTxs |-> IF t = t2 THEN {t1} ELSE {}]
=============================================================================
