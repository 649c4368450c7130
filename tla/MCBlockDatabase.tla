-------------------------- MODULE MCBlockDatabase --------------------------
(* a1 - a2 - a3 and, on a1, b2. *)
EXTENDS BlockDatabase
CONSTANTS a1, a2, a3, b2
MCBlocks == {a1, a2, a3, b2}
MCPrev   == [b \in MCBlocks |-> CASE b = a1 -> Zero [] b \in {a2, b2} -> a1 [] b = a3 -> a2]
MCNum    == [b \in MCBlocks |-> CASE b = a1 -> 1 [] b \in {a2, b2} -> 2 [] b = a3 -> 3]
=============================================================================
