------------------------- MODULE MCWitnessSchedule -------------------------
(* n1 may produce on a stale chain and has w1, which is always elected; n2 *)
(* has the others and needs a recent block after a restart.                *)
EXTENDS WitnessSchedule
CONSTANTS n1, n2, w1, w2, w3
MCWitnesses == {w1, w2, w3}
MCElections == {{w1, w2}, {w1, w3}, {w1}}
MCOwner     == [w \in MCWitnesses |-> IF w = w1 THEN n1 ELSE n2]
=============================================================================
