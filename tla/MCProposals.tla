---------------------------- MODULE MCProposals -----------------------------
(* Instances of Proposals for TLC. *)
EXTENDS Proposals

Auth(threshold, keys, accounts) ==
    [threshold |-> threshold, keys |-> [k \in keys |-> 1], accounts |-> [a \in accounts |-> 1]]

(* 0 is the committee, controlled by 1 and 2 together; 2 is controlled by  *)
(* its key or by 1.                                                        *)
MCAccounts == 0 .. 2
MCKeys     == 1 .. 2
MCAccts ==
    (0 :> [active |-> Auth(2, {}, {1, 2}), owner |-> Auth(2, {}, {1, 2})]) @@
    (1 :> [active |-> Auth(1, {1}, {}),    owner |-> Auth(1, {1}, {})]) @@
    (2 :> [active |-> Auth(1, {2}, {1}),   owner |-> Auth(1, {2}, {})])
MCUpdates  == {Update(1, "active", Auth(1, {2}, {2}))}
MCGraphs   ==
    {[MCAccts EXCEPT ![1] = [active |-> a, owner |-> o]] :
        a \in {Auth(1, {1}, {}), Auth(1, {2}, {2})}, o \in {Auth(1, {1}, {}), Auth(1, {2}, {})}}
MCFunds    == [a \in MCAccounts |-> IF a = 1 THEN 1 ELSE 0]
MCProposed == {<<Transfer(1, 2), Transfer(1, 2)>>, <<Transfer(0, 1)>>,
               <<Transfer(2, 1), Update(1, "owner", Auth(1, {2}, {}))>>}
MCReviews  == {NoReview, 1}
=============================================================================
