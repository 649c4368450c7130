---------------------------- MODULE MCAuthority -----------------------------
(* Instances of AuthorityCheck for TLC. *)
EXTENDS AuthorityCheck

Auths(keys, accounts) ==
    {[threshold |-> t, keys |-> [k \in K |-> 1], accounts |-> [a \in A |-> 1]] :
        t \in 1 .. 2, K \in SUBSET keys, A \in SUBSET accounts}

MCAccounts == 0 .. 2
MCKeys     == 1 .. 2

(* Account 0 depends on 1 and 2, which may depend on each other; the owner *)
(* authorities are keys.                                                   *)
Owner(a) == [threshold |-> 1, keys |-> [k \in {a} \cap MCKeys |-> 1], accounts |-> <<>>]
MCGraphs ==
    {[a \in MCAccounts |-> [active |-> CASE a = 0 -> x [] a = 1 -> y [] a = 2 -> z, owner |-> Owner(a)]] :
        x \in Auths({}, {1, 2}), y \in Auths({1, 2}, {0, 2}), z \in Auths({2}, {0, 1})}
MCRequirements == {[active |-> {0}, owner |-> {}, keys |-> {}], [active |-> {1}, owner |-> {2}, keys |-> {}],
                   [active |-> {0}, owner |-> {}, keys |-> {1}]}
MCApprovals == {{}, {1}, {2}}
=============================================================================
