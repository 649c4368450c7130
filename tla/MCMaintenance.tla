--------------------------- MODULE MCMaintenance ----------------------------
(* ann was registered by zoe, a lifetime member, and referred by bob, whose *)
(* membership ends at time 3; her lifetime referrer is the committee.       *)
EXTENDS Maintenance
MCByName == <<"ann", "bob", "committee", "zoe">>
MCMembers == [a \in {"ann", "bob", "committee", "zoe"} |->
                CASE a = "ann" -> 0 [] a = "bob" -> 3 [] OTHER -> Forever]
By(registrar, referrer, lifetime) ==
    [registrar |-> registrar, referrer |-> referrer, lifetime_referrer |-> lifetime]
MCReferral == [a \in {"ann", "bob", "committee", "zoe"} |->
                 CASE a = "ann" -> By("zoe", "bob", "committee") [] a = "bob" -> By("zoe", "zoe", "zoe")
                   [] OTHER -> By(a, a, a)]
MCFunds == [a \in {"ann", "bob", "committee", "zoe"} |->
              CASE a = "ann" -> 6 [] a = "bob" -> 2 [] a = "zoe" -> 2 [] OTHER -> 0]
Params(seconds, max) == [cashback_seconds |-> seconds, maximum_witness_count |-> max]
MCParameters == <<Params(2, 5), Params(1, 2)>>
MCCandidates == <<"ann", "bob", "zoe">>
Opinion(proxy, votes, n) == [proxy |-> proxy, votes |-> votes, num_witness |-> n]
MCOptions == {Opinion("ann", {1, 3}, 2), Opinion("zoe", {}, 0)}
MCFirstOptions == [a \in {"ann", "bob", "committee", "zoe"} |->
                     CASE a = "ann" -> Opinion(a, {1}, 1) [] a = "bob" -> Opinion(a, {1, 2, 3}, 3)
                       [] a = "zoe" -> Opinion(a, {2, 3}, 2) [] OTHER -> Opinion(a, {}, 0)]
=============================================================================
