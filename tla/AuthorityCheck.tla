--------------------------- MODULE AuthorityCheck ---------------------------
(***************************************************************************)
(* The authority check against its reference: the accounts have any        *)
(* authorities of a set of graphs, and one call of verify_authority or     *)
(* minimize_required_signatures is made.                                   *)
(***************************************************************************)
EXTENDS Authority

CONSTANTS
    Requirements,  \* what a transaction may need: [active, owner, keys]
    Approvals      \* approvals a proposal may have

ASSUME CallAssumption ==
    /\ Approvals \subseteq SUBSET Accounts
    /\ \A req \in Requirements :
          req.active \subseteq Accounts /\ req.owner \subseteq Accounts /\ req.keys \subseteq Keys

VARIABLES
    graph,  \* the authorities of the accounts
    call    \* the call that was made and its result

callVars == <<graph, call>>

CallInit == graph \in Graphs /\ call = [kind |-> "none"]

verify(req, keys, active, owner) ==
    /\ call.kind = "none"
    /\ call' = [kind |-> "verify", req |-> req, keys |-> keys, active |-> active, owner |-> owner,
                result |-> verify_authority(graph, req, keys, TRUE, active, owner)]
    /\ UNCHANGED graph

minimize(req, available) ==
    /\ call.kind = "none"
    /\ call' = [kind |-> "minimize", req |-> req, available |-> available,
                result |-> minimize_required_signatures(graph, req, available)]
    /\ UNCHANGED graph

CallNext ==
    \E req \in Requirements, keys \in SUBSET Keys :
        \/ \E active, owner \in Approvals : verify(req, keys, active, owner)
        \/ minimize(req, keys)

CallSpec == CallInit /\ [][CallNext]_callVars

-----------------------------------------------------------------------------
(* The recursive check, which remembers what it has found and stops at a   *)
(* depth, never accepts what the authorities do not grant.                 *)
VerifySound ==
    call.kind = "verify" /\ call.result = "ok"
        => Authorized(graph, call.req, call.keys, call.active, call.owner)

(* What the authorities grant within the depth of the check is accepted,   *)
(* whatever order the check looks at keys and accounts in, unless it comes *)
(* with a signature too many: cycles of authorities do no harm.            *)
VerifyComplete ==
    call.kind = "verify" /\ AuthorizedWithin(graph, call.req, call.keys, call.active, call.owner)
        => call.result \in {"ok", "tx_irrelevant_sig"}

MinimalSet(req, keys) ==
    /\ verify_authority(graph, req, keys, TRUE, {}, {}) = "ok"
    /\ \A k \in keys : verify_authority(graph, req, keys \ {k}, TRUE, {}, {}) # "ok"

(* If the available keys satisfy the active authorities that are needed,   *)
(* and the owner authorities, minimize_required_signatures finds a set of  *)
(* them that passes and from which no key can be spared.  (It never looks  *)
(* for the owner keys that would do in place of active ones.)              *)
MinimizeWorks ==
    (call.kind = "minimize" /\ Authorized(graph, call.req, call.available, {}, {})
     /\ call.req.active \subseteq Approving(graph, call.available, {}))
        => ~ call.result.thrown /\ MinimalSet(call.req, call.result.keys)
=============================================================================
