----------------------------- MODULE Authority ------------------------------
(***************************************************************************)
(* Who may authorise what: sign_state and verify_authority of              *)
(* chain/protocol/transaction.cpp.                                         *)
(*                                                                         *)
(* Accounts and keys are numbers, in the order of the flat_maps that hold  *)
(* them.  An authority is [threshold, keys, accounts]: the weight that is  *)
(* needed, one at least, and the weight each key and account brings.       *)
(* Authorities of addresses and the temp account, which approves           *)
(* everything, are left out.  An account is a record [active, owner].      *)
(***************************************************************************)
EXTENDS Integers, FiniteSets, SequencesExt

CONSTANTS
    Accounts,   \* numbers
    Keys,       \* numbers
    Committee,  \* GRAPHENE_COMMITTEE_ACCOUNT
    MaxDepth,   \* max_authority_depth
    Graphs      \* the authorities that the accounts may have, all together

ASSUME AuthorityAssumption ==
    /\ Accounts \subseteq Nat /\ IsFiniteSet(Accounts) /\ Keys \subseteq Nat
    /\ Committee \in Nat /\ MaxDepth \in Nat

IsAuthority(au) ==
    /\ au.threshold \in Nat \ {0}
    /\ DOMAIN au.keys \subseteq Keys /\ IsFiniteSet(DOMAIN au.keys)
    /\ DOMAIN au.accounts \subseteq Accounts
    /\ \A k \in DOMAIN au.keys : au.keys[k] \in Nat
    /\ \A a \in DOMAIN au.accounts : au.accounts[a] \in Nat

IsGraph(acct) ==
    DOMAIN acct = Accounts /\ \A a \in Accounts : IsAuthority(acct[a].active) /\ IsAuthority(acct[a].owner)

ASSUME GraphAssumption == \A acct \in Graphs : IsGraph(acct)

Sorted(S) ==
    CHOOSE q \in [1 .. Cardinality(S) -> S] : Range(q) = S /\ \A i, j \in DOMAIN q : i < j => q[i] < q[j]

(* State of a check: provided signatures, those used so far, accounts      *)
(* whose approval is established; avail are keys that could sign as well.  *)
SignStates == [provided : SUBSET Keys, used : SUBSET Keys, approved : SUBSET Accounts, avail : SUBSET Keys]

SignState(sigs, approvals, avail) ==
    [provided |-> sigs, used |-> {}, approved |-> approvals, avail |-> avail]

signed_by(s, k) == k \in s.provided \cup s.avail
Mark(s, k)      == [s EXCEPT !.provided = @ \cup {k}, !.used = @ \cup {k}]
Approve(s, a)   == [s EXCEPT !.approved = @ \cup {a}]

(* Keys of the authority, up to the one that reaches the threshold. *)
check_keys(au, s) ==
    LET visit(r, k) ==
            IF r.total >= au.threshold \/ ~ signed_by(r.s, k) THEN r
            ELSE [total |-> r.total + au.keys[k], s |-> Mark(r.s, k)]
    IN  FoldLeft(visit, [total |-> 0, s |-> s], Sorted(DOMAIN au.keys))

(* The end of the check of an authority: what the parts brought, in r. *)
Totalled(au, r) == [ok |-> r.total >= au.threshold, s |-> r.s]

(* mutant: the first account that does not approve ends the check *)
check_accounts_Stops(au, left, deeper, k) ==
    LET visit(r, a) ==
            LET c == deeper[a][r.s]
                add(s) == [r EXCEPT !.total = @ + au.accounts[a], !.s = s]
            IN  IF r.stop \/ r.total >= au.threshold THEN r
                ELSE IF a \in r.s.approved THEN add(r.s)
                ELSE IF left = 0 THEN [r EXCEPT !.stop = TRUE]
                ELSE IF c.ok THEN add(Approve(c.s, a))
                ELSE [r EXCEPT !.s = c.s, !.stop = TRUE]
    IN  Totalled(au, FoldLeft(visit, [total |-> k.total, s |-> k.s, stop |-> FALSE], Sorted(DOMAIN au.accounts)))

(* Accounts of the authority, with k what its keys have brought: one that  *)
(* has approved counts, another is looked at one level deeper.  When no    *)
(* level is left such an account ends the check of the whole authority.    *)
check_accounts(au, left, deeper, k) ==
    LET visit(r, a) ==
            LET c == deeper[a][r.s]
                add(s) == [r EXCEPT !.total = @ + au.accounts[a], !.s = s]
            IN  IF r.stop \/ r.total >= au.threshold THEN r
                ELSE IF a \in r.s.approved THEN add(r.s)
                ELSE IF left = 0 THEN [r EXCEPT !.stop = TRUE]
                ELSE IF c.ok THEN add(Approve(c.s, a))
                ELSE [r EXCEPT !.s = c.s]
    IN  Totalled(au, FoldLeft(visit, [total |-> k.total, s |-> k.s, stop |-> FALSE], Sorted(DOMAIN au.accounts)))

(* The active authority of every account, in every state. *)
check_actives(acct, left, deeper) ==
    [a \in Accounts |-> [s \in SignStates |->
        check_accounts(acct[a].active, left, deeper, check_keys(acct[a].active, s))]]

(* below(acct, left)[a][s] checks the active authority of a in s, when     *)
(* left levels (max_recursion - depth) may follow.                         *)
below(acct, levels) ==
    LET check[left \in 0 .. MaxDepth] == check_actives(acct, left, IF left = 0 THEN <<>> ELSE check[left - 1])
    IN  IF levels < 0 THEN <<>> ELSE check[levels]

(* check_authority(au) at depth 0 *)
check_authority(acct, au, s) == check_accounts(au, MaxDepth, below(acct, MaxDepth - 1), check_keys(au, s))

(* The overload for accounts: an approval stands for the active authority. *)
check_account(acct, a, s) ==
    IF a \in s.approved THEN [ok |-> TRUE, s |-> s] ELSE check_authority(acct, acct[a].active, s)

(* A failed check of the active authority, with what it has found, goes on *)
(* to the owner authority.                                                 *)
OrOwner(acct, a, active) ==
    IF active.ok THEN active ELSE check_authority(acct, acct[a].owner, active.s)

(* Active authority, or else owner authority, of every account in turn. *)
CheckActive(acct, required, s) ==
    LET visit(r, a) == IF r.ok THEN OrOwner(acct, a, check_account(acct, a, r.s)) ELSE r
    IN  FoldLeft(visit, [ok |-> TRUE, s |-> s], Sorted(required))

(* mutant: an approval by active authority counts *)
CheckOwner_AnyApproval(acct, required, approvals, s) ==
    LET visit(r, a) == IF ~ r.ok \/ a \in r.s.approved THEN r ELSE check_authority(acct, acct[a].owner, r.s)
    IN  FoldLeft(visit, [ok |-> TRUE, s |-> s], Sorted(required))

(* The owner authority of every account in turn; only an approval with     *)
(* owner authority stands for it.                                          *)
CheckOwner(acct, required, approvals, s) ==
    LET visit(r, a) == IF ~ r.ok \/ a \in approvals THEN r ELSE check_authority(acct, acct[a].owner, r.s)
    IN  FoldLeft(visit, [ok |-> TRUE, s |-> s], Sorted(required))

(* req: what an operation needs, [active, owner, keys]: accounts, and keys  *)
(* that must all sign.  What the check says: ok, or the exception it       *)
(* throws.                                                                 *)
verify_authority(acct, req, sigs, allow_committee, active_approvals, owner_approvals) ==
    LET s0 == [SignState(sigs, active_approvals \cup owner_approvals, {}) EXCEPT !.used = req.keys]
        s1 == CheckActive(acct, req.active, s0)
        s2 == CheckOwner(acct, req.owner, owner_approvals, s1.s)
    IN  IF ~ allow_committee /\ Committee \in req.active THEN "invalid_committee_approval"
        ELSE IF ~ (req.keys \subseteq sigs) THEN "tx_missing_other_auth"
        ELSE IF ~ s1.ok THEN "tx_missing_active_auth"
        ELSE IF ~ s2.ok THEN "tx_missing_owner_auth"
        ELSE IF sigs # s2.s.used THEN "tx_irrelevant_sig"
        ELSE "ok"

(* mutant: keys needed for owner authorities are left out *)
get_required_signatures_NoOwner(acct, req, available) ==
    LET active(s, a) == check_account(acct, a, s).s
        s0 == [SignState({}, {}, available) EXCEPT !.used = req.keys \cap available]
    IN  FoldLeft(active, s0, Sorted(req.active)).used

(* A subset of the available keys with which to sign. *)
get_required_signatures(acct, req, available) ==
    LET owner(s, a)  == check_authority(acct, acct[a].owner, s).s
        active(s, a) == check_account(acct, a, s).s
        s0 == [SignState({}, {}, available) EXCEPT !.used = req.keys \cap available]
        s1 == FoldLeft(owner, s0, Sorted(req.owner))
    IN  FoldLeft(active, s1, Sorted(req.active)).used

(* Keys are dropped as long as the rest is enough; any other failure of    *)
(* the check leaves the function as an exception.                          *)
minimize_required_signatures(acct, req, available) ==
    LET all == get_required_signatures(acct, req, available)
        visit(r, k) ==
            LET v == verify_authority(acct, req, r.keys \ {k}, FALSE, {}, {})
            IN  CASE r.thrown -> r
                  [] ~ r.thrown /\ v = "ok" -> [r EXCEPT !.keys = @ \ {k}]
                  [] ~ r.thrown /\ v \in {"tx_missing_owner_auth", "tx_missing_active_auth", "tx_missing_other_auth"} -> r
                  [] OTHER -> [r EXCEPT !.thrown = TRUE]
    IN  FoldLeft(visit, [keys |-> all, thrown |-> FALSE], Sorted(all))

-----------------------------------------------------------------------------
(* Reference: the accounts whose active authority the signatures and the   *)
(* approvals satisfy, however deep: the least fixed point of Satisfies.    *)

Weight(au, keys, accounts) ==
    SumFunctionOnSet(au.keys, DOMAIN au.keys \cap keys) + SumFunctionOnSet(au.accounts, DOMAIN au.accounts \cap accounts)

Satisfies(au, keys, accounts) == Weight(au, keys, accounts) >= au.threshold

Granted(acct, keys, S) == S \cup {a \in DOMAIN acct : Satisfies(acct[a].active, keys, S)}

(* Accounts at most n authorities away from the signatures and approvals *)
ApprovingIn(acct, keys, approvals, n) ==
    LET step[i \in 0 .. n] == IF i = 0 THEN approvals ELSE Granted(acct, keys, step[i - 1])
    IN  step[n]

Approving(acct, keys, approvals) == ApprovingIn(acct, keys, approvals, Cardinality(DOMAIN acct))

(* The accounts in S approve; owner authorities are satisfied by those in T. *)
GrantedBy(acct, req, keys, owner_approvals, S, T) ==
    /\ req.keys \subseteq keys
    /\ \A a \in req.active : a \in S \/ Satisfies(acct[a].owner, keys, T)
    /\ \A a \in req.owner  : a \in owner_approvals \/ Satisfies(acct[a].owner, keys, T)

Authorized(acct, req, keys, active_approvals, owner_approvals) ==
    LET S == Approving(acct, keys, active_approvals \cup owner_approvals)
    IN  GrantedBy(acct, req, keys, owner_approvals, S, S)

(* What is authorized within the depth of the check.  Its last level is of *)
(* use for keys only: there, the first account that has not approved ends  *)
(* the check, also if one that has approved comes after it.                *)
AuthorizedWithin(acct, req, keys, active_approvals, owner_approvals) ==
    LET A == active_approvals \cup owner_approvals
        n == IF A = {} THEN MaxDepth + 1 ELSE MaxDepth
        T == IF n = 0 THEN {} ELSE ApprovingIn(acct, keys, A, n - 1)
    IN  GrantedBy(acct, req, keys, owner_approvals, ApprovingIn(acct, keys, A, n), T)
=============================================================================
