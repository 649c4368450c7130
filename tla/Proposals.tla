----------------------------- MODULE Proposals ------------------------------
(***************************************************************************)
(* Transactions and proposed transactions: the checks of                   *)
(* database::_apply_transaction, the proposal evaluators, push_proposal,   *)
(* and what the end of a block does to expired transactions and proposals. *)
(*                                                                         *)
(* A transaction carries one operation, a proposal a list of them:         *)
(* transfers, which fail without funds, and changes of an account's active *)
(* authority.  Proposals about proposals, fees and TaPoS are left out.     *)
(* The check of authorities is the one of Authority.                       *)
(***************************************************************************)
EXTENDS Authority

CONSTANTS
    Accts,         \* those at the beginning: [Accounts -> [active, owner]]
    Updates,       \* account_update operations
    Funds,         \* balances at the beginning
    Proposers,     \* accounts that propose, and pay for key approvals
    Proposed,      \* operation lists that may be proposed
    Reviews,       \* review periods that may be asked for; NoReview for none
    MaxLife,       \* maximum_proposal_lifetime
    MinReview,     \* committee_proposal_review_period
    MaxTxLife,     \* maximum_time_until_expiration
    Hardfork,      \* HARDFORK_1_TIME
    MaxTime,       \* bound: time of the last block
    MaxProposals,  \* bound: proposals created
    MaxTx          \* bound: transactions applied

NoReview == -1

Transfer(a, b) == [kind |-> "transfer", payer |-> a, to |-> b]
Update(a, which, au) == [kind |-> "account_update", payer |-> a, which |-> which, au |-> au]

VARIABLES
    time,       \* head_block_time
    st,         \* [acct, balance, proposals]: accounts, balances and proposal objects by id
    next_id,    \* next proposal id
    dedupe,     \* transaction index: [op, exp] of transactions
    done,       \* history: transactions applied
    replayed,   \* history: some transaction was applied twice
    net,        \* history: what the transfers applied so far moved, by account
    executed    \* history: proposals executed

vars == <<time, st, next_id, dedupe, done, replayed, net, executed>>

Init ==
    /\ time = 1
    /\ st = [acct |-> Accts, balance |-> Funds, proposals |-> <<>>]
    /\ next_id = 1
    /\ dedupe = {} /\ done = {} /\ replayed = FALSE
    /\ net = [a \in Accounts |-> 0]
    /\ executed = {}

-----------------------------------------------------------------------------
(* Operations that can be proposed *)

Needs(active, owner, keys) == [active |-> active, owner |-> owner, keys |-> keys]

(* operation_get_required_authorities of a list: the active authority of   *)
(* the payers, the owner authority to change an owner authority.           *)
required(ops) ==
    Needs({ops[i].payer : i \in DOMAIN ops},
          {ops[i].payer : i \in {j \in DOMAIN ops : ops[j].kind = "account_update" /\ ops[j].which = "owner"}}, {})

(* A transfer goes to another account (validate); an update leads to       *)
(* authorities that the accounts may have.                                 *)
Valid(op) ==
    /\ op.payer \in Accounts
    /\ \/ op.kind = "transfer" /\ op.to \in Accounts \ {op.payer}
       \/ op.kind = "account_update" /\ \A g \in Graphs : [g EXCEPT ![op.payer][op.which] = op.au] \in Graphs

ASSUME ProposalsAssumption ==
    /\ Accts \in Graphs /\ Funds \in [Accounts -> Nat] /\ Proposers \subseteq Accounts
    /\ \A op \in Updates : op.kind = "account_update" /\ Valid(op)
    /\ \A ops \in Proposed : ops \in Seq(Range(ops)) /\ \A op \in Range(ops) : Valid(op)
    /\ Reviews \subseteq Nat \cup {NoReview}
    /\ {MaxLife, MinReview, MaxTxLife, Hardfork, MaxTime, MaxProposals, MaxTx} \subseteq Nat

can_apply(s, op) == op.kind = "transfer" => s.balance[op.payer] > 0

apply_operation(s, op) ==
    CASE op.kind = "transfer" -> [s EXCEPT !.balance[op.payer] = @ - 1, !.balance[op.to] = @ + 1]
      [] op.kind = "account_update" -> [s EXCEPT !.acct[op.payer][op.which] = op.au]

(* The operations in turn, up to the first that fails. *)
apply_operations(s, ops) ==
    LET visit(r, op) == IF r.ok /\ can_apply(r.s, op) THEN [r EXCEPT !.s = apply_operation(@, op)]
                        ELSE [r EXCEPT !.ok = FALSE]
    IN  FoldLeft(visit, [ok |-> TRUE, s |-> s], ops)

(* Net effect of the transfers in a list *)
Moved(n, ops) ==
    FoldLeft(LAMBDA m, op : IF op.kind # "transfer" THEN m
                            ELSE [m EXCEPT ![op.payer] = @ - 1, ![op.to] = @ + 1], n, ops)

-----------------------------------------------------------------------------
(* Proposal objects: ops, exp, review (time at which the review begins, or *)
(* NoReview), the available approvals active, owner and keys.              *)

is_authorized_to_execute(s, id) ==
    LET p == s.proposals[id]
    IN  verify_authority(s.acct, required(p.ops), p.keys, TRUE, p.active, p.owner) = "ok"

remove(s, id) == [s EXCEPT !.proposals = Restrict(@, DOMAIN @ \ {id})]

(* mutant: what the proposal did before it failed is kept *)
push_proposal_NoUndo(s, id) ==
    LET r == apply_operations(s, s.proposals[id].ops)
    IN  IF r.ok THEN [ok |-> TRUE, s |-> remove(r.s, id)] ELSE [ok |-> FALSE, s |-> r.s]

(* All operations and the removal of the proposal, or nothing. *)
push_proposal(s, id) ==
    LET r == apply_operations(s, s.proposals[id].ops)
    IN  IF r.ok THEN [ok |-> TRUE, s |-> remove(r.s, id)] ELSE [ok |-> FALSE, s |-> s]

(* History of the execution of proposal id in state s at time t. *)
Execution(s, id, t) ==
    LET p == s.proposals[id]
    IN  [id |-> id, at |-> t, exp |-> p.exp, review |-> p.review,
         authorized |-> Authorized(s.acct, required(p.ops), p.keys, p.active, p.owner)]

-----------------------------------------------------------------------------
Latest == time + MaxTxLife

(* A transaction that carries op, needs what req says and expires at exp.  *)
(* Somebody signs it with some keys.                                       *)
_apply_transaction(op, req, exp) ==
    LET tx == [op |-> op, exp |-> exp]
    IN  /\ Cardinality(done) < MaxTx
        /\ tx \notin dedupe
        /\ \E sigs \in SUBSET Keys : verify_authority(st.acct, req, sigs, FALSE, {}, {}) = "ok"
        /\ exp <= Latest /\ time <= exp
        /\ dedupe' = dedupe \cup {tx}
        /\ done' = done \cup {tx}
        /\ replayed' = (replayed \/ tx \in done)
        /\ UNCHANGED time

transfer(a, b, exp) ==
    LET op == Transfer(a, b)
    IN  /\ can_apply(st, op)
        /\ _apply_transaction(op, required(<<op>>), exp)
        /\ st' = apply_operation(st, op)
        /\ net' = Moved(net, <<op>>)
        /\ UNCHANGED <<next_id, executed>>

account_update(op) ==
    /\ _apply_transaction(op, required(<<op>>), Latest)
    /\ st' = apply_operation(st, op)
    /\ UNCHANGED <<next_id, net, executed>>

proposal_create(payer, ops, exp, review) ==
    /\ next_id <= MaxProposals
    /\ time < Hardfork
    /\ exp > time /\ exp <= time + MaxLife
    /\ review # NoReview => review < exp - time
    /\ Committee \in required(ops).active \cup required(ops).owner => review >= MinReview
    /\ _apply_transaction([kind |-> "create", payer |-> payer, ops |-> ops, exp |-> exp, review |-> review],
                          Needs({payer}, {}, {}), Latest)
    /\ LET p == [ops |-> ops, exp |-> exp, active |-> {}, owner |-> {}, keys |-> {},
                 review |-> IF review = NoReview THEN NoReview ELSE exp - review]
       IN  st' = [st EXCEPT !.proposals = [id \in DOMAIN @ \cup {next_id} |-> IF id = next_id THEN p ELSE @[id]]]
    /\ next_id' = next_id + 1
    /\ UNCHANGED <<net, executed>>

InReview(p, t) == p.review # NoReview /\ t >= p.review

(* mutant: approvals may be added during the review *)
may_update_InReview(p, field, who, add) == add \/ who \in p[field]

(* No new approval once the review has begun; only an approval that is     *)
(* there can be withdrawn (keys need not be there).                        *)
may_update(p, field, who, add) ==
    /\ add /\ field # "keys" => ~ InReview(p, time)
    /\ ~ add /\ field # "keys" => who \in p[field]

(* mutant: the review is not waited for *)
executes_now_Always(p) == TRUE

(* A proposal with a review is executed when it expires and not before. *)
executes_now(p) == p.review = NoReview

(* One approval is added or withdrawn; a proposal without review is then   *)
(* executed if that is enough.  If it fails it waits for its expiration.   *)
proposal_update(id, payer, field, who, add) ==
    LET p  == st.proposals[id]
        s1 == [st EXCEPT !.proposals[id][field] = IF add THEN @ \cup {who} ELSE @ \ {who}]
        go == executes_now(p) /\ is_authorized_to_execute(s1, id)
        r  == push_proposal(s1, id)
        req == CASE field = "active" -> Needs({payer, who}, {}, {})
                 [] field = "owner"  -> Needs({payer}, {who}, {})
                 [] field = "keys"   -> Needs({payer}, {}, {who})
    IN  /\ time < Hardfork
        /\ may_update(p, field, who, add)
        /\ _apply_transaction([kind |-> "update", id |-> id, payer |-> payer, field |-> field, who |-> who, add |-> add],
                              req, Latest)
        /\ st' = IF go THEN r.s ELSE s1
        /\ net' = IF go /\ r.ok THEN Moved(net, p.ops) ELSE net
        /\ executed' = IF go /\ r.ok THEN executed \cup {Execution(s1, id, time)} ELSE executed
        /\ UNCHANGED next_id

(* The payer is one whose active, or whose owner, authority is required;   *)
(* the active authority of the payer is enough either way.                 *)
proposal_delete(id, payer, using_owner) ==
    /\ time < Hardfork
    /\ LET req == required(st.proposals[id].ops)
       IN  payer \in IF using_owner THEN req.owner ELSE req.active \ req.owner
    /\ _apply_transaction([kind |-> "delete", id |-> id, payer |-> payer, owner |-> using_owner],
                          Needs({payer}, {}, {}), Latest)
    /\ st' = remove(st, id)
    /\ UNCHANGED <<next_id, net, executed>>

-----------------------------------------------------------------------------
(* The end of a block *)

(* mutant: records go at the moment of expiration *)
clear_expired_transactions_Early(t) == IF \A d \in dedupe : t >= d.exp THEN {} ELSE dedupe

(* The record that expires last is looked at first: nothing is removed     *)
(* while there is one that has not expired.                                *)
clear_expired_transactions(t) == IF \A d \in dedupe : t > d.exp THEN {} ELSE dedupe

(* mutant: a proposal outlives its expiration time *)
expired_Strict(t) == {id \in DOMAIN st.proposals : st.proposals[id].exp < t}

expired(t) == {id \in DOMAIN st.proposals : st.proposals[id].exp <= t}

(* proposal_index by_expiration, which is not unique: proposals that       *)
(* expire together are in the order in which they were inserted, that of   *)
(* their ids.  (The undo of a removal inserts one again, behind its        *)
(* equals; no block is undone here.)                                       *)
earlier(i, j) ==
    LET p == st.proposals[i] q == st.proposals[j] IN p.exp < q.exp \/ (p.exp = q.exp /\ i < j)

by_expiration(S) ==
    CHOOSE s \in [1 .. Cardinality(S) -> S] :
        Range(s) = S /\ \A i, j \in DOMAIN s : i < j => earlier(s[i], s[j])

(* Expired proposals, in order of expiration, are executed if they are     *)
(* authorised, and removed in any case.                                    *)
clear_expired_proposals(t) ==
    LET visit(r, id) ==
            LET x == push_proposal(r.s, id)
            IN  IF ~ is_authorized_to_execute(r.s, id) THEN [r EXCEPT !.s = remove(@, id)]
                ELSE IF ~ x.ok THEN [r EXCEPT !.s = remove(x.s, id)]
                ELSE [s |-> x.s, net |-> Moved(r.net, st.proposals[id].ops),
                      executed |-> r.executed \cup {Execution(r.s, id, t)}]
    IN  FoldLeft(visit, [s |-> st, net |-> net, executed |-> executed], by_expiration(expired(t)))

_apply_block ==
    /\ time < MaxTime
    /\ time' = time + 1
    /\ dedupe' = clear_expired_transactions(time')
    /\ LET r == clear_expired_proposals(time')
       IN  st' = r.s /\ net' = r.net /\ executed' = r.executed
    /\ UNCHANGED <<next_id, done, replayed>>

Next ==
    \/ \E a, b \in Accounts, exp \in 1 .. MaxTime : a # b /\ transfer(a, b, exp)
    \/ \E op \in Updates : account_update(op)
    \/ \E payer \in Proposers, ops \in Proposed, exp \in 1 .. MaxTime, review \in Reviews :
          proposal_create(payer, ops, exp, review)
    \/ \E id \in DOMAIN st.proposals, add \in BOOLEAN :
          \/ \E a \in Accounts, field \in {"active", "owner"} : proposal_update(id, a, field, a, add)
          \/ \E a \in Proposers, k \in Keys : proposal_update(id, a, "keys", k, add)
    \/ \E id \in DOMAIN st.proposals, payer \in Accounts :
          \E using_owner \in BOOLEAN : proposal_delete(id, payer, using_owner)
    \/ _apply_block

(* Blocks go on being applied: weak fairness of _apply_block, written out. *)
Fairness == <>[](time < MaxTime) => []<><<_apply_block>>_vars

Spec == Init /\ [][Next]_vars /\ Fairness

-----------------------------------------------------------------------------
(* No transaction is applied twice, whenever it expires. *)
NoReplay == ~ replayed

(* A proposal is executed only when the approvals it has then satisfy the  *)
(* authorities of the accounts as they are then, at most once, and, if a   *)
(* review was asked for, not before it expires.                            *)
ExecutedRightly ==
    /\ \A e \in executed : e.authorized /\ (e.review # NoReview => e.at >= e.exp)
    /\ \A e, f \in executed : e.id = f.id => e = f
    /\ \A e \in executed : e.id \notin DOMAIN st.proposals

(* Proposals that fail half way leave no trace: the balances are what the  *)
(* transfers that were applied, and the proposals executed, make them.     *)
LedgerMatchesHistory == \A a \in Accounts : st.balance[a] = Funds[a] + net[a]

(* Approvals, once the review of a proposal has begun, can only be         *)
(* withdrawn: a signer sees all that will count at its expiration.         *)
ReviewFreezes ==
    [][\A id \in DOMAIN st.proposals \cap DOMAIN st.proposals' :
          InReview(st.proposals[id], time) =>
            /\ st.proposals'[id].active \subseteq st.proposals[id].active
            /\ st.proposals'[id].owner \subseteq st.proposals[id].owner]_vars

(* Every proposal is executed, deleted or dropped in the end. *)
ProposalsEnd == \A id \in 1 .. MaxProposals : [](id \in DOMAIN st.proposals => <>(id \notin DOMAIN st.proposals))
=============================================================================
