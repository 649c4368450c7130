----------------------------- MODULE Balances -------------------------------
(***************************************************************************)
(* Funds that are released over time: vesting balances, a balance of the   *)
(* genesis state that is claimed, and a withdraw permission.  The funds    *)
(* belong to the account Owner; Payee may withdraw under the permission    *)
(* and owns the vesting balances.  Operations see the time of the head     *)
(* block; fees are those of module Maintenance and are left out here.      *)
(***************************************************************************)
EXTENDS Vesting, Sequences, Functions

CONSTANTS
    Funds,         \* balance of Owner at the beginning
    Genesis,       \* the genesis balance: [balance, policy, last_claim_date], or None
    Policies,      \* policies that vesting_balance_create may ask for
    Amounts,       \* amounts of operations
    Terms,         \* [limit, period, periods, delay]: permissions that may be asked for
    Day,           \* fc::days(1)
    Interval,      \* block_interval
    None,          \* no object
    MaxVesting,    \* bound: vesting balances created
    MaxUpdates,    \* bound: updates of the permission
    MaxTime        \* bound: time of the last block

Owner == "owner"
Payee == "payee"

ASSUME BalancesAssumption ==
    /\ {Funds, Day, Interval, MaxVesting, MaxUpdates} \subseteq Nat
    /\ MaxTime \in Nat \ {0} /\ Amounts \subseteq Nat \ {0}
    /\ Policies \subseteq [kind : {"linear"}, begin : Nat, cliff : Nat, duration : Nat]
                         \cup [kind : {"cdd"}, seconds : Nat, start_claim : Nat]
    /\ Terms \subseteq [limit : Nat \ {0}, period : Nat \ {0}, periods : Nat \ {0}, delay : Int]

(* What a linear policy may have given by the time t: its share of the     *)
(* elapsed time, and nothing before the cliff.                             *)
LinearGave(p, out, t) ==
    LET elapsed == t - p.begin_timestamp
    IN  out > 0 => /\ elapsed > 0 /\ elapsed >= p.vesting_cliff_seconds
                   /\ \/ elapsed >= p.vesting_duration_seconds
                      \/ out * p.vesting_duration_seconds <= p.begin_balance * elapsed

LinearPolicies == [kind : {"linear"}, begin_timestamp : Nat, vesting_cliff_seconds : Nat,
                   vesting_duration_seconds : Nat, begin_balance : Nat]

(* The genesis state, which init_genesis takes as it is, lacks no more of  *)
(* a balance than its policy has released.                                 *)
ASSUME GenesisAssumption ==
    Genesis # None =>
        /\ Genesis \in [balance : Nat, last_claim_date : Nat, policy : LinearPolicies]
        /\ Genesis.balance <= Genesis.policy.begin_balance
        /\ LinearGave(Genesis.policy, Genesis.policy.begin_balance - Genesis.balance, 1)

VARIABLES
    now,        \* head_block_time
    balance,    \* balance of each account
    vesting,    \* vesting balances by id
    genesis,    \* the genesis balance or None
    permit,     \* withdraw_permission_object or None
    updates,    \* updates of the permission so far
    accrued,    \* history: coin-seconds each vesting balance was held for
    drawn,      \* history: what was withdrawn from each vesting balance
    granted,    \* history: the permission as its owner last signed it
    claims      \* history: what was claimed under it since, by time

vars == <<now, balance, vesting, genesis, permit, updates, accrued, drawn, granted, claims>>

Init ==
    /\ now = 1
    /\ balance = [a \in {Owner, Payee} |-> IF a = Owner THEN Funds ELSE 0]
    /\ vesting = <<>> /\ accrued = <<>> /\ drawn = <<>>
    /\ genesis = Genesis
    /\ permit = None /\ granted = None /\ updates = 0
    /\ claims = [t \in 1 .. MaxTime |-> 0]

Move(amount, from, to) == [balance EXCEPT ![from] = @ - amount, ![to] = @ + amount]

-----------------------------------------------------------------------------
(* vesting_balance_create and vesting_balance_withdraw *)

(* init_policy_visitor: coin-seconds start at zero, a linear policy        *)
(* remembers the whole amount.                                             *)
init_policy(i, amount) ==
    IF i.kind = "linear"
    THEN linear_vesting_policy(i.begin, i.cliff, i.duration, amount)
    ELSE cdd_vesting_policy(i.seconds, i.start_claim, 0, now)

vesting_balance_create(amount, i) ==
    /\ Len(vesting) < MaxVesting
    /\ balance[Owner] >= amount
    /\ balance' = [balance EXCEPT ![Owner] = @ - amount]
    /\ vesting' = Append(vesting, [owner |-> Payee, balance |-> amount, policy |-> init_policy(i, amount)])
    /\ accrued' = Append(accrued, 0) /\ drawn' = Append(drawn, 0)
    /\ UNCHANGED <<now, genesis, permit, updates, granted, claims>>

vesting_balance_withdraw(id, amount) ==
    /\ amount <= get_allowed_withdraw(vesting[id], now)
    /\ vesting' = [vesting EXCEPT ![id] = withdraw(@, now, amount)]
    /\ balance' = [balance EXCEPT ![Payee] = @ + amount]
    /\ drawn' = [drawn EXCEPT ![id] = @ + amount]
    /\ UNCHANGED <<now, genesis, permit, updates, accrued, granted, claims>>

-----------------------------------------------------------------------------
(* balance_claim: once a day what a vesting balance of the genesis state   *)
(* has released; the object goes when all of it is claimed.                *)
balance_claim(amount) ==
    /\ genesis # None
    /\ amount <= get_allowed_withdraw(genesis, now)
    /\ now - genesis.last_claim_date >= Day
    /\ genesis' = IF amount < genesis.balance
                  THEN [withdraw(genesis, now, amount) EXCEPT !.last_claim_date = now] ELSE None
    /\ balance' = [balance EXCEPT ![Owner] = @ + amount]
    /\ UNCHANGED <<now, vesting, permit, updates, accrued, drawn, granted, claims>>

-----------------------------------------------------------------------------
(* Withdraw permissions *)

expires(start, t) == start + t.periods * t.period

Signed(t) == [start |-> now + t.delay, limit |-> t.limit, period |-> t.period]
NoClaims == [t \in 1 .. MaxTime |-> 0]

withdraw_permission_create(t) ==
    /\ permit = None /\ granted = None          \* bound: created once
    /\ t.delay > 0 /\ t.period >= Interval
    /\ permit' = [limit |-> t.limit, period |-> t.period, start |-> now + t.delay,
                  expiration |-> expires(now + t.delay, t), claimed |-> 0]
    /\ granted' = Signed(t) /\ claims' = NoClaims
    /\ UNCHANGED <<now, balance, vesting, genesis, updates, accrued, drawn>>

(* The amount claimed in this period survives the update. *)
withdraw_permission_update(t) ==
    /\ permit # None /\ updates < MaxUpdates
    /\ t.delay >= 0 /\ t.period >= Interval
    /\ permit' = [permit EXCEPT !.limit = t.limit, !.period = t.period, !.start = now + t.delay,
                                !.expiration = expires(now + t.delay, t)]
    /\ updates' = updates + 1
    /\ granted' = Signed(t) /\ claims' = NoClaims
    /\ UNCHANGED <<now, balance, vesting, genesis, accrued, drawn>>

withdraw_permission_delete ==
    /\ permit # None
    /\ permit' = None
    /\ UNCHANGED <<now, balance, vesting, genesis, updates, accrued, drawn, granted, claims>>

(* The remainder of the limit in the period the object is at; the whole    *)
(* limit once that period is over.                                         *)
available_this_period(p) ==
    IF now >= p.start + p.period THEN p.limit
    ELSE IF p.limit > p.claimed THEN p.limit - p.claimed ELSE 0

(* Division of a signed number, which C++ rounds towards zero. *)
Quotient(a, b) == IF a >= 0 THEN a \div b ELSE -((-a) \div b)

(* mutant: the period is not moved on *)
claimed_from_NotMoved(p, amount) ==
    LET periods == Quotient(now - p.start, p.period)
    IN  [p EXCEPT !.claimed = IF periods = 0 THEN @ + amount ELSE amount]

(* The permission's period moves to the one that holds the current time,   *)
(* backwards when the first has not begun.                                 *)
claimed_from(p, amount) ==
    LET periods == Quotient(now - p.start, p.period)
    IN  [p EXCEPT !.start = @ + periods * p.period,
                  !.claimed = IF periods = 0 THEN @ + amount ELSE amount]

withdraw_permission_claim(amount) ==
    /\ permit # None
    /\ permit.expiration > now
    /\ amount <= available_this_period(permit)
    /\ balance[Owner] >= amount
    /\ permit' = claimed_from(permit, amount)
    /\ balance' = Move(amount, Owner, Payee)
    /\ claims' = [claims EXCEPT ![now] = @ + amount]
    /\ UNCHANGED <<now, vesting, genesis, updates, accrued, drawn, granted>>

-----------------------------------------------------------------------------
(* A block: the time moves on and update_withdraw_permissions removes a    *)
(* permission that has expired.                                            *)
Block ==
    /\ now < MaxTime
    /\ now' = now + 1
    /\ permit' = IF permit # None /\ permit.expiration <= now' THEN None ELSE permit
    /\ accrued' = [i \in DOMAIN vesting |-> accrued[i] + vesting[i].balance * (now' - now)]
    /\ UNCHANGED <<balance, vesting, genesis, updates, drawn, granted, claims>>

Next ==
    \/ \E amount \in Amounts, i \in Policies : vesting_balance_create(amount, i)
    \/ \E amount \in Amounts, id \in DOMAIN vesting : vesting_balance_withdraw(id, amount)
    \/ \E amount \in Amounts \cup {0} : balance_claim(amount)
    \/ \E t \in Terms : withdraw_permission_create(t) \/ withdraw_permission_update(t)
    \/ withdraw_permission_delete
    \/ \E amount \in Amounts : withdraw_permission_claim(amount)
    \/ Block

Spec == Init /\ [][Next]_vars

-----------------------------------------------------------------------------
(* Properties *)

(* What a coin-second policy may have given so far: the coin-seconds of    *)
(* the balance as it was held, and nothing before start_claim.             *)
CddGave(id) ==
    LET p == vesting[id].policy
    IN  /\ drawn[id] * Seconds(p) <= accrued[id]
        /\ drawn[id] > 0 => now > p.start_claim

(* No sequence of withdrawals takes more out of a vesting balance than its *)
(* policy has released, and the bounds that vesting_balance_object.cpp     *)
(* asserts hold: what may be withdrawn lies between zero and the balance.  *)
OnlyVested ==
    /\ \A id \in DOMAIN vesting :
          /\ get_allowed_withdraw(vesting[id], now) \in 0 .. vesting[id].balance
          /\ IF vesting[id].policy.kind = "cdd" THEN CddGave(id)
             ELSE LinearGave(vesting[id].policy, drawn[id], now)
    /\ genesis # None =>
          /\ get_allowed_withdraw(genesis, now) \in 0 .. genesis.balance
          /\ LinearGave(genesis.policy, genesis.policy.begin_balance - genesis.balance, now)

(* The k-th period of the permission g that the owner signed, counted from *)
(* its start; negative before it.                                          *)
Period(g, k) ==
    LET first == g.start + k * g.period
    IN  {t \in 1 .. MaxTime : first <= t /\ t < first + g.period}

(* "Any number of withdrawals may be made so long as the total amount      *)
(* withdrawn per period does not exceed the limit for any given period"    *)
(* (protocol/withdraw_permission.hpp): the periods are those that the      *)
(* owner last signed, before the start too.                                *)
LimitPerPeriod ==
    granted # None => \A k \in -MaxTime .. MaxTime :
        SumFunctionOnSet(claims, Period(granted, k)) <= granted.limit
=============================================================================
