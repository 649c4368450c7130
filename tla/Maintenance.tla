---------------------------- MODULE Maintenance -----------------------------
(***************************************************************************)
(* The core asset and the maintenance of the chain: fees and cashback, the *)
(* pay of witnesses, the budget, the vote and the change of parameters     *)
(* (db_maint.cpp, db_balance.cpp, account_object.cpp), together with the   *)
(* operations that move core: transfer, vesting_balance_withdraw,          *)
(* account_upgrade and account_balance_migrate.                            *)
(*                                                                         *)
(* Coins are small numbers; percentages are of Hundred.  Orders and other  *)
(* assets cannot be created in this code and are left out, and so are the  *)
(* committee, top-holder authorities and fee-backed assets.                *)
(***************************************************************************)
EXTENDS Vesting, SequencesExt

CONSTANTS
    ByName,        \* the accounts in the order of their names
    Blockchain,    \* the accounts of the chain itself, which get no cashback
    Members,       \* membership_expiration_date at the beginning, by account
    Referral,      \* [registrar, referrer, lifetime_referrer] at the beginning, by account
    Funds,         \* balances at the beginning
    MaxSupply,     \* max_supply of core
    Hundred, NetworkPercent, LifetimePercent, ReferrerPercent,
    Threshold,     \* cashback_vesting_threshold
    PaySeconds,    \* witness_pay_vesting_seconds
    CycleRate, CycleScale,   \* GRAPHENE_CORE_ASSET_CYCLE_RATE, two to its BITS
    Interval,      \* maintenance_interval
    MinWitnesses,  \* min_witness_count
    CountNonMembers,  \* count_non_member_votes
    WeightBits,    \* bits of the largest weight of an authority, less one
    Parameters,    \* [cashback_seconds, maximum_witness_count] that may be set, the first at the beginning
    Candidates,    \* the accounts of the witnesses in the order of their vote ids
    Options,       \* [proxy, votes, num_witness] that accounts may choose
    FirstOptions,  \* those at the beginning, by account
    Hardfork1, Hardfork2, Hardfork3,
    Amounts, Fees, \* amounts and fees of operations
    Forever,       \* time_point_sec::maximum()
    None,          \* no vesting balance
    MaxGap,        \* bound: slots between two blocks
    MaxOps,        \* bound: operations
    MaxTime        \* bound: time of the last block

Accounts == Range(ByName)
Never == 0          \* a default time_point_sec
GenesisTime == 1    \* initial_timestamp, the head block's time before the first block

ASSUME MaintenanceAssumption ==
    /\ ByName \in Seq(Accounts) /\ Candidates \in Seq(Accounts) /\ Blockchain \subseteq Accounts
    /\ Members \in [Accounts -> Nat] /\ Forever \in Nat
    /\ Referral \in [Accounts -> [registrar : Accounts, referrer : Accounts, lifetime_referrer : Accounts]]
    /\ Hundred \in Nat \ {0} /\ {NetworkPercent, LifetimePercent, ReferrerPercent} \subseteq Nat
    /\ NetworkPercent + LifetimePercent <= Hundred /\ ReferrerPercent <= Hundred
    /\ {Threshold, PaySeconds, CycleRate, MinWitnesses, WeightBits} \subseteq Nat
    /\ {CycleScale, Interval, MaxGap} \subseteq Nat \ {0} /\ CountNonMembers \in BOOLEAN
    /\ Parameters \in Seq([cashback_seconds : Nat, maximum_witness_count : Nat]) /\ Parameters # <<>>
    /\ Amounts \subseteq Nat /\ Fees \subseteq Nat /\ {MaxOps, MaxTime} \subseteq Nat
    /\ {Hardfork1, Hardfork2, Hardfork3} \subseteq Nat
    /\ Hardfork1 <= Hardfork2 /\ Hardfork2 <= Hardfork3

(* What accounts may ask for: a proxy, itself or another account, the      *)
(* candidates they vote for and a number of witnesses.                     *)
Opinions == [proxy : Accounts, votes : SUBSET Nat, num_witness : Nat]

ASSUME OptionsAssumption == Options \subseteq Opinions /\ FirstOptions \in [Accounts -> Opinions]

(* The genesis state does not hand out more than it allows, which          *)
(* init_genesis takes as it is.                                            *)
ASSUME GenesisAssumption ==
    Funds \in [Accounts -> Nat] /\ MaxSupply \in Nat /\ SumFunction(Funds) <= MaxSupply

VARIABLES
    now,       \* head_block_time
    led,       \* the ledger: see LedgerInit
    dpo,       \* [witness_budget, witness_pay_per_block, last_budget_time, next_maintenance_time]
    params,    \* parameters of the chain
    pending,   \* pending_parameters, a set of at most one
    options,   \* account_options by account
    active,    \* [witnesses, auth]: active_witnesses and the active authority of the witness account
    vote,      \* history: what the last vote counted
    ops        \* number of operations so far

vars == <<now, led, dpo, params, pending, options, active, vote, ops>>

LedgerInit ==
    [balance |-> Funds,
     pending_fees |-> [a \in Accounts |-> 0], pending_vested_fees |-> [a \in Accounts |-> 0],
     vbs |-> <<>>,                                    \* vesting balances by id
     cashback_vb |-> [a \in Accounts |-> None],
     pay_vb |-> [a \in Accounts |-> None],            \* by the account of the witness
     member |-> Members, referral |-> Referral,
     lifetime_percent |-> [a \in Accounts |-> LifetimePercent],
     current_supply |-> SumFunction(Funds), accumulated_fees |-> 0]

-----------------------------------------------------------------------------
(* Fees *)

cut_fee(a, p) == (a * p) \div Hundred

(* account_statistics_object::pay_fee, and the deduction at the end of     *)
(* evaluator::apply.                                                       *)
pay_fee(l, a, fee) ==
    IF fee > Threshold THEN [l EXCEPT !.pending_fees[a] = @ + fee, !.balance[a] = @ - fee]
                       ELSE [l EXCEPT !.pending_vested_fees[a] = @ + fee, !.balance[a] = @ - fee]

(* The policy a lazy deposit creates: one that need not vest starts with   *)
(* the coin-seconds of its amount.                                         *)
lazy_policy(amount, seconds, require_vesting, t) ==
    cdd_vesting_policy(seconds, Never, IF require_vesting THEN 0 ELSE amount * seconds, t)

(* deposit_lazy_vesting: [l, id], the ledger and the object deposited to.  *)
(* An object with another vesting time is left alone and a new one made.   *)
deposit_lazy_vesting(l, id, amount, seconds, owner, require_vesting, t) ==
    IF id # None /\ l.vbs[id].policy.vesting_seconds = seconds
    THEN [l |-> [l EXCEPT !.vbs[id] = deposit(@, t, amount, require_vesting)], id |-> id]
    ELSE [l  |-> [l EXCEPT !.vbs = Append(@, [owner |-> owner, balance |-> amount,
                                              policy |-> lazy_policy(amount, seconds, require_vesting, t)])],
          id |-> Len(l.vbs) + 1]

deposit_cashback(l, a, amount, require_vesting, t) ==
    IF amount = 0 THEN l
    ELSE IF a \in Blockchain THEN [l EXCEPT !.current_supply = @ - amount]
    ELSE LET d == deposit_lazy_vesting(l, l.cashback_vb[a], amount, params.cashback_seconds, a, require_vesting, t)
         IN  [d.l EXCEPT !.cashback_vb[a] = d.id]

deposit_witness_pay(l, a, amount, t) ==
    IF amount = 0 THEN l
    ELSE LET d == deposit_lazy_vesting(l, l.pay_vb[a], amount, PaySeconds, a, TRUE, t)
         IN  [d.l EXCEPT !.pay_vb[a] = d.id]

is_member(l, a, t) == t <= l.member[a]

(* mutant: the shares are cut one by one from the total *)
pay_out_fees_Rounds(l, a, total, require_vesting, t) ==
    LET r == l.referral[a]
        rest == Hundred - NetworkPercent - l.lifetime_percent[a]
        l1 == [l EXCEPT !.accumulated_fees = @ + cut_fee(total, NetworkPercent)]
        l2 == deposit_cashback(l1, r.lifetime_referrer, cut_fee(total, l.lifetime_percent[a]), require_vesting, t)
    IN  deposit_cashback(l2, r.registrar, cut_fee(total, rest), require_vesting, t)

(* pay_out_fees: a referrer that is no longer a member is replaced by the  *)
(* lifetime referrer, the shares are cut and deposited.                    *)
pay_out_fees(l, a, total, require_vesting, t) ==
    LET old == l.referral[a]
        r == [old EXCEPT !.referrer = IF is_member(l, @, t) THEN @ ELSE old.lifetime_referrer]
        network_cut == cut_fee(total, NetworkPercent)
        lifetime_cut == cut_fee(total, l.lifetime_percent[a])
        referral == total - network_cut - lifetime_cut
        referrer_cut == cut_fee(referral, ReferrerPercent)
        l1 == [l EXCEPT !.referral[a] = r, !.accumulated_fees = @ + network_cut]
        l2 == deposit_cashback(l1, r.lifetime_referrer, lifetime_cut, require_vesting, t)
        l3 == deposit_cashback(l2, r.referrer, referrer_cut, require_vesting, t)
    IN  deposit_cashback(l3, r.registrar, referral - referrer_cut, require_vesting, t)

process_fees(l, a, t) ==
    IF l.pending_fees[a] = 0 /\ l.pending_vested_fees[a] = 0 THEN l
    ELSE LET paid == pay_out_fees(pay_out_fees(l, a, l.pending_fees[a], TRUE, t),
                                  a, l.pending_vested_fees[a], FALSE, t)
         IN  [paid EXCEPT !.pending_fees[a] = 0, !.pending_vested_fees[a] = 0]

-----------------------------------------------------------------------------
(* The vote *)

(* mutant: fees that are still to be paid out vote as well *)
voting_stake_Pending(l, a) ==
    l.balance[a] + l.pending_fees[a] + l.pending_vested_fees[a]
      + (IF l.cashback_vb[a] = None THEN 0 ELSE l.vbs[l.cashback_vb[a]].balance)

voting_stake(l, a) ==
    l.balance[a] + (IF l.cashback_vb[a] = None THEN 0 ELSE l.vbs[l.cashback_vb[a]].balance)

(* perform_account_maintenance: account by account, in the order of their  *)
(* names, the stake is counted and then the fees are paid out.             *)
perform_account_maintenance(l, t) ==
    FoldLeft(LAMBDA acc, a :
               [l |-> process_fees(acc.l, a, t),
                stake |-> IF CountNonMembers \/ is_member(acc.l, a, t)
                          THEN [acc.stake EXCEPT ![a] = voting_stake(acc.l, a)] ELSE acc.stake],
             [l |-> l, stake |-> [a \in Accounts |-> 0]], ByName)

(* The account whose opinion a stake follows: its own or its proxy's. *)
opinion(a) == IF options[a].proxy = a THEN options[a] ELSE options[options[a].proxy]

Stake(stake, S) == SumFunctionOnSet(stake, S)

vote_tally(stake, w) == Stake(stake, {a \in Accounts : w \in opinion(a).votes})

(* The accounts in one bar of the histogram of witness counts; those that  *)
(* ask for more than maximum_witness_count are in none.                    *)
histogram_bar(k) ==
    {a \in Accounts : /\ opinion(a).num_witness <= params.maximum_witness_count
                      /\ min(opinion(a).num_witness \div 2, params.maximum_witness_count \div 2) = k}

(* mutant: accounts without an opinion raise the target *)
witness_count_AllStake(stake) ==
    LET last == params.maximum_witness_count \div 2
        stake_target == Stake(stake, Accounts) \div 2
        enough == {c \in 1 .. last : Stake(stake, UNION {histogram_bar(k) : k \in 1 .. c}) > stake_target}
    IN  IF stake_target = 0 THEN 0 ELSE IF enough = {} THEN last ELSE Min(enough)

(* Half the number of witnesses: the bars are added from the second on     *)
(* until they exceed half of the stake that is not in the first.           *)
witness_count(stake) ==
    LET last == params.maximum_witness_count \div 2
        stake_target == (Stake(stake, Accounts) - Stake(stake, histogram_bar(0))) \div 2
        enough == {c \in 1 .. last : Stake(stake, UNION {histogram_bar(k) : k \in 1 .. c}) > stake_target}
    IN  IF stake_target = 0 THEN 0 ELSE IF enough = {} THEN last ELSE Min(enough)

(* More votes first, then the smaller vote id. *)
before(stake, i, j) ==
    LET vi == vote_tally(stake, i) vj == vote_tally(stake, j) IN vi > vj \/ (vi = vj /\ i < j)

(* The first count candidates in that order: fewer than count are before   *)
(* each of them.                                                           *)
sort_votable_objects(stake, count) ==
    {w \in DOMAIN Candidates : Cardinality({v \in DOMAIN Candidates : before(stake, v, w)}) < count}

(* vote_counter: votes scaled so that the first fits the weight type, and  *)
(* a threshold of more than half; nothing is written without votes.        *)
msb(v) == CHOOSE k \in 0 .. v : 2 ^ k <= v /\ v < 2 ^ (k + 1)

vote_counter(stake, wits, old) ==
    LET voted == {w \in wits : vote_tally(stake, w) > 0}
        bits == msb(Max({vote_tally(stake, w) : w \in voted})) - WeightBits
        shift == IF bits > 0 THEN bits ELSE 0
        scaled(w) == LET v == vote_tally(stake, w) \div 2 ^ shift IN IF v > 1 THEN v ELSE 1
        weights == [w \in voted |-> scaled(w)]
    IN  IF voted = {} THEN old
        ELSE [weights |-> weights, threshold |-> SumFunction(weights) \div 2 + 1]

update_active_witnesses(stake, old) ==
    LET c == witness_count(stake)
        wanted == IF 2 * c + 1 > MinWitnesses THEN 2 * c + 1 ELSE MinWitnesses
        wits == sort_votable_objects(stake, wanted)
    IN  [witnesses |-> wits, auth |-> vote_counter(stake, wits, old.auth)]

-----------------------------------------------------------------------------
(* The budget *)

(* mutant: the budget of a long interval exceeds the reserve *)
total_budget_NoCap(l, d, t) ==
    LET from_initial_reserve == IF t >= Hardfork3 THEN 0 ELSE MaxSupply - l.current_supply
        reserve == from_initial_reserve + l.accumulated_fees + d.witness_budget
    IN  IF d.last_budget_time = Never \/ t <= d.last_budget_time THEN 0
        ELSE (reserve * (t - d.last_budget_time) * CycleRate + CycleScale - 1) \div CycleScale

(* The reserve is what is not in circulation, with the fees and the unused *)
(* budget that return to it; Hardfork3 leaves only the latter.             *)
total_budget(l, d, t) ==
    LET from_initial_reserve == IF t >= Hardfork3 THEN 0 ELSE MaxSupply - l.current_supply
        reserve == from_initial_reserve + l.accumulated_fees + d.witness_budget
        share == (reserve * (t - d.last_budget_time) * CycleRate + CycleScale - 1) \div CycleScale
    IN  IF d.last_budget_time = Never \/ t <= d.last_budget_time THEN 0 ELSE min(share, reserve)

process_budget(l, d, t) ==
    LET witness_budget == total_budget(l, d, t)
        blocks_to_maint == d.next_maintenance_time - t
    IN  [l |-> [l EXCEPT !.current_supply = @ + witness_budget - l.accumulated_fees - d.witness_budget,
                         !.accumulated_fees = 0],
         d |-> [d EXCEPT !.witness_budget = witness_budget,
                         !.witness_pay_per_block = witness_budget \div blocks_to_maint,
                         !.last_budget_time = t]]

(* The first block goes to the next multiple of the interval, later ones   *)
(* move on by whole intervals to a time in the future.                     *)
next_maintenance_time(d, t) ==
    IF now = GenesisTime THEN (t \div Interval + 1) * Interval
    ELSE d.next_maintenance_time + ((t - d.next_maintenance_time) \div Interval + 1) * Interval

-----------------------------------------------------------------------------
(* Steps *)

perform_chain_maintenance(l, d, t) ==
    LET done == perform_account_maintenance(l, t)
        b == process_budget(done.l, [d EXCEPT !.next_maintenance_time = next_maintenance_time(d, t)], t)
    IN  /\ led' = b.l /\ dpo' = b.d
        /\ active' = update_active_witnesses(done.stake, active)
        /\ params' = IF pending = {} THEN params ELSE CHOOSE p \in pending : TRUE
        /\ pending' = {}
        /\ vote' = [stake |-> done.stake, opinion |-> [a \in Accounts |-> opinion(a)],
                    max |-> params.maximum_witness_count,
                    count |-> witness_count(done.stake), supply |-> done.l.current_supply]

(* _apply_block: the signing witness is paid out of the budget, and the    *)
(* maintenance runs when its time has come.                                *)
Block(w, gap) ==
    LET t == now + gap
        witness_pay == min(dpo.witness_pay_per_block, dpo.witness_budget)
        l == deposit_witness_pay(led, Candidates[w], witness_pay, t)
        d == [dpo EXCEPT !.witness_budget = @ - witness_pay]
    IN  /\ t <= MaxTime
        /\ now' = t
        /\ IF dpo.next_maintenance_time <= t THEN perform_chain_maintenance(l, d, t)
           ELSE led' = l /\ dpo' = d /\ UNCHANGED <<params, pending, active, vote>>
        /\ UNCHANGED <<options, ops>>

Op == ops < MaxOps /\ ops' = ops + 1 /\ UNCHANGED <<now, dpo, params, active, vote>>

transfer(from, to, amount, fee) ==
    /\ Op /\ now < Hardfork1
    /\ led.balance[from] >= amount + fee
    /\ led' = [pay_fee(led, from, fee) EXCEPT !.balance[from] = @ - amount, !.balance[to] = @ + amount]
    /\ UNCHANGED <<pending, options>>

vesting_balance_withdraw(id, amount) ==
    /\ Op
    /\ amount <= get_allowed_withdraw(led.vbs[id], now)
    /\ led' = [led EXCEPT !.vbs[id] = withdraw(@, now, amount), !.balance[led.vbs[id].owner] = @ + amount]
    /\ UNCHANGED <<pending, options>>

(* The fee of the upgrade, and what is pending, still goes to the old      *)
(* referrers.                                                              *)
account_upgrade(a, fee) ==
    /\ Op /\ now < Hardfork1
    /\ led.member[a] # Forever /\ led.balance[a] >= fee
    /\ led' = [process_fees(pay_fee(led, a, fee), a, now) EXCEPT
                 !.member[a] = Forever,
                 !.referral[a] = [registrar |-> a, referrer |-> a, lifetime_referrer |-> a],
                 !.lifetime_percent[a] = Hundred - NetworkPercent]
    /\ UNCHANGED <<pending, options>>

(* The core of an account leaves for another chain; the fee is zero. *)
account_balance_migrate(a) ==
    /\ Op /\ now >= Hardfork2
    /\ led.balance[a] > 0
    /\ led' = [led EXCEPT !.balance[a] = 0, !.current_supply = @ - led.balance[a]]
    /\ UNCHANGED <<pending, options>>

account_update(a, o) ==
    /\ Op
    /\ o.num_witness <= Cardinality(o.votes) /\ o.num_witness <= params.maximum_witness_count
    /\ options' = [options EXCEPT ![a] = o]
    /\ UNCHANGED <<led, pending>>

(* Executed by a proposal of the committee. *)
committee_member_update_global_parameters(p) ==
    /\ Op /\ now < Hardfork1
    /\ pending' = {p}
    /\ UNCHANGED <<led, options>>

Init ==
    /\ now = GenesisTime
    /\ led = LedgerInit
    /\ dpo = [witness_budget |-> 0, witness_pay_per_block |-> 0, last_budget_time |-> Never,
              next_maintenance_time |-> Never]
    /\ params = Parameters[1] /\ pending = {}
    /\ options = FirstOptions
    /\ active = [witnesses |-> DOMAIN Candidates, auth |-> None]
    /\ vote = None /\ ops = 0

Next ==
    \/ \E w \in active.witnesses, gap \in 1 .. MaxGap : Block(w, gap)
    \/ \E a, b \in Accounts \ Blockchain, amount \in Amounts, fee \in Fees : a # b /\ transfer(a, b, amount, fee)
    \/ \E id \in DOMAIN led.vbs, amount \in Amounts : vesting_balance_withdraw(id, amount)
    \/ \E a \in Accounts \ Blockchain, fee \in Fees : account_upgrade(a, fee)
    \/ \E a \in Accounts : account_balance_migrate(a)
    \/ \E a \in Accounts, o \in Options : account_update(a, o)
    \/ \E p \in Range(Parameters) : committee_member_update_global_parameters(p)

Spec == Init /\ [][Next]_vars

-----------------------------------------------------------------------------
(* Properties *)

(* Every coin of the supply is somewhere, as verify_asset_supplies of the  *)
(* tests adds it up: in a balance, a vesting balance, a fee that waits to  *)
(* be paid out, the accumulated fees or the budget of the witnesses.       *)
SupplyAddsUp ==
    led.current_supply =
        SumFunction(led.balance) + SumFunction(led.pending_fees)
      + SumFunction(led.pending_vested_fees)
      + SumFunction([id \in DOMAIN led.vbs |-> led.vbs[id].balance])
      + led.accumulated_fees + dpo.witness_budget

(* The budget never brings more into circulation than the reserve holds,   *)
(* and the witnesses are never paid more than was budgeted, however late a *)
(* block or a maintenance is.                                              *)
SupplyCapped == led.current_supply <= MaxSupply /\ dpo.witness_budget >= 0

(* Half the witnesses an account of the last vote wanted: "votes for a     *)
(* number greater than maximum_witness_count are turned into votes for     *)
(* maximum_witness_count" (db_maint.cpp).                                  *)
Wanted(a) == min(vote.opinion[a].num_witness, vote.max) \div 2

Votes(w) == Stake(vote.stake, {a \in Accounts : w \in vote.opinion[a].votes})

(* The vote chose the number of witnesses that the median of the stake     *)
(* with an opinion wants, although accounts that ask for more than the     *)
(* maximum are in no bar of the histogram.                                 *)
CountIsMedian ==
    LET speaking == {a \in Accounts : Wanted(a) > 0}
        half == Stake(vote.stake, speaking) \div 2
    IN  IF half = 0 THEN vote.count = 0
        ELSE /\ Stake(vote.stake, {a \in speaking : Wanted(a) < vote.count}) <= half
             /\ Stake(vote.stake, {a \in speaking : Wanted(a) <= vote.count}) > half

(* The authority of the witness account: weights that fit their type and   *)
(* follow the votes, and a threshold that needs and allows a majority.     *)
MajorityRules ==
    LET weights == active.auth.weights
        all == SumFunction(weights)
    IN  /\ DOMAIN weights = {w \in active.witnesses : Votes(w) > 0}
        /\ \A w, v \in DOMAIN weights :
              /\ weights[w] \in 1 .. 2 ^ (WeightBits + 1) - 1
              /\ Votes(w) >= Votes(v) => weights[w] >= weights[v]
        /\ active.auth.threshold <= all /\ 2 * active.auth.threshold > all

(* The witnesses after a maintenance are those with the most stake behind  *)
(* them, in the number the stake asks for.                                 *)
ElectionFollowsStake ==
    vote # None =>
        /\ CountIsMedian
        /\ \A w \in active.witnesses, v \in DOMAIN Candidates \ active.witnesses : Votes(w) >= Votes(v)
        /\ \/ Cardinality(active.witnesses) = 2 * vote.count + 1
           \/ /\ Cardinality(active.witnesses) = min(MinWitnesses, Len(Candidates))
              /\ 2 * vote.count + 1 <= MinWitnesses
           \/ active.witnesses = DOMAIN Candidates
        /\ (\E w \in active.witnesses : Votes(w) > 0) => MajorityRules

(* No coin votes twice: fees are paid out between the counts of two        *)
(* accounts, and yet the stake counted is at most the supply.              *)
NoCoinVotesTwice == vote # None => Stake(vote.stake, Accounts) <= vote.supply
=============================================================================
