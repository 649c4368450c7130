------------------------------ MODULE Vesting -------------------------------
(***************************************************************************)
(* The two vesting policies of vesting_balance_object: linear in time, and *)
(* by coin-seconds (balance times the time it is held).  A vesting balance *)
(* is [owner, balance, policy]; amounts are of one asset.                  *)
(***************************************************************************)
EXTENDS Integers

min(a, b) == IF a <= b THEN a ELSE b

linear_vesting_policy(begin, cliff, duration, amount) ==
    [kind |-> "linear", begin_timestamp |-> begin, vesting_cliff_seconds |-> cliff,
     vesting_duration_seconds |-> duration, begin_balance |-> amount]

cdd_vesting_policy(seconds, start_claim, earned, now) ==
    [kind |-> "cdd", vesting_seconds |-> seconds, start_claim |-> start_claim,
     coin_seconds_earned |-> earned, last_update |-> now]

(* The divisor of the coin-seconds: std::max(vesting_seconds, 1u). *)
Seconds(p) == IF p.vesting_seconds > 1 THEN p.vesting_seconds ELSE 1

-----------------------------------------------------------------------------
(* linear_vesting_policy *)

linear_total_vested(p, elapsed) ==
    IF elapsed < p.vesting_duration_seconds
    THEN (p.begin_balance * elapsed) \div p.vesting_duration_seconds
    ELSE p.begin_balance

linear_allowed(p, balance, now) ==
    LET elapsed == now - p.begin_timestamp
        withdrawn_already == p.begin_balance - balance
    IN  IF elapsed > 0 /\ elapsed >= p.vesting_cliff_seconds
        THEN linear_total_vested(p, elapsed) - withdrawn_already ELSE 0

-----------------------------------------------------------------------------
(* cdd_vesting_policy *)

compute_coin_seconds_earned(p, balance, now) ==
    min(p.coin_seconds_earned + balance * (now - p.last_update), balance * Seconds(p))

update_coin_seconds_earned(p, balance, now) ==
    [p EXCEPT !.coin_seconds_earned = compute_coin_seconds_earned(p, balance, now), !.last_update = now]

cdd_allowed(p, balance, now) ==
    IF now <= p.start_claim THEN 0 ELSE compute_coin_seconds_earned(p, balance, now) \div Seconds(p)

-----------------------------------------------------------------------------
(* vesting_balance_object *)

get_allowed_withdraw(vb, now) ==
    IF vb.policy.kind = "linear" THEN linear_allowed(vb.policy, vb.balance, now)
                                 ELSE cdd_allowed(vb.policy, vb.balance, now)

(* mutant: a withdrawal leaves the coin-seconds it used *)
on_withdraw_KeepsCoinSeconds(vb, now, amount) ==
    IF vb.policy.kind = "linear" THEN vb.policy
    ELSE update_coin_seconds_earned(vb.policy, vb.balance, now)

on_withdraw(vb, now, amount) ==
    IF vb.policy.kind = "linear" THEN vb.policy
    ELSE [update_coin_seconds_earned(vb.policy, vb.balance, now)
            EXCEPT !.coin_seconds_earned = @ - amount * Seconds(vb.policy)]

withdraw(vb, now, amount) ==
    [vb EXCEPT !.policy = on_withdraw(vb, now, amount), !.balance = @ - amount]

(* deposit and deposit_vested, of a coin-second policy: a deposit that     *)
(* need not vest brings its coin-seconds with it.                          *)
deposit(vb, now, amount, require_vesting) ==
    [vb EXCEPT !.balance = @ + amount,
               !.policy = [update_coin_seconds_earned(vb.policy, vb.balance, now)
                             EXCEPT !.coin_seconds_earned =
                                 IF require_vesting THEN @ ELSE @ + amount * Seconds(vb.policy)]]
=============================================================================
