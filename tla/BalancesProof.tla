--------------------------- MODULE BalancesProof ----------------------------
(***************************************************************************)
(* Proofs about module Balances, for any policies, terms and bounds:       *)
(*                                                                         *)
(*   OnlyVestedTheorem   no sequence of withdrawals takes more than a      *)
(*                       vesting policy has released                       *)
(*   LimitTheorem        the claims of a period stay within the limit      *)
(*                                                                         *)
(* The first invariant is kept one vesting balance at a time: VestOK says  *)
(* what holds of one, and a lemma for each operation that it is kept.  The *)
(* second is a statement about sums of claims; the invariant says where    *)
(* the claims so far lie relative to the period the object is at.          *)
(***************************************************************************)
EXTENDS Balances, FoldTheorems

-----------------------------------------------------------------------------
(* Arithmetic *)

LEMMA Division ==
    ASSUME NEW a \in Nat, NEW b \in Nat, b > 0
    PROVE  a \div b \in Nat /\ (a \div b) * b <= a /\ a < (a \div b) * b + b
OBVIOUS

LEMMA DivisionBelow ==
    ASSUME NEW a \in Int, NEW b \in Nat, b > 0, NEW q \in Int, q * b <= a
    PROVE  q <= a \div b
OBVIOUS

LEMMA Product ==
    ASSUME NEW a \in Nat, NEW b \in Nat
    PROVE  a * b \in Nat
OBVIOUS

LEMMA Monotone ==
    ASSUME NEW a \in Int, NEW b \in Int, NEW c \in Nat, a <= b
    PROVE  a * c <= b * c
OBVIOUS

LEMMA Distribute ==
    ASSUME NEW a \in Int, NEW b \in Int, NEW c \in Int
    PROVE  /\ (a + b) * c = a * c + b * c /\ c * (a + b) = c * a + c * b
           /\ a * c \in Int /\ b * c \in Int
OBVIOUS

-----------------------------------------------------------------------------
(* One vesting balance vb at the time t, of which out was withdrawn and    *)
(* which was held for acc coin-seconds.                                    *)

CddPolicies == [kind : {"cdd"}, vesting_seconds : Nat, start_claim : Nat,
                coin_seconds_earned : Nat, last_update : Nat]

(* The coin-seconds that are left and those that were used are at most     *)
(* those of the balance as it was held.                                    *)
CddOK(vb, out, acc, t) ==
    /\ vb.balance \in Nat /\ vb.policy \in CddPolicies
    /\ vb.policy.last_update <= t
    /\ vb.policy.coin_seconds_earned + vb.balance * (t - vb.policy.last_update)
           + out * Seconds(vb.policy) <= acc
    /\ out > 0 => t > vb.policy.start_claim

(* The balance is what the linear policy began with, less what was taken. *)
LinearOK(vb, out, t) ==
    /\ vb.balance \in Nat /\ vb.policy \in LinearPolicies
    /\ vb.balance + out = vb.policy.begin_balance
    /\ LinearGave(vb.policy, out, t)

VestOK(vb, out, acc, t) ==
    /\ out \in Nat /\ acc \in Nat
    /\ CddOK(vb, out, acc, t) \/ LinearOK(vb, out, t)

LEMMA SecondsType ==
    ASSUME NEW p \in CddPolicies
    PROVE  Seconds(p) \in Nat /\ Seconds(p) > 0
BY DEF CddPolicies, Seconds

(* What a coin-second policy allows is covered by coin-seconds. *)
LEMMA CddAllowed ==
    ASSUME NEW vb, NEW out \in Nat, NEW acc \in Nat, NEW t \in Nat, CddOK(vb, out, acc, t)
    PROVE  LET c == compute_coin_seconds_earned(vb.policy, vb.balance, t)
               a == get_allowed_withdraw(vb, t)
           IN  /\ c \in Nat /\ c <= vb.policy.coin_seconds_earned + vb.balance * (t - vb.policy.last_update)
               /\ a \in Nat /\ a * Seconds(vb.policy) <= c /\ a <= vb.balance
               /\ a > 0 => t > vb.policy.start_claim
<1> DEFINE p == vb.policy
           b == vb.balance
           S == Seconds(p)
           x == p.coin_seconds_earned + b * (t - p.last_update)
           c == compute_coin_seconds_earned(p, b, t)
           a == get_allowed_withdraw(vb, t)
<1>1. p \in CddPolicies /\ b \in Nat /\ p.last_update <= t
  BY DEF CddOK
<1>2. /\ p.kind = "cdd" /\ p.coin_seconds_earned \in Nat /\ p.last_update \in Nat
      /\ p.start_claim \in Nat
  BY <1>1 DEF CddPolicies
<1>3. S \in Nat /\ S > 0
  BY <1>1, SecondsType
<1>4. b * (t - p.last_update) \in Nat /\ b * S \in Nat
  BY <1>1, <1>2, <1>3, Product
<1>5. c \in Nat /\ c <= x /\ c <= b * S
  BY <1>2, <1>4 DEF compute_coin_seconds_earned, min
<1>6. a = IF t <= p.start_claim THEN 0 ELSE c \div S
  BY <1>2 DEF get_allowed_withdraw, cdd_allowed
<1> HIDE DEF c, S, x, b
<1>7. c \div S \in Nat /\ (c \div S) * S <= c
  BY <1>3, <1>5, Division
<1>8. c \div S <= b
  <2>1. SUFFICES ASSUME b + 1 <= c \div S PROVE FALSE
    BY <1>7, <1>1 DEF b
  <2>2. (b + 1) * S <= (c \div S) * S
    BY <2>1, <1>1, <1>3, <1>7, Monotone DEF b
  <2>3. (b + 1) * S = b * S + S
    BY <1>1, <1>3 DEF b
  <2> QED
    BY <2>2, <2>3, <1>3, <1>5, <1>7, <1>4 DEF b
<1>9. a \in Nat /\ a * S <= c /\ a <= b /\ (a > 0 => t > p.start_claim)
  <2>1. CASE t <= p.start_claim
    BY <2>1, <1>6, <1>5, <1>3, <1>1 DEF b
  <2>2. CASE ~ (t <= p.start_claim)
    <3>1. a = c \div S
      BY <2>2, <1>6
    <3> HIDE DEF a
    <3> QED
      BY <3>1, <2>2, <1>2, <1>7, <1>8
  <2> QED
    BY <2>1, <2>2
<1> QED
  BY <1>5, <1>9 DEF b, c, S, x

LEMMA LinearAllowed ==
    ASSUME NEW vb, NEW out \in Nat, NEW t \in Nat, LinearOK(vb, out, t)
    PROVE  LET a == get_allowed_withdraw(vb, t)
           IN  /\ a \in Nat /\ a <= vb.balance
               /\ LinearGave(vb.policy, out + a, t)
<1> DEFINE p == vb.policy
           e == t - p.begin_timestamp
           d == p.vesting_duration_seconds
           B == p.begin_balance
           v == linear_total_vested(p, e)
           a == get_allowed_withdraw(vb, t)
<1>1. /\ vb.balance \in Nat /\ p \in LinearPolicies /\ vb.balance + out = B
      /\ LinearGave(p, out, t)
  BY DEF LinearOK
<1>2. /\ p.kind = "linear" /\ e \in Int /\ d \in Nat /\ B \in Nat /\ p.vesting_cliff_seconds \in Nat
      /\ p.begin_timestamp \in Nat
  BY <1>1 DEF LinearPolicies
<1>3. a = IF e > 0 /\ e >= p.vesting_cliff_seconds THEN v - out ELSE 0
  BY <1>1, <1>2 DEF get_allowed_withdraw, linear_allowed
<1>4. CASE ~ (e > 0 /\ e >= p.vesting_cliff_seconds)
  BY <1>4, <1>3, <1>1
<1>5. CASE e > 0 /\ e >= p.vesting_cliff_seconds
  <2>1. v = IF e < d THEN (B * e) \div d ELSE B
    BY DEF linear_total_vested
  <2>2. out > 0 => e >= d \/ out * d <= B * e
    BY <1>1 DEF LinearGave
  <2>3. v \in Nat /\ out <= v /\ v <= B /\ (e >= d \/ v * d <= B * e)
    <3>1. CASE e >= d
      BY <3>1, <2>1, <1>1, <1>2
    <3>2. CASE e < d
      <4>0. d > 0 /\ B * e \in Nat /\ v = (B * e) \div d /\ e \in Nat
        BY <3>2, <1>2, <1>5, <2>1, Product
      <4> DEFINE Be == B * e
      <4> HIDE DEF Be, v, d, e, B
      <4>1. v \in Nat /\ v * d <= Be /\ Be < v * d + d
        BY <4>0, <1>2, Division DEF Be
      <4>2. out <= v
        <5>1. CASE out = 0
          BY <5>1, <4>1
        <5>2. CASE out > 0
          BY <5>2, <2>2, <3>2, <4>0, <1>2, DivisionBelow
        <5> QED
          BY <5>1, <5>2
      <4>3. v <= B
        <5>1. SUFFICES ASSUME B + 1 <= v PROVE FALSE
          BY <1>2, <4>1
        <5>2. (B + 1) * d <= v * d
          BY <5>1, <1>2, <4>1, Monotone
        <5>3. (B + 1) * d = B * d + d
          BY <1>2
        <5>4. B * e <= B * d
          BY <3>2, <1>2, <4>0
        <5> QED
          BY <5>2, <5>3, <5>4, <4>0, <4>1, <1>2 DEF Be
      <4> QED
        BY <4>1, <4>2, <4>3 DEF Be
    <3> QED
      BY <3>1, <3>2, <1>2
  <2>4. a = v - out
    BY <1>3, <1>5
  <2> HIDE DEF a, v
  <2>5. a \in Nat /\ out + a = v /\ a <= vb.balance
    BY <2>3, <2>4, <1>1, <1>2
  <2>6. LinearGave(p, v, t)
    BY <2>3, <1>5 DEF LinearGave
  <2> QED
    BY <2>5, <2>6 DEF a
<1> QED
  BY <1>4, <1>5

(* What holds of a vesting balance keeps holding as time passes, ... *)
LEMMA LinearTick ==
    ASSUME NEW p \in LinearPolicies, NEW out \in Nat, NEW t \in Nat, LinearGave(p, out, t)
    PROVE  LinearGave(p, out, t + 1)
<1>1. /\ p.begin_balance \in Nat /\ p.vesting_duration_seconds \in Nat
      /\ p.vesting_cliff_seconds \in Nat /\ p.begin_timestamp \in Nat
  BY DEF LinearPolicies
<1>2. p.begin_balance * (t - p.begin_timestamp) <= p.begin_balance * ((t + 1) - p.begin_timestamp)
  BY <1>1
<1>3. out * p.vesting_duration_seconds \in Nat
  BY <1>1
<1> QED
  BY <1>1, <1>2, <1>3 DEF LinearGave

LEMMA VestTick ==
    ASSUME NEW vb, NEW out, NEW acc, NEW t \in Nat, VestOK(vb, out, acc, t)
    PROVE  VestOK(vb, out, acc + vb.balance * ((t + 1) - t), t + 1)
<1>0. out \in Nat /\ acc \in Nat
  BY DEF VestOK
<1>1. vb.balance \in Nat /\ vb.balance * ((t + 1) - t) = vb.balance
  BY DEF VestOK, CddOK, LinearOK
<1>2. CASE CddOK(vb, out, acc, t)
  <2> DEFINE u == vb.policy.last_update
             ce == vb.policy.coin_seconds_earned
             os == out * Seconds(vb.policy)
  <2>1. u \in Nat /\ ce \in Nat /\ os \in Nat /\ vb.policy.start_claim \in Nat
    BY <1>0, <1>2, SecondsType, Product DEF CddOK, CddPolicies
  <2>2. u <= t /\ ce + vb.balance * (t - u) + os <= acc /\ (out > 0 => t > vb.policy.start_claim)
        /\ vb.policy \in CddPolicies
    BY <1>2 DEF CddOK
  <2>3. vb.balance * ((t + 1) - u) = vb.balance * (t - u) + vb.balance /\ vb.balance * (t - u) \in Int
    BY <2>1, <1>1
  <2> HIDE DEF u, ce, os
  <2>4. u <= t + 1 /\ ce + vb.balance * ((t + 1) - u) + os <= acc + vb.balance
    BY <2>1, <2>2, <2>3, <1>0, <1>1
  <2>5. CddOK(vb, out, acc + vb.balance, t + 1)
    BY <2>4, <2>1, <2>2, <1>1, <1>0 DEF CddOK, u, ce, os
  <2> QED
    BY <2>5, <1>0, <1>1 DEF VestOK
<1>3. CASE LinearOK(vb, out, t)
  BY <1>3, <1>0, <1>1, LinearTick DEF VestOK, LinearOK
<1> QED
  BY <1>2, <1>3 DEF VestOK

(* ... and when at most the allowed amount is withdrawn.  The result r of  *)
(* the withdrawal is vb with a new balance and policy.                     *)
LEMMA CddWithdraw ==
    ASSUME NEW vb, NEW out \in Nat, NEW acc \in Nat, NEW t \in Nat, NEW amount \in Nat, NEW r,
           CddOK(vb, out, acc, t), amount <= get_allowed_withdraw(vb, t),
           r.balance = vb.balance - amount, r.policy = on_withdraw(vb, t, amount)
    PROVE  CddOK(r, out + amount, acc, t)
<1> DEFINE p == vb.policy
           b == vb.balance
           S == Seconds(p)
           x == b * (t - p.last_update)
           c == compute_coin_seconds_earned(p, b, t)
           a == get_allowed_withdraw(vb, t)
<1>1. /\ p \in CddPolicies /\ b \in Nat /\ p.last_update <= t
      /\ p.coin_seconds_earned + x + out * S <= acc /\ (out > 0 => t > p.start_claim)
  BY DEF CddOK
<1>2. /\ p.kind = "cdd" /\ p.coin_seconds_earned \in Nat /\ p.last_update \in Nat
      /\ p.start_claim \in Nat /\ p.vesting_seconds \in Nat
  BY <1>1 DEF CddPolicies
<1>3. S \in Nat /\ S > 0
  BY <1>1, SecondsType
<1>4. /\ c \in Nat /\ c <= p.coin_seconds_earned + x
      /\ a \in Nat /\ a * S <= c /\ a <= b /\ (a > 0 => t > p.start_claim)
  BY CddAllowed
<1>5. amount * S <= a * S
  BY <1>3, <1>4, Monotone
<1>6. amount * S \in Nat /\ out * S \in Nat /\ a * S \in Nat /\ x \in Int
  BY <1>1, <1>2, <1>3, <1>4, Product
<1>7. (out + amount) * S = out * S + amount * S
  BY <1>3, Distribute
<1>8. /\ r.policy \in CddPolicies /\ r.policy.coin_seconds_earned = c - amount * S
      /\ r.policy.last_update = t /\ r.policy.vesting_seconds = p.vesting_seconds
      /\ r.policy.start_claim = p.start_claim
  <2>1. r.policy = [p EXCEPT !.coin_seconds_earned = c - amount * S, !.last_update = t]
    <3> HIDE DEF c, S
    <3>1. on_withdraw(vb, t, amount) =
            [[p EXCEPT !.coin_seconds_earned = c, !.last_update = t]
                EXCEPT !.coin_seconds_earned = @ - amount * S]
      BY <1>2 DEF on_withdraw, update_coin_seconds_earned, c, S
    <3> QED
      BY <3>1, <1>1 DEF CddPolicies
  <2>2. c - amount * S \in Nat
    BY <1>4, <1>5, <1>6
  <2> HIDE DEF c, S
  <2> QED
    BY <2>1, <2>2, <1>1 DEF CddPolicies
<1>9. Seconds(r.policy) = S
  BY <1>8 DEF Seconds
<1>10. r.balance \in Nat /\ r.balance * (t - t) = 0
  BY <1>1, <1>4
<1>11. r.policy.coin_seconds_earned + r.balance * (t - r.policy.last_update)
          + (out + amount) * Seconds(r.policy) <= acc
  <2>1. r.policy.coin_seconds_earned + r.balance * (t - r.policy.last_update) = c - amount * S
    <3> HIDE DEF c, S
    <3> QED
      BY <1>8, <1>10, <1>6, <1>4
  <2> HIDE DEF c, S, x, p
  <2> QED
    BY <2>1, <1>1, <1>2, <1>4, <1>6, <1>7, <1>9
<1> QED
  BY <1>8, <1>10, <1>11, <1>1, <1>4 DEF CddOK

LEMMA LinearWithdraw ==
    ASSUME NEW vb, NEW out \in Nat, NEW t \in Nat, NEW amount \in Nat, NEW r,
           LinearOK(vb, out, t), amount <= get_allowed_withdraw(vb, t),
           r.balance = vb.balance - amount, r.policy = on_withdraw(vb, t, amount)
    PROVE  LinearOK(r, out + amount, t)
<1> DEFINE p == vb.policy
           a == get_allowed_withdraw(vb, t)
           d == p.vesting_duration_seconds
<1>1. a \in Nat /\ a <= vb.balance /\ LinearGave(p, out + a, t)
  BY LinearAllowed
<1>2. vb.balance \in Nat /\ p \in LinearPolicies /\ vb.balance + out = p.begin_balance
  BY DEF LinearOK
<1>3. /\ p.kind = "linear" /\ d \in Nat /\ p.begin_balance \in Nat
      /\ p.begin_timestamp \in Nat /\ p.vesting_cliff_seconds \in Nat
  BY <1>2 DEF LinearPolicies
<1>4. r.policy = p
  BY <1>3 DEF on_withdraw
<1> HIDE DEF a
<1>5. (out + amount) * d <= (out + a) * d /\ (out + amount) * d \in Int /\ (out + a) * d \in Int
  BY <1>1, <1>3, Monotone DEF a
<1>6. p.begin_balance * (t - p.begin_timestamp) \in Int
  BY <1>3
<1>7. LinearGave(p, out + amount, t)
  BY <1>1, <1>3, <1>5, <1>6 DEF LinearGave, a
<1> QED
  BY <1>1, <1>2, <1>4, <1>7 DEF LinearOK, a

-----------------------------------------------------------------------------
(* The invariant for vesting balances *)

VestingObjects == [owner : {Payee}, balance : Nat, policy : CddPolicies \cup LinearPolicies]
GenesisObjects == [balance : Nat, last_claim_date : Nat, policy : LinearPolicies]

VestingInv ==
    /\ now \in Nat \ {0}
    /\ vesting \in Seq(VestingObjects)
    /\ accrued \in Seq(Nat) /\ drawn \in Seq(Nat)
    /\ Len(accrued) = Len(vesting) /\ Len(drawn) = Len(vesting)
    /\ \A id \in DOMAIN vesting : VestOK(vesting[id], drawn[id], accrued[id], now)
    /\ genesis # None =>
          /\ genesis \in GenesisObjects
          /\ genesis.policy.begin_balance - genesis.balance \in Nat
          /\ LinearOK(genesis, genesis.policy.begin_balance - genesis.balance, now)

LEMMA VestingInit == Init => VestingInv
<1> SUFFICES ASSUME Init PROVE VestingInv
  OBVIOUS
<1>1. genesis # None => /\ genesis \in GenesisObjects
                        /\ genesis.policy.begin_balance - genesis.balance \in Nat
                        /\ LinearOK(genesis, genesis.policy.begin_balance - genesis.balance, now)
  <2> SUFFICES ASSUME Genesis # None
               PROVE  /\ Genesis \in GenesisObjects
                      /\ Genesis.policy.begin_balance - Genesis.balance \in Nat
                      /\ LinearOK(Genesis, Genesis.policy.begin_balance - Genesis.balance, 1)
    BY DEF Init
  <2>1. /\ Genesis \in GenesisObjects /\ Genesis.balance <= Genesis.policy.begin_balance
        /\ LinearGave(Genesis.policy, Genesis.policy.begin_balance - Genesis.balance, 1)
    BY GenesisAssumption DEF GenesisObjects
  <2>2. Genesis.balance \in Nat /\ Genesis.policy \in LinearPolicies /\ Genesis.policy.begin_balance \in Nat
    BY <2>1 DEF GenesisObjects, LinearPolicies
  <2> QED
    BY <2>1, <2>2 DEF LinearOK
<1> QED
  BY <1>1 DEF Init, VestingInv

LEMMA VestingNext == VestingInv /\ [Next]_vars => VestingInv'
<1> SUFFICES ASSUME VestingInv, [Next]_vars PROVE VestingInv'
  OBVIOUS
<1>a. /\ \A x \in Amounts \cup {0} : x \in Nat
      /\ Policies \subseteq [kind : {"linear"}, begin : Nat, cliff : Nat, duration : Nat]
                           \cup [kind : {"cdd"}, seconds : Nat, start_claim : Nat]
  BY BalancesAssumption
<1>i. /\ now \in Nat \ {0} /\ vesting \in Seq(VestingObjects)
      /\ accrued \in Seq(Nat) /\ drawn \in Seq(Nat)
      /\ Len(accrued) = Len(vesting) /\ Len(drawn) = Len(vesting)
      /\ \A id \in DOMAIN vesting : VestOK(vesting[id], drawn[id], accrued[id], now)
  BY DEF VestingInv
<1>d. /\ DOMAIN vesting = 1 .. Len(vesting) /\ DOMAIN drawn = DOMAIN vesting
      /\ DOMAIN accrued = DOMAIN vesting /\ Len(vesting) \in Nat
  BY <1>i
<1>1. ASSUME NEW amount \in Amounts, NEW i \in Policies, vesting_balance_create(amount, i)
      PROVE  VestingInv'
  <2> DEFINE vb == [owner |-> Payee, balance |-> amount, policy |-> init_policy(i, amount)]
  <2>1. amount \in Nat
    BY <1>a
  <2>2. init_policy(i, amount) \in CddPolicies \cup LinearPolicies /\ VestOK(vb, 0, 0, now)
    <3>1. CASE i.kind = "linear"
      <4>1. i \in [kind : {"linear"}, begin : Nat, cliff : Nat, duration : Nat]
        BY <3>1, <1>a
      <4>2. init_policy(i, amount) = [kind |-> "linear", begin_timestamp |-> i.begin,
                vesting_cliff_seconds |-> i.cliff, vesting_duration_seconds |-> i.duration,
                begin_balance |-> amount]
        BY <3>1 DEF init_policy, linear_vesting_policy
      <4>3. init_policy(i, amount) \in LinearPolicies
        BY <4>1, <4>2, <2>1 DEF LinearPolicies
      <4>4. LinearOK(vb, 0, now)
        BY <4>2, <4>3, <2>1 DEF LinearOK, LinearGave
      <4> QED
        BY <4>3, <4>4 DEF VestOK
    <3>2. CASE i.kind # "linear"
      <4>1. i \in [kind : {"cdd"}, seconds : Nat, start_claim : Nat]
        BY <3>2, <1>a
      <4>2. init_policy(i, amount) = [kind |-> "cdd", vesting_seconds |-> i.seconds,
                start_claim |-> i.start_claim, coin_seconds_earned |-> 0, last_update |-> now]
        BY <3>2 DEF init_policy, cdd_vesting_policy
      <4>3. init_policy(i, amount) \in CddPolicies
        BY <4>1, <4>2, <1>i DEF CddPolicies
      <4>4. Seconds(vb.policy) \in Nat
        BY <4>3, SecondsType
      <4>5. 0 * Seconds(vb.policy) = 0 /\ amount * (now - now) = 0
        BY <4>4, <2>1, <1>i
      <4>6. CddOK(vb, 0, 0, now)
        BY <4>2, <4>3, <4>5, <2>1, <1>i DEF CddOK
      <4> QED
        BY <4>3, <4>6 DEF VestOK
    <3> QED
      BY <3>1, <3>2
  <2>3. vb \in VestingObjects
    BY <2>1, <2>2 DEF VestingObjects
  <2>4. vesting' = Append(vesting, vb) /\ accrued' = Append(accrued, 0) /\ drawn' = Append(drawn, 0)
        /\ now' = now /\ genesis' = genesis
    BY <1>1 DEF vesting_balance_create
  <2> HIDE DEF vb
  <2>5. \A id \in DOMAIN vesting' : VestOK(vesting'[id], drawn'[id], accrued'[id], now')
    <3> TAKE id \in DOMAIN vesting'
    <3>1. CASE id \in DOMAIN vesting
      BY <3>1, <2>4, <1>i
    <3>2. CASE id = Len(vesting) + 1
      BY <3>2, <2>2, <2>4, <1>i
    <3> QED
      BY <3>1, <3>2, <2>4, <1>i, <1>d
  <2>6. /\ vesting' \in Seq(VestingObjects) /\ accrued' \in Seq(Nat) /\ drawn' \in Seq(Nat)
        /\ Len(accrued') = Len(vesting') /\ Len(drawn') = Len(vesting')
    BY <2>3, <2>4, <1>i
  <2> QED
    BY <2>4, <2>5, <2>6 DEF VestingInv
<1>2. ASSUME NEW amount \in Amounts, NEW id \in DOMAIN vesting, vesting_balance_withdraw(id, amount)
      PROVE  VestingInv'
  <2> DEFINE vb == vesting[id]
             r == withdraw(vb, now, amount)
  <2>1. /\ amount <= get_allowed_withdraw(vb, now)
        /\ vesting' = [vesting EXCEPT ![id] = r] /\ drawn' = [drawn EXCEPT ![id] = @ + amount]
        /\ accrued' = accrued /\ now' = now /\ genesis' = genesis
    BY <1>2 DEF vesting_balance_withdraw
  <2>2. vb \in VestingObjects /\ VestOK(vb, drawn[id], accrued[id], now) /\ amount \in Nat
    BY <1>i, <1>a
  <2>3. /\ r.balance = vb.balance - amount /\ r.policy = on_withdraw(vb, now, amount)
        /\ r = [owner |-> Payee, balance |-> vb.balance - amount, policy |-> on_withdraw(vb, now, amount)]
    <3> DEFINE q == on_withdraw(vb, now, amount)
    <3> HIDE DEF vb, q
    <3>1. r = [vb EXCEPT !.policy = q, !.balance = @ - amount]
      BY DEF withdraw, q
    <3> HIDE DEF r
    <3> QED
      BY <3>1, <2>2 DEF VestingObjects, q
  <2> HIDE DEF vb, r
  <2>4. VestOK(r, drawn[id] + amount, accrued[id], now)
    <3>1. drawn[id] \in Nat /\ accrued[id] \in Nat
      BY <2>2 DEF VestOK
    <3>2. CASE CddOK(vb, drawn[id], accrued[id], now)
      <4>1. CddOK(r, drawn[id] + amount, accrued[id], now)
        BY <3>1, <3>2, <2>1, <2>2, <2>3, <1>i, CddWithdraw
      <4> QED
        BY <4>1, <3>1, <2>2 DEF VestOK
    <3>3. CASE LinearOK(vb, drawn[id], now)
      <4>1. LinearOK(r, drawn[id] + amount, now)
        BY <3>1, <3>3, <2>1, <2>2, <2>3, <1>i, LinearWithdraw
      <4> QED
        BY <4>1, <3>1, <2>2 DEF VestOK
    <3> QED
      BY <3>2, <3>3, <2>2 DEF VestOK
  <2>5. r \in VestingObjects
    <3>1. r.balance \in Nat /\ r.policy \in CddPolicies \cup LinearPolicies
      BY <2>4 DEF VestOK, CddOK, LinearOK
    <3> QED
      BY <3>1, <2>3 DEF VestingObjects
  <2>6. /\ vesting' \in Seq(VestingObjects) /\ accrued' \in Seq(Nat) /\ drawn' \in Seq(Nat)
        /\ Len(accrued') = Len(vesting') /\ Len(drawn') = Len(vesting')
    BY <2>1, <2>2, <2>5, <1>i
  <2>7. \A n \in DOMAIN vesting' : VestOK(vesting'[n], drawn'[n], accrued'[n], now')
    BY <2>1, <2>4, <1>i, <1>d
  <2> QED
    BY <2>1, <2>6, <2>7 DEF VestingInv
<1>3. ASSUME NEW amount \in Amounts \cup {0}, balance_claim(amount)
      PROVE  VestingInv'
  <2> DEFINE w == withdraw(genesis, now, amount)
             r == [w EXCEPT !.last_claim_date = now]
             out == genesis.policy.begin_balance - genesis.balance
  <2>1. /\ genesis # None /\ amount <= get_allowed_withdraw(genesis, now)
        /\ genesis' = IF amount < genesis.balance THEN r ELSE None
        /\ UNCHANGED <<now, vesting, accrued, drawn>>
    BY <1>3 DEF balance_claim
  <2>2. genesis \in GenesisObjects /\ out \in Nat /\ LinearOK(genesis, out, now) /\ amount \in Nat
    BY <2>1, <1>a DEF VestingInv
  <2>3. genesis.policy.kind = "linear" /\ genesis.policy \in LinearPolicies
        /\ genesis.policy.begin_balance \in Nat /\ genesis.balance \in Nat
    BY <2>2 DEF GenesisObjects, LinearPolicies
  <2>4. on_withdraw(genesis, now, amount) = genesis.policy
    BY <2>3 DEF on_withdraw
  <2>5. r = [balance |-> genesis.balance - amount, last_claim_date |-> now, policy |-> genesis.policy]
    <3>1. w = [genesis EXCEPT !.policy = genesis.policy, !.balance = @ - amount]
      BY <2>4 DEF withdraw
    <3> HIDE DEF w, out
    <3>2. w = [balance |-> genesis.balance - amount, last_claim_date |-> genesis.last_claim_date,
               policy |-> genesis.policy]
      BY <3>1, <2>2 DEF GenesisObjects
    <3> QED
      BY <3>2
  <2>6. LinearOK(r, out + amount, now)
    <3>1. r.balance = genesis.balance - amount /\ r.policy = on_withdraw(genesis, now, amount)
      BY <2>4, <2>5
    <3> HIDE DEF r, out
    <3> QED
      BY <3>1, <2>1, <2>2, <1>i, LinearWithdraw
  <2>7. r \in GenesisObjects /\ r.policy.begin_balance - r.balance = out + amount
    <3>1. genesis.balance - amount \in Nat
      BY <2>5, <2>6 DEF LinearOK
    <3>2. r \in GenesisObjects
      BY <3>1, <2>3, <2>5, <1>i DEF GenesisObjects
    <3>3. r.policy = genesis.policy /\ r.balance = genesis.balance - amount
      BY <2>5
    <3> HIDE DEF r
    <3> QED
      BY <3>2, <3>3, <2>3, <2>2
  <2> HIDE DEF r, out
  <2>8. genesis' # None =>
          /\ genesis' \in GenesisObjects
          /\ genesis'.policy.begin_balance - genesis'.balance \in Nat
          /\ LinearOK(genesis', genesis'.policy.begin_balance - genesis'.balance, now')
    BY <2>1, <2>2, <2>6, <2>7
  <2> QED
    BY <2>1, <2>8, <1>i DEF VestingInv
<1>4. CASE Block
  <2>1. /\ now' = now + 1 /\ vesting' = vesting /\ drawn' = drawn /\ genesis' = genesis
        /\ accrued' = [n \in DOMAIN vesting |-> accrued[n] + vesting[n].balance * ((now + 1) - now)]
    BY <1>4 DEF Block
  <2>2. \A n \in DOMAIN vesting : VestOK(vesting[n], drawn[n], accrued'[n], now + 1)
    <3> TAKE n \in DOMAIN vesting
    <3>1. VestOK(vesting[n], drawn[n], accrued[n], now)
      BY <1>i
    <3>2. accrued'[n] = accrued[n] + vesting[n].balance * ((now + 1) - now)
      BY <2>1
    <3> QED
      BY <3>1, <3>2, <1>i, VestTick
  <2>3. accrued' \in Seq(Nat) /\ Len(accrued') = Len(vesting)
    <3>1. \A n \in DOMAIN vesting : accrued'[n] \in Nat
      BY <2>2 DEF VestOK
    <3>2. DOMAIN vesting = 1 .. Len(vesting) /\ Len(vesting) \in Nat
      BY <1>i
    <3>3. accrued' \in [1 .. Len(vesting) -> Nat]
      BY <3>1, <3>2, <2>1
    <3> QED
      BY <3>2, <3>3
  <2>4. genesis' # None => LinearOK(genesis', genesis'.policy.begin_balance - genesis'.balance, now + 1)
    BY <2>1, <1>i, LinearTick DEF VestingInv, LinearOK
  <2>5. \A n \in DOMAIN vesting' : VestOK(vesting'[n], drawn'[n], accrued'[n], now')
    BY <2>1, <2>2
  <2>6. genesis' # None => /\ genesis' \in GenesisObjects
                           /\ genesis'.policy.begin_balance - genesis'.balance \in Nat
    BY <2>1 DEF VestingInv
  <2>7. now' \in Nat \ {0}
    BY <2>1, <1>i
  <2> QED
    BY <2>1, <2>3, <2>4, <2>5, <2>6, <2>7, <1>i DEF VestingInv
<1>5. CASE UNCHANGED <<now, vesting, genesis, accrued, drawn>>
  BY <1>5 DEF VestingInv
<1>6. ASSUME NEW t \in Terms, withdraw_permission_create(t) \/ withdraw_permission_update(t)
      PROVE  VestingInv'
  BY <1>5, <1>6 DEF withdraw_permission_create, withdraw_permission_update
<1>7. CASE withdraw_permission_delete
  BY <1>5, <1>7 DEF withdraw_permission_delete
<1>8. ASSUME NEW amount \in Amounts, withdraw_permission_claim(amount) PROVE VestingInv'
  BY <1>5, <1>8 DEF withdraw_permission_claim
<1>9. CASE UNCHANGED vars
  BY <1>5, <1>9 DEF vars
<1> QED
  BY <1>1, <1>2, <1>3, <1>4, <1>6, <1>7, <1>8, <1>9 DEF Next

LEMMA VestingImplies == VestingInv => OnlyVested
<1> SUFFICES ASSUME VestingInv PROVE OnlyVested
  OBVIOUS
<1>0. now \in Nat
  BY DEF VestingInv
<1>1. ASSUME NEW id \in DOMAIN vesting
      PROVE  /\ get_allowed_withdraw(vesting[id], now) \in 0 .. vesting[id].balance
             /\ IF vesting[id].policy.kind = "cdd" THEN CddGave(id)
                ELSE LinearGave(vesting[id].policy, drawn[id], now)
  <2> DEFINE vb == vesting[id]
             out == drawn[id]
             acc == accrued[id]
  <2>1. VestOK(vb, out, acc, now) /\ out \in Nat /\ acc \in Nat
    BY DEF VestingInv, VestOK
  <2>2. CASE CddOK(vb, out, acc, now)
    <3> HIDE DEF vb, out, acc
    <3>1. get_allowed_withdraw(vb, now) \in Nat /\ get_allowed_withdraw(vb, now) <= vb.balance
          /\ vb.balance \in Nat
      BY <2>1, <2>2, <1>0, CddAllowed DEF CddOK
    <3>2. /\ vb.policy.kind = "cdd" /\ vb.policy.coin_seconds_earned \in Nat
          /\ vb.policy.last_update \in Nat /\ vb.policy \in CddPolicies /\ vb.policy.last_update <= now
      BY <2>2 DEF CddOK, CddPolicies
    <3>3. Seconds(vb.policy) \in Nat
      BY <3>2, SecondsType
    <3>4. out * Seconds(vb.policy) \in Nat /\ vb.balance * (now - vb.policy.last_update) \in Nat
      BY <3>1, <3>2, <3>3, <2>1, <1>0, Product
    <3>5. out * Seconds(vb.policy) <= acc /\ (out > 0 => now > vb.policy.start_claim)
      BY <3>1, <3>2, <3>4, <2>1, <2>2 DEF CddOK
    <3> QED
      BY <3>1, <3>2, <3>5 DEF CddGave, vb, out, acc
  <2>3. CASE LinearOK(vb, out, now)
    <3> HIDE DEF vb, out, acc
    <3>1. get_allowed_withdraw(vb, now) \in Nat /\ get_allowed_withdraw(vb, now) <= vb.balance
          /\ vb.balance \in Nat
      BY <2>1, <2>3, <1>0, LinearAllowed DEF LinearOK
    <3>2. vb.policy.kind # "cdd" /\ LinearGave(vb.policy, out, now)
      BY <2>3 DEF LinearOK, LinearPolicies
    <3> QED
      BY <3>1, <3>2 DEF vb, out
  <2> QED
    BY <2>1, <2>2, <2>3 DEF VestOK
<1>2. ASSUME genesis # None
      PROVE  /\ get_allowed_withdraw(genesis, now) \in 0 .. genesis.balance
             /\ LinearGave(genesis.policy, genesis.policy.begin_balance - genesis.balance, now)
  <2> DEFINE out == genesis.policy.begin_balance - genesis.balance
  <2>1. out \in Nat /\ LinearOK(genesis, out, now)
    BY <1>2 DEF VestingInv
  <2> HIDE DEF out
  <2>2. /\ get_allowed_withdraw(genesis, now) \in Nat
        /\ get_allowed_withdraw(genesis, now) <= genesis.balance
    BY <2>1, <1>0, LinearAllowed
  <2> QED
    BY <2>1, <2>2 DEF LinearOK, out
<1> QED
  BY <1>1, <1>2 DEF OnlyVested

(* No sequence of withdrawals takes more out of a vesting balance than its *)
(* policy has released, for any policies, amounts and times.               *)
THEOREM OnlyVestedTheorem == Spec => []OnlyVested
<1>1. Spec => []VestingInv
  BY VestingInit, VestingNext, PTL DEF Spec
<1> QED
  BY <1>1, VestingImplies, PTL

-----------------------------------------------------------------------------
(* The periods of a permission *)

Grants == [start : Int, limit : Nat, period : Nat \ {0}]

LEMMA PeriodFinite ==
    ASSUME NEW g, NEW k
    PROVE  IsFiniteSet(Period(g, k)) /\ Period(g, k) \subseteq 1 .. MaxTime
<1>1. MaxTime \in Int /\ 1 \in Int
  BY BalancesAssumption
<1>2. IsFiniteSet(1 .. MaxTime)
  BY <1>1, FS_Interval
<1>3. Period(g, k) \subseteq 1 .. MaxTime
  BY DEF Period
<1> QED
  BY <1>2, <1>3, FS_Subset

LEMMA PeriodDef ==
    ASSUME NEW g \in Grants, NEW k \in Int, NEW t \in 1 .. MaxTime
    PROVE  t \in Period(g, k) <=> g.start + k * g.period <= t /\ t < g.start + k * g.period + g.period
BY DEF Period

(* A time lies in one period only. *)
LEMMA PeriodUnique ==
    ASSUME NEW g \in Grants, NEW k \in Int, NEW j \in Int, NEW t \in Int,
           g.start + k * g.period <= t, t < g.start + k * g.period + g.period,
           g.start + j * g.period <= t, t < g.start + j * g.period + g.period
    PROVE  k = j
<1> DEFINE x == t - g.start
           P == g.period
<1>1. g.start \in Int /\ P \in Nat /\ P > 0 /\ x \in Int
  BY DEF Grants
<1>2. k * P \in Int /\ j * P \in Int
  BY <1>1
<1>3. k * P <= x /\ x < k * P + P /\ j * P <= x /\ x < j * P + P
  BY <1>1, <1>2
<1> HIDE DEF x, P
<1> QED
  BY <1>1, <1>3

LEMMA PeriodSum ==
    ASSUME NEW g, NEW k, NEW c \in [1 .. MaxTime -> Nat]
    PROVE  /\ SumFunctionOnSet(c, Period(g, k)) \in Nat
           /\ (\A t \in Period(g, k) : c[t] = 0) => SumFunctionOnSet(c, Period(g, k)) = 0
BY PeriodFinite, SumType, SumZero

-----------------------------------------------------------------------------
(* The invariant for the permission *)

Permits == [limit : Nat, period : Nat \ {0}, start : Int, expiration : Int, claimed : Nat]

(* The permission p at the time t, granted as g and claimed from as c: its *)
(* start is that of a period of g, its claims come before the end of that  *)
(* period, in the current period or the one before it while the start lies *)
(* ahead, and until then claimed counts those of the period that holds t.  *)
PermitOK(p, g, c, t) ==
    /\ p \in Permits
    /\ p.limit = g.limit /\ p.period = g.period
    /\ \E j \in Int : p.start = g.start + j * g.period
    /\ \A u \in 1 .. MaxTime : c[u] # 0 => /\ u < p.start + p.period
                                           /\ t < p.start => p.start - p.period < u
    /\ t < p.start + p.period => \A k \in Int :
          t \in Period(g, k) => SumFunctionOnSet(c, Period(g, k)) <= p.claimed

WithinLimit(g, c) == \A k \in Int : SumFunctionOnSet(c, Period(g, k)) <= g.limit

PermitInv ==
    /\ now \in 1 .. MaxTime
    /\ claims \in [1 .. MaxTime -> Nat]
    /\ \A u \in 1 .. MaxTime : u > now => claims[u] = 0
    /\ granted # None \/ permit # None => granted \in Grants /\ WithinLimit(granted, claims)
    /\ permit # None => PermitOK(permit, granted, claims, now)

(* Where the permission is after a claim. *)
LEMMA ClaimedFrom ==
    ASSUME NEW p \in Permits, NEW amount \in Nat, now \in Nat
    PROVE  LET r == claimed_from(p, amount)
           IN  /\ r \in Permits /\ r.limit = p.limit /\ r.period = p.period
               /\ \E q \in Int : r.start = p.start + q * p.period
               /\ p.start - p.period < now /\ now < p.start + p.period
                    => r.start = p.start /\ r.claimed = p.claimed + amount
               /\ now >= p.start + p.period
                    => /\ r.start <= now /\ now < r.start + r.period
                       /\ r.start >= p.start + p.period /\ r.claimed = amount
               /\ now <= p.start - p.period
                    => now <= r.start /\ r.start < now + r.period /\ r.claimed = amount
<1> DEFINE r == claimed_from(p, amount)
           P == p.period
           q == Quotient(now - p.start, P)
<1>1. P \in Nat /\ P > 0 /\ p.start \in Int /\ p.claimed \in Nat /\ p.limit \in Nat
      /\ now - p.start \in Int /\ p.start - now = -(now - p.start)
  BY DEF Permits
<1>2. /\ q \in Int /\ q * P \in Int
      /\ now >= p.start => q >= 0 /\ q * P <= now - p.start /\ now - p.start < q * P + P
      /\ now < p.start => q <= 0 /\ p.start - now >= -(q * P) /\ p.start - now < P - q * P
  <2>1. CASE now >= p.start
    <3>1. q = (now - p.start) \div P /\ now - p.start \in Nat
      BY <2>1, <1>1 DEF Quotient
    <3> HIDE DEF q, P
    <3>2. q \in Nat /\ q * P <= now - p.start /\ now - p.start < q * P + P
      BY <3>1, <1>1, Division
    <3> QED
      BY <3>2, <1>1, <2>1
  <2>2. CASE now < p.start
    <3> DEFINE m == (p.start - now) \div P
    <3>1. q = -m /\ p.start - now \in Nat
      BY <2>2, <1>1 DEF Quotient
    <3> HIDE DEF q, P
    <3>2. m \in Nat /\ m * P <= p.start - now /\ p.start - now < m * P + P
      BY <3>1, <1>1, Division
    <3> HIDE DEF m
    <3>3. q * P = -(m * P) /\ m * P \in Int
      BY <3>1, <3>2, <1>1
    <3> QED
      BY <3>1, <3>2, <3>3, <1>1, <2>2
  <2> QED
    BY <2>1, <2>2, <1>1
<1>3. r = [p EXCEPT !.start = p.start + q * P, !.claimed = IF q = 0 THEN p.claimed + amount ELSE amount]
  BY DEF claimed_from, Permits
<1> HIDE DEF q, r
<1>4. /\ r \in Permits /\ r.limit = p.limit /\ r.period = P /\ r.start = p.start + q * P
      /\ r.claimed = IF q = 0 THEN p.claimed + amount ELSE amount
  <2> DEFINE st == p.start + q * P
             cl == IF q = 0 THEN p.claimed + amount ELSE amount
  <2>1. st \in Int /\ cl \in Nat /\ r = [p EXCEPT !.start = st, !.claimed = cl]
    BY <1>1, <1>2, <1>3
  <2> HIDE DEF st, cl
  <2>2. /\ r \in Permits /\ r.limit = p.limit /\ r.period = p.period
        /\ r.start = st /\ r.claimed = cl
    BY <2>1 DEF Permits
  <2> QED
    BY <2>2 DEF st, cl
<1>5. /\ p.start - P < now /\ now < p.start + P => q = 0
      /\ now >= p.start + P => q >= 1 /\ q * P >= P
      /\ now <= p.start - P => q <= -1
  <2>1. (q >= 1 => q * P >= P) /\ (q <= -1 => q * P <= -P) /\ (q = 0 => q * P = 0)
    BY <1>1, <1>2
  <2> HIDE DEF P
  <2> QED
    BY <2>1, <1>1, <1>2
<1>6. \E n \in Int : r.start = p.start + n * P
  BY <1>2, <1>4
<1> HIDE DEF P
<1>7. /\ p.start - P < now /\ now < p.start + P => r.start = p.start /\ r.claimed = p.claimed + amount
      /\ now >= p.start + P => /\ r.start <= now /\ now < r.start + r.period
                               /\ r.start >= p.start + P /\ r.claimed = amount
      /\ now <= p.start - P => now <= r.start /\ r.start < now + r.period /\ r.claimed = amount
  BY <1>1, <1>2, <1>4, <1>5
<1> QED
  BY <1>4, <1>6, <1>7 DEF r, P

LEMMA NoClaimsYet ==
    ASSUME NEW g
    PROVE  /\ NoClaims \in [1 .. MaxTime -> Nat] /\ \A u \in 1 .. MaxTime : NoClaims[u] = 0
           /\ \A k : SumFunctionOnSet(NoClaims, Period(g, k)) = 0
<1>1. NoClaims \in [1 .. MaxTime -> Nat] /\ \A u \in 1 .. MaxTime : NoClaims[u] = 0
  BY DEF NoClaims
<1>2. ASSUME NEW k PROVE SumFunctionOnSet(NoClaims, Period(g, k)) = 0
  BY <1>1, PeriodFinite, SumZero
<1> QED
  BY <1>1, <1>2

(* A permission that was just signed: no claims count against it. *)
LEMMA PermitSigned ==
    ASSUME NEW t \in Terms, NEW p, PermitInv, p \in Permits,
           p.limit = t.limit, p.period = t.period, p.start = now + t.delay
    PROVE  /\ Signed(t) \in Grants /\ WithinLimit(Signed(t), NoClaims)
           /\ PermitOK(p, Signed(t), NoClaims, now)
<1>1. now \in Int /\ t \in [limit : Nat \ {0}, period : Nat \ {0}, periods : Nat \ {0}, delay : Int]
  BY BalancesAssumption DEF PermitInv
<1>2. /\ Signed(t) \in Grants /\ Signed(t).start = now + t.delay
      /\ Signed(t).limit = t.limit /\ Signed(t).period = t.period
      /\ t.limit \in Nat /\ t.period \in Nat /\ now + t.delay \in Int
  BY <1>1 DEF Signed, Grants
<1>3. WithinLimit(Signed(t), NoClaims)
  BY <1>2, NoClaimsYet DEF WithinLimit
<1>4. p.start = Signed(t).start + 0 * Signed(t).period
  BY <1>2
<1>5. \A k \in Int : SumFunctionOnSet(NoClaims, Period(Signed(t), k)) <= p.claimed
  BY NoClaimsYet DEF Permits
<1>6. PermitOK(p, Signed(t), NoClaims, now)
  BY <1>2, <1>4, <1>5, NoClaimsYet DEF PermitOK
<1> QED
  BY <1>2, <1>3, <1>6

(* A claim of what is available keeps the claims of every period within    *)
(* the limit, and the permission in step with them.                        *)
LEMMA PermitClaim ==
    ASSUME NEW amount \in Nat, amount > 0, PermitInv, permit # None,
           amount <= available_this_period(permit)
    PROVE  LET d == [claims EXCEPT ![now] = @ + amount]
               r == claimed_from(permit, amount)
           IN  WithinLimit(granted, d) /\ PermitOK(r, granted, d, now)
<1> DEFINE g == granted
           p == permit
           c == claims
           d == [claims EXCEPT ![now] = @ + amount]
           r == claimed_from(permit, amount)
           P == p.period
           sum(f, k) == SumFunctionOnSet(f, Period(g, k))
<1>1. /\ now \in 1 .. MaxTime /\ c \in [1 .. MaxTime -> Nat] /\ g \in Grants
      /\ WithinLimit(g, c) /\ PermitOK(p, g, c, now)
      /\ \A u \in 1 .. MaxTime : u > now => c[u] = 0
  BY DEF PermitInv
<1>2. /\ p \in Permits /\ p.limit = g.limit /\ P = g.period
      /\ P \in Nat /\ P > 0 /\ p.start \in Int /\ p.claimed \in Nat /\ g.limit \in Nat
      /\ g.start \in Int /\ now \in Nat /\ MaxTime \in Nat
  BY <1>1, BalancesAssumption DEF PermitOK, Permits, Grants
<1>3. /\ r \in Permits /\ r.limit = g.limit /\ r.period = g.period
      /\ \E q \in Int : r.start = p.start + q * P
      /\ p.start - P < now /\ now < p.start + P => r.start = p.start /\ r.claimed = p.claimed + amount
      /\ now >= p.start + P => /\ r.start <= now /\ now < r.start + P
                               /\ r.start >= p.start + P /\ r.claimed = amount
      /\ now <= p.start - P => now <= r.start /\ r.start < now + P /\ r.claimed = amount
  BY <1>2, ClaimedFrom
<1>4. \A k \in Int : /\ sum(d, k) = sum(c, k) + (IF now \in Period(g, k) THEN amount ELSE 0)
                     /\ sum(c, k) \in Nat /\ sum(c, k) <= g.limit
  <2> TAKE k \in Int
  <2> DEFINE S == Period(g, k)
  <2>1. sum(d, k) = sum(c, k) + (IF now \in S THEN amount ELSE 0)
    <3>1. IsFiniteSet(S) /\ S \subseteq 1 .. MaxTime
      BY PeriodFinite
    <3>2. \A x \in S : c[x] \in Int /\ d[x] \in Int
      BY <3>1, <1>1
    <3>3. \A x \in S \ {now} : c[x] = d[x]
      BY <3>1, <1>1
    <3>4. d[now] = c[now] + amount /\ c[now] \in Int
      BY <1>1
    <3> HIDE DEF S, c, d
    <3>5. SumFunctionOnSet(c, S) \in Int
      BY <3>1, <3>2, SumType
    <3>6. CASE now \in S
      <4>1. SumFunctionOnSet(d, S) = SumFunctionOnSet(c, S) + d[now] - c[now]
        BY ONLY <3>1, <3>2, <3>3, <3>6, SumChange, ZenonT(30)
      <4> QED
        BY <4>1, <3>4, <3>5, <3>6 DEF S
    <3>7. CASE now \notin S
      <4>1. \A x \in S : c[x] = d[x]
        BY <3>3, <3>7
      <4>2. SumFunctionOnSet(d, S) = SumFunctionOnSet(c, S)
        BY <4>1, <3>1, SumEqual
      <4> QED
        BY <4>2, <3>5, <3>7 DEF S
    <3> QED
      BY <3>6, <3>7
  <2>2. sum(c, k) \in Nat /\ sum(c, k) <= g.limit
    BY <1>1, PeriodSum DEF WithinLimit
  <2> QED
    BY <2>1, <2>2
<1>5. \E j \in Int : r.start = g.start + j * g.period
  <2>1. PICK j \in Int : p.start = g.start + j * P
    BY <1>1, <1>2 DEF PermitOK
  <2>2. PICK q \in Int : r.start = p.start + q * P
    BY <1>3
  <2>3. (j + q) * P = j * P + q * P /\ j * P \in Int /\ q * P \in Int
    BY <1>2, Distribute
  <2>4. r.start = g.start + (j + q) * P
    BY <2>1, <2>2, <2>3, <1>2
  <2> QED
    BY <2>4, <1>2
<1>6. \A u \in 1 .. MaxTime : d[u] # 0 => c[u] # 0 \/ u = now
  BY <1>1
<1>7. amount <= g.limit
  BY <1>2 DEF available_this_period
<1>8. r.start \in Int /\ r.claimed \in Nat
  BY <1>3 DEF Permits
<1>9. \A u \in 1 .. MaxTime : c[u] # 0 => /\ u <= now /\ u < p.start + P
                                          /\ now < p.start => p.start - P < u
  BY <1>1, <1>2 DEF PermitOK
<1> HIDE DEF r, d, c, p, g, P, sum
\* The permission stays in its period.
<1>10. CASE p.start - P < now /\ now < p.start + P
  <2>1. r.start = p.start /\ r.claimed = p.claimed + amount
    BY <1>3, <1>10
  <2>2. \A k \in Int : now \in Period(g, k) => sum(c, k) <= p.claimed
    BY <1>1, <1>10 DEF PermitOK, P, sum
  <2>3. p.limit > p.claimed /\ amount <= p.limit - p.claimed
    BY <1>2, <1>10 DEF available_this_period, p, P
  <2>4. \A k \in Int : /\ sum(d, k) <= g.limit
                       /\ now \in Period(g, k) => sum(d, k) <= r.claimed
    BY <2>1, <2>2, <2>3, <1>2, <1>4
  <2>5. \A u \in 1 .. MaxTime : d[u] # 0 => u < r.start + P /\ (now < r.start => r.start - P < u)
    BY <2>1, <1>2, <1>6, <1>9, <1>10
  <2> QED
    BY <2>4, <2>5, <1>2, <1>3, <1>5 DEF WithinLimit, PermitOK, sum, d, r, g, p
\* The permission moves on to a period without claims.
<1>11. CASE now >= p.start + P
  <2>1. /\ r.start <= now /\ now < r.start + P /\ r.start >= p.start + P /\ r.claimed = amount
    BY <1>3, <1>11
  <2>2. PICK j \in Int : r.start = g.start + j * g.period
    BY <1>5
  <2>3. \A k \in Int : now \in Period(g, k) => k = j
    <3> SUFFICES ASSUME NEW k \in Int, now \in Period(g, k) PROVE k = j
      OBVIOUS
    <3>1. g.start + k * g.period <= now /\ now < g.start + k * g.period + g.period
      BY <1>1, PeriodDef
    <3>2. g.start + j * g.period <= now /\ now < g.start + j * g.period + g.period
      BY <2>1, <2>2, <1>2
    <3> QED
      BY <3>1, <3>2, <1>1, <1>2, PeriodUnique
  <2>4. sum(c, j) = 0
    <3>1. \A u \in Period(g, j) : u \in 1 .. MaxTime /\ u >= r.start
      BY <2>2, <1>1, PeriodDef, PeriodFinite
    <3>2. \A u \in Period(g, j) : c[u] = 0
      BY <3>1, <2>1, <1>2, <1>8, <1>9
    <3> QED
      BY <3>2, <1>1, PeriodSum DEF sum
  <2>5. \A k \in Int : /\ sum(d, k) <= g.limit
                       /\ now \in Period(g, k) => sum(d, k) <= r.claimed
    BY <2>1, <2>3, <2>4, <1>2, <1>4, <1>7
  <2>6. \A u \in 1 .. MaxTime : d[u] # 0 => u < r.start + P /\ (now < r.start => r.start - P < u)
    BY <2>1, <1>2, <1>6, <1>8, <1>9
  <2> QED
    BY <2>5, <2>6, <1>2, <1>3, <1>5 DEF WithinLimit, PermitOK, sum, d, r, g, p
\* Nothing was claimed more than a period before the start.
<1>12. CASE now <= p.start - P
  <2>1. now <= r.start /\ r.start < now + P /\ r.claimed = amount
    BY <1>3, <1>12
  <2>2. ASSUME NEW u \in 1 .. MaxTime, c[u] # 0 PROVE FALSE
    <3>1. u \in Int /\ u <= now /\ (now < p.start => p.start - P < u)
      BY <2>2, <1>9
    <3> QED
      BY <3>1, <1>2, <1>12
  <2>3. \A k \in Int : sum(c, k) = 0
    BY <2>2, <1>1, PeriodSum, PeriodFinite DEF sum
  <2>4. \A k \in Int : /\ sum(d, k) <= g.limit
                       /\ now \in Period(g, k) => sum(d, k) <= r.claimed
    BY <2>1, <2>3, <1>2, <1>4, <1>7
  <2>5. \A u \in 1 .. MaxTime : d[u] # 0 => u < r.start + P /\ (now < r.start => r.start - P < u)
    BY <2>1, <2>2, <1>2, <1>6, <1>8
  <2> QED
    BY <2>4, <2>5, <1>2, <1>3, <1>5 DEF WithinLimit, PermitOK, sum, d, r, g, p
<1> QED
  BY <1>2, <1>10, <1>11, <1>12 DEF r, d, c, p, g, P

LEMMA PermitInit == Init => PermitInv
<1> SUFFICES ASSUME Init PROVE PermitInv
  OBVIOUS
<1>1. now \in 1 .. MaxTime
  BY BalancesAssumption DEF Init
<1> QED
  BY <1>1 DEF Init, PermitInv

LEMMA PermitNext == PermitInv /\ [Next]_vars => PermitInv'
<1> SUFFICES ASSUME PermitInv, [Next]_vars PROVE PermitInv'
  OBVIOUS
<1>i. /\ now \in 1 .. MaxTime /\ claims \in [1 .. MaxTime -> Nat] /\ MaxTime \in Nat
      /\ \A u \in 1 .. MaxTime : u > now => claims[u] = 0
  BY BalancesAssumption DEF PermitInv
<1>1. ASSUME NEW t \in Terms, withdraw_permission_create(t) \/ withdraw_permission_update(t)
      PROVE  PermitInv'
  <2>0. /\ t \in [limit : Nat \ {0}, period : Nat \ {0}, periods : Nat \ {0}, delay : Int]
        /\ now + t.delay \in Int /\ expires(now + t.delay, t) \in Int
    BY <1>i, BalancesAssumption, SMTT(30) DEF expires
  <2>1. now' = now /\ granted' = Signed(t) /\ claims' = NoClaims
    BY <1>1 DEF withdraw_permission_create, withdraw_permission_update
  <2>2. permit' \in Permits /\ permit'.limit = t.limit /\ permit'.period = t.period
        /\ permit'.start = now + t.delay
    <3>1. CASE withdraw_permission_create(t)
      <4>1. permit' = [limit |-> t.limit, period |-> t.period, start |-> now + t.delay,
                       expiration |-> expires(now + t.delay, t), claimed |-> 0]
        BY <3>1 DEF withdraw_permission_create
      <4> QED
        BY <4>1, <2>0 DEF Permits
    <3>2. CASE withdraw_permission_update(t)
      <4>1. permit' = [permit EXCEPT !.limit = t.limit, !.period = t.period, !.start = now + t.delay,
                                     !.expiration = expires(now + t.delay, t)]
        BY <3>2 DEF withdraw_permission_update
      <4>2. permit \in Permits
        BY <3>2 DEF withdraw_permission_update, PermitInv, PermitOK
      <4> DEFINE st == now + t.delay
                 ex == expires(now + t.delay, t)
      <4> HIDE DEF st, ex
      <4>3. permit' = [permit EXCEPT !.limit = t.limit, !.period = t.period, !.start = st,
                                     !.expiration = ex] /\ st \in Int /\ ex \in Int
        BY <4>1, <2>0 DEF st, ex
      <4>4. permit' \in Permits /\ permit'.limit = t.limit /\ permit'.period = t.period
            /\ permit'.start = st
        BY <4>2, <4>3, <2>0 DEF Permits
      <4> QED
        BY <4>4 DEF st
    <3> QED
      BY <3>1, <3>2, <1>1
  <2>3. /\ Signed(t) \in Grants /\ WithinLimit(Signed(t), NoClaims)
        /\ PermitOK(permit', Signed(t), NoClaims, now)
    BY <2>2, PermitSigned
  <2>4. NoClaims \in [1 .. MaxTime -> Nat] /\ \A u \in 1 .. MaxTime : NoClaims[u] = 0
    BY NoClaimsYet
  <2> QED
    BY <2>1, <2>3, <2>4, <1>i DEF PermitInv
<1>2. CASE withdraw_permission_delete
  BY <1>2 DEF withdraw_permission_delete, PermitInv
<1>3. ASSUME NEW amount \in Amounts, withdraw_permission_claim(amount)
      PROVE  PermitInv'
  <2>1. /\ permit # None /\ amount <= available_this_period(permit)
        /\ permit' = claimed_from(permit, amount) /\ claims' = [claims EXCEPT ![now] = @ + amount]
        /\ now' = now /\ granted' = granted
    BY <1>3 DEF withdraw_permission_claim
  <2>2. granted \in Grants /\ amount \in Nat /\ amount > 0
    BY <2>1, BalancesAssumption DEF PermitInv
  <2>3. WithinLimit(granted, claims') /\ PermitOK(permit', granted, claims', now)
    BY <2>1, <2>2, PermitClaim
  <2>4. claims' \in [1 .. MaxTime -> Nat] /\ \A u \in 1 .. MaxTime : u > now => claims'[u] = 0
    BY <2>1, <2>2, <1>i
  <2> QED
    BY <2>1, <2>2, <2>3, <2>4, <1>i DEF PermitInv
<1>4. CASE Block
  <2>1. /\ now < MaxTime /\ now' = now + 1 /\ granted' = granted /\ claims' = claims
        /\ permit' = None \/ permit' = permit
    BY <1>4 DEF Block
  <2>2. now' \in 1 .. MaxTime /\ \A u \in 1 .. MaxTime : u > now' => claims'[u] = 0
    BY <2>1, <1>i
  <2>3. ASSUME permit # None
        PROVE  PermitOK(permit, granted, claims, now + 1)
    <3> DEFINE p == permit
               g == granted
    <3>1. /\ PermitOK(p, g, claims, now) /\ g \in Grants /\ p \in Permits
          /\ p.start \in Int /\ p.period \in Nat /\ p.claimed \in Nat
      BY <2>3 DEF PermitInv, PermitOK, Permits
    <3>2. ASSUME now + 1 < p.start + p.period, NEW k \in Int, now + 1 \in Period(g, k)
          PROVE  SumFunctionOnSet(claims, Period(g, k)) <= p.claimed
      <4>0. now < p.start + p.period /\ now + 1 \in 1 .. MaxTime /\ g.start \in Int /\ k * g.period \in Int
            /\ g.period \in Nat
        BY <3>1, <3>2, <2>1, <1>i, SMTT(30) DEF Grants
      <4>1. CASE now \in Period(g, k)
        BY <4>0, <4>1, <3>1 DEF PermitOK
      <4>2. CASE now \notin Period(g, k)
        <5>1. g.start + k * g.period <= now + 1 /\ now + 1 < g.start + k * g.period + g.period
          BY <3>1, <3>2, <4>0, PeriodDef
        <5>2. ~ (g.start + k * g.period <= now /\ now < g.start + k * g.period + g.period)
          BY <3>1, <4>2, <1>i, PeriodDef
        <5>3. now < g.start + k * g.period
          BY <5>1, <5>2, <4>0, <1>i, SMTT(30)
        <5>4. \A u \in Period(g, k) : u \in 1 .. MaxTime /\ u >= g.start + k * g.period
          BY <3>1, PeriodDef, PeriodFinite
        <5>5. \A u \in Period(g, k) : claims[u] = 0
          BY <5>3, <5>4, <4>0, <1>i
        <5>6. SumFunctionOnSet(claims, Period(g, k)) = 0
          BY <5>5, <1>i, PeriodSum
        <5> QED
          BY <5>6, <3>1
      <4> QED
        BY <4>1, <4>2
    <3>3. \A u \in 1 .. MaxTime : claims[u] # 0 =>
             u < p.start + p.period /\ (now + 1 < p.start => p.start - p.period < u)
      BY <3>1, <1>i DEF PermitOK
    <3> QED
      BY <3>1, <3>2, <3>3 DEF PermitOK
  <2> QED
    BY <2>1, <2>2, <2>3, <1>i DEF PermitInv
<1>5. CASE UNCHANGED <<now, permit, granted, claims>>
  BY <1>5 DEF PermitInv
<1>6. ASSUME NEW amount \in Amounts, NEW i \in Policies, vesting_balance_create(amount, i)
      PROVE  PermitInv'
  BY <1>5, <1>6 DEF vesting_balance_create
<1>7. ASSUME NEW amount \in Amounts, NEW id \in DOMAIN vesting, vesting_balance_withdraw(id, amount)
      PROVE  PermitInv'
  BY <1>5, <1>7 DEF vesting_balance_withdraw
<1>8. ASSUME NEW amount \in Amounts \cup {0}, balance_claim(amount)
      PROVE  PermitInv'
  BY <1>5, <1>8 DEF balance_claim
<1>9. CASE UNCHANGED vars
  BY <1>5, <1>9 DEF vars
<1> QED
  BY <1>1, <1>2, <1>3, <1>4, <1>6, <1>7, <1>8, <1>9 DEF Next

(* "Any number of withdrawals may be made so long as the total amount      *)
(* withdrawn per period does not exceed the limit for any given period":   *)
(* for any terms, amounts and times of the claims.                         *)
THEOREM LimitTheorem == Spec => []LimitPerPeriod
<1>1. Spec => []PermitInv
  BY PermitInit, PermitNext, PTL DEF Spec
<1>2. PermitInv => LimitPerPeriod
  BY BalancesAssumption DEF PermitInv, WithinLimit, LimitPerPeriod
<1> QED
  BY <1>1, <1>2, PTL
=============================================================================
