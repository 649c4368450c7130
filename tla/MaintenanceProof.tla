------------------------- MODULE MaintenanceProof ---------------------------
(***************************************************************************)
(* The supply of the core asset is the sum of what holds it, never exceeds *)
(* its maximum, no coin of it votes twice, and the vote elects those that  *)
(* the stake wants: for any accounts, shares of fees, opinions,            *)
(* parameters, amounts and times.                                          *)
(***************************************************************************)
EXTENDS Maintenance, FoldTheorems

(* Arithmetic *)

LEMMA Division ==
    ASSUME NEW a \in Nat, NEW b \in Nat, b > 0
    PROVE  a \div b \in Nat /\ (a \div b) * b <= a /\ a < (a \div b) * b + b
OBVIOUS

LEMMA Product ==
    ASSUME NEW a \in Nat, NEW b \in Nat
    PROVE  a * b \in Nat
OBVIOUS

LEMMA Monotone ==
    ASSUME NEW a \in Int, NEW b \in Int, NEW c \in Nat, a <= b
    PROVE  a * c <= b * c
OBVIOUS

(* Two shares of a that are together at most the whole, rounded down, are  *)
(* at most a.                                                              *)
LEMMA TwoCuts ==
    ASSUME NEW a \in Nat, NEW p \in Nat, NEW q \in Nat, NEW h \in Nat, h > 0, p + q <= h
    PROVE  /\ (a * p) \div h \in Nat /\ (a * q) \div h \in Nat
           /\ (a * p) \div h + (a * q) \div h <= a
<1> DEFINE x == (a * p) \div h
           y == (a * q) \div h
<1>1. a * p \in Nat /\ a * q \in Nat /\ a * h \in Nat
  BY Product
<1>2. x \in Nat /\ x * h <= a * p /\ y \in Nat /\ y * h <= a * q
  BY <1>1, Division
<1>3. a * p + a * q <= a * h
  <2>1. (p + q) * a <= h * a
    BY Monotone
  <2> QED
    BY <2>1
<1> HIDE DEF x, y
<1>4. (x + y) * h <= a * h
  <2>1. (x + y) * h = x * h + y * h
    BY <1>2
  <2>2. x * h \in Nat /\ y * h \in Nat
    BY <1>2, Product
  <2> QED
    BY <1>1, <1>2, <1>3, <2>1, <2>2
<1>5. x + y <= a
  <2>1. SUFFICES ASSUME a + 1 <= x + y PROVE FALSE
    BY <1>2
  <2>2. (a + 1) * h <= (x + y) * h
    BY <2>1, <1>2, Monotone
  <2>3. (a + 1) * h = a * h + h
    OBVIOUS
  <2>4. (x + y) * h \in Nat
    BY <1>2, Product
  <2> QED
    BY <1>1, <1>4, <2>2, <2>3, <2>4
<1> QED
  BY <1>2, <1>5 DEF x, y

-----------------------------------------------------------------------------
(* Vesting balances of fees and pay: their policies count coin-seconds. *)

Cdd == [kind : {"cdd"}, vesting_seconds : Nat, start_claim : Nat,
        coin_seconds_earned : Nat, last_update : Nat]
VB  == [owner : Accounts, balance : Nat, policy : Cdd]

(* A vesting balance with another balance and policy. *)
With(vb, n, q) == [vb EXCEPT !.balance = n, !.policy = q]

LEMMA Replaced ==
    ASSUME NEW vb \in VB, NEW n \in Nat, NEW q \in Cdd
    PROVE  /\ With(vb, n, q) \in VB
           /\ With(vb, n, q).owner = vb.owner
           /\ With(vb, n, q).balance = n
           /\ With(vb, n, q).policy = q
BY DEF VB, With

LEMMA SecondsType ==
    ASSUME NEW p \in Cdd
    PROVE  Seconds(p) \in Nat /\ Seconds(p) > 0
BY DEF Cdd, Seconds

LEMMA EarnedType ==
    ASSUME NEW p \in Cdd, NEW b \in Nat, NEW t \in Nat, p.last_update <= t
    PROVE  /\ compute_coin_seconds_earned(p, b, t) \in Nat
           /\ compute_coin_seconds_earned(p, b, t) <= b * Seconds(p)
<1>1. p.coin_seconds_earned \in Nat /\ p.last_update \in Nat
  BY DEF Cdd
<1>2. b * (t - p.last_update) \in Nat /\ b * Seconds(p) \in Nat
  BY <1>1, SecondsType, Product
<1> QED
  BY <1>1, <1>2 DEF compute_coin_seconds_earned, min

LEMMA DepositType ==
    ASSUME NEW vb \in VB, NEW t \in Nat, vb.policy.last_update <= t, NEW amount \in Nat,
           NEW rv \in BOOLEAN
    PROVE  /\ deposit(vb, t, amount, rv) \in VB
           /\ deposit(vb, t, amount, rv).owner = vb.owner
           /\ deposit(vb, t, amount, rv).balance = vb.balance + amount
           /\ deposit(vb, t, amount, rv).policy.last_update = t
<1> DEFINE p == vb.policy
           c == compute_coin_seconds_earned(p, vb.balance, t)
           e == IF rv THEN c ELSE c + amount * Seconds(p)
           q == [p EXCEPT !.coin_seconds_earned = e, !.last_update = t]
<1>1. p \in Cdd /\ vb.balance \in Nat
  BY DEF VB
<1>2. c \in Nat /\ amount * Seconds(p) \in Nat
  BY <1>1, EarnedType, SecondsType, Product
<1>3. e \in Nat
  BY <1>2
<1>4. deposit(vb, t, amount, rv) = With(vb, vb.balance + amount, q)
  BY <1>1 DEF deposit, update_coin_seconds_earned, Cdd, VB, With
<1> HIDE DEF e
<1>5. q \in Cdd /\ q.last_update = t
  BY <1>1, <1>3 DEF Cdd
<1> HIDE DEF q
<1>6. vb.balance + amount \in Nat
  BY <1>1
<1> QED
  BY <1>4, <1>5, <1>6, Replaced

LEMMA WithdrawType ==
    ASSUME NEW vb \in VB, NEW t \in Nat, vb.policy.last_update <= t, NEW amount \in Nat,
           amount <= get_allowed_withdraw(vb, t)
    PROVE  /\ withdraw(vb, t, amount) \in VB
           /\ withdraw(vb, t, amount).owner = vb.owner
           /\ withdraw(vb, t, amount).balance = vb.balance - amount
           /\ withdraw(vb, t, amount).policy.last_update = t
<1> DEFINE p == vb.policy
           b == vb.balance
           S == Seconds(p)
           c == compute_coin_seconds_earned(p, b, t)
           q == [p EXCEPT !.coin_seconds_earned = c - amount * S, !.last_update = t]
<1>1. p \in Cdd /\ b \in Nat /\ p.kind = "cdd" /\ p.start_claim \in Nat
  BY DEF VB, Cdd
<1>2. S \in Nat /\ S > 0 /\ c \in Nat /\ c <= b * S
  BY <1>1, EarnedType, SecondsType
<1>3. withdraw(vb, t, amount) = With(vb, vb.balance - amount, q)
  BY <1>1 DEF withdraw, on_withdraw, update_coin_seconds_earned, Cdd, VB, With
<1>4. amount <= c \div S
  <2>1. get_allowed_withdraw(vb, t) = IF t <= p.start_claim THEN 0 ELSE c \div S
    BY <1>1 DEF get_allowed_withdraw, cdd_allowed
  <2> HIDE DEF c, S, p, b
  <2>2. c \div S \in Nat
    BY <1>2, Division
  <2> QED
    BY <2>1, <2>2
<1> HIDE DEF c, S, b
<1>5. c \div S \in Nat /\ (c \div S) * S <= c
  BY <1>2, Division
<1>6. amount * S <= (c \div S) * S /\ amount * S \in Nat /\ (c \div S) * S \in Nat
  BY <1>2, <1>4, <1>5, Monotone, Product
<1>7. c - amount * S \in Nat
  BY <1>2, <1>5, <1>6
<1>8. amount <= b
  <2>1. SUFFICES ASSUME b + 1 <= amount PROVE FALSE
    BY <1>1 DEF b
  <2>2. (b + 1) * S <= amount * S
    <3>1. b + 1 \in Int /\ amount \in Int
      BY <1>1 DEF b
    <3> QED
      BY <2>1, <3>1, <1>2, Monotone
  <2>3. (b + 1) * S = b * S + S /\ b * S \in Nat
    BY <1>1, <1>2, Product DEF b
  <2> QED
    BY <2>2, <2>3, <1>2, <1>5, <1>6
<1>9. q \in Cdd /\ q.last_update = t
  BY <1>1, <1>7 DEF Cdd
<1> HIDE DEF q
<1>10. vb.balance - amount \in Nat
  BY <1>1, <1>8 DEF b
<1> QED
  BY <1>3, <1>9, <1>10, Replaced

-----------------------------------------------------------------------------
(* Lists of vesting balances *)

VbsOK(v, t) == v \in Seq(VB) /\ \A i \in DOMAIN v : v[i].policy.last_update <= t

Bals(v)     == [i \in DOMAIN v |-> v[i].balance]
Owned(v, S) == {i \in DOMAIN v : v[i].owner \in S}

(* What the accounts in S have in vesting balances. *)
Hold(v, S)  == SumFunctionOnSet(Bals(v), Owned(v, S))

LEMMA VbsType ==
    ASSUME NEW v \in Seq(VB)
    PROVE  /\ DOMAIN v = 1 .. Len(v) /\ Len(v) \in Nat /\ IsFiniteSet(DOMAIN v)
           /\ \A i \in DOMAIN v : /\ v[i] \in VB /\ v[i].owner \in Accounts
                                  /\ v[i].balance \in Nat /\ Bals(v)[i] = v[i].balance
           /\ \A S : IsFiniteSet(Owned(v, S))
<1>1. DOMAIN v = 1 .. Len(v) /\ Len(v) \in Nat
  OBVIOUS
<1>2. IsFiniteSet(1 .. Len(v))
  BY <1>1, FS_Interval
<1>3. \A i \in DOMAIN v : v[i] \in VB
  OBVIOUS
<1>4. \A i \in DOMAIN v : v[i].owner \in Accounts /\ v[i].balance \in Nat /\ Bals(v)[i] = v[i].balance
  BY <1>3 DEF VB, Bals
<1>5. \A S : Owned(v, S) \subseteq 1 .. Len(v)
  BY <1>1 DEF Owned
<1> QED
  BY <1>1, <1>2, <1>3, <1>4, <1>5, FS_Subset

LEMMA HoldType ==
    ASSUME NEW v \in Seq(VB), NEW S
    PROVE  /\ IsFiniteSet(Owned(v, S)) /\ \A i \in Owned(v, S) : Bals(v)[i] \in Nat /\ Bals(v)[i] \in Int
           /\ Hold(v, S) \in Nat
<1>1. \A i \in Owned(v, S) : Bals(v)[i] \in Nat
  BY VbsType DEF Owned
<1> QED
  BY <1>1, VbsType, SumType DEF Hold

(* Another vesting balance of the same owner in the place of one. *)
LEMMA HoldChange ==
    ASSUME NEW v \in Seq(VB), NEW i \in DOMAIN v, NEW w \in VB, w.owner = v[i].owner, NEW u,
           u = [v EXCEPT ![i] = w]
    PROVE  /\ u \in Seq(VB) /\ DOMAIN u = DOMAIN v
           /\ \A j \in DOMAIN v : u[j].owner = v[j].owner
           /\ \A S : Hold(u, S) = Hold(v, S) + IF w.owner \in S THEN w.balance - v[i].balance ELSE 0
<1>1. u \in Seq(VB) /\ DOMAIN u = DOMAIN v
  OBVIOUS
<1>2. \A j \in DOMAIN v : u[j] = IF j = i THEN w ELSE v[j]
  BY <1>1, VbsType
<1>3. \A j \in DOMAIN v : u[j].owner = v[j].owner
  BY <1>2
<1>4. ASSUME NEW S
      PROVE  Hold(u, S) = Hold(v, S) + IF w.owner \in S THEN w.balance - v[i].balance ELSE 0
  <2>1. Owned(u, S) = Owned(v, S) /\ Owned(v, S) \subseteq DOMAIN v /\ IsFiniteSet(Owned(v, S))
    BY <1>1, <1>3, VbsType DEF Owned
  <2>2. \A j \in Owned(v, S) : Bals(v)[j] \in Int /\ Bals(u)[j] \in Int
    BY ONLY <1>1, <2>1, HoldType, v \in Seq(VB)
  <2>3. \A j \in Owned(v, S) \ {i} : Bals(v)[j] = Bals(u)[j]
    BY <1>1, <1>2, <2>1, VbsType
  <2>4. Bals(u)[i] = w.balance /\ Bals(v)[i] = v[i].balance
    BY <1>1, <1>2, VbsType
  <2>5. CASE w.owner \in S
    <3>1. i \in Owned(v, S)
      BY <2>5 DEF Owned
    <3>2. SumFunctionOnSet(Bals(u), Owned(v, S)) = SumFunctionOnSet(Bals(v), Owned(v, S)) + Bals(u)[i] - Bals(v)[i]
      BY ONLY <2>1, <2>2, <2>3, <3>1, SumChange
    <3>3. Hold(v, S) \in Nat /\ w.balance \in Nat /\ v[i].balance \in Nat
      BY VbsType, HoldType DEF VB
    <3> QED
      BY <2>1, <2>4, <2>5, <3>2, <3>3 DEF Hold
  <2>6. CASE w.owner \notin S
    <3>1. i \notin Owned(v, S)
      BY <2>6 DEF Owned
    <3>2. \A j \in Owned(v, S) : Bals(u)[j] = Bals(v)[j]
      BY <2>3, <3>1
    <3>3. SumFunctionOnSet(Bals(u), Owned(v, S)) = SumFunctionOnSet(Bals(v), Owned(v, S))
      BY ONLY <2>1, <3>2, SumEqual
    <3> QED
      BY <2>1, <2>6, <3>3, HoldType DEF Hold
  <2> QED
    BY <2>5, <2>6
<1> QED
  BY <1>1, <1>3, <1>4

LEMMA HoldAppend ==
    ASSUME NEW v \in Seq(VB), NEW w \in VB
    PROVE  /\ Append(v, w) \in Seq(VB) /\ DOMAIN Append(v, w) = DOMAIN v \cup {Len(v) + 1}
           /\ Append(v, w)[Len(v) + 1] = w /\ \A j \in DOMAIN v : Append(v, w)[j] = v[j]
           /\ \A S : Hold(Append(v, w), S) = Hold(v, S) + IF w.owner \in S THEN w.balance ELSE 0
<1> DEFINE n == Len(v) + 1
           u == Append(v, w)
<1>1. u \in Seq(VB) /\ DOMAIN u = DOMAIN v \cup {n} /\ n \notin DOMAIN v
  BY VbsType
<1>2. u[n] = w /\ \A j \in DOMAIN v : u[j] = v[j]
  BY VbsType
<1> HIDE DEF n, u
<1>3. ASSUME NEW S
      PROVE  Hold(u, S) = Hold(v, S) + IF w.owner \in S THEN w.balance ELSE 0
  <2>1. \A j \in Owned(v, S) : Bals(u)[j] = Bals(v)[j]
    BY <1>1, <1>2 DEF Owned, Bals
  <2>2. SumFunctionOnSet(Bals(u), Owned(v, S)) = Hold(v, S)
    BY <2>1, VbsType, SumEqual DEF Hold
  <2>3. CASE w.owner \in S
    <3>1. n \in Owned(u, S) /\ Owned(u, S) \ {n} = Owned(v, S)
      BY <1>1, <1>2, <2>3 DEF Owned
    <3>2. \A j \in Owned(u, S) : Bals(u)[j] \in Int
      BY ONLY <1>1, HoldType
    <3>a. IsFiniteSet(Owned(u, S))
      BY ONLY <1>1, HoldType
    <3>3. Hold(u, S) = Bals(u)[n] + SumFunctionOnSet(Bals(u), Owned(u, S) \ {n})
      BY ONLY <3>a, <3>1, <3>2, SumRemove DEF Hold
    <3>4. Bals(u)[n] = w.balance /\ w.balance \in Nat /\ Hold(v, S) \in Nat
      <4>1. Bals(u)[n] = w.balance
        BY ONLY <1>1, <1>2 DEF Bals
      <4> QED
        BY <4>1, HoldType DEF VB
    <3> QED
      <4>1. SumFunctionOnSet(Bals(u), Owned(u, S) \ {n}) = Hold(v, S)
        BY ONLY <2>2, <3>1
      <4> QED
        BY ONLY <4>1, <2>3, <3>3, <3>4
  <2>4. CASE w.owner \notin S
    <3>1. Owned(u, S) = Owned(v, S)
      BY <1>1, <1>2, <2>4 DEF Owned
    <3> QED
      BY <2>2, <2>4, <3>1, HoldType DEF Hold
  <2> QED
    BY <2>3, <2>4
<1> QED
  BY <1>1, <1>2, <1>3 DEF n, u

-----------------------------------------------------------------------------
(* The ledger *)

Coins == [Accounts -> Nat]
Ids   == [Accounts -> Nat \cup {None}]
Refs  == [registrar : Accounts, referrer : Accounts, lifetime_referrer : Accounts]

Ledgers == [balance : Coins, pending_fees : Coins, pending_vested_fees : Coins, vbs : Seq(VB),
            cashback_vb : Ids, pay_vb : Ids, member : Coins, referral : [Accounts -> Refs],
            lifetime_percent : Coins, current_supply : Int, accumulated_fees : Nat]

(* id, if there is one, is a vesting balance of a. *)
OwnVb(v, a, id) == id # None => id \in DOMAIN v /\ v[id].owner = a

LedgerOK(l, t) ==
    /\ l \in Ledgers /\ VbsOK(l.vbs, t)
    /\ \A a \in Accounts : OwnVb(l.vbs, a, l.cashback_vb[a]) /\ OwnVb(l.vbs, a, l.pay_vb[a])
    /\ \A a \in Accounts : NetworkPercent + l.lifetime_percent[a] <= Hundred

Outside(l) == SumFunction(l.balance) + SumFunction(l.pending_fees) + SumFunction(l.pending_vested_fees)

(* What the supply exceeds the coins in the ledger by: the budget of the   *)
(* witnesses, and an amount that is about to be deposited.                 *)
Excess(l) == l.current_supply - Outside(l) - Hold(l.vbs, Accounts) - l.accumulated_fees

LEMMA AccountsFinite == IsFiniteSet(Accounts)
<1>1. ByName \in Seq(Accounts)
  BY MaintenanceAssumption
<1>2. IsFiniteSet(DOMAIN ByName)
  BY <1>1, FS_Interval
<1>3. ByName \in Surjection(DOMAIN ByName, Accounts)
  BY <1>1 DEF Accounts, Range, Surjection
<1> QED
  BY <1>2, <1>3, FS_Surjection

LEMMA CoinsSum ==
    ASSUME NEW f \in Coins
    PROVE  SumFunction(f) \in Nat /\ SumFunction(f) = SumFunctionOnSet(f, Accounts)
<1>1. DOMAIN f = Accounts /\ \A a \in Accounts : f[a] \in Nat
  BY DEF Coins
<1>2. SumFunctionOnSet(f, Accounts) \in Nat
  BY <1>1, AccountsFinite, SumType
<1> QED
  BY <1>1, <1>2 DEF SumFunction

LEMMA CoinsChange ==
    ASSUME NEW f \in Coins, NEW a \in Accounts, NEW n \in Nat, NEW g, g = [f EXCEPT ![a] = n]
    PROVE  g \in Coins /\ SumFunction(g) = SumFunction(f) + n - f[a] /\ f[a] \in Nat
<1>1. g \in Coins /\ g[a] = n /\ f[a] \in Nat /\ \A x \in Accounts \ {a} : f[x] = g[x]
  BY DEF Coins
<1>2. \A x \in Accounts : f[x] \in Int /\ g[x] \in Int
  BY <1>1 DEF Coins
<1>3. SumFunctionOnSet(g, Accounts) = SumFunctionOnSet(f, Accounts) + g[a] - f[a]
  BY ONLY <1>1, <1>2, AccountsFinite, SumChange, a \in Accounts
<1> QED
  BY ONLY <1>1, <1>3, CoinsSum, f \in Coins

LEMMA LedgerType ==
    ASSUME NEW l, NEW t, LedgerOK(l, t)
    PROVE  /\ l.balance \in Coins /\ l.pending_fees \in Coins /\ l.pending_vested_fees \in Coins
           /\ l.vbs \in Seq(VB) /\ l.current_supply \in Int /\ l.accumulated_fees \in Nat
           /\ Outside(l) \in Nat /\ Hold(l.vbs, Accounts) \in Nat /\ Excess(l) \in Int
<1>1. /\ l.balance \in Coins /\ l.pending_fees \in Coins /\ l.pending_vested_fees \in Coins
      /\ l.vbs \in Seq(VB) /\ l.current_supply \in Int /\ l.accumulated_fees \in Nat
  BY DEF LedgerOK, Ledgers
<1>2. Outside(l) \in Nat
  BY <1>1, CoinsSum DEF Outside
<1>3. Hold(l.vbs, Accounts) \in Nat
  BY <1>1, HoldType
<1> QED
  BY <1>1, <1>2, <1>3 DEF Excess

(* deposit_lazy_vesting changes nothing but the list of vesting balances,  *)
(* and puts the amount into one of the owner's.                            *)
LazyOK(l, d, owner, amount, t) ==
    \E v : /\ d.l = [l EXCEPT !.vbs = v] /\ VbsOK(v, t)
           /\ \A j \in DOMAIN l.vbs : j \in DOMAIN v /\ v[j].owner = l.vbs[j].owner
           /\ d.id \in DOMAIN v /\ v[d.id].owner = owner
           /\ \A S : Hold(v, S) = Hold(l.vbs, S) + IF owner \in S THEN amount ELSE 0

LEMMA LazyDeposit ==
    ASSUME NEW l, NEW t \in Nat, LedgerOK(l, t), NEW owner \in Accounts, NEW id, OwnVb(l.vbs, owner, id),
           NEW amount \in Nat, NEW seconds \in Nat, NEW rv \in BOOLEAN
    PROVE  LazyOK(l, deposit_lazy_vesting(l, id, amount, seconds, owner, rv, t), owner, amount, t)
<1> DEFINE vs == l.vbs
           d == deposit_lazy_vesting(l, id, amount, seconds, owner, rv, t)
<1>1. vs \in Seq(VB) /\ \A i \in DOMAIN vs : vs[i] \in VB /\ vs[i].policy.last_update <= t
  BY VbsType DEF LedgerOK, Ledgers, VbsOK
<1>a. l \in Ledgers
  BY DEF LedgerOK
<1>2. CASE id # None /\ vs[id].policy.vesting_seconds = seconds
  <2> DEFINE w == deposit(vs[id], t, amount, rv)
             v == [vs EXCEPT ![id] = w]
  <2>1. id \in DOMAIN vs /\ vs[id].owner = owner
    BY <1>2 DEF OwnVb
  <2>2. /\ w \in VB /\ w.owner = vs[id].owner /\ w.balance = vs[id].balance + amount
        /\ w.policy.last_update = t
    BY <1>1, <2>1, DepositType
  <2>3. d.l = [l EXCEPT !.vbs = v] /\ d.id = id
    BY <1>2, <1>a DEF deposit_lazy_vesting, Ledgers
  <2>4. \A i \in DOMAIN vs : v[i] = IF i = id THEN w ELSE vs[i]
    BY <1>1
  <2> HIDE DEF v, w, vs, d
  <2>5. /\ v \in Seq(VB) /\ DOMAIN v = DOMAIN vs /\ \A j \in DOMAIN vs : v[j].owner = vs[j].owner
        /\ \A S : Hold(v, S) = Hold(vs, S) + IF w.owner \in S THEN w.balance - vs[id].balance ELSE 0
    BY <1>1, <2>1, <2>2, HoldChange DEF v
  <2>6. w.balance - vs[id].balance = amount
    BY <1>1, <2>1, <2>2 DEF VB
  <2>7. VbsOK(v, t)
    BY <1>1, <2>2, <2>4, <2>5 DEF VbsOK
  <2>8. \A S : Hold(v, S) = Hold(vs, S) + IF owner \in S THEN amount ELSE 0
    BY <2>1, <2>2, <2>5, <2>6
  <2> QED
    BY <2>1, <2>3, <2>5, <2>7, <2>8 DEF vs, d, LazyOK
<1>3. CASE ~ (id # None /\ vs[id].policy.vesting_seconds = seconds)
  <2> DEFINE p == lazy_policy(amount, seconds, rv, t)
             w == [owner |-> owner, balance |-> amount, policy |-> p]
             v == Append(vs, w)
  <2>1. p \in Cdd /\ p.last_update = t
    <3>1. amount * seconds \in Nat
      BY Product
    <3> QED
      BY <3>1 DEF lazy_policy, cdd_vesting_policy, Cdd, Never
  <2>2. d.l = [l EXCEPT !.vbs = v] /\ d.id = Len(vs) + 1
    BY <1>3, <1>a DEF deposit_lazy_vesting, Ledgers
  <2> HIDE DEF p
  <2>3. w \in VB /\ w.owner = owner /\ w.balance = amount /\ w.policy.last_update = t
    BY <2>1 DEF VB
  <2> HIDE DEF v, w, vs, d
  <2>4. /\ v \in Seq(VB) /\ DOMAIN v = DOMAIN vs \cup {Len(vs) + 1}
        /\ v[Len(vs) + 1] = w /\ \A j \in DOMAIN vs : v[j] = vs[j]
        /\ \A S : Hold(v, S) = Hold(vs, S) + IF w.owner \in S THEN w.balance ELSE 0
    BY <1>1, <2>3, HoldAppend DEF v
  <2>5. VbsOK(v, t)
    BY <1>1, <2>3, <2>4 DEF VbsOK
  <2> QED
    <3>1. LazyOK(l, d, owner, amount, t)
      BY <2>2, <2>3, <2>4, <2>5 DEF vs, LazyOK
    <3> QED
      BY <3>1 DEF d
<1> QED
  BY <1>2, <1>3

(* m is l after a payment of x coins that were in none of its parts: the   *)
(* vesting balances only grow, the supply only shrinks.                    *)
Kept(l, m) ==
    /\ m.balance = l.balance /\ m.pending_fees = l.pending_fees
    /\ m.pending_vested_fees = l.pending_vested_fees
    /\ m.lifetime_percent = l.lifetime_percent /\ m.member = l.member

Paid(l, m, x, t) ==
    /\ LedgerOK(m, t) /\ Kept(l, m)
    /\ m.current_supply <= l.current_supply
    /\ Excess(m) = Excess(l) - x
    /\ \A S : Hold(l.vbs, S) <= Hold(m.vbs, S)

LEMMA PaidTwice ==
    ASSUME NEW k, NEW l, NEW m, NEW x \in Int, NEW y \in Int, NEW t, LedgerOK(k, t),
           Paid(k, l, x, t), Paid(l, m, y, t)
    PROVE  Paid(k, m, x + y, t)
<1>1. LedgerOK(l, t) /\ LedgerOK(m, t) /\ Kept(k, l) /\ Kept(l, m)
  BY DEF Paid
<1>2. Kept(k, m)
  BY <1>1 DEF Kept
<1>3. m.current_supply <= l.current_supply /\ l.current_supply <= k.current_supply
  BY DEF Paid
<1>4. m.current_supply <= k.current_supply
  <2>1. m.current_supply \in Int /\ l.current_supply \in Int /\ k.current_supply \in Int
    BY ONLY <1>1, LedgerOK(k, t), LedgerType
  <2> QED
    BY ONLY <2>1, <1>3
<1>5. Excess(m) = Excess(k) - (x + y)
  <2>1. Excess(m) = Excess(l) - y /\ Excess(l) = Excess(k) - x
    BY DEF Paid
  <2>2. Excess(k) \in Int
    BY LedgerType
  <2> QED
    BY <2>1, <2>2
<1>6. ASSUME NEW S PROVE Hold(k.vbs, S) <= Hold(m.vbs, S)
  <2>1. Hold(k.vbs, S) <= Hold(l.vbs, S) /\ Hold(l.vbs, S) <= Hold(m.vbs, S)
    BY DEF Paid
  <2>2. Hold(k.vbs, S) \in Nat /\ Hold(l.vbs, S) \in Nat /\ Hold(m.vbs, S) \in Nat
    BY ONLY <1>1, LedgerOK(k, t), LedgerType, HoldType
  <2> QED
    BY <2>1, <2>2
<1> QED
  BY <1>1, <1>2, <1>4, <1>5, <1>6 DEF Paid

LEMMA PaidNothing ==
    ASSUME NEW l, NEW t, LedgerOK(l, t)
    PROVE  Paid(l, l, 0, t)
<1>1. l.vbs \in Seq(VB) /\ l.current_supply \in Int /\ Excess(l) \in Int
  BY LedgerType
<1>2. \A S : Hold(l.vbs, S) \in Nat
  BY <1>1, HoldType
<1> QED
  BY <1>1, <1>2 DEF Paid, Kept

LEMMA Deposited ==
    ASSUME NEW l, NEW t, LedgerOK(l, t), NEW amount \in Nat, NEW a \in Accounts,
           NEW m, m \in Ledgers, Kept(l, m), VbsOK(m.vbs, t),
           m.current_supply = l.current_supply, m.accumulated_fees = l.accumulated_fees,
           \A j \in DOMAIN l.vbs : j \in DOMAIN m.vbs /\ m.vbs[j].owner = l.vbs[j].owner,
           \A b \in Accounts : /\ m.cashback_vb[b] = l.cashback_vb[b] \/ OwnVb(m.vbs, b, m.cashback_vb[b])
                               /\ m.pay_vb[b] = l.pay_vb[b] \/ OwnVb(m.vbs, b, m.pay_vb[b]),
           \A S : Hold(m.vbs, S) = Hold(l.vbs, S) + IF a \in S THEN amount ELSE 0
    PROVE  Paid(l, m, amount, t)
<1>1. LedgerOK(m, t)
  <2>1. \A b \in Accounts : OwnVb(m.vbs, b, m.cashback_vb[b]) /\ OwnVb(m.vbs, b, m.pay_vb[b])
    BY DEF LedgerOK, OwnVb
  <2>2. \A b \in Accounts : NetworkPercent + m.lifetime_percent[b] <= Hundred
    BY DEF LedgerOK, Kept
  <2> QED
    BY <2>1, <2>2 DEF LedgerOK
<1>2. /\ l.current_supply \in Int /\ l.accumulated_fees \in Nat /\ Outside(l) \in Nat
      /\ Hold(l.vbs, Accounts) \in Nat /\ l.vbs \in Seq(VB)
  BY LedgerType
<1>3. Outside(m) = Outside(l)
  BY DEF Kept, Outside
<1>4. Excess(m) = Excess(l) - amount
  <2>1. Hold(m.vbs, Accounts) = Hold(l.vbs, Accounts) + amount
    OBVIOUS
  <2> QED
    BY <1>2, <1>3, <2>1 DEF Excess
<1>5. \A S : Hold(l.vbs, S) <= Hold(m.vbs, S)
  <2> TAKE S
  <2>1. Hold(l.vbs, S) \in Nat
    BY <1>2, HoldType
  <2> QED
    BY <2>1
<1> QED
  BY <1>1, <1>2, <1>4, <1>5 DEF Paid

LEMMA Cashback ==
    ASSUME NEW l, NEW t \in Nat, LedgerOK(l, t), NEW a \in Accounts, NEW amount \in Nat,
           NEW rv \in BOOLEAN, params.cashback_seconds \in Nat
    PROVE  Paid(l, deposit_cashback(l, a, amount, rv, t), amount, t)
<1> DEFINE m == deposit_cashback(l, a, amount, rv, t)
<1>0. l \in Ledgers
  BY DEF LedgerOK
<1>1. CASE amount = 0
  BY <1>1, PaidNothing DEF deposit_cashback
<1>2. CASE amount # 0 /\ a \in Blockchain
  <2>1. m = [l EXCEPT !.current_supply = l.current_supply - amount]
    BY <1>2 DEF deposit_cashback
  <2> HIDE DEF m
  <2>2. /\ m \in Ledgers /\ Kept(l, m) /\ m.vbs = l.vbs /\ m.cashback_vb = l.cashback_vb /\ m.pay_vb = l.pay_vb
        /\ m.accumulated_fees = l.accumulated_fees
        /\ m.current_supply = l.current_supply - amount
    BY <1>0, <2>1, SMTT(30) DEF Ledgers, Kept
  <2>3. LedgerOK(m, t)
    BY <2>2 DEF LedgerOK, Kept
  <2>4. /\ l.current_supply \in Int /\ l.accumulated_fees \in Nat /\ Outside(l) \in Nat
        /\ Hold(l.vbs, Accounts) \in Nat /\ l.vbs \in Seq(VB)
    BY LedgerType
  <2>5. Excess(m) = Excess(l) - amount
    <3>1. Outside(m) = Outside(l)
      BY <2>2 DEF Kept, Outside
    <3> QED
      BY <2>2, <2>4, <3>1 DEF Excess
  <2>6. \A S : Hold(l.vbs, S) <= Hold(m.vbs, S)
    <3>1. \A S : Hold(l.vbs, S) \in Nat
      BY <2>4, HoldType
    <3> QED
      BY <2>2, <3>1
  <2> QED
    BY <2>2, <2>3, <2>4, <2>5, <2>6 DEF Paid, m
<1>3. CASE amount # 0 /\ a \notin Blockchain
  <2> DEFINE d == deposit_lazy_vesting(l, l.cashback_vb[a], amount, params.cashback_seconds, a, rv, t)
  <2>1. m = [d.l EXCEPT !.cashback_vb[a] = d.id]
    BY <1>3 DEF deposit_cashback
  <2>2. OwnVb(l.vbs, a, l.cashback_vb[a])
    BY DEF LedgerOK
  <2>3. PICK v : /\ d.l = [l EXCEPT !.vbs = v] /\ VbsOK(v, t)
                 /\ \A j \in DOMAIN l.vbs : j \in DOMAIN v /\ v[j].owner = l.vbs[j].owner
                 /\ d.id \in DOMAIN v /\ v[d.id].owner = a
                 /\ \A S : Hold(v, S) = Hold(l.vbs, S) + IF a \in S THEN amount ELSE 0
    <3>1. LazyOK(l, d, a, amount, t)
      BY <2>2, LazyDeposit
    <3> HIDE DEF d
    <3> QED
      BY ONLY <3>1 DEF LazyOK
  <2> HIDE DEF d, m
  <2>4. v \in Seq(VB) /\ d.id \in Nat
    BY <2>3 DEF VbsOK
  <2>5. /\ m \in Ledgers /\ Kept(l, m) /\ m.vbs = v /\ m.pay_vb = l.pay_vb
        /\ m.cashback_vb = [l.cashback_vb EXCEPT ![a] = d.id]
        /\ m.accumulated_fees = l.accumulated_fees /\ m.current_supply = l.current_supply
    BY <1>0, <2>1, <2>3, <2>4 DEF Ledgers, Kept, Ids
  <2>6. \A b \in Accounts : m.cashback_vb[b] = l.cashback_vb[b] \/ OwnVb(m.vbs, b, m.cashback_vb[b])
    BY <1>0, <2>3, <2>5 DEF OwnVb, Ledgers, Ids
  <2> QED
    <3>1. Paid(l, m, amount, t)
      BY <2>3, <2>5, <2>6, Deposited
    <3> QED
      BY <3>1 DEF m
<1> QED
  BY <1>1, <1>2, <1>3

LEMMA WitnessPay ==
    ASSUME NEW l, NEW t \in Nat, LedgerOK(l, t), NEW a \in Accounts, NEW amount \in Nat
    PROVE  Paid(l, deposit_witness_pay(l, a, amount, t), amount, t)
<1> DEFINE m == deposit_witness_pay(l, a, amount, t)
<1>0. l \in Ledgers
  BY DEF LedgerOK
<1>1. CASE amount = 0
  BY <1>1, PaidNothing DEF deposit_witness_pay
<1>2. CASE amount # 0
  <2> DEFINE d == deposit_lazy_vesting(l, l.pay_vb[a], amount, PaySeconds, a, TRUE, t)
  <2>1. m = [d.l EXCEPT !.pay_vb[a] = d.id]
    BY <1>2 DEF deposit_witness_pay
  <2>2. OwnVb(l.vbs, a, l.pay_vb[a]) /\ PaySeconds \in Nat
    BY MaintenanceAssumption DEF LedgerOK
  <2>3. PICK v : /\ d.l = [l EXCEPT !.vbs = v] /\ VbsOK(v, t)
                 /\ \A j \in DOMAIN l.vbs : j \in DOMAIN v /\ v[j].owner = l.vbs[j].owner
                 /\ d.id \in DOMAIN v /\ v[d.id].owner = a
                 /\ \A S : Hold(v, S) = Hold(l.vbs, S) + IF a \in S THEN amount ELSE 0
    <3>1. LazyOK(l, d, a, amount, t)
      BY <2>2, LazyDeposit
    <3> HIDE DEF d
    <3> QED
      BY ONLY <3>1 DEF LazyOK
  <2> HIDE DEF d, m
  <2>4. v \in Seq(VB) /\ d.id \in Nat
    BY <2>3 DEF VbsOK
  <2>5. /\ m \in Ledgers /\ Kept(l, m) /\ m.vbs = v /\ m.cashback_vb = l.cashback_vb
        /\ m.pay_vb = [l.pay_vb EXCEPT ![a] = d.id]
        /\ m.accumulated_fees = l.accumulated_fees /\ m.current_supply = l.current_supply
    BY <1>0, <2>1, <2>3, <2>4 DEF Ledgers, Kept, Ids
  <2>6. \A b \in Accounts : m.pay_vb[b] = l.pay_vb[b] \/ OwnVb(m.vbs, b, m.pay_vb[b])
    BY <1>0, <2>3, <2>5 DEF OwnVb, Ledgers, Ids
  <2> QED
    <3>1. Paid(l, m, amount, t)
      BY <2>3, <2>5, <2>6, Deposited
    <3> QED
      BY <3>1 DEF m
<1> QED
  BY <1>1, <1>2

-----------------------------------------------------------------------------
(* The shares of a fee add up to it, and none is negative. *)
LEMMA PayOut ==
    ASSUME NEW l, NEW t \in Nat, LedgerOK(l, t), NEW a \in Accounts, NEW total \in Nat,
           NEW rv \in BOOLEAN, params.cashback_seconds \in Nat
    PROVE  Paid(l, pay_out_fees(l, a, total, rv, t), total, t)
<1> DEFINE old == l.referral[a]
           r == [old EXCEPT !.referrer = IF is_member(l, old.referrer, t) THEN old.referrer ELSE old.lifetime_referrer]
           n == cut_fee(total, NetworkPercent)
           f == cut_fee(total, l.lifetime_percent[a])
           rest == total - n - f
           c == cut_fee(rest, ReferrerPercent)
           l1 == [l EXCEPT !.referral[a] = r, !.accumulated_fees = @ + n]
           l2 == deposit_cashback(l1, r.lifetime_referrer, f, rv, t)
           l3 == deposit_cashback(l2, r.referrer, c, rv, t)
           l4 == deposit_cashback(l3, r.registrar, rest - c, rv, t)
<1>0. l \in Ledgers
  BY DEF LedgerOK
<1>1. pay_out_fees(l, a, total, rv, t) = l4
  BY DEF pay_out_fees
<1>2. r \in Refs /\ r.lifetime_referrer \in Accounts /\ r.referrer \in Accounts /\ r.registrar \in Accounts
  <2>1. old \in Refs
    BY <1>0 DEF Ledgers
  <2> HIDE DEF old
  <2> QED
    BY <2>1 DEF Refs
<1>3. n \in Nat /\ f \in Nat /\ rest \in Nat
  <2>1. /\ NetworkPercent \in Nat /\ l.lifetime_percent[a] \in Nat /\ Hundred \in Nat /\ Hundred > 0
        /\ NetworkPercent + l.lifetime_percent[a] <= Hundred
    BY <1>0, MaintenanceAssumption DEF LedgerOK, Ledgers, Coins
  <2>2. n \in Nat /\ f \in Nat /\ n + f <= total
    BY <2>1, TwoCuts DEF cut_fee
  <2> HIDE DEF n, f
  <2> QED
    BY <2>2
<1> HIDE DEF rest
<1>4. c \in Nat /\ rest - c \in Nat
  <2>1. ReferrerPercent \in Nat /\ 0 \in Nat /\ ReferrerPercent + 0 <= Hundred /\ Hundred \in Nat /\ Hundred > 0
    BY MaintenanceAssumption
  <2>2. c \in Nat /\ c + (rest * 0) \div Hundred <= rest /\ (rest * 0) \div Hundred \in Nat
    BY <1>3, <2>1, TwoCuts DEF cut_fee
  <2> HIDE DEF c
  <2> QED
    BY <1>3, <2>2
<1> HIDE DEF r, n, f, c
<1>5. Paid(l, l1, n, t)
  <2>1. /\ l1 \in Ledgers /\ Kept(l, l1) /\ l1.vbs = l.vbs /\ l1.cashback_vb = l.cashback_vb
        /\ l1.pay_vb = l.pay_vb /\ l1.accumulated_fees = l.accumulated_fees + n
        /\ l1.current_supply = l.current_supply
    <3>1. l.referral \in [Accounts -> Refs] /\ l.accumulated_fees + n \in Nat
      BY <1>0, <1>3 DEF Ledgers
    <3>2. [l.referral EXCEPT ![a] = r] \in [Accounts -> Refs]
      BY <1>2, <3>1
    <3>3. l1 = [l EXCEPT !.referral = [l.referral EXCEPT ![a] = r], !.accumulated_fees = l.accumulated_fees + n]
      BY <1>0 DEF Ledgers
    <3> QED
      BY <1>0, <3>1, <3>2, <3>3 DEF Ledgers, Kept
  <2> HIDE DEF l1
  <2>2. LedgerOK(l1, t)
    BY <2>1 DEF LedgerOK, Kept
  <2>3. /\ l.current_supply \in Int /\ l.accumulated_fees \in Nat /\ Outside(l) \in Nat
        /\ Hold(l.vbs, Accounts) \in Nat /\ l.vbs \in Seq(VB)
    BY LedgerType
  <2>4. Excess(l1) = Excess(l) - n
    <3>1. Outside(l1) = Outside(l)
      BY <2>1 DEF Kept, Outside
    <3> QED
      BY <1>3, <2>1, <2>3, <3>1 DEF Excess
  <2>5. \A S : Hold(l.vbs, S) <= Hold(l1.vbs, S)
    <3>1. \A S : Hold(l.vbs, S) \in Nat
      BY <2>3, HoldType
    <3> QED
      BY <2>1, <3>1
  <2> QED
    BY <2>1, <2>2, <2>3, <2>4, <2>5 DEF Paid
<1> HIDE DEF l1
<1>6. LedgerOK(l1, t) /\ Paid(l1, l2, f, t)
  <2>1. LedgerOK(l1, t)
    BY <1>5 DEF Paid
  <2> QED
    BY <2>1, <1>2, <1>3, Cashback
<1> HIDE DEF l2
<1>7. LedgerOK(l2, t) /\ Paid(l2, l3, c, t)
  <2>1. LedgerOK(l2, t)
    BY <1>6 DEF Paid
  <2> QED
    BY <2>1, <1>2, <1>4, Cashback
<1> HIDE DEF l3
<1>8. Paid(l3, l4, rest - c, t)
  <2>1. LedgerOK(l3, t)
    BY <1>7 DEF Paid
  <2> QED
    BY <2>1, <1>2, <1>4, Cashback
<1> HIDE DEF l4
<1>9. Paid(l, l2, n + f, t)
  BY <1>3, <1>5, <1>6, PaidTwice
<1>10. Paid(l, l3, (n + f) + c, t)
  BY <1>3, <1>4, <1>7, <1>9, PaidTwice, n + f \in Int
<1>11. Paid(l, l4, ((n + f) + c) + (rest - c), t)
  BY <1>3, <1>4, <1>8, <1>10, PaidTwice, (n + f) + c \in Int
<1>12. ((n + f) + c) + (rest - c) = total
  BY <1>3, <1>4 DEF rest
<1> QED
  BY <1>1, <1>11, <1>12

(* m is l with the pending fees of some accounts paid out. *)
Processed(l, m, t) ==
    /\ LedgerOK(m, t) /\ m.balance = l.balance
    /\ m.current_supply <= l.current_supply
    /\ Excess(m) = Excess(l)
    /\ \A S : Hold(l.vbs, S) <= Hold(m.vbs, S)

LEMMA ProcessFees ==
    ASSUME NEW l, NEW t \in Nat, LedgerOK(l, t), NEW a \in Accounts, params.cashback_seconds \in Nat
    PROVE  Processed(l, process_fees(l, a, t), t)
<1> DEFINE x == l.pending_fees[a]
           y == l.pending_vested_fees[a]
           k == pay_out_fees(l, a, x, TRUE, t)
           p == pay_out_fees(k, a, y, FALSE, t)
           m == [p EXCEPT !.pending_fees[a] = 0, !.pending_vested_fees[a] = 0]
<1>0. l \in Ledgers /\ x \in Nat /\ y \in Nat
  BY DEF LedgerOK, Ledgers, Coins
<1>1. CASE x = 0 /\ y = 0
  <2>1. process_fees(l, a, t) = l /\ Paid(l, l, 0, t) /\ Excess(l) \in Int
    BY <1>1, PaidNothing, LedgerType DEF process_fees
  <2> QED
    BY <2>1 DEF Paid, Processed
<1>2. CASE ~ (x = 0 /\ y = 0)
  <2>1. process_fees(l, a, t) = m
    BY <1>2 DEF process_fees
  <2> HIDE DEF x, y
  <2>2. Paid(l, k, x, t)
    BY <1>0, PayOut
  <2>3. LedgerOK(k, t)
    BY <2>2 DEF Paid
  <2> HIDE DEF k
  <2>4. Paid(k, p, y, t)
    BY <1>0, <2>3, PayOut
  <2>5. Paid(l, p, x + y, t)
    <3> HIDE DEF p
    <3>1. x \in Int /\ y \in Int
      BY <1>0
    <3> QED
      BY <3>1, <2>2, <2>4, PaidTwice
  <2>6. LedgerOK(p, t) /\ Kept(l, p) /\ Excess(p) = Excess(l) - (x + y)
    BY <2>5 DEF Paid
  <2> HIDE DEF p
  <2>7. /\ m \in Ledgers /\ m.balance = p.balance /\ m.vbs = p.vbs /\ m.current_supply = p.current_supply
        /\ m.accumulated_fees = p.accumulated_fees /\ m.cashback_vb = p.cashback_vb /\ m.pay_vb = p.pay_vb
        /\ m.lifetime_percent = p.lifetime_percent
        /\ m.pending_fees = [l.pending_fees EXCEPT ![a] = 0]
        /\ m.pending_vested_fees = [l.pending_vested_fees EXCEPT ![a] = 0]
    <3>1. p \in Ledgers /\ p.pending_fees = l.pending_fees /\ p.pending_vested_fees = l.pending_vested_fees
      BY <2>6 DEF LedgerOK, Kept
    <3> QED
      BY <3>1 DEF Ledgers, Coins
  <2> HIDE DEF m
  <2>8. LedgerOK(m, t)
    BY <2>6, <2>7 DEF LedgerOK
  <2>9. Outside(m) = Outside(p) - x - y
    <3>1. l.pending_fees \in Coins /\ l.pending_vested_fees \in Coins /\ p.balance \in Coins
      BY <2>6, LedgerType
    <3>2. /\ SumFunction(m.pending_fees) = SumFunction(l.pending_fees) + 0 - x
          /\ SumFunction(m.pending_vested_fees) = SumFunction(l.pending_vested_fees) + 0 - y
      BY <2>7, <3>1, CoinsChange DEF x, y
    <3>3. /\ SumFunction(l.pending_fees) \in Nat /\ SumFunction(l.pending_vested_fees) \in Nat
          /\ SumFunction(p.balance) \in Nat
      BY <3>1, CoinsSum
    <3> QED
      BY <1>0, <2>6, <2>7, <3>2, <3>3 DEF Outside, Kept
  <2>10. Excess(m) = Excess(l)
    <3>1. /\ p.current_supply \in Int /\ p.accumulated_fees \in Nat /\ Outside(p) \in Nat
          /\ Hold(p.vbs, Accounts) \in Nat /\ Excess(l) \in Int
      BY <2>6, LedgerType
    <3> QED
      BY <1>0, <2>6, <2>7, <2>9, <3>1 DEF Excess
  <2> QED
    BY <2>1, <2>5, <2>7, <2>8, <2>10 DEF Paid, Processed, Kept
<1> QED
  BY <1>1, <1>2

-----------------------------------------------------------------------------
(* The pass over the accounts *)

(* What the pass over the accounts of l may have reached: fees are paid    *)
(* out, and the stake counted of an account is at most what it has.        *)
Counted(l, t) ==
    {acc \in [l : Ledgers, stake : Coins] :
        /\ Processed(l, acc.l, t)
        /\ \A a \in Accounts : acc.stake[a] <= acc.l.balance[a] + Hold(acc.l.vbs, {a})}

LEMMA StakeIsHeld ==
    ASSUME NEW l, NEW t, LedgerOK(l, t), NEW a \in Accounts
    PROVE  voting_stake(l, a) \in Nat /\ voting_stake(l, a) <= l.balance[a] + Hold(l.vbs, {a})
<1> DEFINE v == l.vbs
           id == l.cashback_vb[a]
<1>1. v \in Seq(VB) /\ l.balance[a] \in Nat /\ OwnVb(v, a, id)
  BY DEF LedgerOK, Ledgers, Coins
<1>2. Hold(v, {a}) \in Nat
  BY <1>1, HoldType
<1>3. CASE id = None
  BY <1>1, <1>2, <1>3 DEF voting_stake
<1>4. CASE id # None
  <2>1. id \in Owned(v, {a}) /\ id \in DOMAIN v
    BY <1>1, <1>4 DEF OwnVb, Owned
  <2>2. voting_stake(l, a) = l.balance[a] + v[id].balance
    BY <1>4 DEF voting_stake
  <2> HIDE DEF v, id
  <2>3. Bals(v)[id] = v[id].balance /\ v[id].balance \in Nat
    BY <1>1, <2>1, VbsType
  <2>4. /\ IsFiniteSet(Owned(v, {a})) /\ \A j \in Owned(v, {a}) : Bals(v)[j] \in Nat /\ Bals(v)[j] \in Int
    BY <1>1, HoldType
  <2>5. Hold(v, {a}) = Bals(v)[id] + SumFunctionOnSet(Bals(v), Owned(v, {a}) \ {id})
    <3> DEFINE D == Owned(v, {a})
    <3>1. id \in D /\ IsFiniteSet(D) /\ \A j \in D : Bals(v)[j] \in Int
      BY <2>1, <2>4
    <3> HIDE DEF D
    <3>2. SumFunctionOnSet(Bals(v), D) = Bals(v)[id] + SumFunctionOnSet(Bals(v), D \ {id})
      BY ONLY <3>1, SumRemove
    <3> QED
      BY <3>2 DEF D, Hold
  <2>6. SumFunctionOnSet(Bals(v), Owned(v, {a}) \ {id}) \in Nat
    <3>1. IsFiniteSet(Owned(v, {a}) \ {id})
      BY <2>4, FS_Subset
    <3>2. \A j \in Owned(v, {a}) \ {id} : Bals(v)[j] \in Nat
      BY <2>4
    <3> QED
      BY <3>1, <3>2, SumType
  <2> QED
    BY <1>1, <2>2, <2>3, <2>5, <2>6 DEF v
<1> QED
  BY <1>3, <1>4

(* One account: its stake is counted, then its fees are paid out. *)
Visit(acc, a, t) ==
    [l |-> process_fees(acc.l, a, t),
     stake |-> IF CountNonMembers \/ is_member(acc.l, a, t)
               THEN [acc.stake EXCEPT ![a] = voting_stake(acc.l, a)] ELSE acc.stake]

LEMMA VisitCounts ==
    ASSUME NEW l, NEW t \in Nat, LedgerOK(l, t), params.cashback_seconds \in Nat,
           NEW acc \in Counted(l, t), NEW a \in Accounts
    PROVE  Visit(acc, a, t) \in Counted(l, t)
<1> DEFINE k == acc.l
           m == process_fees(k, a, t)
           u == Visit(acc, a, t).stake
<1>1. /\ Processed(l, k, t) /\ LedgerOK(k, t) /\ acc.stake \in Coins
      /\ \A b \in Accounts : acc.stake[b] <= k.balance[b] + Hold(k.vbs, {b})
  BY DEF Counted, Processed
<1>2. Processed(k, m, t)
  BY <1>1, ProcessFees
<1>3. voting_stake(k, a) \in Nat /\ voting_stake(k, a) <= k.balance[a] + Hold(k.vbs, {a})
  BY <1>1, StakeIsHeld
<1>4. u \in Coins /\ \A b \in Accounts : u[b] \in Nat /\ u[b] <= k.balance[b] + Hold(k.vbs, {b})
  <2>1. u = [acc.stake EXCEPT ![a] = voting_stake(k, a)] \/ u = acc.stake
    BY DEF Visit
  <2> HIDE DEF u, k
  <2>2. CASE u = acc.stake
    BY <1>1, <2>2 DEF Coins
  <2>3. CASE u = [acc.stake EXCEPT ![a] = voting_stake(k, a)]
    <3>1. \A b \in Accounts : acc.stake[b] \in Nat /\ u[b] = IF b = a THEN voting_stake(k, a) ELSE acc.stake[b]
      BY <1>1, <2>3 DEF Coins
    <3>2. u \in Coins
      BY <1>1, <1>3, <2>3 DEF Coins
    <3> QED
      BY <1>1, <1>3, <3>1, <3>2
  <2> QED
    BY <2>1, <2>2, <2>3
<1>5. Visit(acc, a, t) = [l |-> m, stake |-> u]
  BY DEF Visit
<1> HIDE DEF u, m, k
<1>6. LedgerOK(m, t) /\ m \in Ledgers /\ m.balance = k.balance /\ k.balance \in Coins
  BY <1>1, <1>2, LedgerType DEF Processed, LedgerOK
<1>7. Processed(l, m, t)
  <2>1. m.current_supply <= l.current_supply
    <3>1. m.current_supply \in Int /\ k.current_supply \in Int /\ l.current_supply \in Int
      BY ONLY <1>1, <1>6, LedgerType, LedgerOK(l, t)
    <3> QED
      BY <3>1, <1>1, <1>2 DEF Processed
  <2>2. ASSUME NEW S PROVE Hold(l.vbs, S) <= Hold(m.vbs, S)
    <3>1. Hold(m.vbs, S) \in Nat /\ Hold(k.vbs, S) \in Nat /\ Hold(l.vbs, S) \in Nat
      BY ONLY <1>1, <1>6, LedgerType, HoldType, LedgerOK(l, t)
    <3> QED
      BY <3>1, <1>1, <1>2 DEF Processed
  <2> QED
    BY <1>1, <1>2, <2>1, <2>2 DEF Processed
<1>8. \A b \in Accounts : u[b] <= m.balance[b] + Hold(m.vbs, {b})
  <2> TAKE b \in Accounts
  <2>1. Hold(m.vbs, {b}) \in Nat /\ Hold(k.vbs, {b}) \in Nat
    BY ONLY <1>1, <1>6, LedgerType, HoldType
  <2>2. Hold(k.vbs, {b}) <= Hold(m.vbs, {b}) /\ k.balance[b] \in Nat
    BY <1>2, <1>6 DEF Processed, Coins
  <2> QED
    BY <1>4, <1>6, <2>1, <2>2
<1> QED
  BY <1>4, <1>5, <1>6, <1>7, <1>8 DEF Counted

(* The fold over the accounts in the order of their names. *)
LEMMA AccountMaintenance ==
    ASSUME NEW l, NEW t \in Nat, LedgerOK(l, t), params.cashback_seconds \in Nat
    PROVE  perform_account_maintenance(l, t) \in Counted(l, t)
<1> DEFINE n == Len(ByName)
           A == Counted(l, t)
           base == [l |-> l, stake |-> [a \in Accounts |-> 0]]
           F == [p \in A \X (1 .. n) |-> Visit(p[1], ByName[p[2]], t)]
<1>0. ByName \in Seq(Accounts)
  BY MaintenanceAssumption
<1>1. n \in Nat /\ DOMAIN ByName = 1 .. n /\ \A i \in 1 .. n : ByName[i] \in Accounts
  BY ONLY <1>0
<1>2. base \in A
  <2>1. Paid(l, l, 0, t) /\ Excess(l) \in Int /\ l.balance \in Coins /\ l \in Ledgers /\ l.vbs \in Seq(VB)
    BY PaidNothing, LedgerType DEF LedgerOK
  <2>2. Processed(l, l, t)
    BY <2>1 DEF Paid, Processed
  <2>3. \A a \in Accounts : l.balance[a] \in Nat /\ Hold(l.vbs, {a}) \in Nat
    BY <2>1, HoldType DEF Coins
  <2>4. [a \in Accounts |-> 0] \in Coins
    BY DEF Coins
  <2> QED
    BY <2>1, <2>2, <2>3, <2>4 DEF Counted
<1> HIDE DEF A
<1>3. \A acc \in A, i \in 1 .. n : Visit(acc, ByName[i], t) \in A /\ F[<<acc, i>>] = Visit(acc, ByName[i], t)
  BY <1>1, VisitCounts DEF A
<1> HIDE DEF base, F
<1> DEFINE Eq(g) == g = [s \in SUBSET (1 .. n) |->
                           IF s = {} THEN base ELSE Visit(g[s \ {Max(s)}], ByName[Max(s)], t)]
<1>4. \E g : Eq(g)
  <2>1. PICK G : FoldSolves(G, F, A, base, n)
    BY <1>1, <1>2, <1>3, FoldSolution
  <2>2. G \in [SUBSET (1 .. n) -> A]
    BY <2>1 DEF FoldSolves
  <2>3. ASSUME NEW s \in SUBSET (1 .. n)
        PROVE  G[s] = IF s = {} THEN base ELSE Visit(G[s \ {Max(s)}], ByName[Max(s)], t)
    <3>1. CASE s # {}
      <4>1. Max(s) \in 1 .. n /\ G[s \ {Max(s)}] \in A
        BY <1>1, <2>2, <3>1, MaxUpTo
      <4> QED
        BY <1>3, <2>1, <3>1, <4>1 DEF FoldSolves
    <3> QED
      BY <2>1, <3>1 DEF FoldSolves
  <2>4. Eq(G)
    BY <2>2, <2>3
  <2> QED
    BY <2>4
<1> DEFINE g == CHOOSE g : Eq(g)
<1>5. perform_account_maintenance(l, t) = g[1 .. n]
  BY <1>1 DEF perform_account_maintenance, FoldLeft, MapThenFoldSet, Visit, base
<1>6. Eq(g)
  BY <1>4
<1> HIDE DEF g
<1>7. g[{}] \in A
  BY <1>2, <1>6
<1>8. ASSUME NEW k \in 1 .. n, g[1 .. k - 1] \in A PROVE g[1 .. k] \in A
  <2>1. 1 .. k \in SUBSET (1 .. n) /\ 1 .. k # {} /\ Max(1 .. k) = k /\ (1 .. k) \ {k} = 1 .. k - 1
    BY <1>1, Prefix
  <2>2. g[1 .. k] = Visit(g[1 .. k - 1], ByName[k], t)
    BY ONLY <1>6, <2>1
  <2> QED
    BY <1>3, <1>8, <2>2
<1> QED
  BY <1>1, <1>5, <1>7, <1>8, FoldStays DEF A

(* If no account counts for more than it has, all of them together do not  *)
(* either: no vesting balance has two owners.                              *)
LEMMA StakesHeld ==
    ASSUME NEW l, NEW t, LedgerOK(l, t), NEW stake \in Coins,
           \A a \in Accounts : stake[a] <= l.balance[a] + Hold(l.vbs, {a})
    PROVE  SumFunctionOnSet(stake, Accounts) <= SumFunction(l.balance) + Hold(l.vbs, Accounts)
<1> DEFINE b == l.balance
           v == l.vbs
           P == {S \in SUBSET Accounts : SumFunctionOnSet(stake, S) <= SumFunctionOnSet(b, S) + Hold(v, S)}
<1>1. b \in Coins /\ v \in Seq(VB) /\ \A a \in Accounts : b[a] \in Nat /\ stake[a] \in Nat
  BY LedgerType DEF Coins
<1>a. \A a \in Accounts : stake[a] <= b[a] + Hold(v, {a})
  OBVIOUS
<1> HIDE DEF b, v
<1>2. ASSUME NEW S \in SUBSET Accounts
      PROVE  /\ IsFiniteSet(S) /\ Hold(v, S) \in Nat
             /\ SumFunctionOnSet(stake, S) \in Nat /\ SumFunctionOnSet(b, S) \in Nat
  <2>1. IsFiniteSet(S)
    BY AccountsFinite, FS_Subset
  <2>2. \A a \in S : b[a] \in Nat
    BY <1>1
  <2>3. \A a \in S : stake[a] \in Nat
    BY <1>1
  <2> QED
    BY <1>1, <2>1, <2>2, <2>3, HoldType, SumType
<1>3. {} \in P
  <2>1. SumFunctionOnSet(stake, {}) = 0 /\ SumFunctionOnSet(b, {}) = 0
    BY SumEmpty
  <2>2. Hold(v, {}) \in Nat
    BY <1>1, HoldType
  <2> QED
    BY <2>1, <2>2
<1>4. ASSUME NEW S \in SUBSET Accounts, NEW a \in Accounts, S \in P, a \notin S
      PROVE  S \cup {a} \in P
  <2> DEFINE T == S \cup {a}
  <2>1. T \in SUBSET Accounts /\ a \in T /\ T \ {a} = S
    BY <1>4
  <2> HIDE DEF T
  <2>2. /\ SumFunctionOnSet(stake, T) = stake[a] + SumFunctionOnSet(stake, S)
        /\ SumFunctionOnSet(b, T) = b[a] + SumFunctionOnSet(b, S)
    <3>1. IsFiniteSet(T) /\ \A x \in T : stake[x] \in Int
      BY <1>1, <1>2, <2>1
    <3>2. \A x \in T : b[x] \in Int
      BY <1>1, <2>1
    <3>3. /\ SumFunctionOnSet(stake, T) = stake[a] + SumFunctionOnSet(stake, T \ {a})
          /\ SumFunctionOnSet(b, T) = b[a] + SumFunctionOnSet(b, T \ {a})
      BY ONLY <2>1, <3>1, <3>2, SumRemove
    <3> QED
      BY <2>1, <3>3
  <2>3. Hold(v, T) = Hold(v, S) + Hold(v, {a})
    <3>1. Owned(v, T) = Owned(v, S) \cup Owned(v, {a}) /\ Owned(v, S) \cap Owned(v, {a}) = {}
      BY <1>4 DEF Owned, T
    <3>2. /\ IsFiniteSet(Owned(v, S)) /\ IsFiniteSet(Owned(v, {a}))
          /\ \A j \in Owned(v, S) \cup Owned(v, {a}) : Bals(v)[j] \in Int
      BY <1>1, HoldType
    <3>3. SumFunctionOnSet(Bals(v), Owned(v, S) \cup Owned(v, {a}))
            = SumFunctionOnSet(Bals(v), Owned(v, S)) + SumFunctionOnSet(Bals(v), Owned(v, {a}))
      BY ONLY <3>1, <3>2, SumUnion
    <3> QED
      BY <3>1, <3>3 DEF Hold
  <2>4. /\ SumFunctionOnSet(stake, S) <= SumFunctionOnSet(b, S) + Hold(v, S)
        /\ stake[a] <= b[a] + Hold(v, {a})
    BY <1>4, <1>a
  <2>5. /\ Hold(v, S) \in Nat /\ Hold(v, {a}) \in Nat /\ b[a] \in Nat /\ stake[a] \in Nat
        /\ SumFunctionOnSet(stake, S) \in Nat /\ SumFunctionOnSet(b, S) \in Nat
    BY <1>1, <1>2, HoldType
  <2>6. SumFunctionOnSet(stake, T) <= SumFunctionOnSet(b, T) + Hold(v, T)
    BY ONLY <2>2, <2>3, <2>4, <2>5
  <2> QED
    BY <2>1, <2>6 DEF T
<1> HIDE DEF P
<1>5. Accounts \in P
  BY ONLY <1>3, <1>4, AccountsFinite, FiniteInduction
<1>6. SumFunction(b) = SumFunctionOnSet(b, Accounts)
  BY <1>1, CoinsSum
<1> QED
  BY <1>5, <1>6 DEF P, b, v

-----------------------------------------------------------------------------
(* The budget *)

Budgets == [witness_budget : Nat, witness_pay_per_block : Nat, last_budget_time : Nat,
            next_maintenance_time : Nat]

LEMMA BudgetConstants ==
    /\ CycleRate \in Nat /\ CycleScale \in Nat /\ CycleScale > 0 /\ Hardfork3 \in Nat
    /\ Interval \in Nat /\ Interval > 0 /\ MaxGap \in Nat
<1>1. {CycleScale, Interval, MaxGap} \subseteq Nat \ {0}
  BY MaintenanceAssumption
<1>2. {Threshold, PaySeconds, CycleRate, MinWitnesses, WeightBits} \subseteq Nat
  BY MaintenanceAssumption
<1>3. {Hardfork1, Hardfork2, Hardfork3} \subseteq Nat
  BY MaintenanceAssumption
<1> QED
  BY ONLY <1>1, <1>2, <1>3

(* The budget is covered by the reserve. *)
LEMMA BudgetFits ==
    ASSUME NEW l, NEW t \in Nat, LedgerOK(l, t), l.current_supply <= MaxSupply, NEW d \in Budgets
    PROVE  /\ total_budget(l, d, t) \in Nat
           /\ l.current_supply + total_budget(l, d, t) - l.accumulated_fees - d.witness_budget <= MaxSupply
<1> DEFINE from == IF t >= Hardfork3 THEN 0 ELSE MaxSupply - l.current_supply
           reserve == from + l.accumulated_fees + d.witness_budget
           share == (reserve * (t - d.last_budget_time) * CycleRate + CycleScale - 1) \div CycleScale
<1>1. /\ MaxSupply \in Nat /\ l.current_supply \in Int /\ l.accumulated_fees \in Nat
      /\ d.witness_budget \in Nat /\ d.last_budget_time \in Nat
  BY LedgerType, GenesisAssumption DEF Budgets
<1>2. CycleRate \in Nat /\ CycleScale \in Nat /\ CycleScale > 0 /\ Hardfork3 \in Nat
  BY BudgetConstants
<1>3. from \in Nat /\ from <= MaxSupply - l.current_supply
  BY <1>1, <1>2
<1> HIDE DEF from
<1>4. reserve \in Nat
  BY <1>1, <1>3
<1>5. total_budget(l, d, t) = IF d.last_budget_time = Never \/ t <= d.last_budget_time THEN 0 ELSE min(share, reserve)
  BY DEF total_budget, from
<1>6. CASE d.last_budget_time = Never \/ t <= d.last_budget_time
  BY <1>1, <1>5, <1>6
<1>7. CASE ~ (d.last_budget_time = Never \/ t <= d.last_budget_time)
  <2>1. share \in Nat
    <3> HIDE DEF reserve
    <3>1. t - d.last_budget_time \in Nat
      BY <1>1, <1>7
    <3>2. reserve * (t - d.last_budget_time) \in Nat
      BY <1>4, <3>1, Product
    <3>3. reserve * (t - d.last_budget_time) * CycleRate \in Nat
      BY <1>2, <3>2, Product
    <3>4. reserve * (t - d.last_budget_time) * CycleRate + CycleScale - 1 \in Nat
      BY <1>2, <3>3
    <3> QED
      BY <1>2, <3>4, Division
  <2> HIDE DEF share
  <2>2. total_budget(l, d, t) \in Nat /\ total_budget(l, d, t) <= reserve
    BY <1>4, <1>5, <1>7, <2>1 DEF min
  <2> QED
    BY <1>1, <1>3, <2>2
<1> QED
  BY <1>6, <1>7

(* The next maintenance is in the future. *)
LEMMA NextMaintenance ==
    ASSUME NEW d \in Budgets, NEW t \in Nat, d.next_maintenance_time <= t
    PROVE  next_maintenance_time(d, t) \in Nat /\ next_maintenance_time(d, t) > t
<1> DEFINE m == d.next_maintenance_time
<1>1. m \in Nat /\ Interval \in Nat /\ Interval > 0 /\ t - m \in Nat
  BY BudgetConstants DEF Budgets
<1>2. /\ t \div Interval \in Nat /\ t < (t \div Interval) * Interval + Interval
      /\ (t - m) \div Interval \in Nat /\ t - m < ((t - m) \div Interval) * Interval + Interval
  BY <1>1, Division
<1>3. next_maintenance_time(d, t) = IF now = GenesisTime THEN (t \div Interval + 1) * Interval
                                    ELSE m + ((t - m) \div Interval + 1) * Interval
  BY DEF next_maintenance_time
<1> HIDE DEF m
<1>4. /\ (t \div Interval + 1) * Interval = (t \div Interval) * Interval + Interval
      /\ (t \div Interval) * Interval \in Nat
  BY <1>1, <1>2, Product
<1>5. /\ ((t - m) \div Interval + 1) * Interval = ((t - m) \div Interval) * Interval + Interval
      /\ ((t - m) \div Interval) * Interval \in Nat
  BY <1>1, <1>2, Product
<1> DEFINE x == (t \div Interval) * Interval
           y == ((t - m) \div Interval) * Interval
<1> HIDE DEF x, y
<1>6. x \in Nat /\ y \in Nat /\ t < x + Interval /\ t - m < y + Interval
  BY <1>2, <1>4, <1>5 DEF x, y
<1>7. next_maintenance_time(d, t) = IF now = GenesisTime THEN x + Interval ELSE m + (y + Interval)
  BY <1>3, <1>4, <1>5 DEF x, y
<1> QED
  BY <1>1, <1>6, <1>7

LEMMA ProcessBudget ==
    ASSUME NEW l, NEW t \in Nat, LedgerOK(l, t), l.current_supply <= MaxSupply, NEW d \in Budgets,
           Excess(l) = d.witness_budget, d.next_maintenance_time > t,
           NEW b, b = process_budget(l, d, t)
    PROVE  /\ LedgerOK(b.l, t) /\ b.d \in Budgets /\ b.l.current_supply <= MaxSupply
           /\ Excess(b.l) = b.d.witness_budget
<1> DEFINE w == total_budget(l, d, t)
           n == d.next_maintenance_time - t
<1>0. l \in Ledgers
  BY DEF LedgerOK
<1>1. w \in Nat /\ l.current_supply + w - l.accumulated_fees - d.witness_budget <= MaxSupply
  BY BudgetFits
<1>2. /\ l.current_supply \in Int /\ l.accumulated_fees \in Nat /\ Outside(l) \in Nat
      /\ Hold(l.vbs, Accounts) \in Nat /\ d.witness_budget \in Nat /\ d.next_maintenance_time \in Nat
  BY LedgerType DEF Budgets
<1>3. w \div n \in Nat
  BY <1>1, <1>2, Division
<1>4. /\ b.l = [l EXCEPT !.current_supply = l.current_supply + w - l.accumulated_fees - d.witness_budget,
                         !.accumulated_fees = 0]
      /\ b.d = [d EXCEPT !.witness_budget = w, !.witness_pay_per_block = w \div n, !.last_budget_time = t]
  BY DEF process_budget
<1> DEFINE m == b.l
<1> HIDE DEF w
<1>5. /\ m \in Ledgers /\ Kept(l, m) /\ m.vbs = l.vbs /\ m.cashback_vb = l.cashback_vb /\ m.pay_vb = l.pay_vb
      /\ m.accumulated_fees = 0
      /\ m.current_supply = l.current_supply + w - l.accumulated_fees - d.witness_budget
  <2>1. l.current_supply + w - l.accumulated_fees - d.witness_budget \in Int
    BY <1>1, <1>2
  <2> QED
    <3> DEFINE c == l.current_supply + w - l.accumulated_fees - d.witness_budget
    <3>1. c \in Int /\ m = [l EXCEPT !.current_supply = c, !.accumulated_fees = 0]
      BY <1>4, <2>1
    <3> HIDE DEF c, m
    <3>2. /\ m \in Ledgers /\ Kept(l, m) /\ m.vbs = l.vbs /\ m.cashback_vb = l.cashback_vb
          /\ m.pay_vb = l.pay_vb /\ m.accumulated_fees = 0 /\ m.current_supply = c
      BY ONLY <1>0, <3>1 DEF Ledgers, Kept
    <3> QED
      BY <3>2 DEF c
<1>6. b.d \in Budgets /\ b.d.witness_budget = w
  BY <1>1, <1>3, <1>4 DEF Budgets
<1> HIDE DEF m
<1>7. LedgerOK(m, t)
  BY <1>5 DEF LedgerOK, Kept
<1>8. Excess(m) = w
  <2>1. Outside(m) = Outside(l)
    BY <1>5 DEF Kept, Outside
  <2> QED
    BY <1>1, <1>2, <1>5, <2>1 DEF Excess
<1> QED
  BY <1>1, <1>5, <1>6, <1>7, <1>8 DEF m

-----------------------------------------------------------------------------
(* The invariant: the ledger is well formed, the budget is what the supply *)
(* exceeds it by, and the supply is within its limit.                      *)

Funded(l, d, t) ==
    /\ LedgerOK(l, t) /\ d \in Budgets /\ Excess(l) = d.witness_budget
    /\ l.current_supply <= MaxSupply

SupplyInv ==
    /\ now \in Nat /\ Funded(led, dpo, now)
    /\ params \in Range(Parameters) /\ pending \subseteq Range(Parameters)
    /\ active.witnesses \subseteq DOMAIN Candidates
    /\ NoCoinVotesTwice

LEMMA ParamsType ==
    ASSUME NEW p \in Range(Parameters)
    PROVE  p.cashback_seconds \in Nat
<1>1. Parameters \in Seq([cashback_seconds : Nat, maximum_witness_count : Nat])
  BY MaintenanceAssumption
<1> DEFINE R == [cashback_seconds : Nat, maximum_witness_count : Nat]
<1>2. Parameters \in Seq(R)
  BY <1>1
<1>3. PICK i \in DOMAIN Parameters : p = Parameters[i]
  BY DEF Range
<1>4. p \in R
  <2> HIDE DEF R
  <2> QED
    BY ONLY <1>2, <1>3
<1> QED
  BY <1>4

LEMMA Later ==
    ASSUME NEW l, NEW t \in Nat, NEW u \in Nat, t <= u, LedgerOK(l, t)
    PROVE  LedgerOK(l, u)
<1>1. \A i \in DOMAIN l.vbs : l.vbs[i].policy.last_update \in Nat /\ l.vbs[i].policy.last_update <= t
  <2>1. \A i \in DOMAIN l.vbs : l.vbs[i] \in VB /\ l.vbs[i].policy.last_update <= t
    BY LedgerType, VbsType DEF LedgerOK, VbsOK
  <2> QED
    BY <2>1 DEF VB, Cdd
<1> QED
  BY <1>1 DEF LedgerOK, VbsOK

LEMMA SameVbs ==
    ASSUME NEW l, NEW t, LedgerOK(l, t), NEW m \in Ledgers, m.vbs = l.vbs, m.cashback_vb = l.cashback_vb,
           m.pay_vb = l.pay_vb, m.lifetime_percent = l.lifetime_percent
    PROVE  LedgerOK(m, t)
BY DEF LedgerOK

LEMMA PayFee ==
    ASSUME NEW l, NEW t, LedgerOK(l, t), NEW a \in Accounts, NEW fee \in Nat, fee <= l.balance[a],
           NEW m, m = pay_fee(l, a, fee)
    PROVE  /\ LedgerOK(m, t) /\ Excess(m) = Excess(l) /\ m.current_supply = l.current_supply
           /\ m.balance = [l.balance EXCEPT ![a] = l.balance[a] - fee]
<1>0. /\ l \in Ledgers /\ l.balance \in Coins /\ l.pending_fees \in Coins /\ l.pending_vested_fees \in Coins
      /\ l.balance[a] \in Nat /\ l.pending_fees[a] \in Nat /\ l.pending_vested_fees[a] \in Nat
  BY DEF LedgerOK, Ledgers, Coins
<1> DEFINE b == [l.balance EXCEPT ![a] = l.balance[a] - fee]
           p == [l.pending_fees EXCEPT ![a] = l.pending_fees[a] + fee]
           q == [l.pending_vested_fees EXCEPT ![a] = l.pending_vested_fees[a] + fee]
<1>1. \/ m = [l EXCEPT !.pending_fees = p, !.balance = b]
      \/ m = [l EXCEPT !.pending_vested_fees = q, !.balance = b]
  BY <1>0 DEF pay_fee, Ledgers
<1>2. /\ b \in Coins /\ SumFunction(b) = SumFunction(l.balance) + (l.balance[a] - fee) - l.balance[a]
      /\ p \in Coins /\ SumFunction(p) = SumFunction(l.pending_fees) + (l.pending_fees[a] + fee) - l.pending_fees[a]
      /\ q \in Coins
      /\ SumFunction(q) = SumFunction(l.pending_vested_fees) + (l.pending_vested_fees[a] + fee) - l.pending_vested_fees[a]
  <2>1. l.balance[a] - fee \in Nat /\ l.pending_fees[a] + fee \in Nat /\ l.pending_vested_fees[a] + fee \in Nat
    BY <1>0
  <2> QED
    BY <1>0, <2>1, CoinsChange
<1>3. SumFunction(l.balance) \in Nat /\ SumFunction(l.pending_fees) \in Nat /\ SumFunction(l.pending_vested_fees) \in Nat
  BY <1>0, CoinsSum
<1> HIDE DEF b, p, q
<1>4. /\ m \in Ledgers /\ m.vbs = l.vbs /\ m.cashback_vb = l.cashback_vb /\ m.pay_vb = l.pay_vb
      /\ m.lifetime_percent = l.lifetime_percent /\ m.current_supply = l.current_supply
      /\ m.accumulated_fees = l.accumulated_fees /\ m.balance = b
      /\ \/ m.pending_fees = p /\ m.pending_vested_fees = l.pending_vested_fees
         \/ m.pending_fees = l.pending_fees /\ m.pending_vested_fees = q
  BY <1>0, <1>1, <1>2 DEF Ledgers
<1>5. Outside(m) = Outside(l)
  BY <1>0, <1>2, <1>3, <1>4 DEF Outside
<1> QED
  BY <1>4, <1>5, SameVbs DEF Excess, b

LEMMA TransferKeeps ==
    ASSUME SupplyInv, NEW from \in Accounts, NEW to \in Accounts, from # to, NEW amount \in Nat, NEW fee \in Nat,
           transfer(from, to, amount, fee)
    PROVE  Funded(led', dpo, now)
<1> DEFINE l == pay_fee(led, from, fee)
           b == led.balance
           b1 == [b EXCEPT ![from] = b[from] - fee]
           b2 == [b1 EXCEPT ![from] = b1[from] - amount]
           b3 == [b2 EXCEPT ![to] = b2[to] + amount]
<1>1. /\ LedgerOK(led, now) /\ dpo \in Budgets /\ Excess(led) = dpo.witness_budget
      /\ led.current_supply <= MaxSupply
  BY DEF SupplyInv, Funded
<1>2. b \in Coins /\ b[from] \in Nat /\ b[to] \in Nat /\ b[from] >= amount + fee
  BY <1>1, LedgerType DEF Coins, transfer
<1>3. LedgerOK(l, now) /\ Excess(l) = Excess(led) /\ l.current_supply = led.current_supply /\ l.balance = b1
  <2>1. fee <= led.balance[from]
    BY <1>2
  <2> HIDE DEF b
  <2> QED
    BY <1>1, <2>1, PayFee DEF b
<1>4. led' = [l EXCEPT !.balance[from] = @ - amount, !.balance[to] = @ + amount]
  BY DEF transfer
<1> HIDE DEF l, b
<1>5. l \in Ledgers
  BY <1>3 DEF LedgerOK
<1>6. led' = [l EXCEPT !.balance = b3]
  <2> DEFINE k == [l EXCEPT !.balance = [l.balance EXCEPT ![from] = l.balance[from] - amount]]
  <2>1. k.balance = b2
    BY <1>3, <1>5 DEF Ledgers
  <2>2. led' = [k EXCEPT !.balance = [k.balance EXCEPT ![to] = k.balance[to] + amount]]
    BY <1>4
  <2>3. led' = [k EXCEPT !.balance = b3]
    BY <2>1, <2>2
  <2> HIDE DEF b1, b2, b3
  <2> QED
    BY <2>3
<1>7. b1[from] = b[from] - fee /\ b2[to] = b[to]
  BY <1>2 DEF Coins
<1>8. b1 \in Coins /\ b2 \in Coins /\ b3 \in Coins /\ SumFunction(b3) = SumFunction(b1)
  <2>1. b1 \in Coins /\ b1[from] - amount \in Nat
    BY <1>2, <1>7 DEF Coins
  <2>2. b2 \in Coins /\ SumFunction(b2) = SumFunction(b1) + (b1[from] - amount) - b1[from]
    <3> HIDE DEF b1
    <3> QED
      BY <2>1, CoinsChange
  <2>3. b3 \in Coins /\ SumFunction(b3) = SumFunction(b2) + (b2[to] + amount) - b2[to]
    <3>1. b2[to] + amount \in Nat
      BY <1>2, <1>7
    <3> HIDE DEF b2
    <3> QED
      BY <2>2, <3>1, CoinsChange
  <2>4. SumFunction(b1) \in Nat /\ b1[from] \in Int /\ b2[to] \in Int
    BY <1>2, <1>7, <2>1, CoinsSum
  <2> HIDE DEF b1, b2, b3
  <2> QED
    BY <2>1, <2>2, <2>3, <2>4
<1> HIDE DEF b1, b2, b3
<1>9. /\ led' \in Ledgers /\ led'.vbs = l.vbs /\ led'.cashback_vb = l.cashback_vb /\ led'.pay_vb = l.pay_vb
      /\ led'.lifetime_percent = l.lifetime_percent /\ led'.current_supply = l.current_supply
      /\ led'.accumulated_fees = l.accumulated_fees /\ led'.balance = b3
      /\ led'.pending_fees = l.pending_fees /\ led'.pending_vested_fees = l.pending_vested_fees
  BY <1>5, <1>6, <1>8 DEF Ledgers
<1>10. LedgerOK(led', now)
  BY <1>3, <1>9, SameVbs
<1>11. Outside(led') = Outside(l)
  BY <1>3, <1>8, <1>9 DEF Outside
<1>12. Excess(led') = Excess(l)
  BY <1>9, <1>11 DEF Excess
<1> QED
  BY <1>1, <1>3, <1>9, <1>10, <1>12 DEF Funded

LEMMA WithdrawKeeps ==
    ASSUME SupplyInv, NEW id \in DOMAIN led.vbs, NEW amount \in Nat, vesting_balance_withdraw(id, amount)
    PROVE  Funded(led', dpo, now)
<1> DEFINE v == led.vbs
           w == withdraw(v[id], now, amount)
           o == v[id].owner
           u == [v EXCEPT ![id] = w]
           b == [led.balance EXCEPT ![o] = led.balance[o] + amount]
<1>1. /\ LedgerOK(led, now) /\ dpo \in Budgets /\ Excess(led) = dpo.witness_budget
      /\ led.current_supply <= MaxSupply /\ now \in Nat /\ led \in Ledgers
  BY DEF SupplyInv, Funded, LedgerOK
<1>2. /\ v \in Seq(VB) /\ v[id] \in VB /\ o \in Accounts /\ v[id].balance \in Nat
      /\ \A i \in DOMAIN v : v[i].policy.last_update <= now
  BY <1>1, VbsType DEF LedgerOK, VbsOK
<1>3. /\ w \in VB /\ w.owner = o /\ w.balance = v[id].balance - amount /\ w.policy.last_update = now
  <2>1. amount <= get_allowed_withdraw(v[id], now) /\ v[id].policy.last_update <= now
    BY <1>2 DEF vesting_balance_withdraw
  <2> QED
    BY <1>1, <1>2, <2>1, WithdrawType
<1>4. led' = [led EXCEPT !.vbs = u, !.balance = b]
  BY <1>1 DEF vesting_balance_withdraw, Ledgers
<1>5. \A i \in DOMAIN v : u[i] = IF i = id THEN w ELSE v[i]
  BY <1>2
<1> HIDE DEF v, w, o
<1>6. /\ u \in Seq(VB) /\ DOMAIN u = DOMAIN v /\ \A j \in DOMAIN v : u[j].owner = v[j].owner
      /\ \A S : Hold(u, S) = Hold(v, S) + IF w.owner \in S THEN w.balance - v[id].balance ELSE 0
  <2> HIDE DEF u
  <2> QED
    BY <1>2, <1>3, HoldChange DEF u, v, o
<1>7. /\ b \in Coins /\ SumFunction(b) = SumFunction(led.balance) + (led.balance[o] + amount) - led.balance[o]
      /\ led.balance[o] \in Nat /\ SumFunction(led.balance) \in Nat
  <2>1. led.balance \in Coins /\ led.balance[o] \in Nat
    BY <1>1, <1>2, LedgerType DEF Coins
  <2>2. led.balance[o] + amount \in Nat
    BY <2>1
  <2> QED
    BY <1>2, <2>1, <2>2, CoinsChange, CoinsSum
<1>8. VbsOK(u, now)
  <2>1. now <= now
    BY <1>1
  <2> QED
    BY <1>2, <1>3, <1>5, <1>6, <2>1 DEF VbsOK
<1> HIDE DEF u, b
<1>9. /\ led' \in Ledgers /\ led'.vbs = u /\ led'.cashback_vb = led.cashback_vb /\ led'.pay_vb = led.pay_vb
      /\ led'.lifetime_percent = led.lifetime_percent /\ led'.current_supply = led.current_supply
      /\ led'.accumulated_fees = led.accumulated_fees /\ led'.balance = b
      /\ led'.pending_fees = led.pending_fees /\ led'.pending_vested_fees = led.pending_vested_fees
  BY <1>1, <1>4, <1>6, <1>7 DEF Ledgers
<1>10. LedgerOK(led', now)
  <2>1. \A a \in Accounts : OwnVb(u, a, led.cashback_vb[a]) /\ OwnVb(u, a, led.pay_vb[a])
    BY <1>1, <1>6 DEF LedgerOK, OwnVb, v
  <2> QED
    BY <1>1, <1>8, <1>9, <2>1 DEF LedgerOK
<1>11. Hold(u, Accounts) = Hold(v, Accounts) - amount
  <2>1. Hold(v, Accounts) \in Nat
    BY <1>2, HoldType
  <2> QED
    BY <1>2, <1>3, <1>6, <2>1
<1>12. Outside(led') = Outside(led) + amount
  <2>1. SumFunction(led.pending_fees) \in Nat /\ SumFunction(led.pending_vested_fees) \in Nat
    BY <1>1, LedgerType, CoinsSum
  <2> QED
    BY <1>7, <1>9, <2>1 DEF Outside
<1>13. Excess(led') = Excess(led)
  <2>1. /\ Outside(led) \in Nat /\ Hold(v, Accounts) \in Nat /\ led.current_supply \in Int
        /\ led.accumulated_fees \in Nat
    BY <1>1, LedgerType DEF v
  <2> QED
    BY <1>9, <1>11, <1>12, <2>1 DEF Excess, v
<1> QED
  BY <1>1, <1>9, <1>10, <1>13 DEF Funded

LEMMA UpgradeKeeps ==
    ASSUME SupplyInv, NEW a \in Accounts, NEW fee \in Nat, account_upgrade(a, fee)
    PROVE  Funded(led', dpo, now)
<1> DEFINE l == pay_fee(led, a, fee)
           m == process_fees(l, a, now)
           r == [registrar |-> a, referrer |-> a, lifetime_referrer |-> a]
           p == Hundred - NetworkPercent
<1>1. /\ LedgerOK(led, now) /\ dpo \in Budgets /\ Excess(led) = dpo.witness_budget
      /\ led.current_supply <= MaxSupply /\ now \in Nat /\ params.cashback_seconds \in Nat
  BY ParamsType DEF SupplyInv, Funded
<1>2. LedgerOK(l, now) /\ Excess(l) = Excess(led) /\ l.current_supply = led.current_supply
  <2>1. fee <= led.balance[a]
    <3>1. led.balance[a] \in Nat /\ led.balance[a] >= fee
      BY <1>1, LedgerType DEF Coins, account_upgrade
    <3> QED
      BY <3>1
  <2>2. /\ LedgerOK(l, now) /\ Excess(l) = Excess(led) /\ l.current_supply = led.current_supply
        /\ l.balance = [led.balance EXCEPT ![a] = led.balance[a] - fee]
    BY <1>1, <2>1, PayFee
  <2> QED
    BY <2>2
<1>3. led' = [m EXCEPT !.member[a] = Forever, !.referral[a] = r, !.lifetime_percent[a] = p]
  BY DEF account_upgrade
<1> HIDE DEF l
<1>4. Processed(l, m, now)
  BY <1>1, <1>2, ProcessFees
<1>5. LedgerOK(m, now) /\ Excess(m) = Excess(l) /\ m.current_supply <= l.current_supply
  BY <1>4 DEF Processed
<1>6. m \in Ledgers
  BY <1>5 DEF LedgerOK
<1>7. r \in Refs /\ Forever \in Nat /\ p \in Nat /\ NetworkPercent + p <= Hundred
  <2>1. /\ Hundred \in Nat /\ {NetworkPercent, LifetimePercent, ReferrerPercent} \subseteq Nat
        /\ NetworkPercent + LifetimePercent <= Hundred
    BY MaintenanceAssumption
  <2>2. Forever \in Nat
    BY MaintenanceAssumption
  <2> QED
    BY <2>1, <2>2 DEF Refs
<1> HIDE DEF m, r, p
<1>8. /\ led' \in Ledgers /\ led'.vbs = m.vbs /\ led'.cashback_vb = m.cashback_vb /\ led'.pay_vb = m.pay_vb
      /\ led'.lifetime_percent = [m.lifetime_percent EXCEPT ![a] = p]
      /\ led'.current_supply = m.current_supply
      /\ led'.accumulated_fees = m.accumulated_fees /\ led'.balance = m.balance
      /\ led'.pending_fees = m.pending_fees /\ led'.pending_vested_fees = m.pending_vested_fees
  BY <1>3, <1>6, <1>7 DEF Ledgers, Coins
<1>9. \A b \in Accounts : NetworkPercent + led'.lifetime_percent[b] <= Hundred
  <2>1. m.lifetime_percent \in Coins /\ \A b \in Accounts : NetworkPercent + m.lifetime_percent[b] <= Hundred
    BY <1>5, <1>6 DEF LedgerOK, Ledgers
  <2> QED
    BY <1>7, <1>8, <2>1 DEF Coins
<1>10. LedgerOK(led', now)
  BY <1>5, <1>8, <1>9 DEF LedgerOK
<1>11. Excess(led') = Excess(m)
  BY <1>8 DEF Excess, Outside
<1>12. led'.current_supply <= MaxSupply
  BY <1>1, <1>2, <1>5, <1>8, LedgerType, GenesisAssumption, SMTT(30)
<1> QED
  BY <1>1, <1>2, <1>5, <1>10, <1>11, <1>12 DEF Funded

LEMMA MigrateKeeps ==
    ASSUME SupplyInv, NEW a \in Accounts, account_balance_migrate(a)
    PROVE  Funded(led', dpo, now)
<1> DEFINE x == led.balance[a]
           b == [led.balance EXCEPT ![a] = 0]
           c == led.current_supply - x
<1>1. /\ LedgerOK(led, now) /\ dpo \in Budgets /\ Excess(led) = dpo.witness_budget
      /\ led.current_supply <= MaxSupply /\ led \in Ledgers
  BY DEF SupplyInv, Funded, LedgerOK
<1>2. led' = [led EXCEPT !.balance = b, !.current_supply = c]
  BY <1>1 DEF account_balance_migrate, Ledgers
<1>3. /\ led.balance \in Coins /\ x \in Nat /\ led.current_supply \in Int /\ c \in Int /\ MaxSupply \in Nat
      /\ led.accumulated_fees \in Nat /\ Hold(led.vbs, Accounts) \in Nat /\ Outside(led) \in Nat
      /\ SumFunction(led.pending_fees) \in Nat /\ SumFunction(led.pending_vested_fees) \in Nat
      /\ SumFunction(led.balance) \in Nat
  BY <1>1, LedgerType, CoinsSum, GenesisAssumption, SMTT(30) DEF Coins
<1>4. b \in Coins /\ SumFunction(b) = SumFunction(led.balance) + 0 - x
  BY <1>3, CoinsChange
<1> HIDE DEF b, x
<1>5. c \in Int /\ c <= MaxSupply
  BY <1>1, <1>3
<1> HIDE DEF c
<1>6. /\ led' \in Ledgers /\ led'.vbs = led.vbs /\ led'.cashback_vb = led.cashback_vb /\ led'.pay_vb = led.pay_vb
      /\ led'.lifetime_percent = led.lifetime_percent /\ led'.current_supply = c
      /\ led'.accumulated_fees = led.accumulated_fees /\ led'.balance = b
      /\ led'.pending_fees = led.pending_fees /\ led'.pending_vested_fees = led.pending_vested_fees
  BY <1>1, <1>2, <1>4, <1>5 DEF Ledgers
<1>7. LedgerOK(led', now)
  BY <1>1, <1>6, SameVbs
<1>8. Outside(led') = Outside(led) - x
  BY <1>3, <1>4, <1>6 DEF Outside
<1>9. Excess(led') = Excess(led)
  BY <1>3, <1>6, <1>8 DEF Excess, c
<1> QED
  BY <1>1, <1>5, <1>6, <1>7, <1>9 DEF Funded

(* The pay of the witness moves from the budget to a vesting balance. *)
LEMMA BlockPays ==
    ASSUME SupplyInv, NEW a \in Accounts, NEW t \in Nat, now <= t,
           NEW pay, pay = min(dpo.witness_pay_per_block, dpo.witness_budget)
    PROVE  Funded(deposit_witness_pay(led, a, pay, t), [dpo EXCEPT !.witness_budget = @ - pay], t)
<1> DEFINE l == deposit_witness_pay(led, a, pay, t)
           d == [dpo EXCEPT !.witness_budget = @ - pay]
<1>1. /\ LedgerOK(led, now) /\ dpo \in Budgets /\ Excess(led) = dpo.witness_budget
      /\ led.current_supply <= MaxSupply /\ now \in Nat
  BY DEF SupplyInv, Funded
<1>2. /\ dpo.witness_budget \in Nat /\ pay \in Nat /\ pay <= dpo.witness_budget
      /\ d \in Budgets /\ d.witness_budget = dpo.witness_budget - pay
  <2>1. dpo.witness_budget \in Nat /\ dpo.witness_pay_per_block \in Nat
    BY <1>1 DEF Budgets
  <2>2. pay \in Nat /\ pay <= dpo.witness_budget
    BY <2>1 DEF min
  <2>3. dpo.witness_budget - pay \in Nat
    BY <2>1, <2>2
  <2> QED
    BY <1>1, <2>1, <2>2, <2>3 DEF Budgets
<1>3. LedgerOK(led, t)
  BY <1>1, Later
<1>4. Paid(led, l, pay, t)
  BY <1>2, <1>3, WitnessPay
<1> HIDE DEF l, d
<1>5. LedgerOK(l, t) /\ l.current_supply <= led.current_supply /\ Excess(l) = Excess(led) - pay
  BY <1>4 DEF Paid
<1>6. l.current_supply <= MaxSupply
  BY <1>1, <1>5, LedgerType, GenesisAssumption
<1>7. Funded(l, d, t)
  BY <1>1, <1>2, <1>5, <1>6 DEF Funded
<1> QED
  BY <1>7 DEF l, d

LEMMA MaintenanceKeeps ==
    ASSUME SupplyInv, NEW l, NEW d, NEW t \in Nat, Funded(l, d, t), d.next_maintenance_time <= t,
           perform_chain_maintenance(l, d, t)
    PROVE  /\ Funded(led', dpo', t) /\ params' \in Range(Parameters) /\ pending' = {}
           /\ active'.witnesses \subseteq DOMAIN Candidates
           /\ NoCoinVotesTwice'
<1> DEFINE done == perform_account_maintenance(l, t)
           e == [d EXCEPT !.next_maintenance_time = next_maintenance_time(d, t)]
           b == process_budget(done.l, e, t)
<1>1. /\ LedgerOK(l, t) /\ d \in Budgets /\ Excess(l) = d.witness_budget /\ l.current_supply <= MaxSupply
      /\ params.cashback_seconds \in Nat
  BY ParamsType DEF Funded, SupplyInv
<1>2. done \in Counted(l, t)
  BY <1>1, AccountMaintenance
<1>3. /\ led' = b.l /\ dpo' = b.d
      /\ active' = update_active_witnesses(done.stake, active)
      /\ params' = (IF pending = {} THEN params ELSE CHOOSE p \in pending : TRUE) /\ pending' = {}
      /\ vote'.stake = done.stake /\ vote'.supply = done.l.current_supply
  BY DEF perform_chain_maintenance
<1>4. e \in Budgets /\ e.next_maintenance_time > t /\ e.witness_budget = d.witness_budget
  <2>1. next_maintenance_time(d, t) \in Nat /\ next_maintenance_time(d, t) > t
    BY <1>1, NextMaintenance
  <2> QED
    BY <1>1, <2>1 DEF Budgets
<1> HIDE DEF done, e
<1>5. /\ LedgerOK(done.l, t) /\ Excess(done.l) = e.witness_budget /\ done.l.current_supply <= l.current_supply
      /\ done.stake \in Coins
      /\ \A a \in Accounts : done.stake[a] <= done.l.balance[a] + Hold(done.l.vbs, {a})
  BY <1>1, <1>2, <1>4 DEF Counted, Processed
<1>6. done.l.current_supply <= MaxSupply
  BY <1>1, <1>5, LedgerType, GenesisAssumption
<1>7. Funded(led', dpo', t)
  <2>1. /\ LedgerOK(b.l, t) /\ b.d \in Budgets /\ b.l.current_supply <= MaxSupply
        /\ Excess(b.l) = b.d.witness_budget
    BY <1>4, <1>5, <1>6, ProcessBudget
  <2> HIDE DEF b
  <2> QED
    BY <1>3, <2>1 DEF Funded
<1>8. params' \in Range(Parameters)
  BY <1>3 DEF SupplyInv
<1>9. active'.witnesses \subseteq DOMAIN Candidates
  BY <1>3 DEF update_active_witnesses, sort_votable_objects
<1>10. SumFunctionOnSet(done.stake, Accounts) <= done.l.current_supply
  <2> DEFINE m == done.l
  <2>1. SumFunctionOnSet(done.stake, Accounts) <= SumFunction(m.balance) + Hold(m.vbs, Accounts)
    BY <1>5, StakesHeld
  <2>2. /\ SumFunction(m.balance) \in Nat /\ SumFunction(m.pending_fees) \in Nat
        /\ SumFunction(m.pending_vested_fees) \in Nat /\ Hold(m.vbs, Accounts) \in Nat
        /\ m.current_supply \in Int /\ m.accumulated_fees \in Nat
    BY <1>5, LedgerType, CoinsSum
  <2>3. SumFunctionOnSet(done.stake, Accounts) \in Nat
    BY <1>5, CoinsSum
  <2>4. Excess(m) >= 0 /\ Excess(m) \in Int
    BY <1>4, <1>5 DEF Budgets
  <2> HIDE DEF m
  <2>5. m.current_supply >= SumFunction(m.balance) + Hold(m.vbs, Accounts)
    BY <2>2, <2>4 DEF Excess, Outside
  <2> QED
    BY <2>1, <2>2, <2>3, <2>5 DEF m
<1>11. NoCoinVotesTwice'
  BY <1>3, <1>10 DEF NoCoinVotesTwice, Stake
<1> QED
  BY <1>3, <1>7, <1>8, <1>9, <1>11

LEMMA BlockKeeps ==
    ASSUME SupplyInv, NEW w \in active.witnesses, NEW gap \in 1 .. MaxGap, Block(w, gap)
    PROVE  SupplyInv'
<1> DEFINE t == now + gap
           pay == min(dpo.witness_pay_per_block, dpo.witness_budget)
           l == deposit_witness_pay(led, Candidates[w], pay, t)
           d == [dpo EXCEPT !.witness_budget = @ - pay]
<1>1. /\ now \in Nat /\ params \in Range(Parameters) /\ pending \subseteq Range(Parameters)
      /\ active.witnesses \subseteq DOMAIN Candidates /\ NoCoinVotesTwice
  BY DEF SupplyInv
<1>2. t \in Nat /\ now <= t
  BY <1>1, BudgetConstants
<1>3. Candidates[w] \in Accounts
  <2>1. Candidates \in Seq(Accounts)
    BY MaintenanceAssumption
  <2> QED
    BY <1>1, <2>1
<1>4. now' = t /\ IF dpo.next_maintenance_time <= t THEN perform_chain_maintenance(l, d, t)
                  ELSE led' = l /\ dpo' = d /\ UNCHANGED <<params, pending, active, vote>>
  BY DEF Block
<1> HIDE DEF t
<1>5. Funded(l, d, t) /\ d.next_maintenance_time = dpo.next_maintenance_time
  <2>1. Funded(l, d, t)
    BY <1>2, <1>3, BlockPays
  <2>2. dpo \in Budgets
    BY DEF SupplyInv, Funded
  <2> QED
    BY <2>1, <2>2 DEF Budgets
<1> HIDE DEF l, d
<1>6. CASE dpo.next_maintenance_time <= t
  <2>1. perform_chain_maintenance(l, d, t)
    BY <1>4, <1>6
  <2>2. /\ Funded(led', dpo', t) /\ params' \in Range(Parameters) /\ pending' = {}
        /\ active'.witnesses \subseteq DOMAIN Candidates /\ NoCoinVotesTwice'
    BY <1>2, <1>5, <1>6, <2>1, MaintenanceKeeps
  <2> QED
    BY <1>2, <1>4, <2>2 DEF SupplyInv
<1>7. CASE ~ (dpo.next_maintenance_time <= t)
  <2>1. led' = l /\ dpo' = d /\ UNCHANGED <<params, pending, active, vote>>
    BY <1>4, <1>7
  <2> QED
    BY <1>1, <1>2, <1>4, <1>5, <2>1 DEF SupplyInv, NoCoinVotesTwice
<1> QED
  BY <1>6, <1>7

LEMMA SupplyInit ==
    ASSUME Init
    PROVE  SupplyInv
<1> DEFINE l == LedgerInit
           zero == [a \in Accounts |-> 0]
<1>1. /\ Funds \in Coins /\ Members \in Coins /\ MaxSupply \in Nat /\ SumFunction(Funds) <= MaxSupply
      /\ Referral \in [Accounts -> Refs]
  BY MaintenanceAssumption, GenesisAssumption DEF Coins, Refs
<1>2. SumFunction(Funds) \in Nat
  BY <1>1, CoinsSum
<1>3. zero \in Coins /\ SumFunction(zero) = 0
  <2>1. zero \in Coins /\ \A a \in Accounts : zero[a] = 0
    BY DEF Coins
  <2> HIDE DEF zero
  <2>2. SumFunctionOnSet(zero, Accounts) = 0
    BY <2>1, AccountsFinite, SumZero
  <2> QED
    BY <2>1, <2>2, CoinsSum
<1>4. LifetimePercent \in Nat /\ NetworkPercent + LifetimePercent <= Hundred
  <2>1. {NetworkPercent, LifetimePercent, ReferrerPercent} \subseteq Nat
    BY MaintenanceAssumption
  <2> QED
    BY <2>1, MaintenanceAssumption
<1>5. /\ l.balance = Funds /\ l.pending_fees = zero /\ l.pending_vested_fees = zero /\ l.vbs = <<>>
      /\ l.cashback_vb = [a \in Accounts |-> None] /\ l.pay_vb = [a \in Accounts |-> None]
      /\ l.lifetime_percent = [a \in Accounts |-> LifetimePercent]
      /\ l.current_supply = SumFunction(Funds) /\ l.accumulated_fees = 0
  BY DEF LedgerInit
<1>6. l \in Ledgers
  <2>1. /\ [a \in Accounts |-> None] \in Ids /\ [a \in Accounts |-> LifetimePercent] \in Coins
        /\ SumFunction(Funds) \in Int /\ <<>> \in Seq(VB)
    BY <1>2, <1>4 DEF Ids, Coins
  <2> QED
    BY <1>1, <1>3, <2>1 DEF LedgerInit, Ledgers
<1> HIDE DEF l, zero
<1>7. LedgerOK(l, now)
  <2>1. VbsOK(l.vbs, now)
    BY <1>5 DEF VbsOK
  <2>2. \A a \in Accounts : /\ OwnVb(l.vbs, a, l.cashback_vb[a]) /\ OwnVb(l.vbs, a, l.pay_vb[a])
                            /\ NetworkPercent + l.lifetime_percent[a] <= Hundred
    BY <1>4, <1>5 DEF OwnVb
  <2> QED
    BY <1>6, <2>1, <2>2 DEF LedgerOK
<1>8. Hold(l.vbs, Accounts) = 0
  <2>1. Owned(l.vbs, Accounts) = {}
    BY <1>5 DEF Owned
  <2> QED
    BY <2>1, SumEmpty DEF Hold
<1>9. Excess(l) = 0
  BY <1>2, <1>3, <1>5, <1>8 DEF Excess, Outside
<1>10. led = l /\ dpo \in Budgets /\ dpo.witness_budget = 0
  BY DEF Init, l, Budgets, Never
<1>11. Funded(led, dpo, now)
  BY <1>1, <1>5, <1>7, <1>9, <1>10 DEF Funded
<1>12. params \in Range(Parameters)
  <2> DEFINE R == [cashback_seconds : Nat, maximum_witness_count : Nat]
  <2>1. Parameters \in Seq(R) /\ Parameters # <<>>
    BY MaintenanceAssumption
  <2> HIDE DEF R
  <2>2. 1 \in DOMAIN Parameters
    BY ONLY <2>1
  <2> QED
    BY <2>2 DEF Init, Range
<1> QED
  BY <1>11, <1>12 DEF SupplyInv, Init, GenesisTime, NoCoinVotesTwice

LEMMA SupplyNext ==
    ASSUME SupplyInv, [Next]_vars
    PROVE  SupplyInv'
<1>0. Amounts \subseteq Nat /\ Fees \subseteq Nat
  BY MaintenanceAssumption
<1>1. ASSUME NEW w \in active.witnesses, NEW gap \in 1 .. MaxGap, Block(w, gap)
      PROVE  SupplyInv'
  BY <1>1, BlockKeeps
<1>2. ASSUME Op, pending' \subseteq Range(Parameters), Funded(led', dpo, now)
      PROVE  SupplyInv'
  BY <1>2 DEF Op, SupplyInv, NoCoinVotesTwice
<1>3. ASSUME NEW a \in Accounts \ Blockchain, NEW b \in Accounts \ Blockchain, NEW amount \in Amounts,
             NEW fee \in Fees, a # b, transfer(a, b, amount, fee)
      PROVE  SupplyInv'
  <2>1. Funded(led', dpo, now)
    BY <1>0, <1>3, TransferKeeps
  <2>2. Op /\ pending' = pending
    BY <1>3 DEF transfer
  <2> QED
    BY <1>2, <2>1, <2>2 DEF SupplyInv
<1>4. ASSUME NEW id \in DOMAIN led.vbs, NEW amount \in Amounts, vesting_balance_withdraw(id, amount)
      PROVE  SupplyInv'
  <2>1. Funded(led', dpo, now)
    BY <1>0, <1>4, WithdrawKeeps
  <2>2. Op /\ pending' = pending
    BY <1>4 DEF vesting_balance_withdraw
  <2> QED
    BY <1>2, <2>1, <2>2 DEF SupplyInv
<1>5. ASSUME NEW a \in Accounts \ Blockchain, NEW fee \in Fees, account_upgrade(a, fee)
      PROVE  SupplyInv'
  <2>1. Funded(led', dpo, now)
    BY <1>0, <1>5, UpgradeKeeps
  <2>2. Op /\ pending' = pending
    BY <1>5 DEF account_upgrade
  <2> QED
    BY <1>2, <2>1, <2>2 DEF SupplyInv
<1>6. ASSUME NEW a \in Accounts, account_balance_migrate(a)
      PROVE  SupplyInv'
  <2>1. Funded(led', dpo, now)
    BY <1>6, MigrateKeeps
  <2>2. Op /\ pending' = pending
    BY <1>6 DEF account_balance_migrate
  <2> QED
    BY <1>2, <2>1, <2>2 DEF SupplyInv
<1>7. ASSUME NEW a \in Accounts, NEW o \in Options, account_update(a, o)
      PROVE  SupplyInv'
  BY <1>2, <1>7 DEF account_update, SupplyInv
<1>8. ASSUME NEW p \in Range(Parameters), committee_member_update_global_parameters(p)
      PROVE  SupplyInv'
  BY <1>2, <1>8 DEF committee_member_update_global_parameters, SupplyInv
<1>9. CASE UNCHANGED vars
  BY <1>9 DEF vars, SupplyInv, NoCoinVotesTwice
<1> QED
  BY <1>1, <1>3, <1>4, <1>5, <1>6, <1>7, <1>8, <1>9 DEF Next

LEMMA SupplyInvariant == Spec => []SupplyInv
BY SupplyInit, SupplyNext, PTL DEF Spec

-----------------------------------------------------------------------------
(* Powers of two, as the number of subsets *)

LEMMA PowerCounts ==
    ASSUME NEW n \in Nat
    PROVE  /\ IsFiniteSet(SUBSET (1 .. n)) /\ Cardinality(SUBSET (1 .. n)) = 2 ^ n /\ 2 ^ n \in Nat
<1>1. IsFiniteSet(1 .. n) /\ Cardinality(1 .. n) = n
  BY FS_Interval
<1>2. IsFiniteSet(SUBSET (1 .. n)) /\ Cardinality(SUBSET (1 .. n)) = 2 ^ Cardinality(1 .. n)
  BY <1>1, FS_SUBSET
<1> QED
  BY <1>1, <1>2, FS_CardinalityType

LEMMA PowerZero == 2 ^ 0 = 1
<1>1. SUBSET (1 .. 0) = {{}}
  <2>1. 1 .. 0 = {}
    OBVIOUS
  <2> QED
    BY <2>1
<1>2. Cardinality({{}}) = 1
  BY FS_Singleton
<1>3. Cardinality(SUBSET (1 .. 0)) = 2 ^ 0
  BY PowerCounts
<1> QED
  BY <1>1, <1>2, <1>3

LEMMA PowerNext ==
    ASSUME NEW n \in Nat
    PROVE  2 ^ (n + 1) = 2 * 2 ^ n
<1> DEFINE A == SUBSET (1 .. n)
           B == {s \cup {n + 1} : s \in A}
           f == [s \in A |-> s \cup {n + 1}]
<1>1. IsFiniteSet(A) /\ Cardinality(A) = 2 ^ n /\ 2 ^ n \in Nat
  BY PowerCounts
<1>2. n + 1 \notin 1 .. n /\ n + 1 \in Nat /\ 1 .. n + 1 = (1 .. n) \cup {n + 1}
  OBVIOUS
<1> HIDE DEF A
<1>3. \A s \in A : s \subseteq 1 .. n
  BY DEF A
<1>4. f \in Bijection(A, B)
  <2>1. f \in [A -> B]
    OBVIOUS
  <2>2. \A s, t \in A : f[s] = f[t] => s = t
    <3> TAKE s, t \in A
    <3> HAVE f[s] = f[t]
    <3>1. s \cup {n + 1} = t \cup {n + 1} /\ n + 1 \notin s /\ n + 1 \notin t
      BY <1>2, <1>3
    <3> QED
      BY <3>1
  <2>3. \A y \in B : \E s \in A : f[s] = y
    OBVIOUS
  <2> QED
    BY <2>1, <2>2, <2>3 DEF Bijection, Injection, Surjection, IsInjective
<1>5. IsFiniteSet(B) /\ Cardinality(B) = 2 ^ n
  <2>1. ExistsBijection(A, B)
    BY <1>4 DEF ExistsBijection
  <2> QED
    BY <1>1, <2>1, FS_Bijection
<1>6. A \cap B = {}
  BY <1>2, <1>3
<1>7. SUBSET (1 .. n + 1) = A \cup B
  <2>1. ASSUME NEW s \in SUBSET (1 .. n + 1) PROVE s \in A \cup B
    <3>1. CASE n + 1 \in s
      <4>1. s \ {n + 1} \in A /\ s = (s \ {n + 1}) \cup {n + 1}
        BY <1>2, <3>1 DEF A
      <4> QED
        BY <4>1
    <3>2. CASE n + 1 \notin s
      BY <1>2, <3>2 DEF A
    <3> QED
      BY <3>1, <3>2
  <2>2. \A s \in A \cup B : s \subseteq 1 .. n + 1
    BY <1>2, <1>3
  <2> QED
    BY <2>1, <2>2
<1>8. Cardinality(A \cup B) = Cardinality(A) + Cardinality(B) - Cardinality(A \cap B)
  BY <1>1, <1>5, FS_Union
<1>9. Cardinality(A \cap B) = 0
  BY <1>6, FS_EmptySet
<1>10. Cardinality(SUBSET (1 .. n + 1)) = 2 ^ (n + 1)
  <2>1. n + 1 \in Nat
    OBVIOUS
  <2> QED
    BY ONLY <2>1, PowerCounts
<1>11. 2 ^ (n + 1) = 2 ^ n + 2 ^ n - 0
  <2> HIDE DEF B
  <2> QED
    BY ONLY <1>1, <1>5, <1>7, <1>8, <1>9, <1>10, Zenon
<1> QED
  BY ONLY <1>1, <1>11

LEMMA PowerType ==
    ASSUME NEW n \in Nat
    PROVE  2 ^ n \in Nat /\ 2 ^ n > n
<1> DEFINE N == {k \in Nat : 2 ^ k > k}
<1>1. 0 \in N
  BY PowerZero
<1>2. ASSUME NEW k \in Nat, k \in N PROVE k + 1 \in N
  <2>1. 2 ^ k \in Nat /\ 2 ^ k > k /\ 2 ^ (k + 1) = 2 * 2 ^ k
    BY <1>2, PowerCounts, PowerNext
  <2> QED
    BY <2>1
<1>3. n \in N
  <2> HIDE DEF N
  <2> QED
    BY <1>1, <1>2, SetInduction
<1> QED
  BY <1>3, PowerCounts

LEMMA PowerSum ==
    ASSUME NEW a \in Nat, NEW b \in Nat
    PROVE  2 ^ (a + b) = 2 ^ a * 2 ^ b
<1> DEFINE N == {k \in Nat : 2 ^ (a + k) = 2 ^ a * 2 ^ k}
<1>1. 0 \in N
  <2>1. 2 ^ a \in Nat /\ a + 0 = a
    BY PowerType
  <2> QED
    BY <2>1, PowerZero
<1>2. ASSUME NEW k \in Nat, k \in N PROVE k + 1 \in N
  <2>1. 2 ^ (a + k) = 2 ^ a * 2 ^ k /\ a + k \in Nat /\ (a + k) + 1 = a + (k + 1)
    BY <1>2
  <2>2. 2 ^ ((a + k) + 1) = 2 * 2 ^ (a + k) /\ 2 ^ (k + 1) = 2 * 2 ^ k /\ 2 ^ a \in Nat /\ 2 ^ k \in Nat
    BY <2>1, PowerNext, PowerType
  <2>3. 2 * (2 ^ a * 2 ^ k) = 2 ^ a * (2 * 2 ^ k)
    <3> DEFINE x == 2 ^ a
               y == 2 ^ k
    <3>1. x \in Nat /\ y \in Nat
      BY <2>2
    <3> HIDE DEF x, y
    <3>2. 2 * (x * y) = x * (2 * y)
      BY <3>1
    <3> QED
      BY <3>2 DEF x, y
  <2> QED
    BY <2>1, <2>2, <2>3
<1>3. b \in N
  <2> HIDE DEF N
  <2> QED
    BY <1>1, <1>2, SetInduction
<1> QED
  BY <1>3

(* The highest bit of a number *)
LEMMA MsbIs ==
    ASSUME NEW v \in Nat, v > 0
    PROVE  msb(v) \in Nat /\ 2 ^ msb(v) <= v /\ v < 2 ^ (msb(v) + 1)
<1> DEFINE S == {k \in 0 .. v : 2 ^ k <= v}
           m == Max(S)
<1>1. S \in SUBSET (0 .. v) /\ S # {}
  <2>1. 0 \in S
    BY PowerZero
  <2> QED
    BY <2>1
<1>2. m \in S /\ \A k \in S : k <= m
  <2> HIDE DEF S
  <2> QED
    BY <1>1, MaxFound
<1>3. m \in 0 .. v /\ 2 ^ m <= v
  BY <1>2
<1>4. v < 2 ^ (m + 1)
  <2> HIDE DEF m
  <2>1. m \in Nat /\ m + 1 \in Nat /\ 2 ^ (m + 1) \in Nat /\ 2 ^ (m + 1) > m + 1
    BY <1>3, PowerType
  <2>2. CASE m + 1 \in 0 .. v
    <3>1. m + 1 \notin S
      BY <1>2, <2>1
    <3> QED
      BY <2>1, <2>2, <3>1
  <2>3. CASE m + 1 \notin 0 .. v
    BY <2>1, <2>3
  <2> QED
    BY <2>2, <2>3
<1> HIDE DEF m
<1>5. \E k \in 0 .. v : 2 ^ k <= v /\ v < 2 ^ (k + 1)
  BY <1>3, <1>4
<1>6. msb(v) \in 0 .. v /\ 2 ^ msb(v) <= v /\ v < 2 ^ (msb(v) + 1)
  BY <1>5, Zenon DEF msb
<1> QED
  BY <1>6

-----------------------------------------------------------------------------
(* The order of the votes, for any tally T of candidates D *)

Ahead(T, i, j) == T[i] > T[j] \/ (T[i] = T[j] /\ i < j)
AheadOf(T, D, w) == {v \in D : Ahead(T, v, w)}
Rank(T, D, w) == Cardinality(AheadOf(T, D, w))
FirstOf(T, D, c) == {w \in D : Rank(T, D, w) < c}

LEMMA RankType ==
    ASSUME NEW D \in SUBSET Nat, IsFiniteSet(D), NEW T, \A i \in D : T[i] \in Nat, NEW w \in D
    PROVE  IsFiniteSet(AheadOf(T, D, w)) /\ Rank(T, D, w) \in Nat /\ Rank(T, D, w) < Cardinality(D)
<1>1. AheadOf(T, D, w) \in SUBSET D /\ w \notin AheadOf(T, D, w)
  BY DEF AheadOf, Ahead
<1>2. /\ IsFiniteSet(AheadOf(T, D, w)) /\ Rank(T, D, w) <= Cardinality(D)
      /\ Rank(T, D, w) = Cardinality(D) => AheadOf(T, D, w) = D
  BY <1>1, FS_Subset DEF Rank
<1>3. Cardinality(D) \in Nat /\ Rank(T, D, w) \in Nat
  BY <1>2, FS_CardinalityType DEF Rank
<1> QED
  BY <1>1, <1>2, <1>3

LEMMA RankOrders ==
    ASSUME NEW D \in SUBSET Nat, IsFiniteSet(D), NEW T, \A i \in D : T[i] \in Nat,
           NEW v \in D, NEW w \in D, Ahead(T, v, w)
    PROVE  Rank(T, D, v) < Rank(T, D, w)
<1>1. AheadOf(T, D, v) \in SUBSET AheadOf(T, D, w)
  <2>1. ASSUME NEW u \in D, Ahead(T, u, v) PROVE Ahead(T, u, w)
    <3>1. T[u] \in Nat /\ T[v] \in Nat /\ T[w] \in Nat /\ u \in Nat /\ v \in Nat /\ w \in Nat
      OBVIOUS
    <3> QED
      BY <2>1, <3>1 DEF Ahead
  <2> QED
    BY <2>1 DEF AheadOf
<1>2. v \in AheadOf(T, D, w) /\ v \notin AheadOf(T, D, v)
  BY DEF AheadOf, Ahead
<1>3. IsFiniteSet(AheadOf(T, D, w)) /\ Rank(T, D, w) \in Nat /\ Rank(T, D, v) \in Nat
  BY RankType
<1>4. Rank(T, D, v) <= Rank(T, D, w) /\ (Rank(T, D, w) = Rank(T, D, v) => AheadOf(T, D, w) = AheadOf(T, D, v))
  BY <1>1, <1>3, FS_Subset DEF Rank
<1> QED
  BY <1>2, <1>3, <1>4

(* Those with the most votes are in front. *)
LEMMA FrontHasMost ==
    ASSUME NEW D \in SUBSET Nat, IsFiniteSet(D), NEW T, \A i \in D : T[i] \in Nat, NEW c \in Nat,
           NEW w \in FirstOf(T, D, c), NEW v \in D \ FirstOf(T, D, c)
    PROVE  T[w] >= T[v]
<1>1. w \in D /\ v \in D /\ Rank(T, D, w) < c /\ ~ (Rank(T, D, v) < c)
  BY DEF FirstOf
<1>2. Rank(T, D, w) \in Nat /\ Rank(T, D, v) \in Nat
  BY <1>1, RankType
<1>3. Ahead(T, v, w) => Rank(T, D, v) < Rank(T, D, w)
  BY <1>1, RankOrders
<1>4. ~ Ahead(T, v, w)
  BY <1>1, <1>2, <1>3
<1> QED
  BY <1>1, <1>4 DEF Ahead

(* No two have the same rank, so every rank is taken. *)
LEMMA RanksTaken ==
    ASSUME NEW D \in SUBSET Nat, IsFiniteSet(D), NEW T, \A i \in D : T[i] \in Nat
    PROVE  /\ \A v, w \in D : Rank(T, D, v) = Rank(T, D, w) => v = w
           /\ \A k \in 0 .. Cardinality(D) - 1 : \E w \in D : Rank(T, D, w) = k
<1> DEFINE n == Cardinality(D)
           f == [w \in D |-> Rank(T, D, w)]
<1>1. n \in Nat
  BY FS_CardinalityType
<1>2. \A w \in D : Rank(T, D, w) \in Nat /\ Rank(T, D, w) < n
  BY RankType
<1>3. f \in [D -> 0 .. n - 1]
  BY <1>1, <1>2
<1>4. ASSUME NEW v \in D, NEW w \in D, Rank(T, D, v) = Rank(T, D, w) PROVE v = w
  <2>1. Ahead(T, v, w) \/ Ahead(T, w, v) \/ v = w
    BY DEF Ahead
  <2> QED
    BY <1>2, <1>4, <2>1, RankOrders
<1>5. f \in Injection(D, 0 .. n - 1)
  <2>1. \A v, w \in D : f[v] = f[w] => v = w
    BY <1>4
  <2> HIDE DEF f, n
  <2> QED
    BY ONLY <1>3, <2>1 DEF Injection, IsInjective
<1>6. IsFiniteSet(0 .. n - 1) /\ Cardinality(0 .. n - 1) = n
  <2> HIDE DEF n
  <2>1. 0 \in Int /\ n - 1 \in Int /\ (n = 0 <=> 0 > n - 1) /\ (n - 1) - 0 + 1 = n
    BY <1>1
  <2>2. /\ IsFiniteSet(0 .. n - 1)
        /\ Cardinality(0 .. n - 1) = IF 0 > n - 1 THEN 0 ELSE (n - 1) - 0 + 1
    BY ONLY <2>1, FS_Interval
  <2> QED
    BY <2>1, <2>2
<1>7. f \in Surjection(D, 0 .. n - 1)
  BY <1>5, <1>6, FS_Injection
<1>8. \A k \in 0 .. n - 1 : \E w \in D : f[w] = k
  BY <1>7 DEF Surjection
<1> QED
  BY <1>4, <1>8

(* As many are in front as are wanted, or all. *)
LEMMA FrontCounts ==
    ASSUME NEW D \in SUBSET Nat, IsFiniteSet(D), NEW T, \A i \in D : T[i] \in Nat, NEW c \in Nat
    PROVE  IF c <= Cardinality(D) THEN Cardinality(FirstOf(T, D, c)) = c ELSE FirstOf(T, D, c) = D
<1> DEFINE F == FirstOf(T, D, c)
           g == [w \in F |-> Rank(T, D, w)]
<1>1. Cardinality(D) \in Nat /\ \A w \in D : Rank(T, D, w) \in Nat /\ Rank(T, D, w) < Cardinality(D)
  BY RankType, FS_CardinalityType
<1>2. CASE ~ (c <= Cardinality(D))
  <2>1. \A w \in D : Rank(T, D, w) < c
    BY <1>1, <1>2
  <2>2. FirstOf(T, D, c) = D
    BY <2>1 DEF FirstOf
  <2> QED
    BY <1>2, <2>2
<1>3. CASE c <= Cardinality(D)
  <2>1. F \in SUBSET D /\ \A w \in F : Rank(T, D, w) \in 0 .. c - 1
    BY <1>1 DEF FirstOf
  <2>2. \A k \in 0 .. c - 1 : \E w \in F : Rank(T, D, w) = k
    <3> TAKE k \in 0 .. c - 1
    <3>1. k \in 0 .. Cardinality(D) - 1 /\ k < c
      BY <1>1, <1>3
    <3>2. PICK w \in D : Rank(T, D, w) = k
      BY <3>1, RanksTaken
    <3>3. w \in F
      BY <3>1, <3>2 DEF FirstOf
    <3> QED
      BY <3>2, <3>3
  <2>3. \A v, w \in F : Rank(T, D, v) = Rank(T, D, w) => v = w
    <3>1. \A v, w \in D : Rank(T, D, v) = Rank(T, D, w) => v = w
      BY RanksTaken
    <3> HIDE DEF F
    <3> QED
      BY <2>1, <3>1
  <2> HIDE DEF F
  <2>4. g \in Bijection(F, 0 .. c - 1)
    <3>1. g \in [F -> 0 .. c - 1]
      BY <2>1
    <3>2. \A v, w \in F : g[v] = g[w] => v = w
      BY <2>3
    <3>3. \A k \in 0 .. c - 1 : \E w \in F : g[w] = k
      BY <2>2
    <3> QED
      BY <3>1, <3>2, <3>3 DEF Bijection, Injection, Surjection, IsInjective
  <2>5. IsFiniteSet(F)
    BY <2>1, FS_Subset
  <2>6. ExistsBijection(F, 0 .. c - 1)
    BY <2>4 DEF ExistsBijection
  <2>7. Cardinality(0 .. c - 1) = Cardinality(F)
    BY <2>5, <2>6, FS_Bijection
  <2>8. Cardinality(0 .. c - 1) = c
    BY FS_Interval
  <2> QED
    BY <1>3, <2>7, <2>8 DEF F
<1> QED
  BY <1>2, <1>3

-----------------------------------------------------------------------------
(* The number of witnesses *)

LEMMA SumSubset ==
    ASSUME NEW f \in Coins, NEW T \in SUBSET Accounts, NEW S \in SUBSET T
    PROVE  /\ SumFunctionOnSet(f, S) \in Nat /\ SumFunctionOnSet(f, T) \in Nat
           /\ SumFunctionOnSet(f, T) = SumFunctionOnSet(f, S) + SumFunctionOnSet(f, T \ S)
           /\ SumFunctionOnSet(f, S) <= SumFunctionOnSet(f, T)
<1>1. IsFiniteSet(S) /\ IsFiniteSet(T \ S) /\ IsFiniteSet(T)
  BY AccountsFinite, FS_Subset
<1>2. \A x \in T : f[x] \in Nat
  BY DEF Coins
<1>3. SumFunctionOnSet(f, S) \in Nat /\ SumFunctionOnSet(f, T \ S) \in Nat /\ SumFunctionOnSet(f, T) \in Nat
  BY <1>1, <1>2, SumType
<1>4. T = S \cup (T \ S) /\ S \cap (T \ S) = {} /\ \A x \in S \cup (T \ S) : f[x] \in Int
  BY <1>2
<1>5. SumFunctionOnSet(f, S \cup (T \ S)) = SumFunctionOnSet(f, S) + SumFunctionOnSet(f, T \ S)
  BY ONLY <1>1, <1>4, SumUnion
<1>6. SumFunctionOnSet(f, T) = SumFunctionOnSet(f, S) + SumFunctionOnSet(f, T \ S)
  BY ONLY <1>4, <1>5
<1> QED
  BY <1>3, <1>6

(* What an account wants, and the bars of the histogram it can be in *)
Wants(a) == min(opinion(a).num_witness, params.maximum_witness_count) \div 2
Highest == params.maximum_witness_count \div 2
Bars(c) == UNION {histogram_bar(k) : k \in 1 .. c}

LEMMA Halves ==
    ASSUME NEW x \in Nat
    PROVE  x \div 2 \in Nat /\ 2 * (x \div 2) <= x /\ x < 2 * (x \div 2) + 2
BY Division

LEMMA WantsBar ==
    ASSUME params.maximum_witness_count \in Nat, NEW a \in Accounts, opinion(a).num_witness \in Nat
    PROVE  /\ Highest \in Nat /\ Wants(a) \in 0 .. Highest
           /\ Highest > 0 => (a \in histogram_bar(0) <=> Wants(a) = 0)
           /\ \A k \in Nat : a \in histogram_bar(k) => Wants(a) = k
           /\ Wants(a) < Highest => a \in histogram_bar(Wants(a))
<1> DEFINE n == opinion(a).num_witness
           m == params.maximum_witness_count
           x == n \div 2
           y == m \div 2
           z == min(n, m) \div 2
<1>1. /\ n \in Nat /\ m \in Nat /\ min(n, m) \in Nat /\ min(n, m) <= n /\ min(n, m) <= m
      /\ (min(n, m) = n \/ min(n, m) = m)
  BY DEF min
<1>2. /\ x \in Nat /\ 2 * x <= n /\ n < 2 * x + 2 /\ y \in Nat /\ 2 * y <= m /\ m < 2 * y + 2
      /\ z \in Nat /\ 2 * z <= min(n, m) /\ min(n, m) < 2 * z + 2
  BY <1>1, Halves
<1>3. /\ Highest = y /\ Wants(a) = z
      /\ \A k : a \in histogram_bar(k) <=> n <= m /\ min(x, y) = k
  BY DEF Highest, Wants, histogram_bar
<1>4. min(x, y) \in Nat /\ (min(x, y) = x \/ min(x, y) = y) /\ min(x, y) <= x /\ min(x, y) <= y
  BY <1>2 DEF min
<1> DEFINE p == min(n, m)
           q == min(x, y)
<1> HIDE DEF n, m, x, y, z, p, q
<1>5. /\ p \in Nat /\ p <= n /\ p <= m /\ (p = n \/ p = m) /\ 2 * z <= p /\ p < 2 * z + 2
      /\ q \in Nat /\ (q = x \/ q = y) /\ q <= x /\ q <= y
  BY <1>1, <1>2, <1>4 DEF p, q
<1>6. z <= y /\ (n <= m => q = z) /\ (z < y => n <= m)
  BY <1>1, <1>2, <1>5
<1>7. y > 0 => (n <= m /\ q = 0 <=> z = 0)
  BY <1>1, <1>2, <1>5, <1>6
<1>8. \A k : a \in histogram_bar(k) <=> n <= m /\ q = k
  BY <1>3 DEF q
<1> QED
  BY <1>2, <1>3, <1>5, <1>6, <1>7, <1>8

LEMMA BarsAre ==
    ASSUME params.maximum_witness_count \in Nat, \A a \in Accounts : opinion(a).num_witness \in Nat, NEW c \in Nat
    PROVE  /\ Bars(c) \subseteq {a \in Accounts : Wants(a) > 0 /\ Wants(a) <= c}
           /\ c < Highest => Bars(c) = {a \in Accounts : Wants(a) > 0 /\ Wants(a) <= c}
<1>1. \A a \in Accounts, k \in Nat : a \in histogram_bar(k) => Wants(a) = k
  BY WantsBar
<1>2. \A a \in Accounts : Wants(a) \in Nat /\ (Wants(a) < Highest => a \in histogram_bar(Wants(a)))
  BY WantsBar
<1>3. \A k : histogram_bar(k) \subseteq Accounts
  BY DEF histogram_bar
<1>4. ASSUME NEW a \in Bars(c) PROVE a \in Accounts /\ Wants(a) > 0 /\ Wants(a) <= c
  <2>1. PICK k \in 1 .. c : a \in histogram_bar(k)
    BY DEF Bars
  <2>2. k \in Nat /\ a \in Accounts
    BY <1>3, <2>1
  <2>3. Wants(a) = k
    BY <1>1, <2>1, <2>2
  <2> QED
    BY <2>2, <2>3
<1>5. ASSUME c < Highest, NEW a \in Accounts, Wants(a) > 0, Wants(a) <= c PROVE a \in Bars(c)
  <2>1. Highest \in Nat
    BY <1>5, WantsBar
  <2>2. Wants(a) \in 1 .. c /\ a \in histogram_bar(Wants(a))
    BY <1>2, <1>5, <2>1
  <2> QED
    BY <2>2 DEF Bars
<1> QED
  BY <1>4, <1>5

(* Where the search of the histogram ends: at the first bar with which     *)
(* more than half is reached, or at the last.                              *)
LEMMA CountEnds ==
    ASSUME NEW f, params.maximum_witness_count \in Nat,
           NEW half, half = (Stake(f, Accounts) - Stake(f, histogram_bar(0))) \div 2, half # 0, Highest > 0
    PROVE  /\ witness_count(f) \in 1 .. Highest
           /\ witness_count(f) = Highest \/ Stake(f, Bars(witness_count(f))) > half
           /\ \A c \in 1 .. witness_count(f) - 1 : ~ (Stake(f, Bars(c)) > half)
<1> DEFINE E == {c \in 1 .. Highest : Stake(f, Bars(c)) > half}
<1>1. witness_count(f) = IF E = {} THEN Highest ELSE Min(E)
  BY DEF witness_count, Highest, Bars
<1>2. Highest \in Nat
  BY Halves DEF Highest
<1>3. CASE E = {}
  <2>1. witness_count(f) = Highest
    BY <1>1, <1>3
  <2>2. \A c \in 1 .. Highest : ~ (Stake(f, Bars(c)) > half)
    BY <1>3
  <2> QED
    BY <1>2, <2>1, <2>2
<1>4. CASE E # {}
  <2>1. E \in SUBSET Nat
    BY <1>2
  <2>2. \E x \in E : \A y \in E : x <= y
    <3> HIDE DEF E
    <3> QED
      BY <1>4, <2>1, Least
  <2>3. Min(E) \in E /\ \A y \in E : Min(E) <= y
    <3> HIDE DEF E
    <3> QED
      BY <2>2, Zenon DEF Min
  <2> DEFINE m == Min(E)
  <2>4. m \in 1 .. Highest /\ Stake(f, Bars(m)) > half
    BY <2>3
  <2>5. witness_count(f) = m
    BY <1>1, <1>4
  <2>6. ASSUME NEW c \in 1 .. m - 1 PROVE ~ (Stake(f, Bars(c)) > half)
    <3>1. c \in 1 .. Highest /\ ~ (m <= c)
      BY <1>2, <2>4
    <3>2. c \notin E
      BY <2>3, <3>1
    <3> QED
      BY <3>1, <3>2
  <2> HIDE DEF m, E
  <2> QED
    BY <2>4, <2>5, <2>6
<1> QED
  BY <1>3, <1>4

(* The median of what the stake wants *)
IsMedian(f, c) ==
    LET speaking == {a \in Accounts : Wants(a) > 0}
        half == Stake(f, speaking) \div 2
    IN  IF half = 0 THEN c = 0
        ELSE /\ Stake(f, {a \in speaking : Wants(a) < c}) <= half
             /\ Stake(f, {a \in speaking : Wants(a) <= c}) > half

LEMMA CountsMedian ==
    ASSUME NEW f \in Coins, params.maximum_witness_count \in Nat,
           \A a \in Accounts : opinion(a).num_witness \in Nat
    PROVE  IsMedian(f, witness_count(f)) /\ witness_count(f) \in Nat
<1> DEFINE P == {a \in Accounts : Wants(a) > 0}
           half == Stake(f, P) \div 2
           target == (Stake(f, Accounts) - Stake(f, histogram_bar(0))) \div 2
           c == witness_count(f)
<1>1. /\ Highest \in Nat
      /\ \A a \in Accounts : Wants(a) \in Nat /\ Wants(a) <= Highest
  <2>1. Highest \in Nat
    BY Halves DEF Highest
  <2> QED
    BY <2>1, WantsBar
<1>2. CASE Highest = 0
  <2>1. P = {}
    BY <1>1, <1>2
  <2>2. half = 0
    <3> HIDE DEF P
    <3>1. Stake(f, P) = 0
      BY <2>1, SumEmpty DEF Stake
    <3> QED
      BY <3>1
  <2>3. c = 0
    <3> DEFINE E == {k \in 1 .. Highest : Stake(f, UNION {histogram_bar(i) : i \in 1 .. k}) > target}
    <3>1. E = {}
      BY <1>2
    <3>2. c = IF target = 0 THEN 0 ELSE IF E = {} THEN Highest ELSE Min(E)
      BY DEF witness_count, Highest
    <3> HIDE DEF E, c, target
    <3> QED
      BY <1>2, <3>1, <3>2
  <2> HIDE DEF c
  <2> QED
    BY <2>2, <2>3 DEF IsMedian, c
<1>3. CASE Highest > 0
  <2>1. histogram_bar(0) = Accounts \ P
    <3>1. \A a \in Accounts : a \in histogram_bar(0) <=> Wants(a) = 0
      BY <1>3, WantsBar
    <3>2. histogram_bar(0) \subseteq Accounts
      BY DEF histogram_bar
    <3> QED
      BY <1>1, <3>1, <3>2
  <2>2. /\ Stake(f, P) \in Nat /\ Stake(f, Accounts) \in Nat /\ Stake(f, Accounts \ P) \in Nat
        /\ Stake(f, Accounts) = Stake(f, P) + Stake(f, Accounts \ P)
    <3>1. P \in SUBSET Accounts /\ Accounts \ P \in SUBSET Accounts
      OBVIOUS
    <3> HIDE DEF P
    <3>2. f \in Coins /\ Accounts \in SUBSET Accounts
      OBVIOUS
    <3> QED
      BY ONLY <3>1, <3>2, SumSubset DEF Stake
  <2>3. target = half
    <3> HIDE DEF P
    <3>0. Stake(f, histogram_bar(0)) = Stake(f, Accounts \ P)
      BY ONLY <2>1, Zenon
    <3>1. Stake(f, Accounts) - Stake(f, histogram_bar(0)) = Stake(f, P)
      BY <2>2, <3>0
    <3> QED
      BY <3>1
  <2>4. half \in Nat /\ 2 * half <= Stake(f, P) /\ Stake(f, P) < 2 * half + 2
    BY <2>2, Halves
  <2>5. CASE half = 0
    <3>1. c = 0
      <4> HIDE DEF P
      <4>1. target = 0
        BY <2>3, <2>5
      <4> QED
        BY <4>1 DEF witness_count
    <3> QED
      BY <2>5, <3>1 DEF IsMedian
  <2>6. CASE half # 0
    <3>1. /\ c \in 1 .. Highest
          /\ c = Highest \/ Stake(f, Bars(c)) > half
          /\ \A k \in 1 .. c - 1 : ~ (Stake(f, Bars(k)) > half)
      <4>1. half = (Stake(f, Accounts) - Stake(f, histogram_bar(0))) \div 2
        BY <2>3
      <4> HIDE DEF half
      <4> QED
        BY <1>3, <2>6, <4>1, CountEnds
    <3> DEFINE Less == {a \in P : Wants(a) < c}
               AtMost == {a \in P : Wants(a) <= c}
    <3> HIDE DEF c
    <3>2. Stake(f, Less) <= half
      <4>1. CASE c = 1
        <5>1. Less = {}
          BY <1>1, <4>1
        <5> HIDE DEF Less
        <5>2. Stake(f, Less) = 0
          BY <5>1, SumEmpty DEF Stake
        <5> HIDE DEF half
        <5> QED
          BY <2>4, <5>2
      <4>2. CASE c # 1
        <5>1. c - 1 \in 1 .. c - 1 /\ c - 1 \in Nat /\ c - 1 < Highest
          BY <1>1, <3>1, <4>2
        <5>2. Bars(c - 1) = {a \in Accounts : Wants(a) > 0 /\ Wants(a) <= c - 1}
          BY <5>1, BarsAre
        <5>3. Less = Bars(c - 1)
          BY <1>1, <3>1, <5>1, <5>2
        <5>4. ~ (Stake(f, Bars(c - 1)) > half)
          BY <3>1, <5>1
        <5>5. Stake(f, Bars(c - 1)) \in Nat
          <6>1. Bars(c - 1) \in SUBSET Accounts
            BY <5>2
          <6> QED
            BY <6>1, SumSubset DEF Stake
        <5> HIDE DEF Less, half
        <5> QED
          BY <2>4, <5>3, <5>4, <5>5
      <4> QED
        BY <4>1, <4>2
    <3>3. Stake(f, AtMost) > half
      <4>1. CASE c = Highest
        <5>1. AtMost = P
          BY <1>1, <4>1
        <5> HIDE DEF half, P, AtMost
        <5> QED
          BY <2>2, <2>4, <2>6, <5>1
      <4>2. CASE Stake(f, Bars(c)) > half
        <5>0. c \in Nat
          BY <1>1, <3>1
        <5>1. Bars(c) \subseteq {a \in Accounts : Wants(a) > 0 /\ Wants(a) <= c}
          BY <5>0, BarsAre
        <5>2. Bars(c) \in SUBSET AtMost /\ AtMost \in SUBSET Accounts
          BY <5>1
        <5> HIDE DEF AtMost
        <5>3. /\ Stake(f, Bars(c)) \in Nat /\ Stake(f, AtMost) \in Nat
              /\ Stake(f, Bars(c)) <= Stake(f, AtMost)
          BY <5>2, SumSubset DEF Stake
        <5> HIDE DEF half
        <5> QED
          BY <2>4, <4>2, <5>3
      <4> QED
        BY <3>1, <4>1, <4>2
    <3>4. c \in Nat
      BY <1>1, <3>1
    <3> QED
      BY <2>6, <3>2, <3>3, <3>4 DEF IsMedian, c
  <2> QED
    BY <2>5, <2>6
<1> QED
  BY <1>1, <1>2, <1>3

-----------------------------------------------------------------------------
(* The weights of the witnesses *)

LEMMA DivideOrder ==
    ASSUME NEW u \in Nat, NEW v \in Nat, u <= v, NEW p \in Nat, p > 0
    PROVE  u \div p <= v \div p
<1> DEFINE x == u \div p
           y == v \div p
<1>1. x \in Nat /\ y \in Nat /\ x * p <= u /\ v < y * p + p
  BY Division
<1> HIDE DEF x, y
<1>2. SUFFICES ASSUME y + 1 <= x PROVE FALSE
  BY <1>1 DEF x, y
<1>3. (y + 1) * p <= x * p
  BY <1>1, <1>2, Monotone
<1>4. (y + 1) * p = y * p + p /\ y * p \in Nat /\ x * p \in Nat
  BY <1>1, Product
<1> QED
  BY <1>1, <1>3, <1>4

LEMMA DivideBelow ==
    ASSUME NEW v \in Nat, NEW p \in Nat, p > 0, NEW q \in Nat, v < p * q
    PROVE  v \div p < q
<1> DEFINE x == v \div p
<1>1. x \in Nat /\ x * p <= v
  BY Division
<1> HIDE DEF x
<1>2. SUFFICES ASSUME q <= x PROVE FALSE
  BY <1>1 DEF x
<1>3. q * p <= x * p /\ q * p = p * q /\ x * p \in Nat /\ p * q \in Nat
  BY <1>1, <1>2, Monotone, Product
<1> QED
  BY <1>1, <1>3

(* Divided by a power of two that brings the largest to WeightBits bits *)
Shift(m) == IF m - WeightBits > 0 THEN m - WeightBits ELSE 0
AtLeastOne(v) == IF v > 1 THEN v ELSE 1

LEMMA ScaleFits ==
    ASSUME NEW mx \in Nat, mx > 0, NEW v \in Nat, v <= mx
    PROVE  /\ Shift(msb(mx)) \in Nat /\ v \div 2 ^ Shift(msb(mx)) \in Nat
           /\ AtLeastOne(v \div 2 ^ Shift(msb(mx))) \in 1 .. 2 ^ (WeightBits + 1) - 1
<1> DEFINE m == msb(mx)
           h == Shift(m)
           p == 2 ^ h
           q == 2 ^ (WeightBits + 1)
<1>1. WeightBits \in Nat
  BY MaintenanceAssumption
<1>2. m \in Nat /\ mx < 2 ^ (m + 1)
  BY MsbIs
<1> HIDE DEF m
<1>3. h \in Nat
  BY <1>1, <1>2 DEF Shift
<1> HIDE DEF h
<1>4. p \in Nat /\ p > 0 /\ q \in Nat /\ q > 1 /\ 2 ^ (m + 1) \in Nat
  <2>1. p \in Nat /\ p > h
    BY <1>3, PowerType
  <2>2. q \in Nat /\ q > WeightBits + 1
    BY <1>1, PowerType
  <2>3. 2 ^ (m + 1) \in Nat
    BY <1>2, PowerType
  <2> HIDE DEF p, q
  <2> QED
    BY <1>1, <1>3, <2>1, <2>2, <2>3
<1>5. v < p * q
  <2>1. CASE m - WeightBits > 0
    <3>1. h + (WeightBits + 1) = m + 1 /\ WeightBits + 1 \in Nat
      BY <1>1, <1>2, <2>1 DEF h, Shift
    <3>2. 2 ^ (m + 1) = p * q
      BY <1>3, <3>1, PowerSum
    <3> HIDE DEF p, q
    <3> QED
      BY <1>2, <1>4, <3>2
  <2>2. CASE ~ (m - WeightBits > 0)
    <3>1. h = 0
      BY <2>2 DEF h, Shift
    <3>2. p = 1
      BY <3>1, PowerZero
    <3> DEFINE d == WeightBits - m
    <3>3. d \in Nat /\ (m + 1) + d = WeightBits + 1 /\ m + 1 \in Nat
      BY <1>1, <1>2, <2>2
    <3> HIDE DEF d
    <3>4. q = 2 ^ (m + 1) * 2 ^ d /\ 2 ^ d \in Nat /\ 2 ^ d > d
      BY <3>3, PowerSum, PowerType
    <3> DEFINE x == 2 ^ (m + 1)
               y == 2 ^ d
    <3>5. x \in Nat /\ y \in Nat /\ y >= 1 /\ q = x * y /\ mx < x
      BY <1>2, <1>4, <3>3, <3>4
    <3> HIDE DEF x, y, p, q
    <3>6. 1 * x <= y * x /\ y * x = x * y
      BY <3>5, Monotone
    <3>7. x <= q
      BY <3>5, <3>6
    <3> QED
      BY <1>4, <3>2, <3>5, <3>7
  <2> QED
    BY <2>1, <2>2
<1> HIDE DEF p, q
<1>6. v \div p \in Nat /\ v \div p < q
  BY <1>4, <1>5, Division, DivideBelow
<1>7. AtLeastOne(v \div p) \in 1 .. q - 1
  BY <1>4, <1>6 DEF AtLeastOne
<1> QED
  BY <1>3, <1>6, <1>7 DEF m, h, p, q

(* A vote of witnesses of whom some have votes *)
LEMMA WeightsRule ==
    ASSUME NEW f \in Coins, NEW wits, IsFiniteSet(wits), NEW old, NEW voted,
           voted = {w \in wits : vote_tally(f, w) > 0}, voted # {}
    PROVE  LET auth == vote_counter(f, wits, old)
               all == SumFunction(auth.weights)
           IN  /\ DOMAIN auth.weights = voted
               /\ \A w, v \in voted :
                     /\ auth.weights[w] \in 1 .. 2 ^ (WeightBits + 1) - 1
                     /\ vote_tally(f, w) >= vote_tally(f, v) => auth.weights[w] >= auth.weights[v]
               /\ auth.threshold <= all /\ 2 * auth.threshold > all
<1> DEFINE V(w) == vote_tally(f, w)
           M == {V(w) : w \in voted}
           mx == Max(M)
           h == Shift(msb(mx))
           weights == [w \in voted |-> AtLeastOne(V(w) \div 2 ^ h)]
           auth == vote_counter(f, wits, old)
           all == SumFunction(weights)
<1>1. auth = [weights |-> weights, threshold |-> all \div 2 + 1]
  BY DEF vote_counter, Shift, AtLeastOne
<1>2. \A w : V(w) \in Nat /\ V(w) <= Stake(f, Accounts) /\ Stake(f, Accounts) \in Nat
  <2> TAKE w
  <2>1. {a \in Accounts : w \in opinion(a).votes} \in SUBSET Accounts
    OBVIOUS
  <2> QED
    BY <2>1, SumSubset DEF vote_tally, Stake
<1> HIDE DEF V
<1>3. mx \in M /\ \A i \in M : i <= mx
  <2>1. M \in SUBSET (0 .. Stake(f, Accounts)) /\ M # {} /\ Stake(f, Accounts) \in Nat
    BY <1>2
  <2> HIDE DEF M
  <2> QED
    BY <2>1, MaxFound
<1>4. mx \in Nat /\ mx > 0 /\ \A w \in voted : V(w) <= mx
  <2>1. \A w \in voted : V(w) > 0
    BY DEF V
  <2> HIDE DEF mx
  <2> QED
    BY <1>2, <1>3, <2>1
<1> HIDE DEF mx
<1>5. /\ h \in Nat
      /\ \A w \in voted : /\ V(w) \div 2 ^ h \in Nat
                          /\ AtLeastOne(V(w) \div 2 ^ h) \in 1 .. 2 ^ (WeightBits + 1) - 1
  BY <1>2, <1>4, ScaleFits
<1> HIDE DEF h
<1>6. 2 ^ h \in Nat /\ 2 ^ h > 0
  BY <1>5, PowerType
<1>7. DOMAIN weights = voted /\ \A w \in voted : weights[w] \in 1 .. 2 ^ (WeightBits + 1) - 1
  BY <1>5
<1>8. ASSUME NEW w \in voted, NEW v \in voted, V(w) >= V(v) PROVE weights[w] >= weights[v]
  <2>1. V(v) \div 2 ^ h <= V(w) \div 2 ^ h
    BY <1>2, <1>6, <1>8, DivideOrder
  <2>2. V(v) \div 2 ^ h \in Nat /\ V(w) \div 2 ^ h \in Nat
    BY <1>5
  <2> DEFINE x == V(v) \div 2 ^ h
             y == V(w) \div 2 ^ h
  <2> HIDE DEF x, y
  <2>3. AtLeastOne(y) >= AtLeastOne(x)
    BY <2>1, <2>2 DEF AtLeastOne, x, y
  <2> QED
    BY <2>3 DEF x, y
<1>9. 2 ^ (WeightBits + 1) \in Nat
  <2>1. WeightBits \in Nat
    BY MaintenanceAssumption
  <2> QED
    BY <2>1, PowerType
<1> HIDE DEF weights
<1>10. all \in Nat /\ all >= 1
  <2>1. IsFiniteSet(voted)
    BY FS_Subset
  <2>2. \A w \in voted : weights[w] \in Nat /\ weights[w] >= 1
    BY <1>7, <1>9
  <2>3. PICK e : e \in voted
    OBVIOUS
  <2>4. IsFiniteSet(voted \ {e})
    BY <2>1, FS_Subset
  <2>5. SumFunctionOnSet(weights, voted \ {e}) \in Nat
    BY <2>2, <2>4, SumType
  <2>6. SumFunctionOnSet(weights, voted) = weights[e] + SumFunctionOnSet(weights, voted \ {e})
    BY <2>1, <2>2, <2>3, SumRemove
  <2>7. all = SumFunctionOnSet(weights, voted)
    BY <1>7 DEF SumFunction
  <2> QED
    BY <2>2, <2>3, <2>5, <2>6, <2>7
<1> HIDE DEF all
<1>11. all \div 2 + 1 <= all /\ 2 * (all \div 2 + 1) > all
  BY <1>10, Halves
<1> HIDE DEF auth
<1>12. auth.weights = weights /\ auth.threshold = all \div 2 + 1
  BY <1>1
<1> QED
  BY <1>7, <1>8, <1>11, <1>12 DEF auth, all, V

-----------------------------------------------------------------------------
(* The election *)

LEMMA OptionsType ==
    ASSUME options \in [Accounts -> Opinions], NEW a \in Accounts
    PROVE  opinion(a).num_witness \in Nat
<1>1. options[a] \in Opinions
  OBVIOUS
<1>2. options[a].proxy \in Accounts
  BY <1>1 DEF Opinions
<1>3. options[options[a].proxy] \in Opinions
  BY <1>2
<1> QED
  BY <1>1, <1>3 DEF opinion, Opinions

LEMMA MaximumType ==
    ASSUME NEW p \in Range(Parameters)
    PROVE  p.maximum_witness_count \in Nat
<1> DEFINE R == [cashback_seconds : Nat, maximum_witness_count : Nat]
<1>1. Parameters \in Seq(R)
  BY MaintenanceAssumption
<1>2. PICK i \in DOMAIN Parameters : p = Parameters[i]
  BY DEF Range
<1>3. p \in R
  <2> HIDE DEF R
  <2> QED
    BY ONLY <1>1, <1>2
<1> QED
  BY <1>3

(* What a vote of the stake f elects *)
LEMMA Elected ==
    ASSUME NEW f \in Coins, NEW c \in Nat, NEW count, NEW wits, wits = sort_votable_objects(f, count),
           count = IF 2 * c + 1 > MinWitnesses THEN 2 * c + 1 ELSE MinWitnesses
    PROVE  /\ IsFiniteSet(wits)
           /\ \A w \in wits, v \in DOMAIN Candidates \ wits : vote_tally(f, w) >= vote_tally(f, v)
           /\ \/ Cardinality(wits) = 2 * c + 1
              \/ Cardinality(wits) = min(MinWitnesses, Len(Candidates)) /\ 2 * c + 1 <= MinWitnesses
              \/ wits = DOMAIN Candidates
<1> DEFINE D == DOMAIN Candidates
           T == [w \in D |-> vote_tally(f, w)]
<1>1. Candidates \in Seq(Accounts) /\ MinWitnesses \in Nat
  <2>1. {Threshold, PaySeconds, CycleRate, MinWitnesses, WeightBits} \subseteq Nat
    BY MaintenanceAssumption
  <2>2. MinWitnesses \in Nat
    BY ONLY <2>1
  <2> QED
    BY <2>2, MaintenanceAssumption
<1>2. D = 1 .. Len(Candidates) /\ Len(Candidates) \in Nat
  BY <1>1
<1>3. D \in SUBSET Nat /\ IsFiniteSet(D) /\ Cardinality(D) = Len(Candidates)
  <2> DEFINE n == Len(Candidates)
  <2>1. D = 1 .. n /\ n \in Nat
    BY <1>2
  <2> HIDE DEF D, n
  <2>2. IsFiniteSet(1 .. n) /\ Cardinality(1 .. n) = n /\ 1 .. n \in SUBSET Nat
    BY <2>1, FS_Interval
  <2> QED
    BY <2>1, <2>2 DEF n
<1>4. \A w \in D : T[w] \in Nat /\ T[w] = vote_tally(f, w)
  <2> TAKE w \in D
  <2>1. {a \in Accounts : w \in opinion(a).votes} \in SUBSET Accounts
    OBVIOUS
  <2>2. vote_tally(f, w) \in Nat
    BY <2>1, SumSubset DEF vote_tally, Stake
  <2> QED
    BY <2>2
<1> HIDE DEF T
<1>5. wits = FirstOf(T, D, count)
  <2>1. \A v, w \in D : before(f, v, w) <=> Ahead(T, v, w)
    BY <1>4 DEF before, Ahead
  <2>2. \A w \in D : {v \in D : before(f, v, w)} = AheadOf(T, D, w)
    BY <2>1 DEF AheadOf
  <2> QED
    BY <2>2 DEF sort_votable_objects, FirstOf, Rank
<1>6. count \in Nat /\ count >= MinWitnesses /\ (count = 2 * c + 1 \/ (count = MinWitnesses /\ 2 * c + 1 <= MinWitnesses))
  <2>1. MinWitnesses \in Nat /\ c \in Nat
    BY <1>1
  <2>2. CASE 2 * c + 1 > MinWitnesses
    <3>1. count = 2 * c + 1
      BY <2>2
    <3> QED
      BY ONLY <2>1, <2>2, <3>1
  <2>3. CASE ~ (2 * c + 1 > MinWitnesses)
    <3>1. count = MinWitnesses
      BY <2>3
    <3> QED
      BY ONLY <2>1, <2>3, <3>1
  <2> QED
    BY <2>2, <2>3
<1>7. wits \subseteq D /\ IsFiniteSet(wits)
  <2>1. wits \in SUBSET D
    BY <1>5 DEF FirstOf
  <2> QED
    BY <1>3, <2>1, FS_Subset
<1>8. ASSUME NEW w \in wits, NEW v \in D \ wits PROVE vote_tally(f, w) >= vote_tally(f, v)
  <2>1. T[w] >= T[v]
    BY <1>3, <1>4, <1>5, <1>6, <1>8, FrontHasMost
  <2> QED
    BY <1>4, <1>7, <1>8, <2>1
<1>9. IF count <= Cardinality(D) THEN Cardinality(wits) = count ELSE wits = D
  <2> HIDE DEF D
  <2>1. count \in Nat /\ \A i \in D : T[i] \in Nat
    BY ONLY <1>4, <1>6
  <2>2. IF count <= Cardinality(D) THEN Cardinality(FirstOf(T, D, count)) = count ELSE FirstOf(T, D, count) = D
    BY ONLY <1>3, <2>1, FrontCounts
  <2> QED
    BY ONLY <1>5, <2>2
<1>10. count <= Len(Candidates) /\ count = MinWitnesses => min(MinWitnesses, Len(Candidates)) = count
  BY <1>1, <1>2 DEF min
<1> HIDE DEF D
<1>11. \/ Cardinality(wits) = 2 * c + 1
       \/ Cardinality(wits) = min(MinWitnesses, Len(Candidates)) /\ 2 * c + 1 <= MinWitnesses
       \/ wits = D
  BY ONLY <1>3, <1>6, <1>9, <1>10
<1> QED
  BY <1>7, <1>8, <1>11 DEF D

(* A vote that has been held *)
Held(f) ==
    /\ active' = update_active_witnesses(f, active)
    /\ vote'.stake = f /\ vote'.count = witness_count(f) /\ vote'.max = params.maximum_witness_count
    /\ vote'.opinion = [a \in Accounts |-> opinion(a)]

LEMMA HeldFollows ==
    ASSUME NEW f \in Coins, options \in [Accounts -> Opinions], params \in Range(Parameters), Held(f)
    PROVE  ElectionFollowsStake'
<1> DEFINE c == witness_count(f)
           count == IF 2 * c + 1 > MinWitnesses THEN 2 * c + 1 ELSE MinWitnesses
           wits == sort_votable_objects(f, count)
           auth == vote_counter(f, wits, active.auth)
           voted == {w \in wits : vote_tally(f, w) > 0}
<1>1. params.maximum_witness_count \in Nat /\ \A a \in Accounts : opinion(a).num_witness \in Nat
  BY MaximumType, OptionsType
<1>2. IsMedian(f, c) /\ c \in Nat
  BY <1>1, CountsMedian
<1>3. active'.witnesses = wits /\ active'.auth = auth
  BY DEF Held, update_active_witnesses
<1>4. vote'.stake = f /\ vote'.count = c /\ \A a \in Accounts : Wanted(a)' = Wants(a)
  BY DEF Held, Wanted, Wants
<1>5. \A w : Votes(w)' = vote_tally(f, w)
  BY DEF Held, Votes, vote_tally
<1> HIDE DEF c
<1>6. /\ IsFiniteSet(wits)
      /\ \A w \in wits, v \in DOMAIN Candidates \ wits : vote_tally(f, w) >= vote_tally(f, v)
      /\ \/ Cardinality(wits) = 2 * c + 1
         \/ Cardinality(wits) = min(MinWitnesses, Len(Candidates)) /\ 2 * c + 1 <= MinWitnesses
         \/ wits = DOMAIN Candidates
  BY <1>2, Elected
<1> HIDE DEF wits
<1>7. CountIsMedian'
  <2> DEFINE P == {a \in Accounts : Wants(a) > 0}
             Q == {a \in Accounts : Wanted(a)' > 0}
  <2>1. P = Q
    BY <1>4
  <2>2. /\ {a \in P : Wants(a) < c} = {a \in Q : Wanted(a)' < c}
        /\ {a \in P : Wants(a) <= c} = {a \in Q : Wanted(a)' <= c}
    BY <1>4, <2>1
  <2>3. IF Stake(f, P) \div 2 = 0 THEN c = 0
        ELSE /\ Stake(f, {a \in P : Wants(a) < c}) <= Stake(f, P) \div 2
             /\ Stake(f, {a \in P : Wants(a) <= c}) > Stake(f, P) \div 2
    BY <1>2 DEF IsMedian
  <2>4. IF Stake(f, Q) \div 2 = 0 THEN c = 0
        ELSE /\ Stake(f, {a \in Q : Wanted(a)' < c}) <= Stake(f, Q) \div 2
             /\ Stake(f, {a \in Q : Wanted(a)' <= c}) > Stake(f, Q) \div 2
    <3> HIDE DEF P, Q
    <3> QED
      BY ONLY <2>1, <2>2, <2>3
  <2> QED
    BY <1>4, <2>4 DEF CountIsMedian, Stake
<1>8. (\E w \in active'.witnesses : Votes(w)' > 0) => MajorityRules'
  <2> SUFFICES ASSUME \E w \in wits : vote_tally(f, w) > 0 PROVE MajorityRules'
    BY <1>3, <1>5
  <2>1. voted # {}
    OBVIOUS
  <2>2. /\ DOMAIN auth.weights = voted
        /\ \A w, v \in voted :
              /\ auth.weights[w] \in 1 .. 2 ^ (WeightBits + 1) - 1
              /\ vote_tally(f, w) >= vote_tally(f, v) => auth.weights[w] >= auth.weights[v]
        /\ auth.threshold <= SumFunction(auth.weights) /\ 2 * auth.threshold > SumFunction(auth.weights)
    BY <1>6, <2>1, WeightsRule
  <2>3. voted = {w \in active'.witnesses : Votes(w)' > 0}
    BY <1>3, <1>5
  <2> HIDE DEF auth, voted
  <2> QED
    BY <1>3, <1>5, <2>2, <2>3 DEF MajorityRules
<1> QED
  BY <1>3, <1>4, <1>5, <1>6, <1>7, <1>8 DEF ElectionFollowsStake

(* A block holds a vote, with coins that the accounts have, or leaves the  *)
(* last one alone.                                                         *)
LEMMA BlockHolds ==
    ASSUME SupplyInv, NEW w \in active.witnesses, NEW gap \in 1 .. MaxGap, Block(w, gap)
    PROVE  UNCHANGED <<active, vote>> \/ \E f \in Coins : Held(f)
<1> DEFINE t == now + gap
           pay == min(dpo.witness_pay_per_block, dpo.witness_budget)
           l == deposit_witness_pay(led, Candidates[w], pay, t)
           d == [dpo EXCEPT !.witness_budget = @ - pay]
           done == perform_account_maintenance(l, t)
<1>1. now \in Nat /\ params.cashback_seconds \in Nat /\ active.witnesses \subseteq DOMAIN Candidates
  BY ParamsType DEF SupplyInv
<1>2. t \in Nat /\ now <= t
  BY <1>1, BudgetConstants
<1>3. Candidates[w] \in Accounts
  <2>1. Candidates \in Seq(Accounts)
    BY MaintenanceAssumption
  <2> QED
    BY <1>1, <2>1
<1>4. IF dpo.next_maintenance_time <= t THEN perform_chain_maintenance(l, d, t)
      ELSE UNCHANGED <<active, vote>>
  BY DEF Block
<1> HIDE DEF t
<1>5. Funded(l, d, t)
  BY <1>2, <1>3, BlockPays
<1> HIDE DEF l, d
<1>6. CASE dpo.next_maintenance_time <= t
  <2>1. done \in Counted(l, t)
    BY <1>1, <1>2, <1>5, AccountMaintenance DEF Funded
  <2>2. /\ active' = update_active_witnesses(done.stake, active)
        /\ vote' = [stake |-> done.stake, opinion |-> [a \in Accounts |-> opinion(a)],
                    max |-> params.maximum_witness_count,
                    count |-> witness_count(done.stake), supply |-> done.l.current_supply]
    BY <1>4, <1>6 DEF perform_chain_maintenance
  <2> HIDE DEF done
  <2>3. done.stake \in Coins
    BY <2>1 DEF Counted
  <2>4. Held(done.stake)
    BY <2>2 DEF Held
  <2> QED
    BY <2>3, <2>4
<1> QED
  BY <1>4, <1>6

ElectionInv == SupplyInv /\ options \in [Accounts -> Opinions] /\ ElectionFollowsStake

LEMMA ElectionKept ==
    ASSUME ElectionFollowsStake, UNCHANGED <<active, vote>>
    PROVE  ElectionFollowsStake'
<1>1. active' = active /\ vote' = vote
  OBVIOUS
<1>2. CountIsMedian' <=> CountIsMedian
  BY ONLY <1>1 DEF CountIsMedian, Wanted, Stake
<1>3. MajorityRules' <=> MajorityRules
  BY ONLY <1>1 DEF MajorityRules, Votes, Stake
<1>4. \A w : Votes(w)' = Votes(w)
  BY ONLY <1>1 DEF Votes, Stake
<1> QED
  BY <1>1, <1>2, <1>3, <1>4 DEF ElectionFollowsStake

LEMMA ElectionNext ==
    ASSUME ElectionInv, [Next]_vars
    PROVE  ElectionInv'
<1>0. /\ SupplyInv /\ SupplyInv' /\ options \in [Accounts -> Opinions] /\ ElectionFollowsStake
      /\ params \in Range(Parameters)
  BY SupplyNext DEF ElectionInv, SupplyInv
<1>1. ASSUME NEW w \in active.witnesses, NEW gap \in 1 .. MaxGap, Block(w, gap)
      PROVE  ElectionInv'
  <2>1. options' = options
    BY <1>1 DEF Block
  <2>2. ElectionFollowsStake'
    BY <1>0, <1>1, BlockHolds, HeldFollows, ElectionKept
  <2> QED
    BY <1>0, <2>1, <2>2 DEF ElectionInv
<1>2. ASSUME UNCHANGED <<active, vote>>, options' \in [Accounts -> Opinions] PROVE ElectionInv'
  BY <1>0, <1>2, ElectionKept DEF ElectionInv
<1>3. ASSUME NEW a \in Accounts, NEW o \in Options, account_update(a, o) PROVE ElectionInv'
  <2>1. o \in Opinions
    BY OptionsAssumption
  <2>2. UNCHANGED <<active, vote>> /\ options' = [options EXCEPT ![a] = o]
    BY <1>3 DEF account_update, Op
  <2>3. options' \in [Accounts -> Opinions]
    BY <1>0, <2>1, <2>2
  <2> QED
    BY <1>2, <2>2, <2>3
<1>4. ASSUME UNCHANGED <<active, vote, options>> PROVE ElectionInv'
  BY <1>0, <1>2, <1>4
<1>5. ASSUME NEW a \in Accounts \ Blockchain, NEW b \in Accounts \ Blockchain, NEW amount \in Amounts,
             NEW fee \in Fees, transfer(a, b, amount, fee)
      PROVE  ElectionInv'
  BY <1>4, <1>5 DEF transfer, Op
<1>6. ASSUME NEW id \in DOMAIN led.vbs, NEW amount \in Amounts, vesting_balance_withdraw(id, amount)
      PROVE  ElectionInv'
  BY <1>4, <1>6 DEF vesting_balance_withdraw, Op
<1>7. ASSUME NEW a \in Accounts \ Blockchain, NEW fee \in Fees, account_upgrade(a, fee)
      PROVE  ElectionInv'
  BY <1>4, <1>7 DEF account_upgrade, Op
<1>8. ASSUME NEW a \in Accounts, account_balance_migrate(a)
      PROVE  ElectionInv'
  BY <1>4, <1>8 DEF account_balance_migrate, Op
<1>9. ASSUME NEW p \in Range(Parameters), committee_member_update_global_parameters(p)
      PROVE  ElectionInv'
  BY <1>4, <1>9 DEF committee_member_update_global_parameters, Op
<1>10. CASE UNCHANGED vars
  BY <1>4, <1>10 DEF vars
<1> QED
  BY <1>1, <1>3, <1>5, <1>6, <1>7, <1>8, <1>9, <1>10 DEF Next

-----------------------------------------------------------------------------
(* The theorems *)

(* Whatever is transferred, withdrawn, upgraded, migrated, paid to         *)
(* witnesses, paid out as cashback or budgeted, the supply stays the sum   *)
(* of the coins that exist: no rounding of a share, of an interest or of a *)
(* budget makes or loses one.                                              *)
THEOREM SupplyTheorem == Spec => []SupplyAddsUp
<1>1. ASSUME SupplyInv
      PROVE  SupplyAddsUp
  <2>1. LedgerOK(led, now) /\ dpo.witness_budget \in Nat /\ Excess(led) = dpo.witness_budget
    BY <1>1 DEF SupplyInv, Funded, Budgets
  <2>2. /\ led.vbs \in Seq(VB) /\ led.current_supply \in Int /\ led.accumulated_fees \in Nat
        /\ SumFunction(led.balance) \in Nat /\ SumFunction(led.pending_fees) \in Nat
        /\ SumFunction(led.pending_vested_fees) \in Nat /\ Hold(led.vbs, Accounts) \in Nat
    BY <2>1, LedgerType, CoinsSum
  <2>3. SumFunction([id \in DOMAIN led.vbs |-> led.vbs[id].balance]) = Hold(led.vbs, Accounts)
    <3>1. Owned(led.vbs, Accounts) = DOMAIN led.vbs
      BY <2>2, VbsType DEF Owned
    <3>2. DOMAIN Bals(led.vbs) = DOMAIN led.vbs
      BY DEF Bals
    <3>3. SumFunction(Bals(led.vbs)) = Hold(led.vbs, Accounts)
      BY ONLY <3>1, <3>2 DEF SumFunction, Hold
    <3> QED
      BY <3>3 DEF Bals
  <2> QED
    BY <2>1, <2>2, <2>3 DEF SupplyAddsUp, Excess, Outside
<1> QED
  BY <1>1, SupplyInvariant, PTL

(* The supply stays within max_supply, and the budget of the witnesses is  *)
(* never overdrawn, however long the time between two blocks is, before    *)
(* and after the hard fork that closes the initial reserve.                *)
THEOREM CapTheorem == Spec => []SupplyCapped
<1>1. ASSUME SupplyInv
      PROVE  SupplyCapped
  BY <1>1 DEF SupplyInv, Funded, Budgets, SupplyCapped
<1> QED
  BY <1>1, SupplyInvariant, PTL

(* The stake counted in a maintenance is at most the supply, although fees *)
(* are paid into the vesting balances of accounts between two counts.      *)
THEOREM VoteTheorem == Spec => []NoCoinVotesTwice
<1>1. SupplyInv => NoCoinVotesTwice
  BY DEF SupplyInv
<1> QED
  BY <1>1, SupplyInvariant, PTL

(* After every maintenance the witnesses are those with the most stake     *)
(* behind them, in the number that the median of the stake wants, and      *)
(* their weights fit the type, follow the votes and need a majority: for   *)
(* any stakes, opinions, proxies and limits, although an opinion may ask   *)
(* for more witnesses than the parameters allow by now.                    *)
THEOREM ElectionTheorem == Spec => []ElectionFollowsStake
<1>1. Init => ElectionInv
  BY SupplyInit, OptionsAssumption DEF Init, ElectionInv, ElectionFollowsStake
<1>2. ElectionInv /\ [Next]_vars => ElectionInv'
  BY ElectionNext
<1>3. ElectionInv => ElectionFollowsStake
  BY DEF ElectionInv
<1> QED
  BY <1>1, <1>2, <1>3, PTL DEF Spec
=============================================================================
