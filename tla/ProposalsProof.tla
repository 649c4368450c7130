--------------------------- MODULE ProposalsProof ---------------------------
(***************************************************************************)
(* Proofs about Proposals and the check of authorities they rest on.  The  *)
(* keys and accounts of an authority, the operations of a proposal and the *)
(* expired proposals of a block are visited in folds: each is described by *)
(* the values it reaches position by position.                             *)
(***************************************************************************)
EXTENDS Proposals, AuthorityCheck, FoldTheorems

-----------------------------------------------------------------------------
(* The check of authorities.  Lists in the order of a flat_map. *)
LEMMA SortedType ==
    ASSUME NEW S, IsFiniteSet(S), S \subseteq Nat
    PROVE  /\ Cardinality(S) \in Nat /\ Sorted(S) \in [1 .. Cardinality(S) -> S] /\ Range(Sorted(S)) = S
           /\ \A i, j \in 1 .. Cardinality(S) : i < j => Sorted(S)[i] # Sorted(S)[j]
<1> DEFINE R == {p \in S \X S : p[1] < p[2]}
           q == Sorted(S)
<1>1. \A i, j \in S : i \in Nat /\ j \in Nat /\ (<<i, j>> \in R <=> i < j)
  OBVIOUS
<1> HIDE DEF R
<1>2. /\ \A i, j \in S : i # j => <<i, j>> \in R \/ <<j, i>> \in R
      /\ \A i, j, k \in S : <<i, j>> \in R /\ <<j, k>> \in R => <<i, k>> \in R
  BY <1>1
<1>3. PICK s \in [1 .. Cardinality(S) -> S] :
          Range(s) = S /\ \A i, j \in 1 .. Cardinality(S) : i < j => <<s[i], s[j]>> \in R
  BY <1>2, Listing
<1>4. Range(s) = S /\ \A i, j \in DOMAIN s : i < j => s[i] < s[j]
  BY <1>1, <1>3
<1>5. /\ q \in [1 .. Cardinality(S) -> S] /\ Range(q) = S
      /\ \A i, j \in DOMAIN q : i < j => q[i] < q[j]
  BY <1>4 DEF Sorted
<1> HIDE DEF q
<1>6. ASSUME NEW i \in 1 .. Cardinality(S), NEW j \in 1 .. Cardinality(S), i < j PROVE q[i] # q[j]
  <2>1. q[i] \in S /\ q[j] \in S /\ q[i] < q[j]
    BY <1>5, <1>6
  <2>2. q[i] \in Nat
    BY <2>1
  <2> QED
    BY <2>1, <2>2
<1> QED
  BY <1>5, <1>6, FS_CardinalityType DEF q

(* What a list has named so far, as far as it is in T. *)
Named(S, i, T) == {Sorted(S)[j] : j \in 1 .. i} \cap T

LEMMA NextOf ==
    ASSUME NEW S, IsFiniteSet(S), S \subseteq Nat, NEW f, \A x \in S : f[x] \in Nat,
           NEW T, NEW k \in 1 .. Cardinality(S)
    PROVE  /\ Sorted(S)[k] \in S /\ f[Sorted(S)[k]] \in Nat
           /\ SumFunctionOnSet(f, Named(S, k - 1, T)) \in Nat /\ SumFunctionOnSet(f, Named(S, k, T)) \in Nat
           /\ SumFunctionOnSet(f, Named(S, k, T)) =
                 SumFunctionOnSet(f, Named(S, k - 1, T)) + IF Sorted(S)[k] \in T THEN f[Sorted(S)[k]] ELSE 0
<1> DEFINE q    == Sorted(S)
           U(i) == Named(S, i, T)
           x    == q[k]
<1>1. /\ Cardinality(S) \in Nat /\ q \in [1 .. Cardinality(S) -> S]
      /\ \A i, j \in 1 .. Cardinality(S) : i < j => q[i] # q[j]
  BY SortedType
<1>2. x \in S /\ f[x] \in Nat
  BY <1>1
<1>3. \A j \in 1 .. k - 1 : j \in 1 .. Cardinality(S) /\ q[j] # x /\ q[j] \in S
  BY <1>1
<1> HIDE DEF q
<1>4. {q[j] : j \in 1 .. k} = {q[j] : j \in 1 .. k - 1} \cup {x}
  <2>1. \A j \in 1 .. k : j = k \/ j \in 1 .. k - 1
    BY <1>1
  <2>2. k \in 1 .. k /\ \A j \in 1 .. k - 1 : j \in 1 .. k
    BY <1>1
  <2> QED
    BY <2>1, <2>2
<1>5. x \notin U(k - 1) /\ U(k - 1) \subseteq S /\ U(k) = U(k - 1) \cup ({x} \cap T)
  BY <1>3, <1>4 DEF Named, q
<1> HIDE DEF U, x
<1>6. IsFiniteSet(U(k - 1)) /\ U(k) \subseteq S /\ IsFiniteSet(U(k))
  BY <1>2, <1>5, FS_Subset
<1>7. SumFunctionOnSet(f, U(k - 1)) \in Nat /\ SumFunctionOnSet(f, U(k)) \in Nat
  BY <1>5, <1>6, SumType
<1>8. CASE x \in T
  <2>1. x \in U(k) /\ U(k) \ {x} = U(k - 1)
    BY <1>5, <1>8
  <2>2. SumFunctionOnSet(f, U(k)) = f[x] + SumFunctionOnSet(f, U(k) \ {x})
    <3>1. \A y \in U(k) : f[y] \in Int
      <4>1. \A y \in S : f[y] \in Int
        OBVIOUS
      <4> QED
        BY <1>6, <4>1
    <3> QED
      BY ONLY <1>6, <2>1, <3>1, SumRemove
  <2>3. SumFunctionOnSet(f, U(k)) = SumFunctionOnSet(f, U(k - 1)) + f[x]
    BY <1>2, <1>7, <2>1, <2>2
  <2> QED
    BY <1>2, <1>7, <1>8, <2>3 DEF q, U, x
<1>9. CASE x \notin T
  <2>1. U(k) = U(k - 1)
    BY <1>5, <1>9
  <2> QED
    BY <1>2, <1>7, <1>9, <2>1 DEF q, U, x
<1> QED
  BY <1>8, <1>9

LEMMA AllOf ==
    ASSUME NEW S, IsFiniteSet(S), S \subseteq Nat, NEW T
    PROVE  Named(S, Cardinality(S), T) = S \cap T /\ Named(S, 0, T) = {}
<1>1. Sorted(S) \in [1 .. Cardinality(S) -> S] /\ Range(Sorted(S)) = S
  BY SortedType
<1> QED
  BY <1>1 DEF Range, Named

LEMMA AuthorityType ==
    ASSUME NEW au, IsAuthority(au)
    PROVE  /\ au.threshold \in Nat
           /\ IsFiniteSet(DOMAIN au.keys) /\ DOMAIN au.keys \subseteq Nat /\ DOMAIN au.keys \subseteq Keys
           /\ IsFiniteSet(DOMAIN au.accounts) /\ DOMAIN au.accounts \subseteq Nat /\ DOMAIN au.accounts \subseteq Accounts
           /\ \A k \in DOMAIN au.keys : au.keys[k] \in Nat
           /\ \A a \in DOMAIN au.accounts : au.accounts[a] \in Nat
<1>1. IsFiniteSet(DOMAIN au.accounts)
  BY AuthorityAssumption, FS_Subset DEF IsAuthority
<1> QED
  BY <1>1, AuthorityAssumption DEF IsAuthority

-----------------------------------------------------------------------------
(* The keys of an authority *)

KeyStep(au, r, k) ==
    IF r.total >= au.threshold \/ ~ signed_by(r.s, k) THEN r
    ELSE [total |-> r.total + au.keys[k], s |-> Mark(r.s, k)]

KeyResults == [total : Nat, s : SignStates]

LEMMA MarkType ==
    ASSUME NEW s \in SignStates, NEW k \in Keys
    PROVE  /\ Mark(s, k) \in SignStates /\ Mark(s, k).provided = s.provided \cup {k}
           /\ Mark(s, k).approved = s.approved /\ Mark(s, k).avail = s.avail
BY DEF Mark, SignStates

LEMMA KeyType ==
    ASSUME NEW au, IsAuthority(au), NEW r \in KeyResults, NEW k \in DOMAIN au.keys
    PROVE  KeyStep(au, r, k) \in KeyResults
<1>1. r.total \in Nat /\ r.s \in SignStates /\ k \in Keys /\ au.keys[k] \in Nat
  BY AuthorityType DEF KeyResults
<1>2. Mark(r.s, k) \in SignStates /\ r.total + au.keys[k] \in Nat
  BY <1>1, MarkType
<1> QED
  BY <1>2 DEF KeyStep, KeyResults

LEMMA KeySteps ==
    ASSUME NEW au, IsAuthority(au), NEW s \in SignStates
    PROVE  \E g : /\ g[{}] = [total |-> 0, s |-> s] /\ check_keys(au, s) = g[1 .. Cardinality(DOMAIN au.keys)]
                  /\ \A k \in 1 .. Cardinality(DOMAIN au.keys) : g[1 .. k] = KeyStep(au, g[1 .. k - 1], Sorted(DOMAIN au.keys)[k])
<1> DEFINE len  == Cardinality(DOMAIN au.keys)
           q    == Sorted(DOMAIN au.keys)
           A    == KeyResults
           base == [total |-> 0, s |-> s]
           F    == [p \in A \X (1 .. len) |-> KeyStep(au, p[1], q[p[2]])]
<1>1. len \in Nat /\ q \in [1 .. len -> DOMAIN au.keys] /\ DOMAIN q = 1 .. len
  BY AuthorityType, SortedType
<1>b. base \in A
  BY AuthorityType DEF KeyResults
<1>2. \A r \in A, i \in 1 .. len : KeyStep(au, r, q[i]) \in A /\ F[<<r, i>>] = KeyStep(au, r, q[i])
  BY <1>1, AuthorityType, KeyType
<1> HIDE DEF F, base, A
<1> DEFINE Eq(g) == g = [u \in SUBSET (1 .. len) |->
                           IF u = {} THEN base ELSE KeyStep(au, g[u \ {Max(u)}], q[Max(u)])]
<1>3. \E g : Eq(g)
  <2>1. PICK G : FoldSolves(G, F, A, base, len)
    BY <1>1, <1>2, <1>b, FoldSolution
  <2>2. G \in [SUBSET (1 .. len) -> A]
    BY <2>1 DEF FoldSolves
  <2>3. ASSUME NEW u \in SUBSET (1 .. len)
        PROVE  G[u] = IF u = {} THEN base ELSE KeyStep(au, G[u \ {Max(u)}], q[Max(u)])
    <3>1. CASE u # {}
      <4>1. Max(u) \in 1 .. len /\ G[u \ {Max(u)}] \in A
        BY <1>1, <2>2, <3>1, MaxUpTo
      <4> QED
        BY <1>2, <2>1, <3>1, <4>1 DEF FoldSolves
    <3> QED
      BY <2>1, <3>1 DEF FoldSolves
  <2>4. Eq(G)
    BY <2>2, <2>3
  <2> QED
    BY <2>4
<1> DEFINE g == CHOOSE g : Eq(g)
<1>4. check_keys(au, s) = g[1 .. len]
  BY <1>1 DEF check_keys, KeyStep, FoldLeft, MapThenFoldSet, base
<1>5. Eq(g)
  BY <1>3
<1> HIDE DEF g
<1>6. g[{}] = base
  BY <1>5
<1>7. ASSUME NEW k \in 1 .. len PROVE g[1 .. k] = KeyStep(au, g[1 .. k - 1], q[k])
  <2>1. 1 .. k \in SUBSET (1 .. len) /\ 1 .. k # {} /\ Max(1 .. k) = k /\ (1 .. k) \ {k} = 1 .. k - 1
    BY <1>1, Prefix
  <2> QED
    BY ONLY <1>5, <2>1
<1> QED
  BY <1>4, <1>6, <1>7 DEF base

(* What a check may know when the signatures are K and the accounts in S   *)
(* approve.                                                                *)
Sound(K, S) == {s \in SignStates : s.provided \subseteq K /\ s.avail = {} /\ s.approved \subseteq S}

(* The keys bring no more weight than those that have signed. *)
LEMMA KeysSound ==
    ASSUME NEW au, IsAuthority(au), NEW K, NEW S, NEW s \in Sound(K, S)
    PROVE  /\ check_keys(au, s).total \in Nat /\ check_keys(au, s).s \in Sound(K, S)
           /\ SumFunctionOnSet(au.keys, DOMAIN au.keys \cap K) \in Nat
           /\ check_keys(au, s).total <= SumFunctionOnSet(au.keys, DOMAIN au.keys \cap K)
<1> DEFINE D    == DOMAIN au.keys
           len  == Cardinality(D)
           q    == Sorted(D)
           W(i) == SumFunctionOnSet(au.keys, Named(D, i, K))
<1>1. IsFiniteSet(D) /\ D \subseteq Nat /\ D \subseteq Keys /\ \A k \in D : au.keys[k] \in Nat /\ au.threshold \in Nat
  BY AuthorityType
<1>2. len \in Nat
  BY <1>1, FS_CardinalityType
<1>3. s \in SignStates
  BY DEF Sound
<1>4. PICK g : /\ g[{}] = [total |-> 0, s |-> s] /\ check_keys(au, s) = g[1 .. len]
               /\ \A k \in 1 .. len : g[1 .. k] = KeyStep(au, g[1 .. k - 1], q[k])
  BY <1>3, KeySteps
<1>5. \A k \in 1 .. len : /\ q[k] \in D /\ au.keys[q[k]] \in Nat /\ W(k - 1) \in Nat /\ W(k) \in Nat
                          /\ W(k) = W(k - 1) + IF q[k] \in K THEN au.keys[q[k]] ELSE 0
  BY <1>1, NextOf
<1>6. W(0) = 0 /\ W(len) = SumFunctionOnSet(au.keys, D \cap K)
  BY <1>1, AllOf, SumEmpty
<1> HIDE DEF q
<1> DEFINE N == {k \in Nat : k <= len => /\ g[1 .. k].total \in Nat /\ g[1 .. k].s \in Sound(K, S)
                                          /\ W(k) \in Nat /\ g[1 .. k].total <= W(k)}
<1>7. 0 \in N
  <2>1. 1 .. 0 = {}
    OBVIOUS
  <2>2. g[1 .. 0] = [total |-> 0, s |-> s]
    BY <1>4, <2>1
  <2> HIDE DEF W
  <2> QED
    BY <1>6, <2>2
<1>8. ASSUME NEW k \in Nat, k \in N PROVE k + 1 \in N
  <2> SUFFICES ASSUME k + 1 <= len
               PROVE  /\ g[1 .. k + 1].total \in Nat /\ g[1 .. k + 1].s \in Sound(K, S)
                      /\ W(k + 1) \in Nat /\ g[1 .. k + 1].total <= W(k + 1)
    OBVIOUS
  <2> DEFINE r == g[1 .. k]
             x == q[k + 1]
  <2>1. k + 1 \in 1 .. len /\ (k + 1) - 1 = k /\ k <= len
    BY <1>2
  <2>2. r.total \in Nat /\ r.s \in Sound(K, S) /\ W(k) \in Nat /\ r.total <= W(k)
    BY <1>8, <2>1
  <2>3. g[1 .. k + 1] = KeyStep(au, r, x)
    BY <1>4, <2>1
  <2>4. x \in D /\ au.keys[x] \in Nat /\ W(k + 1) \in Nat /\ W(k + 1) = W(k) + IF x \in K THEN au.keys[x] ELSE 0
    BY <1>5, <2>1
  <2> HIDE DEF r, x, W
  <2>5. CASE r.total >= au.threshold \/ ~ signed_by(r.s, x)
    <3>1. g[1 .. k + 1] = r
      BY <2>3, <2>5 DEF KeyStep
    <3>2. r.total <= W(k + 1)
      BY <2>2, <2>4
    <3> QED
      BY <2>2, <2>4, <3>1, <3>2
  <2>6. CASE ~ (r.total >= au.threshold \/ ~ signed_by(r.s, x))
    <3>1. g[1 .. k + 1] = [total |-> r.total + au.keys[x], s |-> Mark(r.s, x)]
      BY <2>3, <2>6 DEF KeyStep
    <3>2. r.s \in SignStates /\ r.s.provided \subseteq K /\ r.s.avail = {} /\ r.s.approved \subseteq S
      BY <2>2 DEF Sound
    <3>3. x \in r.s.provided
      BY <2>6, <3>2 DEF signed_by
    <3>4. x \in Keys /\ x \in K
      BY <1>1, <2>4, <3>2, <3>3
    <3>5. Mark(r.s, x) \in Sound(K, S)
      BY <3>2, <3>4, MarkType DEF Sound
    <3> QED
      BY <2>2, <2>4, <3>1, <3>4, <3>5
  <2> QED
    BY <2>5, <2>6
<1>9. len \in N
  <2> HIDE DEF N
  <2> QED
    BY <1>2, <1>7, <1>8, SetInduction
<1>a. /\ g[1 .. len].total \in Nat /\ g[1 .. len].s \in Sound(K, S)
      /\ W(len) \in Nat /\ g[1 .. len].total <= W(len)
  BY <1>2, <1>9
<1> QED
  BY <1>4, <1>6, <1>a

-----------------------------------------------------------------------------
(* The accounts of an authority *)

Verdicts == [ok : BOOLEAN, s : SignStates]

AccountStep(au, left, deeper, r, a) ==
    LET c == deeper[a][r.s]
        add(s) == [r EXCEPT !.total = @ + au.accounts[a], !.s = s]
    IN  IF r.stop \/ r.total >= au.threshold THEN r
        ELSE IF a \in r.s.approved THEN add(r.s)
        ELSE IF left = 0 THEN [r EXCEPT !.stop = TRUE]
        ELSE IF c.ok THEN add(Approve(c.s, a))
        ELSE [r EXCEPT !.s = c.s]

AccountResults == [total : Nat, s : SignStates, stop : BOOLEAN]

(* What is looked up one level deeper. *)
Looks(left, deeper) == left = 0 \/ \A a \in Accounts, s \in SignStates : deeper[a][s] \in Verdicts

(* The cases of a step: nothing happens, the account has approved, the     *)
(* depth ends the check, the account approves or does not.                 *)
Outcome(au, left, deeper, r, a, x) ==
    \/ (r.stop \/ r.total >= au.threshold) /\ x = r
    \/ a \in r.s.approved /\ x = [total |-> r.total + au.accounts[a], s |-> r.s, stop |-> r.stop]
    \/ left = 0 /\ x = [total |-> r.total, s |-> r.s, stop |-> TRUE]
    \/ /\ left # 0 /\ deeper[a][r.s].ok
       /\ x = [total |-> r.total + au.accounts[a], s |-> Approve(deeper[a][r.s].s, a), stop |-> r.stop]
    \/ /\ left # 0 /\ a \notin r.s.approved /\ ~ deeper[a][r.s].ok
       /\ x = [total |-> r.total, s |-> deeper[a][r.s].s, stop |-> r.stop]

LEMMA AccountCases ==
    ASSUME NEW au, NEW left, NEW deeper, NEW r \in AccountResults, NEW a
    PROVE  Outcome(au, left, deeper, r, a, AccountStep(au, left, deeper, r, a))
BY DEF Outcome, AccountStep, AccountResults

LEMMA ApproveType ==
    ASSUME NEW s \in SignStates, NEW a \in Accounts
    PROVE  /\ Approve(s, a) \in SignStates /\ Approve(s, a).approved = s.approved \cup {a}
           /\ Approve(s, a).provided = s.provided /\ Approve(s, a).avail = s.avail
BY DEF Approve, SignStates

LEMMA AccountType ==
    ASSUME NEW au, IsAuthority(au), NEW left, NEW deeper, Looks(left, deeper),
           NEW r \in AccountResults, NEW a \in DOMAIN au.accounts
    PROVE  AccountStep(au, left, deeper, r, a) \in AccountResults
<1> DEFINE x == AccountStep(au, left, deeper, r, a)
<1>1. r.total \in Nat /\ r.s \in SignStates /\ r.stop \in BOOLEAN /\ a \in Accounts /\ au.accounts[a] \in Nat
  BY AuthorityType DEF AccountResults
<1>2. r.total + au.accounts[a] \in Nat
  BY <1>1
<1>3. left # 0 => deeper[a][r.s].s \in SignStates
  BY <1>1 DEF Looks, Verdicts
<1>4. left # 0 => Approve(deeper[a][r.s].s, a) \in SignStates
  BY <1>1, <1>3, ApproveType
<1>5. Outcome(au, left, deeper, r, a, x)
  BY AccountCases
<1> SUFFICES x \in AccountResults
  OBVIOUS
<1> HIDE DEF x
<1>6. CASE x = r
  BY <1>6
<1>7. CASE x = [total |-> r.total + au.accounts[a], s |-> r.s, stop |-> r.stop]
  BY <1>1, <1>2, <1>7 DEF AccountResults
<1>9. CASE x = [total |-> r.total, s |-> r.s, stop |-> TRUE]
  BY <1>1, <1>9 DEF AccountResults
<1>10. CASE left # 0 /\ x = [total |-> r.total + au.accounts[a], s |-> Approve(deeper[a][r.s].s, a), stop |-> r.stop]
  BY <1>1, <1>2, <1>4, <1>10 DEF AccountResults
<1>11. CASE left # 0 /\ x = [total |-> r.total, s |-> deeper[a][r.s].s, stop |-> r.stop]
  BY <1>1, <1>3, <1>11 DEF AccountResults
<1> QED
  BY <1>5, <1>6, <1>7, <1>9, <1>10, <1>11 DEF Outcome

LEMMA AccountSteps ==
    ASSUME NEW au, IsAuthority(au), NEW left, NEW deeper, Looks(left, deeper), NEW kr \in KeyResults
    PROVE  \E g :
             /\ g[{}] = [total |-> kr.total, s |-> kr.s, stop |-> FALSE]
             /\ check_accounts(au, left, deeper, kr) =
                  [ok |-> g[1 .. Cardinality(DOMAIN au.accounts)].total >= au.threshold,
                   s  |-> g[1 .. Cardinality(DOMAIN au.accounts)].s]
             /\ \A k \in 1 .. Cardinality(DOMAIN au.accounts) :
                  g[1 .. k] = AccountStep(au, left, deeper, g[1 .. k - 1], Sorted(DOMAIN au.accounts)[k])
<1> DEFINE len  == Cardinality(DOMAIN au.accounts)
           q    == Sorted(DOMAIN au.accounts)
           A    == AccountResults
           base == [total |-> kr.total, s |-> kr.s, stop |-> FALSE]
           F    == [p \in A \X (1 .. len) |-> AccountStep(au, left, deeper, p[1], q[p[2]])]
<1>1. len \in Nat /\ q \in [1 .. len -> DOMAIN au.accounts] /\ DOMAIN q = 1 .. len
  BY AuthorityType, SortedType
<1>b. base \in A
  BY AuthorityType DEF AccountResults, KeyResults
<1>2. \A r \in A, i \in 1 .. len :
        AccountStep(au, left, deeper, r, q[i]) \in A /\ F[<<r, i>>] = AccountStep(au, left, deeper, r, q[i])
  BY <1>1, AuthorityType, AccountType
<1> HIDE DEF F, base, A
<1> DEFINE Eq(g) == g = [u \in SUBSET (1 .. len) |->
                           IF u = {} THEN base ELSE AccountStep(au, left, deeper, g[u \ {Max(u)}], q[Max(u)])]
<1>3. \E g : Eq(g)
  <2>1. PICK G : FoldSolves(G, F, A, base, len)
    BY <1>1, <1>2, <1>b, FoldSolution
  <2>2. G \in [SUBSET (1 .. len) -> A]
    BY <2>1 DEF FoldSolves
  <2>3. ASSUME NEW u \in SUBSET (1 .. len)
        PROVE  G[u] = IF u = {} THEN base ELSE AccountStep(au, left, deeper, G[u \ {Max(u)}], q[Max(u)])
    <3>1. CASE u # {}
      <4>1. Max(u) \in 1 .. len /\ G[u \ {Max(u)}] \in A
        BY <1>1, <2>2, <3>1, MaxUpTo
      <4> QED
        BY <1>2, <2>1, <3>1, <4>1 DEF FoldSolves
    <3> QED
      BY <2>1, <3>1 DEF FoldSolves
  <2>4. Eq(G)
    BY <2>2, <2>3
  <2> QED
    BY <2>4
<1> DEFINE g == CHOOSE g : Eq(g)
<1>4. check_accounts(au, left, deeper, kr) = [ok |-> g[1 .. len].total >= au.threshold, s |-> g[1 .. len].s]
  BY <1>1 DEF check_accounts, Totalled, AccountStep, FoldLeft, MapThenFoldSet, base
<1>5. Eq(g)
  BY <1>3
<1> HIDE DEF g
<1>6. g[{}] = base
  BY <1>5
<1>7. ASSUME NEW k \in 1 .. len PROVE g[1 .. k] = AccountStep(au, left, deeper, g[1 .. k - 1], q[k])
  <2>1. 1 .. k \in SUBSET (1 .. len) /\ 1 .. k # {} /\ Max(1 .. k) = k /\ (1 .. k) \ {k} = 1 .. k - 1
    BY <1>1, Prefix
  <2> QED
    BY ONLY <1>5, <2>1
<1> QED
  BY <1>4, <1>6, <1>7 DEF base

LEMMA KeysType ==
    ASSUME NEW au, IsAuthority(au), NEW s \in SignStates
    PROVE  check_keys(au, s) \in KeyResults
<1> DEFINE D   == DOMAIN au.keys
           len == Cardinality(D)
<1>1. len \in Nat /\ Sorted(D) \in [1 .. len -> D]
  BY AuthorityType, SortedType
<1>2. PICK g : /\ g[{}] = [total |-> 0, s |-> s] /\ check_keys(au, s) = g[1 .. len]
               /\ \A k \in 1 .. len : g[1 .. k] = KeyStep(au, g[1 .. k - 1], Sorted(D)[k])
  BY KeySteps
<1>3. g[{}] \in KeyResults
  BY <1>2 DEF KeyResults
<1>4. \A k \in 1 .. len : g[1 .. k - 1] \in KeyResults => g[1 .. k] \in KeyResults
  BY <1>1, <1>2, KeyType
<1> QED
  BY <1>1, <1>2, <1>3, <1>4, FoldStays

LEMMA AccountsType ==
    ASSUME NEW au, IsAuthority(au), NEW left, NEW deeper, Looks(left, deeper), NEW kr \in KeyResults
    PROVE  check_accounts(au, left, deeper, kr) \in Verdicts
<1> DEFINE D   == DOMAIN au.accounts
           len == Cardinality(D)
<1>1. len \in Nat /\ Sorted(D) \in [1 .. len -> D] /\ au.threshold \in Nat
  BY AuthorityType, SortedType
<1>2. PICK g : /\ g[{}] = [total |-> kr.total, s |-> kr.s, stop |-> FALSE]
               /\ check_accounts(au, left, deeper, kr) = [ok |-> g[1 .. len].total >= au.threshold, s |-> g[1 .. len].s]
               /\ \A k \in 1 .. len : g[1 .. k] = AccountStep(au, left, deeper, g[1 .. k - 1], Sorted(D)[k])
  BY AccountSteps
<1>3. g[{}] \in AccountResults
  BY <1>2 DEF KeyResults, AccountResults
<1>4. \A k \in 1 .. len : g[1 .. k - 1] \in AccountResults => g[1 .. k] \in AccountResults
  BY <1>1, <1>2, AccountType
<1>5. g[1 .. len] \in AccountResults
  BY <1>1, <1>3, <1>4, FoldStays
<1>6. g[1 .. len].s \in SignStates /\ (g[1 .. len].total >= au.threshold) \in BOOLEAN
  BY <1>5 DEF AccountResults
<1> QED
  BY <1>2, <1>6 DEF Verdicts

(* What is found one level deeper is sound. *)
LooksSound(K, S, left, deeper) ==
    left = 0 \/ \A a \in Accounts, s \in Sound(K, S) : deeper[a][s].s \in Sound(K, S) /\ (deeper[a][s].ok => a \in S)

(* The accounts bring no more weight than those that approve. *)
LEMMA AccountsSound ==
    ASSUME NEW au, IsAuthority(au), NEW left, NEW deeper, Looks(left, deeper), NEW K, NEW S, LooksSound(K, S, left, deeper),
           NEW kr \in KeyResults, kr.s \in Sound(K, S),
           SumFunctionOnSet(au.keys, DOMAIN au.keys \cap K) \in Nat,
           kr.total <= SumFunctionOnSet(au.keys, DOMAIN au.keys \cap K)
    PROVE  /\ check_accounts(au, left, deeper, kr).s \in Sound(K, S)
           /\ check_accounts(au, left, deeper, kr).ok => Satisfies(au, K, S)
<1> DEFINE D    == DOMAIN au.accounts
           len  == Cardinality(D)
           q    == Sorted(D)
           W(i) == SumFunctionOnSet(au.accounts, Named(D, i, S))
           V    == SumFunctionOnSet(au.keys, DOMAIN au.keys \cap K)
<1>1. /\ IsFiniteSet(D) /\ D \subseteq Nat /\ D \subseteq Accounts /\ \A a \in D : au.accounts[a] \in Nat
      /\ au.threshold \in Nat
  BY AuthorityType
<1>2. len \in Nat /\ q \in [1 .. len -> D]
  BY <1>1, SortedType
<1>3. PICK g : /\ g[{}] = [total |-> kr.total, s |-> kr.s, stop |-> FALSE]
               /\ check_accounts(au, left, deeper, kr) = [ok |-> g[1 .. len].total >= au.threshold, s |-> g[1 .. len].s]
               /\ \A k \in 1 .. len : g[1 .. k] = AccountStep(au, left, deeper, g[1 .. k - 1], q[k])
  BY AccountSteps
<1>5. \A k \in 1 .. len : /\ q[k] \in D /\ au.accounts[q[k]] \in Nat /\ W(k - 1) \in Nat /\ W(k) \in Nat
                          /\ W(k) = W(k - 1) + IF q[k] \in S THEN au.accounts[q[k]] ELSE 0
  BY <1>1, NextOf
<1>6. W(0) = 0 /\ W(len) = SumFunctionOnSet(au.accounts, D \cap S)
  BY <1>1, AllOf, SumEmpty
<1>v. V \in Nat /\ kr.total \in Nat /\ kr.total <= V
  BY DEF KeyResults
<1> HIDE DEF q, V
<1> DEFINE N == {k \in Nat : k <= len => /\ g[1 .. k] \in AccountResults /\ g[1 .. k].s \in Sound(K, S)
                                          /\ W(k) \in Nat /\ g[1 .. k].total <= V + W(k)}
<1>7. 0 \in N
  <2>1. 1 .. 0 = {}
    OBVIOUS
  <2>2. g[1 .. 0] = [total |-> kr.total, s |-> kr.s, stop |-> FALSE]
    BY <1>3, <2>1
  <2> HIDE DEF W
  <2>3. g[1 .. 0] \in AccountResults /\ g[1 .. 0].s \in Sound(K, S)
    BY <2>2 DEF AccountResults, KeyResults
  <2>4. W(0) \in Nat /\ g[1 .. 0].total <= V + W(0)
    BY <1>6, <1>v, <2>2
  <2> QED
    BY <2>3, <2>4
<1>8. ASSUME NEW k \in Nat, k \in N PROVE k + 1 \in N
  <2> SUFFICES ASSUME k + 1 <= len
               PROVE  /\ g[1 .. k + 1] \in AccountResults /\ g[1 .. k + 1].s \in Sound(K, S)
                      /\ W(k + 1) \in Nat /\ g[1 .. k + 1].total <= V + W(k + 1)
    OBVIOUS
  <2> DEFINE r == g[1 .. k]
             x == q[k + 1]
             y == g[1 .. k + 1]
             w == au.accounts[x]
             d == deeper[x][r.s]
  <2>1. k + 1 \in 1 .. len /\ (k + 1) - 1 = k /\ k <= len
    BY <1>2
  <2>2. r \in AccountResults /\ r.s \in Sound(K, S) /\ W(k) \in Nat /\ r.total <= V + W(k)
    BY <1>8, <2>1
  <2>3. y = AccountStep(au, left, deeper, r, x)
    BY <1>3, <2>1
  <2>4. x \in D /\ x \in Accounts /\ w \in Nat /\ W(k + 1) \in Nat /\ W(k + 1) = W(k) + IF x \in S THEN w ELSE 0
    BY <1>1, <1>5, <2>1
  <2> HIDE DEF r, x, y, W
  <2>5. y \in AccountResults
    BY <2>2, <2>3, <2>4, AccountType
  <2>6. Outcome(au, left, deeper, r, x, y)
    BY <2>2, <2>3, AccountCases
  <2>7. left # 0 => d.s \in Sound(K, S) /\ (d.ok => x \in S)
    BY <2>2, <2>4 DEF LooksSound
  <2>8. ASSUME left # 0, d.ok PROVE Approve(d.s, x) \in Sound(K, S)
    <3>1. d.s \in Sound(K, S) /\ x \in S
      BY <2>7, <2>8
    <3> HIDE DEF d
    <3>2. d.s \in SignStates /\ d.s.provided \subseteq K /\ d.s.avail = {} /\ d.s.approved \subseteq S
      BY <3>1 DEF Sound
    <3> QED
      BY <2>4, <3>1, <3>2, ApproveType DEF Sound
  <2>9. x \in r.s.approved => x \in S
    BY <2>2 DEF Sound
  <2> HIDE DEF d, w
  <2>a. r.total \in Nat
    BY <2>2 DEF AccountResults
  <2>b. r.total <= V + W(k + 1) /\ (x \in S => r.total + w <= V + W(k + 1))
    BY <1>v, <2>2, <2>4, <2>a
  <2>o. \/ y = r
        \/ x \in r.s.approved /\ y = [total |-> r.total + w, s |-> r.s, stop |-> r.stop]
        \/ y = [total |-> r.total, s |-> r.s, stop |-> TRUE]
        \/ left # 0 /\ d.ok /\ y = [total |-> r.total + w, s |-> Approve(d.s, x), stop |-> r.stop]
        \/ left # 0 /\ y = [total |-> r.total, s |-> d.s, stop |-> r.stop]
    BY <2>6 DEF Outcome, d, w
  <2>c. y.s \in Sound(K, S) /\ y.total <= V + W(k + 1)
    BY ONLY <2>2, <2>o, <2>7, <2>8, <2>9, <2>b
  <2> QED
    BY <2>4, <2>5, <2>c DEF y
<1>9. len \in N
  <2> HIDE DEF N
  <2> QED
    BY <1>2, <1>7, <1>8, SetInduction
<1>a. /\ g[1 .. len] \in AccountResults /\ g[1 .. len].s \in Sound(K, S)
      /\ W(len) \in Nat /\ g[1 .. len].total <= V + W(len)
  BY <1>2, <1>9
<1>b. g[1 .. len].total \in Nat
  BY <1>a DEF AccountResults
<1> HIDE DEF W
<1>c. g[1 .. len].total >= au.threshold => V + W(len) >= au.threshold
  BY <1>1, <1>a, <1>b, <1>v
<1>d. Satisfies(au, K, S) <=> V + W(len) >= au.threshold
  BY <1>6 DEF Satisfies, Weight, V
<1>e. /\ check_accounts(au, left, deeper, kr).s = g[1 .. len].s
      /\ check_accounts(au, left, deeper, kr).ok = (g[1 .. len].total >= au.threshold)
  <2> DEFINE b == g[1 .. len].total >= au.threshold
  <2>1. check_accounts(au, left, deeper, kr) = [ok |-> b, s |-> g[1 .. len].s]
    BY <1>3
  <2> HIDE DEF b
  <2>2. check_accounts(au, left, deeper, kr).s = g[1 .. len].s /\ check_accounts(au, left, deeper, kr).ok = b
    BY <2>1
  <2> QED
    BY <2>2 DEF b
<1> QED
  BY <1>a, <1>c, <1>d, <1>e

-----------------------------------------------------------------------------
(* Level by level *)

Levels(acct, check, n) ==
    check = [left \in 0 .. n |-> check_actives(acct, left, IF left = 0 THEN <<>> ELSE check[left - 1])]

LEMMA LevelsExist ==
    ASSUME NEW acct, NEW n \in Nat
    PROVE  \E check : Levels(acct, check, n)
<1> DEFINE N == {m \in Nat : \E check : Levels(acct, check, m)}
<1>1. 0 \in N
  <2> DEFINE c == [left \in 0 .. 0 |-> check_actives(acct, 0, <<>>)]
  <2>1. Levels(acct, c, 0)
    BY DEF Levels
  <2> QED
    BY <2>1
<1>2. ASSUME NEW m \in Nat, m \in N PROVE m + 1 \in N
  <2>1. PICK c : Levels(acct, c, m)
    BY <1>2
  <2> DEFINE d == [left \in 0 .. m + 1 |-> IF left <= m THEN c[left] ELSE check_actives(acct, left, c[m])]
  <2>2. \A left \in 0 .. m : c[left] = check_actives(acct, left, IF left = 0 THEN <<>> ELSE c[left - 1])
    BY <2>1 DEF Levels
  <2>3. ASSUME NEW left \in 0 .. m + 1
        PROVE  d[left] = check_actives(acct, left, IF left = 0 THEN <<>> ELSE d[left - 1])
    <3>1. CASE left <= m
      <4>1. left \in 0 .. m /\ d[left] = c[left] /\ (left # 0 => d[left - 1] = c[left - 1])
        BY <3>1
      <4> HIDE DEF d
      <4> QED
        BY <2>2, <4>1
    <3>2. CASE ~ (left <= m)
      <4>1. left = m + 1 /\ left # 0 /\ left - 1 = m /\ d[left] = check_actives(acct, left, c[m]) /\ d[m] = c[m]
        BY <3>2
      <4> HIDE DEF d
      <4> QED
        BY <4>1
    <3> QED
      BY <3>1, <3>2
  <2>4. d = [left \in 0 .. m + 1 |-> d[left]]
    OBVIOUS
  <2> HIDE DEF d
  <2>5. Levels(acct, d, m + 1)
    BY <2>3, <2>4 DEF Levels
  <2> QED
    BY <2>5
<1> HIDE DEF N
<1>3. n \in N
  BY <1>1, <1>2, SetInduction
<1> QED
  BY <1>3 DEF N

LEMMA BelowLevels ==
    ASSUME NEW acct
    PROVE  \E check : Levels(acct, check, MaxDepth) /\ \A n \in 0 .. MaxDepth : below(acct, n) = check[n]
<1> DEFINE c == CHOOSE check : Levels(acct, check, MaxDepth)
<1>1. Levels(acct, c, MaxDepth)
  BY LevelsExist, AuthorityAssumption
<1>a. MaxDepth \in Nat
  BY AuthorityAssumption
<1>2. \A n \in 0 .. MaxDepth : below(acct, n) = c[n]
  BY <1>a DEF below, Levels
<1> QED
  BY <1>1, <1>2

(* S holds the accounts that may approve: it is closed. *)
Closed(acct, K, S) == \A a \in Accounts : Satisfies(acct[a].active, K, S) => a \in S

LEMMA LevelSound ==
    ASSUME NEW acct, IsGraph(acct), NEW K, NEW S, Closed(acct, K, S),
           NEW left, NEW next, Looks(left, next), LooksSound(K, S, left, next)
    PROVE  /\ \A a \in Accounts, s \in SignStates : check_actives(acct, left, next)[a][s] \in Verdicts
           /\ \A a \in Accounts, s \in Sound(K, S) :
                 /\ check_actives(acct, left, next)[a][s].s \in Sound(K, S)
                 /\ check_actives(acct, left, next)[a][s].ok => a \in S
<1> DEFINE V(a, s) == check_accounts(acct[a].active, left, next, check_keys(acct[a].active, s))
<1>1. \A a \in Accounts, s \in SignStates : check_actives(acct, left, next)[a][s] = V(a, s)
  BY DEF check_actives
<1>2. ASSUME NEW a \in Accounts, NEW s \in SignStates PROVE V(a, s) \in Verdicts
  <2>1. IsAuthority(acct[a].active)
    BY DEF IsGraph
  <2>2. check_keys(acct[a].active, s) \in KeyResults
    BY <2>1, KeysType
  <2> QED
    BY <2>1, <2>2, AccountsType
<1>3. ASSUME NEW a \in Accounts, NEW s \in Sound(K, S)
      PROVE  V(a, s).s \in Sound(K, S) /\ (V(a, s).ok => a \in S)
  <2> DEFINE au == acct[a].active
             kr == check_keys(au, s)
  <2>1. IsAuthority(au) /\ s \in SignStates
    BY DEF IsGraph, Sound
  <2>2. kr \in KeyResults
    BY <2>1, KeysType
  <2>3. /\ kr.s \in Sound(K, S) /\ SumFunctionOnSet(au.keys, DOMAIN au.keys \cap K) \in Nat
        /\ kr.total <= SumFunctionOnSet(au.keys, DOMAIN au.keys \cap K)
    BY <2>1, KeysSound
  <2>4. /\ check_accounts(au, left, next, kr).s \in Sound(K, S)
        /\ check_accounts(au, left, next, kr).ok => Satisfies(au, K, S)
    <3> HIDE DEF kr, au
    <3> QED
      BY <2>1, <2>2, <2>3, AccountsSound
  <2> QED
    BY <2>4 DEF Closed
<1> HIDE DEF V
<1>4. \A s \in Sound(K, S) : s \in SignStates
  BY DEF Sound
<1> QED
  BY <1>1, <1>2, <1>3, <1>4

LEMMA BelowSound ==
    ASSUME NEW acct, IsGraph(acct), NEW K, NEW S, Closed(acct, K, S)
    PROVE  Looks(MaxDepth, below(acct, MaxDepth - 1)) /\ LooksSound(K, S, MaxDepth, below(acct, MaxDepth - 1))
<1>1. PICK c : Levels(acct, c, MaxDepth) /\ \A n \in 0 .. MaxDepth : below(acct, n) = c[n]
  BY BelowLevels
<1>2. MaxDepth \in Nat
  BY AuthorityAssumption
<1>3. \A n \in 0 .. MaxDepth : c[n] = check_actives(acct, n, IF n = 0 THEN <<>> ELSE c[n - 1])
  BY <1>1 DEF Levels
<1> DEFINE Good(d) == /\ \A a \in Accounts, s \in SignStates : d[a][s] \in Verdicts
                      /\ \A a \in Accounts, s \in Sound(K, S) : d[a][s].s \in Sound(K, S) /\ (d[a][s].ok => a \in S)
           N == {n \in Nat : n <= MaxDepth => Good(c[n])}
<1>4. 0 \in N
  <2>1. c[0] = check_actives(acct, 0, <<>>)
    BY <1>2, <1>3
  <2>2. Looks(0, <<>>) /\ LooksSound(K, S, 0, <<>>)
    BY DEF Looks, LooksSound
  <2>3. Good(check_actives(acct, 0, <<>>))
    BY <2>2, LevelSound
  <2> QED
    BY <2>1, <2>3
<1>5. ASSUME NEW n \in Nat, n \in N PROVE n + 1 \in N
  <2> SUFFICES ASSUME n + 1 <= MaxDepth PROVE Good(c[n + 1])
    <3> HIDE DEF Good
    <3> QED
      BY DEF N
  <2>1. n + 1 \in 0 .. MaxDepth /\ n + 1 # 0 /\ (n + 1) - 1 = n /\ n <= MaxDepth
    BY <1>2
  <2>2. c[n + 1] = check_actives(acct, n + 1, c[n])
    BY <1>3, <2>1
  <2>3. Good(c[n])
    BY <1>5, <2>1
  <2>4. Looks(n + 1, c[n]) /\ LooksSound(K, S, n + 1, c[n])
    BY <2>3 DEF Looks, LooksSound
  <2>5. Good(check_actives(acct, n + 1, c[n]))
    BY <2>4, LevelSound
  <2> HIDE DEF Good
  <2> QED
    BY <2>2, <2>5
<1> HIDE DEF N
<1>6. \A n \in Nat : n \in N
  BY <1>4, <1>5, SetInduction
<1>7. CASE MaxDepth = 0
  BY <1>7 DEF Looks, LooksSound
<1>8. CASE MaxDepth # 0
  <2>1. MaxDepth - 1 \in Nat /\ MaxDepth - 1 <= MaxDepth /\ MaxDepth - 1 \in 0 .. MaxDepth
    BY <1>2, <1>8
  <2>2. below(acct, MaxDepth - 1) = c[MaxDepth - 1] /\ MaxDepth - 1 \in N
    BY <1>1, <1>6, <2>1
  <2>3. Good(below(acct, MaxDepth - 1))
    <3> HIDE DEF Good
    <3> QED
      BY <2>1, <2>2 DEF N
  <2> QED
    BY <2>3 DEF Looks, LooksSound
<1> QED
  BY <1>7, <1>8

(* What check_authority accepts, the authorities grant. *)
LEMMA CheckSound ==
    ASSUME NEW acct, IsGraph(acct), NEW K, NEW S, Closed(acct, K, S), NEW au, IsAuthority(au)
    PROVE  /\ \A s \in SignStates : check_authority(acct, au, s) \in Verdicts
           /\ \A s \in Sound(K, S) :
                 /\ check_authority(acct, au, s).s \in Sound(K, S)
                 /\ check_authority(acct, au, s).ok => Satisfies(au, K, S)
<1> DEFINE next == below(acct, MaxDepth - 1)
<1>1. Looks(MaxDepth, next) /\ LooksSound(K, S, MaxDepth, next)
  BY BelowSound
<1> HIDE DEF next
<1>2. \A s : check_authority(acct, au, s) = check_accounts(au, MaxDepth, next, check_keys(au, s))
  BY DEF check_authority, next
<1>3. ASSUME NEW s \in SignStates PROVE check_authority(acct, au, s) \in Verdicts
  BY <1>1, <1>2, KeysType, AccountsType
<1>4. ASSUME NEW s \in Sound(K, S)
      PROVE  /\ check_authority(acct, au, s).s \in Sound(K, S)
             /\ check_authority(acct, au, s).ok => Satisfies(au, K, S)
  <2> DEFINE kr == check_keys(au, s)
  <2>1. s \in SignStates
    BY DEF Sound
  <2>2. kr \in KeyResults
    BY <2>1, KeysType
  <2>3. /\ kr.s \in Sound(K, S) /\ SumFunctionOnSet(au.keys, DOMAIN au.keys \cap K) \in Nat
        /\ kr.total <= SumFunctionOnSet(au.keys, DOMAIN au.keys \cap K)
    BY KeysSound
  <2>4. check_authority(acct, au, s) = check_accounts(au, MaxDepth, next, kr)
    BY <1>2
  <2> HIDE DEF kr
  <2> QED
    BY <1>1, <2>2, <2>3, <2>4, AccountsSound
<1> QED
  BY <1>3, <1>4

-----------------------------------------------------------------------------
(* The reference is closed: as many rounds as there are accounts are enough. *)

Rounds(acct, K, A, c, n) == c = [i \in 0 .. n |-> IF i = 0 THEN A ELSE Granted(acct, K, c[i - 1])]

LEMMA RoundsExist ==
    ASSUME NEW acct, NEW K, NEW A, NEW n \in Nat
    PROVE  \E c : Rounds(acct, K, A, c, n)
<1> DEFINE N == {m \in Nat : \E c : Rounds(acct, K, A, c, m)}
<1>1. 0 \in N
  <2> DEFINE c == [i \in 0 .. 0 |-> A]
  <2>1. Rounds(acct, K, A, c, 0)
    BY DEF Rounds
  <2> QED
    BY <2>1
<1>2. ASSUME NEW m \in Nat, m \in N PROVE m + 1 \in N
  <2>1. PICK c : Rounds(acct, K, A, c, m)
    BY <1>2
  <2> DEFINE d == [i \in 0 .. m + 1 |-> IF i <= m THEN c[i] ELSE Granted(acct, K, c[m])]
  <2>2. \A i \in 0 .. m : c[i] = IF i = 0 THEN A ELSE Granted(acct, K, c[i - 1])
    BY <2>1 DEF Rounds
  <2>3. ASSUME NEW i \in 0 .. m + 1
        PROVE  d[i] = IF i = 0 THEN A ELSE Granted(acct, K, d[i - 1])
    <3>1. CASE i <= m
      <4>1. i \in 0 .. m /\ d[i] = c[i] /\ (i # 0 => d[i - 1] = c[i - 1])
        BY <3>1
      <4> HIDE DEF d
      <4> QED
        BY <2>2, <4>1
    <3>2. CASE ~ (i <= m)
      <4>1. i = m + 1 /\ i # 0 /\ i - 1 = m /\ d[i] = Granted(acct, K, c[m]) /\ d[m] = c[m]
        BY <3>2
      <4> HIDE DEF d
      <4> QED
        BY <4>1
    <3> QED
      BY <3>1, <3>2
  <2>4. d = [i \in 0 .. m + 1 |-> d[i]]
    OBVIOUS
  <2> HIDE DEF d
  <2>5. Rounds(acct, K, A, d, m + 1)
    BY <2>3, <2>4 DEF Rounds
  <2> QED
    BY <2>5
<1> HIDE DEF N
<1>3. n \in N
  BY <1>1, <1>2, SetInduction
<1> QED
  BY <1>3 DEF N

LEMMA RoundsSame ==
    ASSUME NEW acct, NEW K, NEW A, NEW n \in Nat, NEW m \in Nat, n <= m,
           NEW c, Rounds(acct, K, A, c, n), NEW d, Rounds(acct, K, A, d, m)
    PROVE  \A i \in 0 .. n : c[i] = d[i]
<1> DEFINE N == {i \in Nat : i <= n => c[i] = d[i]}
<1>1. \A i \in 0 .. n : c[i] = IF i = 0 THEN A ELSE Granted(acct, K, c[i - 1])
  BY DEF Rounds
<1>2. \A i \in 0 .. n : d[i] = IF i = 0 THEN A ELSE Granted(acct, K, d[i - 1])
  BY DEF Rounds
<1>3. 0 \in N
  BY <1>1, <1>2
<1>4. ASSUME NEW i \in Nat, i \in N PROVE i + 1 \in N
  <2> SUFFICES ASSUME i + 1 <= n PROVE c[i + 1] = d[i + 1]
    OBVIOUS
  <2>1. i + 1 \in 0 .. n /\ i + 1 # 0 /\ (i + 1) - 1 = i /\ c[i] = d[i]
    BY <1>4
  <2> QED
    BY ONLY <1>1, <1>2, <2>1
<1> HIDE DEF N
<1>5. \A i \in Nat : i \in N
  BY <1>3, <1>4, SetInduction
<1> QED
  BY <1>5 DEF N

LEMMA ApprovingSteps ==
    ASSUME NEW acct, IsGraph(acct), NEW K, NEW A \in SUBSET Accounts
    PROVE  /\ ApprovingIn(acct, K, A, 0) = A
           /\ \A n \in Nat : ApprovingIn(acct, K, A, n + 1) = Granted(acct, K, ApprovingIn(acct, K, A, n))
<1> DEFINE c(n) == CHOOSE c : Rounds(acct, K, A, c, n)
<1>1. \A n \in Nat : ApprovingIn(acct, K, A, n) = c(n)[n]
  BY DEF ApprovingIn, Rounds
<1>2. \A n \in Nat : Rounds(acct, K, A, c(n), n)
  BY RoundsExist
<1> HIDE DEF c
<1>3. ASSUME NEW n \in Nat PROVE \A i \in 0 .. n : c(n)[i] = IF i = 0 THEN A ELSE Granted(acct, K, c(n)[i - 1])
  BY <1>2 DEF Rounds
<1>4. c(0)[0] = A
  BY <1>3
<1>5. ASSUME NEW n \in Nat PROVE c(n + 1)[n + 1] = Granted(acct, K, c(n)[n])
  <2>1. n + 1 \in Nat /\ n <= n + 1 /\ n \in 0 .. n /\ n + 1 \in 0 .. n + 1 /\ n + 1 # 0 /\ (n + 1) - 1 = n
    OBVIOUS
  <2>2. c(n)[n] = c(n + 1)[n]
    BY <1>2, <2>1, RoundsSame
  <2>3. \A i \in 0 .. n + 1 : c(n + 1)[i] = IF i = 0 THEN A ELSE Granted(acct, K, c(n + 1)[i - 1])
    BY <1>3, <2>1
  <2> QED
    BY ONLY <2>1, <2>2, <2>3
<1>6. \A n \in Nat : n + 1 \in Nat
  OBVIOUS
<1> QED
  BY <1>1, <1>4, <1>5, <1>6

(* The approvals are there from the start, and rounds only add accounts. *)
LEMMA ApprovingGrows ==
    ASSUME NEW acct, IsGraph(acct), NEW K, NEW A \in SUBSET Accounts, NEW n \in Nat
    PROVE  /\ A \subseteq ApprovingIn(acct, K, A, n) /\ ApprovingIn(acct, K, A, n) \subseteq Accounts
           /\ ApprovingIn(acct, K, A, n) \subseteq ApprovingIn(acct, K, A, n + 1)
<1> DEFINE P(i) == ApprovingIn(acct, K, A, i)
           N == {i \in Nat : A \subseteq P(i) /\ P(i) \subseteq Accounts}
<1>1. P(0) = A /\ \A i \in Nat : P(i + 1) = Granted(acct, K, P(i))
  BY ApprovingSteps
<1>2. \A X \in SUBSET Accounts : X \subseteq Granted(acct, K, X) /\ Granted(acct, K, X) \subseteq Accounts
  BY DEF Granted, IsGraph
<1> HIDE DEF P
<1>3. 0 \in N
  BY <1>1
<1>4. ASSUME NEW i \in Nat, i \in N PROVE i + 1 \in N
  BY <1>1, <1>2, <1>4
<1> HIDE DEF N
<1>5. n \in N
  BY <1>3, <1>4, SetInduction
<1>6. A \subseteq P(n) /\ P(n) \subseteq Accounts /\ P(n) \subseteq P(n + 1)
  BY <1>1, <1>2, <1>5 DEF N
<1> QED
  BY <1>6 DEF P

LEMMA ApprovingClosed ==
    ASSUME NEW acct, IsGraph(acct), NEW K, NEW A \in SUBSET Accounts
    PROVE  /\ A \subseteq Approving(acct, K, A) /\ Approving(acct, K, A) \subseteq Accounts
           /\ Closed(acct, K, Approving(acct, K, A))
<1> DEFINE n == Cardinality(Accounts)
           P(i) == ApprovingIn(acct, K, A, i)
           T(X) == Granted(acct, K, X)
<1>1. n \in Nat /\ IsFiniteSet(Accounts) /\ DOMAIN acct = Accounts
  BY AuthorityAssumption, FS_CardinalityType DEF IsGraph
<1>2. Approving(acct, K, A) = P(n)
  BY <1>1 DEF Approving
<1>3. \A i \in Nat : A \subseteq P(i) /\ P(i) \subseteq Accounts /\ P(i) \subseteq P(i + 1)
  BY ApprovingGrows
<1>4. P(0) = A /\ \A i \in Nat : P(i + 1) = T(P(i))
  BY ApprovingSteps
<1> HIDE DEF P, T, n
<1>5. \A i \in Nat : IsFiniteSet(P(i)) /\ Cardinality(P(i)) \in Nat /\ Cardinality(P(i)) <= n
  BY <1>1, <1>3, FS_Subset, FS_CardinalityType DEF n
<1> DEFINE N == {i \in Nat : T(P(i)) = P(i) \/ Cardinality(P(i)) >= i}
<1>6. 0 \in N
  BY <1>5
<1>7. ASSUME NEW i \in Nat, i \in N PROVE i + 1 \in N
  <2>1. i + 1 \in Nat /\ P(i + 1) = T(P(i)) /\ P(i) \subseteq P(i + 1)
    BY <1>3, <1>4
  <2>2. CASE T(P(i)) = P(i)
    BY <2>1, <2>2
  <2>3. CASE T(P(i)) # P(i)
    <3>1. P(i) # P(i + 1) /\ IsFiniteSet(P(i + 1)) /\ P(i) \in SUBSET P(i + 1)
      BY <1>5, <2>1, <2>3
    <3>2. Cardinality(P(i)) <= Cardinality(P(i + 1)) /\ Cardinality(P(i)) # Cardinality(P(i + 1))
      BY <3>1, FS_Subset
    <3>3. Cardinality(P(i)) \in Nat /\ Cardinality(P(i + 1)) \in Nat /\ Cardinality(P(i)) >= i
      BY <1>5, <1>7, <2>1, <2>3
    <3>4. Cardinality(P(i + 1)) >= i + 1
      BY ONLY <3>2, <3>3, i \in Nat
    <3> QED
      BY <2>1, <3>4
  <2> QED
    BY <2>2, <2>3
<1> HIDE DEF N
<1>8. n \in N
  BY <1>1, <1>6, <1>7, SetInduction
<1>9. T(P(n)) = P(n) \/ Cardinality(P(n)) >= n
  BY <1>8 DEF N
<1>10. Closed(acct, K, P(n))
  <2>1. CASE T(P(n)) = P(n)
    BY <1>1, <2>1 DEF Closed, Granted, T
  <2>2. CASE Cardinality(P(n)) >= n
    <3>1. Cardinality(P(n)) = n
      BY <1>1, <1>5, <2>2
    <3>2. P(n) = Accounts
      BY <1>1, <1>3, <3>1, FS_Subset DEF n
    <3> QED
      BY <3>2 DEF Closed
  <2> QED
    BY <1>9, <2>1, <2>2
<1> QED
  BY <1>1, <1>2, <1>3, <1>10

-----------------------------------------------------------------------------
(* The accounts that an operation needs, in turn *)

ActiveStep(acct, r, a) == IF r.ok THEN OrOwner(acct, a, check_account(acct, a, r.s)) ELSE r

OwnerStep(acct, B, r, a) == IF ~ r.ok \/ a \in B THEN r ELSE check_authority(acct, acct[a].owner, r.s)

LEMMA CheckType ==
    ASSUME NEW acct, IsGraph(acct), NEW a \in Accounts, NEW s \in SignStates
    PROVE  /\ check_authority(acct, acct[a].active, s) \in Verdicts
           /\ check_authority(acct, acct[a].owner, s) \in Verdicts
           /\ check_account(acct, a, s) \in Verdicts
<1>1. Closed(acct, {}, Accounts)
  BY DEF Closed
<1>2. IsAuthority(acct[a].active) /\ IsAuthority(acct[a].owner)
  BY DEF IsGraph
<1>3. check_authority(acct, acct[a].active, s) \in Verdicts /\ check_authority(acct, acct[a].owner, s) \in Verdicts
  BY <1>1, <1>2, CheckSound
<1>4. [ok |-> TRUE, s |-> s] \in Verdicts
  BY DEF Verdicts
<1> QED
  BY <1>3, <1>4 DEF check_account

LEMMA ActiveType ==
    ASSUME NEW acct, IsGraph(acct), NEW r \in Verdicts, NEW a \in Accounts
    PROVE  ActiveStep(acct, r, a) \in Verdicts
<1>1. r.s \in SignStates
  BY DEF Verdicts
<1>2. check_account(acct, a, r.s) \in Verdicts
  BY <1>1, CheckType
<1>3. check_account(acct, a, r.s).s \in SignStates
  BY <1>2 DEF Verdicts
<1>4. check_authority(acct, acct[a].owner, check_account(acct, a, r.s).s) \in Verdicts
  BY <1>3, CheckType
<1> QED
  BY <1>2, <1>4 DEF ActiveStep, OrOwner

LEMMA OwnerType ==
    ASSUME NEW acct, IsGraph(acct), NEW B, NEW r \in Verdicts, NEW a \in Accounts
    PROVE  OwnerStep(acct, B, r, a) \in Verdicts
<1>1. r.s \in SignStates
  BY DEF Verdicts
<1>2. check_authority(acct, acct[a].owner, r.s) \in Verdicts
  BY <1>1, CheckType
<1> QED
  BY <1>2 DEF OwnerStep

(* Accounts of a transaction are accounts, in a finite set. *)
LEMMA SomeAccounts ==
    ASSUME NEW R \in SUBSET Accounts
    PROVE  IsFiniteSet(R) /\ R \subseteq Nat
BY AuthorityAssumption, FS_Subset

LEMMA ActiveSteps ==
    ASSUME NEW acct, IsGraph(acct), NEW needed \in SUBSET Accounts, NEW s \in SignStates
    PROVE  \E g : /\ g[{}] = [ok |-> TRUE, s |-> s] /\ CheckActive(acct, needed, s) = g[1 .. Cardinality(needed)]
                  /\ \A k \in 1 .. Cardinality(needed) : g[1 .. k] = ActiveStep(acct, g[1 .. k - 1], Sorted(needed)[k])
<1> DEFINE len  == Cardinality(needed)
           q    == Sorted(needed)
           A    == Verdicts
           base == [ok |-> TRUE, s |-> s]
           F    == [p \in A \X (1 .. len) |-> ActiveStep(acct, p[1], q[p[2]])]
<1>1. len \in Nat /\ q \in [1 .. len -> needed] /\ DOMAIN q = 1 .. len
  BY SomeAccounts, SortedType
<1>b. base \in A
  BY SomeAccounts DEF Verdicts
<1>2. \A r \in A, i \in 1 .. len : ActiveStep(acct, r, q[i]) \in A /\ F[<<r, i>>] = ActiveStep(acct, r, q[i])
  BY <1>1, SomeAccounts, ActiveType
<1> HIDE DEF F, base, A
<1> DEFINE Eq(g) == g = [u \in SUBSET (1 .. len) |->
                           IF u = {} THEN base ELSE ActiveStep(acct, g[u \ {Max(u)}], q[Max(u)])]
<1>3. \E g : Eq(g)
  <2>1. PICK G : FoldSolves(G, F, A, base, len)
    BY <1>1, <1>2, <1>b, FoldSolution
  <2>2. G \in [SUBSET (1 .. len) -> A]
    BY <2>1 DEF FoldSolves
  <2>3. ASSUME NEW u \in SUBSET (1 .. len)
        PROVE  G[u] = IF u = {} THEN base ELSE ActiveStep(acct, G[u \ {Max(u)}], q[Max(u)])
    <3>1. CASE u # {}
      <4>1. Max(u) \in 1 .. len /\ G[u \ {Max(u)}] \in A
        BY <1>1, <2>2, <3>1, MaxUpTo
      <4> QED
        BY <1>2, <2>1, <3>1, <4>1 DEF FoldSolves
    <3> QED
      BY <2>1, <3>1 DEF FoldSolves
  <2>4. Eq(G)
    BY <2>2, <2>3
  <2> QED
    BY <2>4
<1> DEFINE g == CHOOSE g : Eq(g)
<1>4. CheckActive(acct, needed, s) = g[1 .. len]
  BY <1>1 DEF CheckActive, ActiveStep, FoldLeft, MapThenFoldSet, base
<1>5. Eq(g)
  BY <1>3
<1> HIDE DEF g
<1>6. g[{}] = base
  BY <1>5
<1>7. ASSUME NEW k \in 1 .. len PROVE g[1 .. k] = ActiveStep(acct, g[1 .. k - 1], q[k])
  <2>1. 1 .. k \in SUBSET (1 .. len) /\ 1 .. k # {} /\ Max(1 .. k) = k /\ (1 .. k) \ {k} = 1 .. k - 1
    BY <1>1, Prefix
  <2> QED
    BY ONLY <1>5, <2>1
<1> QED
  BY <1>4, <1>6, <1>7 DEF base

OwnerRun(acct, B, needed, s, g) ==
    /\ g[{}] = [ok |-> TRUE, s |-> s] /\ CheckOwner(acct, needed, B, s) = g[1 .. Cardinality(needed)]
    /\ \A k \in 1 .. Cardinality(needed) : g[1 .. k] = OwnerStep(acct, B, g[1 .. k - 1], Sorted(needed)[k])

LEMMA OwnerSteps ==
    ASSUME NEW acct, IsGraph(acct), NEW B \in SUBSET Accounts, NEW needed \in SUBSET Accounts, NEW s \in SignStates
    PROVE  \E g : OwnerRun(acct, B, needed, s, g)
<1> DEFINE len  == Cardinality(needed)
           q    == Sorted(needed)
           A    == Verdicts
           base == [ok |-> TRUE, s |-> s]
           F    == [p \in A \X (1 .. len) |-> OwnerStep(acct, B, p[1], q[p[2]])]
<1>1. len \in Nat /\ q \in [1 .. len -> needed] /\ DOMAIN q = 1 .. len
  BY SomeAccounts, SortedType
<1>b. base \in A
  BY SomeAccounts DEF Verdicts
<1>2. \A r \in A, i \in 1 .. len : OwnerStep(acct, B, r, q[i]) \in A /\ F[<<r, i>>] = OwnerStep(acct, B, r, q[i])
  BY <1>1, SomeAccounts, OwnerType
<1> HIDE DEF F, base, A
<1> DEFINE Eq(g) == g = [u \in SUBSET (1 .. len) |->
                           IF u = {} THEN base ELSE OwnerStep(acct, B, g[u \ {Max(u)}], q[Max(u)])]
<1>3. \E g : Eq(g)
  <2>1. PICK G : FoldSolves(G, F, A, base, len)
    BY <1>1, <1>2, <1>b, FoldSolution
  <2>2. G \in [SUBSET (1 .. len) -> A]
    BY <2>1 DEF FoldSolves
  <2>3. ASSUME NEW u \in SUBSET (1 .. len)
        PROVE  G[u] = IF u = {} THEN base ELSE OwnerStep(acct, B, G[u \ {Max(u)}], q[Max(u)])
    <3>1. CASE u # {}
      <4>1. Max(u) \in 1 .. len /\ G[u \ {Max(u)}] \in A
        BY <1>1, <2>2, <3>1, MaxUpTo
      <4> QED
        BY <1>2, <2>1, <3>1, <4>1 DEF FoldSolves
    <3> QED
      BY <2>1, <3>1 DEF FoldSolves
  <2>4. Eq(G)
    BY <2>2, <2>3
  <2> QED
    BY <2>4
<1> DEFINE g == CHOOSE g : Eq(g)
<1>4. CheckOwner(acct, needed, B, s) = g[1 .. len]
  BY <1>1 DEF CheckOwner, OwnerStep, FoldLeft, MapThenFoldSet, base
<1>5. Eq(g)
  BY <1>3
<1> HIDE DEF g
<1>6. g[{}] = base
  BY <1>5
<1>7. ASSUME NEW k \in 1 .. len PROVE g[1 .. k] = OwnerStep(acct, B, g[1 .. k - 1], q[k])
  <2>1. 1 .. k \in SUBSET (1 .. len) /\ 1 .. k # {} /\ Max(1 .. k) = k /\ (1 .. k) \ {k} = 1 .. k - 1
    BY <1>1, Prefix
  <2> QED
    BY ONLY <1>5, <2>1
<1> QED
  BY <1>4, <1>6, <1>7 DEF base, OwnerRun

LEMMA ActiveStepSound ==
    ASSUME NEW acct, IsGraph(acct), NEW K, NEW S, Closed(acct, K, S),
           NEW r \in Verdicts, r.s \in Sound(K, S), NEW a \in Accounts
    PROVE  LET x == ActiveStep(acct, r, a)
           IN  x \in Verdicts /\ x.s \in Sound(K, S) /\ (x.ok => r.ok /\ (a \in S \/ Satisfies(acct[a].owner, K, S)))
<1> DEFINE c == check_account(acct, a, r.s)
           d == check_authority(acct, acct[a].owner, c.s)
           x == ActiveStep(acct, r, a)
<1>1. IsAuthority(acct[a].active) /\ IsAuthority(acct[a].owner)
  BY DEF IsGraph
<1>2. c.s \in Sound(K, S) /\ (c.ok => a \in S)
  <2>1. CASE a \in r.s.approved
    <3>1. c = [ok |-> TRUE, s |-> r.s]
      BY <2>1 DEF check_account
    <3> HIDE DEF c
    <3> QED
      BY <2>1, <3>1 DEF Sound
  <2>2. CASE a \notin r.s.approved
    <3>1. c = check_authority(acct, acct[a].active, r.s)
      BY <2>2 DEF check_account
    <3> HIDE DEF c
    <3>2. c.s \in Sound(K, S) /\ (c.ok => Satisfies(acct[a].active, K, S))
      BY <1>1, <3>1, CheckSound
    <3> QED
      BY <3>2 DEF Closed
  <2> QED
    BY <2>1, <2>2
<1>3. d.s \in Sound(K, S) /\ (d.ok => Satisfies(acct[a].owner, K, S))
  <2> HIDE DEF c
  <2> QED
    BY <1>1, <1>2, CheckSound
<1>4. x = IF ~ r.ok THEN r ELSE IF c.ok THEN c ELSE d
  BY DEF ActiveStep, OrOwner
<1>5. x \in Verdicts
  BY ActiveType
<1> HIDE DEF c, d, x
<1>6. x.s \in Sound(K, S) /\ (x.ok => r.ok /\ (a \in S \/ Satisfies(acct[a].owner, K, S)))
  BY <1>2, <1>3, <1>4
<1> QED
  BY <1>5, <1>6 DEF x

LEMMA OwnerStepSound ==
    ASSUME NEW acct, IsGraph(acct), NEW K, NEW S, Closed(acct, K, S), NEW B,
           NEW r \in Verdicts, r.s \in Sound(K, S), NEW a \in Accounts
    PROVE  LET x == OwnerStep(acct, B, r, a)
           IN  x \in Verdicts /\ x.s \in Sound(K, S) /\ (x.ok => r.ok /\ (a \in B \/ Satisfies(acct[a].owner, K, S)))
<1> DEFINE d == check_authority(acct, acct[a].owner, r.s)
           x == OwnerStep(acct, B, r, a)
<1>1. IsAuthority(acct[a].owner)
  BY DEF IsGraph
<1>2. d.s \in Sound(K, S) /\ (d.ok => Satisfies(acct[a].owner, K, S))
  BY <1>1, CheckSound
<1>3. x = IF ~ r.ok \/ a \in B THEN r ELSE d
  BY DEF OwnerStep
<1>4. x \in Verdicts
  BY OwnerType
<1> HIDE DEF d, x
<1>5. x.s \in Sound(K, S) /\ (x.ok => r.ok /\ (a \in B \/ Satisfies(acct[a].owner, K, S)))
  BY <1>2, <1>3
<1> QED
  BY <1>4, <1>5 DEF x

LEMMA ActiveSound ==
    ASSUME NEW acct, IsGraph(acct), NEW K, NEW S, Closed(acct, K, S),
           NEW needed \in SUBSET Accounts, NEW s \in Sound(K, S)
    PROVE  /\ CheckActive(acct, needed, s) \in Verdicts /\ CheckActive(acct, needed, s).s \in Sound(K, S)
           /\ CheckActive(acct, needed, s).ok =>
                \A a \in needed : a \in S \/ Satisfies(acct[a].owner, K, S)
<1> DEFINE len == Cardinality(needed)
           q   == Sorted(needed)
           Fine(a) == a \in S \/ Satisfies(acct[a].owner, K, S)
<1>1. /\ len \in Nat /\ q \in [1 .. len -> needed] /\ Range(q) = needed
  BY SomeAccounts, SortedType
<1>2. s \in SignStates
  BY DEF Sound
<1>3. PICK g : /\ g[{}] = [ok |-> TRUE, s |-> s] /\ CheckActive(acct, needed, s) = g[1 .. Cardinality(needed)]
               /\ \A k \in 1 .. Cardinality(needed) : g[1 .. k] = ActiveStep(acct, g[1 .. k - 1], Sorted(needed)[k])
  BY <1>2, ActiveSteps
<1>4. CheckActive(acct, needed, s) = g[1 .. len] /\ \A k \in 1 .. len : g[1 .. k] = ActiveStep(acct, g[1 .. k - 1], q[k])
  BY <1>3
<1> HIDE DEF len, q
<1> DEFINE Good(k) == /\ g[1 .. k] \in Verdicts /\ g[1 .. k].s \in Sound(K, S)
                      /\ g[1 .. k].ok => \A i \in 1 .. k : Fine(q[i])
           N == {k \in Nat : k <= len => Good(k)}
<1>5. 0 \in N
  <2>1. 1 .. 0 = {}
    OBVIOUS
  <2>2. g[{}] \in Verdicts /\ g[{}].s = s
    BY <1>2, <1>3 DEF Verdicts
  <2> QED
    BY <2>1, <2>2
<1>6. ASSUME NEW k \in Nat, k \in N PROVE k + 1 \in N
  <2> SUFFICES ASSUME k + 1 <= len PROVE Good(k + 1)
    <3> HIDE DEF Good
    <3> QED
      BY DEF N
  <2> DEFINE r == g[1 .. k]
             a == q[k + 1]
             x == ActiveStep(acct, r, a)
  <2>1. k + 1 \in 1 .. len /\ (k + 1) - 1 = k /\ k <= len
    BY <1>1
  <2>2. g[1 .. k + 1] = x /\ a \in needed /\ a \in Accounts
    BY <1>1, <1>4, <2>1
  <2>3. r \in Verdicts /\ r.s \in Sound(K, S) /\ (r.ok => \A i \in 1 .. k : Fine(q[i]))
    BY <1>6, <2>1
  <2>4. \A i \in 1 .. k + 1 : i = k + 1 \/ i \in 1 .. k
    OBVIOUS
  <2> HIDE DEF r, a
  <2>5. x \in Verdicts /\ x.s \in Sound(K, S) /\ (x.ok => r.ok /\ Fine(a))
    BY <2>2, <2>3, ActiveStepSound
  <2> HIDE DEF x, Fine
  <2>6. x.ok => \A i \in 1 .. k + 1 : Fine(q[i])
    BY <2>3, <2>4, <2>5 DEF a
  <2> QED
    BY <2>2, <2>5, <2>6
<1> HIDE DEF N
<1>7. len \in N
  BY <1>1, <1>5, <1>6, SetInduction
<1>8. Good(len)
  BY <1>1, <1>7 DEF N
<1>9. \A a \in needed : \E i \in 1 .. len : a = q[i]
  BY <1>1 DEF Range
<1> QED
  BY <1>4, <1>8, <1>9

LEMMA OwnerSound ==
    ASSUME NEW acct, IsGraph(acct), NEW K, NEW S, Closed(acct, K, S), NEW B \in SUBSET Accounts,
           NEW needed \in SUBSET Accounts, NEW s \in Sound(K, S)
    PROVE  /\ CheckOwner(acct, needed, B, s) \in Verdicts /\ CheckOwner(acct, needed, B, s).s \in Sound(K, S)
           /\ CheckOwner(acct, needed, B, s).ok =>
                \A a \in needed : a \in B \/ Satisfies(acct[a].owner, K, S)
<1> DEFINE len == Cardinality(needed)
           q   == Sorted(needed)
           Fine(a) == a \in B \/ Satisfies(acct[a].owner, K, S)
<1>1. /\ len \in Nat /\ q \in [1 .. len -> needed] /\ Range(q) = needed
  BY SomeAccounts, SortedType
<1>2. s \in SignStates
  BY DEF Sound
<1>a. PICK g : OwnerRun(acct, B, needed, s, g)
  BY <1>2, OwnerSteps
<1>3. /\ g[{}] = [ok |-> TRUE, s |-> s] /\ CheckOwner(acct, needed, B, s) = g[1 .. Cardinality(needed)]
      /\ \A k \in 1 .. Cardinality(needed) : g[1 .. k] = OwnerStep(acct, B, g[1 .. k - 1], Sorted(needed)[k])
  BY <1>a DEF OwnerRun
<1>4. CheckOwner(acct, needed, B, s) = g[1 .. len] /\ \A k \in 1 .. len : g[1 .. k] = OwnerStep(acct, B, g[1 .. k - 1], q[k])
  BY <1>3
<1> HIDE DEF len, q
<1> DEFINE Good(k) == /\ g[1 .. k] \in Verdicts /\ g[1 .. k].s \in Sound(K, S)
                      /\ g[1 .. k].ok => \A i \in 1 .. k : Fine(q[i])
           N == {k \in Nat : k <= len => Good(k)}
<1>5. 0 \in N
  <2>1. 1 .. 0 = {}
    OBVIOUS
  <2>2. g[{}] \in Verdicts /\ g[{}].s = s
    BY <1>2, <1>3 DEF Verdicts
  <2> QED
    BY <2>1, <2>2
<1>6. ASSUME NEW k \in Nat, k \in N PROVE k + 1 \in N
  <2> SUFFICES ASSUME k + 1 <= len PROVE Good(k + 1)
    <3> HIDE DEF Good
    <3> QED
      BY DEF N
  <2> DEFINE r == g[1 .. k]
             a == q[k + 1]
             x == OwnerStep(acct, B, r, a)
  <2>1. k + 1 \in 1 .. len /\ (k + 1) - 1 = k /\ k <= len
    BY <1>1
  <2>2. g[1 .. k + 1] = x /\ a \in needed /\ a \in Accounts
    BY <1>1, <1>4, <2>1
  <2>3. r \in Verdicts /\ r.s \in Sound(K, S) /\ (r.ok => \A i \in 1 .. k : Fine(q[i]))
    BY <1>6, <2>1
  <2>4. \A i \in 1 .. k + 1 : i = k + 1 \/ i \in 1 .. k
    OBVIOUS
  <2> HIDE DEF r, a
  <2>5. x \in Verdicts /\ x.s \in Sound(K, S) /\ (x.ok => r.ok /\ Fine(a))
    BY <2>2, <2>3, OwnerStepSound
  <2> HIDE DEF x, Fine
  <2>6. x.ok => \A i \in 1 .. k + 1 : Fine(q[i])
    BY <2>3, <2>4, <2>5 DEF a
  <2> QED
    BY <2>2, <2>5, <2>6
<1> HIDE DEF N
<1>7. len \in N
  BY <1>1, <1>5, <1>6, SetInduction
<1>8. Good(len)
  BY <1>1, <1>7 DEF N
<1>9. \A a \in needed : \E i \in 1 .. len : a = q[i]
  BY <1>1 DEF Range
<1> QED
  BY <1>4, <1>8, <1>9

(* For all account graphs, cyclic and deep ones too, and all signatures    *)
(* and approvals: what verify_authority accepts, the authorities grant.    *)
LEMMA VerifyIsSound ==
    ASSUME NEW acct, IsGraph(acct), NEW req, NEW sigs \in SUBSET Keys,
           req.active \subseteq Accounts, req.owner \subseteq Accounts, req.keys \subseteq Keys,
           NEW allow_committee, NEW active \in SUBSET Accounts, NEW owner \in SUBSET Accounts,
           verify_authority(acct, req, sigs, allow_committee, active, owner) = "ok"
    PROVE  Authorized(acct, req, sigs, active, owner)
<1> DEFINE S  == Approving(acct, sigs, active \cup owner)
           s0 == [SignState(sigs, active \cup owner, {}) EXCEPT !.used = req.keys]
           s1 == CheckActive(acct, req.active, s0)
           s2 == CheckOwner(acct, req.owner, owner, s1.s)
<1>1. /\ active \cup owner \subseteq S /\ Closed(acct, sigs, S)
  BY ApprovingClosed
<1>2. s0 = [provided |-> sigs, used |-> req.keys, approved |-> active \cup owner, avail |-> {}]
  BY DEF SignState
<1>3. req.keys \subseteq sigs /\ s1.ok /\ s2.ok
  BY DEF verify_authority
<1>4. S = Approving(acct, sigs, active \cup owner)
  OBVIOUS
<1> HIDE DEF S, s0
<1>5. s0 \in Sound(sigs, S)
  BY <1>1, <1>2 DEF Sound, SignStates
<1>6. s1.s \in Sound(sigs, S) /\ \A a \in req.active : a \in S \/ Satisfies(acct[a].owner, sigs, S)
  BY <1>1, <1>3, <1>5, ActiveSound
<1> HIDE DEF s1
<1>7. \A a \in req.owner : a \in owner \/ Satisfies(acct[a].owner, sigs, S)
  BY <1>1, <1>3, <1>6, OwnerSound
<1> QED
  BY <1>3, <1>6, <1>7 DEF Authorized, GrantedBy, S

-----------------------------------------------------------------------------
(* Completeness.  What a check knows at least: the signatures K and the    *)
(* approvals A.                                                            *)

Full(K, A) == {s \in SignStates : K \subseteq s.provided /\ A \subseteq s.approved}

(* The keys that have signed bring their weight, or reach the threshold. *)
LEMMA KeysComplete ==
    ASSUME NEW au, IsAuthority(au), NEW K, NEW A, NEW s \in Full(K, A)
    PROVE  /\ check_keys(au, s).s \in Full(K, A)
           /\ SumFunctionOnSet(au.keys, DOMAIN au.keys \cap K) \in Nat
           /\ \/ check_keys(au, s).total >= au.threshold
              \/ check_keys(au, s).total >= SumFunctionOnSet(au.keys, DOMAIN au.keys \cap K)
<1> DEFINE D    == DOMAIN au.keys
           len  == Cardinality(D)
           q    == Sorted(D)
           W(i) == SumFunctionOnSet(au.keys, Named(D, i, K))
<1>1. IsFiniteSet(D) /\ D \subseteq Nat /\ D \subseteq Keys /\ \A k \in D : au.keys[k] \in Nat
  BY AuthorityType
<1>t. au.threshold \in Nat
  BY AuthorityType
<1>2. len \in Nat
  BY <1>1, FS_CardinalityType
<1>3. s \in SignStates
  BY DEF Full
<1>4. PICK g : /\ g[{}] = [total |-> 0, s |-> s] /\ check_keys(au, s) = g[1 .. len]
               /\ \A k \in 1 .. len : g[1 .. k] = KeyStep(au, g[1 .. k - 1], q[k])
  BY <1>3, KeySteps
<1>5. \A k \in 1 .. len : /\ q[k] \in D /\ au.keys[q[k]] \in Nat /\ W(k - 1) \in Nat /\ W(k) \in Nat
                          /\ W(k) = W(k - 1) + IF q[k] \in K THEN au.keys[q[k]] ELSE 0
  BY <1>1, NextOf
<1>6. W(0) = 0 /\ W(len) = SumFunctionOnSet(au.keys, D \cap K)
  BY <1>1, AllOf, SumEmpty
<1> HIDE DEF q
<1> DEFINE Good(k) == /\ g[1 .. k].total \in Nat /\ g[1 .. k].s \in Full(K, A) /\ W(k) \in Nat
                      /\ g[1 .. k].total >= au.threshold \/ g[1 .. k].total >= W(k)
           N == {k \in Nat : k <= len => Good(k)}
<1>7. 0 \in N
  <2>1. 1 .. 0 = {}
    OBVIOUS
  <2>2. g[1 .. 0] = [total |-> 0, s |-> s]
    BY <1>4, <2>1
  <2> HIDE DEF W
  <2>3. Good(0)
    BY <1>6, <1>3, <2>2
  <2> HIDE DEF Good
  <2> QED
    BY <2>3
<1>8. ASSUME NEW k \in Nat, k \in N PROVE k + 1 \in N
  <2> SUFFICES ASSUME k + 1 <= len
               PROVE  Good(k + 1)
    <3> HIDE DEF Good
    <3> QED
      OBVIOUS
  <2> DEFINE r == g[1 .. k]
             x == q[k + 1]
  <2>1. k + 1 \in 1 .. len /\ (k + 1) - 1 = k /\ k <= len
    BY <1>2
  <2>g. Good(k)
    <3> HIDE DEF Good
    <3> QED
      BY <1>8, <2>1
  <2>2. /\ r.total \in Nat /\ r.s \in Full(K, A) /\ W(k) \in Nat
        /\ r.total >= au.threshold \/ r.total >= W(k)
    BY <2>g
  <2>3. g[1 .. k + 1] = KeyStep(au, r, x)
    BY <1>4, <2>1
  <2>4. x \in D /\ au.keys[x] \in Nat /\ W(k + 1) \in Nat /\ W(k + 1) = W(k) + IF x \in K THEN au.keys[x] ELSE 0
    BY <1>5, <2>1
  <2> HIDE DEF r, x, W
  <2>5. CASE r.total >= au.threshold \/ ~ signed_by(r.s, x)
    <3>1. g[1 .. k + 1] = r
      BY <2>3, <2>5 DEF KeyStep
    <3>2. ~ signed_by(r.s, x) => x \notin K
      BY <2>2 DEF signed_by, Full
    <3>3. r.total >= au.threshold \/ r.total >= W(k + 1)
      BY <2>2, <2>4, <2>5, <3>2
    <3> QED
      BY <2>2, <2>4, <3>1, <3>3
  <2>6. CASE ~ (r.total >= au.threshold \/ ~ signed_by(r.s, x))
    <3>1. g[1 .. k + 1] = [total |-> r.total + au.keys[x], s |-> Mark(r.s, x)]
      BY <2>3, <2>6 DEF KeyStep
    <3>2. r.s \in SignStates /\ K \subseteq r.s.provided /\ A \subseteq r.s.approved
      BY <2>2 DEF Full
    <3>3. Mark(r.s, x) \in Full(K, A)
      BY <1>1, <2>4, <3>2, MarkType DEF Full
    <3>4. r.total + au.keys[x] >= W(k + 1) /\ r.total + au.keys[x] \in Nat
      BY <2>2, <2>4, <2>6
    <3> QED
      BY <2>4, <3>1, <3>3, <3>4
  <2> QED
    BY <2>5, <2>6
<1>9. len \in N
  <2> HIDE DEF N
  <2> QED
    BY <1>2, <1>7, <1>8, SetInduction
<1>a. /\ g[1 .. len].s \in Full(K, A) /\ W(len) \in Nat
      /\ g[1 .. len].total >= au.threshold \/ g[1 .. len].total >= W(len)
  <2>1. Good(len)
    <3> HIDE DEF Good, len
    <3> QED
      BY <1>2, <1>9
  <2> HIDE DEF W, len
  <2> QED
    BY <2>1
<1> QED
  BY <1>4, <1>6, <1>a

(* The accounts in T approve, or are found to one level deeper. *)
LooksComplete(K, A, T, left, deeper) ==
    \/ left = 0 /\ T = {}
    \/ /\ left # 0
       /\ \A a \in Accounts, s \in Full(K, A) :
             deeper[a][s].s \in Full(K, A) /\ (a \in T => a \in A \/ deeper[a][s].ok)

LEMMA AccountsComplete ==
    ASSUME NEW au, IsAuthority(au), NEW left, NEW deeper, Looks(left, deeper),
           NEW K, NEW A, NEW T, LooksComplete(K, A, T, left, deeper),
           NEW kr \in KeyResults, kr.s \in Full(K, A),
           SumFunctionOnSet(au.keys, DOMAIN au.keys \cap K) \in Nat,
           kr.total >= au.threshold \/ kr.total >= SumFunctionOnSet(au.keys, DOMAIN au.keys \cap K)
    PROVE  /\ check_accounts(au, left, deeper, kr).s \in Full(K, A)
           /\ Satisfies(au, K, T) => check_accounts(au, left, deeper, kr).ok
<1> DEFINE D    == DOMAIN au.accounts
           len  == Cardinality(D)
           q    == Sorted(D)
           W(i) == SumFunctionOnSet(au.accounts, Named(D, i, T))
           V    == SumFunctionOnSet(au.keys, DOMAIN au.keys \cap K)
<1>1. /\ IsFiniteSet(D) /\ D \subseteq Nat /\ D \subseteq Accounts /\ \A a \in D : au.accounts[a] \in Nat
      /\ au.threshold \in Nat
  BY AuthorityType
<1>2. len \in Nat /\ q \in [1 .. len -> D]
  BY <1>1, SortedType
<1>3. PICK g : /\ g[{}] = [total |-> kr.total, s |-> kr.s, stop |-> FALSE]
               /\ check_accounts(au, left, deeper, kr) = [ok |-> g[1 .. len].total >= au.threshold, s |-> g[1 .. len].s]
               /\ \A k \in 1 .. len : g[1 .. k] = AccountStep(au, left, deeper, g[1 .. k - 1], q[k])
  BY AccountSteps
<1>5. \A k \in 1 .. len : /\ q[k] \in D /\ au.accounts[q[k]] \in Nat /\ W(k - 1) \in Nat /\ W(k) \in Nat
                          /\ W(k) = W(k - 1) + IF q[k] \in T THEN au.accounts[q[k]] ELSE 0
  BY <1>1, NextOf
<1>6. W(0) = 0 /\ W(len) = SumFunctionOnSet(au.accounts, D \cap T)
  BY <1>1, AllOf, SumEmpty
<1>v. V \in Nat /\ kr.total \in Nat /\ (kr.total >= au.threshold \/ kr.total >= V)
  BY DEF KeyResults
<1> HIDE DEF q, V
<1> DEFINE Enough(r, k) == r.total >= au.threshold \/ r.total >= V + W(k)
           Good(k) == /\ g[1 .. k] \in AccountResults /\ g[1 .. k].s \in Full(K, A)
                      /\ g[1 .. k].stop => left = 0
                      /\ W(k) \in Nat /\ Enough(g[1 .. k], k)
           N == {k \in Nat : k <= len => Good(k)}
<1>7. 0 \in N
  <2>1. 1 .. 0 = {}
    OBVIOUS
  <2>2. g[1 .. 0] = [total |-> kr.total, s |-> kr.s, stop |-> FALSE]
    BY <1>3, <2>1
  <2> HIDE DEF W
  <2>3. g[1 .. 0] \in AccountResults /\ g[1 .. 0].s \in Full(K, A) /\ ~ g[1 .. 0].stop
    BY <2>2 DEF AccountResults, KeyResults
  <2>4. W(0) \in Nat /\ Enough(g[1 .. 0], 0)
    BY <1>6, <1>v, <2>2
  <2> HIDE DEF Enough
  <2>5. Good(0)
    BY <2>3, <2>4
  <2> HIDE DEF Good
  <2> QED
    BY <2>5
<1>8. ASSUME NEW k \in Nat, k \in N PROVE k + 1 \in N
  <2> SUFFICES ASSUME k + 1 <= len
               PROVE  Good(k + 1)
    <3> HIDE DEF Good
    <3> QED
      OBVIOUS
  <2> DEFINE r == g[1 .. k]
             x == q[k + 1]
             y == g[1 .. k + 1]
             w == au.accounts[x]
             d == deeper[x][r.s]
  <2>1. k + 1 \in 1 .. len /\ (k + 1) - 1 = k /\ k <= len
    BY <1>2
  <2>2. r \in AccountResults /\ r.s \in Full(K, A) /\ (r.stop => left = 0) /\ W(k) \in Nat /\ Enough(r, k)
    <3>1. Good(k)
      <4> HIDE DEF Good
      <4> QED
        BY <1>8, <2>1
    <3> HIDE DEF Enough
    <3> QED
      BY <3>1
  <2>3. y = AccountStep(au, left, deeper, r, x)
    BY <1>3, <2>1
  <2>4. x \in D /\ x \in Accounts /\ w \in Nat /\ W(k + 1) \in Nat /\ W(k + 1) = W(k) + IF x \in T THEN w ELSE 0
    BY <1>1, <1>5, <2>1
  <2> HIDE DEF r, x, y, W
  <2>5. y \in AccountResults
    BY <2>2, <2>3, <2>4, AccountType
  <2>6. Outcome(au, left, deeper, r, x, y)
    BY <2>2, <2>3, AccountCases
  <2>7. /\ left # 0 => d.s \in Full(K, A) /\ (x \in T => x \in A \/ d.ok)
        /\ left = 0 => x \notin T
    BY <2>2, <2>4 DEF LooksComplete
  <2>8. ASSUME left # 0 PROVE Approve(d.s, x) \in Full(K, A)
    <3>1. d.s \in Full(K, A)
      BY <2>7, <2>8
    <3> HIDE DEF d
    <3>2. d.s \in SignStates /\ K \subseteq d.s.provided /\ A \subseteq d.s.approved
      BY <3>1 DEF Full
    <3> QED
      BY <2>4, <3>2, ApproveType DEF Full
  <2>9. x \in A => x \in r.s.approved
    BY <2>2 DEF Full
  <2> HIDE DEF d, w
  <2>a. r.total \in Nat
    BY <2>2 DEF AccountResults
  <2>b. /\ r.total + w >= au.threshold \/ r.total + w >= V + W(k + 1)
        /\ x \notin T => r.total >= au.threshold \/ r.total >= V + W(k + 1)
    BY <1>1, <1>v, <2>2, <2>4, <2>a
  <2>o. \/ (r.stop \/ r.total >= au.threshold) /\ y = r
        \/ x \in r.s.approved /\ y = [total |-> r.total + w, s |-> r.s, stop |-> r.stop]
        \/ left = 0 /\ y = [total |-> r.total, s |-> r.s, stop |-> TRUE]
        \/ left # 0 /\ d.ok /\ y = [total |-> r.total + w, s |-> Approve(d.s, x), stop |-> r.stop]
        \/ left # 0 /\ x \notin r.s.approved /\ ~ d.ok /\ y = [total |-> r.total, s |-> d.s, stop |-> r.stop]
    BY <2>6 DEF Outcome, d, w
  <2>c. y.s \in Full(K, A) /\ (y.stop => left = 0)
    BY ONLY <2>2, <2>o, <2>7, <2>8
  <2>d. y.total >= au.threshold \/ y.total >= V + W(k + 1)
    BY ONLY <2>2, <2>o, <2>7, <2>9, <2>b
  <2> QED
    BY <2>4, <2>5, <2>c, <2>d DEF y
<1>9. len \in N
  <2> HIDE DEF N
  <2> QED
    BY <1>2, <1>7, <1>8, SetInduction
<1>a. g[1 .. len] \in AccountResults /\ g[1 .. len].s \in Full(K, A) /\ W(len) \in Nat /\ Enough(g[1 .. len], len)
  <2>1. Good(len)
    <3> HIDE DEF Good, len
    <3> QED
      BY <1>2, <1>9
  <2> HIDE DEF Enough, len
  <2> QED
    BY <2>1
<1>b. g[1 .. len].total \in Nat
  BY <1>a DEF AccountResults
<1> HIDE DEF W
<1>c. V + W(len) >= au.threshold => g[1 .. len].total >= au.threshold
  BY <1>1, <1>a, <1>b, <1>v
<1>d. Satisfies(au, K, T) <=> V + W(len) >= au.threshold
  BY <1>6 DEF Satisfies, Weight, V
<1>e. /\ check_accounts(au, left, deeper, kr).s = g[1 .. len].s
      /\ check_accounts(au, left, deeper, kr).ok = (g[1 .. len].total >= au.threshold)
  <2> DEFINE b == g[1 .. len].total >= au.threshold
  <2>1. check_accounts(au, left, deeper, kr) = [ok |-> b, s |-> g[1 .. len].s]
    BY <1>3
  <2> HIDE DEF b
  <2>2. check_accounts(au, left, deeper, kr).s = g[1 .. len].s /\ check_accounts(au, left, deeper, kr).ok = b
    BY <2>1
  <2> QED
    BY <2>2 DEF b
<1> QED
  BY <1>a, <1>c, <1>d, <1>e


(* Weights are not negative: more accounts satisfy an authority as well. *)
LEMMA SatisfiesGrows ==
    ASSUME NEW au, IsAuthority(au), NEW K, NEW S, NEW T, S \subseteq T, Satisfies(au, K, S)
    PROVE  Satisfies(au, K, T)
<1> DEFINE f == au.accounts
           D == DOMAIN f
           X == D \cap S
           Y == (D \cap T) \ X
           V == SumFunctionOnSet(au.keys, DOMAIN au.keys \cap K)
<1>1. /\ IsFiniteSet(D) /\ au.threshold \in Nat /\ \A a \in D : f[a] \in Nat
      /\ IsFiniteSet(DOMAIN au.keys) /\ \A k \in DOMAIN au.keys : au.keys[k] \in Nat
  BY AuthorityType
<1>2. IsFiniteSet(X) /\ IsFiniteSet(Y) /\ X \cap Y = {} /\ X \cup Y = D \cap T /\ X \subseteq D /\ Y \subseteq D
  BY <1>1, FS_Subset
<1>3. IsFiniteSet(DOMAIN au.keys \cap K)
  BY <1>1, FS_Subset
<1>4. V \in Nat
  BY <1>1, <1>3, SumType
<1>5. Satisfies(au, K, S) <=> V + SumFunctionOnSet(f, X) >= au.threshold
  BY DEF Satisfies, Weight
<1>6. Satisfies(au, K, T) <=> V + SumFunctionOnSet(f, X \cup Y) >= au.threshold
  BY <1>2 DEF Satisfies, Weight
<1> HIDE DEF f, D, X, Y, V
<1>7. (\A a \in X : f[a] \in Nat) /\ (\A a \in Y : f[a] \in Nat)
  BY <1>1, <1>2
<1>8. SumFunctionOnSet(f, X) \in Nat /\ SumFunctionOnSet(f, Y) \in Nat
  BY <1>2, <1>7, SumType
<1>9. \A a \in X \cup Y : f[a] \in Int
  BY <1>7
<1>10. SumFunctionOnSet(f, X \cup Y) = SumFunctionOnSet(f, X) + SumFunctionOnSet(f, Y)
  BY <1>2, <1>9, SumUnion
<1> QED
  BY <1>1, <1>4, <1>5, <1>6, <1>8, <1>10

(* An account granted by round i + 1 is satisfied by those of round i. *)
LEMMA GrantedFromBefore ==
    ASSUME NEW acct, IsGraph(acct), NEW K, NEW A \in SUBSET Accounts, NEW n \in Nat
    PROVE  \A a \in ApprovingIn(acct, K, A, n + 1) :
               a \in A \/ Satisfies(acct[a].active, K, ApprovingIn(acct, K, A, n))
<1> DEFINE P(i) == ApprovingIn(acct, K, A, i)
           Good(i) == \A a \in P(i + 1) : a \in A \/ Satisfies(acct[a].active, K, P(i))
           N == {i \in Nat : Good(i)}
<1>1. P(0) = A /\ \A i \in Nat : P(i + 1) = Granted(acct, K, P(i))
  BY ApprovingSteps
<1>2. \A i \in Nat : P(i) \subseteq P(i + 1) /\ P(i) \subseteq Accounts
  BY ApprovingGrows
<1> HIDE DEF P
<1>3. \A i \in Nat : \A a \in P(i + 1) : a \in P(i) \/ Satisfies(acct[a].active, K, P(i))
  BY <1>1 DEF Granted
<1>4. 0 \in N
  BY <1>1, <1>3
<1>5. ASSUME NEW i \in Nat, i \in N PROVE i + 1 \in N
  <2>1. i + 1 \in Nat /\ Good(i)
    BY <1>5
  <2>2. ASSUME NEW a \in P((i + 1) + 1), a \notin A PROVE Satisfies(acct[a].active, K, P(i + 1))
    <3>1. CASE a \in P(i + 1)
      <4>1. Satisfies(acct[a].active, K, P(i)) /\ P(i) \subseteq P(i + 1) /\ a \in Accounts
        BY <1>2, <2>1, <2>2, <3>1
      <4>2. IsAuthority(acct[a].active)
        BY <4>1 DEF IsGraph
      <4> QED
        BY <4>1, <4>2, SatisfiesGrows
    <3>2. CASE a \notin P(i + 1)
      BY <1>3, <2>1, <2>2, <3>2
    <3> QED
      BY <3>1, <3>2
  <2>3. Good(i + 1)
    BY <2>2
  <2> HIDE DEF Good
  <2> QED
    BY <2>1, <2>3
<1> HIDE DEF N
<1>6. n \in N
  BY <1>4, <1>5, SetInduction
<1> QED
  BY <1>6 DEF N, P

LEMMA LevelType ==
    ASSUME NEW acct, IsGraph(acct), NEW left, NEW next, Looks(left, next)
    PROVE  \A a \in Accounts, s \in SignStates : check_actives(acct, left, next)[a][s] \in Verdicts
<1> TAKE a \in Accounts, s \in SignStates
<1> DEFINE au == acct[a].active
<1>1. check_actives(acct, left, next)[a][s] = check_accounts(au, left, next, check_keys(au, s))
  BY DEF check_actives
<1>2. IsAuthority(au)
  BY DEF IsGraph
<1> HIDE DEF au
<1>3. check_keys(au, s) \in KeyResults
  BY <1>2, KeysType
<1>4. check_accounts(au, left, next, check_keys(au, s)) \in Verdicts
  BY <1>2, <1>3, AccountsType
<1> QED
  BY <1>1, <1>4

(* One authority: what the accounts in T satisfy is found. *)
LEMMA AuthorityComplete ==
    ASSUME NEW au, IsAuthority(au), NEW left, NEW next, Looks(left, next),
           NEW K, NEW A, NEW T, LooksComplete(K, A, T, left, next), NEW s \in Full(K, A)
    PROVE  /\ check_accounts(au, left, next, check_keys(au, s)).s \in Full(K, A)
           /\ Satisfies(au, K, T) => check_accounts(au, left, next, check_keys(au, s)).ok
<1> DEFINE kr == check_keys(au, s)
           V  == SumFunctionOnSet(au.keys, DOMAIN au.keys \cap K)
<1>1. s \in SignStates
  BY DEF Full
<1>2. kr \in KeyResults
  BY <1>1, KeysType
<1>3. kr.s \in Full(K, A) /\ V \in Nat /\ (kr.total >= au.threshold \/ kr.total >= V)
  BY KeysComplete
<1> HIDE DEF kr
<1>4. /\ check_accounts(au, left, next, kr).s \in Full(K, A)
      /\ Satisfies(au, K, T) => check_accounts(au, left, next, kr).ok
  BY <1>2, <1>3, AccountsComplete
<1> QED
  BY <1>4 DEF kr

LEMMA LevelComplete ==
    ASSUME NEW acct, IsGraph(acct), NEW left, NEW next, Looks(left, next),
           NEW K, NEW A, NEW T, LooksComplete(K, A, T, left, next),
           NEW U, \A a \in U : a \in A \/ Satisfies(acct[a].active, K, T)
    PROVE  \A a \in Accounts, s \in Full(K, A) :
             /\ check_actives(acct, left, next)[a][s].s \in Full(K, A)
             /\ a \in U => a \in A \/ check_actives(acct, left, next)[a][s].ok
<1> TAKE a \in Accounts, s \in Full(K, A)
<1> DEFINE au == acct[a].active
<1>0. s \in SignStates
  BY DEF Full
<1>1. check_actives(acct, left, next)[a][s] = check_accounts(au, left, next, check_keys(au, s))
  BY <1>0 DEF check_actives
<1>2. IsAuthority(au) /\ (a \in U => a \in A \/ Satisfies(au, K, T))
  BY DEF IsGraph
<1> HIDE DEF au
<1>3. /\ check_accounts(au, left, next, check_keys(au, s)).s \in Full(K, A)
      /\ Satisfies(au, K, T) => check_accounts(au, left, next, check_keys(au, s)).ok
  BY <1>2, AuthorityComplete
<1> QED
  BY <1>1, <1>2, <1>3

(* Rounds that n levels of the check can follow *)
Depth(A, n) == IF A = {} THEN n + 1 ELSE n

(* The accounts that an authority at depth 0 can count on *)
Counted(acct, K, A) ==
    IF Depth(A, MaxDepth) = 0 THEN {} ELSE ApprovingIn(acct, K, A, Depth(A, MaxDepth) - 1)

LEMMA BelowComplete ==
    ASSUME NEW acct, IsGraph(acct), NEW K, NEW A \in SUBSET Accounts
    PROVE  /\ Looks(MaxDepth, below(acct, MaxDepth - 1))
           /\ LooksComplete(K, A, Counted(acct, K, A), MaxDepth, below(acct, MaxDepth - 1))
<1> DEFINE R(n) == ApprovingIn(acct, K, A, Depth(A, n))
<1>1. PICK c : Levels(acct, c, MaxDepth) /\ \A n \in 0 .. MaxDepth : below(acct, n) = c[n]
  BY BelowLevels
<1>2. MaxDepth \in Nat
  BY AuthorityAssumption
<1>3. \A n \in 0 .. MaxDepth : c[n] = check_actives(acct, n, IF n = 0 THEN <<>> ELSE c[n - 1])
  BY <1>1 DEF Levels
<1>4. \A a \in R(0) : a \in A \/ Satisfies(acct[a].active, K, {})
  <2>1. CASE A = {}
    <3>1. R(0) = ApprovingIn(acct, K, A, 0 + 1) /\ ApprovingIn(acct, K, A, 0) = {}
      BY <2>1, ApprovingSteps DEF Depth
    <3> HIDE DEF R
    <3> QED
      BY <3>1, GrantedFromBefore
  <2>2. CASE A # {}
    <3>1. R(0) = A
      BY <2>2, ApprovingSteps DEF Depth
    <3> QED
      BY <3>1
  <2> QED
    BY <2>1, <2>2
<1>5. ASSUME NEW n \in Nat PROVE \A a \in R(n + 1) : a \in A \/ Satisfies(acct[a].active, K, R(n))
  <2>1. Depth(A, n) \in Nat /\ Depth(A, n + 1) = Depth(A, n) + 1
    BY DEF Depth
  <2> QED
    BY <2>1, GrantedFromBefore
<1> HIDE DEF R
<1> DEFINE Typed(d) == \A a \in Accounts, s \in SignStates : d[a][s] \in Verdicts
           Finds(d, U) == \A a \in Accounts, s \in Full(K, A) :
                             d[a][s].s \in Full(K, A) /\ (a \in U => a \in A \/ d[a][s].ok)
           N == {n \in Nat : n <= MaxDepth => Typed(c[n]) /\ Finds(c[n], R(n))}
<1>6. 0 \in N
  <2>1. c[0] = check_actives(acct, 0, <<>>)
    BY <1>2, <1>3
  <2>2. Looks(0, <<>>) /\ LooksComplete(K, A, {}, 0, <<>>)
    BY DEF Looks, LooksComplete
  <2>3. Typed(check_actives(acct, 0, <<>>)) /\ Finds(check_actives(acct, 0, <<>>), R(0))
    BY <1>4, <2>2, LevelType, LevelComplete
  <2> HIDE DEF Typed, Finds
  <2> QED
    BY <2>1, <2>3
<1>7. ASSUME NEW n \in Nat, n \in N PROVE n + 1 \in N
  <2> SUFFICES ASSUME n + 1 <= MaxDepth PROVE Typed(c[n + 1]) /\ Finds(c[n + 1], R(n + 1))
    <3> HIDE DEF Typed, Finds
    <3> QED
      BY DEF N
  <2>1. n + 1 \in 0 .. MaxDepth /\ n + 1 # 0 /\ (n + 1) - 1 = n /\ n <= MaxDepth
    BY <1>2
  <2>2. c[n + 1] = check_actives(acct, n + 1, c[n])
    BY <1>3, <2>1
  <2>3. Typed(c[n]) /\ Finds(c[n], R(n))
    <3> HIDE DEF Typed, Finds
    <3> QED
      BY <1>7, <2>1
  <2>4. Looks(n + 1, c[n]) /\ LooksComplete(K, A, R(n), n + 1, c[n])
    BY <2>1, <2>3 DEF Looks, LooksComplete
  <2>5. \A a \in R(n + 1) : a \in A \/ Satisfies(acct[a].active, K, R(n))
    BY <1>5
  <2>6. Typed(check_actives(acct, n + 1, c[n]))
    BY <2>4, LevelType
  <2>7. Finds(check_actives(acct, n + 1, c[n]), R(n + 1))
    BY <2>4, <2>5, LevelComplete
  <2> HIDE DEF Typed, Finds
  <2> QED
    BY <2>2, <2>6, <2>7
<1> HIDE DEF N
<1>8. \A n \in Nat : n \in N
  BY <1>6, <1>7, SetInduction
<1> DEFINE m == MaxDepth - 1
<1>9. CASE MaxDepth = 0
  <2>1. Counted(acct, K, A) = {}
    BY <1>9, ApprovingSteps DEF Counted, Depth
  <2> QED
    BY <1>9, <2>1 DEF Looks, LooksComplete
<1>10. CASE MaxDepth # 0
  <2>1. m \in Nat /\ m <= MaxDepth /\ m \in 0 .. MaxDepth
    BY <1>2, <1>10
  <2>2. Depth(A, MaxDepth) # 0 /\ Depth(A, MaxDepth) - 1 = Depth(A, m)
    BY <1>2, <1>10 DEF Depth
  <2>3. Typed(c[m]) /\ Finds(c[m], R(m)) /\ below(acct, m) = c[m]
    <3> HIDE DEF Typed, Finds
    <3> QED
      BY <1>1, <1>8, <2>1 DEF N
  <2>4. Counted(acct, K, A) = R(m)
    BY <2>2 DEF Counted, R
  <2> HIDE DEF m
  <2>5. Looks(MaxDepth, below(acct, m)) /\ LooksComplete(K, A, R(m), MaxDepth, below(acct, m))
    BY <1>10, <2>3 DEF Looks, LooksComplete
  <2> QED
    BY <2>4, <2>5 DEF m
<1> QED
  BY <1>9, <1>10

(* Authorities that T satisfies are found to be satisfied. *)
Finder(acct, K, A, T) ==
    \A au : IsAuthority(au) =>
      \A s \in Full(K, A) :
        check_authority(acct, au, s).s \in Full(K, A) /\ (Satisfies(au, K, T) => check_authority(acct, au, s).ok)

LEMMA CheckComplete ==
    ASSUME NEW acct, IsGraph(acct), NEW K, NEW A \in SUBSET Accounts
    PROVE  Finder(acct, K, A, Counted(acct, K, A))
<1> DEFINE next == below(acct, MaxDepth - 1)
           T    == Counted(acct, K, A)
<1>1. Looks(MaxDepth, next) /\ LooksComplete(K, A, T, MaxDepth, next)
  BY BelowComplete
<1>2. \A au, s : check_authority(acct, au, s) = check_accounts(au, MaxDepth, next, check_keys(au, s))
  BY DEF check_authority
<1> HIDE DEF next, T
<1>3. ASSUME NEW au, IsAuthority(au), NEW s \in Full(K, A)
      PROVE  /\ check_authority(acct, au, s).s \in Full(K, A)
             /\ Satisfies(au, K, T) => check_authority(acct, au, s).ok
  <2>1. /\ check_accounts(au, MaxDepth, next, check_keys(au, s)).s \in Full(K, A)
        /\ Satisfies(au, K, T) => check_accounts(au, MaxDepth, next, check_keys(au, s)).ok
    BY <1>1, <1>3, AuthorityComplete
  <2> QED
    BY <1>2, <2>1
<1>4. Finder(acct, K, A, T)
  BY <1>3 DEF Finder
<1> QED
  BY <1>4 DEF T

LEMMA ActiveStepComplete ==
    ASSUME NEW acct, IsGraph(acct), NEW K, NEW A, NEW S, NEW T, Finder(acct, K, A, T),
           \A a \in S : a \in A \/ Satisfies(acct[a].active, K, T),
           NEW r \in Verdicts, r.s \in Full(K, A), r.ok,
           NEW a \in Accounts, a \in S \/ Satisfies(acct[a].owner, K, T)
    PROVE  LET x == ActiveStep(acct, r, a) IN x \in Verdicts /\ x.s \in Full(K, A) /\ x.ok
<1> DEFINE c == check_account(acct, a, r.s)
           d == check_authority(acct, acct[a].owner, c.s)
           x == ActiveStep(acct, r, a)
<1>1. IsAuthority(acct[a].active) /\ IsAuthority(acct[a].owner)
  BY DEF IsGraph
<1>2. c.s \in Full(K, A) /\ (a \in S => c.ok)
  <2>1. CASE a \in r.s.approved
    <3>1. c = [ok |-> TRUE, s |-> r.s]
      BY <2>1 DEF check_account
    <3> HIDE DEF c
    <3> QED
      BY <3>1
  <2>2. CASE a \notin r.s.approved
    <3>1. c = check_authority(acct, acct[a].active, r.s)
      BY <2>2 DEF check_account
    <3>2. a \notin A
      BY <2>2 DEF Full
    <3> HIDE DEF c
    <3>3. c.s \in Full(K, A) /\ (Satisfies(acct[a].active, K, T) => c.ok)
      BY <1>1, <3>1 DEF Finder
    <3> QED
      BY <3>2, <3>3
  <2> QED
    BY <2>1, <2>2
<1>3. d.s \in Full(K, A) /\ (Satisfies(acct[a].owner, K, T) => d.ok)
  <2> HIDE DEF c
  <2> QED
    BY <1>1, <1>2 DEF Finder
<1>4. x = IF c.ok THEN c ELSE d
  BY DEF ActiveStep, OrOwner
<1>5. x \in Verdicts
  BY ActiveType
<1> HIDE DEF c, d, x
<1>6. x.s \in Full(K, A) /\ x.ok
  BY <1>2, <1>3, <1>4
<1> QED
  BY <1>5, <1>6 DEF x

LEMMA OwnerStepComplete ==
    ASSUME NEW acct, IsGraph(acct), NEW K, NEW A, NEW T, Finder(acct, K, A, T), NEW B,
           NEW r \in Verdicts, r.s \in Full(K, A), r.ok,
           NEW a \in Accounts, a \in B \/ Satisfies(acct[a].owner, K, T)
    PROVE  LET x == OwnerStep(acct, B, r, a) IN x \in Verdicts /\ x.s \in Full(K, A) /\ x.ok
<1> DEFINE d == check_authority(acct, acct[a].owner, r.s)
           x == OwnerStep(acct, B, r, a)
<1>1. IsAuthority(acct[a].owner)
  BY DEF IsGraph
<1>2. d.s \in Full(K, A) /\ (Satisfies(acct[a].owner, K, T) => d.ok)
  BY <1>1 DEF Finder
<1>3. x = IF a \in B THEN r ELSE d
  BY DEF OwnerStep
<1>4. x \in Verdicts
  BY OwnerType
<1> HIDE DEF d, x
<1>5. x.s \in Full(K, A) /\ x.ok
  BY <1>2, <1>3
<1> QED
  BY <1>4, <1>5 DEF x

LEMMA ActiveComplete ==
    ASSUME NEW acct, IsGraph(acct), NEW K, NEW A, NEW T, Finder(acct, K, A, T), NEW S,
           \A a \in S : a \in A \/ Satisfies(acct[a].active, K, T),
           NEW needed \in SUBSET Accounts, \A a \in needed : a \in S \/ Satisfies(acct[a].owner, K, T),
           NEW s \in Full(K, A)
    PROVE  CheckActive(acct, needed, s).s \in Full(K, A) /\ CheckActive(acct, needed, s).ok
<1> DEFINE len == Cardinality(needed)
           q   == Sorted(needed)
           C   == {r \in Verdicts : r.s \in Full(K, A) /\ r.ok}
<1>1. len \in Nat /\ q \in [1 .. len -> needed]
  BY SomeAccounts, SortedType
<1>2. s \in SignStates
  BY DEF Full
<1>3. PICK g : /\ g[{}] = [ok |-> TRUE, s |-> s] /\ CheckActive(acct, needed, s) = g[1 .. len]
               /\ \A k \in 1 .. len : g[1 .. k] = ActiveStep(acct, g[1 .. k - 1], q[k])
  BY <1>2, ActiveSteps
<1> HIDE DEF q
<1>4. g[{}] \in C
  <2>1. g[{}] \in Verdicts /\ g[{}].s = s /\ g[{}].ok
    BY <1>2, <1>3 DEF Verdicts
  <2> QED
    BY <2>1
<1>5. ASSUME NEW k \in 1 .. len, g[1 .. k - 1] \in C PROVE g[1 .. k] \in C
  <2> DEFINE r == g[1 .. k - 1]
             a == q[k]
  <2>1. r \in Verdicts /\ r.s \in Full(K, A) /\ r.ok /\ a \in needed /\ a \in Accounts
    BY <1>1, <1>5
  <2>2. g[1 .. k] = ActiveStep(acct, r, a)
    BY <1>3
  <2> HIDE DEF r, a
  <2>3. ActiveStep(acct, r, a) \in Verdicts /\ ActiveStep(acct, r, a).s \in Full(K, A) /\ ActiveStep(acct, r, a).ok
    BY <2>1, ActiveStepComplete
  <2> QED
    BY <2>2, <2>3
<1>6. g[1 .. len] \in C
  <2> HIDE DEF C
  <2> QED
    BY <1>1, <1>4, <1>5, FoldStays
<1> QED
  BY <1>3, <1>6

LEMMA OwnerComplete ==
    ASSUME NEW acct, IsGraph(acct), NEW K, NEW A, NEW T, Finder(acct, K, A, T),
           NEW B \in SUBSET Accounts, NEW needed \in SUBSET Accounts,
           \A a \in needed : a \in B \/ Satisfies(acct[a].owner, K, T), NEW s \in Full(K, A)
    PROVE  CheckOwner(acct, needed, B, s).s \in Full(K, A) /\ CheckOwner(acct, needed, B, s).ok
<1> DEFINE len == Cardinality(needed)
           q   == Sorted(needed)
           C   == {r \in Verdicts : r.s \in Full(K, A) /\ r.ok}
<1>1. len \in Nat /\ q \in [1 .. len -> needed]
  BY SomeAccounts, SortedType
<1>2. s \in SignStates
  BY DEF Full
<1>a. PICK g : OwnerRun(acct, B, needed, s, g)
  BY <1>2, OwnerSteps
<1>3. /\ g[{}] = [ok |-> TRUE, s |-> s] /\ CheckOwner(acct, needed, B, s) = g[1 .. len]
      /\ \A k \in 1 .. len : g[1 .. k] = OwnerStep(acct, B, g[1 .. k - 1], q[k])
  BY <1>a DEF OwnerRun
<1> HIDE DEF q
<1>4. g[{}] \in C
  <2>1. g[{}] \in Verdicts /\ g[{}].s = s /\ g[{}].ok
    BY <1>2, <1>3 DEF Verdicts
  <2> QED
    BY <2>1
<1>5. ASSUME NEW k \in 1 .. len, g[1 .. k - 1] \in C PROVE g[1 .. k] \in C
  <2> DEFINE r == g[1 .. k - 1]
             a == q[k]
  <2>1. r \in Verdicts /\ r.s \in Full(K, A) /\ r.ok /\ a \in needed /\ a \in Accounts
    BY <1>1, <1>5
  <2>2. g[1 .. k] = OwnerStep(acct, B, r, a)
    BY <1>3
  <2> HIDE DEF r, a
  <2>3. OwnerStep(acct, B, r, a) \in Verdicts /\ OwnerStep(acct, B, r, a).s \in Full(K, A) /\ OwnerStep(acct, B, r, a).ok
    BY <2>1, OwnerStepComplete
  <2> QED
    BY <2>2, <2>3
<1>6. g[1 .. len] \in C
  <2> HIDE DEF C
  <2> QED
    BY <1>1, <1>4, <1>5, FoldStays
<1> QED
  BY <1>3, <1>6

(* For all account graphs: what the authorities grant within the depth of  *)
(* the check is not refused for want of authority.                         *)
LEMMA VerifyIsComplete ==
    ASSUME NEW acct, IsGraph(acct), NEW req, NEW sigs \in SUBSET Keys,
           req.active \subseteq Accounts, req.owner \subseteq Accounts, req.keys \subseteq Keys,
           NEW active \in SUBSET Accounts, NEW owner \in SUBSET Accounts,
           AuthorizedWithin(acct, req, sigs, active, owner)
    PROVE  verify_authority(acct, req, sigs, TRUE, active, owner) \in {"ok", "tx_irrelevant_sig"}
<1> DEFINE A  == active \cup owner
           n  == Depth(A, MaxDepth)
           S  == ApprovingIn(acct, sigs, A, n)
           T  == Counted(acct, sigs, A)
           s0 == [SignState(sigs, A, {}) EXCEPT !.used = req.keys]
           s1 == CheckActive(acct, req.active, s0)
           s2 == CheckOwner(acct, req.owner, owner, s1.s)
<1>1. n \in Nat /\ (n # 0 => n - 1 \in Nat /\ (n - 1) + 1 = n)
  BY AuthorityAssumption DEF Depth
<1>2. GrantedBy(acct, req, sigs, owner, S, T)
  BY DEF AuthorizedWithin, Depth, Counted
<1>3. \A a \in S : a \in A \/ Satisfies(acct[a].active, sigs, T)
  <2>1. CASE n = 0
    <3>1. S = A
      BY <2>1, ApprovingSteps
    <3> QED
      BY <3>1
  <2>2. CASE n # 0
    <3>1. T = ApprovingIn(acct, sigs, A, n - 1)
      BY <2>2 DEF Counted
    <3> HIDE DEF n, T
    <3>2. \A a \in ApprovingIn(acct, sigs, A, (n - 1) + 1) : a \in A \/ Satisfies(acct[a].active, sigs, T)
      BY <1>1, <2>2, <3>1, GrantedFromBefore
    <3> QED
      BY <1>1, <2>2, <3>2
  <2> QED
    BY <2>1, <2>2
<1>4. Finder(acct, sigs, A, T)
  BY CheckComplete
<1>5. s0 = [provided |-> sigs, used |-> req.keys, approved |-> A, avail |-> {}]
  <2> HIDE DEF A, n, S, T
  <2> QED
    BY DEF SignState
<1>6. verify_authority(acct, req, sigs, TRUE, active, owner) =
        IF ~ (req.keys \subseteq sigs) THEN "tx_missing_other_auth"
        ELSE IF ~ s1.ok THEN "tx_missing_active_auth"
        ELSE IF ~ s2.ok THEN "tx_missing_owner_auth"
        ELSE IF sigs # s2.s.used THEN "tx_irrelevant_sig"
        ELSE "ok"
  BY DEF verify_authority
<1> HIDE DEF n, S, T, s0
<1>7. s0 \in Full(sigs, A)
  BY <1>5 DEF Full, SignStates
<1> HIDE DEF A
<1>8. /\ req.keys \subseteq sigs
      /\ \A a \in req.active : a \in S \/ Satisfies(acct[a].owner, sigs, T)
      /\ \A a \in req.owner : a \in owner \/ Satisfies(acct[a].owner, sigs, T)
  BY <1>2 DEF GrantedBy
<1>9. s1.s \in Full(sigs, A) /\ s1.ok
  BY <1>3, <1>4, <1>7, <1>8, ActiveComplete
<1> HIDE DEF s1
<1>10. s2.ok
  BY <1>4, <1>8, <1>9, OwnerComplete
<1> QED
  BY <1>6, <1>8, <1>9, <1>10

-----------------------------------------------------------------------------
(* The calls of AuthorityCheck *)

(* What a call finds out about the graph it was made on *)
CallsRight == graph \in Graphs /\ VerifySound /\ VerifyComplete

LEMMA CallsRightStep ==
    ASSUME CallsRight, [CallNext]_callVars
    PROVE  CallsRight'
<1>1. CASE UNCHANGED callVars
  BY <1>1 DEF CallsRight, VerifySound, VerifyComplete, callVars
<1>2. ASSUME NEW req \in Requirements, NEW keys \in SUBSET Keys, NEW active \in Approvals, NEW owner \in Approvals,
             verify(req, keys, active, owner)
      PROVE  CallsRight'
  <2> DEFINE v == verify_authority(graph, req, keys, TRUE, active, owner)
  <2>1. /\ graph' = graph /\ graph \in Graphs
        /\ call' = [kind |-> "verify", req |-> req, keys |-> keys, active |-> active, owner |-> owner, result |-> v]
    BY <1>2 DEF verify, CallsRight
  <2>2. /\ req.active \subseteq Accounts /\ req.owner \subseteq Accounts /\ req.keys \subseteq Keys
        /\ active \in SUBSET Accounts /\ owner \in SUBSET Accounts /\ IsGraph(graph)
    BY <2>1, CallAssumption, GraphAssumption
  <2>3. v = "ok" => Authorized(graph, req, keys, active, owner)
    BY <2>2, VerifyIsSound
  <2>4. AuthorizedWithin(graph, req, keys, active, owner) => v \in {"ok", "tx_irrelevant_sig"}
    BY <2>2, VerifyIsComplete
  <2> HIDE DEF v
  <2>5. /\ call'.req = req /\ call'.keys = keys /\ call'.active = active /\ call'.owner = owner /\ call'.result = v
    BY <2>1
  <2> QED
    BY <2>1, <2>3, <2>4, <2>5 DEF CallsRight, VerifySound, VerifyComplete
<1>3. ASSUME NEW req \in Requirements, NEW keys \in SUBSET Keys, minimize(req, keys) PROVE CallsRight'
  <2>1. graph' = graph /\ call'.kind = "minimize"
    BY <1>3 DEF minimize
  <2> QED
    BY <2>1 DEF CallsRight, VerifySound, VerifyComplete
<1> QED
  BY <1>1, <1>2, <1>3 DEF CallNext

LEMMA CallsAreRight == CallSpec => []CallsRight
<1>1. CallInit => CallsRight
  BY DEF CallInit, CallsRight, VerifySound, VerifyComplete
<1>2. CallsRight /\ [CallNext]_callVars => CallsRight'
  BY CallsRightStep
<1> QED
  BY <1>1, <1>2, PTL DEF CallSpec

(* Whatever the authorities, weights, cycles, signatures and approvals:    *)
(* what verify_authority lets pass, the authorities grant.                 *)
THEOREM VerifySoundTheorem == CallSpec => []VerifySound
<1>1. CallsRight => VerifySound
  BY DEF CallsRight
<1> QED
  BY <1>1, CallsAreRight, PTL

(* Whatever the order in which keys and accounts are looked at, and what   *)
(* the check remembers on its way: verify_authority does not miss what the *)
(* authorities grant within its depth.                                     *)
THEOREM VerifyCompleteTheorem == CallSpec => []VerifyComplete
<1>1. CallsRight => VerifyComplete
  BY DEF CallsRight
<1> QED
  BY <1>1, CallsAreRight, PTL

-----------------------------------------------------------------------------
(* Proposals *)

Money == [Accounts -> Nat]
Moves == [Accounts -> Int]

(* States with the proposals that P allows. *)
States(P) == [acct : Graphs, balance : Money, proposals : P]

(* Lists of operations that transactions and proposals carry. *)
Listed(ops) == ops \in Seq(Range(ops)) /\ \A i \in DOMAIN ops : Valid(ops[i])

LEMMA ListType ==
    ASSUME NEW ops, Listed(ops)
    PROVE  Len(ops) \in Nat /\ DOMAIN ops = 1 .. Len(ops) /\ \A i \in 1 .. Len(ops) : Valid(ops[i])
<1>1. ops \in Seq(Range(ops))
  BY DEF Listed
<1>2. Len(ops) \in Nat /\ DOMAIN ops = 1 .. Len(ops)
  BY ONLY <1>1
<1> QED
  BY <1>2 DEF Listed

-----------------------------------------------------------------------------
(* One operation *)

MoveStep(m, op) == IF op.kind # "transfer" THEN m ELSE [m EXCEPT ![op.payer] = @ - 1, ![op.to] = @ + 1]

OpStep(r, op) ==
    IF r.ok /\ can_apply(r.s, op) THEN [r EXCEPT !.s = apply_operation(@, op)] ELSE [r EXCEPT !.ok = FALSE]

LEMMA MoveType ==
    ASSUME NEW m \in Moves, NEW op, Valid(op)
    PROVE  MoveStep(m, op) \in Moves
BY DEF MoveStep, Moves, Valid

Pay(s, a, b) == [s EXCEPT !.balance[a] = @ - 1, !.balance[b] = @ + 1]

LEMMA TransferOne ==
    ASSUME NEW P, NEW s \in States(P), NEW a \in Accounts, NEW b \in Accounts, a # b, s.balance[a] > 0
    PROVE  /\ Pay(s, a, b) \in States(P) /\ Pay(s, a, b).proposals = s.proposals
           /\ \A c \in Accounts : Pay(s, a, b).balance[c] = IF c = a THEN s.balance[c] - 1
                                                            ELSE IF c = b THEN s.balance[c] + 1 ELSE s.balance[c]
<1> DEFINE x == Pay(s, a, b)
<1>0. x = [s EXCEPT !.balance[a] = @ - 1, !.balance[b] = @ + 1]
  BY DEF Pay
<1> HIDE DEF x
<1> DEFINE m == [s.balance EXCEPT ![a] = s.balance[a] - 1]
           n == [m EXCEPT ![b] = m[b] + 1]
           k == [s EXCEPT !.balance = [s.balance EXCEPT ![a] = s.balance[a] - 1]]
<1>1. k.balance = m /\ s.balance \in Money
  BY DEF States
<1>2. x = [k EXCEPT !.balance = [k.balance EXCEPT ![b] = k.balance[b] + 1]]
  BY <1>0
<1>3. x = [k EXCEPT !.balance = n]
  BY <1>1, <1>2
<1>4. n \in Money /\ \A c \in Accounts : n[c] = IF c = a THEN s.balance[c] - 1
                                         ELSE IF c = b THEN s.balance[c] + 1 ELSE s.balance[c]
  BY <1>1 DEF Money
<1> HIDE DEF m, n
<1>5. x = [s EXCEPT !.balance = n]
  BY <1>3
<1> QED
  BY <1>4, <1>5 DEF States, x

LEMMA ApplyOne ==
    ASSUME NEW P, NEW s \in States(P), NEW op, Valid(op), can_apply(s, op), NEW m \in Moves
    PROVE  /\ apply_operation(s, op) \in States(P) /\ apply_operation(s, op).proposals = s.proposals
           /\ \A a \in Accounts : apply_operation(s, op).balance[a] - s.balance[a] = MoveStep(m, op)[a] - m[a]
<1> DEFINE x == apply_operation(s, op)
<1>0. s.balance \in Money /\ s.acct \in Graphs /\ op.payer \in Accounts
  BY DEF States, Valid
<1>1. CASE op.kind = "transfer"
  <2>1. op.to \in Accounts /\ op.to # op.payer /\ s.balance[op.payer] > 0
    BY <1>1 DEF Valid, can_apply
  <2>2. x = Pay(s, op.payer, op.to)
    BY <1>1 DEF apply_operation, Pay
  <2> HIDE DEF x
  <2>3. /\ x \in States(P) /\ x.proposals = s.proposals
        /\ \A a \in Accounts : x.balance[a] = IF a = op.payer THEN s.balance[a] - 1
                                              ELSE IF a = op.to THEN s.balance[a] + 1 ELSE s.balance[a]
    BY <1>0, <2>1, <2>2, TransferOne
  <2>4. \A a \in Accounts : MoveStep(m, op)[a] = IF a = op.payer THEN m[a] - 1
                                                 ELSE IF a = op.to THEN m[a] + 1 ELSE m[a]
    BY <1>0, <1>1, <2>1 DEF MoveStep, Moves
  <2>5. \A a \in Accounts : s.balance[a] \in Int /\ m[a] \in Int
    BY <1>0 DEF Money, Moves
  <2> QED
    BY <2>3, <2>4, <2>5 DEF x
<1>2. CASE op.kind = "account_update"
  <2> DEFINE g == [s.acct EXCEPT ![op.payer][op.which] = op.au]
  <2>1. x = [s EXCEPT !.acct = g]
    BY <1>2 DEF apply_operation
  <2>2. g \in Graphs
    BY <1>0, <1>2 DEF Valid
  <2>3. MoveStep(m, op) = m
    BY <1>2 DEF MoveStep
  <2> HIDE DEF g, x
  <2>4. x \in States(P) /\ x.proposals = s.proposals /\ x.balance = s.balance
    BY <2>1, <2>2 DEF States
  <2>5. \A a \in Accounts : s.balance[a] \in Int /\ m[a] \in Int
    BY <1>0 DEF Money, Moves
  <2> QED
    BY <2>3, <2>4, <2>5 DEF x
<1> QED
  BY <1>1, <1>2 DEF Valid

-----------------------------------------------------------------------------
(* Lists of operations: what the two folds reach, position by position. *)

LEMMA MovedSteps ==
    ASSUME NEW n \in Moves, NEW ops, Listed(ops)
    PROVE  \E g : /\ g[{}] = n /\ Moved(n, ops) = g[1 .. Len(ops)]
                  /\ \A k \in 1 .. Len(ops) : g[1 .. k] = MoveStep(g[1 .. k - 1], ops[k])
<1> DEFINE len == Len(ops)
           F == [p \in Moves \X (1 .. len) |-> MoveStep(p[1], ops[p[2]])]
<1>1. len \in Nat /\ DOMAIN ops = 1 .. len /\ \A i \in 1 .. len : Valid(ops[i])
  BY ListType
<1>2. \A m \in Moves, i \in 1 .. len : MoveStep(m, ops[i]) \in Moves /\ F[<<m, i>>] = MoveStep(m, ops[i])
  BY <1>1, MoveType
<1> HIDE DEF F
<1> DEFINE Eq(g) == g = [s \in SUBSET (1 .. len) |->
                           IF s = {} THEN n ELSE MoveStep(g[s \ {Max(s)}], ops[Max(s)])]
<1>3. \E g : Eq(g)
  <2>1. PICK G : FoldSolves(G, F, Moves, n, len)
    BY <1>1, <1>2, FoldSolution
  <2>2. G \in [SUBSET (1 .. len) -> Moves]
    BY <2>1 DEF FoldSolves
  <2>3. ASSUME NEW s \in SUBSET (1 .. len)
        PROVE  G[s] = IF s = {} THEN n ELSE MoveStep(G[s \ {Max(s)}], ops[Max(s)])
    <3>1. CASE s # {}
      <4>1. Max(s) \in 1 .. len /\ G[s \ {Max(s)}] \in Moves
        BY <1>1, <2>2, <3>1, MaxUpTo
      <4> QED
        BY <1>2, <2>1, <3>1, <4>1 DEF FoldSolves
    <3> QED
      BY <2>1, <3>1 DEF FoldSolves
  <2>4. Eq(G)
    BY <2>2, <2>3
  <2> QED
    BY <2>4
<1> DEFINE g == CHOOSE g : Eq(g)
<1>4. Moved(n, ops) = g[1 .. len]
  BY <1>1 DEF Moved, FoldLeft, MapThenFoldSet, MoveStep
<1>5. Eq(g)
  BY <1>3
<1> HIDE DEF g
<1>6. g[{}] = n
  BY <1>5
<1>7. ASSUME NEW k \in 1 .. len PROVE g[1 .. k] = MoveStep(g[1 .. k - 1], ops[k])
  <2>1. 1 .. k \in SUBSET (1 .. len) /\ 1 .. k # {} /\ Max(1 .. k) = k /\ (1 .. k) \ {k} = 1 .. k - 1
    BY <1>1, Prefix
  <2> QED
    BY ONLY <1>5, <2>1
<1> QED
  BY <1>4, <1>6, <1>7

Results(P) == [ok : BOOLEAN, s : States(P)]

LEMMA OpType ==
    ASSUME NEW P, NEW r \in Results(P), NEW op, Valid(op)
    PROVE  OpStep(r, op) \in Results(P)
<1> DEFINE m == [a \in Accounts |-> 0]
<1>1. r.s \in States(P) /\ m \in Moves
  BY DEF Results, Moves
<1> HIDE DEF m
<1>2. can_apply(r.s, op) => apply_operation(r.s, op) \in States(P)
  BY <1>1, ApplyOne
<1> QED
  BY <1>2 DEF OpStep, Results

LEMMA OpsSteps ==
    ASSUME NEW P, NEW s \in States(P), NEW ops, Listed(ops)
    PROVE  \E g : /\ g[{}] = [ok |-> TRUE, s |-> s] /\ apply_operations(s, ops) = g[1 .. Len(ops)]
                  /\ \A k \in 1 .. Len(ops) : g[1 .. k] = OpStep(g[1 .. k - 1], ops[k])
<1> DEFINE len == Len(ops)
           A == Results(P)
           base == [ok |-> TRUE, s |-> s]
           F == [p \in A \X (1 .. len) |-> OpStep(p[1], ops[p[2]])]
<1>1. len \in Nat /\ DOMAIN ops = 1 .. len /\ \A i \in 1 .. len : Valid(ops[i])
  BY ListType
<1>b. base \in A
  BY DEF Results
<1> HIDE DEF A
<1>2. \A r \in A, i \in 1 .. len : OpStep(r, ops[i]) \in A /\ F[<<r, i>>] = OpStep(r, ops[i])
  BY <1>1, OpType DEF A
<1> HIDE DEF F, base
<1> DEFINE Eq(g) == g = [u \in SUBSET (1 .. len) |->
                           IF u = {} THEN base ELSE OpStep(g[u \ {Max(u)}], ops[Max(u)])]
<1>3. \E g : Eq(g)
  <2>1. PICK G : FoldSolves(G, F, A, base, len)
    BY <1>1, <1>2, <1>b, FoldSolution
  <2>2. G \in [SUBSET (1 .. len) -> A]
    BY <2>1 DEF FoldSolves
  <2>3. ASSUME NEW u \in SUBSET (1 .. len)
        PROVE  G[u] = IF u = {} THEN base ELSE OpStep(G[u \ {Max(u)}], ops[Max(u)])
    <3>1. CASE u # {}
      <4>1. Max(u) \in 1 .. len /\ G[u \ {Max(u)}] \in A
        BY <1>1, <2>2, <3>1, MaxUpTo
      <4> QED
        BY <1>2, <2>1, <3>1, <4>1 DEF FoldSolves
    <3> QED
      BY <2>1, <3>1 DEF FoldSolves
  <2>4. Eq(G)
    BY <2>2, <2>3
  <2> QED
    BY <2>4
<1> DEFINE g == CHOOSE g : Eq(g)
<1>4. apply_operations(s, ops) = g[1 .. len]
  BY <1>1 DEF apply_operations, FoldLeft, MapThenFoldSet, OpStep, base
<1>5. Eq(g)
  BY <1>3
<1> HIDE DEF g
<1>6. g[{}] = base
  BY <1>5
<1>7. ASSUME NEW k \in 1 .. len PROVE g[1 .. k] = OpStep(g[1 .. k - 1], ops[k])
  <2>1. 1 .. k \in SUBSET (1 .. len) /\ 1 .. k # {} /\ Max(1 .. k) = k /\ (1 .. k) \ {k} = 1 .. k - 1
    BY <1>1, Prefix
  <2> QED
    BY ONLY <1>5, <2>1
<1> QED
  BY <1>4, <1>6, <1>7 DEF base

(* The operations leave proposals alone, and if none fails the balances    *)
(* change by what Moved records.                                           *)
LEMMA ApplyAll ==
    ASSUME NEW P, NEW s \in States(P), NEW n \in Moves, NEW ops, Listed(ops)
    PROVE  /\ apply_operations(s, ops) \in Results({s.proposals}) /\ Moved(n, ops) \in Moves
           /\ apply_operations(s, ops).ok =>
                \A a \in Accounts : apply_operations(s, ops).s.balance[a] - s.balance[a] = Moved(n, ops)[a] - n[a]
<1> DEFINE Q == {s.proposals}
           len == Len(ops)
           Match(r, m) == r.ok => \A a \in Accounts : r.s.balance[a] - s.balance[a] = m[a] - n[a]
<1>1. len \in Nat /\ \A i \in 1 .. len : Valid(ops[i])
  BY ListType
<1>2. s \in States(Q)
  BY DEF States
<1>3. PICK g : /\ g[{}] = [ok |-> TRUE, s |-> s] /\ apply_operations(s, ops) = g[1 .. Len(ops)]
               /\ \A k \in 1 .. Len(ops) : g[1 .. k] = OpStep(g[1 .. k - 1], ops[k])
  BY <1>2, OpsSteps
<1>4. PICK h : /\ h[{}] = n /\ Moved(n, ops) = h[1 .. Len(ops)]
               /\ \A k \in 1 .. Len(ops) : h[1 .. k] = MoveStep(h[1 .. k - 1], ops[k])
  BY MovedSteps
<1> HIDE DEF Q
<1> DEFINE N == {k \in Nat : k <= len => g[1 .. k] \in Results(Q) /\ h[1 .. k] \in Moves /\ Match(g[1 .. k], h[1 .. k])}
<1>5. 0 \in N
  <2>1. 1 .. 0 = {}
    OBVIOUS
  <2>2. g[{}] \in Results(Q) /\ h[{}] \in Moves
    BY <1>2, <1>3, <1>4 DEF Results
  <2>3. \A a \in Accounts : s.balance[a] - s.balance[a] = n[a] - n[a]
    BY <1>2 DEF States, Money, Moves
  <2> QED
    BY <1>3, <1>4, <2>1, <2>2, <2>3
<1>6. ASSUME NEW k \in Nat, k \in N PROVE k + 1 \in N
  <2> SUFFICES ASSUME k + 1 <= len
               PROVE  /\ g[1 .. k + 1] \in Results(Q) /\ h[1 .. k + 1] \in Moves
                      /\ Match(g[1 .. k + 1], h[1 .. k + 1])
    OBVIOUS
  <2> DEFINE r == g[1 .. k]
             m == h[1 .. k]
             op == ops[k + 1]
  <2>1. k + 1 \in 1 .. len /\ (k + 1) - 1 = k /\ k <= len
    BY <1>1
  <2>2. r \in Results(Q) /\ m \in Moves /\ Match(r, m) /\ Valid(op)
    BY <1>1, <1>6, <2>1
  <2>3. g[1 .. k + 1] = OpStep(r, op) /\ h[1 .. k + 1] = MoveStep(m, op)
    BY <1>3, <1>4, <2>1
  <2> HIDE DEF r, m, op
  <2>4. OpStep(r, op) \in Results(Q) /\ MoveStep(m, op) \in Moves
    BY <2>2, OpType, MoveType
  <2>5. Match(OpStep(r, op), MoveStep(m, op))
    <3> DEFINE x == apply_operation(r.s, op)
               y == MoveStep(m, op)
    <3>1. r.s \in States(Q) /\ r.ok \in BOOLEAN
      BY <2>2 DEF Results
    <3>2. CASE r.ok /\ can_apply(r.s, op)
      <4>1. x \in States(Q) /\ \A a \in Accounts : x.balance[a] - r.s.balance[a] = y[a] - m[a]
        BY <2>2, <3>1, <3>2, ApplyOne
      <4>2. \A a \in Accounts : r.s.balance[a] - s.balance[a] = m[a] - n[a]
        BY <2>2, <3>2
      <4> HIDE DEF x, y
      <4>3. \A a \in Accounts : /\ x.balance[a] \in Int /\ r.s.balance[a] \in Int /\ s.balance[a] \in Int
                                /\ y[a] \in Int /\ m[a] \in Int /\ n[a] \in Int
        BY <2>2, <2>4, <3>1, <4>1 DEF States, Money, Moves, y
      <4>4. \A a \in Accounts : x.balance[a] - s.balance[a] = y[a] - n[a]
        <5> TAKE a \in Accounts
        <5>1. x.balance[a] - r.s.balance[a] = y[a] - m[a] /\ r.s.balance[a] - s.balance[a] = m[a] - n[a]
          BY <4>1, <4>2
        <5>2. /\ x.balance[a] \in Int /\ r.s.balance[a] \in Int /\ s.balance[a] \in Int
              /\ y[a] \in Int /\ m[a] \in Int /\ n[a] \in Int
          BY <4>3
        <5> QED
          BY ONLY <5>1, <5>2
      <4>5. OpStep(r, op).s = x
        BY <2>2, <3>2 DEF OpStep, Results, x
      <4> QED
        BY <4>4, <4>5 DEF y
    <3>3. CASE ~ (r.ok /\ can_apply(r.s, op))
      BY <2>2, <3>3 DEF OpStep, Results
    <3> QED
      BY <3>2, <3>3
  <2> QED
    BY <2>3, <2>4, <2>5
<1> HIDE DEF N
<1>7. len \in N
  BY <1>1, <1>5, <1>6, SetInduction
<1> QED
  BY <1>1, <1>3, <1>4, <1>7 DEF N, Q

-----------------------------------------------------------------------------
(* The order of expiration: every finite set of proposals has one. *)

LEMMA Ordered ==
    ASSUME NEW S, IsFiniteSet(S), S \subseteq Nat, \A id \in S : st.proposals[id].exp \in Int
    PROVE  /\ by_expiration(S) \in [1 .. Cardinality(S) -> S] /\ Range(by_expiration(S)) = S
           /\ Cardinality(S) \in Nat
           /\ \A i, j \in 1 .. Cardinality(S) : i < j => by_expiration(S)[i] # by_expiration(S)[j]
<1> DEFINE E(i) == st.proposals[i].exp
           R == {p \in S \X S : earlier(p[1], p[2])}
<1>1. /\ \A i, j \in S : <<i, j>> \in R <=> earlier(i, j)
      /\ \A i, j \in S : earlier(i, j) <=> E(i) < E(j) \/ (E(i) = E(j) /\ i < j)
  BY DEF earlier
<1>2. \A i \in S : E(i) \in Int /\ i \in Nat
  OBVIOUS
<1> HIDE DEF E, R
<1>3. /\ \A i, j \in S : i # j => <<i, j>> \in R \/ <<j, i>> \in R
      /\ \A i, j, k \in S : <<i, j>> \in R /\ <<j, k>> \in R => <<i, k>> \in R
      /\ \A i \in S : <<i, i>> \notin R
  BY <1>1, <1>2
<1>4. PICK s \in [1 .. Cardinality(S) -> S] :
          Range(s) = S /\ \A i, j \in 1 .. Cardinality(S) : i < j => <<s[i], s[j]>> \in R
  BY <1>3, Listing
<1>5. Range(s) = S /\ \A i, j \in DOMAIN s : i < j => earlier(s[i], s[j])
  BY <1>1, <1>4
<1> DEFINE o == by_expiration(S)
<1>6. /\ o \in [1 .. Cardinality(S) -> S] /\ Range(o) = S
      /\ \A i, j \in DOMAIN o : i < j => earlier(o[i], o[j])
  BY <1>5 DEF by_expiration
<1> HIDE DEF o
<1>7. \A i, j \in 1 .. Cardinality(S) : i < j => o[i] # o[j]
  BY <1>1, <1>3, <1>6
<1> QED
  BY <1>6, <1>7, FS_CardinalityType DEF o

-----------------------------------------------------------------------------
(* Proposals *)

Props == [ops : Proposed, exp : Int, active : SUBSET Accounts, owner : SUBSET Accounts,
          keys : SUBSET Keys, review : Int]

(* States with the proposals D. *)
Table(D) == States([D -> Props])

(* Executions of one of the first n proposals. *)
Executions(n) == [id : 1 .. n, at : Nat, exp : Int, review : Int, authorized : {TRUE}]

Balanced(s, n) == \A a \in Accounts : s.balance[a] = Funds[a] + n[a]

(* E holds one execution of a proposal at most, none of a proposal in D,   *)
(* and none before its time.                                               *)
Right(E, D) ==
    /\ \A e \in E : e.review # NoReview => e.at >= e.exp
    /\ \A e, f \in E : e.id = f.id => e = f
    /\ \A e \in E : e.id \notin D

LEMMA ProposedListed == \A ops \in Proposed : Listed(ops)
<1>1. \A ops \in Proposed : ops \in Seq(Range(ops)) /\ \A op \in Range(ops) : Valid(op)
  BY ProposalsAssumption
<1> QED
  BY <1>1 DEF Listed, Range

LEMMA Removed ==
    ASSUME NEW D, NEW s \in Table(D), NEW id
    PROVE  /\ remove(s, id) \in Table(D \ {id})
           /\ remove(s, id).balance = s.balance
           /\ \A j \in D \ {id} : remove(s, id).proposals[j] = s.proposals[j]
<1> DEFINE q == Restrict(s.proposals, DOMAIN s.proposals \ {id})
           x == remove(s, id)
<1>1. s.proposals \in [D -> Props]
  BY DEF Table, States
<1>2. q \in [D \ {id} -> Props] /\ \A j \in D \ {id} : q[j] = s.proposals[j]
  BY <1>1 DEF Restrict
<1>3. x = [s EXCEPT !.proposals = q]
  BY DEF remove
<1> HIDE DEF q, x
<1>4. x \in Table(D \ {id}) /\ x.balance = s.balance /\ x.proposals = q
  BY <1>2, <1>3 DEF Table, States
<1> QED
  BY <1>2, <1>4 DEF x

(* push_proposal does all or nothing. *)
LEMMA Pushed ==
    ASSUME NEW D, NEW s \in Table(D), NEW id \in D, NEW n \in Moves, Balanced(s, n),
           NEW x, x = push_proposal(s, id)
    PROVE  /\ ~ x.ok => x.s = s
           /\ x.ok => /\ x.s \in Table(D \ {id})
                      /\ \A j \in D \ {id} : x.s.proposals[j] = s.proposals[j]
                      /\ Moved(n, s.proposals[id].ops) \in Moves
                      /\ Balanced(x.s, Moved(n, s.proposals[id].ops))
<1> DEFINE ops == s.proposals[id].ops
           r == apply_operations(s, ops)
           m == Moved(n, ops)
<1>1. s.proposals \in [D -> Props] /\ s.proposals[id] \in Props /\ Listed(ops)
  <2>1. s.proposals \in [D -> Props]
    BY DEF Table, States
  <2>2. s.proposals[id] \in Props
    BY <2>1
  <2> QED
    BY <2>1, <2>2, ProposedListed DEF Props
<1>2. x = IF r.ok THEN [ok |-> TRUE, s |-> remove(r.s, id)] ELSE [ok |-> FALSE, s |-> s]
  BY DEF push_proposal
<1> HIDE DEF ops
<1>3. /\ r \in Results({s.proposals}) /\ m \in Moves
      /\ r.ok => \A a \in Accounts : r.s.balance[a] - s.balance[a] = m[a] - n[a]
  <2>1. s \in States([D -> Props])
    BY DEF Table
  <2> QED
    BY <1>1, <2>1, ApplyAll
<1> HIDE DEF r, m
<1>4. ASSUME r.ok
      PROVE  /\ remove(r.s, id) \in Table(D \ {id})
             /\ \A j \in D \ {id} : remove(r.s, id).proposals[j] = s.proposals[j]
             /\ Balanced(remove(r.s, id), m)
  <2>1. r.s \in Table(D) /\ r.s.proposals = s.proposals
    BY <1>1, <1>3 DEF Results, Table, States
  <2>2. /\ remove(r.s, id) \in Table(D \ {id}) /\ remove(r.s, id).balance = r.s.balance
        /\ \A j \in D \ {id} : remove(r.s, id).proposals[j] = r.s.proposals[j]
    BY <2>1, Removed
  <2>3. ASSUME NEW a \in Accounts PROVE r.s.balance[a] = Funds[a] + m[a]
    <3>1. r.s.balance[a] - s.balance[a] = m[a] - n[a] /\ s.balance[a] = Funds[a] + n[a]
      BY <1>3, <1>4 DEF Balanced
    <3>2. r.s.balance[a] \in Int /\ s.balance[a] \in Int /\ m[a] \in Int /\ n[a] \in Int /\ Funds[a] \in Int
      BY <1>3, <2>1, ProposalsAssumption DEF Table, States, Money, Moves
    <3> QED
      BY ONLY <3>1, <3>2
  <2> QED
    BY <2>1, <2>2, <2>3 DEF Balanced
<1> QED
  BY <1>2, <1>3, <1>4 DEF m, ops

(* What is executed was authorised then. *)
LEMMA ExecutionType ==
    ASSUME NEW n, NEW D \in SUBSET (1 .. n), NEW s \in Table(D), NEW id \in D, NEW t \in Nat,
           is_authorized_to_execute(s, id), NEW e, e = Execution(s, id, t)
    PROVE  /\ e \in Executions(n) /\ e.id = id /\ e.at = t
           /\ e.exp = s.proposals[id].exp /\ e.review = s.proposals[id].review
<1> DEFINE p == s.proposals[id]
<1>1. s.acct \in Graphs /\ p \in Props
  <2>1. s.acct \in Graphs /\ s.proposals \in [D -> Props]
    BY DEF Table, States
  <2> QED
    BY <2>1
<1>2. verify_authority(s.acct, required(p.ops), p.keys, TRUE, p.active, p.owner) = "ok"
  BY DEF is_authorized_to_execute
<1>3. e = [id |-> id, at |-> t, exp |-> p.exp, review |-> p.review,
           authorized |-> Authorized(s.acct, required(p.ops), p.keys, p.active, p.owner)]
  BY DEF Execution
<1> HIDE DEF p
<1>4. /\ p.ops \in Proposed /\ p.keys \in SUBSET Keys /\ p.active \in SUBSET Accounts /\ p.owner \in SUBSET Accounts
      /\ p.exp \in Int /\ p.review \in Int
  BY <1>1 DEF Props
<1>5. Authorized(s.acct, required(p.ops), p.keys, p.active, p.owner) = TRUE
  <2> DEFINE req == required(p.ops)
  <2>1. \A i \in DOMAIN p.ops : p.ops[i].payer \in Accounts
    BY <1>4, ProposalsAssumption DEF Valid, Range
  <2>2. req.active \subseteq Accounts /\ req.owner \subseteq Accounts /\ req.keys \subseteq Keys
    BY <2>1 DEF required, Needs
  <2>3. IsGraph(s.acct)
    BY <1>1, GraphAssumption
  <2> HIDE DEF req
  <2>4. verify_authority(s.acct, req, p.keys, TRUE, p.active, p.owner) = "ok"
    BY <1>2 DEF req
  <2>5. Authorized(s.acct, req, p.keys, p.active, p.owner)
    BY <1>4, <2>2, <2>3, <2>4, VerifyIsSound
  <2>6. Authorized(s.acct, req, p.keys, p.active, p.owner) \in BOOLEAN
    BY DEF Authorized, GrantedBy
  <2> QED
    BY <2>5, <2>6 DEF req
<1>6. id \in 1 .. n
  OBVIOUS
<1> QED
  <2>1. e \in Executions(n) /\ e.id = id /\ e.at = t /\ e.exp = p.exp /\ e.review = p.review
    <3>1. e = [id |-> id, at |-> t, exp |-> p.exp, review |-> p.review, authorized |-> TRUE]
      BY ONLY <1>3, <1>5
    <3> QED
      BY ONLY <1>4, <1>6, <3>1, t \in Nat DEF Executions
  <2> QED
    BY <2>1 DEF p

-----------------------------------------------------------------------------
(* Expired proposals *)

Visit(r, id, t) ==
    LET x == push_proposal(r.s, id)
    IN  IF ~ is_authorized_to_execute(r.s, id) THEN [r EXCEPT !.s = remove(@, id)]
        ELSE IF ~ x.ok THEN [r EXCEPT !.s = remove(x.s, id)]
        ELSE [s |-> x.s, net |-> Moved(r.net, st.proposals[id].ops),
              executed |-> r.executed \cup {Execution(r.s, id, t)}]

(* What the fold may have reached when the proposals D are left. *)
Reached(D, n) ==
    {r \in [s : Table(D), net : Moves, executed : SUBSET Executions(n)] :
        /\ Balanced(r.s, r.net) /\ Right(r.executed, D)
        /\ \A id \in D : r.s.proposals[id] = st.proposals[id]}

LEMMA Fewer ==
    ASSUME NEW E, NEW D, Right(E, D), NEW id
    PROVE  Right(E, D \ {id})
BY DEF Right

LEMMA OneMore ==
    ASSUME NEW E, NEW D, Right(E, D), NEW id \in D, NEW e, e.id = id, e.review # NoReview => e.at >= e.exp
    PROVE  Right(E \cup {e}, D \ {id})
BY DEF Right

LEMMA VisitReaches ==
    ASSUME NEW n, NEW D \in SUBSET (1 .. n), NEW id \in D, NEW t \in Nat, NEW r \in Reached(D, n),
           st.proposals[id].exp <= t
    PROVE  Visit(r, id, t) \in Reached(D \ {id}, n)
<1> DEFINE x == push_proposal(r.s, id)
           e == Execution(r.s, id, t)
           v == Visit(r, id, t)
<1>1. /\ r.s \in Table(D) /\ r.net \in Moves /\ r.executed \in SUBSET Executions(n)
      /\ Balanced(r.s, r.net) /\ Right(r.executed, D) /\ \A j \in D : r.s.proposals[j] = st.proposals[j]
      /\ r \in [s : Table(D), net : Moves, executed : SUBSET Executions(n)]
  BY DEF Reached
<1>2. ASSUME v = [r EXCEPT !.s = remove(r.s, id)]
      PROVE  v \in Reached(D \ {id}, n)
  <2> DEFINE y == remove(r.s, id)
  <2>1. /\ y \in Table(D \ {id}) /\ y.balance = r.s.balance
        /\ \A j \in D \ {id} : y.proposals[j] = r.s.proposals[j]
    BY ONLY <1>1, Removed
  <2>2. Balanced(y, r.net) /\ Right(r.executed, D \ {id})
    BY <1>1, <2>1, Fewer DEF Balanced
  <2> HIDE DEF y, v
  <2>3. v.s = y /\ v.net = r.net /\ v.executed = r.executed
        /\ v \in [s : Table(D \ {id}), net : Moves, executed : SUBSET Executions(n)]
    BY <1>1, <1>2, <2>1 DEF y
  <2> QED
    BY <1>1, <2>1, <2>2, <2>3 DEF Reached
<1>3. /\ ~ x.ok => x.s = r.s
      /\ x.ok => /\ x.s \in Table(D \ {id})
                 /\ \A j \in D \ {id} : x.s.proposals[j] = r.s.proposals[j]
                 /\ Moved(r.net, r.s.proposals[id].ops) \in Moves
                 /\ Balanced(x.s, Moved(r.net, r.s.proposals[id].ops))
  BY <1>1, Pushed
<1>4. v = IF ~ is_authorized_to_execute(r.s, id) THEN [r EXCEPT !.s = remove(r.s, id)]
          ELSE IF ~ x.ok THEN [r EXCEPT !.s = remove(x.s, id)]
          ELSE [s |-> x.s, net |-> Moved(r.net, st.proposals[id].ops), executed |-> r.executed \cup {e}]
  BY DEF Visit
<1> HIDE DEF x, v
<1>5. CASE ~ is_authorized_to_execute(r.s, id) \/ ~ x.ok
  BY <1>2, <1>3, <1>4, <1>5 DEF v
<1>6. CASE is_authorized_to_execute(r.s, id) /\ x.ok
  <2> DEFINE m == Moved(r.net, r.s.proposals[id].ops)
  <2>1. v = [s |-> x.s, net |-> m, executed |-> r.executed \cup {e}]
    BY <1>1, <1>4, <1>6
  <2>2. /\ e \in Executions(n) /\ e.id = id /\ e.at = t
        /\ e.exp = r.s.proposals[id].exp /\ e.review = r.s.proposals[id].review
    BY <1>1, <1>6, ExecutionType
  <2> HIDE DEF e, m
  <2>3. e.at >= e.exp
    BY <1>1, <2>2 DEF Executions
  <2>4. Right(r.executed \cup {e}, D \ {id})
    BY <1>1, <2>2, <2>3, OneMore
  <2>5. /\ x.s \in Table(D \ {id}) /\ \A j \in D \ {id} : x.s.proposals[j] = st.proposals[j]
        /\ m \in Moves /\ Balanced(x.s, m)
    BY <1>1, <1>3, <1>6 DEF m
  <2> QED
    BY <1>1, <2>1, <2>2, <2>4, <2>5, SMTT(30) DEF Reached, v
<1> QED
  BY <1>5, <1>6

(* The pass over the expired proposals. *)
LEMMA ClearExpired ==
    ASSUME NEW n \in Nat, DOMAIN st.proposals \subseteq 1 .. n, NEW t \in Nat,
           [s |-> st, net |-> net, executed |-> executed] \in Reached(DOMAIN st.proposals, n)
    PROVE  clear_expired_proposals(t) \in Reached(DOMAIN st.proposals \ expired(t), n)
<1> DEFINE D == DOMAIN st.proposals
           E == expired(t)
           o == by_expiration(E)
           c == Cardinality(E)
           base == [s |-> st, net |-> net, executed |-> executed]
           Left(u) == D \ {o[i] : i \in u}
           A == [u \in SUBSET (1 .. c) |-> Reached(Left(u), n)]
           All == UNION {A[u] : u \in SUBSET (1 .. c)}
           F == [p \in All \X (1 .. c) |-> Visit(p[1], o[p[2]], t)]
<1>1. E \subseteq D /\ D \subseteq 1 .. n /\ IsFiniteSet(E) /\ \A id \in E : st.proposals[id].exp <= t
  <2>1. IsFiniteSet(1 .. n)
    BY FS_Interval
  <2> QED
    BY <2>1, FS_Subset DEF expired
<1>2. \A id \in D : st.proposals[id].exp \in Int
  <2>1. st.proposals \in [D -> Props]
    BY DEF Reached, Table, States
  <2> QED
    BY <2>1 DEF Props
<1>3. /\ c \in Nat /\ o \in [1 .. c -> E] /\ Range(o) = E
      /\ \A i, j \in 1 .. c : i < j => o[i] # o[j]
  <2>1. E \subseteq Nat /\ \A id \in E : st.proposals[id].exp \in Int
    BY <1>1, <1>2
  <2> HIDE DEF E
  <2> QED
    BY <1>1, <2>1, Ordered
<1>4. base \in Reached(D, n)
  OBVIOUS
<1> HIDE DEF E, o, c, base
<1>5. base \in A[{}]
  <2>1. Left({}) = D
    OBVIOUS
  <2> QED
    BY <1>4, <2>1
<1>6. ASSUME NEW i \in 1 .. c, NEW u \in SUBSET (1 .. i - 1), NEW a \in A[u]
      PROVE  Visit(a, o[i], t) \in A[u \cup {i}] /\ F[<<a, i>>] = Visit(a, o[i], t)
  <2>1. u \in SUBSET (1 .. c) /\ u \cup {i} \in SUBSET (1 .. c) /\ \A j \in u : j \in 1 .. c /\ j < i
    <3>1. ASSUME NEW j \in u PROVE j \in 1 .. c /\ j < i
      BY ONLY <1>3, i \in 1 .. c, u \in SUBSET (1 .. i - 1), j \in u
    <3> QED
      BY <3>1
  <2>2. o[i] \in Left(u) /\ Left(u \cup {i}) = Left(u) \ {o[i]} /\ Left(u) \in SUBSET (1 .. n)
    <3>1. o[i] \in D /\ \A j \in u : o[j] # o[i]
      BY <1>1, <1>3, <2>1
    <3> QED
      BY <1>1, <3>1
  <2>3. st.proposals[o[i]].exp <= t
    BY <1>1, <1>3
  <2>4. a \in Reached(Left(u), n) /\ a \in All
    BY <1>6, <2>1
  <2> HIDE DEF Left
  <2>5. Visit(a, o[i], t) \in Reached(Left(u) \ {o[i]}, n)
    BY <2>2, <2>3, <2>4, VisitReaches
  <2>6. Visit(a, o[i], t) \in A[u \cup {i}]
    BY <2>1, <2>2, <2>5
  <2> HIDE DEF A, All
  <2> QED
    BY <2>4, <2>6
<1>7. ASSUME NEW u \in SUBSET (1 .. c), u # {}
      PROVE  Max(u) \in 1 .. c /\ u \ {Max(u)} \in SUBSET (1 .. Max(u) - 1)
  <2>1. Max(u) \in u /\ \A i \in u : i <= Max(u)
    BY <1>3, <1>7, MaxUpTo
  <2>2. Max(u) \in 1 .. c
    BY <2>1
  <2>3. ASSUME NEW i \in u \ {Max(u)} PROVE i \in 1 .. Max(u) - 1
    <3>1. i \in 1 .. c /\ i <= Max(u) /\ i # Max(u)
      BY <2>1, <2>3
    <3> QED
      BY <1>3, <2>2, <3>1
  <2> QED
    BY <2>2, <2>3
<1> HIDE DEF F, A
<1> DEFINE Eq(g) == g = [u \in SUBSET (1 .. c) |->
                           IF u = {} THEN base ELSE Visit(g[u \ {Max(u)}], o[Max(u)], t)]
<1>8. \E g : Eq(g) /\ \A u \in SUBSET (1 .. c) : g[u] \in A[u]
  <2>1. PICK G : FoldSolvesBy(G, F, A, base, c)
    <3>1. \A i \in 1 .. c : \A u \in SUBSET (1 .. i - 1) : \A a \in A[u] : F[<<a, i>>] \in A[u \cup {i}]
      BY <1>6
    <3> QED
      BY <1>3, <1>5, <3>1, FoldSolutionBy
  <2>2. /\ G = [u \in SUBSET (1 .. c) |-> G[u]] /\ \A u \in SUBSET (1 .. c) : G[u] \in A[u]
        /\ \A u \in SUBSET (1 .. c) : G[u] = IF u = {} THEN base ELSE F[<<G[u \ {Max(u)}], Max(u)>>]
    BY <2>1 DEF FoldSolvesBy
  <2>3. ASSUME NEW u \in SUBSET (1 .. c)
        PROVE  G[u] = IF u = {} THEN base ELSE Visit(G[u \ {Max(u)}], o[Max(u)], t)
    <3>1. CASE u # {}
      <4>1. Max(u) \in 1 .. c /\ u \ {Max(u)} \in SUBSET (1 .. Max(u) - 1)
        BY <1>7, <3>1
      <4>2. G[u \ {Max(u)}] \in A[u \ {Max(u)}]
        BY <2>2
      <4> QED
        BY <1>6, <2>2, <3>1, <4>1, <4>2
    <3> QED
      BY <2>2, <3>1
  <2>4. Eq(G)
    BY <2>2, <2>3
  <2> QED
    BY <2>2, <2>4
<1> DEFINE g == CHOOSE g : Eq(g)
<1>9. clear_expired_proposals(t) = g[1 .. c]
  BY <1>3 DEF clear_expired_proposals, FoldLeft, MapThenFoldSet, Visit, base, E, o
<1>10. Eq(g)
  BY <1>8
<1> HIDE DEF g
<1>11. g[1 .. c] \in A[1 .. c]
  <2> DEFINE N == {k \in Nat : k <= c => g[1 .. k] \in A[1 .. k]}
  <2>1. 0 \in N
    <3>1. 1 .. 0 = {}
      OBVIOUS
    <3>2. g[{}] = base
      BY <1>10
    <3> QED
      BY <1>5, <3>1, <3>2
  <2>2. ASSUME NEW k \in Nat, k \in N PROVE k + 1 \in N
    <3> SUFFICES ASSUME k + 1 <= c PROVE g[1 .. k + 1] \in A[1 .. k + 1]
      OBVIOUS
    <3>1. k + 1 \in 1 .. c /\ (k + 1) - 1 = k /\ k <= c
      BY <1>3
    <3>2. /\ 1 .. k + 1 \in SUBSET (1 .. c) /\ 1 .. k + 1 # {} /\ Max(1 .. k + 1) = k + 1
          /\ (1 .. k + 1) \ {k + 1} = 1 .. k
      BY <1>3, <3>1, Prefix
    <3>3. g[1 .. k + 1] = Visit(g[1 .. k], o[k + 1], t)
      BY ONLY <1>10, <3>2
    <3>4. (1 .. k) \cup {k + 1} = 1 .. k + 1 /\ 1 .. k \in SUBSET (1 .. (k + 1) - 1)
      BY <3>1
    <3> QED
      <4>1. g[1 .. k] \in A[1 .. k]
        BY <2>2, <3>1
      <4>2. Visit(g[1 .. k], o[k + 1], t) \in A[(1 .. k) \cup {k + 1}]
        BY <1>6, <3>1, <3>4, <4>1
      <4> QED
        BY <3>3, <3>4, <4>2
  <2> HIDE DEF N
  <2>3. c \in N
    BY <1>3, <2>1, <2>2, SetInduction
  <2> QED
    BY <1>3, <2>3 DEF N
<1>12. A[1 .. c] = Reached(D \ E, n)
  <2>1. {o[i] : i \in 1 .. c} = E
    BY <1>3 DEF Range
  <2> QED
    BY <2>1 DEF A
<1> QED
  BY <1>9, <1>11, <1>12 DEF E, D

-----------------------------------------------------------------------------
(* No replay: every transaction applied is in the index or has expired. *)

ReplayInv ==
    /\ time \in Nat /\ ~ replayed
    /\ \A tx \in done : tx.exp \in Int /\ (tx \in dedupe \/ tx.exp < time)

LEMMA AppliedOnce ==
    ASSUME ReplayInv, NEW op, NEW req, NEW exp \in Int, _apply_transaction(op, req, exp)
    PROVE  ReplayInv'
<1> DEFINE tx == [op |-> op, exp |-> exp]
<1>1. /\ tx \notin dedupe /\ time <= exp /\ dedupe' = dedupe \cup {tx} /\ done' = done \cup {tx}
      /\ replayed' = (replayed \/ tx \in done) /\ time' = time
  BY DEF _apply_transaction
<1>2. tx.exp = exp
  OBVIOUS
<1> HIDE DEF tx
<1>3. tx \notin done
  BY <1>1, <1>2 DEF ReplayInv
<1> QED
  BY <1>1, <1>2, <1>3 DEF ReplayInv

LEMMA ReplayNext ==
    ASSUME ReplayInv, [Next]_vars
    PROVE  ReplayInv'
<1>0. Latest \in Int /\ 1 .. MaxTime \subseteq Int /\ time \in Nat
  <2>1. {MaxLife, MinReview, MaxTxLife, Hardfork, MaxTime, MaxProposals, MaxTx} \subseteq Nat
    BY ProposalsAssumption
  <2> QED
    BY <2>1 DEF ReplayInv, Latest
<1>1. ASSUME NEW op, NEW req, NEW exp \in Int, _apply_transaction(op, req, exp) PROVE ReplayInv'
  BY <1>1, AppliedOnce
<1>2. ASSUME NEW a \in Accounts, NEW b \in Accounts, NEW exp \in 1 .. MaxTime, transfer(a, b, exp) PROVE ReplayInv'
  BY <1>0, <1>1, <1>2 DEF transfer
<1>3. ASSUME NEW op \in Updates, account_update(op) PROVE ReplayInv'
  BY <1>0, <1>1, <1>3 DEF account_update
<1>4. ASSUME NEW payer, NEW ops, NEW exp, NEW review, proposal_create(payer, ops, exp, review) PROVE ReplayInv'
  BY <1>0, <1>1, <1>4 DEF proposal_create
<1>5. ASSUME NEW id, NEW payer, NEW field, NEW who, NEW add, proposal_update(id, payer, field, who, add)
      PROVE  ReplayInv'
  BY <1>0, <1>1, <1>5 DEF proposal_update
<1>6. ASSUME NEW id, NEW payer, NEW using_owner, proposal_delete(id, payer, using_owner) PROVE ReplayInv'
  BY <1>0, <1>1, <1>6 DEF proposal_delete
<1>7. CASE _apply_block
  <2>1. /\ time' = time + 1 /\ dedupe' = clear_expired_transactions(time') /\ UNCHANGED <<done, replayed>>
    BY <1>7 DEF _apply_block
  <2>2. ASSUME NEW tx \in done PROVE tx.exp \in Int /\ (tx \in dedupe' \/ tx.exp < time')
    <3>1. tx.exp \in Int /\ (tx \in dedupe \/ tx.exp < time)
      BY DEF ReplayInv
    <3>2. CASE tx.exp < time
      BY <1>0, <2>1, <3>1, <3>2
    <3>3. CASE tx \in dedupe
      <4>1. CASE \A d \in dedupe : time' > d.exp
        BY <1>0, <2>1, <3>1, <3>3, <4>1
      <4>2. CASE ~ \A d \in dedupe : time' > d.exp
        <5>1. dedupe' = dedupe
          BY <2>1, <4>2 DEF clear_expired_transactions
        <5> QED
          BY <3>1, <3>3, <5>1
      <4> QED
        BY <4>1, <4>2
    <3> QED
      BY <3>1, <3>2, <3>3
  <2> QED
    BY <1>0, <2>1, <2>2 DEF ReplayInv
<1>8. CASE UNCHANGED vars
  BY <1>8 DEF ReplayInv, vars
<1> QED
  BY <1>2, <1>3, <1>4, <1>5, <1>6, <1>7, <1>8 DEF Next

-----------------------------------------------------------------------------
(* The invariant of accounts, balances and proposals. *)

Known == DOMAIN st.proposals

ProposalInv ==
    /\ time \in Nat /\ next_id \in Nat \ {0} /\ Known \subseteq 1 .. next_id - 1
    /\ st \in Table(Known) /\ net \in Moves /\ executed \subseteq Executions(next_id - 1)
    /\ Balanced(st, net) /\ Right(executed, Known)

LEMMA MakeInv ==
    ASSUME time' \in Nat, next_id' \in Nat \ {0}, NEW D, D \subseteq 1 .. next_id' - 1,
           st' \in Table(D), net' \in Moves, executed' \subseteq Executions(next_id' - 1),
           Balanced(st', net'), Right(executed', D)
    PROVE  ProposalInv' /\ Known' = D
<1>1. Known' = D
  <2>1. st'.proposals \in [D -> Props]
    BY DEF Table, States
  <2> QED
    BY <2>1 DEF Known
<1> QED
  BY <1>1 DEF ProposalInv

(* A step that leaves the proposals D and executes none. *)
LEMMA Kept ==
    ASSUME ProposalInv, NEW D, D \subseteq Known, time' \in Nat, next_id' = next_id,
           st' \in Table(D), net' \in Moves, executed' = executed, Balanced(st', net')
    PROVE  ProposalInv' /\ Known' = D
<1>1. /\ next_id \in Nat \ {0} /\ Known \subseteq 1 .. next_id - 1
      /\ executed \subseteq Executions(next_id - 1) /\ Right(executed, Known)
  BY DEF ProposalInv
<1>2. Right(executed, D)
  BY <1>1 DEF Right
<1> QED
  BY <1>1, <1>2, MakeInv

(* What ReviewFreezes says of a step, and steps of which it is plain. *)
Frozen ==
    \A id \in DOMAIN st.proposals \cap DOMAIN st.proposals' :
        InReview(st.proposals[id], time) =>
            /\ st.proposals'[id].active \subseteq st.proposals[id].active
            /\ st.proposals'[id].owner \subseteq st.proposals[id].owner

LEMMA LeftAlone ==
    ASSUME \A id \in Known \cap Known' : st'.proposals[id] = st.proposals[id]
    PROVE  Frozen
BY DEF Frozen, Known

LEMMA OperationKeeps ==
    ASSUME ProposalInv, NEW op, Valid(op), can_apply(st, op), st' = apply_operation(st, op),
           net' = MoveStep(net, op), UNCHANGED <<time, next_id, executed>>
    PROVE  ProposalInv' /\ Frozen
<1>1. /\ time \in Nat /\ st \in Table(Known) /\ net \in Moves /\ Balanced(st, net)
  BY DEF ProposalInv
<1>2. st \in States([Known -> Props])
  BY <1>1 DEF Table
<1>3. /\ st' \in States([Known -> Props]) /\ st'.proposals = st.proposals /\ net' \in Moves
      /\ \A a \in Accounts : st'.balance[a] - st.balance[a] = net'[a] - net[a]
  BY <1>1, <1>2, ApplyOne, MoveType
<1>4. Balanced(st', net')
  <2>1. ASSUME NEW a \in Accounts PROVE st'.balance[a] = Funds[a] + net'[a]
    <3>1. st'.balance[a] - st.balance[a] = net'[a] - net[a] /\ st.balance[a] = Funds[a] + net[a]
      BY <1>1, <1>3 DEF Balanced
    <3>2. /\ st'.balance[a] \in Int /\ st.balance[a] \in Int /\ net'[a] \in Int /\ net[a] \in Int
          /\ Funds[a] \in Int
      BY <1>1, <1>2, <1>3, ProposalsAssumption DEF States, Money, Moves
    <3> QED
      BY ONLY <3>1, <3>2
  <2> QED
    BY <2>1 DEF Balanced
<1>5. st' \in Table(Known)
  BY <1>3 DEF Table
<1>6. ProposalInv'
  BY <1>1, <1>3, <1>4, <1>5, Kept
<1> QED
  BY <1>3, <1>6, LeftAlone

LEMMA TransferKeeps ==
    ASSUME ProposalInv, NEW a \in Accounts, NEW b \in Accounts, NEW exp, a # b, transfer(a, b, exp)
    PROVE  ProposalInv' /\ Frozen
<1> DEFINE op == Transfer(a, b)
<1>1. /\ can_apply(st, op) /\ st' = apply_operation(st, op) /\ net' = Moved(net, <<op>>)
      /\ UNCHANGED <<time, next_id, executed>>
  BY DEF transfer, _apply_transaction
<1>2. Valid(op)
  BY DEF Valid, Transfer
<1> HIDE DEF op
<1>3. Moved(net, <<op>>) = MoveStep(net, op)
  <2>1. Listed(<<op>>) /\ Len(<<op>>) = 1 /\ <<op>>[1] = op
    <3>1. DOMAIN <<op>> = {1} /\ <<op>>[1] = op /\ Len(<<op>>) = 1
      OBVIOUS
    <3>2. Range(<<op>>) = {op}
      BY <3>1 DEF Range
    <3> QED
      BY <1>2, <3>1, <3>2 DEF Listed
  <2>2. net \in Moves
    BY DEF ProposalInv
  <2>3. PICK g : /\ g[{}] = net /\ Moved(net, <<op>>) = g[1 .. Len(<<op>>)]
                 /\ \A k \in 1 .. Len(<<op>>) : g[1 .. k] = MoveStep(g[1 .. k - 1], <<op>>[k])
    BY <2>1, <2>2, MovedSteps
  <2>4. 1 \in 1 .. Len(<<op>>) /\ 1 .. 1 - 1 = {}
    BY <2>1
  <2>5. g[1 .. 1] = MoveStep(g[1 .. 1 - 1], <<op>>[1])
    BY <2>3, <2>4
  <2> QED
    BY <2>1, <2>3, <2>4, <2>5
<1> QED
  BY <1>1, <1>2, <1>3, OperationKeeps

LEMMA UpdateKeeps ==
    ASSUME ProposalInv, NEW op \in Updates, account_update(op)
    PROVE  ProposalInv' /\ Frozen
<1>1. op.kind = "account_update" /\ Valid(op)
  BY ProposalsAssumption
<1>2. can_apply(st, op) /\ MoveStep(net, op) = net
  BY <1>1 DEF can_apply, MoveStep
<1>3. st' = apply_operation(st, op) /\ net' = MoveStep(net, op) /\ UNCHANGED <<time, next_id, executed>>
  BY <1>2 DEF account_update, _apply_transaction
<1> QED
  BY <1>1, <1>2, <1>3, OperationKeeps

LEMMA CreateKeeps ==
    ASSUME ProposalInv, NEW payer, NEW ops \in Proposed, NEW exp \in 1 .. MaxTime, NEW review \in Reviews,
           proposal_create(payer, ops, exp, review)
    PROVE  ProposalInv' /\ Frozen
<1> DEFINE D == Known \cup {next_id}
           p == [ops |-> ops, exp |-> exp, active |-> {}, owner |-> {}, keys |-> {},
                 review |-> IF review = NoReview THEN NoReview ELSE exp - review]
           q == [id \in D |-> IF id = next_id THEN p ELSE st.proposals[id]]
<1>1. /\ st' = [st EXCEPT !.proposals = q] /\ next_id' = next_id + 1
      /\ UNCHANGED <<time, net, executed>>
  BY DEF proposal_create, _apply_transaction, Known
<1>2. /\ time \in Nat /\ next_id \in Nat \ {0} /\ Known \subseteq 1 .. next_id - 1
      /\ st \in Table(Known) /\ net \in Moves /\ executed \subseteq Executions(next_id - 1)
      /\ Balanced(st, net) /\ Right(executed, Known)
  BY DEF ProposalInv
<1>3. st.proposals \in [Known -> Props]
  BY <1>2 DEF Table, States
<1>4. p \in Props
  <2>1. review \in Int /\ NoReview \in Int /\ exp \in Int
    BY ProposalsAssumption DEF NoReview
  <2> QED
    BY <2>1 DEF Props
<1> HIDE DEF p
<1>5. q \in [D -> Props] /\ \A id \in Known : q[id] = st.proposals[id]
  <2>1. next_id \notin Known
    BY <1>2
  <2>2. ASSUME NEW id \in D PROVE q[id] \in Props
    BY ONLY <1>3, <1>4, id \in D
  <2>3. q = [id \in D |-> q[id]]
    OBVIOUS
  <2>4. ASSUME NEW id \in Known PROVE q[id] = st.proposals[id]
    BY ONLY <2>1, id \in Known
  <2> HIDE DEF q, D
  <2> QED
    BY <2>2, <2>3, <2>4
<1> HIDE DEF q
<1>6. st' \in Table(D) /\ st'.balance = st.balance /\ st'.proposals = q
  BY <1>1, <1>2, <1>5 DEF Table, States
<1>7. D \subseteq 1 .. next_id' - 1 /\ next_id' \in Nat \ {0}
  BY <1>1, <1>2
<1>8. /\ executed' \subseteq Executions(next_id' - 1) /\ Right(executed', D)
  <2>1. \A e \in executed : e \in Executions(next_id - 1)
    BY <1>2
  <2>2. \A e \in executed : e.id \in 1 .. next_id - 1
    BY <2>1 DEF Executions
  <2>3. \A e \in executed : e.id # next_id
    BY <1>2, <2>2
  <2>4. Right(executed, D)
    BY <1>2, <2>3 DEF Right
  <2>5. 1 .. next_id - 1 \subseteq 1 .. next_id' - 1
    BY <1>1, <1>2
  <2>6. \A e \in executed : e \in Executions(next_id' - 1)
    BY <2>1, <2>5 DEF Executions
  <2> QED
    BY <1>1, <2>4, <2>6
<1>9. Balanced(st', net')
  BY <1>1, <1>2, <1>6 DEF Balanced
<1>10. ProposalInv'
  BY <1>1, <1>2, <1>6, <1>7, <1>8, <1>9, MakeInv
<1> QED
  BY <1>5, <1>6, <1>10, LeftAlone

LEMMA DeleteKeeps ==
    ASSUME ProposalInv, NEW id, NEW payer, NEW using_owner, proposal_delete(id, payer, using_owner)
    PROVE  ProposalInv' /\ Frozen
<1>1. st' = remove(st, id) /\ UNCHANGED <<time, next_id, net, executed>>
  BY DEF proposal_delete, _apply_transaction
<1>2. time \in Nat /\ st \in Table(Known) /\ net \in Moves /\ Balanced(st, net)
  BY DEF ProposalInv
<1>3. /\ st' \in Table(Known \ {id}) /\ st'.balance = st.balance
      /\ \A j \in Known \ {id} : st'.proposals[j] = st.proposals[j]
  BY <1>1, <1>2, Removed
<1>4. Balanced(st', net')
  BY <1>1, <1>2, <1>3 DEF Balanced
<1>5. ProposalInv' /\ Known' = Known \ {id}
  BY <1>1, <1>2, <1>3, <1>4, Kept
<1> QED
  BY <1>3, <1>5, LeftAlone

(* One approval more or less. *)
Signed(s, id, field, who, add) ==
    [s EXCEPT !.proposals[id][field] = IF add THEN @ \cup {who} ELSE @ \ {who}]

Who(field) == IF field = "keys" THEN Keys ELSE Accounts

LEMMA SignedType ==
    ASSUME NEW D, NEW s \in Table(D), NEW id \in D, NEW field \in {"active", "owner", "keys"},
           NEW who \in Who(field), NEW add \in BOOLEAN, NEW x, x = Signed(s, id, field, who, add)
    PROVE  /\ x \in Table(D) /\ x.balance = s.balance
           /\ \A j \in D \ {id} : x.proposals[j] = s.proposals[j]
           /\ x.proposals[id].ops = s.proposals[id].ops /\ x.proposals[id].review = s.proposals[id].review
           /\ ~ add \/ field = "keys" => /\ x.proposals[id].active \subseteq s.proposals[id].active
                                         /\ x.proposals[id].owner \subseteq s.proposals[id].owner
<1> DEFINE p == s.proposals[id]
           v == IF add THEN p[field] \cup {who} ELSE p[field] \ {who}
           q == [p EXCEPT ![field] = v]
           m == [s.proposals EXCEPT ![id] = q]
<1>1. s.proposals \in [D -> Props] /\ p \in Props
  BY DEF Table, States
<1>2. x = [s EXCEPT !.proposals = m]
  BY DEF Signed
<1> HIDE DEF p
<1>3. /\ q \in Props /\ q.ops = p.ops /\ q.review = p.review
      /\ ~ add \/ field = "keys" => q.active \subseteq p.active /\ q.owner \subseteq p.owner
  <2>1. CASE field = "active"
    <3>1. q = [p EXCEPT !.active = IF add THEN p.active \cup {who} ELSE p.active \ {who}] /\ who \in Accounts
      BY <2>1 DEF Who
    <3> QED
      BY <1>1, <2>1, <3>1 DEF Props
  <2>2. CASE field = "owner"
    <3>1. q = [p EXCEPT !.owner = IF add THEN p.owner \cup {who} ELSE p.owner \ {who}] /\ who \in Accounts
      BY <2>2 DEF Who
    <3> QED
      BY <1>1, <2>2, <3>1 DEF Props
  <2>3. CASE field = "keys"
    <3>1. q = [p EXCEPT !.keys = IF add THEN p.keys \cup {who} ELSE p.keys \ {who}] /\ who \in Keys
      BY <2>3 DEF Who
    <3> QED
      BY <1>1, <2>3, <3>1 DEF Props
  <2> QED
    BY <2>1, <2>2, <2>3
<1> HIDE DEF q
<1>4. m \in [D -> Props] /\ m[id] = q /\ \A j \in D \ {id} : m[j] = s.proposals[j]
  BY <1>1, <1>3
<1> HIDE DEF m
<1>5. x \in Table(D) /\ x.balance = s.balance /\ x.proposals = m
  BY <1>2, <1>4 DEF Table, States
<1> QED
  BY <1>3, <1>4, <1>5 DEF p

LEMMA ApprovalKeeps ==
    ASSUME ProposalInv, NEW id \in Known, NEW payer, NEW field \in {"active", "owner", "keys"},
           NEW who \in Who(field), NEW add \in BOOLEAN, proposal_update(id, payer, field, who, add)
    PROVE  ProposalInv' /\ Frozen
<1> DEFINE p == st.proposals[id]
           x == Signed(st, id, field, who, add)
           r == push_proposal(x, id)
           e == Execution(x, id, time)
           go == executes_now(p) /\ is_authorized_to_execute(x, id)
<1>1. /\ may_update(p, field, who, add) /\ UNCHANGED <<time, next_id>>
      /\ st' = (IF go THEN r.s ELSE x)
      /\ net' = (IF go /\ r.ok THEN Moved(net, p.ops) ELSE net)
      /\ executed' = (IF go /\ r.ok THEN executed \cup {e} ELSE executed)
  BY DEF proposal_update, _apply_transaction, Signed
<1>2. /\ time \in Nat /\ next_id \in Nat \ {0} /\ Known \subseteq 1 .. next_id - 1
      /\ st \in Table(Known) /\ net \in Moves /\ executed \subseteq Executions(next_id - 1)
      /\ Balanced(st, net) /\ Right(executed, Known)
  BY DEF ProposalInv
<1>3. /\ x \in Table(Known) /\ x.balance = st.balance
      /\ \A j \in Known \ {id} : x.proposals[j] = st.proposals[j]
      /\ x.proposals[id].ops = p.ops /\ x.proposals[id].review = p.review
      /\ ~ add \/ field = "keys" => /\ x.proposals[id].active \subseteq p.active
                                    /\ x.proposals[id].owner \subseteq p.owner
  BY <1>2, SignedType
<1> HIDE DEF x
<1>4. Balanced(x, net)
  BY <1>2, <1>3 DEF Balanced
<1>5. /\ ~ r.ok => r.s = x
      /\ r.ok => /\ r.s \in Table(Known \ {id})
                 /\ \A j \in Known \ {id} : r.s.proposals[j] = x.proposals[j]
                 /\ Moved(net, x.proposals[id].ops) \in Moves
                 /\ Balanced(r.s, Moved(net, x.proposals[id].ops))
  BY <1>2, <1>3, <1>4, Pushed
<1> HIDE DEF r
<1>6. CASE go /\ r.ok
  <2>1. st' = r.s /\ net' = Moved(net, x.proposals[id].ops) /\ executed' = executed \cup {e}
    BY <1>1, <1>3, <1>6
  <2>2. e \in Executions(next_id - 1) /\ e.id = id /\ e.review = NoReview
    <3>1. Known \in SUBSET (1 .. next_id - 1)
      BY <1>2
    <3>2. e \in Executions(next_id - 1) /\ e.id = id /\ e.review = x.proposals[id].review
      BY <1>2, <1>3, <1>6, <3>1, ExecutionType
    <3> QED
      BY <1>3, <1>6, <3>2 DEF executes_now
  <2> HIDE DEF e
  <2>3. Right(executed \cup {e}, Known \ {id})
    BY <1>2, <2>2, OneMore
  <2>4. ProposalInv' /\ Known' = Known \ {id}
    <3>1. /\ time' \in Nat /\ next_id' \in Nat \ {0} /\ Known \ {id} \subseteq 1 .. next_id' - 1
          /\ executed' \subseteq Executions(next_id' - 1)
      BY <1>1, <1>2, <2>1, <2>2
    <3>2. /\ st' \in Table(Known \ {id}) /\ net' \in Moves /\ Balanced(st', net')
          /\ Right(executed', Known \ {id})
      BY <1>5, <1>6, <2>1, <2>3
    <3> QED
      BY <3>1, <3>2, MakeInv
  <2>5. \A j \in Known \ {id} : st'.proposals[j] = st.proposals[j]
    BY <1>3, <1>5, <1>6, <2>1
  <2> QED
    BY <2>4, <2>5, LeftAlone
<1>7. CASE ~ (go /\ r.ok)
  <2>1. st' = x /\ net' = net /\ executed' = executed
    BY <1>1, <1>5, <1>7
  <2>2. ProposalInv' /\ Known' = Known
    BY <1>1, <1>2, <1>3, <1>4, <2>1, Kept
  <2>3. ASSUME InReview(p, time) PROVE ~ add \/ field = "keys"
    BY <1>1, <2>3 DEF may_update
  <2>4. Frozen
    <3>1. ASSUME NEW j \in Known, InReview(st.proposals[j], time)
          PROVE  /\ st'.proposals[j].active \subseteq st.proposals[j].active
                 /\ st'.proposals[j].owner \subseteq st.proposals[j].owner
      <4>1. CASE j = id
        BY <1>3, <2>1, <2>3, <3>1, <4>1
      <4>2. CASE j # id
        BY <1>3, <2>1, <4>2
      <4> QED
        BY <4>1, <4>2
    <3> QED
      BY <2>2, <3>1 DEF Frozen, Known
  <2> QED
    BY <2>2, <2>4
<1> QED
  BY <1>6, <1>7

LEMMA BlockKeeps ==
    ASSUME ProposalInv, _apply_block
    PROVE  ProposalInv' /\ Frozen
<1> DEFINE t == time + 1
           r == clear_expired_proposals(t)
           D == Known \ expired(t)
           n == next_id - 1
<1>1. time' = t /\ st' = r.s /\ net' = r.net /\ executed' = r.executed /\ next_id' = next_id
  BY DEF _apply_block
<1>2. /\ time \in Nat /\ next_id \in Nat \ {0} /\ Known \subseteq 1 .. next_id - 1
      /\ st \in Table(Known) /\ net \in Moves /\ executed \subseteq Executions(next_id - 1)
      /\ Balanced(st, net) /\ Right(executed, Known)
  BY DEF ProposalInv
<1>3. [s |-> st, net |-> net, executed |-> executed] \in Reached(Known, n)
  BY <1>2 DEF Reached
<1>4. n \in Nat /\ t \in Nat
  BY <1>2
<1>5. r \in Reached(D, n)
  <2> HIDE DEF n, t
  <2> QED
    BY <1>2, <1>3, <1>4, ClearExpired DEF Known, n
<1> HIDE DEF r
<1>6. /\ st' \in Table(D) /\ net' \in Moves /\ executed' \subseteq Executions(n)
      /\ Balanced(st', net') /\ Right(executed', D) /\ \A id \in D : st'.proposals[id] = st.proposals[id]
  BY <1>1, <1>5 DEF Reached
<1>7. ProposalInv' /\ Known' = D
  <2>1. D \subseteq 1 .. next_id' - 1 /\ executed' \subseteq Executions(next_id' - 1) /\ next_id' \in Nat \ {0}
    BY <1>1, <1>2, <1>6
  <2>2. time' \in Nat
    BY <1>1, <1>4
  <2> HIDE DEF D
  <2> QED
    BY <1>6, <2>1, <2>2, MakeInv
<1> QED
  BY <1>6, <1>7, LeftAlone

-----------------------------------------------------------------------------
(* The two invariants hold. *)

LEMMA ReplayInit == ASSUME Init PROVE ReplayInv
BY DEF Init, ReplayInv

LEMMA ProposalInit == ASSUME Init PROVE ProposalInv
<1>1. /\ time = 1 /\ st = [acct |-> Accts, balance |-> Funds, proposals |-> <<>>] /\ next_id = 1
      /\ net = [a \in Accounts |-> 0] /\ executed = {}
  BY DEF Init
<1>2. Accts \in Graphs /\ Funds \in Money
  BY ProposalsAssumption DEF Money
<1>3. st.proposals = <<>> /\ Known = {} /\ st.proposals \in [{} -> Props]
  BY <1>1 DEF Known
<1>4. st \in Table(Known)
  BY <1>1, <1>2, <1>3 DEF Table, States
<1>5. net \in Moves
  BY <1>1 DEF Moves
<1>6. Balanced(st, net)
  <2>1. ASSUME NEW a \in Accounts PROVE st.balance[a] = Funds[a] + net[a]
    <3>1. st.balance[a] = Funds[a] /\ net[a] = 0 /\ Funds[a] \in Nat
      BY <1>1, <1>2 DEF Money
    <3> QED
      BY ONLY <3>1
  <2> QED
    BY <2>1 DEF Balanced
<1>7. Right(executed, Known)
  BY <1>1 DEF Right
<1> QED
  BY <1>1, <1>3, <1>4, <1>5, <1>6, <1>7 DEF ProposalInv

LEMMA ProposalNext ==
    ASSUME ProposalInv, [Next]_vars
    PROVE  ProposalInv' /\ (Frozen \/ UNCHANGED vars)
<1>1. ASSUME NEW a \in Accounts, NEW b \in Accounts, NEW exp \in 1 .. MaxTime, a # b /\ transfer(a, b, exp)
      PROVE  ProposalInv' /\ Frozen
  BY <1>1, TransferKeeps
<1>2. ASSUME NEW op \in Updates, account_update(op) PROVE ProposalInv' /\ Frozen
  BY <1>2, UpdateKeeps
<1>3. ASSUME NEW payer \in Proposers, NEW ops \in Proposed, NEW exp \in 1 .. MaxTime, NEW review \in Reviews,
             proposal_create(payer, ops, exp, review)
      PROVE  ProposalInv' /\ Frozen
  BY <1>3, CreateKeeps
<1>4. ASSUME NEW id \in DOMAIN st.proposals, NEW add \in BOOLEAN, NEW a \in Accounts,
             NEW field \in {"active", "owner"}, proposal_update(id, a, field, a, add)
      PROVE  ProposalInv' /\ Frozen
  <2>1. id \in Known /\ field \in {"active", "owner", "keys"} /\ a \in Who(field)
    BY DEF Known, Who
  <2> QED
    BY <1>4, <2>1, ApprovalKeeps
<1>5. ASSUME NEW id \in DOMAIN st.proposals, NEW add \in BOOLEAN, NEW a \in Proposers, NEW k \in Keys,
             proposal_update(id, a, "keys", k, add)
      PROVE  ProposalInv' /\ Frozen
  <2>1. id \in Known /\ "keys" \in {"active", "owner", "keys"} /\ k \in Who("keys")
    BY DEF Known, Who
  <2> QED
    BY <1>5, <2>1, ApprovalKeeps
<1>6. ASSUME NEW id \in DOMAIN st.proposals, NEW payer \in Accounts, NEW using_owner \in BOOLEAN,
             proposal_delete(id, payer, using_owner)
      PROVE  ProposalInv' /\ Frozen
  BY <1>6, DeleteKeeps
<1>7. CASE _apply_block
  BY <1>7, BlockKeeps
<1>8. CASE UNCHANGED vars
  <2>1. UNCHANGED <<time, st, next_id, net, executed>>
    BY <1>8 DEF vars
  <2>2. Known' = Known
    BY <2>1 DEF Known
  <2>3. ProposalInv'
    BY <2>1, <2>2 DEF ProposalInv
  <2> QED
    BY <1>8, <2>3
<1> QED
  BY <1>1, <1>2, <1>3, <1>4, <1>5, <1>6, <1>7, <1>8 DEF Next

(* _apply_transaction never lets the same transaction in twice: its record *)
(* is not dropped by clear_expired_transactions before it has expired.     *)
THEOREM ReplayTheorem == Spec => []NoReplay
<1>1. Init => ReplayInv
  BY ReplayInit
<1>2. ReplayInv /\ [Next]_vars => ReplayInv'
  BY ReplayNext
<1>3. ReplayInv => NoReplay
  BY DEF ReplayInv, NoReplay
<1> QED
  BY <1>1, <1>2, <1>3, PTL DEF Spec

LEMMA ProposalInvariant == Spec => []ProposalInv
<1>1. Init => ProposalInv
  BY ProposalInit
<1>2. ProposalInv /\ [Next]_vars => ProposalInv'
  BY ProposalNext
<1> QED
  BY <1>1, <1>2, PTL DEF Spec

(* push_proposal and clear_expired_proposals execute a proposal only when  *)
(* it is authorised by the accounts of that moment, at most once, and not  *)
(* before the end of its review.                                           *)
THEOREM ExecutedTheorem == Spec => []ExecutedRightly
<1>1. ASSUME ProposalInv PROVE ExecutedRightly
  <2>1. Right(executed, DOMAIN st.proposals) /\ \A e \in executed : e \in Executions(next_id - 1)
    BY <1>1 DEF ProposalInv, Known
  <2>2. \A e \in executed : e.authorized
    BY <2>1 DEF Executions
  <2> QED
    BY <2>1, <2>2 DEF Right, ExecutedRightly
<1> QED
  BY <1>1, ProposalInvariant, PTL

(* A proposal that fails half way leaves the balances as they were: they   *)
(* are what the transfers and the executed proposals made them.            *)
THEOREM LedgerTheorem == Spec => []LedgerMatchesHistory
<1>1. ProposalInv => LedgerMatchesHistory
  BY DEF ProposalInv, Balanced, LedgerMatchesHistory
<1> QED
  BY <1>1, ProposalInvariant, PTL

(* proposal_update adds no approval of an account to a proposal under      *)
(* review, and nothing else does.                                          *)
THEOREM ReviewTheorem == Spec => ReviewFreezes
<1>1. ProposalInv /\ [Next]_vars => [Frozen]_vars
  BY ProposalNext
<1> QED
  BY <1>1, ProposalInvariant, PTL DEF Spec, ReviewFreezes, Frozen
=============================================================================
