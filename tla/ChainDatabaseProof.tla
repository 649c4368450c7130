------------------------- MODULE ChainDatabaseProof -------------------------
(***************************************************************************)
(* Proofs about the chain database: the inductive invariant ChainInv is    *)
(* kept by every step of push_block, fork switches, pending transactions,  *)
(* close, open and reindex, for every tree of blocks.  It says that the    *)
(* undo stack holds a valid chain's states with at most one block between  *)
(* two of them, where a switch has got to on its two branches, and what is *)
(* pending on top of the head.  FitInv, at the end, adds that every state  *)
(* is the one its head block determines.                                   *)
(***************************************************************************)
EXTENDS ChainDatabase, FoldTheorems

-----------------------------------------------------------------------------
(* The tree of blocks *)

LEMMA Tree ==
    /\ Zero \notin Blocks /\ MaxNum \in Nat
    /\ \A b \in Blocks : /\ Prev[b] \in Blocks \cup {Zero} /\ Num[b] \in 1 .. MaxNum
                         /\ Prev[b] = Zero => Num[b] = 1
                         /\ Prev[b] # Zero => Prev[b] \in Blocks /\ Num[b] = Num[Prev[b]] + 1
BY TreeAssumption

(* The equation of Path over the blocks up to a number. *)
Low(n) == {b \in Blocks : Num[b] <= n}
Walks(g, D) == g = [b \in D |-> IF Prev[b] = Zero THEN <<b>> ELSE Append(g[Prev[b]], b)]

LEMMA PathExists == Walks(Path, Blocks)
<1> DEFINE N == {n \in Nat : \E g : Walks(g, Low(n))}
<1>1. 0 \in N
  <2>1. Low(0) = {}
    BY Tree DEF Low
  <2>2. Walks([b \in {} |-> <<>>], {})
    BY DEF Walks
  <2> QED
    BY <2>1, <2>2
<1>2. ASSUME NEW n \in Nat, n \in N PROVE n + 1 \in N
  <2>1. PICK g : Walks(g, Low(n))
    BY <1>2
  <2> DEFINE h == [b \in Low(n + 1) |-> IF Prev[b] = Zero THEN <<b>> ELSE Append(g[Prev[b]], b)]
  <2>2. ASSUME NEW b \in Low(n + 1), Prev[b] # Zero PROVE Prev[b] \in Low(n) /\ Prev[b] \in Low(n + 1)
    BY <2>2, Tree DEF Low
  <2>3. ASSUME NEW b \in Low(n) PROVE g[b] = h[b]
    <3>1. b \in Low(n + 1)
      BY Tree DEF Low
    <3>2. g[b] = IF Prev[b] = Zero THEN <<b>> ELSE Append(g[Prev[b]], b)
      BY <2>1 DEF Walks
    <3> QED
      BY <3>1, <3>2
  <2>4. ASSUME NEW b \in Low(n + 1)
        PROVE  h[b] = IF Prev[b] = Zero THEN <<b>> ELSE Append(h[Prev[b]], b)
    <3>1. h[b] = IF Prev[b] = Zero THEN <<b>> ELSE Append(g[Prev[b]], b)
      OBVIOUS
    <3> HIDE DEF h
    <3> QED
      BY <2>2, <2>3, <3>1
  <2>5. Walks(h, Low(n + 1))
    <3>1. h = [b \in Low(n + 1) |-> h[b]]
      OBVIOUS
    <3> HIDE DEF h
    <3> QED
      BY <2>4, <3>1 DEF Walks
  <2> QED
    BY <2>5
<1>3. MaxNum \in N
  <2> HIDE DEF N
  <2> QED
    BY <1>1, <1>2, SetInduction, Tree
<1>4. Low(MaxNum) = Blocks
  BY Tree DEF Low
<1>5. \E g : Walks(g, Blocks)
  BY <1>3, <1>4
<1> QED
  BY <1>5 DEF Path, Walks

Linked(s) == \A i \in 2 .. Len(s) : Prev[s[i]] = s[i - 1]

(* A path leads from a first block to b, one number at a time. *)
IsPath(p, b) ==
    /\ p \in Seq(Blocks) /\ Len(p) = Num[b] /\ p[Len(p)] = b /\ Linked(p) /\ Prev[p[1]] = Zero

LEMMA PathType ==
    ASSUME NEW b \in Blocks
    PROVE  IsPath(Path[b], b)
<1> DEFINE N == {n \in Nat : \A x \in Blocks : Num[x] = n => IsPath(Path[x], x)}
<1>1. 0 \in N
  BY Tree
<1>2. ASSUME NEW n \in Nat, n \in N PROVE n + 1 \in N
  <2> SUFFICES ASSUME NEW x \in Blocks, Num[x] = n + 1 PROVE IsPath(Path[x], x)
    OBVIOUS
  <2>0. Path[x] = IF Prev[x] = Zero THEN <<x>> ELSE Append(Path[Prev[x]], x)
    BY PathExists DEF Walks
  <2>1. CASE Prev[x] = Zero
    <3>1. Path[x] = <<x>> /\ Num[x] = 1
      BY <2>0, <2>1, Tree
    <3> HIDE DEF N
    <3> QED
      BY <2>1, <3>1 DEF IsPath, Linked
  <2>2. CASE Prev[x] # Zero
    <3> DEFINE p == Path[Prev[x]]
               q == Append(p, x)
    <3>1. Prev[x] \in Blocks /\ Num[Prev[x]] = n
      BY <2>2, Tree
    <3>2. /\ p \in Seq(Blocks) /\ Len(p) = n /\ p[n] = Prev[x] /\ Linked(p) /\ Prev[p[1]] = Zero
      BY <1>2, <3>1 DEF IsPath
    <3>3. Path[x] = q
      BY <2>0, <2>2
    <3>4. n \in Nat \ {0}
      BY <3>1, Tree
    <3> HIDE DEF p, N
    <3>5. q \in Seq(Blocks) /\ Len(q) = n + 1 /\ q[n + 1] = x /\ \A i \in 1 .. n : q[i] = p[i]
      BY <3>2
    <3> HIDE DEF q
    <3>6. ASSUME NEW i \in 2 .. n + 1 PROVE Prev[q[i]] = q[i - 1]
      <4>1. CASE i = n + 1
        BY <3>2, <3>4, <3>5, <4>1
      <4>2. CASE i # n + 1
        <5>1. i \in 2 .. Len(p) /\ i \in 1 .. n /\ i - 1 \in 1 .. n
          BY <3>2, <3>4, <4>2
        <5> QED
          BY <3>2, <3>5, <5>1 DEF Linked
      <4> QED
        BY <4>1, <4>2
    <3>7. Prev[q[1]] = Zero
      BY <3>2, <3>4, <3>5
    <3> QED
      BY <3>3, <3>5, <3>6, <3>7 DEF IsPath, Linked
  <2> QED
    BY <2>1, <2>2
<1>3. Num[b] \in Nat
  BY Tree
<1>4. \A n \in Nat : n \in N
  <2> HIDE DEF N
  <2> QED
    BY <1>1, <1>2, SetInduction
<1> QED
  BY <1>3, <1>4

(* Blocks of the path p. *)
OnPath(s, p) == \A i \in 1 .. Len(s) : \E j \in 1 .. Len(p) : s[i] = p[j]

(* The two branches of a switch: they begin above the same block. *)
LEMMA Branches ==
    ASSUME NEW x \in Blocks, NEW y \in Blocks,
           NEW f, f = Branch(x, MeetAt(x, y)), NEW g, g = Branch(y, MeetAt(x, y))
    PROVE  /\ f \in Seq(Blocks) /\ f # <<>> /\ Linked(f) /\ g \in Seq(Blocks) /\ g # <<>> /\ Linked(g)
           /\ Prev[f[1]] = Prev[g[1]]
           /\ OnPath(g, Path[y])
<1> DEFINE p == Path[x]
           q == Path[y]
           n == Min({Len(p), Len(q)})
           S == {i \in 1 .. n : Prev[p[i]] = Prev[q[i]]}
           m == MeetAt(x, y)
<1>1. IsPath(p, x) /\ IsPath(q, y)
  BY PathType
<1>2. Num[x] \in Nat \ {0} /\ Num[y] \in Nat \ {0}
  BY Tree
<1> HIDE DEF p, q
<1>3. /\ p \in Seq(Blocks) /\ Len(p) = Num[x] /\ Linked(p) /\ Prev[p[1]] = Zero
      /\ q \in Seq(Blocks) /\ Len(q) = Num[y] /\ Linked(q) /\ Prev[q[1]] = Zero
  BY <1>1 DEF IsPath
<1>4. n \in Nat \ {0} /\ n <= Len(p) /\ n <= Len(q)
  BY <1>2, <1>3, MinOfTwo
<1>5. m = Max(S)
  BY DEF MeetAt, p, q
<1> HIDE DEF n, m
<1>6. 1 \in S /\ S \in SUBSET (1 .. n)
  BY <1>3, <1>4
<1>7. m \in S
  BY <1>4, <1>5, <1>6, MaxUpTo
<1>8. m \in Nat /\ 1 <= m /\ m <= Len(p) /\ m <= Len(q) /\ Prev[p[m]] = Prev[q[m]]
  BY <1>4, <1>7
<1>9. ASSUME NEW r \in Seq(Blocks), Linked(r), m <= Len(r), NEW s, s = SubSeq(r, m, Len(r))
      PROVE  /\ s \in Seq(Blocks) /\ s # <<>> /\ s[1] = r[m] /\ Linked(s)
             /\ OnPath(s, r)
  <2>1. /\ s \in Seq(Blocks) /\ Len(s) = Len(r) - m + 1
        /\ \A i \in 1 .. Len(s) : s[i] = r[i + m - 1]
    BY <1>8, <1>9, SMTT(30)
  <2>2. ASSUME NEW i \in 2 .. Len(s) PROVE Prev[s[i]] = s[i - 1]
    <3>1. Len(r) \in Nat /\ Len(s) \in Nat /\ Len(s) = Len(r) - m + 1 /\ m \in Nat /\ 1 <= m
      BY <1>8, <1>9, <2>1
    <3>2. i \in 1 .. Len(s) /\ i - 1 \in 1 .. Len(s) /\ i + m - 1 \in 2 .. Len(r) /\ (i - 1) + m - 1 = (i + m - 1) - 1
      BY ONLY <3>1, i \in 2 .. Len(s)
    <3>3. s[i] = r[i + m - 1] /\ s[i - 1] = r[(i + m - 1) - 1]
      BY <2>1, <3>2
    <3> QED
      BY <1>9, <3>2, <3>3 DEF Linked
  <2>3. Len(s) >= 1 /\ 1 \in 1 .. Len(s) /\ 1 + m - 1 = m
    BY <1>8, <1>9, <2>1
  <2>4. \A i \in 1 .. Len(s) : i + m - 1 \in 1 .. Len(r)
    BY <1>8, <1>9, <2>1
  <2>5. OnPath(s, r)
    BY <2>1, <2>4 DEF OnPath
  <2> QED
    BY <2>1, <2>2, <2>3, <2>5 DEF Linked
<1>10. f = SubSeq(p, m, Len(p)) /\ g = SubSeq(q, m, Len(q))
  BY <1>3 DEF Branch, p, q, m
<1>11. OnPath(g, q)
  BY <1>3, <1>8, <1>9, <1>10
<1> QED
  BY <1>3, <1>8, <1>9, <1>10, <1>11 DEF q

-----------------------------------------------------------------------------
(* Chains *)

Good == {s \in States : IsChain(s.chain)}

LEMMA Numbered ==
    ASSUME NEW c \in Seq(Blocks), IsChain(c), NEW i \in 1 .. Len(c)
    PROVE  Num[c[i]] = i
<1> DEFINE N == {n \in Nat : n + 1 <= Len(c) => Num[c[n + 1]] = n + 1}
<1>0. \A j \in 1 .. Len(c) : c[j] \in Blocks /\ Prev[c[j]] = IF j = 1 THEN Zero ELSE c[j - 1]
  BY DEF IsChain
<1>1. 0 \in N
  <2>1. ASSUME 0 + 1 <= Len(c) PROVE Num[c[0 + 1]] = 0 + 1
    <3>1. c[1] \in Blocks /\ Prev[c[1]] = Zero
      BY <1>0, <2>1
    <3> QED
      BY <3>1, Tree
  <2> QED
    BY <2>1
<1>2. ASSUME NEW n \in Nat, n \in N PROVE n + 1 \in N
  <2>1. ASSUME (n + 1) + 1 <= Len(c) PROVE Num[c[(n + 1) + 1]] = (n + 1) + 1
    <3>1. Num[c[n + 1]] = n + 1 /\ n + 1 \in 1 .. Len(c) /\ n + 2 \in 1 .. Len(c) /\ (n + 2) - 1 = n + 1
      BY <1>2, <2>1
    <3>2. c[n + 1] \in Blocks /\ c[n + 2] \in Blocks /\ Prev[c[n + 2]] = c[n + 1]
      BY <1>0, <3>1
    <3>3. Num[c[n + 2]] = Num[c[n + 1]] + 1
      BY <3>2, Tree
    <3> QED
      BY <3>1, <3>3
  <2> QED
    BY <2>1
<1>3. \A n \in Nat : n \in N
  <2> HIDE DEF N
  <2> QED
    BY <1>1, <1>2, SetInduction
<1>4. i - 1 \in Nat /\ (i - 1) + 1 = i /\ i <= Len(c)
  OBVIOUS
<1> QED
  BY <1>3, <1>4

LEMMA Heads ==
    ASSUME NEW c \in Seq(Blocks), IsChain(c)
    PROVE  /\ IdOfHead(c) \in Blocks \cup {Zero} /\ NumOf(IdOfHead(c)) = Len(c)
           /\ (IdOfHead(c) = Zero <=> c = <<>>)
<1>1. CASE c = <<>>
  BY <1>1 DEF IdOfHead, NumOf
<1>2. CASE c # <<>>
  <2>1. Len(c) \in 1 .. Len(c) /\ c[Len(c)] \in Blocks
    BY <1>2
  <2>2. Num[c[Len(c)]] = Len(c)
    BY <2>1, Numbered
  <2> QED
    BY <1>2, <2>1, <2>2, Tree DEF IdOfHead, NumOf
<1> QED
  BY <1>1, <1>2

LEMMA LibType ==
    ASSUME NEW c \in Seq(Blocks), IsChain(c)
    PROVE  Lib(c) \in 0 .. Len(c)
<1> DEFINE V == {LastConfirmed(c, w) : w \in Witnesses}
           n == Cardinality(Witnesses)
           W(v) == {w \in Witnesses : LastConfirmed(c, w) >= v}
           S == {v \in V : Cardinality(W(v)) >= n - Offset(n)}
<1>1. ASSUME NEW w \in Witnesses PROVE LastConfirmed(c, w) \in 0 .. Len(c)
  <2> DEFINE T == {0} \cup {Num[c[i]] : i \in {j \in 1 .. Len(c) : Signer[c[j]] = w}}
  <2>1. \A i \in 1 .. Len(c) : Num[c[i]] \in 0 .. Len(c)
    BY Numbered
  <2>2. Len(c) \in Nat
    OBVIOUS
  <2>3. T \in SUBSET (0 .. Len(c)) /\ T # {}
    BY <2>1, <2>2
  <2>4. LastConfirmed(c, w) = Max(T)
    BY DEF LastConfirmed
  <2> HIDE DEF T
  <2> QED
    BY <2>2, <2>3, <2>4, MaxFound
<1>2. Len(c) \in Nat /\ IsFiniteSet(Witnesses) /\ Witnesses # {} /\ n \in Nat
  BY ChainAssumption, FS_CardinalityType
<1> HIDE DEF n
<1>3. V \in SUBSET (0 .. Len(c)) /\ V # {} /\ V \in SUBSET Nat
  BY <1>1, <1>2
<1>4. Lib(c) = Max(S)
  BY DEF Lib, n
<1>5. Offset(n) >= 0 /\ Offset(n) \in Int
  BY <1>2 DEF Offset
<1>6. S # {}
  <2>1. PICK v \in V : \A y \in V : v <= y
    BY <1>3, Least
  <2>2. \A w \in Witnesses : LastConfirmed(c, w) >= v
    BY <1>3, <2>1
  <2>3. W(v) = Witnesses
    BY <2>2
  <2>4. Cardinality(W(v)) >= n - Offset(n)
    <3>1. Cardinality(W(v)) = n
      BY <2>3 DEF n
    <3> QED
      BY ONLY <1>2, <1>5, <3>1
  <2> QED
    BY <2>4
<1>7. S \in SUBSET (0 .. Len(c))
  BY <1>3
<1> HIDE DEF S
<1> QED
  BY <1>2, <1>4, <1>6, <1>7, MaxFound

(* A block that applies extends the chain, and leaves room for two undo    *)
(* states at least.                                                        *)
LEMMA Extends ==
    ASSUME NEW s \in Good, NEW b \in Blocks, NEW check \in BOOLEAN, BlockApplies(b, s, check)
    PROVE  /\ AfterBlock(b, s, check) \in Good
           /\ AfterBlock(b, s, check).chain = Append(s.chain, b)
           /\ HistorySize(b, s) \in Nat /\ HistorySize(b, s) > 1
<1>1. s.chain \in Seq(Blocks) /\ IsChain(s.chain) /\ s.dedupe \in SUBSET Txs
  BY DEF Good, States
<1>2. Prev[b] = IdOfHead(s.chain) /\ b \notin Bad
  BY DEF BlockApplies
<1>3. BlockTxs[b] \in Seq(Txs)
  BY ChainAssumption
<1>4. Range(BlockTxs[b]) \in SUBSET Txs
  BY <1>3 DEF Range
<1> DEFINE c == s.chain
           d == Append(c, b)
<1>5. c \in Seq(Blocks) /\ d \in Seq(Blocks) /\ Len(d) = Len(c) + 1 /\ d[Len(c) + 1] = b
      /\ \A i \in 1 .. Len(c) : d[i] = c[i]
  BY <1>1
<1>6. IsChain(d)
  <2>1. ASSUME NEW i \in 1 .. Len(d) PROVE d[i] \notin Bad /\ Prev[d[i]] = IF i = 1 THEN Zero ELSE d[i - 1]
    <3>1. CASE i = Len(c) + 1
      <4>1. CASE c = <<>>
        BY <1>2, <1>5, <3>1, <4>1 DEF IdOfHead
      <4>2. CASE c # <<>>
        <5>1. Len(c) \in 1 .. Len(c) /\ i # 1 /\ i - 1 = Len(c)
          BY <1>5, <3>1, <4>2
        <5>2. Prev[b] = c[Len(c)]
          BY <1>2, <4>2 DEF IdOfHead
        <5> QED
          BY <1>2, <1>5, <3>1, <5>1, <5>2
      <4> QED
        BY <4>1, <4>2
    <3>2. CASE i # Len(c) + 1
      <4>1. i \in 1 .. Len(c) /\ (i # 1 => i - 1 \in 1 .. Len(c))
        BY <1>5, <3>2
      <4>2. c[i] \notin Bad /\ Prev[c[i]] = IF i = 1 THEN Zero ELSE c[i - 1]
        BY <1>1, <4>1 DEF IsChain
      <4> QED
        BY <1>5, <4>1, <4>2
    <3> QED
      BY <3>1, <3>2
  <2> QED
    BY <2>1 DEF IsChain
<1> HIDE DEF d
<1>7. AfterBlock(b, s, check) \in Good /\ AfterBlock(b, s, check).chain = d
  BY <1>1, <1>4, <1>5, <1>6 DEF AfterBlock, Good, States, d
<1>8. HistorySize(b, s) \in Nat /\ HistorySize(b, s) > 1
  <2>1. Lib(c) \in 0 .. Len(c) /\ Len(c) \in Nat
    BY <1>1, LibType
  <2>2. Num[b] = Len(c) + 1
    BY <1>1, <1>2, Heads, Tree DEF NumOf
  <2> QED
    BY <2>1, <2>2 DEF HistorySize
<1> QED
  BY <1>7, <1>8 DEF d

-----------------------------------------------------------------------------
(* The undo stack *)

(* c is the chain d or the chain before its last block. *)
Under(c, d) == c = d \/ (d # <<>> /\ c = Front(d))

(* Copies, each taken before at most one block was applied to it. *)
Steps(u, s) ==
    \A i \in 1 .. Len(u) : Under(u[i].chain, (IF i = Len(u) THEN s ELSE u[i + 1]).chain)

Stack(u, s) == s \in Good /\ u \in Seq(Good) /\ Steps(u, s)

LEMMA EmptyStack ==
    ASSUME NEW s \in Good
    PROVE  Stack(<<>>, s)
BY DEF Stack, Steps

LEMMA SameChain ==
    ASSUME NEW u, NEW s, Stack(u, s), NEW t \in Good, t.chain = s.chain
    PROVE  Stack(u, t)
BY DEF Stack, Steps

LEMMA Grow ==
    ASSUME NEW u, NEW s, Stack(u, s), NEW t \in Good, Under(s.chain, t.chain)
    PROVE  /\ Stack(Append(u, s), t)
           /\ Len(Append(u, s)) = Len(u) + 1 /\ Append(u, s)[Len(u) + 1] = s
<1> DEFINE v == Append(u, s)
<1>1. s \in Good /\ u \in Seq(Good) /\ Steps(u, s)
  BY DEF Stack
<1>2. v \in Seq(Good) /\ Len(v) = Len(u) + 1 /\ v[Len(u) + 1] = s /\ \A i \in 1 .. Len(u) : v[i] = u[i]
  BY <1>1
<1> HIDE DEF v
<1>3. ASSUME NEW i \in 1 .. Len(v) PROVE Under(v[i].chain, (IF i = Len(v) THEN t ELSE v[i + 1]).chain)
  <2>0. Len(u) \in Nat
    BY <1>1
  <2>1. CASE i = Len(v)
    BY <1>2, <2>1
  <2>2. CASE i # Len(v)
    <3>1. i \in 1 .. Len(u) /\ (i # Len(u) => i + 1 \in 1 .. Len(u))
      BY <1>2, <2>0, <2>2
    <3>2. Under(u[i].chain, (IF i = Len(u) THEN s ELSE u[i + 1]).chain)
      BY <1>1, <3>1 DEF Steps
    <3>3. v[i] = u[i] /\ v[i + 1] = (IF i = Len(u) THEN s ELSE u[i + 1])
      BY <1>2, <3>1
    <3> QED
      BY <2>2, <3>2, <3>3
  <2> QED
    BY <2>1, <2>2
<1>4. Stack(v, t)
  BY <1>2, <1>3 DEF Stack, Steps
<1> QED
  BY <1>2, <1>4 DEF v

LEMMA FrontStack ==
    ASSUME NEW u, NEW s, Stack(u, s), u # <<>>
    PROVE  /\ Stack(Front(u), u[Len(u)]) /\ u[Len(u)] \in Good /\ Under(u[Len(u)].chain, s.chain)
           /\ Len(Front(u)) = Len(u) - 1 /\ Len(u) \in Nat \ {0}
           /\ \A i \in 1 .. Len(u) - 1 : Front(u)[i] = u[i]
<1> DEFINE v == Front(u)
           n == Len(u)
<1>1. s \in Good /\ u \in Seq(Good) /\ Steps(u, s) /\ n \in Nat \ {0}
  BY DEF Stack
<1>2. v \in Seq(Good) /\ Len(v) = n - 1 /\ \A i \in 1 .. n - 1 : v[i] = u[i]
  <2>1. v = SubSeq(u, 1, n - 1)
    BY DEF Front
  <2>2. /\ n - 1 \in Nat /\ n - 1 <= Len(u) /\ 1 \in Nat \ {0} /\ 1 <= (n - 1) + 1
        /\ (n - 1) - 1 + 1 = n - 1 /\ \A i \in 1 .. n - 1 : i + 1 - 1 = i
    BY <1>1
  <2> HIDE DEF v
  <2>3. /\ SubSeq(u, 1, n - 1) \in Seq(Good) /\ Len(SubSeq(u, 1, n - 1)) = (n - 1) - 1 + 1
        /\ \A i \in 1 .. (n - 1) - 1 + 1 : SubSeq(u, 1, n - 1)[i] = u[i + 1 - 1]
    BY <1>1, <2>2, Slice
  <2> QED
    BY <2>1, <2>2, <2>3
<1> HIDE DEF v
<1>3. u[n] \in Good /\ Under(u[n].chain, s.chain)
  BY <1>1 DEF Steps
<1>4. ASSUME NEW i \in 1 .. Len(v) PROVE Under(v[i].chain, (IF i = Len(v) THEN u[n] ELSE v[i + 1]).chain)
  <2>1. i \in 1 .. n /\ i # n /\ i \in 1 .. n - 1 /\ (i # Len(v) => i + 1 \in 1 .. n - 1) /\ (i = Len(v) => i + 1 = n)
    BY <1>1, <1>2
  <2>2. Under(u[i].chain, u[i + 1].chain)
    BY <1>1, <2>1 DEF Steps
  <2>3. v[i] = u[i] /\ (IF i = Len(v) THEN u[n] ELSE v[i + 1]) = u[i + 1]
    BY <1>2, <2>1
  <2> QED
    BY <2>2, <2>3
<1>5. Stack(v, u[n])
  BY <1>2, <1>3, <1>4 DEF Stack, Steps
<1> QED
  BY <1>1, <1>2, <1>3, <1>5 DEF v

(* Trimming keeps the top. *)
LEMMA TrimStack ==
    ASSUME NEW u, NEW s, Stack(u, s), NEW n \in Nat
    PROVE  /\ Stack(TrimTo(u, n), s) /\ Len(TrimTo(u, n)) = (IF Len(u) > n THEN n ELSE Len(u)) /\ Len(u) \in Nat
           /\ \A k \in 0 .. n - 1 : k < Len(u) => TrimTo(u, n)[Len(TrimTo(u, n)) - k] = u[Len(u) - k]
<1> DEFINE v == TrimTo(u, n)
           m == Len(u) - n
<1>1. s \in Good /\ u \in Seq(Good) /\ Steps(u, s) /\ Len(u) \in Nat
  BY DEF Stack
<1>2. CASE ~ (Len(u) > n)
  BY <1>1, <1>2 DEF TrimTo
<1>3. CASE Len(u) > n
  <2>1. v = SubSeq(u, m + 1, Len(u)) /\ m \in Nat /\ m + n = Len(u)
    BY <1>1, <1>3 DEF TrimTo
  <2> HIDE DEF v, m
  <2>2. v \in Seq(Good) /\ Len(v) = n /\ \A i \in 1 .. n : v[i] = u[i + m]
    BY <1>1, <2>1
  <2>3. ASSUME NEW i \in 1 .. Len(v) PROVE Under(v[i].chain, (IF i = Len(v) THEN s ELSE v[i + 1]).chain)
    <3>1. i + m \in 1 .. Len(u) /\ i \in 1 .. n /\ (i = n <=> i + m = Len(u)) /\ (i # n => i + 1 \in 1 .. n)
          /\ (i + 1) + m = (i + m) + 1
      BY <1>1, <2>1, <2>2
    <3>2. Under(u[i + m].chain, (IF i + m = Len(u) THEN s ELSE u[(i + m) + 1]).chain)
      BY <1>1, <3>1 DEF Steps
    <3>3. v[i] = u[i + m] /\ (i # n => v[i + 1] = u[(i + m) + 1])
      BY <2>2, <3>1
    <3> QED
      BY <2>2, <3>1, <3>2, <3>3
  <2>4. Stack(v, s)
    BY <1>1, <2>2, <2>3 DEF Stack, Steps
  <2>5. ASSUME NEW k \in 0 .. n - 1 PROVE v[Len(v) - k] = u[Len(u) - k]
    <3>1. n - k \in 1 .. n /\ (n - k) + m = Len(u) - k
      BY <1>1, <2>1
    <3> QED
      BY <2>2, <3>1
  <2> QED
    BY <1>1, <1>3, <2>2, <2>4, <2>5 DEF v
<1> QED
  BY <1>2, <1>3

(* A session that is undone. *)
LEMMA DropStack ==
    ASSUME NEW u, NEW s, Stack(u, s), u # <<>>, NEW t, t = u[Len(u)]
    PROVE  Stack(DropSession(u, t), t)
<1>1. Stack(Front(u), t) /\ t \in Good
  BY FrontStack
<1>2. CASE Len(u) = 1
  <2>1. DropSession(u, t) = Append(<<>>, t)
    BY <1>2 DEF DropSession
  <2>2. Stack(<<>>, t) /\ Under(t.chain, t.chain)
    BY <1>1, EmptyStack DEF Under
  <2> QED
    BY <1>1, <2>1, <2>2, Grow
<1>3. CASE Len(u) # 1
  BY <1>1, <1>3 DEF DropSession
<1> QED
  BY <1>2, <1>3

(* Keeps(v, u, s): v is a stack under s with the top of u. *)
Keeps(v, u, s) == Stack(v, s) /\ v # <<>> /\ v[Len(v)] = u[Len(u)]

LEMMA TrimKeeps ==
    ASSUME NEW u, NEW s, Stack(u, s), u # <<>>, NEW n \in Nat, n > 0
    PROVE  Keeps(TrimTo(u, n), u, s)
<1>1. /\ Stack(TrimTo(u, n), s) /\ Len(TrimTo(u, n)) = (IF Len(u) > n THEN n ELSE Len(u))
      /\ \A k \in 0 .. n - 1 : k < Len(u) => TrimTo(u, n)[Len(TrimTo(u, n)) - k] = u[Len(u) - k]
  BY TrimStack
<1>2. Len(u) \in Nat \ {0} /\ u \in Seq(Good)
  BY DEF Stack
<1> DEFINE v == TrimTo(u, n)
<1> HIDE DEF v
<1>3. Stack(v, s) /\ Len(v) \in Nat \ {0}
  BY <1>1, <1>2 DEF v
<1>4. v[Len(v) - 0] = u[Len(u) - 0]
  BY <1>1, <1>2 DEF v
<1>5. v # <<>> /\ Len(v) - 0 = Len(v) /\ Len(u) - 0 = Len(u)
  BY <1>2, <1>3
<1> QED
  BY <1>3, <1>4, <1>5 DEF Keeps, v

LEMMA GrowTrimmed ==
    ASSUME NEW u, NEW s, Stack(u, s), NEW t \in Good, Under(s.chain, t.chain),
           undo_max \in Nat, NEW v, v = Append(Trim(u), s)
    PROVE  Stack(v, t) /\ v # <<>> /\ v[Len(v)] = s
<1>1. Stack(Trim(u), s)
  BY TrimStack DEF Trim
<1>2. Stack(v, t) /\ Len(v) = Len(Trim(u)) + 1 /\ v[Len(Trim(u)) + 1] = s
  BY <1>1, Grow
<1>3. Len(Trim(u)) \in Nat
  BY <1>1 DEF Stack
<1>4. v # <<>>
  BY <1>2, <1>3
<1> QED
  BY <1>2, <1>4

LEMMA GenesisGood == Genesis \in Good
BY DEF Genesis, Good, States, IsChain

LEMMA LastPart ==
    ASSUME NEW S, NEW w \in Seq(S), NEW m \in Nat, NEW n \in Nat, Len(w) = m + n
    PROVE  /\ SubSeq(w, m + 1, Len(w)) \in Seq(S) /\ Len(SubSeq(w, m + 1, Len(w))) = n
           /\ \A i \in 1 .. n : SubSeq(w, m + 1, Len(w))[i] = w[i + m]
<1>1. SubSeq(w, m + 1, Len(w)) \in Seq(S)
  OBVIOUS
<1>2. Len(SubSeq(w, m + 1, Len(w))) = n
  OBVIOUS
<1>3. ASSUME NEW i \in 1 .. n PROVE SubSeq(w, m + 1, Len(w))[i] = w[i + m]
  OBVIOUS
<1> QED
  BY <1>1, <1>2, <1>3

(* A session inside a session costs the stack at most one more state. *)
LEMMA NestedTrims ==
    ASSUME NEW u, NEW s, Stack(u, s), u # <<>>, undo_max \in Nat, undo_max > 1, NEW deep
    PROVE  Nested(u, deep) = Trim(u) \/ Nested(u, deep) = TrimTo(Trim(u), undo_max - 1)
<1> DEFINE v == Trim(u)
<1>1. Keeps(v, u, s)
  BY TrimKeeps DEF Trim
<1>2. CASE ~ deep
  BY <1>2 DEF Nested
<1>3. CASE deep
  <2> DEFINE w == Append(v, Genesis)
             x == Trim(w)
  <2>1. Stack(v, s) /\ v \in Seq(Good) /\ Len(v) \in Nat \ {0} /\ s \in Good
    BY <1>1 DEF Keeps, Stack
  <2> HIDE DEF v
  <2>2. /\ w \in Seq(Good) /\ Len(w) = Len(v) + 1 /\ \A i \in 1 .. Len(v) : w[i] = v[i]
    BY <2>1, GenesisGood
  <2> HIDE DEF w
  <2> DEFINE n == undo_max
  <2>3. x = (IF Len(w) > n THEN SubSeq(w, Len(w) - n + 1, Len(w)) ELSE w)
    BY DEF Trim, TrimTo
  <2> HIDE DEF x
  <2> DEFINE y == Front(x)
  <2>4. CASE ~ (Len(w) > n)
    <3>1. y = SubSeq(w, 1, Len(v))
      <4>1. Len(w) - 1 = Len(v)
        BY <2>1, <2>2
      <4> QED
        BY <2>3, <2>4, <4>1 DEF Front
    <3>2. Len(v) \in Int /\ Len(v) <= Len(w)
      BY <2>1, <2>2
    <3> HIDE DEF y
    <3>3. y \in Seq(Good)
      BY ONLY <2>2, <3>1, <3>2
    <3>4. Len(y) = Len(v)
      BY ONLY <2>1, <2>2, <3>1, <3>2
    <3>5. \A i \in 1 .. Len(v) : y[i] = w[i]
      BY ONLY <2>1, <2>2, <3>1, <3>2
    <3>6. y = v
      <4>1. \A i \in 1 .. Len(v) : y[i] = v[i]
        BY <2>2, <3>5
      <4> QED
        BY ONLY <2>1, <3>3, <3>4, <4>1
    <3> QED
      BY <1>3, <3>6 DEF Nested, y, x, w, v
  <2>5. CASE Len(w) > n
    <3> DEFINE m == Len(v) - (n - 1)
    <3>1. n \in Nat /\ n > 1 /\ Len(v) > n - 1 /\ Len(w) - n + 1 = m + 1 /\ m \in Nat /\ n - 1 \in Nat
      BY <2>1, <2>2, <2>5
    <3>2. x = SubSeq(w, m + 1, Len(w))
      BY <2>3, <2>5, <3>1
    <3> HIDE DEF m
    <3>3. x \in Seq(Good) /\ Len(x) = n /\ \A i \in 1 .. n : x[i] = w[i + m]
      <4>1. Len(w) = m + n
        BY <2>1, <2>2, <3>1 DEF m
      <4>2. w \in Seq(Good) /\ m \in Nat /\ n \in Nat
        BY <2>2, <3>1
      <4> HIDE DEF n
      <4>3. /\ SubSeq(w, m + 1, Len(w)) \in Seq(Good) /\ Len(SubSeq(w, m + 1, Len(w))) = n
            /\ \A i \in 1 .. n : SubSeq(w, m + 1, Len(w))[i] = w[i + m]
        BY ONLY <4>1, <4>2, LastPart
      <4> QED
        BY ONLY <3>2, <4>3, Zenon
    <3>4. y = SubSeq(x, 1, n - 1)
      BY <3>3 DEF Front
    <3> HIDE DEF y
    <3>5. y \in Seq(Good) /\ Len(y) = n - 1 /\ \A i \in 1 .. n - 1 : y[i] = x[i]
      <4>1. n - 1 \in Int /\ n - 1 <= Len(x)
        BY <3>1, <3>3
      <4>2. y \in Seq(Good)
        BY ONLY <3>3, <3>4, <4>1
      <4>3. Len(y) = n - 1
        BY ONLY <3>1, <3>3, <3>4, <4>1
      <4>4. \A i \in 1 .. n - 1 : y[i] = x[i]
        BY ONLY <3>1, <3>3, <3>4, <4>1
      <4> QED
        BY <4>2, <4>3, <4>4
    <3> DEFINE z == TrimTo(v, n - 1)
    <3>6. z = SubSeq(v, m + 1, Len(v))
      <4>1. Len(v) - (n - 1) + 1 = m + 1
        BY <2>1, <3>1 DEF m
      <4> QED
        BY <3>1, <4>1 DEF TrimTo
    <3> HIDE DEF z
    <3>7. z \in Seq(Good) /\ Len(z) = n - 1 /\ \A i \in 1 .. n - 1 : z[i] = v[i + m]
      <4>1. Len(v) = m + (n - 1)
        BY <2>1, <3>1 DEF m
      <4>2. /\ m + 1 \in Nat \ {0} /\ Len(v) \in Nat /\ m + 1 <= Len(v) + 1 /\ Len(v) <= Len(v)
            /\ Len(v) - (m + 1) + 1 = n - 1 /\ \A i \in 1 .. n - 1 : i + (m + 1) - 1 = i + m
        BY ONLY <2>1, <3>1, <4>1
      <4>3. /\ SubSeq(v, m + 1, Len(v)) \in Seq(Good) /\ Len(SubSeq(v, m + 1, Len(v))) = Len(v) - (m + 1) + 1
            /\ \A i \in 1 .. Len(v) - (m + 1) + 1 : SubSeq(v, m + 1, Len(v))[i] = v[i + (m + 1) - 1]
        BY <2>1, <4>2, Slice
      <4> QED
        BY <3>6, <4>2, <4>3
    <3>8. y = z
      <4>1. ASSUME NEW i \in 1 .. n - 1 PROVE y[i] = z[i]
        <5>1. i \in 1 .. n /\ i + m \in 1 .. Len(v)
          BY <2>1, <3>1 DEF m
        <5> QED
          BY <2>2, <3>3, <3>5, <3>7, <5>1
      <4> QED
        BY ONLY <3>5, <3>7, <4>1
    <3> QED
      BY <1>3, <3>8 DEF Nested, z, y, x, w, v
  <2> QED
    BY <2>4, <2>5
<1> QED
  BY <1>2, <1>3

LEMMA NestedKeeps ==
    ASSUME NEW u, NEW s, Stack(u, s), u # <<>>, undo_max \in Nat, undo_max > 1, NEW deep
    PROVE  Keeps(Nested(u, deep), u, s)
<1> DEFINE v == Trim(u)
           n == undo_max - 1
<1>1. Keeps(v, u, s)
  BY TrimKeeps DEF Trim
<1>2. Stack(v, s) /\ v # <<>> /\ n \in Nat /\ n > 0
  BY <1>1 DEF Keeps
<1>3. Keeps(TrimTo(v, n), v, s)
  BY <1>2, TrimKeeps
<1> QED
  BY <1>1, <1>3, NestedTrims DEF Keeps

LEMMA UnderAppend ==
    ASSUME NEW c \in Seq(Blocks), NEW b \in Blocks
    PROVE  Under(c, Append(c, b))
<1> DEFINE d == Append(c, b)
           n == Len(c)
<1>1. d \in Seq(Blocks) /\ d # <<>> /\ Len(d) = n + 1 /\ n \in Nat /\ \A i \in 1 .. n : d[i] = c[i]
  OBVIOUS
<1> HIDE DEF d
<1>2. Front(d) = SubSeq(d, 1, n)
  <2>1. Len(d) - 1 = n
    BY <1>1
  <2> QED
    BY <2>1 DEF Front
<1>3. /\ SubSeq(d, 1, n) \in Seq(Blocks) /\ Len(SubSeq(d, 1, n)) = n - 1 + 1
      /\ \A i \in 1 .. n - 1 + 1 : SubSeq(d, 1, n)[i] = d[i + 1 - 1]
  BY <1>1, Slice
<1> DEFINE e == SubSeq(d, 1, n)
<1> HIDE DEF e
<1>4. e \in Seq(Blocks) /\ Len(e) = n /\ \A i \in 1 .. n : e[i] = d[i]
  BY <1>1, <1>3 DEF e
<1>5. c = e
  BY <1>1, <1>4
<1> QED
  BY <1>1, <1>2, <1>5 DEF Under, d, e

LEMMA WithBlockStack ==
    ASSUME NEW u, NEW s, Stack(u, s), NEW b \in Blocks, NEW t \in Good, t.chain = Append(s.chain, b),
           undo_max \in Nat
    PROVE  Stack(WithBlock(b, u, s), t)
<1> DEFINE v == Append(Trim(u), s)
<1>1. s.chain \in Seq(Blocks)
  BY DEF Stack, Good, States
<1>2. Under(s.chain, t.chain)
  BY <1>1, UnderAppend
<1>3. Stack(v, t)
  BY <1>2, GrowTrimmed
<1> HIDE DEF v
<1>4. Stack(Trim(v), t)
  BY <1>3, TrimStack DEF Trim
<1> QED
  BY <1>3, <1>4 DEF WithBlock, v

LEMMA FailedBlockStack ==
    ASSUME NEW u, NEW s, Stack(u, s), undo_max \in Nat
    PROVE  Stack(FailedBlock(u, s), s)
<1> DEFINE v == Append(Trim(u), s)
<1>1. s \in Good /\ Under(s.chain, s.chain)
  BY DEF Stack, Under
<1>2. Stack(v, s) /\ v # <<>> /\ v[Len(v)] = s
  BY <1>1, GrowTrimmed
<1> HIDE DEF v
<1>3. Stack(DropSession(v, s), s)
  BY <1>2, DropStack
<1> QED
  BY <1>3 DEF FailedBlock, v

-----------------------------------------------------------------------------
(* The fork database and the log keep their types. *)

LEMMA EraseType ==
    ASSUME NEW f \in Fork, NEW ids
    PROVE  Erase(f, ids) \in Fork
BY DEF Fork, Erase

LEMMA SetHeadType ==
    ASSUME NEW f \in Fork, NEW b \in Blocks \cup {Zero}
    PROVE  SetHead(f, b) \in Fork
<1> DEFINE l == b \in f.links
<1>1. l \in BOOLEAN
  OBVIOUS
<1> HIDE DEF l
<1>2. [f EXCEPT !.head = b, !.linked = l] \in Fork
  BY <1>1 DEF Fork
<1> QED
  BY <1>2 DEF SetHead, l

LEMMA ForkPopType ==
    ASSUME NEW f \in Fork, ~ ForkPopThrows(f)
    PROVE  ForkPop(f) \in Fork
<1>1. f.head \in Blocks
  BY DEF Fork, ForkPopThrows
<1>2. Prev[f.head] \in Blocks \cup {Zero}
  BY <1>1, Tree
<1> QED
  BY <1>2, SetHeadType DEF ForkPop

LEMMA ForkPushType ==
    ASSUME NEW f \in Fork, NEW b \in Blocks
    PROVE  ForkPush(f, b) \in Fork
<1> DEFINE links == f.head # Zero /\ Prev[b] # Zero
           g == [f EXCEPT !.index = @ \cup {b}, !.links = IF links /\ b \notin f.index THEN @ \cup {b} ELSE @]
           h == [g EXCEPT !.head = b, !.linked = links]
<1>1. g \in Fork
  BY DEF Fork
<1>2. h \in Fork
  <2>1. links \in BOOLEAN
    OBVIOUS
  <2> HIDE DEF g, links
  <2> QED
    BY <1>1, <2>1 DEF Fork
<1>3. ForkPush(f, b) = IF f.head = Zero THEN h
                       ELSE IF Num[b] > Num[f.head] THEN Erase(h, Below(h, Num[b] - Min({f.max_size, Num[b]})))
                       ELSE g
  BY DEF ForkPush
<1> HIDE DEF g, h
<1> QED
  BY <1>1, <1>2, <1>3, EraseType

LEMMA ForkSetMaxSizeType ==
    ASSUME NEW f \in Fork, NEW n \in Nat
    PROVE  ForkSetMaxSize(f, n) \in Fork
<1> DEFINE g == [f EXCEPT !.max_size = n]
<1>1. g \in Fork
  BY DEF Fork
<1>2. ForkSetMaxSize(f, n) = IF f.head = Zero THEN g ELSE Erase(g, Below(g, Max({0, Num[f.head] - n})))
  BY DEF ForkSetMaxSize
<1> HIDE DEF g
<1> QED
  BY <1>1, <1>2, EraseType

LEMMA NewForkType ==
    /\ NewFork \in Fork
    /\ \A b \in Blocks : StartBlock(NewFork, b) \in Fork
BY CacheAssumption DEF NewFork, Fork, StartBlock

LEMMA LogStored ==
    ASSUME NEW m \in Log, NEW id \in Blocks, NEW b \in Blocks
    PROVE  StoreIn(m, id, b) \in Log
<1>1. Num[id] \in 1 .. MaxNum /\ MaxNum \in Nat
  BY Tree
<1>2. m.len \in 0 .. MaxNum /\ m.at \in [Numbers -> Entry]
  BY DEF Log
<1>3. Max({m.len, Num[id]}) \in 0 .. MaxNum
  BY <1>1, <1>2, MaxOfTwo
<1>4. [m.at EXCEPT ![Num[id]] = [id |-> id, data |-> b, live |-> TRUE]] \in [Numbers -> Entry]
  BY <1>1, <1>2 DEF Entry, Numbers
<1> QED
  BY <1>3, <1>4 DEF StoreIn, Log

LEMMA LogRemoved ==
    ASSUME NEW m \in Log, NEW id \in Blocks
    PROVE  RemoveFrom(m, id) \in Log
<1>1. Num[id] \in Numbers
  BY Tree DEF Numbers
<1>2. m.at \in [Numbers -> Entry]
  BY DEF Log
<1> DEFINE a == [m.at EXCEPT ![Num[id]].live = FALSE]
<1>3. a \in [Numbers -> Entry]
  BY <1>1, <1>2 DEF Entry
<1>4. RemoveFrom(m, id) = IF m.at[Num[id]].id = id THEN [m EXCEPT !.at = a] ELSE m
  BY DEF RemoveFrom
<1> HIDE DEF a
<1> QED
  BY <1>3, <1>4 DEF Log

LEMMA LogRead ==
    ASSUME NEW m \in Log
    PROVE  /\ \A n \in Numbers : FetchByNumber(m, n) \in Blocks \cup {Zero}
           /\ LastBlock(m) \in Blocks \cup {Zero}
<1>1. m.at \in [Numbers -> Entry]
  BY DEF Log
<1>2. \A n \in Numbers : m.at[n].data \in Blocks \cup {Zero}
  BY <1>1 DEF Entry
<1>3. CASE LiveNumbers(m) # {}
  <2>1. LiveNumbers(m) \in SUBSET (1 .. MaxNum)
    BY DEF LiveNumbers, Numbers
  <2>2. Max(LiveNumbers(m)) \in Numbers
    BY <1>3, <2>1, Tree, MaxUpTo DEF Numbers
  <2> QED
    BY <1>2, <2>2 DEF FetchByNumber, LastBlock
<1> QED
  BY <1>2, <1>3 DEF FetchByNumber, LastBlock

(* A gap: the entries above n are not live any more. *)
LEMMA LogCut ==
    ASSUME NEW m \in Log, NEW n \in Nat
    PROVE  [m EXCEPT !.at = [k \in Numbers |-> IF k > n THEN [@[k] EXCEPT !.live = FALSE] ELSE @[k]]] \in Log
<1>1. m.at \in [Numbers -> Entry]
  BY DEF Log
<1> DEFINE a == [k \in Numbers |-> IF k > n THEN [m.at[k] EXCEPT !.live = FALSE] ELSE m.at[k]]
<1>2. a \in [Numbers -> Entry]
  BY <1>1 DEF Entry
<1> HIDE DEF a
<1>3. [m EXCEPT !.at = a] \in Log
  BY <1>2 DEF Log
<1> QED
  BY <1>3 DEF a

-----------------------------------------------------------------------------
(* Sequences of transactions *)

LEMMA RangeAppend ==
    ASSUME NEW X, NEW p \in Seq(X), NEW x
    PROVE  Range(Append(p, x)) = Range(p) \cup {x}
<1> DEFINE q == Append(p, x)
           n == Len(p)
<1>1. n \in Nat /\ DOMAIN p = 1 .. n /\ DOMAIN q = 1 .. n + 1 /\ q[n + 1] = x /\ \A i \in 1 .. n : q[i] = p[i]
  OBVIOUS
<1> HIDE DEF q, n
<1>2. 1 .. n + 1 = (1 .. n) \cup {n + 1}
  BY <1>1
<1>3. Range(q) = Range(p) \cup {x}
  BY <1>1, <1>2 DEF Range
<1> QED
  BY <1>3 DEF q

LEMMA RangeConcat ==
    ASSUME NEW X, NEW p \in Seq(X), NEW q \in Seq(X)
    PROVE  Range(p) \subseteq Range(p \o q) /\ Range(q) \subseteq Range(p \o q)
<1> DEFINE r == p \o q
           m == Len(p)
           n == Len(q)
<1>1. /\ m \in Nat /\ n \in Nat /\ DOMAIN p = 1 .. m /\ DOMAIN q = 1 .. n /\ DOMAIN r = 1 .. m + n
      /\ \A i \in 1 .. m : r[i] = p[i]
  OBVIOUS
<1>2. ASSUME NEW i \in 1 .. n PROVE i + m \in 1 .. m + n /\ r[i + m] = q[i]
  OBVIOUS
<1> HIDE DEF r, m, n
<1>3. Range(p) \subseteq Range(r)
  <2>1. \A i \in 1 .. m : i \in 1 .. m + n
    BY <1>1
  <2> QED
    BY <1>1, <2>1 DEF Range
<1>4. Range(q) \subseteq Range(r)
  BY <1>1, <1>2 DEF Range
<1> QED
  BY <1>3, <1>4 DEF r

LEMMA RangeTail ==
    ASSUME NEW X, NEW p \in Seq(X), p # <<>>
    PROVE  Head(p) \in X /\ Tail(p) \in Seq(X) /\ Range(p) \subseteq {Head(p)} \cup Range(Tail(p))
<1> DEFINE q == Tail(p)
           n == Len(p)
<1>1. /\ n \in Nat \ {0} /\ DOMAIN p = 1 .. n /\ q \in Seq(X) /\ DOMAIN q = 1 .. n - 1
      /\ Head(p) = p[1] /\ p[1] \in X
  OBVIOUS
<1>2. ASSUME NEW i \in 2 .. n PROVE i - 1 \in 1 .. n - 1 /\ q[i - 1] = p[i]
  OBVIOUS
<1> HIDE DEF q, n
<1>3. \A i \in 1 .. n : i = 1 \/ i \in 2 .. n
  BY <1>1
<1>4. ASSUME NEW i \in 1 .. n PROVE p[i] = p[1] \/ p[i] \in Range(q)
  <2>1. CASE i \in 2 .. n
    BY <1>1, <1>2, <2>1 DEF Range
  <2> QED
    BY <1>3, <2>1
<1>5. Range(p) = {p[i] : i \in 1 .. n}
  BY <1>1 DEF Range
<1> QED
  BY <1>1, <1>4, <1>5 DEF q

LEMMA RangeType ==
    ASSUME NEW X, NEW p \in Seq(X)
    PROVE  Range(p) \subseteq X
BY DEF Range

LEMMA RangeEmpty == Range(<<>>) = {}
BY DEF Range

(* What the blocks of a chain applied. *)
LEMMA AppliedAppend ==
    ASSUME NEW c \in Seq(Blocks), NEW b \in Blocks
    PROVE  Applied(Append(c, b)) = Applied(c) \cup Range(BlockTxs[b])
<1> DEFINE d == Append(c, b)
           n == Len(c)
<1>1. n \in Nat /\ Len(d) = n + 1 /\ d[n + 1] = b /\ \A i \in 1 .. n : d[i] = c[i]
  OBVIOUS
<1> HIDE DEF d
<1>2. 1 .. n + 1 = (1 .. n) \cup {n + 1}
  BY <1>1
<1> HIDE DEF n
<1>3. Applied(d) = UNION {Range(BlockTxs[d[i]]) : i \in 1 .. n + 1}
  BY <1>1 DEF Applied
<1>4. Applied(c) = UNION {Range(BlockTxs[c[i]]) : i \in 1 .. n}
  BY DEF Applied, n
<1>5. Applied(d) = Applied(c) \cup Range(BlockTxs[b])
  BY <1>1, <1>2, <1>3, <1>4
<1> QED
  BY <1>5 DEF d

LEMMA AppliedUnder ==
    ASSUME NEW c \in Seq(Blocks), NEW d \in Seq(Blocks), d # <<>>, Under(c, d)
    PROVE  Applied(d) \subseteq Applied(c) \cup Range(BlockTxs[IdOfHead(d)])
<1>1. CASE c = d
  BY <1>1
<1>2. CASE c # d
  <2> DEFINE n == Len(d)
             b == d[n]
  <2>1. c = SubSeq(d, 1, n - 1) /\ n \in Nat \ {0} /\ b \in Blocks /\ IdOfHead(d) = b
    BY <1>2 DEF Under, Front, IdOfHead
  <2>2. n - 1 \in Nat /\ 1 <= (n - 1) + 1 /\ n - 1 <= Len(d) /\ 1 \in Nat \ {0}
    BY <2>1
  <2>3. ASSUME NEW m \in Nat, m = n - 1
        PROVE  Len(c) = n - 1 /\ \A i \in 1 .. n - 1 : c[i] = d[i]
    <3>1. Len(SubSeq(d, 1, m)) = m - 1 + 1 /\ \A i \in 1 .. m - 1 + 1 : SubSeq(d, 1, m)[i] = d[i + 1 - 1]
      BY <2>2, <2>3, Slice
    <3> QED
      BY <2>1, <2>3, <3>1
  <2>4. Len(c) = n - 1 /\ \A i \in 1 .. n - 1 : c[i] = d[i]
    BY <2>2, <2>3
  <2>5. 1 .. n = (1 .. n - 1) \cup {n}
    BY <2>1
  <2>6. Applied(d) = UNION {Range(BlockTxs[d[i]]) : i \in 1 .. n}
    BY DEF Applied
  <2>7. Applied(c) = UNION {Range(BlockTxs[c[i]]) : i \in 1 .. n - 1}
    BY <2>4 DEF Applied
  <2> HIDE DEF n
  <2> QED
    BY <2>1, <2>4, <2>5, <2>6, <2>7
<1> QED
  BY <1>1, <1>2

-----------------------------------------------------------------------------
(* The pending transactions *)

(* p is what applied, one after the other, on top of done and dup. *)
Before(p, i) == {p[j] : j \in 1 .. i - 1}
InTurn(p, done, dup) ==
    \A i \in 1 .. Len(p) : TxApplies(p[i], done \cup Before(p, i), dup \cup Before(p, i))

(* s is the state c with the pending transactions p on top. *)
Pends(s, c, p) ==
    /\ s.chain = c.chain /\ s.dedupe = c.dedupe \cup Range(p)
    /\ InTurn(p, Applied(s.chain), c.dedupe)

LEMMA NoPend ==
    ASSUME NEW s
    PROVE  Pends(s, s, <<>>)
BY DEF Pends, InTurn, Range

LEMMA OneMoreTx ==
    ASSUME NEW s \in Good, NEW c \in Good, NEW p \in Seq(Txs), NEW t \in Txs, Pends(s, c, p),
           TxApplies(t, Applied(s.chain) \cup Range(p), s.dedupe), NEW r \in Good,
           r.chain = s.chain, r.dedupe = s.dedupe \cup {t}
    PROVE  Pends(r, c, Append(p, t))
<1> DEFINE q == Append(p, t)
           n == Len(p)
           done == Applied(s.chain)
           dup == c.dedupe
<1>1. /\ n \in Nat /\ Len(q) = n + 1 /\ q[n + 1] = t /\ \A i \in 1 .. n : q[i] = p[i]
      /\ DOMAIN p = 1 .. n
  OBVIOUS
<1>2. Range(q) = Range(p) \cup {t}
  BY RangeAppend
<1> HIDE DEF q, n
<1>3. ASSUME NEW i \in 1 .. n + 1 PROVE Before(q, i) = Before(p, i)
  <2>1. \A j \in 1 .. i - 1 : j \in 1 .. n
    BY <1>1
  <2> QED
    BY <1>1, <2>1 DEF Before
<1>4. Before(p, n + 1) = Range(p)
  <2>1. (n + 1) - 1 = n
    BY <1>1
  <2> QED
    BY <1>1, <2>1 DEF Before, Range
<1>5. s.dedupe = dup \cup Range(p) /\ InTurn(p, done, dup)
  BY DEF Pends
<1>6. ASSUME NEW i \in 1 .. n + 1 PROVE TxApplies(q[i], done \cup Before(q, i), dup \cup Before(q, i))
  <2>1. CASE i = n + 1
    BY <1>1, <1>3, <1>4, <1>5, <2>1
  <2>2. CASE i # n + 1
    <3>1. i \in 1 .. n
      BY <1>1, <2>2
    <3>2. TxApplies(p[i], done \cup Before(p, i), dup \cup Before(p, i))
      BY <1>5, <3>1 DEF InTurn, n
    <3>3. q[i] = p[i] /\ Before(q, i) = Before(p, i)
      BY <1>1, <1>3, <3>1
    <3> QED
      BY <3>2, <3>3
  <2> QED
    BY <2>1, <2>2
<1>7. InTurn(q, done, dup)
  BY <1>1, <1>6 DEF InTurn
<1>8. r.dedupe = dup \cup Range(q)
  BY <1>2, <1>5
<1> QED
  BY <1>7, <1>8 DEF Pends, q

(* What applied in turn applies in turn. *)
LEMMA Reapplies ==
    ASSUME NEW p \in Seq(Txs), NEW done, NEW dup, InTurn(p, done, dup)
    PROVE  Applicable(p, done, dup, Len(p)) = p
<1> DEFINE n == Len(p)
           A == Seq(Txs)
           Step(a, t) == IF Len(a) < n /\ TxApplies(t, done \cup Range(a), dup \cup Range(a)) THEN Append(a, t) ELSE a
           F == [x \in A \X (1 .. n) |-> Step(x[1], p[x[2]])]
<1>1. n \in Nat /\ DOMAIN p = 1 .. n /\ \A i \in 1 .. n : p[i] \in Txs
  OBVIOUS
<1>2. ASSUME NEW a \in A, NEW i \in 1 .. n PROVE F[<<a, i>>] = Step(a, p[i]) /\ Step(a, p[i]) \in A
  <2>1. Append(a, p[i]) \in A
    BY <1>1
  <2> QED
    BY <2>1
<1> HIDE DEF F
<1> DEFINE Eq(g) == g = [s \in SUBSET (1 .. n) |-> IF s = {} THEN <<>> ELSE Step(g[s \ {Max(s)}], p[Max(s)])]
<1>3. \E g : Eq(g)
  <2>0. <<>> \in A
    OBVIOUS
  <2>1. \A a \in A, i \in 1 .. n : F[<<a, i>>] \in A
    <3> HIDE DEF A, Step
    <3> QED
      BY <1>2
  <2>2. PICK G : FoldSolves(G, F, A, <<>>, n)
    <3> HIDE DEF A
    <3> QED
      BY <1>1, <2>0, <2>1, FoldSolution
  <2>3. G \in [SUBSET (1 .. n) -> A]
    BY <2>2 DEF FoldSolves
  <2>4. ASSUME NEW s \in SUBSET (1 .. n)
        PROVE  G[s] = IF s = {} THEN <<>> ELSE Step(G[s \ {Max(s)}], p[Max(s)])
    <3>1. CASE s # {}
      <4>1. Max(s) \in 1 .. n
        BY <1>1, <3>1, MaxUpTo
      <4>2. G[s \ {Max(s)}] \in A
        BY <2>3
      <4>3. G[s] = F[<<G[s \ {Max(s)}], Max(s)>>]
        BY <2>2, <3>1 DEF FoldSolves
      <4> HIDE DEF Step, A
      <4> QED
        BY <1>2, <3>1, <4>1, <4>2, <4>3
    <3> QED
      BY <2>2, <3>1 DEF FoldSolves
  <2> HIDE DEF Step
  <2>5. Eq(G)
    BY <2>3, <2>4
  <2> QED
    BY <2>5
<1> DEFINE g == CHOOSE g : Eq(g)
<1>4. Applicable(p, done, dup, n) = g[1 .. n]
  BY <1>1 DEF Applicable, FoldLeft, MapThenFoldSet
<1> HIDE DEF Step
<1>5. Eq(g)
  BY <1>3
<1> HIDE DEF g
<1>6. g[{}] = <<>>
  BY <1>5
<1>7. ASSUME NEW k \in 1 .. n PROVE g[1 .. k] = Step(g[1 .. k - 1], p[k])
  <2>1. 1 .. k \in SUBSET (1 .. n) /\ 1 .. k # {} /\ Max(1 .. k) = k /\ (1 .. k) \ {k} = 1 .. k - 1
    BY <1>1, Prefix
  <2> QED
    BY ONLY <1>5, <2>1
<1> DEFINE Same(a, k) == a \in A /\ Len(a) = k /\ \A i \in 1 .. k : a[i] = p[i]
           N == {k \in Nat : k <= n => Same(g[1 .. k], k)}
<1>8. 0 \in N
  <2>1. 1 .. 0 = {} /\ Same(<<>>, 0)
    OBVIOUS
  <2>2. Same(g[1 .. 0], 0)
    BY <1>6, <2>1
  <2> QED
    BY <2>2
<1>9. ASSUME NEW m \in Nat, m \in N PROVE m + 1 \in N
  <2> SUFFICES ASSUME m + 1 <= n PROVE Same(g[1 .. m + 1], m + 1)
    OBVIOUS
  <2> DEFINE a == g[1 .. m]
             k == m + 1
  <2>1. m <= n /\ k \in 1 .. n /\ k - 1 = m /\ m < n
    BY <1>1
  <2>2. Same(a, m)
    BY <1>9, <2>1
  <2>3. g[1 .. k] = Step(a, p[k])
    BY <1>7, <2>1
  <2> HIDE DEF a, k, N
  <2>4. a \in A /\ Len(a) = m /\ DOMAIN a = 1 .. m /\ \A i \in 1 .. m : a[i] = p[i]
    BY <2>2
  <2>5. Range(a) = Before(p, k)
    BY <2>1, <2>4 DEF Range, Before
  <2>6. TxApplies(p[k], done \cup Range(a), dup \cup Range(a))
    BY <2>1, <2>5 DEF InTurn
  <2>7. g[1 .. k] = Append(a, p[k])
    BY <2>1, <2>3, <2>4, <2>6 DEF Step
  <2>8. p[k] \in Txs
    BY <1>1, <2>1
  <2>9. Same(Append(a, p[k]), m + 1)
    <3> DEFINE b == Append(a, p[k])
    <3>1. b \in A /\ Len(b) = m + 1 /\ b[m + 1] = p[k] /\ \A i \in 1 .. m : b[i] = a[i]
      BY <2>4, <2>8
    <3> HIDE DEF b
    <3>2. k = m + 1 /\ \A i \in 1 .. m + 1 : i = m + 1 \/ i \in 1 .. m
      BY DEF k
    <3>3. Same(b, m + 1)
      BY <2>4, <3>1, <3>2
    <3> QED
      BY <3>3 DEF b
  <2> QED
    BY <2>7, <2>9 DEF k
<1>10. n \in N
  <2> HIDE DEF N
  <2> QED
    BY <1>1, <1>8, <1>9, SetInduction
<1>11. Same(g[1 .. n], n)
  BY <1>1, <1>10
<1>12. g[1 .. n] = p
  <2> DEFINE q == g[1 .. n]
  <2>1. q \in Seq(Txs) /\ Len(q) = Len(p) /\ \A i \in 1 .. Len(p) : q[i] = p[i]
    BY <1>11
  <2> HIDE DEF q
  <2>2. q = p
    BY ONLY <2>1, p \in Seq(Txs)
  <2> QED
    BY <2>2 DEF q
<1> QED
  BY <1>4, <1>12

-----------------------------------------------------------------------------
(* The inductive invariant *)

Jobs == [block : Blocks \cup {Zero}, first : Seq(Blocks), second : Seq(Blocks), at : Nat, restore : Seq(Txs)]

Types ==
    /\ saved \in Good /\ undo_max \in Nat /\ undo_max > 1
    /\ session \in BOOLEAN /\ unclean \in BOOLEAN /\ outdated \in BOOLEAN
    /\ pending \in Seq(Txs) /\ popped \in Seq(Txs)
    /\ fork \in Fork /\ log \in Log
    /\ pc \in Places /\ job \in Jobs /\ base \in Nat

(* The head is the block that the switch applied last. *)
At(s) == HeadId = IF job.at = 0 THEN MeetId ELSE s[job.at]

(* The branches of a switch begin above the same block, and the head is    *)
(* where the switch has got to.                                            *)
Forked(j) ==
    /\ j.first # <<>> /\ j.second # <<>> /\ Linked(j.first) /\ Linked(j.second)
    /\ Prev[j.first[1]] = Prev[j.second[1]] /\ j.block \in Blocks

JobOK ==
    /\ pc \in {"pop", "apply", "unwind", "reapply"} => Forked(job)
    /\ pc \in {"pop", "unwind"} => job.at = 0
    /\ pc = "apply" => job.at < Len(job.first) /\ At(job.first)
    /\ pc = "reapply" => job.at < Len(job.second) /\ At(job.second)
    /\ pc \in {"produce", "replay"} => job.block \in Blocks
    /\ pc \in {"idle", "produce", "replay", "down"} => job.restore = <<>>

(* The pending session: its copy is the head block's state, and the        *)
(* pending transactions were applied to it in turn.                        *)
PendOK ==
    /\ session => undo # <<>> /\ pc \in {"idle", "restore"}
    /\ pc \notin {"idle", "restore", "produce"} => pending = <<>>
    /\ pc \in {"idle", "restore"} => (pending # <<>> => session) /\ Pends(state, CleanState, pending)

ChainInv ==
    /\ Stack(undo, state) /\ Types /\ JobOK /\ PendOK
    /\ pc \in {"down", "replay"} => undo = <<>>

(* The step of TransactionsKept. *)
Kept ==
    pc \notin {"down", "close"} /\ pc' \notin {"down", "close"} =>
         \A t \in Held : \/ t \in Held'
                         \/ /\ pc = "restore" /\ t = Head(ToRestore)
                            /\ ~ TxApplies(t, Applied(state.chain) \cup Range(pending), state.dedupe)

LEMMA NoJobType ==
    /\ NoJob \in Jobs /\ NoJob.restore = <<>> /\ NoJob.at = 0
    /\ \A b \in Blocks \cup {Zero} : /\ [NoJob EXCEPT !.block = b] \in Jobs
                                     /\ [NoJob EXCEPT !.block = b].block = b
                                     /\ [NoJob EXCEPT !.block = b].restore = <<>>
    /\ \A n \in Nat : [NoJob EXCEPT !.at = n] \in Jobs
<1>1. <<>> \in Seq(Blocks) /\ <<>> \in Seq(Txs)
  OBVIOUS
<1>2. NoJob \in Jobs /\ NoJob.restore = <<>> /\ NoJob.at = 0
  BY <1>1 DEF NoJob, Jobs
<1> QED
  BY <1>2 DEF Jobs

LEMMA GoodParts ==
    ASSUME NEW s \in Good
    PROVE  /\ s \in States /\ s = [chain |-> s.chain, dedupe |-> s.dedupe]
           /\ s.chain \in Seq(Blocks) /\ IsChain(s.chain) /\ s.dedupe \in SUBSET Txs
BY DEF Good, States

LEMMA MoreDedupe ==
    ASSUME NEW s \in Good, NEW T \in SUBSET Txs, NEW r, r = [s EXCEPT !.dedupe = @ \cup T]
    PROVE  r \in Good /\ r.chain = s.chain /\ r.dedupe = s.dedupe \cup T
BY DEF Good, States

(* Ending the pending session gives back the state of the head block. *)
LEMMA Cleaned ==
    ASSUME ChainInv
    PROVE  /\ Stack(CleanUndo, CleanState) /\ CleanState \in Good
           /\ pc \in {"idle", "produce", "restore"} => CleanState.chain = state.chain
<1>1. Stack(undo, state) /\ (session => undo # <<>>)
  BY DEF ChainInv, PendOK
<1>2. CASE session
  <2>1. CleanState = undo[Len(undo)] /\ CleanUndo = DropSession(undo, CleanState)
    BY <1>2 DEF CleanState, CleanUndo
  <2>2. Stack(CleanUndo, CleanState)
    BY <1>1, <1>2, <2>1, DropStack
  <2>3. pc \in {"idle", "restore"}
    BY <1>2 DEF ChainInv, PendOK
  <2>4. CleanState.chain = state.chain
    BY <2>3 DEF ChainInv, PendOK, Pends
  <2> QED
    BY <2>2, <2>4 DEF Stack
<1>3. CASE ~ session
  BY <1>1, <1>3 DEF CleanState, CleanUndo, Stack
<1> QED
  BY <1>2, <1>3

(* _push_transaction keeps the pending session in order. *)
LEMMA Tried ==
    ASSUME ChainInv, pc \in {"idle", "restore"}, NEW t \in Txs, TryTransaction(t, pending)
    PROVE  /\ Stack(undo', state') /\ session' = TRUE /\ undo' # <<>> /\ pending' \in Seq(Txs)
           /\ Pends(state', CleanState', pending')
           /\ state'.chain = state.chain /\ Range(pending) \subseteq Range(pending')
           /\ TxApplies(t, Applied(state.chain) \cup Range(pending), state.dedupe) => t \in Range(pending')
<1> DEFINE u == IF session THEN undo ELSE Append(Trim(undo), state)
           ok == TxApplies(t, Applied(state.chain) \cup Range(pending), state.dedupe)
           c == CleanState
           more == [state EXCEPT !.dedupe = @ \cup {t}]
<1>1. /\ Stack(undo, state) /\ undo_max \in Nat /\ undo_max > 1 /\ (session => undo # <<>>)
      /\ pending \in Seq(Txs) /\ Pends(state, c, pending) /\ state \in Good /\ c \in Good
  BY Cleaned DEF ChainInv, PendOK, Types, Stack
<1>2. Stack(u, state) /\ u # <<>> /\ u[Len(u)] = c
  <2>1. CASE session
    BY <1>1, <2>1 DEF CleanState
  <2>2. CASE ~ session
    <3>1. Under(state.chain, state.chain)
      BY DEF Under
    <3> DEFINE v == Append(Trim(undo), state)
    <3>2. Stack(v, state) /\ v # <<>> /\ v[Len(v)] = state
      BY <1>1, <3>1, GrowTrimmed
    <3> HIDE DEF v
    <3>3. u = v /\ c = state
      BY <2>2 DEF CleanState, v
    <3> HIDE DEF u, c
    <3> QED
      BY ONLY <3>2, <3>3
  <2> QED
    BY <2>1, <2>2
<1>3. /\ session' = TRUE /\ undo' = Nested(u, ok /\ t \in Executes)
      /\ pending' = (IF ok THEN Append(pending, t) ELSE pending)
      /\ state' = (IF ok THEN more ELSE state)
  BY DEF TryTransaction
<1> HIDE DEF u, ok, c
<1>4. Keeps(undo', u, state)
  BY <1>1, <1>2, <1>3, NestedKeeps
<1>5. Stack(undo', state) /\ undo' # <<>> /\ undo'[Len(undo')] = c
  BY <1>2, <1>4 DEF Keeps
<1>6. CleanState' = c
  BY <1>3, <1>5 DEF CleanState
<1>7. {t} \in SUBSET Txs
  OBVIOUS
<1>8. more \in Good /\ more.chain = state.chain /\ more.dedupe = state.dedupe \cup {t}
  BY <1>1, <1>7, MoreDedupe
<1> HIDE DEF more
<1>9. CASE ok
  <2>1. Stack(undo', more)
    BY <1>5, <1>8, SameChain
  <2>2. TxApplies(t, Applied(state.chain) \cup Range(pending), state.dedupe)
    BY <1>9 DEF ok
  <2>3. Pends(more, c, Append(pending, t))
    BY <1>1, <1>8, <2>2, OneMoreTx
  <2>4. Append(pending, t) \in Seq(Txs) /\ Range(Append(pending, t)) = Range(pending) \cup {t}
    BY <1>1, RangeAppend
  <2> QED
    BY <1>3, <1>5, <1>6, <1>8, <1>9, <2>1, <2>3, <2>4
<1>10. CASE ~ ok
  BY <1>1, <1>3, <1>5, <1>6, <1>10 DEF ok
<1> QED
  BY <1>9, <1>10

-----------------------------------------------------------------------------
(* push_transaction, validate_transaction *)

LEMMA PushTransactionStep ==
    ASSUME ChainInv, NEW t \in Txs, PushTransaction(t)
    PROVE  ChainInv' /\ Kept
<1>1. /\ pc = "idle" /\ pc' = pc /\ job' = job /\ TryTransaction(t, pending)
      /\ undo_max' = undo_max /\ popped' = popped /\ fork' = fork /\ base' = base
      /\ log' = log /\ saved' = saved /\ unclean' = unclean /\ outdated' = outdated
  BY DEF PushTransaction, Idle, diskvars
<1>2. /\ Stack(undo', state') /\ session' = TRUE /\ undo' # <<>> /\ pending' \in Seq(Txs)
      /\ Pends(state', CleanState', pending')
      /\ state'.chain = state.chain /\ Range(pending) \subseteq Range(pending')
  BY <1>1, Tried
<1>3. Types'
  BY <1>1, <1>2 DEF ChainInv, Types
<1>4. JobOK'
  BY <1>1 DEF ChainInv, JobOK
<1>5. PendOK'
  BY <1>1, <1>2 DEF PendOK
<1>6. Kept
  BY <1>1, <1>2 DEF Kept, Held
<1> QED
  BY <1>1, <1>2, <1>3, <1>4, <1>5, <1>6 DEF ChainInv

LEMMA ValidateTransactionStep ==
    ASSUME ChainInv, NEW t \in Txs, ValidateTransaction(t)
    PROVE  ChainInv' /\ Kept
<1>1. /\ pc = "idle" /\ pc' = pc /\ job' = job /\ state' = state /\ session' = session /\ pending' = pending
      /\ undo_max' = undo_max /\ popped' = popped /\ fork' = fork /\ base' = base
      /\ log' = log /\ saved' = saved /\ unclean' = unclean /\ outdated' = outdated
  BY DEF ValidateTransaction, Idle, diskvars
<1>2. PICK deep : undo' = IF undo = <<>> THEN <<state>> ELSE Nested(undo, deep)
  BY DEF ValidateTransaction
<1>3. Stack(undo, state) /\ undo_max \in Nat /\ undo_max > 1 /\ state \in Good
  BY DEF ChainInv, Types, Stack
<1>4. Stack(undo', state') /\ undo' # <<>> /\ (undo # <<>> => undo'[Len(undo')] = undo[Len(undo)])
  <2>1. CASE undo = <<>>
    <3>1. undo' = Append(undo, state)
      BY <1>2, <2>1
    <3>2. Stack(Append(undo, state), state)
      BY <1>3, Grow DEF Under
    <3>3. undo' # <<>>
      BY <1>2, <2>1
    <3> QED
      BY <1>1, <2>1, <3>1, <3>2, <3>3
  <2>2. CASE undo # <<>>
    <3>1. Keeps(Nested(undo, deep), undo, state)
      BY <1>3, <2>2, NestedKeeps
    <3> QED
      BY <1>1, <1>2, <2>2, <3>1 DEF Keeps
  <2> QED
    BY <2>1, <2>2
<1>5. CleanState' = CleanState
  BY <1>1, <1>4 DEF CleanState, ChainInv, PendOK
<1>6. Types' /\ JobOK'
  BY <1>1 DEF ChainInv, Types, JobOK, At, HeadId, MeetId
<1>7. PendOK'
  BY <1>1, <1>4, <1>5 DEF ChainInv, PendOK
<1>8. Kept
  BY <1>1 DEF Kept, Held
<1> QED
  BY <1>1, <1>4, <1>6, <1>7, <1>8 DEF ChainInv

-----------------------------------------------------------------------------
(* push_block *)

LEMMA RestoringType ==
    ASSUME ChainInv, NEW b \in Blocks
    PROVE  /\ Restoring(b) \in Jobs /\ Restoring(b).restore = pending /\ Restoring(b).block = b
           /\ Restoring(b).at = 0
<1>1. pending \in Seq(Txs)
  BY DEF ChainInv, Types
<1>2. NoJob \in Jobs /\ NoJob.at = 0
  BY NoJobType
<1>3. Restoring(b) = [NoJob EXCEPT !.block = b, !.restore = pending]
  BY DEF Restoring
<1>4. /\ Restoring(b) \in Jobs /\ Restoring(b).restore = pending /\ Restoring(b).block = b /\ Restoring(b).at = 0
  BY <1>1, <1>2, <1>3 DEF Jobs
<1> QED
  BY <1>4

(* What holds when push_block has begun. *)
LEMMA Begun ==
    ASSUME ChainInv, NEW b \in Blocks, BeginPush(b)
    PROVE  /\ pc \in {"idle", "produce"} /\ session' = FALSE /\ pending' = <<>> /\ popped' = popped
           /\ saved' = saved /\ unclean' = unclean /\ outdated' = outdated /\ base' = base
           /\ Stack(CleanUndo, CleanState) /\ CleanState \in Good /\ CleanState.chain = state.chain
           /\ job.restore = <<>> /\ undo_max \in Nat /\ undo_max > 1 /\ fork \in Fork /\ log \in Log
<1>1. /\ pc \in {"idle", "produce"} /\ session' = FALSE /\ pending' = <<>> /\ popped' = popped
      /\ saved' = saved /\ unclean' = unclean /\ outdated' = outdated /\ base' = base
  BY DEF BeginPush, Idle
<1>2. Stack(CleanUndo, CleanState) /\ CleanState \in Good /\ CleanState.chain = state.chain
  BY <1>1, Cleaned
<1>3. job.restore = <<>>
  BY <1>1 DEF ChainInv, JobOK
<1> QED
  BY <1>1, <1>2, <1>3 DEF ChainInv, Types

(* A push that goes on to restore the pending transactions. *)
LEMMA Pushed ==
    ASSUME ChainInv, NEW b \in Blocks, BeginPush(b), pc' = "restore", job' = Restoring(b),
           Stack(undo', state'), undo_max' \in Nat, undo_max' > 1, fork' \in Fork, log' \in Log,
           Applied(state.chain) \subseteq Applied(state'.chain)
    PROVE  ChainInv' /\ Kept
<1>1. /\ pc \in {"idle", "produce"} /\ session' = FALSE /\ pending' = <<>> /\ popped' = popped
      /\ saved' = saved /\ unclean' = unclean /\ outdated' = outdated /\ base' = base
      /\ job.restore = <<>>
  BY Begun
<1>2. job' \in Jobs /\ job'.restore = pending
  BY RestoringType
<1>3. Types'
  <2>1. pending' \in Seq(Txs)
    BY <1>1
  <2>2. session' \in BOOLEAN
    BY <1>1
  <2>3. pc' \in Places
    BY DEF Places
  <2> QED
    BY <1>1, <1>2, <2>1, <2>2, <2>3 DEF ChainInv, Types
<1>4. JobOK'
  BY DEF JobOK
<1>5. PendOK'
  <2>1. CleanState' = state'
    BY <1>1 DEF CleanState
  <2>2. Pends(state', CleanState', pending')
    BY <1>1, <2>1, NoPend
  <2> QED
    BY <1>1, <2>2 DEF PendOK
<1>6. Kept
  BY <1>1, <1>2, RangeEmpty DEF Kept, Held
<1> QED
  BY <1>3, <1>4, <1>5, <1>6 DEF ChainInv

LEMMA PushRejectedStep ==
    ASSUME ChainInv, NEW b \in Blocks, PushRejected(b) \/ PushIgnored(b) \/ PushUnswitchable(b)
    PROVE  ChainInv' /\ Kept
<1>1. /\ BeginPush(b) /\ state' = CleanState /\ undo' = CleanUndo /\ pc' = "restore"
      /\ job' = Restoring(b) /\ fork' \in {fork, ForkPush(fork, b)} /\ log' = log /\ undo_max' = undo_max
  BY DEF PushRejected, PushIgnored, PushUnswitchable
<1>2. /\ Stack(CleanUndo, CleanState) /\ CleanState.chain = state.chain
      /\ undo_max \in Nat /\ undo_max > 1 /\ fork \in Fork /\ log \in Log
  BY <1>1, Begun
<1>3. fork' \in Fork
  BY <1>1, <1>2, ForkPushType
<1> QED
  BY <1>1, <1>2, <1>3, Pushed

LEMMA PushAppliesStep ==
    ASSUME ChainInv, NEW b \in Blocks, PushApplies(b)
    PROVE  ChainInv' /\ Kept
<1>1. /\ BeginPush(b) /\ BlockApplies(b, CleanState, TRUE) /\ state' = AfterBlock(b, CleanState, TRUE)
      /\ undo' = WithBlock(b, CleanUndo, CleanState) /\ undo_max' = HistorySize(b, CleanState)
      /\ fork' = ForkSetMaxSize(ForkPush(fork, b), HistorySize(b, CleanState)) /\ log' = StoreIn(log, b, b)
      /\ pc' = "restore" /\ job' = Restoring(b)
  BY DEF PushApplies
<1>2. /\ Stack(CleanUndo, CleanState) /\ CleanState \in Good /\ CleanState.chain = state.chain
      /\ undo_max \in Nat /\ fork \in Fork /\ log \in Log
  BY <1>1, Begun
<1>3. /\ state' \in Good /\ state'.chain = Append(CleanState.chain, b)
      /\ undo_max' \in Nat /\ undo_max' > 1
  BY <1>1, <1>2, Extends
<1>4. Stack(undo', state')
  BY <1>1, <1>2, <1>3, WithBlockStack
<1>5. fork' \in Fork /\ log' \in Log
  BY <1>1, <1>2, <1>3, ForkPushType, ForkSetMaxSizeType, LogStored
<1>6. state.chain \in Seq(Blocks)
  BY <1>2, GoodParts
<1>7. Applied(state.chain) \subseteq Applied(state'.chain)
  BY <1>2, <1>3, <1>6, AppliedAppend
<1> QED
  BY <1>1, <1>3, <1>4, <1>5, <1>7, Pushed

LEMMA PushFailsStep ==
    ASSUME ChainInv, NEW b \in Blocks, PushFails(b)
    PROVE  ChainInv' /\ Kept
<1>1. /\ BeginPush(b) /\ state' = CleanState /\ undo' = FailedBlock(CleanUndo, CleanState)
      /\ fork' = ForkRemove(ForkPush(fork, b), b) /\ log' = log /\ undo_max' = undo_max
      /\ pc' = "restore" /\ job' = Restoring(b)
  BY DEF PushFails
<1>2. /\ Stack(CleanUndo, CleanState) /\ CleanState.chain = state.chain
      /\ undo_max \in Nat /\ undo_max > 1 /\ fork \in Fork /\ log \in Log
  BY <1>1, Begun
<1>3. Stack(undo', state')
  BY <1>1, <1>2, FailedBlockStack
<1>4. fork' \in Fork
  BY <1>1, <1>2, ForkPushType, EraseType DEF ForkRemove
<1> QED
  BY <1>1, <1>2, <1>3, <1>4, Pushed

LEMMA PushSwitchesStep ==
    ASSUME ChainInv, NEW b \in Blocks, PushSwitches(b)
    PROVE  ChainInv' /\ Kept
<1> DEFINE x == PushedHead(b)
           f == Branch(x, MeetAt(x, HeadId))
           g == Branch(HeadId, MeetAt(x, HeadId))
<1>1. /\ BeginPush(b) /\ Higher(b) /\ ~ NoBranch(b) /\ state' = CleanState /\ undo' = CleanUndo
      /\ fork' = ForkPush(fork, b) /\ log' = log /\ undo_max' = undo_max
      /\ pc' = "pop" /\ job' = [Restoring(b) EXCEPT !.first = f, !.second = g]
  BY DEF PushSwitches
<1>2. /\ Stack(CleanUndo, CleanState) /\ CleanState \in Good /\ CleanState.chain = state.chain
      /\ undo_max \in Nat /\ undo_max > 1 /\ fork \in Fork /\ log \in Log
      /\ session' = FALSE /\ pending' = <<>> /\ popped' = popped
      /\ saved' = saved /\ unclean' = unclean /\ outdated' = outdated /\ base' = base
      /\ job.restore = <<>>
  BY <1>1, Begun
<1>3. fork' \in Fork
  BY <1>1, <1>2, ForkPushType
<1>4. x \in Blocks /\ HeadId \in Blocks
  <2>1. {x, HeadId} \subseteq ForkPush(fork, b).index
    BY <1>1 DEF NoBranch, BranchThrows
  <2>2. ForkPush(fork, b).index \in SUBSET Blocks
    BY <1>1, <1>3 DEF Fork
  <2> QED
    BY <2>1, <2>2
<1> HIDE DEF x
<1>5. /\ f \in Seq(Blocks) /\ f # <<>> /\ Linked(f) /\ g \in Seq(Blocks) /\ g # <<>> /\ Linked(g)
      /\ Prev[f[1]] = Prev[g[1]]
  BY <1>4, Branches
<1> HIDE DEF f, g
<1>6. /\ job' \in Jobs /\ job'.first = f /\ job'.second = g /\ job'.restore = pending
      /\ job'.block = b /\ job'.at = 0
  <2>1. /\ Restoring(b) \in Jobs /\ Restoring(b).restore = pending /\ Restoring(b).block = b
        /\ Restoring(b).at = 0
    BY RestoringType
  <2> DEFINE r == Restoring(b)
  <2> HIDE DEF r
  <2>2. r \in Jobs /\ job' = [r EXCEPT !.first = f, !.second = g]
    BY <1>1, <2>1 DEF r
  <2>3. /\ job' \in Jobs /\ job'.first = f /\ job'.second = g /\ job'.restore = r.restore
        /\ job'.block = r.block /\ job'.at = r.at
    BY ONLY <1>5, <2>2 DEF Jobs
  <2> QED
    BY <2>1, <2>3 DEF r
<1>7. Types'
  <2>1. pending' \in Seq(Txs)
    BY <1>2
  <2>2. session' \in BOOLEAN
    BY <1>2
  <2>3. pc' \in Places
    BY <1>1 DEF Places
  <2> QED
    BY <1>1, <1>2, <1>3, <1>6, <2>1, <2>2, <2>3 DEF ChainInv, Types
<1>8. JobOK'
  BY <1>1, <1>5, <1>6 DEF JobOK, Forked
<1>9. PendOK'
  BY <1>1, <1>2 DEF PendOK
<1>10. Kept
  BY <1>1, <1>2, <1>6, RangeEmpty DEF Kept, Held
<1> QED
  BY <1>1, <1>2, <1>7, <1>8, <1>9, <1>10 DEF ChainInv

LEMMA PushBlockStep ==
    ASSUME ChainInv, NEW b \in Blocks, PushBlock(b)
    PROVE  ChainInv' /\ Kept
BY PushRejectedStep, PushAppliesStep, PushFailsStep, PushSwitchesStep DEF PushBlock

LEMMA GenerateBlockStep ==
    ASSUME ChainInv, NEW b \in Blocks, GenerateBlock(b)
    PROVE  ChainInv' /\ Kept
<1> DEFINE c == CleanState
           u == Append(Trim(CleanUndo), c)
           deep == Range(BlockTxs[b]) \cap Executes # {}
           v == IF pending = <<>> THEN u ELSE Nested(u, deep)
<1>1. /\ pc = "idle" /\ state' = c /\ undo' = DropSession(v, c) /\ session' = FALSE
      /\ pc' = "produce" /\ job' = [NoJob EXCEPT !.block = b]
      /\ undo_max' = undo_max /\ popped' = popped /\ fork' = fork /\ base' = base /\ pending' = pending
      /\ log' = log /\ saved' = saved /\ unclean' = unclean /\ outdated' = outdated
  BY DEF GenerateBlock, Idle, diskvars
<1>2. /\ Stack(CleanUndo, c) /\ c \in Good /\ c.chain = state.chain
      /\ undo_max \in Nat /\ undo_max > 1 /\ job.restore = <<>>
  BY <1>1, Cleaned DEF ChainInv, Types, JobOK
<1>3. Stack(u, c) /\ u # <<>> /\ u[Len(u)] = c
  <2>1. Under(c.chain, c.chain)
    BY DEF Under
  <2> HIDE DEF c
  <2> QED
    BY <1>2, <2>1, GrowTrimmed
<1> HIDE DEF u, c, deep
<1>4. Stack(v, c) /\ v # <<>> /\ v[Len(v)] = c
  <2>1. Keeps(Nested(u, deep), u, c)
    BY <1>2, <1>3, NestedKeeps
  <2> QED
    BY <1>3, <2>1 DEF Keeps
<1> HIDE DEF v
<1>5. Stack(undo', state')
  BY <1>1, <1>4, DropStack
<1>6. job' \in Jobs /\ job'.block = b /\ job'.restore = <<>>
  BY <1>1, NoJobType
<1>7. Types'
  <2>1. session' \in BOOLEAN /\ pc' \in Places
    BY <1>1 DEF Places
  <2> QED
    BY <1>1, <1>2, <1>6, <2>1 DEF ChainInv, Types
<1>8. JobOK' /\ PendOK'
  BY <1>1, <1>6 DEF JobOK, PendOK
<1>9. Kept
  BY <1>1, <1>2, <1>6 DEF Kept, Held
<1> QED
  BY <1>1, <1>5, <1>7, <1>8, <1>9 DEF ChainInv

-----------------------------------------------------------------------------
(* Switching forks *)

LEMMA Popped ==
    ASSUME ChainInv, CanPop
    PROVE  /\ Stack(Front(undo), undo[Len(undo)]) /\ HeadId \in Blocks
           /\ ForkPop(fork) \in Fork /\ RemoveFrom(log, HeadId) \in Log
           /\ BlockTxs[HeadId] \o popped \in Seq(Txs)
           /\ Applied(state.chain) \subseteq Applied(undo[Len(undo)].chain) \cup Range(BlockTxs[HeadId] \o popped)
           /\ Range(popped) \subseteq Range(BlockTxs[HeadId] \o popped)
<1>1. /\ state.chain # <<>> /\ ~ ForkPopThrows(fork) /\ undo # <<>>
  BY DEF CanPop, LogPopped, ForkPopped, HeadFetched
<1>2. /\ Stack(undo, state) /\ state \in Good /\ fork \in Fork /\ log \in Log /\ popped \in Seq(Txs)
  BY DEF ChainInv, Types, Stack
<1>3. state.chain \in Seq(Blocks) /\ HeadId \in Blocks
  BY <1>1, <1>2, GoodParts, Heads DEF HeadId
<1>4. /\ Stack(Front(undo), undo[Len(undo)]) /\ undo[Len(undo)] \in Good
      /\ Under(undo[Len(undo)].chain, state.chain)
  BY <1>1, <1>2, FrontStack
<1>5. undo[Len(undo)].chain \in Seq(Blocks)
  BY <1>4, GoodParts
<1>6. BlockTxs[HeadId] \in Seq(Txs)
  BY <1>3, ChainAssumption
<1>7. /\ BlockTxs[HeadId] \o popped \in Seq(Txs)
      /\ Range(BlockTxs[HeadId]) \subseteq Range(BlockTxs[HeadId] \o popped)
      /\ Range(popped) \subseteq Range(BlockTxs[HeadId] \o popped)
  BY <1>2, <1>6, RangeConcat
<1>8. Applied(state.chain) \subseteq Applied(undo[Len(undo)].chain) \cup Range(BlockTxs[HeadId])
  BY <1>1, <1>3, <1>4, <1>5, AppliedUnder DEF HeadId
<1> QED
  BY <1>1, <1>2, <1>3, <1>4, <1>7, <1>8, ForkPopType, LogRemoved

LEMMA PopThrown ==
    ASSUME ChainInv, PopBlockThrows
    PROVE  fork' \in Fork /\ log' \in Log /\ state' = state /\ undo' = undo /\ popped' = popped
<1>1. state \in Good /\ fork \in Fork /\ log \in Log
  BY DEF ChainInv, Types, Stack
<1>2. ForkPopped => HeadId \in Blocks /\ ForkPop(fork) \in Fork
  BY <1>1, GoodParts, Heads, ForkPopType DEF HeadId, ForkPopped, HeadFetched
<1>3. LogPopped => RemoveFrom(log, HeadId) \in Log
  BY <1>1, <1>2, LogRemoved DEF LogPopped
<1> QED
  BY <1>1, <1>2, <1>3 DEF PopBlockThrows

(* While blocks are popped and applied nothing is pending. *)
LEMMA NonePending ==
    ASSUME ChainInv, pc \notin {"idle", "restore", "produce"}, session' = session, pending' = pending
    PROVE  PendOK' /\ session' \in BOOLEAN /\ pending' \in Seq(Txs) /\ pending = <<>> /\ session = FALSE
<1>1. session = FALSE /\ pending = <<>>
  BY DEF ChainInv, PendOK, Types
<1>2. CleanState' = state'
  BY <1>1 DEF CleanState
<1>3. Pends(state', CleanState', pending')
  BY <1>1, <1>2, NoPend
<1>4. PendOK'
  BY <1>1, <1>3 DEF PendOK
<1> QED
  BY <1>1, <1>4 DEF ChainInv, Types

LEMMA Unwound ==
    ASSUME ChainInv, NEW next, (pc = "pop" /\ next = "apply") \/ (pc = "unwind" /\ next = "reapply"),
           \/ PopBlock /\ pc' = IF IdOfHead(state'.chain) = MeetId THEN next ELSE pc
           \/ PopBlockThrows /\ pc' = "restore",
           undo_max' = undo_max, job' = job, InPush
    PROVE  ChainInv' /\ Kept
<1>1. /\ session' = session /\ pending' = pending /\ saved' = saved /\ unclean' = unclean
      /\ outdated' = outdated /\ base' = base
  BY DEF InPush
<1>2. PendOK' /\ session' \in BOOLEAN /\ pending' \in Seq(Txs)
  BY <1>1, NonePending
<1>3. job \in Jobs /\ Forked(job) /\ job.at = 0
  BY DEF ChainInv, Types, JobOK
<1>4. /\ Stack(undo', state') /\ fork' \in Fork /\ log' \in Log /\ popped' \in Seq(Txs)
      /\ Applied(state.chain) \subseteq Applied(state'.chain) \cup Range(popped')
      /\ Range(popped) \subseteq Range(popped')
  <2>1. CASE PopBlock
    <3>1. /\ CanPop /\ fork' = ForkPop(fork) /\ log' = RemoveFrom(log, HeadId)
          /\ state' = undo[Len(undo)] /\ undo' = Front(undo) /\ popped' = BlockTxs[HeadId] \o popped
      BY <2>1 DEF PopBlock
    <3> QED
      BY <3>1, Popped
  <2>2. CASE PopBlockThrows
    BY <2>2, PopThrown DEF ChainInv, Types
  <2> QED
    BY <2>1, <2>2
<1>5. pc' \in {"pop", "apply", "unwind", "reapply", "restore"}
  OBVIOUS
<1>6. Types'
  BY <1>1, <1>2, <1>4, <1>5 DEF ChainInv, Types, Places
<1>7. JobOK'
  <2>1. pc' \in {"apply", "reapply"} => IdOfHead(state'.chain) = MeetId
    OBVIOUS
  <2>2. HeadId' = IdOfHead(state'.chain) /\ MeetId' = MeetId
    BY DEF HeadId, MeetId
  <2>3. Len(job.first) > 0 /\ Len(job.second) > 0
    BY <1>3 DEF Jobs, Forked
  <2> QED
    BY <1>3, <1>5, <2>1, <2>2, <2>3 DEF JobOK, At
<1>8. Kept
  BY <1>1, <1>4 DEF Kept, Held
<1> QED
  BY <1>2, <1>4, <1>5, <1>6, <1>7, <1>8 DEF ChainInv

LEMMA SwitchPopStep ==
    ASSUME ChainInv, SwitchPop
    PROVE  ChainInv' /\ Kept
BY Unwound DEF SwitchPop

LEMMA SwitchUnwindsStep ==
    ASSUME ChainInv, SwitchUnwinds
    PROVE  ChainInv' /\ Kept
BY Unwound DEF SwitchUnwinds

LEMMA HeadOfAppend ==
    ASSUME NEW c \in Seq(Blocks), NEW b \in Blocks
    PROVE  IdOfHead(Append(c, b)) = b
BY DEF IdOfHead

(* A block of a branch is applied. *)
LEMMA OneApplied ==
    ASSUME ChainInv, NEW x \in Blocks, BlockApplies(x, state, TRUE), state' = AfterBlock(x, state, TRUE),
           undo' = WithBlock(x, undo, state), undo_max' = HistorySize(x, state),
           fork' = ForkSetMaxSize(fork, HistorySize(x, state))
    PROVE  /\ Stack(undo', state') /\ undo_max' \in Nat /\ undo_max' > 1 /\ fork' \in Fork
           /\ IdOfHead(state'.chain) = x /\ Applied(state.chain) \subseteq Applied(state'.chain)
<1>1. Stack(undo, state) /\ state \in Good /\ undo_max \in Nat /\ fork \in Fork
  BY DEF ChainInv, Types, Stack
<1>2. state' \in Good /\ state'.chain = Append(state.chain, x) /\ undo_max' \in Nat /\ undo_max' > 1
  BY <1>1, Extends
<1>3. Stack(undo', state')
  BY <1>1, <1>2, WithBlockStack
<1>4. fork' \in Fork
  BY <1>1, <1>2, ForkSetMaxSizeType
<1>5. state.chain \in Seq(Blocks)
  BY <1>1, GoodParts
<1>6. IdOfHead(state'.chain) = x /\ Applied(state.chain) \subseteq Applied(state'.chain)
  BY <1>2, <1>5, HeadOfAppend, AppliedAppend
<1> QED
  BY <1>2, <1>3, <1>4, <1>6

LEMMA JobMoves ==
    ASSUME NEW j \in Jobs, NEW n \in Nat
    PROVE  LET k == [j EXCEPT !.at = n]
           IN  /\ k \in Jobs /\ k.at = n /\ k.first = j.first /\ k.second = j.second
               /\ k.block = j.block /\ k.restore = j.restore
BY DEF Jobs

LEMMA SwitchAppliesStep ==
    ASSUME ChainInv, SwitchApplies
    PROVE  ChainInv' /\ Kept
<1> DEFINE x == NextFirst
           n == job.at + 1
<1>1. /\ pc = "apply" /\ BlockApplies(x, state, TRUE) /\ state' = AfterBlock(x, state, TRUE)
      /\ undo' = WithBlock(x, undo, state) /\ undo_max' = HistorySize(x, state)
      /\ fork' = ForkSetMaxSize(fork, HistorySize(x, state)) /\ log' = StoreIn(log, x, x)
      /\ job' = [job EXCEPT !.at = n] /\ pc' = (IF n = Len(job.first) THEN "restore" ELSE "apply")
      /\ popped' = popped /\ session' = session /\ pending' = pending /\ saved' = saved
      /\ unclean' = unclean /\ outdated' = outdated /\ base' = base
  BY DEF SwitchApplies, InPush
<1>2. PendOK' /\ session' \in BOOLEAN /\ pending' \in Seq(Txs)
  BY <1>1, NonePending
<1>3. job \in Jobs /\ Forked(job) /\ job.at < Len(job.first)
  BY <1>1 DEF ChainInv, Types, JobOK
<1>4. n \in 1 .. Len(job.first) /\ n \in Nat \ {0} /\ job.first \in Seq(Blocks) /\ x = job.first[n]
  BY <1>3 DEF Jobs, NextFirst
<1>5. x \in Blocks
  BY <1>4
<1>6. /\ job' \in Jobs /\ job'.at = n /\ job'.first = job.first /\ job'.second = job.second
      /\ job'.block = job.block /\ job'.restore = job.restore
  BY <1>1, <1>3, <1>4, JobMoves
<1> HIDE DEF x, n
<1>7. /\ Stack(undo', state') /\ undo_max' \in Nat /\ undo_max' > 1 /\ fork' \in Fork
      /\ IdOfHead(state'.chain) = x /\ Applied(state.chain) \subseteq Applied(state'.chain)
  BY <1>1, <1>5, OneApplied
<1>8. log' \in Log
  BY <1>1, <1>5, LogStored DEF ChainInv, Types
<1>9. pc' \in {"apply", "restore"}
  BY <1>1
<1>10. Types'
  BY <1>1, <1>2, <1>6, <1>7, <1>8, <1>9 DEF ChainInv, Types, Places
<1>11. JobOK'
  <2>1. HeadId' = x
    BY <1>7 DEF HeadId
  <2>2. pc' = "apply" => n < Len(job.first)
    BY <1>1, <1>4
  <2> QED
    BY <1>3, <1>4, <1>6, <1>9, <2>1, <2>2 DEF JobOK, Forked, At
<1>12. Kept
  BY <1>1, <1>6, <1>7 DEF Kept, Held
<1> QED
  BY <1>2, <1>7, <1>9, <1>10, <1>11, <1>12 DEF ChainInv

LEMMA SwitchReappliesStep ==
    ASSUME ChainInv, SwitchReapplies
    PROVE  ChainInv' /\ Kept
<1> DEFINE x == NextSecond
           n == job.at + 1
<1>1. /\ pc = "reapply" /\ BlockApplies(x, state, TRUE) /\ state' = AfterBlock(x, state, TRUE)
      /\ undo' = WithBlock(x, undo, state) /\ undo_max' = HistorySize(x, state)
      /\ fork' = ForkSetMaxSize(fork, HistorySize(x, state)) /\ log' = StoreIn(log, job.block, x)
      /\ job' = [job EXCEPT !.at = n] /\ pc' = (IF n = Len(job.second) THEN "restore" ELSE "reapply")
      /\ popped' = popped /\ session' = session /\ pending' = pending /\ saved' = saved
      /\ unclean' = unclean /\ outdated' = outdated /\ base' = base
  BY DEF SwitchReapplies, InPush
<1>2. PendOK' /\ session' \in BOOLEAN /\ pending' \in Seq(Txs)
  BY <1>1, NonePending
<1>3. job \in Jobs /\ Forked(job) /\ job.at < Len(job.second) /\ job.block \in Blocks
  BY <1>1 DEF ChainInv, Types, JobOK, Forked
<1>4. n \in 1 .. Len(job.second) /\ n \in Nat \ {0} /\ job.second \in Seq(Blocks) /\ x = job.second[n]
  BY <1>3 DEF Jobs, NextSecond
<1>5. x \in Blocks
  BY <1>4
<1>6. /\ job' \in Jobs /\ job'.at = n /\ job'.first = job.first /\ job'.second = job.second
      /\ job'.block = job.block /\ job'.restore = job.restore
  BY <1>1, <1>3, <1>4, JobMoves
<1> HIDE DEF x, n
<1>7. /\ Stack(undo', state') /\ undo_max' \in Nat /\ undo_max' > 1 /\ fork' \in Fork
      /\ IdOfHead(state'.chain) = x /\ Applied(state.chain) \subseteq Applied(state'.chain)
  BY <1>1, <1>5, OneApplied
<1>8. log' \in Log
  BY <1>1, <1>3, <1>5, LogStored DEF ChainInv, Types
<1>9. pc' \in {"reapply", "restore"}
  BY <1>1
<1>10. Types'
  BY <1>1, <1>2, <1>6, <1>7, <1>8, <1>9 DEF ChainInv, Types, Places
<1>11. JobOK'
  <2>1. HeadId' = x
    BY <1>7 DEF HeadId
  <2>2. pc' = "reapply" => n < Len(job.second)
    BY <1>1, <1>4
  <2> QED
    BY <1>3, <1>4, <1>6, <1>9, <2>1, <2>2 DEF JobOK, Forked, At
<1>12. Kept
  BY <1>1, <1>6, <1>7 DEF Kept, Held
<1> QED
  BY <1>2, <1>7, <1>9, <1>10, <1>11, <1>12 DEF ChainInv

LEMMA SwitchFailsStep ==
    ASSUME ChainInv, SwitchFails
    PROVE  ChainInv' /\ Kept
<1> DEFINE rest == Range(SubSeq(job.first, job.at + 1, Len(job.first)))
           last == job.second[Len(job.second)]
<1>1. /\ pc = "apply" /\ undo' = FailedBlock(undo, state)
      /\ fork' = SetHead(Erase(fork, rest), last) /\ job' = [job EXCEPT !.at = 0]
      /\ pc' = (IF HeadId = MeetId THEN "reapply" ELSE "unwind")
      /\ state' = state /\ undo_max' = undo_max /\ log' = log
      /\ popped' = popped /\ session' = session /\ pending' = pending /\ saved' = saved
      /\ unclean' = unclean /\ outdated' = outdated /\ base' = base
  BY DEF SwitchFails, InPush
<1>2. PendOK' /\ session' \in BOOLEAN /\ pending' \in Seq(Txs)
  BY <1>1, NonePending
<1>3. job \in Jobs /\ Forked(job)
  BY <1>1 DEF ChainInv, Types, JobOK
<1>4. last \in Blocks /\ Len(job.second) > 0
  BY <1>3 DEF Jobs, Forked
<1>5. /\ job' \in Jobs /\ job'.at = 0 /\ job'.first = job.first /\ job'.second = job.second
      /\ job'.block = job.block /\ job'.restore = job.restore
  BY <1>1, <1>3, JobMoves
<1> HIDE DEF rest, last
<1>6. fork' \in Fork
  BY <1>1, <1>4, EraseType, SetHeadType DEF ChainInv, Types
<1>7. Stack(undo', state')
  BY <1>1, FailedBlockStack DEF ChainInv, Types
<1>8. pc' \in {"reapply", "unwind"}
  BY <1>1
<1>9. Types'
  BY <1>1, <1>2, <1>5, <1>6, <1>8 DEF ChainInv, Types, Places
<1>10. JobOK'
  <2>1. HeadId' = HeadId /\ MeetId' = MeetId
    BY <1>1, <1>5 DEF HeadId, MeetId
  <2> QED
    BY <1>1, <1>3, <1>4, <1>5, <1>8, <2>1 DEF JobOK, Forked, At
<1>11. Kept
  BY <1>1, <1>5 DEF Kept, Held
<1> QED
  BY <1>2, <1>7, <1>8, <1>9, <1>10, <1>11 DEF ChainInv

-----------------------------------------------------------------------------
(* The pending transactions are tried again. *)

LEMMA FirstOfTwo ==
    ASSUME NEW X, NEW p \in Seq(X), NEW q \in Seq(X), p \o q # <<>>
    PROVE  /\ p # <<>> => Head(p \o q) = Head(p)
           /\ p = <<>> => p \o q = q
<1>1. CASE p = <<>>
  BY <1>1
<1>2. CASE p # <<>>
  BY <1>2
<1> QED
  BY <1>1, <1>2

LEMMA RestoreTransactionStep ==
    ASSUME ChainInv, RestoreTransaction
    PROVE  ChainInv' /\ Kept
<1> DEFINE t == Head(ToRestore)
           r == job.restore
<1>1. /\ pc = "restore" /\ ToRestore # <<>> /\ pc' = pc /\ undo_max' = undo_max /\ fork' = fork
      /\ base' = base /\ log' = log /\ saved' = saved /\ unclean' = unclean /\ outdated' = outdated
      /\ IF t \in state.dedupe THEN state' = state /\ undo' = undo /\ session' = session /\ pending' = pending
         ELSE TryTransaction(t, pending)
      /\ IF popped # <<>> THEN popped' = Tail(popped) /\ job' = job
         ELSE job' = [job EXCEPT !.restore = Tail(r)] /\ popped' = popped
  BY DEF RestoreTransaction, diskvars
<1>2. popped \in Seq(Txs) /\ job \in Jobs /\ r \in Seq(Txs) /\ ToRestore = popped \o r
  BY DEF ChainInv, Types, Jobs, ToRestore
<1>3. (popped # <<>> => t = Head(popped)) /\ (popped = <<>> => r # <<>> /\ t = Head(r))
  <2>1. popped \o r # <<>>
    BY <1>1, <1>2
  <2>2. (popped # <<>> => Head(popped \o r) = Head(popped)) /\ (popped = <<>> => popped \o r = r)
    BY <1>2, <2>1, FirstOfTwo
  <2> QED
    BY <1>2, <2>1, <2>2
<1> HIDE DEF t, r
<1>4. /\ popped' \in Seq(Txs) /\ job' \in Jobs /\ t \in Txs
      /\ Range(popped) \cup Range(r) \subseteq {t} \cup Range(popped') \cup Range(job'.restore)
  <2>1. CASE popped # <<>>
    BY <1>1, <1>2, <1>3, <2>1, RangeTail DEF r
  <2>2. CASE popped = <<>>
    <3>1. Head(r) \in Txs /\ Tail(r) \in Seq(Txs) /\ Range(r) \subseteq {Head(r)} \cup Range(Tail(r))
      BY <1>2, <1>3, <2>2, RangeTail
    <3>2. job' = [job EXCEPT !.restore = Tail(r)] /\ popped' = popped
      BY <1>1, <2>2
    <3>3. job' \in Jobs /\ job'.restore = Tail(r)
      BY <1>2, <3>1, <3>2 DEF Jobs
    <3> QED
      BY <1>2, <1>3, <2>2, <3>1, <3>2, <3>3
  <2> QED
    BY <2>1, <2>2
<1>5. /\ Stack(undo', state') /\ session' \in BOOLEAN /\ pending' \in Seq(Txs) /\ PendOK'
      /\ state'.chain = state.chain /\ Range(pending) \subseteq Range(pending')
      /\ TxApplies(t, Applied(state.chain) \cup Range(pending), state.dedupe) => t \in Range(pending')
  <2>1. CASE t \in state.dedupe
    <3>1. state' = state /\ undo' = undo /\ session' = session /\ pending' = pending
      BY <1>1, <2>1
    <3>2. CleanState' = CleanState
      BY <3>1 DEF CleanState
    <3>3. PendOK'
      BY <1>1, <3>1, <3>2 DEF ChainInv, PendOK
    <3> QED
      BY <2>1, <3>1, <3>3 DEF ChainInv, Types, TxApplies
  <2>2. CASE t \notin state.dedupe
    <3>1. /\ Stack(undo', state') /\ session' = TRUE /\ undo' # <<>> /\ pending' \in Seq(Txs)
          /\ Pends(state', CleanState', pending')
          /\ state'.chain = state.chain /\ Range(pending) \subseteq Range(pending')
          /\ TxApplies(t, Applied(state.chain) \cup Range(pending), state.dedupe) => t \in Range(pending')
      BY <1>1, <1>4, <2>2, Tried
    <3>2. PendOK'
      BY <1>1, <3>1 DEF PendOK
    <3> QED
      BY <3>1, <3>2
  <2> QED
    BY <2>1, <2>2
<1>6. Types'
  BY <1>1, <1>4, <1>5 DEF ChainInv, Types
<1>7. JobOK'
  BY <1>1 DEF JobOK
<1>8. Kept
  <2>1. ASSUME NEW h \in Held
        PROVE  \/ h \in Held'
               \/ h = t /\ ~ TxApplies(h, Applied(state.chain) \cup Range(pending), state.dedupe)
    <3>1. Held = Applied(state.chain) \cup Range(pending) \cup Range(popped) \cup Range(r)
      BY DEF Held, r
    <3>2. Held' = Applied(state'.chain) \cup Range(pending') \cup Range(popped') \cup Range(job'.restore)
      BY DEF Held
    <3> QED
      BY <1>4, <1>5, <3>1, <3>2
  <2> QED
    BY <1>1, <2>1 DEF Kept, t
<1> QED
  BY <1>1, <1>5, <1>6, <1>7, <1>8 DEF ChainInv

LEMMA PushReturnsStep ==
    ASSUME ChainInv, PushReturns
    PROVE  ChainInv' /\ Kept
<1>1. /\ pc = "restore" /\ ToRestore = <<>> /\ pc' = "idle" /\ job' = NoJob
      /\ state' = state /\ undo' = undo /\ undo_max' = undo_max /\ session' = session /\ pending' = pending
      /\ popped' = popped /\ fork' = fork /\ base' = base /\ log' = log /\ saved' = saved
      /\ unclean' = unclean /\ outdated' = outdated
  BY DEF PushReturns, diskvars
<1>2. job.restore = <<>>
  <2>1. popped \in Seq(Txs) /\ job.restore \in Seq(Txs) /\ popped \o job.restore = <<>>
    BY <1>1 DEF ChainInv, Types, Jobs, ToRestore
  <2>2. Len(popped) + Len(job.restore) = 0
    BY <2>1
  <2> QED
    BY <2>1, <2>2
<1>3. job' \in Jobs /\ job'.restore = <<>>
  BY <1>1, NoJobType
<1>4. Types'
  BY <1>1, <1>3 DEF ChainInv, Types, Places
<1>5. JobOK'
  BY <1>1, <1>3 DEF JobOK
<1>6. PendOK'
  BY <1>1 DEF ChainInv, PendOK, CleanState
<1>7. Kept
  BY <1>1, <1>2, <1>3 DEF Kept, Held
<1> QED
  BY <1>1, <1>4, <1>5, <1>6, <1>7 DEF ChainInv

-----------------------------------------------------------------------------
(* close, open, reindex, and the death of the process *)

LEMMA BeginCloseStep ==
    ASSUME ChainInv, BeginClose
    PROVE  ChainInv' /\ Kept
<1>1. /\ pc = "idle" /\ state' = CleanState /\ undo' = CleanUndo /\ session' = FALSE /\ pending' = <<>>
      /\ pc' = "close" /\ job' = [NoJob EXCEPT !.at = Lib(state.chain)]
      /\ undo_max' = undo_max /\ popped' = popped /\ fork' = fork /\ base' = base
      /\ log' = log /\ saved' = saved /\ unclean' = unclean /\ outdated' = outdated
  BY DEF BeginClose, Idle, diskvars
<1>2. Stack(undo', state')
  BY <1>1, Cleaned
<1>3. Lib(state.chain) \in Nat
  <2>1. state \in Good
    BY DEF ChainInv, Stack
  <2>2. state.chain \in Seq(Blocks) /\ IsChain(state.chain)
    BY <2>1, GoodParts
  <2> QED
    BY <2>2, LibType
<1>4. job' \in Jobs
  BY <1>1, <1>3, NoJobType
<1>5. Types'
  <2>1. pending' \in Seq(Txs)
    BY <1>1
  <2>2. session' \in BOOLEAN
    BY <1>1
  <2> QED
    BY <1>1, <1>4, <2>1, <2>2 DEF ChainInv, Types, Places
<1>6. JobOK' /\ PendOK'
  BY <1>1 DEF JobOK, PendOK
<1>7. Kept
  BY <1>1 DEF Kept
<1> QED
  BY <1>1, <1>2, <1>5, <1>6, <1>7 DEF ChainInv

LEMMA ClosePopStep ==
    ASSUME ChainInv, ClosePop \/ ClosePopThrows
    PROVE  ChainInv' /\ Kept
<1>1. /\ pc = "close" /\ pc' \in {"close", "flush"} /\ job' = job /\ undo_max' = undo_max
      /\ session' = session /\ pending' = pending /\ saved' = saved
      /\ unclean' = unclean /\ outdated' = outdated /\ base' = base
  BY DEF ClosePop, ClosePopThrows
<1>2. PendOK' /\ session' \in BOOLEAN /\ pending' \in Seq(Txs)
  BY <1>1, NonePending
<1>3. Stack(undo', state') /\ fork' \in Fork /\ log' \in Log /\ popped' \in Seq(Txs)
  <2>1. CASE ClosePop
    <3>1. /\ CanPop /\ fork' = ForkRemove(ForkPop(fork), HeadId) /\ log' = RemoveFrom(log, HeadId)
          /\ state' = undo[Len(undo)] /\ undo' = Front(undo) /\ popped' = BlockTxs[HeadId] \o popped
      BY <2>1 DEF ClosePop
    <3> QED
      BY <3>1, Popped, EraseType DEF ForkRemove
  <2>2. CASE ClosePopThrows
    BY <2>2, PopThrown DEF ChainInv, Types, ClosePopThrows
  <2> QED
    BY <2>1, <2>2
<1>4. Types'
  BY <1>1, <1>2, <1>3 DEF ChainInv, Types, Places
<1>5. JobOK'
  BY <1>1 DEF JobOK
<1>6. Kept
  BY <1>1 DEF Kept
<1> QED
  BY <1>1, <1>2, <1>3, <1>4, <1>5, <1>6 DEF ChainInv

LEMMA DownStep ==
    ASSUME Down, saved' \in Good, log' \in Log, unclean' \in BOOLEAN, outdated' \in BOOLEAN
    PROVE  ChainInv' /\ Kept
<1>1. /\ pc' = "down" /\ state' = Genesis /\ undo' = <<>> /\ undo_max' = MinUndo
      /\ session' = FALSE /\ pending' = <<>> /\ popped' = <<>>
      /\ fork' = NewFork /\ job' = NoJob /\ base' = 0
  BY DEF Down
<1>2. Stack(undo', state')
  BY <1>1, GenesisGood, EmptyStack
<1>3. undo_max' \in Nat /\ undo_max' > 1
  BY <1>1, ChainAssumption
<1>4. pending' \in Seq(Txs) /\ popped' \in Seq(Txs)
  BY <1>1
<1>5. session' \in BOOLEAN
  BY <1>1
<1>6. pc' \in Places /\ base' \in Nat
  BY <1>1 DEF Places
<1>7. fork' \in Fork /\ job' \in Jobs /\ job'.restore = <<>>
  BY <1>1, NewForkType, NoJobType
<1>8. Types'
  BY <1>3, <1>4, <1>5, <1>6, <1>7 DEF Types
<1>9. JobOK' /\ PendOK'
  BY <1>1, <1>7 DEF JobOK, PendOK
<1>10. Kept
  BY <1>1 DEF Kept
<1> QED
  BY <1>1, <1>2, <1>8, <1>9, <1>10 DEF ChainInv

LEMMA FlushStep ==
    ASSUME ChainInv, Flush \/ Crash
    PROVE  ChainInv' /\ Kept
<1>1. state \in Good /\ saved \in Good /\ log \in Log /\ unclean \in BOOLEAN /\ outdated \in BOOLEAN
  BY DEF ChainInv, Types, Stack
<1>2. Down
  BY DEF Flush, Crash
<1>3. saved' \in Good /\ log' \in Log /\ outdated' \in BOOLEAN
  BY <1>1 DEF Flush, Crash, diskvars
<1>4. unclean' \in BOOLEAN
  BY <1>1 DEF Flush, Crash, diskvars
<1> QED
  BY <1>2, <1>3, <1>4, DownStep

(* The node starts from the state s. *)
LEMMA StartedStep ==
    ASSUME ChainInv, pc = "down", NEW s \in Good, Started(s), pc' \in {"idle", "replay"}, job' \in Jobs,
           job'.restore = <<>>, pc' = "replay" => job'.block \in Blocks,
           saved' \in Good, outdated' \in BOOLEAN, base' \in Nat
    PROVE  ChainInv' /\ Kept
<1>1. /\ state' = s /\ undo' = undo /\ undo_max' = undo_max /\ session' = session /\ pending' = pending
      /\ popped' = popped /\ log' = log /\ unclean' = TRUE
      /\ fork' = (IF LastBlock(log) = Zero THEN NewFork ELSE StartBlock(NewFork, LastBlock(log)))
  BY DEF Started
<1>2. undo = <<>>
  BY DEF ChainInv
<1>3. Stack(undo', state')
  BY <1>1, <1>2, EmptyStack
<1>4. PendOK' /\ session' \in BOOLEAN /\ pending' \in Seq(Txs)
  BY <1>1, NonePending
<1>5. fork' \in Fork
  <2>1. LastBlock(log) \in Blocks \cup {Zero}
    BY LogRead DEF ChainInv, Types
  <2> QED
    BY <1>1, <2>1, NewForkType
<1>6. unclean' \in BOOLEAN
  BY <1>1
<1>7. Types'
  BY <1>1, <1>4, <1>5, <1>6 DEF ChainInv, Types, Places
<1>8. JobOK'
  BY DEF JobOK
<1>9. Kept
  BY DEF Kept
<1> QED
  BY <1>1, <1>2, <1>3, <1>4, <1>7, <1>8, <1>9 DEF ChainInv

LEMMA OpenStep ==
    ASSUME ChainInv, Open
    PROVE  ChainInv' /\ Kept
<1>1. /\ pc = "down" /\ Started(saved) /\ pc' = "idle" /\ base' = Len(saved.chain)
      /\ job' = job /\ saved' = saved /\ outdated' = outdated
  BY DEF Open
<1>2. saved \in Good /\ job \in Jobs /\ job.restore = <<>> /\ outdated \in BOOLEAN
  BY <1>1 DEF ChainInv, Types, JobOK
<1>3. base' \in Nat
  BY <1>1, <1>2, GoodParts
<1> QED
  BY <1>1, <1>2, <1>3, StartedStep

LEMMA OpenFailsStep ==
    ASSUME ChainInv, OpenFails
    PROVE  ChainInv' /\ Kept
<1>1. /\ pc = "down" /\ pc' = pc /\ job' = job /\ state' = state /\ undo' = undo /\ undo_max' = undo_max
      /\ session' = session /\ pending' = pending /\ popped' = popped /\ fork' = fork /\ base' = base
      /\ log' = log /\ saved' = saved /\ unclean' = unclean /\ outdated' = TRUE
  BY DEF OpenFails, chainvars
<1>2. PendOK'
  BY <1>1, NonePending
<1>3. outdated' \in BOOLEAN
  BY <1>1
<1>4. Types'
  BY <1>1, <1>3 DEF ChainInv, Types
<1>5. JobOK'
  BY <1>1 DEF ChainInv, JobOK
<1>6. Kept
  BY <1>1 DEF Kept
<1> QED
  BY <1>1, <1>2, <1>4, <1>5, <1>6 DEF ChainInv

LEMMA ReindexStep ==
    ASSUME ChainInv, Reindex
    PROVE  ChainInv' /\ Kept
<1>1. /\ pc = "down" /\ Started(Genesis) /\ saved' = Genesis /\ base' = base
      /\ pc' = (IF LastBlock(log) = Zero THEN "idle" ELSE "replay")
      /\ job' = [NoJob EXCEPT !.block = LastBlock(log)]
      /\ outdated' = (outdated /\ LastBlock(log) # Zero)
  BY DEF Reindex
<1>2. LastBlock(log) \in Blocks \cup {Zero}
  BY LogRead DEF ChainInv, Types
<1>3. job' \in Jobs /\ job'.restore = <<>> /\ job'.block = LastBlock(log)
  BY <1>1, <1>2, NoJobType
<1>4. outdated' \in BOOLEAN
  BY <1>1
<1>5. base' \in Nat
  BY <1>1 DEF ChainInv, Types
<1>6. pc' \in {"idle", "replay"} /\ (pc' = "replay" => job'.block \in Blocks)
  BY <1>1, <1>2, <1>3
<1> QED
  BY <1>1, <1>3, <1>4, <1>5, <1>6, GenesisGood, StartedStep

LEMMA ReplayBlockStep ==
    ASSUME ChainInv, ReplayBlock
    PROVE  ChainInv' /\ Kept
<1> DEFINE x == NextReplayed
<1>1. /\ pc = "replay" /\ HeadNum < Num[job.block] /\ x # Zero /\ BlockApplies(x, state, FALSE)
      /\ state' = AfterBlock(x, state, FALSE) /\ undo_max' = HistorySize(x, state)
      /\ fork' = ForkSetMaxSize(fork, HistorySize(x, state)) /\ undo' = undo
      /\ session' = session /\ pending' = pending /\ popped' = popped /\ pc' = pc /\ job' = job
      /\ log' = log /\ saved' = saved /\ unclean' = unclean /\ outdated' = outdated /\ base' = base
  BY DEF ReplayBlock, diskvars
<1>2. PendOK' /\ session' \in BOOLEAN /\ pending' \in Seq(Txs)
  BY <1>1, NonePending
<1>3. job.block \in Blocks /\ undo = <<>> /\ state \in Good /\ log \in Log /\ fork \in Fork
  BY <1>1 DEF ChainInv, Types, JobOK, Stack
<1>4. state.chain \in Seq(Blocks)
  BY <1>3, GoodParts
<1>5. x \in Blocks
  <2>1. HeadNum \in Nat /\ Num[job.block] \in 1 .. MaxNum /\ MaxNum \in Nat
    BY <1>3, <1>4, Tree DEF HeadNum
  <2>2. HeadNum + 1 \in Numbers
    BY <1>1, <2>1 DEF Numbers
  <2> QED
    BY <1>1, <1>3, <2>2, LogRead DEF NextReplayed
<1> HIDE DEF x
<1>6. state' \in Good /\ state'.chain = Append(state.chain, x) /\ undo_max' \in Nat /\ undo_max' > 1
  BY <1>1, <1>3, <1>5, Extends
<1>7. Stack(undo', state')
  BY <1>1, <1>3, <1>6, EmptyStack
<1>8. fork' \in Fork
  BY <1>1, <1>3, <1>6, ForkSetMaxSizeType
<1>9. Types'
  BY <1>1, <1>2, <1>6, <1>8 DEF ChainInv, Types
<1>10. JobOK'
  BY <1>1 DEF ChainInv, JobOK
<1>11. Kept
  <2>1. Applied(state.chain) \subseteq Applied(state'.chain)
    BY <1>4, <1>5, <1>6, AppliedAppend
  <2> QED
    BY <1>1, <2>1 DEF Kept, Held
<1> QED
  BY <1>1, <1>2, <1>3, <1>7, <1>9, <1>10, <1>11 DEF ChainInv

LEMMA ReplayEndsStep ==
    ASSUME ChainInv, ReplayEnds
    PROVE  ChainInv' /\ Kept
<1>1. /\ pc = "replay" /\ pc' = "idle" /\ job' = NoJob /\ outdated' = FALSE /\ base' = HeadNum
      /\ state' = state /\ undo' = undo /\ undo_max' = undo_max /\ session' = session
      /\ pending' = pending /\ popped' = popped /\ saved' = saved /\ unclean' = unclean /\ fork' = fork
  BY DEF ReplayEnds
<1>2. PendOK' /\ session' \in BOOLEAN /\ pending' \in Seq(Txs)
  BY <1>1, NonePending
<1>3. state.chain \in Seq(Blocks)
  BY GoodParts DEF ChainInv, Stack
<1>4. base' \in Nat /\ HeadNum + 1 \in Nat
  BY <1>1, <1>3 DEF HeadNum
<1>5. log' \in Log
  <2>1. log \in Log
    BY DEF ChainInv, Types
  <2>2. CASE log' = log
    BY <2>1, <2>2
  <2>3. CASE log' # log
    <3>1. log' = [log EXCEPT !.at = [n \in Numbers |->
                    IF n > HeadNum + 1 THEN [@[n] EXCEPT !.live = FALSE] ELSE @[n]]]
      BY <2>3 DEF ReplayEnds
    <3> QED
      BY <1>4, <2>1, <3>1, LogCut
  <2> QED
    BY <2>2, <2>3
<1>6. job' \in Jobs /\ job'.restore = <<>>
  BY <1>1, NoJobType
<1>7. outdated' \in BOOLEAN
  BY <1>1
<1>8. Types'
  BY <1>1, <1>2, <1>4, <1>5, <1>6, <1>7 DEF ChainInv, Types, Places
<1>9. JobOK'
  BY <1>1, <1>6 DEF JobOK
<1>10. Kept
  <2>1. job.restore = <<>>
    BY <1>1 DEF ChainInv, JobOK
  <2> QED
    BY <1>1, <1>6, <2>1 DEF Kept, Held
<1> QED
  BY <1>1, <1>2, <1>8, <1>9, <1>10 DEF ChainInv

-----------------------------------------------------------------------------
(* The theorems *)

LEMMA ChainInit ==
    ASSUME Init
    PROVE  ChainInv
<1>1. EmptyLog \in Log
  <2>1. EmptyEntry \in Entry
    BY DEF EmptyEntry, Entry
  <2>2. [n \in Numbers |-> EmptyEntry] \in [Numbers -> Entry]
    BY <2>1
  <2>3. 0 \in 0 .. MaxNum
    BY Tree
  <2> QED
    BY <2>2, <2>3 DEF EmptyLog, Log
<1>2. /\ state = Genesis /\ undo = <<>> /\ undo_max = MinUndo /\ session = FALSE /\ pending = <<>>
      /\ popped = <<>> /\ fork = NewFork /\ log = EmptyLog /\ pc = "down" /\ job = NoJob /\ saved = Genesis
      /\ unclean = FALSE /\ outdated = FALSE /\ base = 0
  BY DEF Init
<1>3. Stack(undo, state) /\ saved \in Good
  BY <1>2, GenesisGood, EmptyStack
<1>4. undo_max \in Nat /\ undo_max > 1
  BY <1>2, ChainAssumption
<1>5. pending \in Seq(Txs) /\ popped \in Seq(Txs)
  BY <1>2
<1>6. session \in BOOLEAN /\ unclean \in BOOLEAN /\ outdated \in BOOLEAN
  BY <1>2
<1>7. pc \in Places /\ base \in Nat
  BY <1>2 DEF Places
<1>8. fork \in Fork /\ log \in Log /\ job \in Jobs /\ job.restore = <<>>
  BY <1>1, <1>2, NewForkType, NoJobType
<1>9. Types
  BY <1>3, <1>4, <1>5, <1>6, <1>7, <1>8 DEF Types
<1>10. JobOK /\ PendOK
  BY <1>2, <1>8 DEF JobOK, PendOK
<1> QED
  BY <1>2, <1>3, <1>9, <1>10 DEF ChainInv

LEMMA ChainStep ==
    ASSUME ChainInv, [Next]_vars
    PROVE  ChainInv' /\ [Kept]_vars
<1>1. CASE Next
  <2>1. ASSUME NEW t \in Txs, PushTransaction(t) \/ ValidateTransaction(t) PROVE ChainInv' /\ Kept
    BY <2>1, PushTransactionStep, ValidateTransactionStep
  <2>2. ASSUME NEW b \in Blocks, PushBlock(b) \/ GenerateBlock(b) PROVE ChainInv' /\ Kept
    BY <2>2, PushBlockStep, GenerateBlockStep
  <2>3. CASE Switch
    BY <2>3, SwitchPopStep, SwitchAppliesStep, SwitchFailsStep, SwitchUnwindsStep, SwitchReappliesStep
       DEF Switch
  <2>4. CASE RestoreTransaction \/ PushReturns
    BY <2>4, RestoreTransactionStep, PushReturnsStep
  <2>5. CASE BeginClose \/ ClosePop \/ ClosePopThrows \/ Flush \/ Crash
    BY <2>5, BeginCloseStep, ClosePopStep, FlushStep
  <2>6. CASE Open \/ OpenFails \/ Reindex \/ ReplayBlock \/ ReplayEnds
    BY <2>6, OpenStep, OpenFailsStep, ReindexStep, ReplayBlockStep, ReplayEndsStep
  <2> QED
    BY <1>1, <2>1, <2>2, <2>3, <2>4, <2>5, <2>6 DEF Next
<1>2. CASE UNCHANGED vars
  <2>1. /\ pc' = pc /\ job' = job /\ state' = state /\ undo' = undo /\ undo_max' = undo_max
        /\ session' = session /\ pending' = pending /\ popped' = popped /\ fork' = fork /\ base' = base
        /\ log' = log /\ saved' = saved /\ unclean' = unclean /\ outdated' = outdated
    BY <1>2 DEF vars, chainvars, diskvars
  <2>2. CleanState' = CleanState /\ HeadId' = HeadId /\ MeetId' = MeetId
    BY <2>1 DEF CleanState, HeadId, MeetId
  <2>3. Types' /\ JobOK' /\ PendOK'
    BY <2>1, <2>2 DEF ChainInv, Types, JobOK, PendOK, At
  <2> QED
    BY <1>2, <2>1, <2>3 DEF ChainInv
<1> QED
  BY <1>1, <1>2

LEMMA StackTypes ==
    ASSUME NEW u, NEW s, Stack(u, s)
    PROVE  s \in States /\ u \in Seq(States) /\ IsChain(s.chain) /\ \A i \in 1 .. Len(u) : IsChain(u[i].chain)
<1>1. Good \subseteq States /\ \A x \in Good : IsChain(x.chain)
  BY DEF Good
<1>2. s \in Good /\ u \in Seq(Good)
  BY DEF Stack
<1> QED
  BY <1>1, <1>2

LEMMA InvImplies ==
    ASSUME ChainInv
    PROVE  TypeOK /\ ChainsAreValid /\ SwitchFollowsBranch /\ PendingIsApplied
<1>1. /\ state \in States /\ undo \in Seq(States) /\ IsChain(state.chain)
      /\ \A i \in 1 .. Len(undo) : IsChain(undo[i].chain)
  BY StackTypes DEF ChainInv
<1>2. saved \in States /\ IsChain(saved.chain)
  BY GoodParts DEF ChainInv, Types
<1>3. TypeOK
  BY <1>1, <1>2 DEF ChainInv, Types, TypeOK, Jobs
<1>4. ChainsAreValid
  BY <1>1, <1>2 DEF ChainsAreValid
<1>5. SwitchFollowsBranch
  <2>1. job \in Jobs
    BY DEF ChainInv, Types
  <2>2. ASSUME NEW s \in Seq(Blocks), Linked(s), Prev[s[1]] = MeetId, job.at < Len(s), At(s)
        PROVE  Prev[s[job.at + 1]] = HeadId
    <3>1. job.at \in Nat
      BY <2>1 DEF Jobs
    <3>2. CASE job.at = 0
      BY <2>2, <3>2 DEF At
    <3>3. CASE job.at # 0
      <4>1. job.at + 1 \in 2 .. Len(s) /\ (job.at + 1) - 1 = job.at
        BY <2>2, <3>1, <3>3
      <4> QED
        BY <2>2, <3>3, <4>1 DEF At, Linked
    <3> QED
      BY <3>2, <3>3
  <2>3. ASSUME pc = "apply" PROVE Prev[NextFirst] = HeadId
    <3>1. /\ job.first \in Seq(Blocks) /\ Linked(job.first) /\ Prev[job.first[1]] = MeetId
          /\ job.at < Len(job.first) /\ At(job.first)
      BY <2>1, <2>3 DEF ChainInv, JobOK, Forked, Jobs, MeetId
    <3> QED
      BY <2>2, <3>1 DEF NextFirst
  <2>4. ASSUME pc = "reapply" PROVE Prev[NextSecond] = HeadId
    <3>1. /\ job.second \in Seq(Blocks) /\ Linked(job.second) /\ Prev[job.second[1]] = MeetId
          /\ job.at < Len(job.second) /\ At(job.second)
      BY <2>1, <2>4 DEF ChainInv, JobOK, Forked, Jobs, MeetId
    <3> QED
      BY <2>2, <3>1 DEF NextSecond
  <2> QED
    BY <2>3, <2>4 DEF SwitchFollowsBranch
<1>6. PendingIsApplied
  <2> SUFFICES ASSUME pc = "idle"
               PROVE  /\ pending # <<>> => session
                      /\ state = [CleanState EXCEPT !.dedupe = @ \cup Range(pending)]
                      /\ Applicable(pending, Applied(state.chain), CleanState.dedupe, Len(pending)) = pending
    BY DEF PendingIsApplied, Idle
  <2>1. (pending # <<>> => session) /\ Pends(state, CleanState, pending) /\ pending \in Seq(Txs)
    BY DEF ChainInv, PendOK, Types
  <2>2. CleanState \in Good /\ state \in Good /\ Range(pending) \in SUBSET Txs
    BY <2>1, Cleaned, RangeType DEF ChainInv, Stack
  <2> DEFINE c == CleanState
  <2> HIDE DEF c
  <2>3. c = [chain |-> c.chain, dedupe |-> c.dedupe] /\ state = [chain |-> state.chain, dedupe |-> state.dedupe]
    BY <2>2, GoodParts DEF c
  <2>4. state.chain = c.chain /\ state.dedupe = c.dedupe \cup Range(pending)
    BY <2>1 DEF Pends, c
  <2>5. state = [c EXCEPT !.dedupe = @ \cup Range(pending)]
    BY <2>2, <2>3, <2>4 DEF States, Good, c
  <2>6. Applicable(pending, Applied(state.chain), CleanState.dedupe, Len(pending)) = pending
    BY <2>1, Reapplies DEF Pends
  <2> QED
    BY <2>1, <2>5, <2>6 DEF c
<1> QED
  BY <1>3, <1>4, <1>5, <1>6

(* Along every behaviour each variable has its type. *)
THEOREM ChainTypes == Spec => []TypeOK
<1>1. Init => ChainInv
  BY ChainInit
<1>2. ChainInv /\ [Next]_vars => ChainInv'
  BY ChainStep
<1>3. ChainInv => TypeOK
  BY InvImplies
<1> QED
  BY <1>1, <1>2, <1>3, PTL DEF Spec

(* The blocks applied always form a chain of valid blocks from block 1 on: *)
(* in the object database, in each of the undo database's copies and in    *)
(* what close() has written, whatever forks, failures and deaths of the    *)
(* process there were.                                                     *)
THEOREM ChainsTheorem == Spec => []ChainsAreValid
<1>1. Init => ChainInv
  BY ChainInit
<1>2. ChainInv /\ [Next]_vars => ChainInv'
  BY ChainStep
<1>3. ChainInv => ChainsAreValid
  BY InvImplies
<1> QED
  BY <1>1, <1>2, <1>3, PTL DEF Spec

(* A fork switch applies, and after a failure restores, only blocks that   *)
(* follow the head which pop_block has led to.                             *)
THEOREM SwitchTheorem == Spec => []SwitchFollowsBranch
<1>1. Init => ChainInv
  BY ChainInit
<1>2. ChainInv /\ [Next]_vars => ChainInv'
  BY ChainStep
<1>3. ChainInv => SwitchFollowsBranch
  BY InvImplies
<1> QED
  BY <1>1, <1>2, <1>3, PTL DEF Spec

(* Between calls _pending_tx_session is the result of applying _pending_tx *)
(* to the head block's state, and it can be rebuilt from there.            *)
THEOREM PendingTheorem == Spec => []PendingIsApplied
<1>1. Init => ChainInv
  BY ChainInit
<1>2. ChainInv /\ [Next]_vars => ChainInv'
  BY ChainStep
<1>3. ChainInv => PendingIsApplied
  BY InvImplies
<1> QED
  BY <1>1, <1>2, <1>3, PTL DEF Spec

(* No step of push_block, of a fork switch or of block production loses a  *)
(* transaction that still applies when it is tried again.                  *)
THEOREM TransactionsTheorem == Spec => TransactionsKept
<1>1. Init => ChainInv
  BY ChainInit
<1>2. ChainInv /\ [Next]_vars => ChainInv'
  BY ChainStep
<1>3. ChainInv /\ [Next]_vars => [Kept]_vars
  BY ChainStep
<1> QED
  BY <1>1, <1>2, <1>3, PTL DEF Spec, TransactionsKept, Kept

-----------------------------------------------------------------------------
(* The good fork comes back: a state is determined by its head block and   *)
(* by what the process started from, so a block that has applied to the    *)
(* state before it applies to that state again.                            *)

PathTo(id) == IF id = Zero THEN <<>> ELSE Path[id]

(* What the duplicate check records of the blocks above number n. *)
Recorded(c, n) == UNION {Range(BlockTxs[c[i]]) : i \in n + 1 .. Len(c)}

(* The state at a block, in a process that started from number n with the  *)
(* records D.                                                              *)
Reached(D, n, id) == [chain |-> PathTo(id), dedupe |-> D \cup Recorded(PathTo(id), n)]

(* b applies to the state before it. *)
Fits(D, n, b) == BlockApplies(b, Reached(D, n, Prev[b]), TRUE)

(* States that the process reaches by applying blocks. *)
Fit(D, n) ==
    {s \in Good : /\ n <= Len(s.chain) /\ s = Reached(D, n, IdOfHead(s.chain))
                  /\ \A i \in n + 1 .. Len(s.chain) : Fits(D, n, s.chain[i])}

LEMMA ChainIsPath ==
    ASSUME NEW c \in Seq(Blocks), IsChain(c)
    PROVE  c = PathTo(IdOfHead(c))
<1>1. CASE c = <<>>
  BY <1>1 DEF IdOfHead, PathTo
<1>2. CASE c # <<>>
  <2> DEFINE n == Len(c)
             h == c[n]
             p == Path[h]
             N == {k \in Nat : k < n => p[n - k] = c[n - k]}
  <2>1. n \in Nat \ {0} /\ h \in Blocks /\ h # Zero
    BY <1>2, Tree
  <2>2. Num[h] = n
    BY <2>1, Numbered
  <2>3. p \in Seq(Blocks) /\ Len(p) = n /\ p[n] = h /\ Linked(p)
    BY <2>1, <2>2, PathType DEF IsPath
  <2> HIDE DEF p
  <2>4. 0 \in N
    BY <2>1, <2>3
  <2>5. ASSUME NEW k \in Nat, k \in N PROVE k + 1 \in N
    <3>1. ASSUME k + 1 < n PROVE p[n - (k + 1)] = c[n - (k + 1)]
      <4>1. n - k \in 2 .. n /\ (n - k) - 1 = n - (k + 1) /\ k < n /\ n - k # 1 /\ n - k \in 1 .. n
        BY <2>1, <3>1
      <4>2. p[n - k] = c[n - k]
        BY <2>5, <4>1
      <4>3. Prev[p[n - k]] = p[n - (k + 1)]
        BY <2>3, <4>1 DEF Linked
      <4>4. Prev[c[n - k]] = c[n - (k + 1)]
        BY <4>1 DEF IsChain
      <4> QED
        BY <4>2, <4>3, <4>4
    <3> QED
      BY <3>1
  <2>6. \A k \in Nat : k \in N
    <3> HIDE DEF N
    <3> QED
      BY <2>4, <2>5, SetInduction
  <2>7. ASSUME NEW i \in 1 .. n PROVE p[i] = c[i]
    <3>1. n - i \in Nat /\ n - i < n /\ n - (n - i) = i
      BY <2>1
    <3> QED
      BY <2>6, <3>1
  <2>8. c = p
    BY <2>3, <2>7
  <2> QED
    BY <1>2, <2>1, <2>8 DEF IdOfHead, PathTo, p
<1> QED
  BY <1>1, <1>2

LEMMA PathAppend ==
    ASSUME NEW b \in Blocks
    PROVE  PathTo(b) = Append(PathTo(Prev[b]), b)
<1>1. Path[b] = IF Prev[b] = Zero THEN <<b>> ELSE Append(Path[Prev[b]], b)
  BY PathExists DEF Walks
<1>2. <<b>> = Append(<<>>, b) /\ b # Zero
  BY Tree
<1> QED
  BY <1>1, <1>2 DEF PathTo

LEMMA RecordedAppend ==
    ASSUME NEW c \in Seq(Blocks), NEW b \in Blocks, NEW n \in Nat, n <= Len(c)
    PROVE  Recorded(Append(c, b), n) = Recorded(c, n) \cup Range(BlockTxs[b])
<1> DEFINE d == Append(c, b)
           m == Len(c)
<1>1. m \in Nat /\ Len(d) = m + 1 /\ d[m + 1] = b /\ \A i \in 1 .. m : d[i] = c[i]
  OBVIOUS
<1> HIDE DEF d
<1>2. n + 1 .. m \subseteq 1 .. m
  BY <1>1
<1>3. n + 1 .. m + 1 = (n + 1 .. m) \cup {m + 1}
  BY <1>1
<1>4. Recorded(d, n) = UNION {Range(BlockTxs[d[i]]) : i \in n + 1 .. m + 1}
  BY <1>1 DEF Recorded
<1>5. Recorded(c, n) = UNION {Range(BlockTxs[c[i]]) : i \in n + 1 .. m}
  BY DEF Recorded
<1> HIDE DEF m
<1>6. \A i \in n + 1 .. m : d[i] = c[i]
  BY <1>1, <1>2
<1> DEFINE I == n + 1 .. m
           R(e) == Range(BlockTxs[e])
<1>7. UNION {R(d[i]) : i \in I \cup {m + 1}} = (UNION {R(d[i]) : i \in I}) \cup R(d[m + 1])
  <2> HIDE DEF I, R
  <2> QED
    OBVIOUS
<1>8. {R(d[i]) : i \in I} = {R(c[i]) : i \in I}
  <2>1. \A i \in I : d[i] = c[i]
    BY <1>6
  <2> HIDE DEF I, R
  <2> QED
    BY <2>1
<1>9. Recorded(d, n) = Recorded(c, n) \cup Range(BlockTxs[b])
  BY <1>1, <1>3, <1>4, <1>5, <1>7, <1>8
<1> QED
  BY <1>9 DEF d

(* A process starts in a state it can reach. *)
LEMMA StartFits ==
    ASSUME NEW s \in Good
    PROVE  s \in Fit(s.dedupe, Len(s.chain))
<1> DEFINE c == s.chain
           n == Len(c)
           D == s.dedupe
<1>1. s = [chain |-> c, dedupe |-> D] /\ c \in Seq(Blocks) /\ IsChain(c) /\ n \in Nat
  BY GoodParts
<1>2. c = PathTo(IdOfHead(c))
  BY <1>1, ChainIsPath
<1>3. n + 1 .. n = {}
  BY <1>1
<1>4. Recorded(c, n) = {}
  BY <1>3 DEF Recorded
<1>5. s = Reached(D, n, IdOfHead(c))
  BY <1>1, <1>2, <1>4 DEF Reached
<1> QED
  BY <1>1, <1>3, <1>5 DEF Fit

(* Applying a block leads to a state that the process can reach ... *)
LEMMA FitApplies ==
    ASSUME NEW D, NEW n \in Nat, NEW s \in Fit(D, n), NEW b \in Blocks, BlockApplies(b, s, TRUE)
    PROVE  AfterBlock(b, s, TRUE) \in Fit(D, n)
<1> DEFINE c == s.chain
           t == AfterBlock(b, s, TRUE)
           d == Append(c, b)
<1>1. /\ s \in Good /\ n <= Len(c) /\ s = Reached(D, n, IdOfHead(c))
      /\ \A i \in n + 1 .. Len(c) : Fits(D, n, c[i])
  BY DEF Fit
<1>2. c \in Seq(Blocks) /\ IsChain(c)
  BY <1>1, GoodParts
<1>3. t \in Good /\ t.chain = d /\ t.dedupe = s.dedupe \cup Range(BlockTxs[b])
  BY <1>1, Extends DEF AfterBlock
<1>4. Prev[b] = IdOfHead(c)
  BY DEF BlockApplies
<1>5. c = PathTo(Prev[b])
  BY <1>2, <1>4, ChainIsPath
<1>6. d = PathTo(b) /\ d \in Seq(Blocks) /\ Len(d) = Len(c) + 1 /\ d[Len(c) + 1] = b
      /\ \A i \in 1 .. Len(c) : d[i] = c[i]
  BY <1>2, <1>5, PathAppend
<1>7. IdOfHead(d) = b
  BY <1>2, <1>6 DEF IdOfHead
<1>8. s.dedupe = D \cup Recorded(c, n)
  <2>1. s.dedupe = Reached(D, n, Prev[b]).dedupe
    BY <1>1, <1>4
  <2> QED
    BY <1>5, <2>1 DEF Reached
<1>9. t.dedupe = D \cup Recorded(d, n)
  <2>1. Recorded(d, n) = Recorded(c, n) \cup Range(BlockTxs[b])
    BY <1>1, <1>2, RecordedAppend
  <2> QED
    BY <1>3, <1>8, <2>1
<1>10. t = Reached(D, n, IdOfHead(t.chain))
  <2>1. t = [chain |-> t.chain, dedupe |-> t.dedupe]
    BY <1>3, GoodParts
  <2> HIDE DEF t, d
  <2> QED
    BY <1>3, <1>6, <1>7, <1>9, <2>1 DEF Reached
<1>11. Fits(D, n, b)
  BY <1>1, <1>4 DEF Fits
<1>12. ASSUME NEW i \in n + 1 .. Len(d) PROVE Fits(D, n, d[i])
  <2>1. i \in n + 1 .. Len(c) \/ i = Len(c) + 1
    BY <1>2, <1>6
  <2>2. i \in n + 1 .. Len(c) => d[i] = c[i]
    BY <1>2, <1>6
  <2> QED
    BY <1>1, <1>6, <1>11, <2>1, <2>2
<1>13. n <= Len(d)
  BY <1>1, <1>2, <1>6
<1> HIDE DEF t, d
<1>14. t \in Fit(D, n)
  BY <1>3, <1>10, <1>12, <1>13 DEF Fit
<1> QED
  BY <1>14 DEF t

(* ... and the same block applies to the same state again. *)
LEMMA FitAgain ==
    ASSUME NEW D, NEW n, NEW s \in Fit(D, n), NEW b \in Blocks, Fits(D, n, b), Prev[b] = IdOfHead(s.chain)
    PROVE  BlockApplies(b, s, TRUE)
BY DEF Fit, Fits

-----------------------------------------------------------------------------
(* Stacks of such states *)

LEMMA SeqParts ==
    ASSUME NEW X, NEW u \in Seq(X), u # <<>>
    PROVE  u[Len(u)] \in X /\ Front(u) \in Seq(X) /\ \A s \in X : DropSession(u, s) \in Seq(X)
<1> DEFINE n == Len(u)
<1>1. n \in Nat \ {0} /\ u[n] \in X
  OBVIOUS
<1>2. 1 \in Nat \ {0} /\ n - 1 \in Nat /\ 1 <= (n - 1) + 1 /\ n - 1 <= Len(u)
  BY <1>1
<1>3. SubSeq(u, 1, n - 1) \in Seq(X)
  BY <1>2, Slice
<1>4. Front(u) \in Seq(X)
  BY <1>3 DEF Front
<1>5. \A s \in X : <<s>> \in Seq(X)
  OBVIOUS
<1> QED
  BY <1>1, <1>4, <1>5 DEF DropSession

LEMMA TrimSeq ==
    ASSUME NEW X, NEW u \in Seq(X), NEW n \in Nat
    PROVE  TrimTo(u, n) \in Seq(X)
<1>1. CASE ~ (Len(u) > n)
  BY <1>1 DEF TrimTo
<1>2. CASE Len(u) > n
  <2> DEFINE m == Len(u) - n + 1
  <2>1. Len(u) \in Nat /\ m \in Nat \ {0} /\ m <= Len(u) + 1 /\ Len(u) <= Len(u)
    BY <1>2
  <2> HIDE DEF m
  <2>2. SubSeq(u, m, Len(u)) \in Seq(X)
    BY <2>1, Slice
  <2> QED
    BY <1>2, <2>2 DEF TrimTo, m
<1> QED
  BY <1>1, <1>2

LEMMA NestedSeq ==
    ASSUME NEW X, NEW u \in Seq(X), NEW s, Stack(u, s), u # <<>>, undo_max \in Nat, undo_max > 1, NEW deep
    PROVE  Nested(u, deep) \in Seq(X)
<1>1. Trim(u) \in Seq(X) /\ undo_max - 1 \in Nat
  BY TrimSeq DEF Trim
<1>2. TrimTo(Trim(u), undo_max - 1) \in Seq(X)
  BY <1>1, TrimSeq
<1> QED
  BY <1>1, <1>2, NestedTrims

LEMMA BlockSeq ==
    ASSUME NEW X, NEW u \in Seq(X), NEW s \in X, undo_max \in Nat
    PROVE  /\ Append(Trim(u), s) \in Seq(X) /\ Append(Trim(u), s) # <<>>
           /\ FailedBlock(u, s) \in Seq(X) /\ \A b \in Blocks : WithBlock(b, u, s) \in Seq(X)
<1> DEFINE v == Append(Trim(u), s)
<1>1. Trim(u) \in Seq(X)
  BY TrimSeq DEF Trim
<1>2. v \in Seq(X) /\ v # <<>>
  BY <1>1
<1> HIDE DEF v
<1>3. Trim(v) \in Seq(X) /\ DropSession(v, s) \in Seq(X)
  BY <1>2, TrimSeq, SeqParts DEF Trim
<1> QED
  BY <1>2, <1>3 DEF WithBlock, FailedBlock, v

-----------------------------------------------------------------------------
(* Every step of a running process stays within a set of states that       *)
(* applying blocks does not leave: sessions only bring back copies.        *)

Over(X)   == undo \in Seq(X) /\ (~ session => state \in X)
Closed(X) == \A s \in X, b \in Blocks : BlockApplies(b, s, TRUE) => AfterBlock(b, s, TRUE) \in X
Stays(X)  == undo' \in Seq(X) /\ (~ session' => state' \in X)

LEMMA CleanedWithin ==
    ASSUME ChainInv, NEW X, Over(X)
    PROVE  CleanState \in X /\ CleanUndo \in Seq(X)
<1>1. session => undo # <<>>
  BY DEF ChainInv, PendOK
<1>2. CASE session
  BY <1>1, <1>2, SeqParts DEF Over, CleanState, CleanUndo
<1>3. CASE ~ session
  BY <1>3 DEF Over, CleanState, CleanUndo
<1> QED
  BY <1>2, <1>3

LEMMA TriedWithin ==
    ASSUME ChainInv, NEW X, Over(X), NEW t, TryTransaction(t, pending)
    PROVE  Stays(X)
<1> DEFINE u == IF session THEN undo ELSE Append(Trim(undo), state)
<1>1. PICK deep : undo' = Nested(u, deep)
  BY DEF TryTransaction
<1>2. session' = TRUE
  BY DEF TryTransaction
<1>3. Stack(undo, state) /\ state \in Good /\ undo_max \in Nat /\ undo_max > 1 /\ (session => undo # <<>>)
  BY DEF ChainInv, Types, PendOK, Stack
<1>4. Stack(u, state) /\ u # <<>> /\ u \in Seq(X)
  <2>1. CASE session
    BY <1>3, <2>1 DEF Over
  <2>2. CASE ~ session
    <3>1. Under(state.chain, state.chain)
      BY DEF Under
    <3>2. Stack(Append(Trim(undo), state), state)
      BY <1>3, <3>1, GrowTrimmed
    <3>3. Append(Trim(undo), state) \in Seq(X) /\ Append(Trim(undo), state) # <<>>
      BY <1>3, <2>2, BlockSeq DEF Over
    <3> QED
      BY <2>2, <3>2, <3>3
  <2> QED
    BY <2>1, <2>2
<1> HIDE DEF u
<1>5. undo' \in Seq(X)
  BY <1>1, <1>3, <1>4, NestedSeq
<1> QED
  BY <1>2, <1>5 DEF Stays

LEMMA ValidatedWithin ==
    ASSUME ChainInv, NEW X, Over(X), NEW t, ValidateTransaction(t)
    PROVE  Stays(X)
<1>1. PICK deep : undo' = IF undo = <<>> THEN <<state>> ELSE Nested(undo, deep)
  BY DEF ValidateTransaction
<1>2. session' = session /\ state' = state
  BY DEF ValidateTransaction
<1>3. Stack(undo, state) /\ undo_max \in Nat /\ undo_max > 1 /\ (session => undo # <<>>)
  BY DEF ChainInv, Types, PendOK
<1>4. CASE undo = <<>>
  <2>1. state \in X
    BY <1>3, <1>4 DEF Over
  <2>2. undo' \in Seq(X)
    BY <1>1, <1>4, <2>1
  <2> QED
    BY <1>2, <2>1, <2>2 DEF Stays
<1>5. CASE undo # <<>>
  <2>1. undo' \in Seq(X)
    BY <1>1, <1>3, <1>5, NestedSeq DEF Over
  <2> QED
    BY <1>2, <2>1 DEF Stays, Over
<1> QED
  BY <1>4, <1>5

LEMMA PushedWithin ==
    ASSUME ChainInv, NEW X, Over(X), Closed(X), NEW b \in Blocks, PushBlock(b)
    PROVE  Stays(X)
<1>1. session' = FALSE
  BY DEF PushBlock, PushRejected, PushIgnored, PushUnswitchable, PushSwitches, PushApplies, PushFails, BeginPush
<1>2. CleanState \in X /\ CleanUndo \in Seq(X) /\ undo_max \in Nat
  BY CleanedWithin DEF ChainInv, Types
<1>3. CASE PushApplies(b)
  <2>1. /\ BlockApplies(b, CleanState, TRUE) /\ state' = AfterBlock(b, CleanState, TRUE)
        /\ undo' = WithBlock(b, CleanUndo, CleanState)
    BY <1>3 DEF PushApplies
  <2>2. state' \in X
    BY <1>2, <2>1 DEF Closed
  <2>3. undo' \in Seq(X)
    BY <1>2, <2>1, BlockSeq
  <2> QED
    BY <2>2, <2>3 DEF Stays
<1>4. CASE PushFails(b)
  <2>1. state' = CleanState /\ undo' = FailedBlock(CleanUndo, CleanState)
    BY <1>4 DEF PushFails
  <2>2. undo' \in Seq(X)
    BY <1>2, <2>1, BlockSeq
  <2> QED
    BY <1>2, <2>1, <2>2 DEF Stays
<1>5. CASE PushRejected(b) \/ PushIgnored(b) \/ PushUnswitchable(b) \/ PushSwitches(b)
  <2>1. state' = CleanState /\ undo' = CleanUndo
    BY <1>5 DEF PushRejected, PushIgnored, PushUnswitchable, PushSwitches
  <2> QED
    BY <1>2, <2>1 DEF Stays
<1> QED
  BY <1>3, <1>4, <1>5 DEF PushBlock

LEMMA GeneratedWithin ==
    ASSUME ChainInv, NEW X, Over(X), NEW b \in Blocks, GenerateBlock(b)
    PROVE  Stays(X)
<1> DEFINE c == CleanState
           u == Append(Trim(CleanUndo), c)
           deep == Range(BlockTxs[b]) \cap Executes # {}
           v == IF pending = <<>> THEN u ELSE Nested(u, deep)
<1>1. state' = c /\ undo' = DropSession(v, c)
  BY DEF GenerateBlock
<1>2. /\ Stack(CleanUndo, c) /\ c \in Good /\ undo_max \in Nat /\ undo_max > 1
      /\ c \in X /\ CleanUndo \in Seq(X)
  BY Cleaned, CleanedWithin DEF ChainInv, Types
<1>3. Stack(u, c) /\ u # <<>> /\ u \in Seq(X)
  <2>1. Under(c.chain, c.chain)
    BY DEF Under
  <2> HIDE DEF c
  <2>2. Stack(u, c)
    BY <1>2, <2>1, GrowTrimmed
  <2> QED
    BY <1>2, <2>2, BlockSeq
<1> HIDE DEF u, c, deep
<1>4. v # <<>> /\ v \in Seq(X)
  <2>1. Keeps(Nested(u, deep), u, c) /\ Nested(u, deep) \in Seq(X)
    BY <1>2, <1>3, NestedKeeps, NestedSeq
  <2> QED
    BY <1>3, <2>1 DEF Keeps
<1> HIDE DEF v
<1>5. undo' \in Seq(X)
  BY <1>1, <1>2, <1>4, SeqParts
<1> QED
  BY <1>1, <1>2, <1>5 DEF Stays

LEMMA PoppedWithin ==
    ASSUME ChainInv, NEW X, Over(X), PopBlock \/ PopBlockThrows \/ ClosePop \/ ClosePopThrows,
           session' = session
    PROVE  Stays(X)
<1>1. CASE PopBlock \/ ClosePop
  <2>1. undo # <<>> /\ state' = undo[Len(undo)] /\ undo' = Front(undo)
    BY <1>1 DEF PopBlock, ClosePop, CanPop
  <2> QED
    BY <2>1, SeqParts DEF Over, Stays
<1>2. CASE PopBlockThrows \/ ClosePopThrows
  <2>1. state' = state /\ undo' = undo
    BY <1>2 DEF PopBlockThrows, ClosePopThrows
  <2> QED
    BY <2>1 DEF Over, Stays
<1> QED
  BY <1>1, <1>2

LEMMA SwitchedWithin ==
    ASSUME ChainInv, NEW X, Over(X), Closed(X), Switch
    PROVE  Stays(X) /\ job'.second = job.second
<1>1. pc \in {"pop", "apply", "unwind", "reapply"}
  BY DEF Switch, SwitchPop, SwitchApplies, SwitchFails, SwitchUnwinds, SwitchReapplies
<1>2. session' = session
  BY DEF Switch, SwitchPop, SwitchApplies, SwitchFails, SwitchUnwinds, SwitchReapplies, InPush
<1>3. ~ session
  BY <1>1 DEF ChainInv, PendOK
<1>4. state \in X /\ undo \in Seq(X) /\ undo_max \in Nat /\ job \in Jobs
  BY <1>3 DEF Over, ChainInv, Types
<1>5. CASE SwitchPop \/ SwitchUnwinds
  <2>1. (PopBlock \/ PopBlockThrows) /\ job' = job
    BY <1>5 DEF SwitchPop, SwitchUnwinds
  <2> QED
    BY <1>2, <2>1, PoppedWithin
<1>6. ASSUME NEW x \in Blocks, BlockApplies(x, state, TRUE), state' = AfterBlock(x, state, TRUE),
             undo' = WithBlock(x, undo, state)
      PROVE  Stays(X)
  <2>1. state' \in X
    BY <1>4, <1>6 DEF Closed
  <2>2. undo' \in Seq(X)
    BY <1>4, <1>6, BlockSeq
  <2> QED
    BY <2>1, <2>2 DEF Stays
<1>7. ASSUME NEW n, job' = [job EXCEPT !.at = n] PROVE job'.second = job.second
  BY <1>4, <1>7 DEF Jobs
<1>8. CASE SwitchApplies
  <2>1. pc = "apply" /\ job.first \in Seq(Blocks) /\ job.at \in Nat /\ job.at < Len(job.first)
    BY <1>4, <1>8 DEF ChainInv, JobOK, Jobs, SwitchApplies
  <2>2. job.at + 1 \in 1 .. Len(job.first)
    BY <2>1
  <2>3. NextFirst \in Blocks
    BY <2>1, <2>2 DEF NextFirst
  <2> QED
    BY <1>6, <1>7, <1>8, <2>3 DEF SwitchApplies
<1>9. CASE SwitchReapplies
  <2>1. pc = "reapply" /\ job.second \in Seq(Blocks) /\ job.at \in Nat /\ job.at < Len(job.second)
    BY <1>4, <1>9 DEF ChainInv, JobOK, Jobs, SwitchReapplies
  <2>2. job.at + 1 \in 1 .. Len(job.second)
    BY <2>1
  <2>3. NextSecond \in Blocks
    BY <2>1, <2>2 DEF NextSecond
  <2> QED
    BY <1>6, <1>7, <1>9, <2>3 DEF SwitchReapplies
<1>10. CASE SwitchFails
  <2>1. state' = state /\ undo' = FailedBlock(undo, state) /\ job' = [job EXCEPT !.at = 0]
    BY <1>10 DEF SwitchFails
  <2>2. undo' \in Seq(X)
    BY <1>4, <2>1, BlockSeq
  <2> QED
    BY <1>4, <1>7, <2>1, <2>2 DEF Stays
<1> QED
  BY <1>5, <1>8, <1>9, <1>10 DEF Switch

-----------------------------------------------------------------------------
(* What a running process has reached, counted from where it started *)

Restored(D) == \A i \in 1 .. Len(job.second) : Num[job.second[i]] > base => Fits(D, base, job.second[i])

(* Every state is one the process reaches by applying blocks to the state  *)
(* it started from, and so were the blocks that a switch may restore.      *)
FitInv ==
    /\ pc = "down" => base = 0
    /\ pc \notin {"down", "replay"} =>
         \E D \in SUBSET Txs :
            /\ Over(Fit(D, base))
            /\ pc \in {"pop", "apply", "unwind", "reapply"} => Restored(D)

LEMMA FitClosed ==
    ASSUME NEW D, NEW n \in Nat
    PROVE  Closed(Fit(D, n))
BY FitApplies DEF Closed

(* A step of a running process that leaves the branches alone. *)
LEMMA Continues ==
    ASSUME ChainInv, FitInv, pc \notin {"down", "replay"}, pc' \notin {"down", "replay"}, base' = base,
           \A X : Over(X) /\ Closed(X) => Stays(X),
           \/ pc' \notin {"pop", "apply", "unwind", "reapply"}
           \/ pc \in {"pop", "apply", "unwind", "reapply"} /\ job'.second = job.second
    PROVE  FitInv'
<1>1. PICK D \in SUBSET Txs : /\ Over(Fit(D, base))
                              /\ pc \in {"pop", "apply", "unwind", "reapply"} => Restored(D)
  BY DEF FitInv
<1>2. base \in Nat
  BY DEF ChainInv, Types
<1>3. Stays(Fit(D, base))
  BY <1>1, <1>2, FitClosed
<1>4. Over(Fit(D, base))'
  BY <1>3 DEF Stays, Over
<1>5. pc' \in {"pop", "apply", "unwind", "reapply"} => Restored(D)'
  BY <1>1 DEF Restored
<1> QED
  BY <1>1, <1>4, <1>5 DEF FitInv

(* The branch of the old head consists of blocks that were applied. *)
LEMMA SwitchBegins ==
    ASSUME ChainInv, FitInv, NEW b \in Blocks, PushSwitches(b)
    PROVE  FitInv'
<1> DEFINE x == PushedHead(b)
           f == Branch(x, MeetAt(x, HeadId))
           g == Branch(HeadId, MeetAt(x, HeadId))
           c == state.chain
<1>1. BeginPush(b) /\ ~ NoBranch(b) /\ pc' = "pop" /\ job'.second = g
  <2>1. /\ BeginPush(b) /\ ~ NoBranch(b) /\ pc' = "pop"
        /\ job' = [Restoring(b) EXCEPT !.first = f, !.second = g]
    BY DEF PushSwitches
  <2>2. Restoring(b) \in Jobs
    BY RestoringType
  <2> HIDE DEF x, f, g
  <2>3. job'.second = g
    BY <2>1, <2>2 DEF Jobs
  <2> QED
    BY <2>1, <2>3
<1>2. /\ pc \in {"idle", "produce"} /\ base' = base /\ CleanState \in Good /\ CleanState.chain = c
      /\ fork \in Fork
  BY <1>1, Begun
<1>3. PICK D \in SUBSET Txs : Over(Fit(D, base))
  BY <1>2 DEF FitInv
<1>4. base \in Nat
  BY DEF ChainInv, Types
<1>5. Over(Fit(D, base))'
  <2>1. PushBlock(b)
    BY DEF PushBlock
  <2>2. Stays(Fit(D, base))
    BY <1>3, <1>4, <2>1, FitClosed, PushedWithin
  <2> QED
    BY <1>2, <2>2 DEF Stays, Over
<1>6. x \in Blocks /\ HeadId \in Blocks
  <2>1. {x, HeadId} \subseteq ForkPush(fork, b).index
    BY <1>1 DEF NoBranch, BranchThrows
  <2>2. ForkPush(fork, b).index \in SUBSET Blocks
    BY <1>2, ForkPushType DEF Fork
  <2> QED
    BY <2>1, <2>2
<1> HIDE DEF x
<1>7. OnPath(g, Path[HeadId])
  BY <1>6, Branches
<1> HIDE DEF g
<1>8. c \in Seq(Blocks) /\ IsChain(c)
  BY <1>2, GoodParts
<1>9. c = Path[HeadId]
  BY <1>6, <1>8, ChainIsPath, Tree DEF HeadId, PathTo
<1>10. \A i \in base + 1 .. Len(c) : Fits(D, base, c[i])
  <2>1. CleanState \in Fit(D, base)
    BY <1>3, CleanedWithin
  <2> QED
    BY <1>2, <2>1 DEF Fit
<1>11. ASSUME NEW i \in 1 .. Len(g), Num[g[i]] > base PROVE Fits(D, base, g[i])
  <2>1. PICK j \in 1 .. Len(c) : g[i] = c[j]
    BY <1>7, <1>9 DEF OnPath
  <2>2. Num[c[j]] = j
    BY <1>8, Numbered
  <2>3. j \in base + 1 .. Len(c)
    BY <1>4, <1>11, <2>1, <2>2
  <2> QED
    BY <1>10, <2>1, <2>3
<1>12. Restored(D)'
  BY <1>1, <1>2, <1>11 DEF Restored
<1> QED
  BY <1>1, <1>3, <1>5, <1>12 DEF FitInv

(* The process starts: from what was saved, from nothing, or where the     *)
(* replay of the log ends.                                                 *)
LEMMA Starts ==
    ASSUME NEW s \in Good, state' = s, base' = Len(s.chain), undo' = <<>>, pc' = "idle"
    PROVE  FitInv'
<1> DEFINE D == s.dedupe
<1>1. D \in SUBSET Txs
  BY GoodParts
<1>2. state' \in Fit(D, base')
  BY StartFits
<1>3. undo' \in Seq(Fit(D, base'))
  <2> DEFINE X == Fit(D, base')
  <2> HIDE DEF X
  <2>1. <<>> \in Seq(X)
    OBVIOUS
  <2> QED
    BY <2>1 DEF X
<1>4. Over(Fit(D, base))'
  BY <1>2, <1>3 DEF Over
<1> QED
  BY <1>1, <1>4 DEF FitInv

LEMMA StartSteps ==
    ASSUME ChainInv, FitInv, Open \/ OpenFails \/ Reindex \/ ReplayBlock \/ ReplayEnds \/ Flush \/ Crash
    PROVE  FitInv'
<1>1. pc \in {"down", "replay"} => undo = <<>>
  BY DEF ChainInv
<1>2. state \in Good /\ saved \in Good
  BY DEF ChainInv, Types, Stack
<1>3. CASE Open
  <2>1. /\ pc = "down" /\ pc' = "idle" /\ state' = saved /\ undo' = undo /\ base' = Len(saved.chain)
    BY <1>3 DEF Open, Started
  <2> QED
    BY <1>1, <1>2, <2>1, Starts
<1>4. CASE OpenFails
  BY <1>4 DEF OpenFails, chainvars, FitInv
<1>5. CASE Reindex
  <2>1. /\ pc = "down" /\ pc' \in {"idle", "replay"} /\ state' = Genesis /\ undo' = undo /\ base' = base
    BY <1>5 DEF Reindex, Started
  <2>2. base = 0 /\ Len(Genesis.chain) = 0
    BY <2>1 DEF FitInv, Genesis
  <2>3. pc' = "idle" => FitInv'
    BY <1>1, <2>1, <2>2, GenesisGood, Starts
  <2>4. pc' = "replay" => FitInv'
    BY DEF FitInv
  <2> QED
    BY <2>1, <2>3, <2>4
<1>6. CASE ReplayBlock
  BY <1>6 DEF ReplayBlock, FitInv
<1>7. CASE ReplayEnds
  <2>1. /\ pc = "replay" /\ pc' = "idle" /\ state' = state /\ undo' = undo /\ base' = Len(state.chain)
    BY <1>7 DEF ReplayEnds, HeadNum
  <2> QED
    BY <1>1, <1>2, <2>1, Starts
<1>8. CASE Flush \/ Crash
  BY <1>8 DEF Flush, Crash, Down, FitInv
<1> QED
  BY <1>3, <1>4, <1>5, <1>6, <1>7, <1>8

LEMMA FitStep ==
    ASSUME ChainInv, FitInv, [Next]_vars
    PROVE  FitInv'
<1> DEFINE Forking == {"pop", "apply", "unwind", "reapply"}
           Off     == {"down", "replay"}
<1>1. ASSUME NEW t \in Txs, PushTransaction(t) \/ ValidateTransaction(t) PROVE FitInv'
  <2>1. pc = "idle" /\ pc' = "idle" /\ base' = base
    BY <1>1 DEF PushTransaction, ValidateTransaction, Idle
  <2>2. \A X : Over(X) /\ Closed(X) => Stays(X)
    BY <1>1, TriedWithin, ValidatedWithin DEF PushTransaction
  <2> QED
    BY <2>1, <2>2, Continues
<1>2. ASSUME NEW b \in Blocks, PushBlock(b) PROVE FitInv'
  <2>1. CASE PushSwitches(b)
    BY <2>1, SwitchBegins
  <2>2. CASE ~ PushSwitches(b)
    <3>1. pc' = "restore" /\ BeginPush(b)
      BY <1>2, <2>2 DEF PushBlock, PushRejected, PushIgnored, PushUnswitchable, PushApplies, PushFails
    <3>2. pc \in {"idle", "produce"} /\ base' = base
      BY <3>1, Begun
    <3>3. \A X : Over(X) /\ Closed(X) => Stays(X)
      BY <1>2, PushedWithin
    <3> QED
      BY <3>1, <3>2, <3>3, Continues
  <2> QED
    BY <2>1, <2>2
<1>3. ASSUME NEW b \in Blocks, GenerateBlock(b) PROVE FitInv'
  <2>1. pc = "idle" /\ pc' = "produce" /\ base' = base
    BY <1>3 DEF GenerateBlock, Idle
  <2>2. \A X : Over(X) /\ Closed(X) => Stays(X)
    BY <1>3, GeneratedWithin
  <2> QED
    BY <2>1, <2>2, Continues
<1>4. CASE Switch
  <2>1. /\ pc \in Forking /\ pc' \in Forking \cup {"restore"} /\ base' = base
    BY <1>4 DEF Switch, SwitchPop, SwitchApplies, SwitchFails, SwitchUnwinds, SwitchReapplies, InPush
  <2>2. \A X : Over(X) /\ Closed(X) => Stays(X)
    BY <1>4, SwitchedWithin
  <2>3. job'.second = job.second
    <3>1. \E X : Over(X) /\ Closed(X)
      <4>1. PICK D \in SUBSET Txs : Over(Fit(D, base))
        BY <2>1 DEF FitInv
      <4>2. Closed(Fit(D, base))
        BY FitClosed DEF ChainInv, Types
      <4> QED
        BY <4>1, <4>2
    <3> QED
      BY <1>4, <3>1, SwitchedWithin
  <2> QED
    BY <2>1, <2>2, <2>3, Continues
<1>5. CASE RestoreTransaction
  <2>1. pc = "restore" /\ pc' = "restore" /\ base' = base
    BY <1>5 DEF RestoreTransaction
  <2>2. ASSUME NEW X, Over(X) PROVE Stays(X)
    <3>1. \/ state' = state /\ undo' = undo /\ session' = session
          \/ TryTransaction(Head(ToRestore), pending)
      BY <1>5 DEF RestoreTransaction
    <3> QED
      BY <2>2, <3>1, TriedWithin DEF Over, Stays
  <2> QED
    BY <2>1, <2>2, Continues
<1>6. CASE PushReturns
  <2>1. /\ pc = "restore" /\ pc' = "idle" /\ base' = base
        /\ state' = state /\ undo' = undo /\ session' = session
    BY <1>6 DEF PushReturns
  <2>2. \A X : Over(X) /\ Closed(X) => Stays(X)
    BY <2>1 DEF Over, Stays
  <2> QED
    BY <2>1, <2>2, Continues
<1>7. CASE BeginClose
  <2>1. pc = "idle" /\ pc' = "close" /\ base' = base /\ state' = CleanState /\ undo' = CleanUndo
    BY <1>7 DEF BeginClose, Idle
  <2>2. \A X : Over(X) /\ Closed(X) => Stays(X)
    BY <2>1, CleanedWithin DEF Stays
  <2> QED
    BY <2>1, <2>2, Continues
<1>8. CASE ClosePop \/ ClosePopThrows
  <2>1. pc = "close" /\ pc' \in {"close", "flush"} /\ base' = base /\ session' = session
    BY <1>8 DEF ClosePop, ClosePopThrows
  <2>2. \A X : Over(X) /\ Closed(X) => Stays(X)
    BY <1>8, <2>1, PoppedWithin
  <2> QED
    BY <2>1, <2>2, Continues
<1>9. CASE UNCHANGED vars
  BY <1>9 DEF vars, chainvars, FitInv, Over, Restored
<1> QED
  BY <1>1, <1>2, <1>3, <1>4, <1>5, <1>6, <1>7, <1>8, <1>9, StartSteps DEF Next

LEMMA FitImplies ==
    ASSUME ChainInv, FitInv
    PROVE  GoodForkComesBack
<1> SUFFICES ASSUME pc = "reapply" PROVE BlockApplies(NextSecond, state, TRUE)
  BY DEF GoodForkComesBack
<1> DEFINE x == NextSecond
<1>1. PICK D \in SUBSET Txs : Over(Fit(D, base)) /\ Restored(D)
  BY DEF FitInv
<1>2. state \in Fit(D, base)
  BY <1>1 DEF Over, ChainInv, PendOK
<1>3. Prev[x] = HeadId
  BY InvImplies DEF SwitchFollowsBranch
<1>4. job.second \in Seq(Blocks) /\ job.at + 1 \in 1 .. Len(job.second)
  <2>1. job \in Jobs /\ job.at < Len(job.second)
    BY DEF ChainInv, Types, JobOK
  <2> QED
    BY <2>1 DEF Jobs
<1>5. x \in Blocks
  BY <1>4 DEF NextSecond
<1>6. Num[x] > base
  <2>1. state \in Good /\ base <= Len(state.chain) /\ base \in Nat
    BY <1>2 DEF Fit, ChainInv, Types
  <2>2. NumOf(HeadId) = Len(state.chain) /\ Len(state.chain) \in Nat
    BY <2>1, GoodParts, Heads DEF HeadId
  <2>3. Num[x] = NumOf(Prev[x]) + 1
    BY <1>5, Tree DEF NumOf
  <2> QED
    BY <1>3, <2>1, <2>2, <2>3
<1>7. Fits(D, base, x)
  BY <1>1, <1>4, <1>6 DEF Restored, NextSecond
<1> QED
  BY <1>2, <1>3, <1>5, <1>7, FitAgain DEF HeadId

(* When a fork turns out to be invalid, every block of the good fork that  *)
(* was popped for it applies again.                                        *)
THEOREM GoodForkTheorem == Spec => []GoodForkComesBack
<1>1. Init => ChainInv /\ FitInv
  BY ChainInit DEF Init, FitInv
<1>2. ChainInv /\ FitInv /\ [Next]_vars => (ChainInv /\ FitInv)'
  BY ChainStep, FitStep
<1>3. ChainInv /\ FitInv => GoodForkComesBack
  BY FitImplies
<1> QED
  BY <1>1, <1>2, <1>3, PTL DEF Spec
=============================================================================
