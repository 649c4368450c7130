--------------------------- MODULE NetSyncProof -----------------------------
(***************************************************************************)
(* Every node keeps book of what it asks its peers for: for any nodes,     *)
(* connections, trees of blocks, chains the nodes start with and limits,   *)
(* whatever messages are on their way and whichever connections are lost.  *)
(*                                                                         *)
(* The invariant NetInv holds the types of the whole state, among them     *)
(* that every list of ids is consecutive and that nothing outgrows its     *)
(* limit, and the requests of each node.  A handler is a function on       *)
(* records of one node (NetState); a lemma for each says that it leads     *)
(* from such a record to another.                                          *)
(***************************************************************************)
EXTENDS NetSync, FoldTheorems

(* The tree of blocks *)

LEMMA Tree ==
    /\ Zero \notin Blocks /\ MaxNum \in Nat
    /\ \A b \in Blocks : /\ Prev[b] \in Blocks \cup {Zero} /\ Num[b] \in 1 .. MaxNum
                         /\ Prev[b] = Zero => Num[b] = 1
                         /\ Prev[b] # Zero => Prev[b] \in Blocks /\ Num[b] = Num[Prev[b]] + 1
BY TreeAssumption

(* The equation of Path over the blocks up to a number. *)
Low(n) == {b \in Blocks : Num[b] <= n}
Walks(g, D) == g = [b \in D |-> IF Prev[b] = Zero THEN <<b>> ELSE Append(g[Prev[b]], b)]

LEMMA PathExists == Walks(Path, Blocks)
<1> DEFINE N == {n \in Nat : \E g : Walks(g, Low(n))}
<1>1. 0 \in N
  <2>1. Low(0) = {}
    BY Tree DEF Low
  <2>2. Walks([b \in {} |-> <<>>], {})
    BY DEF Walks
  <2> QED
    BY <2>1, <2>2
<1>2. ASSUME NEW n \in Nat, n \in N PROVE n + 1 \in N
  <2>1. PICK g : Walks(g, Low(n))
    BY <1>2
  <2> DEFINE h == [b \in Low(n + 1) |-> IF Prev[b] = Zero THEN <<b>> ELSE Append(g[Prev[b]], b)]
  <2>2. ASSUME NEW b \in Low(n + 1), Prev[b] # Zero PROVE Prev[b] \in Low(n) /\ Prev[b] \in Low(n + 1)
    BY <2>2, Tree DEF Low
  <2>3. ASSUME NEW b \in Low(n) PROVE g[b] = h[b]
    <3>1. b \in Low(n + 1)
      BY Tree DEF Low
    <3>2. g[b] = IF Prev[b] = Zero THEN <<b>> ELSE Append(g[Prev[b]], b)
      BY <2>1 DEF Walks
    <3> QED
      BY <3>1, <3>2
  <2>4. ASSUME NEW b \in Low(n + 1)
        PROVE  h[b] = IF Prev[b] = Zero THEN <<b>> ELSE Append(h[Prev[b]], b)
    <3>1. h[b] = IF Prev[b] = Zero THEN <<b>> ELSE Append(g[Prev[b]], b)
      OBVIOUS
    <3> HIDE DEF h
    <3> QED
      BY <2>2, <2>3, <3>1
  <2>5. Walks(h, Low(n + 1))
    <3>1. h = [b \in Low(n + 1) |-> h[b]]
      OBVIOUS
    <3> HIDE DEF h
    <3> QED
      BY <2>4, <3>1 DEF Walks
  <2> QED
    BY <2>5
<1>3. MaxNum \in N
  <2> HIDE DEF N
  <2> QED
    BY <1>1, <1>2, SetInduction, Tree
<1>4. Low(MaxNum) = Blocks
  BY Tree DEF Low
<1>5. \E g : Walks(g, Blocks)
  BY <1>3, <1>4
<1> QED
  BY <1>5 DEF Path, Walks

(* A path holds blocks, and the block at position i has number i. *)
Numbered(p) == p \in Seq(Blocks) /\ \A i \in 1 .. Len(p) : Num[p[i]] = i

LEMMA PathType ==
    ASSUME NEW b \in Blocks
    PROVE  Numbered(Path[b]) /\ Len(Path[b]) = Num[b]
<1> DEFINE N == {n \in Nat : \A x \in Blocks : Num[x] = n => Numbered(Path[x]) /\ Len(Path[x]) = Num[x]}
<1>1. 0 \in N
  BY Tree
<1>2. ASSUME NEW n \in Nat, n \in N PROVE n + 1 \in N
  <2> SUFFICES ASSUME NEW x \in Blocks, Num[x] = n + 1 PROVE Numbered(Path[x]) /\ Len(Path[x]) = Num[x]
    OBVIOUS
  <2>0. Path[x] = IF Prev[x] = Zero THEN <<x>> ELSE Append(Path[Prev[x]], x)
    BY PathExists DEF Walks
  <2>1. CASE Prev[x] = Zero
    <3>1. Path[x] = <<x>> /\ Num[x] = 1
      BY <2>0, <2>1, Tree
    <3> HIDE DEF N
    <3> QED
      BY <3>1 DEF Numbered
  <2>2. CASE Prev[x] # Zero
    <3>1. Prev[x] \in Blocks /\ Num[Prev[x]] = n
      BY <2>2, Tree
    <3>2. Numbered(Path[Prev[x]]) /\ Len(Path[Prev[x]]) = n
      BY <1>2, <3>1
    <3>3. Path[x] = Append(Path[Prev[x]], x)
      BY <2>0, <2>2
    <3> HIDE DEF N
    <3> QED
      BY <3>2, <3>3 DEF Numbered
  <2> QED
    BY <2>1, <2>2
<1> HIDE DEF N
<1>3. \A n \in Nat : n \in N
  BY <1>1, <1>2, SetInduction
<1>4. Num[b] \in N
  BY <1>3, Tree
<1> QED
  BY <1>4 DEF N

LEMMA ChainToType ==
    ASSUME NEW id \in Blocks \cup {Zero}
    PROVE  Numbered(ChainTo(id)) /\ Len(ChainTo(id)) <= MaxNum
<1>1. CASE id = Zero
  BY <1>1, Tree DEF ChainTo, Numbered
<1>2. CASE id # Zero
  BY <1>2, PathType, Tree DEF ChainTo
<1> QED
  BY <1>1, <1>2

NumType == \A b \in Blocks \cup {Zero} : NumOf(b) \in 0 .. MaxNum
LEMMA NumIsType == NumType
BY Tree DEF NumType, NumOf

(* The loop of a synopsis ends *)

(* The number after n. *)
After(n, true_high) == (n + ((true_high - n + 2) % Word) \div 2) % Word
Visits(f, D, true_high, high) ==
    f = [n \in D |-> <<n>> \o (IF After(n, true_high) <= high THEN f[After(n, true_high)] ELSE <<>>)]

LEMMA WordType == Word \in Nat /\ Word > 2 * MaxNum + 2 /\ MaxNum \in Nat
BY SynopsisAssumption, Tree

LEMMA Mod ==
    ASSUME NEW a \in Int
    PROVE  a % Word \in 0 .. Word - 1 /\ (0 <= a /\ a < Word => a % Word = a)
BY WordType

LEMMA Half ==
    ASSUME NEW a \in Nat
    PROVE  a \div 2 \in Nat /\ 2 * (a \div 2) <= a /\ a < 2 * (a \div 2) + 2
OBVIOUS

LEMMA AfterType ==
    ASSUME NEW n \in Nat, NEW t \in Nat
    PROVE  After(n, t) \in Nat /\ (n <= t /\ t + 2 < Word => n < After(n, t) /\ After(n, t) <= t + 1)
<1> DEFINE d == (t - n + 2) % Word
           e == d \div 2
<1>1. d \in Nat
  BY Mod, WordType
<1>2. e \in Nat /\ 2 * e <= d /\ d < 2 * e + 2
  <2> HIDE DEF d
  <2> QED
    BY <1>1, Half
<1>3. After(n, t) = (n + e) % Word
  BY DEF After
<1>4. After(n, t) \in Nat
  <2> HIDE DEF e
  <2>1. n + e \in Int
    BY <1>2
  <2> QED
    BY <1>3, <2>1, Mod, WordType
<1>5. ASSUME n <= t, t + 2 < Word PROVE n < After(n, t) /\ After(n, t) <= t + 1
  <2>1. d = t - n + 2
    BY <1>5, Mod, WordType
  <2> HIDE DEF d, e
  <2>2. n < n + e /\ n + e <= t + 1 /\ n + e >= 0 /\ n + e < Word /\ n + e \in Int
    BY <1>2, <1>5, <2>1, WordType
  <2>3. (n + e) % Word = n + e
    BY <2>2, Mod
  <2> QED
    BY <1>3, <2>2, <2>3
<1> QED
  BY <1>4, <1>5

(* The equation has a solution on all numbers: those up to high form a     *)
(* chain that ends above high, and every other number leads into it at     *)
(* most once.                                                              *)
LEMMA VisitsExists ==
    ASSUME NEW t \in Nat, NEW high \in Nat, high <= t, t + 2 < Word
    PROVE  \E f : Visits(f, Nat, t, high)
<1> DEFINE D(k) == {n \in 0 .. high : n + k > high}
           N == {k \in Nat : \E f : Visits(f, D(k), t, high)}
<1>0. \A n \in Nat : After(n, t) \in Nat /\ (n <= high => n < After(n, t))
  <2> TAKE n \in Nat
  <2>1. n <= high => n <= t
    OBVIOUS
  <2> QED
    BY <2>1, AfterType
<1>1. 0 \in N
  <2>1. D(0) = {}
    OBVIOUS
  <2>2. Visits([n \in {} |-> <<>>], {}, t, high)
    BY DEF Visits
  <2> QED
    BY <2>1, <2>2
<1>2. ASSUME NEW k \in Nat, k \in N PROVE k + 1 \in N
  <2>1. PICK f : Visits(f, D(k), t, high)
    BY <1>2
  <2> DEFINE g == [n \in D(k + 1) |-> <<n>> \o (IF After(n, t) <= high THEN f[After(n, t)] ELSE <<>>)]
  <2>2. \A n \in D(k + 1) : After(n, t) <= high => After(n, t) \in D(k)
    BY <1>0
  <2>3. \A n \in D(k) : n \in D(k + 1)
    OBVIOUS
  <2>4. \A n \in D(k) : f[n] = g[n]
    BY <2>1, <2>3 DEF Visits
  <2> HIDE DEF D
  <2>5. \A n \in D(k + 1) : g[n] = <<n>> \o (IF After(n, t) <= high THEN g[After(n, t)] ELSE <<>>)
    <3>1. \A n \in D(k + 1) : After(n, t) <= high => f[After(n, t)] = g[After(n, t)]
      BY <2>2, <2>4
    <3>2. \A n \in D(k + 1) : g[n] = <<n>> \o (IF After(n, t) <= high THEN f[After(n, t)] ELSE <<>>)
      OBVIOUS
    <3> HIDE DEF g
    <3> QED
      BY <3>1, <3>2
  <2>6. g = [n \in D(k + 1) |-> g[n]]
    OBVIOUS
  <2>7. Visits(g, D(k + 1), t, high)
    <3> HIDE DEF g
    <3> QED
      BY <2>5, <2>6 DEF Visits
  <2> QED
    BY <2>7
<1>3. high + 1 \in N
  <2> HIDE DEF N
  <2> QED
    BY <1>1, <1>2, SetInduction
<1>4. D(high + 1) = 0 .. high
  OBVIOUS
<1>5. PICK f : Visits(f, 0 .. high, t, high)
  BY <1>3, <1>4
<1> DEFINE g == [n \in Nat |-> <<n>> \o (IF After(n, t) <= high THEN f[After(n, t)] ELSE <<>>)]
<1>6. \A n \in Nat : g[n] = <<n>> \o (IF After(n, t) <= high THEN g[After(n, t)] ELSE <<>>)
  <2>1. \A n \in 0 .. high : f[n] = g[n]
    <3> TAKE n \in 0 .. high
    <3>1. n \in Nat
      OBVIOUS
    <3>2. f[n] = <<n>> \o (IF After(n, t) <= high THEN f[After(n, t)] ELSE <<>>)
      BY <1>5 DEF Visits
    <3> QED
      BY <3>1, <3>2
  <2>2. \A n \in Nat : g[n] = <<n>> \o (IF After(n, t) <= high THEN f[After(n, t)] ELSE <<>>)
    OBVIOUS
  <2> HIDE DEF g
  <2>3. \A n \in Nat : After(n, t) <= high => f[After(n, t)] = g[After(n, t)]
    BY <1>0, <2>1
  <2> QED
    BY <2>2, <2>3
<1>7. g = [n \in Nat |-> g[n]]
  OBVIOUS
<1>8. Visits(g, Nat, t, high)
  <2> HIDE DEF g
  <2> QED
    BY <1>6, <1>7 DEF Visits
<1> QED
  BY <1>8

(* The numbers the loop visits are a sequence. *)
LEMMA NumbersType ==
    ASSUME NEW low \in Nat, NEW t \in Nat, NEW high \in Nat, high <= t, t + 2 < Word
    PROVE  Numbers(low, t, high) \in Seq(Nat)
<1>1. PICK f : Visits(f, Nat, t, high) /\ Numbers(low, t, high) = f[low]
  <2> DEFINE g == CHOOSE f : Visits(f, Nat, t, high)
  <2>1. Visits(g, Nat, t, high)
    BY VisitsExists
  <2>2. Numbers(low, t, high) = g[low]
    BY DEF Numbers, Visits, After
  <2> QED
    BY <2>1, <2>2
<1>0. \A n \in Nat : After(n, t) \in Nat /\ (n <= high => n < After(n, t))
  <2> TAKE n \in Nat
  <2>1. n <= high => n <= t
    OBVIOUS
  <2> QED
    BY <2>1, AfterType
<1>2. \A n \in Nat : f[n] = <<n>> \o (IF After(n, t) <= high THEN f[After(n, t)] ELSE <<>>)
  BY <1>1 DEF Visits
<1> DEFINE N == {k \in Nat : \A n \in 0 .. high : n + k > high => f[n] \in Seq(Nat)}
<1>3. 0 \in N
  OBVIOUS
<1>4. ASSUME NEW k \in Nat, k \in N PROVE k + 1 \in N
  <2> SUFFICES ASSUME NEW n \in 0 .. high, n + (k + 1) > high PROVE f[n] \in Seq(Nat)
    OBVIOUS
  <2>0. n \in Nat /\ After(n, t) \in Nat /\ n < After(n, t)
    BY <1>0
  <2>1. ASSUME After(n, t) <= high PROVE f[After(n, t)] \in Seq(Nat)
    <3>1. After(n, t) \in 0 .. high /\ After(n, t) + k > high
      BY <2>0, <2>1
    <3> QED
      BY <1>4, <3>1
  <2> HIDE DEF N
  <2>2. f[n] = <<n>> \o (IF After(n, t) <= high THEN f[After(n, t)] ELSE <<>>)
    BY <1>2, <2>0
  <2>3. CASE After(n, t) <= high
    BY <2>0, <2>1, <2>2, <2>3
  <2>4. CASE ~ (After(n, t) <= high)
    BY <2>0, <2>2, <2>4
  <2> QED
    BY <2>3, <2>4
<1>5. high + 1 \in N
  <2> HIDE DEF N
  <2> QED
    BY <1>3, <1>4, SetInduction
<1>6. \A n \in 0 .. high : f[n] \in Seq(Nat)
  BY <1>5
<1> HIDE DEF N
<1>7. ASSUME After(low, t) <= high PROVE f[After(low, t)] \in Seq(Nat)
  <2>1. After(low, t) \in 0 .. high
    BY <1>0, <1>7
  <2> QED
    BY <1>6, <2>1
<1>8. f[low] = <<low>> \o (IF After(low, t) <= high THEN f[After(low, t)] ELSE <<>>)
  BY <1>2
<1>9. CASE After(low, t) <= high
  BY <1>1, <1>7, <1>8, <1>9
<1>10. CASE ~ (After(low, t) <= high)
  BY <1>1, <1>8, <1>10
<1> QED
  BY <1>9, <1>10

(* What is sent: ids of blocks, and what was read outside of a vector. *)
Ids       == Blocks \cup {Garbage}
Summaries == Seq(Ids)
ChainType == [known : SUBSET Blocks, head : Blocks \cup {Zero}, base : Nat]

(* Lists of ids with consecutive numbers. *)
Lists == {l \in Seq(Blocks) : \A i \in 1 .. Len(l) : NumOf(l[i]) = NumOf(l[1]) + i - 1}

LEMMA ListShort ==
    ASSUME NEW l \in Lists
    PROVE  l \in Seq(Blocks) /\ Len(l) \in Nat /\ Len(l) <= MaxNum /\ (l # <<>> => NumOf(l[1]) + Len(l) - 1 <= MaxNum)
<1>1. l \in Seq(Blocks) /\ Len(l) \in Nat /\ (l # <<>> => Len(l) >= 1)
  BY DEF Lists
<1>2. CASE l = <<>>
  BY <1>1, <1>2, Tree
<1>3. CASE l # <<>>
  <2>1. Len(l) \in 1 .. Len(l) /\ 1 \in 1 .. Len(l) /\ l[1] \in Blocks /\ l[Len(l)] \in Blocks
    BY <1>1, <1>3
  <2>2. NumOf(l[Len(l)]) = NumOf(l[1]) + Len(l) - 1
    BY <2>1 DEF Lists
  <2>3. NumOf(l[1]) \in 1 .. MaxNum /\ NumOf(l[Len(l)]) \in 1 .. MaxNum
    BY <2>1, Tree DEF NumOf
  <2> QED
    BY <1>1, <2>2, <2>3, Tree
<1> QED
  BY <1>2, <1>3

LEMMA SynopsisConstants ==
    /\ Garbage \notin Blocks \cup {Zero} /\ Word \in Nat /\ Word > 2 * MaxNum + 2
    /\ MaxUndo \in Nat /\ Pending \in Nat /\ Limit \in Nat /\ Limit >= 2
BY SynopsisAssumption

LEMMA LowNumType ==
    ASSUME NEW c \in ChainType, NEW ref \in Blocks \cup {Zero}
    PROVE  LowNum(c, ref) \in Nat
<1> DEFINE h == NumOf(c.head)
           u == UndoSize(c)
<1>1. h \in Nat /\ c.base \in Nat
  BY NumIsType DEF ChainType, NumType
<1>2. u \in Int
  <2>1. Min({MaxUndo, h - c.base}) \in Int
    <3> HIDE DEF h
    <3> QED
      BY <1>1, MinOfTwo, SynopsisConstants
  <2> QED
    BY <2>1, SynopsisConstants DEF UndoSize
<1>3. last_non_undoable_block_num(c) \in Nat
  <2> HIDE DEF h, u
  <2>1. h - u \in Int
    BY <1>1, <1>2
  <2>2. (h - u) % Word \in Nat
    BY <2>1, Mod, SynopsisConstants
  <2> QED
    BY <2>2 DEF last_non_undoable_block_num, h, u
<1>4. ref # Zero => Num[ref] \in Nat
  BY Tree
<1>5. ref # Zero => Min({last_non_undoable_block_num(c), Num[ref]}) \in Nat
  BY <1>3, <1>4, MinOfTwo
<1> QED
  BY <1>3, <1>5 DEF LowNum

LEMMA BlockSynopsisType ==
    ASSUME NEW c \in ChainType, NEW ref \in Blocks \cup {Zero}, NEW after \in 0 .. MaxNum
    PROVE  get_blockchain_synopsis(c, ref, after) \in Summaries
<1> DEFINE id  == IF ref = Zero THEN c.head ELSE ref
           way == ChainTo(id)
           nums == Numbers(LowNum(c, ref), Len(way) + after, Len(way))
<1>1. id \in Blocks \cup {Zero}
  BY DEF ChainType
<1>2. way \in Seq(Blocks) /\ Len(way) \in Nat /\ Len(way) <= MaxNum
  <2> HIDE DEF id
  <2> QED
    BY <1>1, ChainToType DEF Numbered
<1>3. nums \in Seq(Nat)
  <2> HIDE DEF way
  <2>1. LowNum(c, ref) \in Nat
    BY LowNumType
  <2>2. Len(way) + after \in Nat /\ Len(way) <= Len(way) + after /\ Len(way) + after + 2 < Word
    BY <1>2, SynopsisConstants, Tree
  <2> QED
    BY <1>2, <2>1, <2>2, NumbersType
<1>4. [i \in DOMAIN nums |-> At(way, nums[i])] \in Summaries
  <2> HIDE DEF way, nums
  <2>1. \A x : At(way, x) \in Ids
    BY <1>2 DEF At, Ids
  <2>2. DOMAIN nums = 1 .. Len(nums) /\ Len(nums) \in Nat
    BY <1>3
  <2> QED
    BY <2>1, <2>2 DEF Summaries
<1>5. <<>> \in Summaries
  BY DEF Summaries
<1>6. get_blockchain_synopsis(c, ref, after) = IF way = <<>> THEN <<>> ELSE [i \in DOMAIN nums |-> At(way, nums[i])]
  BY DEF get_blockchain_synopsis
<1> QED
  BY <1>4, <1>5, <1>6

(* What the loop over the numbers of a list adds. *)
AddStep(to_get, ids, n) ==
    IF n >= NumOf(to_get[1]) THEN Append(ids, At(to_get, n - NumOf(to_get[1]) + 1)) ELSE ids

(* The numbers the loop visits for a list that is not empty. *)
ListNumbers(synopsis, to_get) ==
    LET high == NumOf(to_get[1]) + Len(to_get) - 1
    IN  Numbers(IF synopsis = <<>> \/ synopsis[1] = Garbage THEN 1 ELSE NumOf(synopsis[1]), high, high)

LEMMA ListNumbersType ==
    ASSUME NEW synopsis \in Summaries, NEW to_get \in Lists, to_get # <<>>
    PROVE  ListNumbers(synopsis, to_get) \in Seq(Nat)
<1> DEFINE first == NumOf(to_get[1])
           high  == first + Len(to_get) - 1
           low   == IF synopsis = <<>> \/ synopsis[1] = Garbage THEN 1 ELSE NumOf(synopsis[1])
<1>1. high \in Nat /\ high <= MaxNum
  <2>1. to_get[1] \in Blocks /\ Len(to_get) >= 1
    BY DEF Lists
  <2>2. first \in Nat
    BY <2>1, NumIsType DEF NumType
  <2> QED
    BY <2>1, <2>2, ListShort, Tree
<1>2. low \in Nat
  <2>1. CASE synopsis = <<>> \/ synopsis[1] = Garbage
    BY <2>1
  <2>2. CASE synopsis # <<>> /\ synopsis[1] # Garbage
    <3>1. synopsis[1] \in Blocks
      BY <2>2 DEF Summaries, Ids
    <3> QED
      BY <2>2, <3>1, NumIsType DEF NumType
  <2> QED
    BY <2>1, <2>2
<1>3. ListNumbers(synopsis, to_get) = Numbers(low, high, high)
  BY DEF ListNumbers
<1> HIDE DEF low, high
<1>4. high + 2 < Word
  BY <1>1, SynopsisConstants, Tree
<1> QED
  BY <1>1, <1>2, <1>3, <1>4, NumbersType

LEMMA ExtendedType ==
    ASSUME NEW synopsis \in Summaries, NEW to_get \in Lists, to_get # <<>>
    PROVE  Extended(synopsis, to_get) \in Summaries
<1> DEFINE nums == ListNumbers(synopsis, to_get)
           len == Len(nums)
           F == [p \in Summaries \X (1 .. len) |-> AddStep(to_get, p[1], nums[p[2]])]
<1>0. nums \in Seq(Nat)
  BY ListNumbersType
<1> HIDE DEF nums
<1>1. len \in Nat /\ DOMAIN nums = 1 .. len
  BY <1>0
<1>2. \A ids \in Summaries, i \in 1 .. len :
         AddStep(to_get, ids, nums[i]) \in Summaries /\ F[<<ids, i>>] = AddStep(to_get, ids, nums[i])
  <2> TAKE ids \in Summaries, i \in 1 .. len
  <2>1. \A x : At(to_get, x) \in Ids
    BY DEF At, Ids, Lists
  <2>2. AddStep(to_get, ids, nums[i]) \in Summaries
    BY <2>1 DEF AddStep, Summaries
  <2> QED
    BY <2>2
<1> HIDE DEF F
<1> DEFINE Eq(g) == g = [s \in SUBSET (1 .. len) |->
                           IF s = {} THEN synopsis ELSE AddStep(to_get, g[s \ {Max(s)}], nums[Max(s)])]
<1>3. \E g : Eq(g)
  <2>1. PICK G : FoldSolves(G, F, Summaries, synopsis, len)
    BY <1>1, <1>2, FoldSolution
  <2>2. G \in [SUBSET (1 .. len) -> Summaries]
    BY <2>1 DEF FoldSolves
  <2>3. ASSUME NEW s \in SUBSET (1 .. len)
        PROVE  G[s] = IF s = {} THEN synopsis ELSE AddStep(to_get, G[s \ {Max(s)}], nums[Max(s)])
    <3>1. CASE s # {}
      <4>1. Max(s) \in 1 .. len /\ G[s \ {Max(s)}] \in Summaries
        BY <1>1, <2>2, <3>1, MaxUpTo
      <4> QED
        BY <1>2, <2>1, <3>1, <4>1 DEF FoldSolves
    <3> QED
      BY <2>1, <3>1 DEF FoldSolves
  <2>4. Eq(G)
    BY <2>2, <2>3
  <2> QED
    BY <2>4
<1> DEFINE g == CHOOSE g : Eq(g)
<1>4. Extended(synopsis, to_get) = g[1 .. len]
  BY <1>1 DEF Extended, FoldLeft, MapThenFoldSet, AddStep, ListNumbers, nums
<1>5. Eq(g)
  BY <1>3
<1> HIDE DEF g
<1>6. g[{}] \in Summaries
  BY <1>5
<1>7. ASSUME NEW k \in 1 .. len, g[1 .. k - 1] \in Summaries PROVE g[1 .. k] \in Summaries
  <2>1. 1 .. k \in SUBSET (1 .. len) /\ 1 .. k # {} /\ Max(1 .. k) = k /\ (1 .. k) \ {k} = 1 .. k - 1
    BY <1>1, Prefix
  <2>2. g[1 .. k] = AddStep(to_get, g[1 .. k - 1], nums[k])
    BY ONLY <1>5, <2>1
  <2> QED
    BY <1>2, <1>7, <2>2
<1> HIDE DEF Eq
<1>8. g[1 .. len] \in Summaries
  BY <1>1, <1>6, <1>7, FoldStays
<1> QED
  BY <1>4, <1>8

LEMMA SynopsisType ==
    ASSUME NEW c \in ChainType, NEW ref \in Blocks \cup {Zero}, NEW to_get \in Lists
    PROVE  create_blockchain_synopsis(c, ref, to_get) \in Summaries
<1> DEFINE synopsis == get_blockchain_synopsis(c, ref, Len(to_get))
<1>1. synopsis \in Summaries
  BY ListShort, BlockSynopsisType, Tree
<1>2. CASE to_get = <<>>
  BY <1>1, <1>2 DEF create_blockchain_synopsis, Extended
<1>3. CASE to_get # <<>>
  BY <1>1, <1>3, ExtendedType DEF create_blockchain_synopsis
<1> QED
  BY <1>2, <1>3

(* The answer to a synopsis is a part of the chain. *)
LEMMA ReplyType ==
    ASSUME NEW c \in ChainType, NEW synopsis \in Summaries
    PROVE  /\ get_block_ids(c, synopsis).ids \in Seq(Blocks)
           /\ get_block_ids(c, synopsis).remaining \in Nat
<1> DEFINE way  == ChainTo(c.head)
           last == IF synopsis = <<>> THEN Zero ELSE LastKnown(c, synopsis)
           from == Max({1, NumOf(last)})
           upto == Min({Len(way), from + Limit - 1})
<1>1. way \in Seq(Blocks) /\ Len(way) \in Nat
  BY ChainToType DEF ChainType, Numbered
<1>2. last \in Blocks \cup {Zero, Garbage}
  <2> DEFINE shared == {i \in DOMAIN synopsis :
                 synopsis[i] = Zero \/ (is_known_block(c, synopsis[i]) /\ is_included_block(c, synopsis[i]))}
  <2>1. CASE synopsis # <<>> /\ shared # {}
    <3>1. Len(synopsis) \in Nat /\ shared \in SUBSET (1 .. Len(synopsis))
      BY DEF Summaries
    <3>2. Max(shared) \in shared
      <4> HIDE DEF shared
      <4> QED
        BY <2>1, <3>1, MaxUpTo
    <3>3. synopsis[Max(shared)] \in Blocks \cup {Zero}
      BY <3>2 DEF is_known_block, ChainType
    <3> QED
      BY <2>1, <3>3 DEF LastKnown
  <2>2. CASE ~ (synopsis # <<>> /\ shared # {})
    BY <2>2 DEF LastKnown
  <2> QED
    BY <2>1, <2>2
<1>3. get_block_ids(c, synopsis) =
         IF way = <<>> \/ last = Garbage THEN [ids |-> <<>>, remaining |-> 0]
         ELSE [ids |-> SubSeq(way, from, upto), remaining |-> Len(way) - upto]
  BY DEF get_block_ids
<1> HIDE DEF way, last
<1>4. CASE way = <<>> \/ last = Garbage
  BY <1>3, <1>4
<1>5. CASE way # <<>> /\ last # Garbage
  <2>1. NumOf(last) \in Nat
    BY <1>2, <1>5, NumIsType DEF NumType
  <2>2. from \in Nat /\ from >= 1
    BY <2>1, MaxOfTwo
  <2> HIDE DEF from
  <2>3. upto \in Nat /\ upto <= Len(way) /\ (upto < from - 1 => upto = Len(way))
    BY <1>1, <2>2, MinOfTwo, SynopsisConstants
  <2> HIDE DEF upto
  <2>4. SubSeq(way, from, upto) \in Seq(Blocks)
    BY <1>1, <2>2, <2>3
  <2>5. get_block_ids(c, synopsis) = [ids |-> SubSeq(way, from, upto), remaining |-> Len(way) - upto]
    BY <1>3, <1>5
  <2> QED
    BY <1>1, <2>3, <2>4, <2>5
<1> QED
  BY <1>4, <1>5

-----------------------------------------------------------------------------
(* Types of the state *)

FiniteBlocks == {S \in SUBSET Blocks : IsFiniteSet(S)}
Jobs == [id : Blocks, result : {"none", "accepted", "rejected"}]

(* What one peer may be asked for at a time, and what the chain is given. *)
Few    == {S \in SUBSET Blocks : IsFiniteSet(S) /\ Cardinality(S) <= MaxPerPeer}
Queues == {h \in Seq(Jobs) : Len(h) <= MaxHandled}

PeerType ==
    [state : {"none", "handshaking", "active", "closing"}, we_need : BOOLEAN, they_need : BOOLEAN,
     to_get : Lists, being : SUBSET Blocks, unfetched : Nat, seen : Blocks \cup {Zero},
     asked : Seq(Summaries), sync_req : Few, item_req : FiniteBlocks, inhibit : BOOLEAN,
     adv_us : SUBSET Blocks, adv_peer : SUBSET Blocks]

NodeType ==
    [active : SUBSET Blocks, received : Seq(Blocks), handling : Queues, accepted : SUBSET Blocks,
     suspended : BOOLEAN, fetch : BOOLEAN, backlog : BOOLEAN, fetch_items : BOOLEAN,
     items : FiniteBlocks, inventory : FiniteBlocks]

Messages ==
         [type : {"fetch_ids"}, synopsis : Summaries]
    \cup [type : {"ids"}, ids : Seq(Blocks), remaining : Nat]
    \cup [type : {"fetch_items"}, ids : {l \in Seq(Blocks) : l # <<>>}]
    \cup [type : {"block"}, id : Blocks]
    \cup [type : {"inventory"}, ids : FiniteBlocks]

StateType(n) == [peer : [Peers(n) -> PeerType], node : NodeType, sent : [Peers(n) -> Seq(Messages)]]

LEMMA WindowConstants == MaxPerPeer \in Nat /\ MaxPerPeer >= 1 /\ MaxHandled \in Nat /\ MaxHandled >= 1
BY NetAssumption

LEMMA FewLess ==
    ASSUME NEW S \in Few
    PROVE  S \in SUBSET Blocks /\ {} \in Few /\ \A b : S \ {b} \in Few
<1>1. S \in SUBSET Blocks /\ IsFiniteSet(S) /\ Cardinality(S) <= MaxPerPeer /\ Cardinality(S) \in Nat
  BY FS_CardinalityType DEF Few
<1>2. ASSUME NEW b PROVE S \ {b} \in Few
  <2>1. IsFiniteSet(S \ {b}) /\ Cardinality(S \ {b}) \in Nat /\ Cardinality(S \ {b}) <= Cardinality(S)
    BY <1>1, FS_Subset, FS_CardinalityType
  <2> QED
    BY <1>1, <2>1, WindowConstants DEF Few
<1>3. {} \in Few
  BY FS_EmptySet, WindowConstants DEF Few
<1> QED
  BY <1>1, <1>2, <1>3

(* The requests in a state of a node: active names what the peers have     *)
(* been asked for, and no two peers have been asked for the same block.    *)
Requests(n, q, a) ==
    /\ a = UNION {q[p].sync_req : p \in Peers(n)}
    /\ \A p, r \in Peers(n) : p # r => q[p].sync_req \cap q[r].sync_req = {}

NetState(n) == {s \in StateType(n) : Requests(n, s.peer, s.node.active)}

(* A step that leaves the requests alone. *)
LEMMA Kept ==
    ASSUME NEW n, NEW s \in NetState(n), NEW t \in StateType(n), t.node.active = s.node.active,
           \A p \in Peers(n) : t.peer[p].sync_req = s.peer[p].sync_req
    PROVE  t \in NetState(n)
BY DEF NetState, Requests

LEMMA StateFields ==
    ASSUME NEW n, NEW s \in NetState(n)
    PROVE  /\ s \in StateType(n) /\ s.node \in NodeType /\ s.peer \in [Peers(n) -> PeerType]
           /\ s.sent \in [Peers(n) -> Seq(Messages)]
           /\ \A p \in Peers(n) : s.peer[p] \in PeerType /\ s.sent[p] \in Seq(Messages)
BY DEF NetState, StateType

LEMMA MakeState ==
    ASSUME NEW n, NEW a \in [Peers(n) -> PeerType], NEW b \in NodeType, NEW c \in [Peers(n) -> Seq(Messages)]
    PROVE  [peer |-> a, node |-> b, sent |-> c] \in StateType(n)
BY DEF StateType

LEMMA SeenType ==
    ASSUME NEW x \in PeerType, NEW b \in Blocks
    PROVE  [x EXCEPT !.seen = b] \in PeerType /\ [x EXCEPT !.seen = b].sync_req = x.sync_req
BY DEF PeerType

LEMMA ItemType ==
    ASSUME NEW x \in PeerType, NEW S, x.item_req \cup S \in FiniteBlocks
    PROVE  [x EXCEPT !.item_req = @ \cup S] \in PeerType /\ [x EXCEPT !.item_req = @ \cup S].sync_req = x.sync_req
BY DEF PeerType

(* The record of a peer changes. *)
LEMMA SetPeer ==
    ASSUME NEW n, NEW s \in NetState(n), NEW p \in Peers(n), NEW q \in PeerType,
           q.sync_req = s.peer[p].sync_req, NEW t, t = [s EXCEPT !.peer[p] = q]
    PROVE  t \in NetState(n) /\ t.peer[p] = q /\ t.node = s.node
<1> DEFINE u == [s.peer EXCEPT ![p] = q]
<1>f. s \in StateType(n) /\ s.node \in NodeType /\ s.peer \in [Peers(n) -> PeerType] /\ s.sent \in [Peers(n) -> Seq(Messages)]
  BY StateFields
<1>u. u \in [Peers(n) -> PeerType]
  BY <1>f
<1>t. t = [peer |-> u, node |-> s.node, sent |-> s.sent]
  BY <1>f DEF StateType
<1>1. t \in StateType(n) /\ t.node = s.node /\ t.peer = [s.peer EXCEPT ![p] = q]
  <2>1. t.peer = u /\ t.node = s.node /\ t.sent = s.sent
    BY <1>t
  <2> HIDE DEF u
  <2>2. t \in StateType(n)
    BY ONLY <1>f, <1>u, <1>t, MakeState
  <2> QED
    BY <2>1, <2>2 DEF u
<1>2. \A r \in Peers(n) : t.peer[r].sync_req = s.peer[r].sync_req
  BY <1>1, StateFields
<1>3. t \in NetState(n)
  BY <1>1, <1>2, Kept
<1> QED
  BY <1>1, <1>3, StateFields

LEMMA SetNode ==
    ASSUME NEW n, NEW s \in NetState(n), NEW v \in NodeType,
           v.active = s.node.active, NEW t, t = [s EXCEPT !.node = v]
    PROVE  t \in NetState(n) /\ t.peer = s.peer /\ t.node = v
<1>1. t \in StateType(n) /\ t.peer = s.peer /\ t.node = v
  BY StateFields DEF StateType
<1>2. t \in NetState(n)
  BY <1>1, Kept
<1> QED
  BY <1>1, <1>2

LEMMA SendType ==
    ASSUME NEW n, NEW s \in NetState(n), NEW p \in Peers(n), NEW m \in Messages
    PROVE  /\ Send(s, p, m) \in NetState(n)
           /\ Send(s, p, m).peer = s.peer /\ Send(s, p, m).node = s.node
<1> DEFINE t == Send(s, p, m)
<1>1. t \in StateType(n) /\ t.peer = s.peer /\ t.node = s.node
  <2>1. Append(s.sent[p], m) \in Seq(Messages)
    BY StateFields
  <2>2. s \in StateType(n)
    BY StateFields
  <2> QED
    BY <2>1, <2>2 DEF StateType, Send
<1> HIDE DEF t
<1>2. t \in NetState(n)
  BY <1>1, Kept
<1> QED
  BY <1>1, <1>2 DEF t

LEMMA DisconnectType ==
    ASSUME NEW n, NEW s \in NetState(n), NEW p \in Peers(n)
    PROVE  disconnect_from_peer(s, p) \in NetState(n)
<1> DEFINE q == [s.peer[p] EXCEPT !.state = "closing"]
<1>0. s.peer[p] \in PeerType
  BY StateFields
<1>1. q \in PeerType /\ q.sync_req = s.peer[p].sync_req
  BY <1>0 DEF PeerType
<1>2. disconnect_from_peer(s, p) = [s EXCEPT !.peer[p] = q]
  BY DEF disconnect_from_peer
<1> HIDE DEF q
<1> QED
  BY <1>1, <1>2, SetPeer

LEMMA AskType ==
    ASSUME NEW n, NEW s \in NetState(n), NEW p \in Peers(n), NEW synopsis \in Summaries
    PROVE  Ask(s, p, synopsis) \in NetState(n)
<1> DEFINE q == [s.peer[p] EXCEPT !.asked = <<synopsis>>]
           t == [s EXCEPT !.peer[p] = q]
           m == [type |-> "fetch_ids", synopsis |-> synopsis]
<1>0. s.peer[p] \in PeerType
  BY StateFields
<1>1. q \in PeerType /\ q.sync_req = s.peer[p].sync_req
  <2>1. <<synopsis>> \in Seq(Summaries)
    OBVIOUS
  <2> QED
    BY <1>0, <2>1 DEF PeerType
<1>2. Ask(s, p, synopsis) = Send(t, p, m)
  BY DEF Ask
<1>3. m \in Messages
  BY DEF Messages
<1> HIDE DEF q, m
<1>4. t \in NetState(n)
  BY <1>1, SetPeer
<1> HIDE DEF t
<1> QED
  BY <1>2, <1>3, <1>4, SendType

LEMMA FetchNextType ==
    ASSUME NEW n, NEW s \in NetState(n), NEW p \in Peers(n), chain'[n] \in ChainType
    PROVE  fetch_next_batch_of_item_ids_from_peer(n, s, p) \in NetState(n)
<1> DEFINE q == s.peer[p]
<1>1. q.seen \in Blocks \cup {Zero} /\ q.to_get \in Lists
  BY StateFields DEF PeerType
<1>2. create_blockchain_synopsis(chain'[n], q.seen, q.to_get) \in Summaries
  <2> HIDE DEF q
  <2> QED
    BY <1>1, SynopsisType
<1>3. disconnect_from_peer(s, p) \in NetState(n)
  BY DisconnectType
<1>4. Ask(s, p, create_blockchain_synopsis(chain'[n], q.seen, q.to_get)) \in NetState(n)
  <2> HIDE DEF q
  <2> QED
    BY <1>2, AskType
<1> QED
  BY <1>3, <1>4 DEF fetch_next_batch_of_item_ids_from_peer

LEMMA StartType ==
    ASSUME NEW n, NEW s \in NetState(n), NEW p \in Peers(n), chain'[n] \in ChainType
    PROVE  start_synchronizing_with_peer(n, s, p) \in NetState(n)
<1> DEFINE q == [s.peer[p] EXCEPT !.to_get = <<>>, !.unfetched = 0, !.we_need = TRUE,
                                  !.seen = Zero, !.inhibit = FALSE]
           t == [s EXCEPT !.peer[p] = q]
<1>1. q \in PeerType /\ q.sync_req = s.peer[p].sync_req
  <2>1. <<>> \in Lists
    BY DEF Lists
  <2>2. s.peer[p] \in PeerType
    BY StateFields
  <2> QED
    BY <2>1, <2>2 DEF PeerType
<1>2. start_synchronizing_with_peer(n, s, p) = fetch_next_batch_of_item_ids_from_peer(n, t, p)
  BY DEF start_synchronizing_with_peer
<1> HIDE DEF q
<1>3. t \in NetState(n)
  BY <1>1, SetPeer
<1> HIDE DEF t
<1> QED
  BY <1>2, <1>3, FetchNextType

-----------------------------------------------------------------------------
(* Lists of ids *)

LEMMA MinFound ==
    ASSUME NEW S \in SUBSET Nat, S # {}
    PROVE  Min(S) \in S
<1>1. \E x \in S : \A y \in S : x <= y
  BY Least
<1> QED
  BY <1>1 DEF Min

LEMMA Joined ==
    ASSUME NEW X, NEW s \in Seq(X), NEW t \in Seq(X)
    PROVE  s \o t \in Seq(X) /\ Len(s \o t) = Len(s) + Len(t)
OBVIOUS

LEMMA ListTail ==
    ASSUME NEW l \in Lists, l # <<>>
    PROVE  Tail(l) \in Lists
<1>1. /\ l \in Seq(Blocks) /\ Len(l) \in Nat /\ Len(l) >= 1
      /\ \A i \in 1 .. Len(l) : NumOf(l[i]) = NumOf(l[1]) + i - 1
  BY DEF Lists
<1>2. NumOf(l[1]) \in Nat
  BY <1>1, NumIsType DEF NumType
<1> DEFINE t == Tail(l)
<1>3. t \in Seq(Blocks) /\ Len(t) = Len(l) - 1 /\ \A i \in 1 .. Len(t) : t[i] = l[i + 1]
  BY <1>1
<1> HIDE DEF t
<1>4. ASSUME NEW i \in 1 .. Len(t) PROVE NumOf(t[i]) = NumOf(t[1]) + i - 1
  <2>1. i + 1 \in 1 .. Len(l) /\ 2 \in 1 .. Len(l) /\ 1 \in 1 .. Len(t)
    BY <1>1, <1>3
  <2>2. NumOf(l[i + 1]) = NumOf(l[1]) + i /\ NumOf(l[2]) = NumOf(l[1]) + 1
    BY <1>1, <1>2, <2>1
  <2> QED
    BY <1>2, <1>3, <2>1, <2>2
<1>5. t \in Lists
  BY <1>3, <1>4 DEF Lists
<1> QED
  BY <1>5 DEF t

LEMMA ListRest ==
    ASSUME NEW l \in Lists, NEW k \in 0 .. Len(l)
    PROVE  SubSeq(l, k + 1, Len(l)) \in Lists
<1>1. /\ l \in Seq(Blocks) /\ Len(l) \in Nat
      /\ \A i \in 1 .. Len(l) : NumOf(l[i]) = NumOf(l[1]) + i - 1
  BY DEF Lists
<1> DEFINE t == SubSeq(l, k + 1, Len(l))
<1>2. t \in Seq(Blocks) /\ Len(t) = Len(l) - k /\ \A i \in 1 .. Len(l) - k : t[i] = l[i + k]
  <2>1. k + 1 \in Nat \ {0} /\ k + 1 <= Len(l) + 1 /\ Len(l) - (k + 1) + 1 = Len(l) - k
    BY <1>1
  <2>2. \A i \in 1 .. Len(l) - k : i + (k + 1) - 1 = i + k
    BY <1>1
  <2>3. t \in Seq(Blocks) /\ Len(t) = Len(l) - (k + 1) + 1 /\ \A i \in 1 .. Len(l) - (k + 1) + 1 : t[i] = l[i + (k + 1) - 1]
    <3> DEFINE j == k + 1
    <3>1. j \in Nat \ {0} /\ j <= Len(l) + 1 /\ Len(l) <= Len(l)
      BY <1>1, <2>1
    <3>2. t = SubSeq(l, j, Len(l))
      OBVIOUS
    <3> HIDE DEF j, t
    <3>3. t \in Seq(Blocks) /\ Len(t) = Len(l) - j + 1 /\ \A i \in 1 .. Len(l) - j + 1 : t[i] = l[i + j - 1]
      BY <1>1, <3>1, <3>2, Slice
    <3> QED
      BY <3>3 DEF j
  <2> HIDE DEF t
  <2> QED
    BY <2>1, <2>2, <2>3
<1> HIDE DEF t
<1>3. ASSUME NEW i \in 1 .. Len(t) PROVE NumOf(t[i]) = NumOf(t[1]) + i - 1
  <2>1. i + k \in 1 .. Len(l) /\ 1 + k \in 1 .. Len(l) /\ 1 \in 1 .. Len(l) - k /\ i \in 1 .. Len(l) - k
    BY <1>1, <1>2
  <2>2. NumOf(l[1]) \in Nat
    BY <1>1, <2>1, NumIsType DEF NumType
  <2>3. NumOf(l[i + k]) = NumOf(l[1]) + (i + k) - 1 /\ NumOf(l[1 + k]) = NumOf(l[1]) + (1 + k) - 1
    BY <1>1, <2>1
  <2>4. t[i] = l[i + k] /\ t[1] = l[1 + k]
    BY <1>2, <2>1
  <2> QED
    BY <2>2, <2>3, <2>4
<1>4. t \in Lists
  BY <1>2, <1>3 DEF Lists
<1> QED
  BY <1>4 DEF t

(* A list cut back to where another one begins goes on with that one. *)
LEMMA ListJoin ==
    ASSUME NEW l \in Lists, NEW m \in Lists, m # <<>>, NEW k \in 1 .. Len(l), l[k] = m[1]
    PROVE  SubSeq(l, 1, k - 1) \o m \in Lists
<1>1. /\ l \in Seq(Blocks) /\ Len(l) \in Nat /\ m \in Seq(Blocks) /\ Len(m) \in Nat /\ Len(m) >= 1
      /\ \A i \in 1 .. Len(l) : NumOf(l[i]) = NumOf(l[1]) + i - 1
      /\ \A i \in 1 .. Len(m) : NumOf(m[i]) = NumOf(m[1]) + i - 1
  BY DEF Lists
<1>2. NumOf(l[1]) \in Nat /\ NumOf(m[1]) \in Nat /\ NumOf(m[1]) = NumOf(l[1]) + k - 1
  BY <1>1, NumIsType DEF NumType
<1> DEFINE h == SubSeq(l, 1, k - 1)
           t == h \o m
<1>3. h \in Seq(Blocks) /\ Len(h) = k - 1 /\ \A i \in 1 .. k - 1 : h[i] = l[i]
  BY <1>1
<1> HIDE DEF h
<1>4. /\ t \in Seq(Blocks) /\ Len(t) = k - 1 + Len(m)
      /\ \A i \in 1 .. k - 1 : t[i] = l[i]
      /\ \A i \in 1 .. Len(m) : t[k - 1 + i] = m[i]
  <2>1. t \in Seq(Blocks) /\ Len(t) = Len(h) + Len(m)
    BY <1>1, <1>3, Joined
  <2>2. ASSUME NEW i \in 1 .. k - 1 PROVE t[i] = l[i]
    BY <1>1, <1>3
  <2>3. ASSUME NEW i \in 1 .. Len(m) PROVE t[k - 1 + i] = m[i]
    <3>1. k - 1 + i \in 1 .. Len(h) + Len(m) /\ k - 1 + i > Len(h) /\ k - 1 + i - Len(h) = i
      BY <1>1, <1>3
    <3> QED
      BY <1>1, <1>3, <3>1
  <2> QED
    BY <1>3, <2>1, <2>2, <2>3
<1> HIDE DEF t
<1>5. t[1] = l[1]
  <2>1. CASE k = 1
    <3>1. k - 1 + 1 = 1 /\ 1 \in 1 .. Len(m)
      BY <1>1, <2>1
    <3> QED
      BY <1>4, <2>1, <3>1
  <2>2. CASE k # 1
    BY <1>4, <2>2
  <2> QED
    BY <2>1, <2>2
<1>6. ASSUME NEW i \in 1 .. Len(t) PROVE NumOf(t[i]) = NumOf(t[1]) + i - 1
  <2>1. CASE i <= k - 1
    BY <1>1, <1>4, <1>5, <2>1
  <2>2. CASE i > k - 1
    <3> DEFINE j == i - k + 1
    <3>1. j \in 1 .. Len(m) /\ k - 1 + j = i
      BY <1>1, <1>4, <2>2
    <3> HIDE DEF j
    <3>2. t[i] = m[j] /\ NumOf(m[j]) = NumOf(m[1]) + j - 1
      BY <1>1, <1>4, <3>1
    <3> QED
      BY <1>2, <1>5, <3>1, <3>2
  <2> QED
    BY <2>1, <2>2
<1>7. t \in Lists
  BY <1>4, <1>6 DEF Lists
<1> QED
  BY <1>7 DEF t, h

LEMMA MergedType ==
    ASSUME NEW n, NEW p, peer[n][p] \in PeerType, NEW ids \in Lists
    PROVE  Merged(n, p, ids) \in PeerType /\ Merged(n, p, ids).sync_req = peer[n][p].sync_req
<1> DEFINE q == peer[n][p]
           skip == SkipKnown(n, p, ids)
           at == SelectLastInSeq(q.to_get, LAMBDA b : b = ids[1])
           a == [q EXCEPT !.to_get = SubSeq(ids, skip + 1, Len(ids)), !.seen = IF skip = 0 THEN @ ELSE ids[skip]]
           b == [q EXCEPT !.to_get = Tail(ids), !.seen = ids[1]]
           c == [q EXCEPT !.to_get = SubSeq(@, 1, at - 1) \o ids]
<1>1. ids \in Seq(Blocks) /\ Len(ids) \in Nat /\ (ids # <<>> => ids[1] \in Blocks)
  BY DEF Lists
<1>2. skip \in 0 .. Len(ids)
  <2> DEFINE I == {i \in 1 .. Len(ids) : ~ is_known_block(chain[n], ids[i])}
             first == SelectInSeq(ids, LAMBDA x : ~ is_known_block(chain[n], x))
  <2>1. first \in 0 .. Len(ids)
    <3>1. first = IF I # {} THEN Min(I) ELSE 0
      BY DEF SelectInSeq
    <3>2. I \in SUBSET Nat /\ I \in SUBSET (1 .. Len(ids))
      OBVIOUS
    <3> HIDE DEF I, first
    <3>3. I # {} => Min(I) \in I
      BY <3>2, MinFound
    <3> QED
      <4>1. CASE I = {}
        BY <1>1, <3>1, <4>1
      <4>2. CASE I # {}
        <5>1. Min(I) \in 1 .. Len(ids)
          BY <3>2, <3>3, <4>2
        <5> QED
          BY <1>1, <3>1, <4>2, <5>1
      <4> QED
        BY <4>1, <4>2
  <2>2. skip = 0 \/ skip = Len(ids) \/ (first # 0 /\ skip = first - 1)
    BY DEF SkipKnown
  <2> HIDE DEF first, skip
  <2> QED
    BY <1>1, <2>1, <2>2
<1>3. at = 0 \/ (at \in 1 .. Len(q.to_get) /\ q.to_get[at] = ids[1])
  <2> DEFINE I == {i \in 1 .. Len(q.to_get) : q.to_get[i] = ids[1]}
  <2>1. at = IF I # {} THEN Max(I) ELSE 0
    BY DEF SelectLastInSeq
  <2>2. Len(q.to_get) \in Nat /\ I \in SUBSET (0 .. Len(q.to_get))
    BY DEF PeerType, Lists
  <2>3. I # {} => Max(I) \in I
    <3> HIDE DEF I, q
    <3> QED
      BY <2>2, MaxFound
  <2> HIDE DEF at
  <2> QED
    BY <2>1, <2>3
<1>4. Merged(n, p, ids) = IF ids = <<>> THEN q ELSE IF q.to_get = <<>> THEN a ELSE IF at = 0 THEN b ELSE c
  BY DEF Merged
<1>5. q \in PeerType /\ q.to_get \in Lists
  BY DEF PeerType
<1> HIDE DEF q, skip, at
<1>6. a \in PeerType /\ a.sync_req = q.sync_req
  <2>1. SubSeq(ids, skip + 1, Len(ids)) \in Lists
    BY <1>2, ListRest
  <2>2. skip # 0 => ids[skip] \in Blocks
    BY <1>1, <1>2
  <2>3. (IF skip = 0 THEN q.seen ELSE ids[skip]) \in Blocks \cup {Zero}
    BY <2>2, <1>5 DEF PeerType
  <2> QED
    BY <1>5, <2>1, <2>3 DEF PeerType
<1>7. ids # <<>> => b \in PeerType /\ b.sync_req = q.sync_req
  <2>1. ids # <<>> => Tail(ids) \in Lists /\ ids[1] \in Blocks
    BY <1>1, ListTail
  <2> QED
    BY <1>5, <2>1 DEF PeerType
<1>8. ids # <<>> /\ at # 0 => c \in PeerType /\ c.sync_req = q.sync_req
  <2>1. ids # <<>> /\ at # 0 => SubSeq(q.to_get, 1, at - 1) \o ids \in Lists
    BY <1>3, <1>5, ListJoin
  <2> QED
    BY <1>5, <2>1 DEF PeerType
<1> HIDE DEF a, b, c
<1>9. Merged(n, p, ids) \in PeerType /\ Merged(n, p, ids).sync_req = q.sync_req
  <2>1. CASE ids = <<>>
    BY <1>4, <1>5, <2>1
  <2>2. CASE ids # <<>> /\ q.to_get = <<>>
    BY <1>4, <1>6, <2>2
  <2>3. CASE ids # <<>> /\ q.to_get # <<>> /\ at = 0
    BY <1>4, <1>7, <2>3
  <2>4. CASE ids # <<>> /\ q.to_get # <<>> /\ at # 0
    BY <1>4, <1>8, <2>4
  <2> QED
    BY <2>1, <2>2, <2>3, <2>4
<1> QED
  BY <1>9 DEF q

-----------------------------------------------------------------------------
(* The invariant *)

NetTypeOK ==
    /\ chain \in [Nodes -> ChainType]
    /\ DOMAIN peer = Nodes /\ \A n \in Nodes : peer[n] \in [Peers(n) -> PeerType]
    /\ node \in [Nodes -> NodeType]
    /\ DOMAIN wire = Nodes /\ \A n \in Nodes : wire[n] \in [Peers(n) -> Seq(Messages)]
    /\ drops \in Nat

(* Every node keeps its requests apart: no block is asked of two peers. *)
OneRequest == \A n \in Nodes : Requests(n, peer[n], node[n].active)

NetInv == NetTypeOK /\ OneRequest

LEMMA NetConstants ==
    /\ IsFiniteSet(Nodes) /\ Start \in [Nodes -> Blocks \cup {Zero}] /\ Base \in [Nodes -> Nat]
    /\ Makes \in [Nodes -> SUBSET Blocks]
BY NetAssumption

LEMMA PeersFact ==
    ASSUME NEW n \in Nodes, NEW p \in Peers(n)
    PROVE  p \in Nodes /\ n \in Peers(p) /\ p # n
BY NetAssumption DEF Peers

LEMMA StateIn ==
    ASSUME NetInv, NEW n \in Nodes
    PROVE  /\ State(n) \in NetState(n) /\ State(n).peer = peer[n] /\ State(n).node = node[n]
           /\ chain[n] \in ChainType /\ peer[n] \in [Peers(n) -> PeerType] /\ node[n] \in NodeType
           /\ \A p \in Peers(n) : peer[n][p] \in PeerType
<1>1. peer[n] \in [Peers(n) -> PeerType] /\ node[n] \in NodeType /\ chain[n] \in ChainType
  BY DEF NetInv, NetTypeOK
<1>2. Requests(n, peer[n], node[n].active)
  BY DEF NetInv, OneRequest
<1>3. <<>> \in Seq(Messages)
  OBVIOUS
<1>4. State(n) \in StateType(n) /\ State(n).peer = peer[n] /\ State(n).node = node[n]
  BY <1>1, <1>3 DEF State, StateType
<1> QED
  BY <1>1, <1>2, <1>4 DEF NetState

LEMMA BecomesInv ==
    ASSUME NetInv, NEW n \in Nodes, NEW s \in NetState(n), Becomes(n, s)
    PROVE  /\ DOMAIN peer' = Nodes /\ node' \in [Nodes -> NodeType]
           /\ \A m \in Nodes : peer'[m] \in [Peers(m) -> PeerType]
           /\ OneRequest'
<1>1. /\ DOMAIN peer = Nodes /\ node \in [Nodes -> NodeType]
      /\ \A m \in Nodes : peer[m] \in [Peers(m) -> PeerType]
  BY DEF NetInv, NetTypeOK
<1>2. s.peer \in [Peers(n) -> PeerType] /\ s.node \in NodeType /\ Requests(n, s.peer, s.node.active)
  BY DEF NetState, StateType
<1>3. peer' = [peer EXCEPT ![n] = s.peer] /\ node' = [node EXCEPT ![n] = s.node]
  BY DEF Becomes
<1>4. /\ peer'[n] = s.peer /\ node'[n] = s.node
      /\ \A m \in Nodes : m # n => peer'[m] = peer[m] /\ node'[m] = node[m]
  BY <1>1, <1>3
<1>5. OneRequest'
  <2>1. \A m \in Nodes : Requests(m, peer[m], node[m].active)
    BY DEF NetInv, OneRequest
  <2>2. \A m \in Nodes : Requests(m, peer'[m], node'[m].active)
    BY <1>2, <1>4, <2>1
  <2> QED
    BY <2>2 DEF OneRequest, Requests, Peers
<1>6. \A m \in Nodes : peer'[m] \in [Peers(m) -> PeerType]
  BY <1>1, <1>2, <1>4
<1> QED
  BY <1>1, <1>2, <1>3, <1>5, <1>6

LEMMA SendsType ==
    ASSUME NetInv, NEW n \in Nodes, NEW s \in NetState(n), Sends(n, s)
    PROVE  DOMAIN wire' = Nodes /\ \A m \in Nodes : wire'[m] \in [Peers(m) -> Seq(Messages)]
<1>1. DOMAIN wire = Nodes /\ \A m \in Nodes : wire[m] \in [Peers(m) -> Seq(Messages)]
  BY DEF NetInv, NetTypeOK
<1>2. s.sent \in [Peers(n) -> Seq(Messages)]
  BY StateFields
<1> DEFINE w == [p \in Peers(n) |-> wire[n][p] \o s.sent[p]]
<1>3. w \in [Peers(n) -> Seq(Messages)]
  <2>1. \A p \in Peers(n) : wire[n][p] \o s.sent[p] \in Seq(Messages)
    BY <1>1, <1>2, Joined
  <2> QED
    BY <2>1
<1>4. wire' = [wire EXCEPT ![n] = w]
  BY DEF Sends
<1> HIDE DEF w
<1> QED
  BY <1>1, <1>3, <1>4

LEMMA RunsInv ==
    ASSUME NetInv, NEW n \in Nodes, NEW s \in NetState(n), Runs(n, s),
           chain' \in [Nodes -> ChainType], drops' = drops
    PROVE  NetInv'
<1>1. Becomes(n, s) /\ Sends(n, s) /\ drops \in Nat
  BY DEF Runs, NetInv, NetTypeOK
<1>2. /\ DOMAIN peer' = Nodes /\ node' \in [Nodes -> NodeType]
      /\ \A m \in Nodes : peer'[m] \in [Peers(m) -> PeerType]
      /\ OneRequest'
  BY <1>1, BecomesInv
<1>3. DOMAIN wire' = Nodes /\ \A m \in Nodes : wire'[m] \in [Peers(m) -> Seq(Messages)]
  BY <1>1, SendsType
<1> QED
  BY <1>1, <1>2, <1>3 DEF NetInv, NetTypeOK, Peers

LEMMA ReceivesInv ==
    ASSUME NetInv, NEW n \in Nodes, NEW p \in Peers(n), wire[p][n] # <<>>,
           NEW s \in NetState(n), Receives(n, p, s), chain' \in [Nodes -> ChainType], drops' = drops
    PROVE  NetInv'
<1>1. Becomes(n, s) /\ drops \in Nat
  BY DEF Receives, NetInv, NetTypeOK
<1>2. /\ DOMAIN peer' = Nodes /\ node' \in [Nodes -> NodeType]
      /\ \A m \in Nodes : peer'[m] \in [Peers(m) -> PeerType]
      /\ OneRequest'
  BY <1>1, BecomesInv
<1>3. DOMAIN wire' = Nodes /\ \A m \in Nodes : wire'[m] \in [Peers(m) -> Seq(Messages)]
  <2>1. DOMAIN wire = Nodes /\ \A m \in Nodes : wire[m] \in [Peers(m) -> Seq(Messages)]
    BY DEF NetInv, NetTypeOK
  <2>2. s.sent \in [Peers(n) -> Seq(Messages)]
    BY StateFields
  <2> DEFINE w == [r \in Peers(n) |-> wire[n][r] \o s.sent[r]]
             v == [wire[p] EXCEPT ![n] = Tail(@)]
  <2>3. w \in [Peers(n) -> Seq(Messages)]
    <3>1. \A r \in Peers(n) : wire[n][r] \o s.sent[r] \in Seq(Messages)
      BY <2>1, <2>2, Joined
    <3> QED
      BY <3>1
  <2>4. p \in Nodes /\ n \in Peers(p) /\ p # n
    BY PeersFact
  <2>5. v \in [Peers(p) -> Seq(Messages)]
    <3>1. Tail(wire[p][n]) \in Seq(Messages)
      BY <2>1, <2>4
    <3> QED
      BY <2>1, <2>4, <3>1
  <2>6. wire' = [[wire EXCEPT ![n] = w] EXCEPT ![p] = v]
    BY <2>1, <2>4 DEF Receives
  <2> HIDE DEF w, v
  <2> QED
    BY <2>1, <2>3, <2>4, <2>5, <2>6
<1> QED
  BY <1>1, <1>2, <1>3 DEF NetInv, NetTypeOK, Peers

LEMMA PushType ==
    ASSUME NEW c \in ChainType, NEW b \in Blocks
    PROVE  push_block(c, b) \in ChainType
BY DEF push_block, ChainType

LEMMA MessageIn ==
    ASSUME NetInv, NEW n \in Nodes, NEW p \in Peers(n), NEW type, Next_message(n, p, type)
    PROVE  wire[p][n] # <<>> /\ Head(wire[p][n]) \in Messages /\ Head(wire[p][n]).type = type
<1>1. p \in Nodes /\ n \in Peers(p)
  BY PeersFact
<1>2. wire[p][n] \in Seq(Messages)
  BY <1>1 DEF NetInv, NetTypeOK
<1> QED
  BY <1>2 DEF Next_message

LEMMA NewPeerType == NewPeer \in PeerType /\ NewPeer.sync_req = {}
<1>1. <<>> \in Lists /\ {} \in FiniteBlocks /\ {} \in Few /\ <<>> \in Seq(Summaries)
  BY FS_EmptySet, WindowConstants DEF Lists, FiniteBlocks, Few
<1> QED
  BY <1>1 DEF NewPeer, PeerType

LEMMA InitInv == Init => NetInv
<1> SUFFICES ASSUME Init PROVE NetInv
  OBVIOUS
<1>1. chain \in [Nodes -> ChainType]
  <2>1. \A n \in Nodes : Range(ChainTo(Start[n])) \in SUBSET Blocks /\ Start[n] \in Blocks \cup {Zero} /\ Base[n] \in Nat
    <3> TAKE n \in Nodes
    <3>1. Start[n] \in Blocks \cup {Zero} /\ Base[n] \in Nat
      BY NetConstants
    <3>2. ChainTo(Start[n]) \in Seq(Blocks)
      BY <3>1, ChainToType DEF Numbered
    <3> QED
      BY <3>1, <3>2 DEF Range
  <2> QED
    BY <2>1 DEF Init, ChainType
<1>2. NewPeer \in PeerType /\ NewPeer.sync_req = {}
  BY NewPeerType
<1>3. NewNode \in NodeType /\ NewNode.active = {}
  <2>1. {} \in FiniteBlocks /\ <<>> \in Seq(Blocks) /\ <<>> \in Queues
    BY FS_EmptySet, WindowConstants DEF FiniteBlocks, Queues
  <2> QED
    BY <2>1 DEF NewNode, NodeType
<1>4. peer = [n \in Nodes |-> [p \in Peers(n) |-> NewPeer]] /\ node = [n \in Nodes |-> NewNode]
  BY DEF Init
<1>5. OneRequest
  <2> SUFFICES ASSUME NEW n \in Nodes PROVE Requests(n, peer[n], node[n].active)
    BY DEF OneRequest
  <2>1. node[n].active = {} /\ \A p \in Peers(n) : peer[n][p].sync_req = {}
    BY <1>2, <1>3, <1>4
  <2> QED
    BY <2>1 DEF Requests
<1>6. DOMAIN peer = Nodes /\ node \in [Nodes -> NodeType] /\ \A n \in Nodes : peer[n] \in [Peers(n) -> PeerType]
  BY <1>2, <1>3, <1>4
<1>7. DOMAIN wire = Nodes /\ (\A n \in Nodes : wire[n] \in [Peers(n) -> Seq(Messages)]) /\ drops \in Nat
  <2>1. <<>> \in Seq(Messages)
    OBVIOUS
  <2> QED
    BY <2>1 DEF Init
<1> QED
  BY <1>1, <1>5, <1>6, <1>7 DEF NetInv, NetTypeOK

-----------------------------------------------------------------------------
(* Steps that leave the requests alone *)

LEMMA SameChain == ASSUME NetInv, UNCHANGED chain PROVE chain' \in [Nodes -> ChainType] /\ \A n \in Nodes : chain'[n] \in ChainType
BY DEF NetInv, NetTypeOK

LEMMA PushedChain ==
    ASSUME NetInv, NEW n \in Nodes, NEW b \in Blocks, chain' = [chain EXCEPT ![n] = push_block(@, b)]
    PROVE  chain' \in [Nodes -> ChainType] /\ \A m \in Nodes : chain'[m] \in ChainType
<1>1. chain \in [Nodes -> ChainType]
  BY DEF NetInv, NetTypeOK
<1>2. push_block(chain[n], b) \in ChainType
  BY <1>1, PushType
<1> QED
  BY <1>1, <1>2

LEMMA FiniteMore ==
    ASSUME NEW S \in FiniteBlocks
    PROVE  /\ S \in SUBSET Blocks /\ IsFiniteSet(S)
           /\ \A b \in Blocks : S \cup {b} \in FiniteBlocks
           /\ \A T \in SUBSET S : T \in FiniteBlocks
           /\ \A T \in FiniteBlocks : S \cup T \in FiniteBlocks
<1>1. S \in SUBSET Blocks /\ IsFiniteSet(S)
  BY DEF FiniteBlocks
<1>2. \A b \in Blocks : S \cup {b} \in FiniteBlocks
  BY <1>1, FS_AddElement DEF FiniteBlocks
<1>3. \A T \in SUBSET S : T \in FiniteBlocks
  BY <1>1, FS_Subset DEF FiniteBlocks
<1>4. \A T \in FiniteBlocks : S \cup T \in FiniteBlocks
  BY <1>1, FS_Union DEF FiniteBlocks
<1> QED
  BY <1>1, <1>2, <1>3, <1>4

LEMMA BroadcastType ==
    ASSUME NEW n, NEW s \in NetState(n), NEW b \in Blocks
    PROVE  broadcast(s, b) \in NetState(n)
<1> DEFINE v == [s.node EXCEPT !.accepted = @ \cup {b}, !.inventory = @ \cup {b}]
<1>1. s.node \in NodeType
  BY StateFields
<1>2. s.node.inventory \cup {b} \in FiniteBlocks
  BY <1>1, FiniteMore DEF NodeType
<1>3. v \in NodeType /\ v.active = s.node.active
  BY <1>1, <1>2 DEF NodeType
<1>4. broadcast(s, b) = [s EXCEPT !.node = v]
  BY DEF broadcast
<1> HIDE DEF v
<1> QED
  BY <1>3, <1>4, SetNode

LEMMA ProduceInv ==
    ASSUME NetInv, NEW n \in Nodes, ProduceBlock(n)
    PROVE  NetInv'
<1>1. PICK b \in Makes[n] : /\ chain' = [chain EXCEPT ![n] = push_block(@, b)]
                            /\ Runs(n, broadcast(State(n), b)) /\ drops' = drops
  BY DEF ProduceBlock
<1>2. b \in Blocks
  BY NetConstants
<1>3. broadcast(State(n), b) \in NetState(n)
  BY <1>2, StateIn, BroadcastType
<1>4. chain' \in [Nodes -> ChainType]
  BY <1>1, <1>2, PushedChain
<1> QED
  BY <1>1, <1>3, <1>4, RunsInv

LEMMA ModeType ==
    ASSUME NEW n, NEW s \in NetState(n), NEW p \in Peers(n)
    PROVE  /\ [s EXCEPT !.peer[p].state = "active"] \in NetState(n)
           /\ \A x \in BOOLEAN : [s EXCEPT !.peer[p].they_need = x] \in NetState(n)
<1>1. s.peer[p] \in PeerType
  BY StateFields
<1>2. [s EXCEPT !.peer[p].state = "active"] \in NetState(n)
  <2> DEFINE q == [s.peer[p] EXCEPT !.state = "active"]
             t == [s EXCEPT !.peer[p] = q]
  <2>1. q \in PeerType /\ q.sync_req = s.peer[p].sync_req
    BY <1>1 DEF PeerType
  <2>2. [s EXCEPT !.peer[p].state = "active"] = t
    OBVIOUS
  <2> HIDE DEF q
  <2>3. t \in NetState(n)
    BY <2>1, SetPeer
  <2> QED
    BY <2>2, <2>3
<1>3. ASSUME NEW x \in BOOLEAN PROVE [s EXCEPT !.peer[p].they_need = x] \in NetState(n)
  <2> DEFINE q == [s.peer[p] EXCEPT !.they_need = x]
             t == [s EXCEPT !.peer[p] = q]
  <2>1. q \in PeerType /\ q.sync_req = s.peer[p].sync_req
    BY <1>1 DEF PeerType
  <2>2. [s EXCEPT !.peer[p].they_need = x] = t
    OBVIOUS
  <2> HIDE DEF q
  <2>3. t \in NetState(n)
    BY <2>1, SetPeer
  <2> QED
    BY <2>2, <2>3
<1> QED
  BY <1>2, <1>3

LEMMA ConnectInv ==
    ASSUME NetInv, NEW n \in Nodes, NEW p \in Peers(n), Connect(n, p)
    PROVE  NetInv'
<1> DEFINE s0 == [State(n) EXCEPT !.peer[p].state = "active"]
           s == start_synchronizing_with_peer(n, s0, p)
           q == [peer[p] EXCEPT ![n].state = "handshaking"]
<1>0. p \in Nodes /\ n \in Peers(p) /\ p # n
  BY PeersFact
<1>1. chain' \in [Nodes -> ChainType] /\ chain'[n] \in ChainType
  BY SameChain DEF Connect
<1>2. s \in NetState(n)
  <2>1. s0 \in NetState(n)
    BY StateIn, ModeType
  <2> HIDE DEF s0
  <2> QED
    BY <1>1, <2>1, StartType
<1>3. /\ peer' = [peer EXCEPT ![n] = s.peer, ![p] = [@ EXCEPT ![n].state = "handshaking"]]
      /\ node' = [node EXCEPT ![n] = s.node] /\ Sends(n, s) /\ drops' = drops
  BY DEF Connect
<1> HIDE DEF s
<1>4. /\ DOMAIN peer = Nodes /\ node \in [Nodes -> NodeType] /\ drops \in Nat
      /\ \A m \in Nodes : peer[m] \in [Peers(m) -> PeerType]
  BY DEF NetInv, NetTypeOK
<1>5. /\ DOMAIN peer' = Nodes /\ peer'[n] = s.peer /\ peer'[p] = q
      /\ \A m \in Nodes : m # n /\ m # p => peer'[m] = peer[m]
  BY <1>0, <1>3, <1>4
<1>6. q \in [Peers(p) -> PeerType] /\ \A r \in Peers(p) : q[r].sync_req = peer[p][r].sync_req
  <2>1. \A r \in Peers(p) : peer[p][r] \in PeerType
    BY <1>0, <1>4
  <2>2. [peer[p][n] EXCEPT !.state = "handshaking"] \in PeerType
    BY <1>0, <2>1 DEF PeerType
  <2>3. [peer[p][n] EXCEPT !.state = "handshaking"].sync_req = peer[p][n].sync_req
    BY <1>0, <2>1 DEF PeerType
  <2>4. q = [peer[p] EXCEPT ![n] = [peer[p][n] EXCEPT !.state = "handshaking"]]
    OBVIOUS
  <2> HIDE DEF q
  <2> QED
    BY <1>0, <1>4, <2>2, <2>3, <2>4
<1> HIDE DEF q
<1>7. s.peer \in [Peers(n) -> PeerType] /\ s.node \in NodeType /\ Requests(n, s.peer, s.node.active)
  BY <1>2 DEF NetState, StateType
<1>8. node' \in [Nodes -> NodeType] /\ node'[n] = s.node /\ \A m \in Nodes : m # n => node'[m] = node[m]
  BY <1>3, <1>4, <1>7
<1>9. \A m \in Nodes : peer'[m] \in [Peers(m) -> PeerType]
  BY <1>4, <1>5, <1>6, <1>7
<1>10. OneRequest'
  <2>1. \A m \in Nodes : Requests(m, peer[m], node[m].active)
    BY DEF NetInv, OneRequest
  <2>2. Requests(p, q, node[p].active)
    BY <1>0, <1>6, <2>1 DEF Requests
  <2>3. \A m \in Nodes : Requests(m, peer'[m], node'[m].active)
    BY <1>0, <1>5, <1>7, <1>8, <2>1, <2>2
  <2> QED
    BY <2>3 DEF OneRequest, Requests, Peers
<1>11. DOMAIN wire' = Nodes /\ \A m \in Nodes : wire'[m] \in [Peers(m) -> Seq(Messages)]
  BY <1>2, <1>3, SendsType
<1> QED
  BY <1>1, <1>3, <1>4, <1>5, <1>8, <1>9, <1>10, <1>11 DEF NetInv, NetTypeOK, Peers

-----------------------------------------------------------------------------
(* A lost connection *)

(* What the peer was asked for is no longer requested; nobody else was     *)
(* asked for it.                                                           *)
LEMMA ClosedType ==
    ASSUME NetInv, NEW n \in Nodes, NEW p \in Peers(n), NEW q, q = [peer[n] EXCEPT ![p] = NewPeer]
    PROVE  /\ on_connection_closed(n, p) \in NodeType /\ q \in [Peers(n) -> PeerType]
           /\ Requests(n, q, on_connection_closed(n, p).active)
<1> DEFINE c == on_connection_closed(n, p)
           more == {b \in peer[n][p].item_req : \E r \in Active(n) \ {p} : b \in peer[n][r].adv_us}
<1>1. peer[n] \in [Peers(n) -> PeerType] /\ node[n] \in NodeType /\ peer[n][p] \in PeerType
  BY StateIn
<1>2. node[n].items \cup more \in FiniteBlocks
  <2>1. node[n].items \in FiniteBlocks /\ peer[n][p].item_req \in FiniteBlocks
    BY <1>1 DEF NodeType, PeerType
  <2>2. more \in SUBSET peer[n][p].item_req
    OBVIOUS
  <2> HIDE DEF more
  <2>3. more \in FiniteBlocks
    BY <2>1, <2>2, FiniteMore
  <2> QED
    BY <2>1, <2>3, FiniteMore
<1>3. node[n].active \ peer[n][p].sync_req \in SUBSET Blocks
  BY <1>1 DEF NodeType
<1>4. c = [node[n] EXCEPT !.active = @ \ peer[n][p].sync_req,
                          !.fetch  = @ \/ peer[n][p].sync_req # {},
                          !.items  = @ \cup more,
                          !.fetch_items = @ \/ peer[n][p].item_req # {}]
  BY DEF on_connection_closed
<1> HIDE DEF more, c
<1>5. c \in NodeType /\ c.active = node[n].active \ peer[n][p].sync_req
  BY <1>1, <1>2, <1>3, <1>4 DEF NodeType
<1>6. q \in [Peers(n) -> PeerType] /\ q[p].sync_req = {} /\ \A r \in Peers(n) : r # p => q[r] = peer[n][r]
  BY <1>1, NewPeerType
<1>7. Requests(n, peer[n], node[n].active)
  BY DEF NetInv, OneRequest
<1>8. Requests(n, q, c.active)
  <2>1. \A r, t \in Peers(n) : r # t => q[r].sync_req \cap q[t].sync_req = {}
    BY <1>6, <1>7 DEF Requests
  <2>2. c.active = UNION {q[r].sync_req : r \in Peers(n)}
    BY <1>5, <1>6, <1>7 DEF Requests
  <2> QED
    BY <2>1, <2>2 DEF Requests
<1> QED
  BY <1>5, <1>6, <1>8 DEF c

LEMMA DropInv ==
    ASSUME NetInv, NEW n \in Nodes, NEW p \in Peers(n), Drop(n, p)
    PROVE  NetInv'
<1> DEFINE q == [peer[n] EXCEPT ![p] = NewPeer]
           r == [peer[p] EXCEPT ![n] = NewPeer]
<1>0. p \in Nodes /\ n \in Peers(p) /\ p # n
  BY PeersFact
<1>1. chain' \in [Nodes -> ChainType]
  BY SameChain DEF Drop
<1>2. /\ DOMAIN peer = Nodes /\ node \in [Nodes -> NodeType] /\ drops \in Nat
      /\ \A m \in Nodes : peer[m] \in [Peers(m) -> PeerType]
      /\ DOMAIN wire = Nodes /\ \A m \in Nodes : wire[m] \in [Peers(m) -> Seq(Messages)]
  BY DEF NetInv, NetTypeOK
<1>3. drops' \in Nat
  BY <1>2 DEF Drop
<1>4. /\ DOMAIN peer' = Nodes /\ peer'[n] = q /\ peer'[p] = r
      /\ \A m \in Nodes : m # n /\ m # p => peer'[m] = peer[m]
  <2>1. peer' = [[peer EXCEPT ![n] = q] EXCEPT ![p] = r]
    BY <1>0, <1>2 DEF Drop
  <2> HIDE DEF q, r
  <2> QED
    BY <1>0, <1>2, <2>1
<1>5. /\ on_connection_closed(n, p) \in NodeType /\ q \in [Peers(n) -> PeerType]
      /\ Requests(n, q, on_connection_closed(n, p).active)
  BY ClosedType
<1>6. /\ on_connection_closed(p, n) \in NodeType /\ r \in [Peers(p) -> PeerType]
      /\ Requests(p, r, on_connection_closed(p, n).active)
  BY <1>0, ClosedType
<1> HIDE DEF q, r
<1>7. /\ node' \in [Nodes -> NodeType]
      /\ node'[n] = on_connection_closed(n, p) /\ node'[p] = on_connection_closed(p, n)
      /\ \A m \in Nodes : m # n /\ m # p => node'[m] = node[m]
  <2>1. node' = [node EXCEPT ![n] = on_connection_closed(n, p), ![p] = on_connection_closed(p, n)]
    BY DEF Drop
  <2> QED
    BY <1>0, <1>2, <1>5, <1>6, <2>1
<1>8. OneRequest'
  <2>1. \A m \in Nodes : Requests(m, peer[m], node[m].active)
    BY DEF NetInv, OneRequest
  <2>2. \A m \in Nodes : Requests(m, peer'[m], node'[m].active)
    BY <1>4, <1>5, <1>6, <1>7, <2>1
  <2> QED
    BY <2>2 DEF OneRequest, Requests, Peers
<1>9. \A m \in Nodes : peer'[m] \in [Peers(m) -> PeerType]
  BY <1>2, <1>4, <1>5, <1>6
<1>10. DOMAIN wire' = Nodes /\ \A m \in Nodes : wire'[m] \in [Peers(m) -> Seq(Messages)]
  <2> DEFINE v == [wire[n] EXCEPT ![p] = <<>>]
             w == [wire[p] EXCEPT ![n] = <<>>]
  <2>0. <<>> \in Seq(Messages)
    OBVIOUS
  <2>1. v \in [Peers(n) -> Seq(Messages)] /\ w \in [Peers(p) -> Seq(Messages)]
    BY <1>0, <1>2, <2>0
  <2>2. wire' = [[wire EXCEPT ![n] = v] EXCEPT ![p] = w]
    BY <1>0, <1>2 DEF Drop
  <2> HIDE DEF v, w
  <2> QED
    BY <1>0, <1>2, <2>1, <2>2
<1> QED
  BY <1>1, <1>3, <1>4, <1>7, <1>8, <1>9, <1>10 DEF NetInv, NetTypeOK, Peers

-----------------------------------------------------------------------------
(* The exchange of ids *)

LEMMA MessageFields ==
    ASSUME NEW m \in Messages
    PROVE  /\ m.type = "fetch_ids" => m.synopsis \in Summaries
           /\ m.type = "ids" => m.ids \in Seq(Blocks) /\ m.remaining \in Nat
           /\ m.type = "fetch_items" => m.ids \in Seq(Blocks) /\ m.ids # <<>>
           /\ m.type = "block" => m.id \in Blocks
           /\ m.type = "inventory" => m.ids \in FiniteBlocks
BY DEF Messages

LEMMA AfterReplyType ==
    ASSUME NEW n, NEW s \in NetState(n), NEW p \in Peers(n), NEW useless \in BOOLEAN, chain'[n] \in ChainType
    PROVE  AfterReply(n, s, p, useless) \in NetState(n)
<1> DEFINE t == [s EXCEPT !.peer[p].state = "active"]
<1>1. disconnect_from_peer(s, p) \in NetState(n)
  BY DisconnectType
<1>2. t \in NetState(n)
  BY ModeType
<1>3. AfterReply(n, s, p, useless) =
         IF useless THEN disconnect_from_peer(s, p)
         ELSE IF s.peer[p].state = "handshaking" THEN start_synchronizing_with_peer(n, t, p) ELSE s
  BY DEF AfterReply
<1> HIDE DEF t
<1>4. start_synchronizing_with_peer(n, t, p) \in NetState(n)
  BY <1>2, StartType
<1> QED
  BY <1>1, <1>3, <1>4

LEMMA FetchIdsInv ==
    ASSUME NetInv, NEW n \in Nodes, NEW p \in Peers(n), on_fetch_blockchain_item_ids_message(n, p)
    PROVE  NetInv'
<1> DEFINE synopsis == Head(wire[p][n]).synopsis
           reply    == get_block_ids(chain[n], synopsis)
           insync   == InSync(synopsis, reply.ids)
           unknown  == /\ ~ peer[n][p].we_need /\ synopsis # <<>>
                       /\ ~ is_known_block(chain[n], Last(synopsis))
           useless  == reply.ids # <<>> /\ insync /\ peer[n][p].inhibit
           s00 == [State(n) EXCEPT !.peer[p].they_need = ~ insync]
           s0 == Restart(n, s00, p, unknown)
           m  == [type |-> "ids", ids |-> reply.ids, remaining |-> reply.remaining]
           s1 == Send(s0, p, m)
           s  == AfterReply(n, s1, p, useless)
<1>1. Next_message(n, p, "fetch_ids") /\ UNCHANGED <<chain, drops>> /\ Receives(n, p, s)
  BY DEF on_fetch_blockchain_item_ids_message
<1>2. wire[p][n] # <<>> /\ synopsis \in Summaries
  BY <1>1, MessageIn, MessageFields
<1>3. State(n) \in NetState(n) /\ chain[n] \in ChainType /\ peer[n][p] \in PeerType
  BY StateIn
<1>4. chain' \in [Nodes -> ChainType] /\ chain'[n] \in ChainType
  BY <1>1, SameChain
<1>5. m \in Messages
  <2>1. reply.ids \in Seq(Blocks) /\ reply.remaining \in Nat
    <3> HIDE DEF synopsis
    <3> QED
      BY <1>2, <1>3, ReplyType
  <2> QED
    BY <2>1 DEF Messages
<1>6. insync \in BOOLEAN
  BY DEF InSync
<1>7. useless \in BOOLEAN
  OBVIOUS
<1> HIDE DEF m, reply, synopsis, insync, useless
<1>8. s00 \in NetState(n)
  <2>1. (~ insync) \in BOOLEAN
    OBVIOUS
  <2> QED
    BY <1>3, <2>1, ModeType
<1> HIDE DEF s00, unknown
<1>9. s0 \in NetState(n)
  <2>1. start_synchronizing_with_peer(n, s00, p) \in NetState(n)
    BY <1>4, <1>8, StartType
  <2> QED
    BY <1>8, <2>1 DEF Restart
<1> HIDE DEF s0
<1>10. s1 \in NetState(n)
  BY <1>5, <1>9, SendType
<1> HIDE DEF s1
<1>11. s \in NetState(n)
  BY <1>4, <1>7, <1>10, AfterReplyType
<1> HIDE DEF s
<1> QED
  BY <1>1, <1>2, <1>4, <1>11, ReceivesInv

LEMMA ReplyLists ==
    ASSUME NEW synopsis, NEW ids \in Seq(Blocks), ValidReply(synopsis, ids)
    PROVE  ids \in Lists
BY DEF ValidReply, Lists

LEMMA TriggerType ==
    ASSUME NEW n, NEW s \in NetState(n)
    PROVE  trigger_fetch_sync_items_loop(s) \in NetState(n)
<1> DEFINE v == [s.node EXCEPT !.fetch = TRUE]
<1>1. s.node \in NodeType
  BY StateFields
<1>2. v \in NodeType /\ v.active = s.node.active
  BY <1>1 DEF NodeType
<1>3. trigger_fetch_sync_items_loop(s) = [s EXCEPT !.node = v]
  BY DEF trigger_fetch_sync_items_loop
<1> HIDE DEF v
<1> QED
  BY <1>2, <1>3, SetNode

LEMMA IdsInv ==
    ASSUME NetInv, NEW n \in Nodes, NEW p \in Peers(n), on_blockchain_item_ids_inventory_message(n, p)
    PROVE  NetInv'
<1> DEFINE m  == Head(wire[p][n])
           q  == peer[n][p]
           upToDate == /\ m.remaining = 0 /\ q.to_get = <<>> /\ q.unfetched = 0
                       /\ m.ids = <<>> \/ (Len(m.ids) = 1 /\ is_known_block(chain[n], m.ids[1]))
           r  == [Merged(n, p, m.ids) EXCEPT !.asked = <<>>, !.unfetched = m.remaining]
           s1 == [State(n) EXCEPT !.peer[p] = r]
           s2 == [State(n) EXCEPT !.peer[p].asked = <<>>, !.peer[p].we_need = FALSE]
           more == IF m.remaining # 0 THEN Len(r.to_get) > MinPrefetch ELSE r.to_get # <<>>
           valid == ValidReply(q.asked[1], m.ids)
           s  == CASE q.asked = <<>> -> State(n)
                   [] q.asked # <<>> /\ ~ valid -> disconnect_from_peer(State(n), p)
                   [] q.asked # <<>> /\ valid /\ upToDate -> s2
                   [] OTHER ->
                        IF more
                        THEN trigger_fetch_sync_items_loop(s1)
                        ELSE fetch_next_batch_of_item_ids_from_peer(n, s1, p)
<1>1. Next_message(n, p, "ids") /\ UNCHANGED <<chain, drops>> /\ Receives(n, p, s)
  BY DEF on_blockchain_item_ids_inventory_message
<1>2. wire[p][n] # <<>> /\ m.ids \in Seq(Blocks) /\ m.remaining \in Nat
  BY <1>1, MessageIn, MessageFields
<1>3. State(n) \in NetState(n) /\ chain[n] \in ChainType /\ q \in PeerType /\ State(n).peer[p] = q
  BY StateIn
<1>4. chain' \in [Nodes -> ChainType] /\ chain'[n] \in ChainType
  BY <1>1, SameChain
<1>5. <<>> \in Seq(Summaries)
  OBVIOUS
<1>6. disconnect_from_peer(State(n), p) \in NetState(n)
  BY <1>3, DisconnectType
<1>7. s2 \in NetState(n)
  <2> DEFINE x == [State(n).peer[p] EXCEPT !.asked = <<>>, !.we_need = FALSE]
  <2>1. x \in PeerType /\ x.sync_req = State(n).peer[p].sync_req
    BY <1>3, <1>5 DEF PeerType
  <2>2. s2 = [State(n) EXCEPT !.peer[p] = x]
    OBVIOUS
  <2> HIDE DEF x, s2
  <2> QED
    BY <1>3, <2>1, <2>2, SetPeer
<1>8. ASSUME valid PROVE s1 \in NetState(n)
  <2>1. m.ids \in Lists
    BY <1>2, <1>8, ReplyLists
  <2>2. Merged(n, p, m.ids) \in PeerType /\ Merged(n, p, m.ids).sync_req = q.sync_req
    <3> HIDE DEF m
    <3> QED
      BY <1>3, <2>1, MergedType
  <2>3. r \in PeerType /\ r.sync_req = q.sync_req
    <3> HIDE DEF m, q
    <3> QED
      BY <1>2, <1>5, <2>2 DEF PeerType
  <2> HIDE DEF r
  <2> QED
    BY <1>3, <2>3, SetPeer
<1> HIDE DEF s1, s2, more, valid, upToDate
<1>9. s \in NetState(n)
  <2>1. CASE q.asked = <<>>
    BY <1>3, <2>1
  <2>2. CASE q.asked # <<>> /\ ~ valid
    BY <1>6, <2>2
  <2>3. CASE q.asked # <<>> /\ valid /\ upToDate
    BY <1>7, <2>3
  <2>4. CASE q.asked # <<>> /\ valid /\ ~ upToDate
    <3>1. trigger_fetch_sync_items_loop(s1) \in NetState(n)
      BY <1>8, <2>4, TriggerType
    <3>2. fetch_next_batch_of_item_ids_from_peer(n, s1, p) \in NetState(n)
      BY <1>4, <1>8, <2>4, FetchNextType
    <3> QED
      BY <2>4, <3>1, <3>2
  <2> QED
    BY <2>1, <2>2, <2>3, <2>4
<1> HIDE DEF s
<1> QED
  BY <1>1, <1>2, <1>4, <1>9, ReceivesInv

-----------------------------------------------------------------------------
(* Blocks on request and blocks as they are produced *)

(* The records of all peers change. *)
LEMMA SetPeers ==
    ASSUME NEW n, NEW s \in NetState(n), NEW q \in [Peers(n) -> PeerType],
           \A r \in Peers(n) : q[r].sync_req = s.peer[r].sync_req, NEW t, t = [s EXCEPT !.peer = q]
    PROVE  t \in NetState(n) /\ t.peer = q /\ t.node = s.node
<1>1. t \in StateType(n) /\ t.node = s.node /\ t.peer = q
  BY StateFields DEF StateType
<1>2. t \in NetState(n)
  BY <1>1, Kept
<1> QED
  BY <1>1, <1>2

LEMMA FetchItemsInv ==
    ASSUME NetInv, NEW n \in Nodes, NEW p \in Peers(n), on_fetch_items_message(n, p)
    PROVE  NetInv'
<1> DEFINE ids == Head(wire[p][n]).ids
           out == [i \in DOMAIN ids |-> [type |-> "block", id |-> ids[i]]]
           s == [State(n) EXCEPT !.peer[p].seen = Last(ids), !.sent[p] = out]
           t == IF \A i \in DOMAIN ids : is_known_block(chain[n], ids[i]) THEN s ELSE disconnect_from_peer(State(n), p)
<1>1. Next_message(n, p, "fetch_items") /\ UNCHANGED <<chain, drops>> /\ Receives(n, p, t)
  BY DEF on_fetch_items_message
<1>2. wire[p][n] # <<>> /\ ids \in Seq(Blocks) /\ ids # <<>>
  BY <1>1, MessageIn, MessageFields
<1>3. State(n) \in NetState(n)
  BY StateIn
<1>4. chain' \in [Nodes -> ChainType]
  BY <1>1, SameChain
<1>5. Last(ids) \in Blocks
  <2> HIDE DEF ids
  <2> QED
    BY <1>2 DEF Last
<1>6. out \in Seq(Messages)
  <2> HIDE DEF ids
  <2>1. \A i \in DOMAIN ids : [type |-> "block", id |-> ids[i]] \in Messages
    BY <1>2 DEF Messages
  <2>2. DOMAIN ids = 1 .. Len(ids) /\ Len(ids) \in Nat
    BY <1>2
  <2> QED
    BY <2>1, <2>2
<1> HIDE DEF ids, out
<1>7. s \in NetState(n)
  <2> DEFINE x == [State(n).peer[p] EXCEPT !.seen = Last(ids)]
             u == [State(n) EXCEPT !.peer[p] = x]
  <2>1. x \in PeerType /\ x.sync_req = State(n).peer[p].sync_req
    <3>1. State(n).peer[p] \in PeerType
      BY <1>3, StateFields
    <3> QED
      BY <1>5, <3>1 DEF PeerType
  <2>2. s = [u EXCEPT !.sent[p] = out]
    OBVIOUS
  <2> HIDE DEF x
  <2>3. u \in NetState(n)
    BY <1>3, <2>1, SetPeer
  <2> HIDE DEF u, s
  <2>4. s \in StateType(n) /\ s.peer = u.peer /\ s.node = u.node
    <3>1. u \in StateType(n)
      BY <2>3, StateFields
    <3> QED
      BY <1>6, <2>2, <3>1 DEF StateType
  <2> QED
    BY <2>3, <2>4, Kept
<1>8. t \in NetState(n)
  BY <1>3, <1>7, DisconnectType
<1> HIDE DEF t
<1> QED
  BY <1>1, <1>2, <1>4, <1>8, ReceivesInv

LEMMA NormalType ==
    ASSUME NetInv, NEW n \in Nodes, NEW p \in Peers(n), NEW s \in NetState(n), NEW b \in Blocks, chain'[n] \in ChainType
    PROVE  process_block_during_normal_operation(n, s, p, b) \in NetState(n)
<1> DEFINE offered == {r \in Active(n) : s.peer[r].to_get # <<>> /\ Head(s.peer[r].to_get) = b}
           q == [r \in Peers(n) |-> IF r \in Active(n) /\ b \in s.peer[r].adv_us THEN [s.peer[r] EXCEPT !.seen = b] ELSE s.peer[r]]
           c == [r \in Peers(n) |-> IF r \in offered \cup {p} THEN [s.peer[r] EXCEPT !.state = "closing"] ELSE s.peer[r]]
           t == [s EXCEPT !.peer = q]
           u == [s EXCEPT !.peer = c]
<1>1. process_block_during_normal_operation(n, s, p, b) =
         IF b \notin node[n].accepted /\ unlinkable(chain[n], b)
         THEN start_synchronizing_with_peer(n, s, p)
         ELSE IF b \notin node[n].accepted /\ too_old(chain[n], b) THEN u ELSE broadcast(t, b)
  BY DEF process_block_during_normal_operation
<1>2. \A r \in Peers(n) : s.peer[r] \in PeerType
  BY StateFields
<1>3. q \in [Peers(n) -> PeerType] /\ \A r \in Peers(n) : q[r].sync_req = s.peer[r].sync_req
  <2>1. \A r \in Peers(n) : [s.peer[r] EXCEPT !.seen = b] \in PeerType /\ [s.peer[r] EXCEPT !.seen = b].sync_req = s.peer[r].sync_req
    BY <1>2, SeenType
  <2> QED
    BY <1>2, <2>1
<1>4. c \in [Peers(n) -> PeerType] /\ \A r \in Peers(n) : c[r].sync_req = s.peer[r].sync_req
  <2>1. \A r \in Peers(n) : [s.peer[r] EXCEPT !.state = "closing"] \in PeerType /\ [s.peer[r] EXCEPT !.state = "closing"].sync_req = s.peer[r].sync_req
    BY <1>2 DEF PeerType
  <2> HIDE DEF offered
  <2> QED
    BY <1>2, <2>1
<1> HIDE DEF q, c
<1>5. t \in NetState(n)
  BY <1>3, SetPeers
<1>6. u \in NetState(n)
  BY <1>4, SetPeers
<1> HIDE DEF t, u
<1>7. broadcast(t, b) \in NetState(n)
  BY <1>5, BroadcastType
<1>8. start_synchronizing_with_peer(n, s, p) \in NetState(n)
  BY StartType
<1> QED
  BY <1>1, <1>6, <1>7, <1>8

LEMMA FetchMoreType ==
    ASSUME NEW n, NEW s \in NetState(n), NEW p \in Peers(n)
    PROVE  FetchMore(s, p) \in NetState(n)
<1> DEFINE v == [s.node EXCEPT !.fetch_items = @ \/ ~ busy(s.peer[p])]
<1>1. s.node \in NodeType
  BY StateFields
<1>2. v \in NodeType /\ v.active = s.node.active
  BY <1>1 DEF NodeType
<1>3. FetchMore(s, p) = [s EXCEPT !.node = v]
  BY DEF FetchMore
<1> HIDE DEF v
<1> QED
  BY <1>2, <1>3, SetNode

(* A requested sync block arrives: it was requested from this peer alone. *)
LEMMA ArrivedType ==
    ASSUME NEW n, NEW s \in NetState(n), NEW p \in Peers(n), NEW b \in s.peer[p].sync_req, NEW t,
           t = [s EXCEPT !.peer[p].sync_req = @ \ {b}, !.node.active = @ \ {b},
                         !.node.received = <<b>> \o @, !.node.backlog = TRUE]
    PROVE  t \in NetState(n)
<1> DEFINE q == [s.peer[p] EXCEPT !.sync_req = @ \ {b}]
           v == [s.node EXCEPT !.active = @ \ {b}, !.received = <<b>> \o @, !.backlog = TRUE]
<1>1. s.peer[p] \in PeerType /\ s.node \in NodeType /\ s \in StateType(n)
  BY StateFields
<1>2. b \in Blocks /\ s.peer[p].sync_req \ {b} \in Few
  <2>1. s.peer[p].sync_req \in Few
    BY <1>1 DEF PeerType
  <2> QED
    BY <2>1, FewLess
<1>3. q \in PeerType /\ q.sync_req = s.peer[p].sync_req \ {b}
  BY <1>1, <1>2 DEF PeerType
<1>4. v \in NodeType /\ v.active = s.node.active \ {b}
  <2>1. <<b>> \o s.node.received \in Seq(Blocks)
    <3>1. s.node.received \in Seq(Blocks) /\ <<b>> \in Seq(Blocks)
      BY <1>1, <1>2 DEF NodeType
    <3> QED
      BY <3>1, Joined
  <2> QED
    BY <1>1, <2>1 DEF NodeType
<1>5. t = [s EXCEPT !.peer = [s.peer EXCEPT ![p] = q], !.node = v]
  BY <1>1 DEF StateType
<1> HIDE DEF q, v
<1>6. t \in StateType(n) /\ t.peer = [s.peer EXCEPT ![p] = q] /\ t.node = v
  <2>1. [s.peer EXCEPT ![p] = q] \in [Peers(n) -> PeerType]
    BY ONLY <1>1, <1>3 DEF StateType
  <2> QED
    BY ONLY <1>1, <1>4, <1>5, <2>1 DEF StateType
<1>7. t.peer[p].sync_req = s.peer[p].sync_req \ {b} /\ \A r \in Peers(n) : r # p => t.peer[r] = s.peer[r]
  <2>1. s.peer \in [Peers(n) -> PeerType]
    BY StateFields
  <2> QED
    BY <1>3, <1>6, <2>1
<1>8. Requests(n, s.peer, s.node.active)
  BY DEF NetState
<1>9. Requests(n, t.peer, t.node.active)
  <2>1. \A r \in Peers(n) : r # p => b \notin t.peer[r].sync_req
    BY <1>7, <1>8 DEF Requests
  <2>2. t.node.active = UNION {t.peer[r].sync_req : r \in Peers(n)}
    <3>1. s.node.active = UNION {s.peer[r].sync_req : r \in Peers(n)}
      BY <1>8 DEF Requests
    <3>2. ASSUME NEW x PROVE x \in t.node.active <=> \E r \in Peers(n) : x \in t.peer[r].sync_req
      <4>1. x \in t.node.active <=> x # b /\ \E r \in Peers(n) : x \in s.peer[r].sync_req
        BY ONLY <1>4, <1>6, <3>1
      <4> QED
        BY <1>7, <2>1, <4>1
    <3> QED
      BY <3>2
  <2>3. \A r, u \in Peers(n) : r # u => t.peer[r].sync_req \cap t.peer[u].sync_req = {}
    BY <1>7, <1>8 DEF Requests
  <2> QED
    BY <2>2, <2>3 DEF Requests
<1> QED
  BY <1>6, <1>9 DEF NetState

LEMMA BlockInv ==
    ASSUME NetInv, NEW n \in Nodes, NEW p \in Peers(n), process_block_message(n, p)
    PROVE  NetInv'
<1> DEFINE b == Head(wire[p][n]).id
           q == peer[n][p]
           normal == b \in q.item_req
           sync   == ~ normal /\ b \in q.sync_req
           s0 == [State(n) EXCEPT !.peer[p].item_req = @ \ {b}]
           s1 == process_block_during_normal_operation(n, s0, p, b)
           t1 == [State(n) EXCEPT !.peer[p].sync_req = @ \ {b}, !.node.active = @ \ {b},
                                  !.node.received = <<b>> \o @, !.node.backlog = TRUE]
           more == q.unfetched > 0 /\ Len(q.to_get) < MinPrefetch
           t2 == CASE busy(t1.peer[p]) -> t1
                   [] ~ busy(t1.peer[p]) /\ more -> fetch_next_batch_of_item_ids_from_peer(n, t1, p)
                   [] OTHER -> trigger_fetch_sync_items_loop(t1)
           s  == CASE normal -> FetchMore(s1, p) [] sync -> t2 [] OTHER -> disconnect_from_peer(State(n), p)
<1>1. /\ Next_message(n, p, "block") /\ drops' = drops /\ Receives(n, p, s)
      /\ chain' = IF normal /\ b \notin node[n].accepted /\ ~ Refused(chain[n], b)
                  THEN [chain EXCEPT ![n] = push_block(@, b)] ELSE chain
  BY DEF process_block_message
<1>2. wire[p][n] # <<>> /\ b \in Blocks
  BY <1>1, MessageIn, MessageFields
<1>3. State(n) \in NetState(n) /\ q \in PeerType /\ State(n).peer[p] = q /\ State(n).node = node[n]
  BY StateIn
<1>4. chain' \in [Nodes -> ChainType] /\ chain'[n] \in ChainType
  BY <1>1, <1>2, SameChain, PushedChain
<1> HIDE DEF b
<1>5. s1 \in NetState(n)
  <2>1. s0 \in NetState(n)
    <3> DEFINE x == [State(n).peer[p] EXCEPT !.item_req = @ \ {b}]
    <3>1. q.item_req \ {b} \in FiniteBlocks
      <4>1. q.item_req \in FiniteBlocks
        BY <1>3 DEF PeerType
      <4> QED
        BY <4>1, FiniteMore
    <3>2. x \in PeerType /\ x.sync_req = State(n).peer[p].sync_req
      BY <1>3, <3>1 DEF PeerType
    <3>3. s0 = [State(n) EXCEPT !.peer[p] = x]
      OBVIOUS
    <3> HIDE DEF x, s0
    <3> QED
      BY <1>3, <3>2, <3>3, SetPeer
  <2> HIDE DEF s0
  <2> QED
    BY <1>2, <1>4, <2>1, NormalType
<1>6. ASSUME sync PROVE t1 \in NetState(n)
  <2>1. b \in State(n).peer[p].sync_req
    BY <1>3, <1>6
  <2> QED
    BY <1>3, <2>1, ArrivedType
<1> HIDE DEF s1, t1, more
<1>7. ASSUME sync PROVE t2 \in NetState(n)
  <2>1. trigger_fetch_sync_items_loop(t1) \in NetState(n)
    BY <1>6, <1>7, TriggerType
  <2>2. fetch_next_batch_of_item_ids_from_peer(n, t1, p) \in NetState(n)
    BY <1>4, <1>6, <1>7, FetchNextType
  <2>3. CASE busy(t1.peer[p])
    BY <1>6, <1>7, <2>3
  <2>4. CASE ~ busy(t1.peer[p]) /\ more
    BY <2>2, <2>4
  <2>5. CASE ~ busy(t1.peer[p]) /\ ~ more
    BY <2>1, <2>5
  <2> QED
    BY <2>3, <2>4, <2>5
<1> HIDE DEF t2
<1>8. s \in NetState(n)
  <2>1. FetchMore(s1, p) \in NetState(n)
    BY <1>5, FetchMoreType
  <2>2. disconnect_from_peer(State(n), p) \in NetState(n)
    BY <1>3, DisconnectType
  <2>3. CASE normal
    BY <2>1, <2>3
  <2>4. CASE sync
    BY <1>7, <2>4
  <2>5. CASE ~ normal /\ ~ sync
    BY <2>2, <2>5
  <2> QED
    BY <2>3, <2>4, <2>5
<1> HIDE DEF s
<1> QED
  BY <1>1, <1>2, <1>4, <1>8, ReceivesInv

LEMMA InventoryInv ==
    ASSUME NetInv, NEW n \in Nodes, NEW p \in Peers(n), on_item_ids_inventory_message(n, p)
    PROVE  NetInv'
<1> DEFINE all == Head(wire[p][n]).ids
           ids == {b \in all : \A r \in Active(n) : b \notin peer[n][r].adv_peer}
           new == {b \in ids : \A r \in Active(n) : b \notin peer[n][r].item_req}
           s   == [State(n) EXCEPT !.peer[p].adv_us = @ \cup ids, !.node.items = @ \cup new,
                                   !.node.fetch_items = @ \/ new \ node[n].items # {}]
           x == [State(n).peer[p] EXCEPT !.adv_us = @ \cup ids]
           v == [State(n).node EXCEPT !.items = @ \cup new, !.fetch_items = @ \/ new \ node[n].items # {}]
           u == [State(n) EXCEPT !.peer[p] = x]
<1>1. Next_message(n, p, "inventory") /\ UNCHANGED <<chain, drops>> /\ Receives(n, p, s)
  BY DEF on_item_ids_inventory_message
<1>2. wire[p][n] # <<>> /\ all \in FiniteBlocks
  BY <1>1, MessageIn, MessageFields
<1>3. /\ State(n) \in NetState(n) /\ State(n).peer[p] \in PeerType /\ State(n).node \in NodeType
      /\ State(n).peer[p] = peer[n][p] /\ State(n).node = node[n]
  BY StateIn
<1>4. chain' \in [Nodes -> ChainType]
  BY <1>1, SameChain
<1>5. ids \in SUBSET Blocks /\ new \in FiniteBlocks
  <2>1. ids \in SUBSET all /\ new \in SUBSET all
    OBVIOUS
  <2> HIDE DEF all, ids, new
  <2> QED
    BY <1>2, <2>1, FiniteMore
<1>6. s = [u EXCEPT !.node = v]
  OBVIOUS
<1> HIDE DEF ids, new, s
<1>7. x \in PeerType /\ x.sync_req = State(n).peer[p].sync_req
  BY <1>3, <1>5 DEF PeerType
<1>8. v \in NodeType /\ v.active = State(n).node.active
  <2>1. State(n).node.items \cup new \in FiniteBlocks
    <3>1. State(n).node.items \in FiniteBlocks
      BY <1>3 DEF NodeType
    <3> QED
      BY <3>1, <1>5, FiniteMore
  <2> QED
    BY <1>3, <2>1 DEF NodeType
<1> HIDE DEF x, v
<1>9. u \in NetState(n) /\ u.node = State(n).node
  BY <1>3, <1>7, SetPeer
<1> HIDE DEF u
<1>10. s \in NetState(n)
  BY <1>6, <1>8, <1>9, SetNode
<1> QED
  BY <1>1, <1>2, <1>4, <1>10, ReceivesInv

-----------------------------------------------------------------------------
(* Gossip, and blocks the chain thread has pushed *)

LEMMA SetToSeqType ==
    ASSUME NEW S, IsFiniteSet(S)
    PROVE  SetToSeq(S) \in Seq(S) /\ Len(SetToSeq(S)) = Cardinality(S) /\ (S # {} => SetToSeq(S) # <<>>)
<1> DEFINE k == Cardinality(S)
           f == SetToSeq(S)
<1>1. k \in Nat /\ ExistsBijection(1 .. k, S)
  BY FS_CardinalityType
<1>2. \E g \in [1 .. k -> S] : IsInjective(g)
  <2> HIDE DEF k
  <2> QED
    BY <1>1 DEF ExistsBijection, Bijection, Injection
<1>3. f \in [1 .. k -> S]
  BY <1>2 DEF SetToSeq
<1>4. S # {} => k # 0
  BY FS_EmptySet
<1> HIDE DEF k, f
<1>5. f \in Seq(S) /\ Len(f) = k
  BY <1>1, <1>3
<1>6. S # {} => f # <<>>
  BY <1>4, <1>5
<1> QED
  BY <1>5, <1>6 DEF k, f

LEMMA ActiveType == ASSUME NEW n PROVE Active(n) \in SUBSET Peers(n)
BY DEF Active

LEMMA FinitePeers == ASSUME NEW n PROVE IsFiniteSet(Active(n))
<1>1. Active(n) \in SUBSET Nodes
  BY DEF Active, Peers
<1> QED
  BY <1>1, FS_Subset, NetConstants

LEMMA AdvertiseInv ==
    ASSUME NetInv, NEW n \in Nodes, advertise_inventory_loop(n)
    PROVE  NetInv'
<1> DEFINE news(p) == IF p \in Active(n) /\ ~ peer[n][p].they_need
                      THEN node[n].inventory \ (peer[n][p].adv_us \cup peer[n][p].adv_peer) ELSE {}
           q == [p \in Peers(n) |-> [peer[n][p] EXCEPT !.adv_peer = @ \cup news(p)]]
           v == [node[n] EXCEPT !.inventory = {}]
           o == [p \in Peers(n) |-> IF news(p) = {} THEN <<>> ELSE <<[type |-> "inventory", ids |-> news(p)]>>]
           s == [peer |-> q, node |-> v, sent |-> o]
<1>1. UNCHANGED <<chain, drops>> /\ Runs(n, s)
  BY DEF advertise_inventory_loop
<1>2. /\ State(n) \in NetState(n) /\ State(n).peer = peer[n] /\ State(n).node = node[n] /\ node[n] \in NodeType
      /\ \A p \in Peers(n) : peer[n][p] \in PeerType
  BY StateIn
<1>3. chain' \in [Nodes -> ChainType]
  BY <1>1, SameChain
<1>4. \A p \in Peers(n) : news(p) \in FiniteBlocks
  <2> TAKE p \in Peers(n)
  <2>1. node[n].inventory \in FiniteBlocks
    BY <1>2 DEF NodeType
  <2>2. news(p) \in SUBSET node[n].inventory
    OBVIOUS
  <2> HIDE DEF news
  <2> QED
    BY <2>1, <2>2, FiniteMore
<1> HIDE DEF news
<1>5. q \in [Peers(n) -> PeerType] /\ \A p \in Peers(n) : q[p].sync_req = peer[n][p].sync_req
  <2>1. \A p \in Peers(n) : news(p) \in SUBSET Blocks
    BY <1>4 DEF FiniteBlocks
  <2>2. \A p \in Peers(n) : /\ [peer[n][p] EXCEPT !.adv_peer = @ \cup news(p)] \in PeerType
                            /\ [peer[n][p] EXCEPT !.adv_peer = @ \cup news(p)].sync_req = peer[n][p].sync_req
    BY <1>2, <2>1 DEF PeerType
  <2> QED
    BY <2>2
<1>6. v \in NodeType /\ v.active = node[n].active
  <2>1. {} \in FiniteBlocks
    BY FS_EmptySet DEF FiniteBlocks
  <2> QED
    BY <1>2, <2>1 DEF NodeType
<1>7. o \in [Peers(n) -> Seq(Messages)]
  <2>1. \A p \in Peers(n) : [type |-> "inventory", ids |-> news(p)] \in Messages
    BY <1>4 DEF Messages
  <2> QED
    BY <2>1
<1> HIDE DEF q, v, o
<1>8. s \in StateType(n) /\ s.node = v /\ s.peer = q
  BY <1>5, <1>6, <1>7 DEF StateType
<1> HIDE DEF s
<1>9. s \in NetState(n)
  BY <1>2, <1>5, <1>6, <1>8, Kept
<1> QED
  BY <1>1, <1>3, <1>9, RunsInv

LEMMA FetchLoopInv ==
    ASSUME NetInv, NEW n \in Nodes, fetch_items_loop(n)
    PROVE  NetInv'
<1> DEFINE idle   == {p \in Active(n) : ~ busy(peer[n][p])}
           can(b) == {p \in idle : b \in peer[n][p].adv_us}
           now    == {b \in node[n].items : can(b) # {}}
<1>0. PICK from \in [now -> idle] :
        LET of(p) == {b \in now : from[b] = p}
            s == [peer |-> [p \in Peers(n) |-> [peer[n][p] EXCEPT !.item_req = @ \cup of(p)]],
                  node |-> [node[n] EXCEPT !.items = @ \ now, !.fetch_items = FALSE],
                  sent |-> [p \in Peers(n) |-> IF of(p) = {} THEN <<>>
                                ELSE <<[type |-> "fetch_items", ids |-> SetToSeq(of(p))]>>]]
        IN  Runs(n, s)
  BY DEF fetch_items_loop
<1> DEFINE of(p) == {b \in now : from[b] = p}
           q == [p \in Peers(n) |-> [peer[n][p] EXCEPT !.item_req = @ \cup of(p)]]
           v == [node[n] EXCEPT !.items = @ \ now, !.fetch_items = FALSE]
           o == [p \in Peers(n) |-> IF of(p) = {} THEN <<>> ELSE <<[type |-> "fetch_items", ids |-> SetToSeq(of(p))]>>]
           s == [peer |-> q, node |-> v, sent |-> o]
<1>1. UNCHANGED <<chain, drops>> /\ Runs(n, s)
  BY <1>0 DEF fetch_items_loop
<1>2. /\ State(n) \in NetState(n) /\ State(n).peer = peer[n] /\ State(n).node = node[n] /\ node[n] \in NodeType
      /\ \A p \in Peers(n) : peer[n][p] \in PeerType
  BY StateIn
<1>3. chain' \in [Nodes -> ChainType]
  BY <1>1, SameChain
<1>4. node[n].items \ now \in FiniteBlocks /\ \A p \in Peers(n) : of(p) \in FiniteBlocks
  <2>1. node[n].items \in FiniteBlocks
    BY <1>2 DEF NodeType
  <2>2. now \in SUBSET node[n].items
    OBVIOUS
  <2> HIDE DEF now
  <2>3. \A p \in Peers(n) : of(p) \in SUBSET node[n].items
    BY <2>2
  <2>4. node[n].items \ now \in SUBSET node[n].items
    OBVIOUS
  <2> HIDE DEF of
  <2> QED
    BY <2>1, <2>3, <2>4, FiniteMore
<1> HIDE DEF of, now
<1>5. q \in [Peers(n) -> PeerType] /\ \A p \in Peers(n) : q[p].sync_req = peer[n][p].sync_req
  <2>1. \A p \in Peers(n) : peer[n][p].item_req \cup of(p) \in FiniteBlocks
    <3> TAKE p \in Peers(n)
    <3>1. peer[n][p].item_req \in FiniteBlocks
      BY <1>2 DEF PeerType
    <3> QED
      BY <1>4, <3>1, FiniteMore
  <2>2. \A p \in Peers(n) : /\ [peer[n][p] EXCEPT !.item_req = @ \cup of(p)] \in PeerType
                            /\ [peer[n][p] EXCEPT !.item_req = @ \cup of(p)].sync_req = peer[n][p].sync_req
    BY <1>2, <2>1, ItemType
  <2> QED
    BY <2>2
<1>6. v \in NodeType /\ v.active = node[n].active
  BY <1>2, <1>4 DEF NodeType
<1>7. o \in [Peers(n) -> Seq(Messages)]
  <2>1. \A p \in Peers(n) : of(p) # {} => [type |-> "fetch_items", ids |-> SetToSeq(of(p))] \in Messages
    <3> TAKE p \in Peers(n)
    <3>1. of(p) \in SUBSET Blocks /\ IsFiniteSet(of(p))
      BY <1>4 DEF FiniteBlocks
    <3>2. SetToSeq(of(p)) \in Seq(of(p)) /\ (of(p) # {} => SetToSeq(of(p)) # <<>>)
      BY <3>1, SetToSeqType
    <3>3. SetToSeq(of(p)) \in Seq(Blocks)
      BY <3>1, <3>2
    <3> QED
      BY <3>2, <3>3 DEF Messages
  <2> QED
    BY <2>1
<1> HIDE DEF q, v, o
<1>8. s \in StateType(n) /\ s.node = v /\ s.peer = q
  BY <1>5, <1>6, <1>7 DEF StateType
<1> HIDE DEF s
<1>9. s \in NetState(n)
  BY <1>2, <1>5, <1>6, <1>8, Kept
<1> QED
  BY <1>1, <1>3, <1>9, RunsInv

LEMMA PushSyncInv ==
    ASSUME NetInv, NEW n \in Nodes, PushSyncBlock(n)
    PROVE  NetInv'
<1>1. PICK i \in DOMAIN node[n].handling :
        LET b  == node[n].handling[i].id
            ok == ~ Refused(chain[n], b)
        IN  /\ chain' = IF ok THEN [chain EXCEPT ![n] = push_block(@, b)] ELSE chain
            /\ node'  = [node EXCEPT ![n].handling[i].result = IF ok THEN "accepted" ELSE "rejected"]
  BY DEF PushSyncBlock
<1> DEFINE b  == node[n].handling[i].id
           ok == ~ Refused(chain[n], b)
           h == [node[n].handling EXCEPT ![i].result = IF ok THEN "accepted" ELSE "rejected"]
           v == [node[n] EXCEPT !.handling = h]
<1>2. UNCHANGED <<peer, wire, drops>>
  BY DEF PushSyncBlock
<1>3. node \in [Nodes -> NodeType] /\ node[n] \in NodeType
  BY DEF NetInv, NetTypeOK
<1>4. node[n].handling \in Seq(Jobs) /\ node[n].handling[i] \in Jobs /\ b \in Blocks
  <2>1. node[n].handling \in Seq(Jobs)
    BY <1>3 DEF NodeType, Queues
  <2>2. node[n].handling[i] \in Jobs
    BY <2>1
  <2> QED
    BY <2>1, <2>2 DEF Jobs
<1>5. chain' \in [Nodes -> ChainType]
  <2>1. chain' = [chain EXCEPT ![n] = push_block(@, b)] \/ chain' = chain
    BY <1>1
  <2> HIDE DEF b
  <2> QED
    BY <1>4, <2>1, PushedChain, SameChain
<1>6. h \in Queues
  <2> DEFINE j == [node[n].handling[i] EXCEPT !.result = IF ok THEN "accepted" ELSE "rejected"]
  <2>1. j \in Jobs
    BY <1>4 DEF Jobs
  <2>2. h = [node[n].handling EXCEPT ![i] = j]
    OBVIOUS
  <2>3. Len(node[n].handling) <= MaxHandled
    BY <1>3 DEF NodeType, Queues
  <2> HIDE DEF j, h
  <2>4. h \in Seq(Jobs) /\ Len(h) = Len(node[n].handling)
    BY <1>4, <2>1, <2>2
  <2> QED
    BY <2>3, <2>4 DEF Queues
<1>7. node' = [node EXCEPT ![n] = v]
  BY <1>1
<1> HIDE DEF h
<1>8. v \in NodeType /\ v.active = node[n].active
  BY <1>3, <1>6 DEF NodeType
<1> HIDE DEF v
<1>9. node' \in [Nodes -> NodeType] /\ \A m \in Nodes : node'[m].active = node[m].active
  BY <1>3, <1>7, <1>8
<1>10. OneRequest'
  <2>1. \A m \in Nodes : Requests(m, peer[m], node[m].active)
    BY DEF NetInv, OneRequest
  <2>2. \A m \in Nodes : Requests(m, peer'[m], node'[m].active)
    BY <1>2, <1>9, <2>1
  <2> QED
    BY <2>2 DEF OneRequest, Requests, Peers
<1> QED
  BY <1>2, <1>5, <1>9, <1>10 DEF NetInv, NetTypeOK, Peers

-----------------------------------------------------------------------------
(* Requests for sync blocks *)

(* What the loop over a peer's list does with a block: room is the bound,  *)
(* X the blocks nobody is asked for.                                       *)
WantStep(X, ids, b) ==
    IF Len(ids) = MaxPerPeer \/ b \in X \cup Range(ids) THEN ids ELSE Append(ids, b)

LEMMA WantedType ==
    ASSUME NetInv, NEW n \in Nodes, NEW p \in Peers(n), NEW taken
    PROVE  /\ Wanted(n, p, taken) \in Seq(Blocks)
           /\ Range(Wanted(n, p, taken)) \cap (taken \cup node[n].active) = {}
           /\ Len(Wanted(n, p, taken)) <= MaxPerPeer
           /\ Wanted(n, p, taken) # <<>> => peer[n][p].sync_req = {}
<1> DEFINE q == peer[n][p]
           l == q.to_get
           len == Len(l)
           X == taken \cup node[n].active \cup Range(node[n].received)
           A == {ids \in Seq(Blocks) : Range(ids) \cap (taken \cup node[n].active) = {} /\ Len(ids) <= MaxPerPeer}
           F == [w \in A \X (1 .. len) |-> WantStep(X, w[1], l[w[2]])]
<1>0. l \in Seq(Blocks)
  <2>1. q \in PeerType
    BY StateIn
  <2> QED
    BY <2>1 DEF PeerType, Lists
<1> HIDE DEF l
<1>1. len \in Nat /\ DOMAIN l = 1 .. len /\ \A i \in 1 .. len : l[i] \in Blocks
  BY <1>0
<1>2. \A ids \in A, i \in 1 .. len : WantStep(X, ids, l[i]) \in A /\ F[<<ids, i>>] = WantStep(X, ids, l[i])
  <2> TAKE ids \in A, i \in 1 .. len
  <2>1. /\ ids \in Seq(Blocks) /\ Range(ids) \cap (taken \cup node[n].active) = {}
        /\ Len(ids) \in Nat /\ Len(ids) <= MaxPerPeer
    OBVIOUS
  <2>2. CASE Len(ids) = MaxPerPeer \/ l[i] \in X \cup Range(ids)
    BY <2>2 DEF WantStep
  <2>3. CASE ~ (Len(ids) = MaxPerPeer \/ l[i] \in X \cup Range(ids))
    <3>1. WantStep(X, ids, l[i]) = Append(ids, l[i]) /\ l[i] \notin taken \cup node[n].active /\ Len(ids) # MaxPerPeer
      BY <2>3 DEF WantStep
    <3>2. /\ Append(ids, l[i]) \in Seq(Blocks) /\ Range(Append(ids, l[i])) = Range(ids) \cup {l[i]}
          /\ Len(Append(ids, l[i])) = Len(ids) + 1
      <4> DEFINE x == l[i]
                 t == Append(ids, x)
      <4>1. x \in Blocks
        BY <1>1
      <4> HIDE DEF x
      <4>2. /\ t \in Seq(Blocks) /\ Len(t) = Len(ids) + 1 /\ Len(ids) \in Nat
            /\ \A j \in 1 .. Len(ids) : t[j] = ids[j]
            /\ t[Len(ids) + 1] = x
        BY <2>1, <4>1
      <4>3. DOMAIN t = 1 .. Len(ids) + 1 /\ DOMAIN ids = 1 .. Len(ids)
        BY <2>1, <4>2
      <4> HIDE DEF t
      <4>4. \A j \in 1 .. Len(ids) + 1 : j \in 1 .. Len(ids) \/ j = Len(ids) + 1
        BY <4>2
      <4>5. Range(t) = Range(ids) \cup {x}
        BY <4>2, <4>3, <4>4 DEF Range
      <4> QED
        BY <4>2, <4>5 DEF t, x
    <3>3. Append(ids, l[i]) \in A
      BY <2>1, <3>1, <3>2, WindowConstants
    <3> QED
      BY <3>1, <3>3
  <2> QED
    BY <2>2, <2>3
<1>3. <<>> \in A
  BY WindowConstants DEF Range
<1> HIDE DEF F, X
<1> DEFINE Eq(g) == g = [s \in SUBSET (1 .. len) |->
                           IF s = {} THEN <<>> ELSE WantStep(X, g[s \ {Max(s)}], l[Max(s)])]
<1>4. \E g : Eq(g)
  <2> HIDE DEF A
  <2>1. PICK G : FoldSolves(G, F, A, <<>>, len)
    BY <1>1, <1>2, <1>3, FoldSolution
  <2>2. G \in [SUBSET (1 .. len) -> A]
    BY <2>1 DEF FoldSolves
  <2>3. ASSUME NEW s \in SUBSET (1 .. len)
        PROVE  G[s] = IF s = {} THEN <<>> ELSE WantStep(X, G[s \ {Max(s)}], l[Max(s)])
    <3>1. CASE s # {}
      <4>1. Max(s) \in 1 .. len /\ G[s \ {Max(s)}] \in A
        BY <1>1, <2>2, <3>1, MaxUpTo
      <4> QED
        BY <1>2, <2>1, <3>1, <4>1 DEF FoldSolves
    <3> QED
      BY <2>1, <3>1 DEF FoldSolves
  <2>4. Eq(G)
    BY <2>2, <2>3
  <2> QED
    BY <2>4
<1> DEFINE g == CHOOSE g : Eq(g)
<1>5. Wanted(n, p, taken) = IF q.we_need /\ ~ busy(q) /\ ~ q.inhibit THEN g[1 .. len] ELSE <<>>
  BY <1>1 DEF Wanted, FoldLeft, MapThenFoldSet, WantStep, X, l
<1>6. Eq(g)
  BY <1>4
<1> HIDE DEF g, A
<1>7. g[{}] \in A
  BY <1>3, <1>6
<1>8. ASSUME NEW k \in 1 .. len, g[1 .. k - 1] \in A PROVE g[1 .. k] \in A
  <2>1. 1 .. k \in SUBSET (1 .. len) /\ 1 .. k # {} /\ Max(1 .. k) = k /\ (1 .. k) \ {k} = 1 .. k - 1
    BY <1>1, Prefix
  <2>2. g[1 .. k] = WantStep(X, g[1 .. k - 1], l[k])
    BY ONLY <1>6, <2>1
  <2> QED
    BY <1>2, <1>8, <2>2
<1> HIDE DEF Eq
<1>9. g[1 .. len] \in A
  BY <1>1, <1>7, <1>8, FoldStays
<1>10. Wanted(n, p, taken) \in A
  BY <1>3, <1>5, <1>9
<1>11. Wanted(n, p, taken) # <<>> => peer[n][p].sync_req = {}
  BY <1>5 DEF busy
<1> QED
  BY <1>10, <1>11 DEF A

LEMMA RangeFew ==
    ASSUME NEW ids \in Seq(Blocks), Len(ids) <= MaxPerPeer
    PROVE  Range(ids) \in Few
<1> DEFINE R == Range(ids)
           k == Len(ids)
<1>1. k \in Nat /\ ids \in [1 .. k -> R] /\ R \in SUBSET Blocks /\ \A x \in R : \E i \in 1 .. k : ids[i] = x
  BY DEF Range
<1> HIDE DEF R, k
<1>2. ids \in Surjection(1 .. k, R)
  BY <1>1 DEF Surjection
<1>3. ExistsSurjection(1 .. k, R)
  BY <1>2 DEF ExistsSurjection
<1>4. IsFiniteSet(R) /\ Cardinality(R) <= k
  <2>1. IsFiniteSet(1 .. k)
    BY <1>1, FS_Interval
  <2>2. IsFiniteSet(R)
    BY <1>2, <2>1, FS_Surjection
  <2> QED
    BY <1>1, <1>3, <2>2, FS_SurjCardinalityBound
<1>5. Cardinality(R) \in Nat
  BY <1>4, FS_CardinalityType
<1> QED
  BY <1>1, <1>4, <1>5, WindowConstants DEF Few, R, k

LEMMA RequestType ==
    ASSUME NEW n, NEW s \in NetState(n), NEW p \in Peers(n), NEW ids \in Seq(Blocks),
           Range(ids) \cap s.node.active = {}, Len(ids) <= MaxPerPeer, ids # <<>> => s.peer[p].sync_req = {}
    PROVE  /\ request_sync_items_from_peer(s, p, ids) \in NetState(n)
           /\ s.node.active \subseteq request_sync_items_from_peer(s, p, ids).node.active
           /\ \A r \in Peers(n) : r # p => request_sync_items_from_peer(s, p, ids).peer[r] = s.peer[r]
<1>1. CASE ids = <<>>
  BY <1>1 DEF request_sync_items_from_peer
<1>2. CASE ids # <<>>
  <2> DEFINE R == Range(ids)
             q == [s.peer[p] EXCEPT !.sync_req = @ \cup R]
             v == [s.node EXCEPT !.active = @ \cup R]
             t == [s EXCEPT !.node.active = @ \cup R, !.peer[p].sync_req = @ \cup R]
             m == [type |-> "fetch_items", ids |-> ids]
  <2>1. s.peer[p] \in PeerType /\ s.node \in NodeType /\ s \in StateType(n) /\ s.peer \in [Peers(n) -> PeerType]
    BY StateFields
  <2>2. R \in SUBSET Blocks /\ s.peer[p].sync_req \cup R \in Few
    <3>1. R \in Few
      BY RangeFew
    <3>2. s.peer[p].sync_req = {} /\ s.peer[p].sync_req \cup R = R
      BY <1>2
    <3> QED
      BY <3>1, <3>2 DEF Few
  <2>3. request_sync_items_from_peer(s, p, ids) = Send(t, p, m)
    BY <1>2 DEF request_sync_items_from_peer
  <2>4. R \cap s.node.active = {}
    OBVIOUS
  <2> HIDE DEF R
  <2>5. q \in PeerType /\ q.sync_req = s.peer[p].sync_req \cup R
    BY <2>1, <2>2 DEF PeerType
  <2>6. v \in NodeType /\ v.active = s.node.active \cup R
    BY <2>1, <2>2 DEF NodeType
  <2>7. t = [s EXCEPT !.peer = [s.peer EXCEPT ![p] = q], !.node = v]
    BY <2>1 DEF StateType
  <2> HIDE DEF q, v, t
  <2>8. t \in StateType(n) /\ t.peer = [s.peer EXCEPT ![p] = q] /\ t.node = v
    <3>1. [s.peer EXCEPT ![p] = q] \in [Peers(n) -> PeerType]
      BY ONLY <2>1, <2>5
    <3> QED
      BY ONLY <2>1, <2>6, <2>7, <3>1 DEF StateType
  <2>9. t.peer[p].sync_req = s.peer[p].sync_req \cup R /\ \A r \in Peers(n) : r # p => t.peer[r] = s.peer[r]
    BY <2>1, <2>5, <2>8
  <2>10. Requests(n, s.peer, s.node.active)
    BY DEF NetState
  <2>11. Requests(n, t.peer, t.node.active)
    <3>1. s.node.active = UNION {s.peer[r].sync_req : r \in Peers(n)}
      BY <2>10 DEF Requests
    <3>2. t.node.active = UNION {t.peer[r].sync_req : r \in Peers(n)}
      <4>1. ASSUME NEW x PROVE x \in t.node.active <=> \E r \in Peers(n) : x \in t.peer[r].sync_req
        <5>1. x \in t.node.active <=> x \in R \/ \E r \in Peers(n) : x \in s.peer[r].sync_req
          BY ONLY <2>6, <2>8, <3>1
        <5> QED
          BY <2>9, <5>1
      <4> QED
        BY <4>1
    <3>3. \A r \in Peers(n) : R \cap s.peer[r].sync_req = {}
      BY <2>4, <3>1
    <3>4. \A r, u \in Peers(n) : r # u => t.peer[r].sync_req \cap t.peer[u].sync_req = {}
      BY <2>9, <2>10, <3>3 DEF Requests
    <3> QED
      BY <3>2, <3>4 DEF Requests
  <2>12. t \in NetState(n)
    BY <2>8, <2>11 DEF NetState
  <2>13. m \in Messages
    BY <1>2 DEF Messages
  <2> HIDE DEF m
  <2>14. Send(t, p, m) \in NetState(n) /\ Send(t, p, m).node = t.node /\ Send(t, p, m).peer = t.peer
    BY <2>12, <2>13, SendType
  <2> QED
    BY <2>3, <2>6, <2>8, <2>9, <2>14
<1> QED
  BY <1>1, <1>2

(* A visit of the fetch loop. *)
VisitStep(n, s, p) == request_sync_items_from_peer(s, p, Wanted(n, p, s.node.active \ node[n].active))

LEMMA FetchSyncInv ==
    ASSUME NetInv, NEW n \in Nodes, fetch_sync_items_loop(n)
    PROVE  NetInv'
<1> DEFINE s0 == [State(n) EXCEPT !.node.fetch = FALSE]
<1>0. PICK order \in SetToSeqs(Active(n)) :
         LET visit(s, p) ==
                  request_sync_items_from_peer(s, p, Wanted(n, p, s.node.active \ node[n].active))
         IN  Runs(n, IF node[n].suspended THEN s0 ELSE FoldLeft(visit, s0, order))
  BY DEF fetch_sync_items_loop
(* Peers that are still to be visited have been asked for nothing new. *)
<1> DEFINE len == Len(order)
           Rest(u) == {s \in NetState(n) :
                         /\ node[n].active \subseteq s.node.active
                         /\ \A i \in (1 .. len) \ u : s.peer[order[i]] = peer[n][order[i]]}
           A == [u \in SUBSET (1 .. len) |-> Rest(u)]
           F == [w \in NetState(n) \X (1 .. len) |-> VisitStep(n, w[1], order[w[2]])]
<1>1. /\ len \in Nat /\ DOMAIN order = 1 .. len /\ \A i \in 1 .. len : order[i] \in Peers(n)
      /\ \A i, j \in 1 .. len : i # j => order[i] # order[j]
  <2>1. Cardinality(Active(n)) \in Nat
    BY FinitePeers, FS_CardinalityType
  <2>2. /\ order \in [1 .. Cardinality(Active(n)) -> Active(n)]
        /\ \A i, j \in 1 .. Cardinality(Active(n)) : i # j => order[i] # order[j]
    BY DEF SetToSeqs
  <2>3. order \in Seq(Active(n)) /\ len = Cardinality(Active(n))
    BY <2>1, <2>2
  <2> QED
    BY <2>2, <2>3, ActiveType
<1>2. \A i \in 1 .. len : \A u \in SUBSET (1 .. i - 1) : \A s \in Rest(u) :
         /\ VisitStep(n, s, order[i]) \in Rest(u \cup {i})
         /\ F[<<s, i>>] = VisitStep(n, s, order[i])
  <2> TAKE i \in 1 .. len
  <2> TAKE u \in SUBSET (1 .. i - 1)
  <2> TAKE s \in Rest(u)
  <2> DEFINE p == order[i]
             taken == s.node.active \ node[n].active
             ids == Wanted(n, p, taken)
             t == request_sync_items_from_peer(s, p, ids)
  <2>0. p \in Peers(n) /\ s.peer[p] = peer[n][p] /\ \A j \in (1 .. len) \ {i} : order[j] \in Peers(n) /\ order[j] # p
    <3>1. i \in (1 .. len) \ u
      OBVIOUS
    <3> QED
      BY <1>1, <3>1
  <2>1. /\ s \in NetState(n) /\ node[n].active \subseteq s.node.active /\ taken \cup node[n].active = s.node.active
        /\ \A j \in (1 .. len) \ u : s.peer[order[j]] = peer[n][order[j]]
    OBVIOUS
  <2> HIDE DEF p, taken
  <2>2. /\ ids \in Seq(Blocks) /\ Range(ids) \cap s.node.active = {} /\ Len(ids) <= MaxPerPeer
        /\ ids # <<>> => s.peer[p].sync_req = {}
    BY <2>0, <2>1, WantedType
  <2> HIDE DEF ids
  <2>3. /\ t \in NetState(n) /\ s.node.active \subseteq t.node.active
        /\ \A r \in Peers(n) : r # p => t.peer[r] = s.peer[r]
    BY <2>0, <2>1, <2>2, RequestType
  <2>4. VisitStep(n, s, p) = t
    BY DEF VisitStep, ids, taken
  <2> HIDE DEF t
  <2>5. \A j \in (1 .. len) \ (u \cup {i}) : t.peer[order[j]] = peer[n][order[j]]
    BY <2>0, <2>1, <2>3
  <2>6. t \in Rest(u \cup {i})
    BY <2>1, <2>3, <2>5
  <2>7. F[<<s, i>>] = VisitStep(n, s, p)
    BY <2>1 DEF p
  <2> HIDE DEF F, Rest
  <2> QED
    BY <2>4, <2>6, <2>7 DEF p
<1>3. s0 \in Rest({}) /\ s0 \in NetState(n)
  <2> DEFINE v == [State(n).node EXCEPT !.fetch = FALSE]
  <2>1. /\ State(n) \in NetState(n) /\ State(n).node = node[n] /\ State(n).node \in NodeType
        /\ State(n).peer = peer[n]
    BY StateIn
  <2>2. v \in NodeType /\ v.active = State(n).node.active
    BY <2>1 DEF NodeType
  <2>3. s0 = [State(n) EXCEPT !.node = v]
    OBVIOUS
  <2> HIDE DEF v, s0
  <2>4. s0 \in NetState(n) /\ s0.node = v /\ s0.peer = State(n).peer
    BY <2>1, <2>2, <2>3, SetNode
  <2> QED
    BY <2>1, <2>2, <2>4
<1>4. \A u : Rest(u) \in SUBSET NetState(n)
  OBVIOUS
<1> HIDE DEF F, s0, Rest
<1>5. \A u \in SUBSET (1 .. len) : A[u] = Rest(u)
  OBVIOUS
<1>6. \A i \in 1 .. len : \A u \in SUBSET (1 .. i - 1) : u \in SUBSET (1 .. len) /\ u \cup {i} \in SUBSET (1 .. len)
  BY <1>1
<1> HIDE DEF A
<1> DEFINE Eq(g) == g = [u \in SUBSET (1 .. len) |->
                           IF u = {} THEN s0 ELSE VisitStep(n, g[u \ {Max(u)}], order[Max(u)])]
<1>7. \E g : Eq(g)
  <2>1. PICK G : FoldSolvesBy(G, F, A, s0, len)
    <3>1. s0 \in A[{}]
      BY <1>3, <1>5
    <3>2. \A i \in 1 .. len : \A u \in SUBSET (1 .. i - 1) : \A a \in A[u] : F[<<a, i>>] \in A[u \cup {i}]
      <4> TAKE i \in 1 .. len
      <4> TAKE u \in SUBSET (1 .. i - 1)
      <4>1. A[u] = Rest(u) /\ A[u \cup {i}] = Rest(u \cup {i})
        BY <1>5, <1>6
      <4>2. \A a \in Rest(u) : F[<<a, i>>] \in Rest(u \cup {i})
        BY <1>2
      <4> QED
        BY <4>1, <4>2
    <3> QED
      BY <1>1, <3>1, <3>2, FoldSolutionBy
  <2>2. G = [u \in SUBSET (1 .. len) |-> G[u]]
    BY <2>1 DEF FoldSolvesBy
  <2>3. ASSUME NEW u \in SUBSET (1 .. len)
        PROVE  G[u] = IF u = {} THEN s0 ELSE VisitStep(n, G[u \ {Max(u)}], order[Max(u)])
    <3>1. CASE u # {}
      <4> DEFINE i == Max(u)
                 w == u \ {i}
      <4>1. i \in 1 .. len /\ \A j \in u : j \in 1 .. len /\ j <= i
        BY <1>1, <3>1, MaxUpTo
      <4>2. w \in SUBSET (1 .. i - 1) /\ w \in SUBSET (1 .. len)
        <5> HIDE DEF i
        <5>1. \A j \in w : j \in 1 .. len /\ j <= i /\ j # i
          BY <4>1
        <5>2. \A j \in w : j \in 1 .. i - 1
          BY <4>1, <5>1
        <5> HIDE DEF w
        <5> QED
          BY <5>1, <5>2
      <4>3. G[w] \in A[w] /\ G[u] = F[<<G[w], i>>]
        BY <2>1, <3>1, <4>2 DEF FoldSolvesBy
      <4> HIDE DEF w, i
      <4>4. G[w] \in Rest(w)
        BY <1>5, <4>2, <4>3
      <4>5. F[<<G[w], i>>] = VisitStep(n, G[w], order[i])
        BY <1>2, <4>1, <4>2, <4>4
      <4> QED
        BY <3>1, <4>3, <4>5 DEF w, i
    <3> QED
      BY <2>1, <3>1 DEF FoldSolvesBy
  <2>4. Eq(G)
    BY <2>2, <2>3
  <2> QED
    BY <2>4
<1> DEFINE g == CHOOSE g : Eq(g)
           s == IF node[n].suspended THEN s0 ELSE g[1 .. len]
<1>8. Runs(n, s)
  BY <1>0, <1>1 DEF FoldLeft, MapThenFoldSet, VisitStep
<1>9. Eq(g)
  BY <1>7
<1> HIDE DEF g
<1> DEFINE N == {k \in Nat : k <= len => g[1 .. k] \in Rest(1 .. k)}
<1>10. 0 \in N
  <2>1. 1 .. 0 = {} /\ {} \in SUBSET (1 .. len)
    OBVIOUS
  <2>2. g[{}] = s0
    BY <1>9, <2>1
  <2> HIDE DEF Eq
  <2> QED
    BY <1>3, <2>1, <2>2
<1>11. ASSUME NEW k \in Nat, k \in N PROVE k + 1 \in N
  <2> SUFFICES ASSUME k + 1 <= len PROVE g[1 .. k + 1] \in Rest(1 .. k + 1)
    OBVIOUS
  <2> DEFINE i == k + 1
  <2>1. i \in 1 .. len /\ i - 1 = k /\ k <= len /\ (1 .. k) \cup {i} = 1 .. i /\ 1 .. k \in SUBSET (1 .. i - 1)
    BY <1>1
  <2>2. g[1 .. k] \in Rest(1 .. k)
    BY <1>11, <2>1
  <2> HIDE DEF i, N
  <2>3. 1 .. i \in SUBSET (1 .. len) /\ 1 .. i # {} /\ Max(1 .. i) = i /\ (1 .. i) \ {i} = 1 .. i - 1
    BY <1>1, <2>1, Prefix
  <2>4. g[1 .. i] = VisitStep(n, g[1 .. i - 1], order[i])
    BY ONLY <1>9, <2>3
  <2> HIDE DEF Eq
  <2>5. VisitStep(n, g[1 .. k], order[i]) \in Rest((1 .. k) \cup {i})
    BY <1>2, <2>1, <2>2
  <2> QED
    BY <2>1, <2>4, <2>5 DEF i
<1> HIDE DEF Eq
<1>12. s \in NetState(n)
  <2>1. len \in N
    <3> HIDE DEF N
    <3> QED
      BY <1>1, <1>10, <1>11, SetInduction
  <2>2. g[1 .. len] \in Rest(1 .. len)
    BY <1>1, <2>1
  <2> QED
    BY <1>3, <1>4, <2>2
<1> HIDE DEF s
<1>13. UNCHANGED <<chain, drops>>
  BY DEF fetch_sync_items_loop
<1>14. chain' \in [Nodes -> ChainType]
  BY <1>13, SameChain
<1> QED
  BY <1>8, <1>12, <1>13, <1>14, RunsInv

-----------------------------------------------------------------------------
(* Received sync blocks *)

(* A step repeated from a first value: the equation of the loop has a      *)
(* solution.                                                               *)
Iterates(f, D, base, F) == \A k \in D : f[k] = IF k = 0 THEN base ELSE F[f[k - 1]]

LEMMA IterationExists ==
    ASSUME NEW A, NEW base \in A, NEW F \in [A -> A]
    PROVE  \E f \in [Nat -> A] : Iterates(f, Nat, base, F)
<1> DEFINE Q(f, k) == f \in [0 .. k -> A] /\ Iterates(f, 0 .. k, base, F)
           N == {k \in Nat : \E f : Q(f, k)}
<1>1. 0 \in N
  <2> DEFINE f == [i \in 0 .. 0 |-> base]
  <2>1. Q(f, 0)
    BY DEF Iterates
  <2> HIDE DEF f, Q
  <2> QED
    BY <2>1
<1>2. ASSUME NEW k \in Nat, k \in N PROVE k + 1 \in N
  <2>1. PICK f : Q(f, k)
    BY <1>2
  <2> DEFINE h == [i \in 0 .. k + 1 |-> IF i = k + 1 THEN F[f[k]] ELSE f[i]]
  <2>2. h \in [0 .. k + 1 -> A]
    BY <2>1
  <2>3. ASSUME NEW i \in 0 .. k + 1 PROVE h[i] = IF i = 0 THEN base ELSE F[h[i - 1]]
    <3>1. CASE i = k + 1
      <4>1. h[k + 1] = F[f[k]] /\ h[k] = f[k] /\ i - 1 = k /\ i # 0
        BY <3>1
      <4> HIDE DEF h
      <4> QED
        BY <3>1, <4>1
    <3>2. CASE i # k + 1
      <4>1. i \in 0 .. k /\ (i # 0 => i - 1 \in 0 .. k /\ i - 1 \in 0 .. k + 1 /\ i - 1 # k + 1)
        BY <3>2
      <4>2. h[i] = f[i] /\ (i # 0 => h[i - 1] = f[i - 1])
        BY <3>2, <4>1
      <4>3. f[i] = IF i = 0 THEN base ELSE F[f[i - 1]]
        BY <2>1, <4>1 DEF Iterates
      <4> HIDE DEF h
      <4> QED
        BY <4>2, <4>3
    <3> QED
      BY <3>1, <3>2
  <2>4. Q(h, k + 1)
    <3> HIDE DEF h
    <3> QED
      BY <2>2, <2>3 DEF Iterates
  <2> HIDE DEF h, Q
  <2> QED
    BY <2>4
<1>3. \A k \in Nat : k \in N
  <2> HIDE DEF N
  <2> QED
    BY <1>1, <1>2, SetInduction
<1> DEFINE c(k) == CHOOSE f : Q(f, k)
<1>4. \A k \in Nat : Q(c(k), k)
  <2> TAKE k \in Nat
  <2>1. \E f : Q(f, k)
    BY <1>3
  <2> HIDE DEF Q
  <2> QED
    BY <2>1
<1> HIDE DEF c, N
(* Any two solutions agree where both are defined. *)
<1>5. \A k \in Nat : \A j \in 0 .. k : c(k)[j] = c(j)[j]
  <2> DEFINE M == {j \in Nat : \A k, l \in Nat : j <= k /\ j <= l => c(k)[j] = c(l)[j]}
  <2>1. 0 \in M
    <3>1. \A k \in Nat : 0 \in 0 .. k
      OBVIOUS
    <3>2. \A k \in Nat : c(k)[0] = base
      BY <1>4, <3>1 DEF Iterates
    <3> QED
      BY <3>2
  <2>2. ASSUME NEW j \in Nat, j \in M PROVE j + 1 \in M
    <3>1. \A k \in Nat : j + 1 <= k => c(k)[j + 1] = F[c(k)[j]]
      <4> SUFFICES ASSUME NEW k \in Nat, j + 1 <= k PROVE c(k)[j + 1] = F[c(k)[j]]
        OBVIOUS
      <4>1. j + 1 \in 0 .. k /\ j + 1 # 0 /\ (j + 1) - 1 = j
        OBVIOUS
      <4>2. Iterates(c(k), 0 .. k, base, F)
        BY <1>4
      <4> QED
        BY <4>1, <4>2 DEF Iterates
    <3> SUFFICES ASSUME NEW k \in Nat, NEW l \in Nat, j + 1 <= k, j + 1 <= l PROVE c(k)[j + 1] = c(l)[j + 1]
      OBVIOUS
    <3>2. c(k)[j] = c(l)[j]
      <4>1. j <= k /\ j <= l
        OBVIOUS
      <4> QED
        BY <2>2, <4>1
    <3> QED
      BY <3>1, <3>2
  <2>3. \A j \in Nat : j \in M
    <3> HIDE DEF M
    <3> QED
      BY <2>1, <2>2, SetInduction
  <2> QED
    <3> TAKE k \in Nat
    <3> TAKE j \in 0 .. k
    <3>1. j \in Nat /\ j <= k /\ j <= j
      OBVIOUS
    <3> QED
      BY <2>3, <3>1
<1> DEFINE f == [k \in Nat |-> c(k)[k]]
<1>6. f \in [Nat -> A]
  <2>1. \A k \in Nat : c(k)[k] \in A
    <3> TAKE k \in Nat
    <3>1. k \in 0 .. k /\ c(k) \in [0 .. k -> A]
      BY <1>4
    <3> QED
      BY <3>1
  <2> QED
    BY <2>1
<1>7. ASSUME NEW k \in Nat PROVE f[k] = IF k = 0 THEN base ELSE F[f[k - 1]]
  <2>1. k \in 0 .. k /\ Iterates(c(k), 0 .. k, base, F)
    BY <1>4
  <2>2. c(k)[k] = IF k = 0 THEN base ELSE F[c(k)[k - 1]]
    BY <2>1 DEF Iterates
  <2>3. k # 0 => k - 1 \in Nat /\ k - 1 \in 0 .. k
    OBVIOUS
  <2>4. k # 0 => c(k)[k - 1] = c(k - 1)[k - 1]
    BY <1>5, <2>3
  <2>5. f[k] = c(k)[k] /\ (k # 0 => f[k - 1] = c(k - 1)[k - 1])
    BY <2>3
  <2> HIDE DEF f
  <2> QED
    BY <2>2, <2>4, <2>5
<1> HIDE DEF f
<1>8. Iterates(f, Nat, base, F)
  BY <1>7 DEF Iterates
<1> QED
  BY <1>6, <1>8

LEMMA ReadyType ==
    ASSUME NEW n, NEW s \in NetState(n)
    PROVE  Ready(n, s) = 0 \/ Ready(n, s) \in 1 .. Len(s.node.received)
<1> DEFINE w == s.node.received
           I == {i \in 1 .. Len(w) : \E r \in Active(n) : s.peer[r].to_get # <<>> /\ Head(s.peer[r].to_get) = w[i]}
<1>1. Ready(n, s) = IF I # {} THEN Min(I) ELSE 0
  BY DEF Ready, SelectInSeq
<1>2. I \in SUBSET Nat /\ I \in SUBSET (1 .. Len(w))
  OBVIOUS
<1> HIDE DEF I
<1>3. I # {} => Min(I) \in I
  BY <1>2, MinFound
<1> QED
  BY <1>1, <1>2, <1>3

LEMMA TakeReadyType ==
    ASSUME NEW n, NEW s \in NetState(n), NEW i \in 1 .. Len(s.node.received), ~ Full(s)
    PROVE  TakeReady(n, s, i) \in NetState(n)
<1> DEFINE b == s.node.received[i]
           pop(r) == [r EXCEPT !.to_get = Tail(@), !.being = @ \cup {b}]
           q == [r \in Peers(n) |->
                    IF r \in Active(n) /\ s.peer[r].to_get # <<>> /\ Head(s.peer[r].to_get) = b
                    THEN pop(s.peer[r]) ELSE s.peer[r]]
           t == [s EXCEPT !.peer = q]
           v == [t.node EXCEPT !.received = RemoveAt(@, i), !.handling = Append(@, [id |-> b, result |-> "none"])]
           u == [t EXCEPT !.node = v]
<1>1. TakeReady(n, s, i) = IF b \in s.node.accepted THEN t ELSE u
  BY DEF TakeReady
<1>2. s.node \in NodeType /\ \A r \in Peers(n) : s.peer[r] \in PeerType
  BY StateFields
<1>3. s.node.received \in Seq(Blocks) /\ b \in Blocks
  <2>1. s.node.received \in Seq(Blocks)
    BY <1>2 DEF NodeType
  <2> QED
    BY <2>1
<1> HIDE DEF b
<1>4. q \in [Peers(n) -> PeerType] /\ \A r \in Peers(n) : q[r].sync_req = s.peer[r].sync_req
  <2>1. ASSUME NEW r \in Peers(n), s.peer[r].to_get # <<>>
        PROVE  pop(s.peer[r]) \in PeerType /\ pop(s.peer[r]).sync_req = s.peer[r].sync_req
    <3>1. s.peer[r] \in PeerType
      BY <1>2
    <3>2. Tail(s.peer[r].to_get) \in Lists
      <4>1. s.peer[r].to_get \in Lists
        BY <3>1 DEF PeerType
      <4> QED
        BY <2>1, <4>1, ListTail
    <3> QED
      BY <1>3, <3>1, <3>2 DEF PeerType
  <2> HIDE DEF pop
  <2> QED
    BY <1>2, <2>1
<1> HIDE DEF q
<1>5. t \in NetState(n) /\ t.node = s.node
  BY <1>4, SetPeers
<1> HIDE DEF t
<1>6. v \in NodeType /\ v.active = t.node.active
  <2>1. RemoveAt(s.node.received, i) \in Seq(Blocks)
    <3> DEFINE w == s.node.received
               x == SubSeq(w, 1, i - 1)
               y == SubSeq(w, i + 1, Len(w))
    <3>1. w \in Seq(Blocks) /\ Len(w) \in Nat /\ i \in 1 .. Len(w)
      BY <1>3
    <3> HIDE DEF w
    <3>2. x \in Seq(Blocks) /\ y \in Seq(Blocks)
      BY <3>1
    <3>3. x \o y \in Seq(Blocks)
      <4> HIDE DEF x, y
      <4> QED
        BY <3>2, Joined
    <3> QED
      BY <3>3 DEF RemoveAt, w
  <2>2. Append(s.node.handling, [id |-> b, result |-> "none"]) \in Queues
    <3> DEFINE j == [id |-> b, result |-> "none"]
               h == s.node.handling
    <3>1. j \in Jobs
      BY <1>3 DEF Jobs
    <3>2. h \in Seq(Jobs) /\ Len(h) \in Nat /\ ~ (Len(h) >= MaxHandled)
      BY <1>2 DEF NodeType, Queues, Full
    <3> HIDE DEF j, h
    <3>3. Append(h, j) \in Seq(Jobs) /\ Len(Append(h, j)) = Len(h) + 1
      BY <3>1, <3>2
    <3>4. Append(h, j) \in Queues
      BY <3>2, <3>3, WindowConstants DEF Queues
    <3> QED
      BY <3>4 DEF h, j
  <2> QED
    BY <1>2, <1>5, <2>1, <2>2 DEF NodeType
<1> HIDE DEF v
<1>7. u \in NetState(n)
  BY <1>5, <1>6, SetNode
<1> HIDE DEF u
<1> QED
  BY <1>1, <1>5, <1>7

(* A round of the loop. *)
Round(n, r) ==
    LET t == TakeReady(n, r.s, Ready(n, r.s))
    IN  IF ~ r.go \/ Ready(n, r.s) = 0 THEN [s |-> r.s, go |-> FALSE]
        ELSE [s |-> t, go |-> Len(t.node.handling) > Len(r.s.node.handling) /\ ~ Full(t)]

LEMMA BacklogType ==
    ASSUME NEW n, NEW s0 \in NetState(n), ~ Full(s0)
    PROVE  Backlog(n, s0) \in NetState(n)
<1> DEFINE A == {r \in [s : NetState(n), go : BOOLEAN] : r.go => ~ Full(r.s)}
           base == [s |-> s0, go |-> TRUE]
           F == [r \in A |-> Round(n, r)]
<1>1. \A r \in A : Round(n, r) \in A
  <2> TAKE r \in A
  <2> DEFINE i == Ready(n, r.s)
             t == TakeReady(n, r.s, i)
  <2>1. r.s \in NetState(n) /\ r.go \in BOOLEAN /\ (r.go => ~ Full(r.s))
    OBVIOUS
  <2>2. CASE ~ r.go \/ i = 0
    BY <2>1, <2>2 DEF Round
  <2>3. CASE ~ (~ r.go \/ i = 0)
    <3>1. i \in 1 .. Len(r.s.node.received)
      BY <2>1, <2>3, ReadyType
    <3> HIDE DEF i
    <3>2. t \in NetState(n)
      BY <2>1, <2>3, <3>1, TakeReadyType
    <3>3. Round(n, r) = [s |-> t, go |-> Len(t.node.handling) > Len(r.s.node.handling) /\ ~ Full(t)]
      BY <2>3 DEF Round, i
    <3> HIDE DEF t
    <3> DEFINE go == Len(t.node.handling) > Len(r.s.node.handling) /\ ~ Full(t)
    <3>4. go \in BOOLEAN /\ (go => ~ Full(t)) /\ Round(n, r) = [s |-> t, go |-> go]
      BY <3>3
    <3> HIDE DEF go
    <3>5. [s |-> t, go |-> go] \in A
      BY <3>2, <3>4
    <3> QED
      BY <3>4, <3>5
  <2> QED
    BY <2>2, <2>3
<1>2. base \in A /\ F \in [A -> A] /\ \A r \in A : F[r] = Round(n, r)
  BY <1>1
<1> HIDE DEF A, F
<1> DEFINE Eq(g) == g = [k \in Nat |-> IF k = 0 THEN base ELSE Round(n, g[k - 1])]
<1>3. \E g : Eq(g)
  <2> HIDE DEF base
  <2>1. PICK f \in [Nat -> A] : Iterates(f, Nat, base, F)
    BY <1>2, IterationExists
  <2>2. ASSUME NEW k \in Nat PROVE f[k] = IF k = 0 THEN base ELSE Round(n, f[k - 1])
    <3>1. k # 0 => f[k - 1] \in A
      <4>1. k # 0 => k - 1 \in Nat
        OBVIOUS
      <4> QED
        BY <4>1
    <3> QED
      BY <1>2, <2>1, <3>1 DEF Iterates
  <2>3. Eq(f)
    BY <2>2
  <2> QED
    BY <2>3
<1> DEFINE g == CHOOSE g : Eq(g)
           len == Len(s0.node.received)
<1>4. Backlog(n, s0) = g[len].s
  BY DEF Backlog, Round
<1>5. Eq(g)
  BY <1>3
<1> HIDE DEF g, base
<1> DEFINE N == {k \in Nat : g[k] \in A}
<1>6. 0 \in N
  BY <1>2, <1>5
<1>7. ASSUME NEW k \in Nat, k \in N PROVE k + 1 \in N
  <2>1. k + 1 \in Nat /\ k + 1 # 0 /\ (k + 1) - 1 = k
    OBVIOUS
  <2>2. g[k + 1] = Round(n, g[k])
    BY <1>5, <2>1
  <2> HIDE DEF Eq
  <2> QED
    BY <1>1, <1>7, <2>1, <2>2
<1> HIDE DEF Eq
<1>8. len \in Nat
  <2>1. s0.node \in NodeType
    BY StateFields
  <2>2. s0.node.received \in Seq(Blocks)
    BY <2>1 DEF NodeType
  <2> QED
    BY <2>2
<1> HIDE DEF len
<1>9. len \in N
  <2> HIDE DEF N
  <2> QED
    BY <1>6, <1>7, <1>8, SetInduction
<1> QED
  BY <1>4, <1>9 DEF A

LEMMA ResumeType ==
    ASSUME NEW n, NEW s \in NetState(n)
    PROVE  Resume(s) \in NetState(n)
<1> DEFINE full == Full(s) /\ Len(s.node.received) >= MaxBacklog
           v == [s.node EXCEPT !.suspended = full, !.fetch = @ \/ ~ full]
<1>1. s.node \in NodeType
  BY StateFields
<1>2. full \in BOOLEAN
  OBVIOUS
<1>3. Resume(s) = [s EXCEPT !.node = v]
  BY DEF Resume
<1> HIDE DEF full
<1>4. v \in NodeType /\ v.active = s.node.active
  BY <1>1, <1>2 DEF NodeType
<1> HIDE DEF v
<1> QED
  BY <1>3, <1>4, SetNode

LEMMA BacklogInv ==
    ASSUME NetInv, NEW n \in Nodes, process_backlog_of_sync_blocks(n)
    PROVE  NetInv'
<1> DEFINE s0 == [State(n) EXCEPT !.node.backlog = FALSE]
           v == [State(n).node EXCEPT !.backlog = FALSE]
           s == IF Full(s0) THEN s0 ELSE Resume(Backlog(n, s0))
<1>1. UNCHANGED <<chain, drops>> /\ Runs(n, s)
  BY DEF process_backlog_of_sync_blocks
<1>2. State(n) \in NetState(n) /\ State(n).node \in NodeType
  BY StateIn
<1>3. v \in NodeType /\ v.active = State(n).node.active
  BY <1>2 DEF NodeType
<1>4. s0 = [State(n) EXCEPT !.node = v]
  OBVIOUS
<1> HIDE DEF v, s0
<1>5. s0 \in NetState(n)
  BY <1>2, <1>3, <1>4, SetNode
<1>6. ~ Full(s0) => Backlog(n, s0) \in NetState(n)
  BY <1>5, BacklogType
<1>7. s \in NetState(n)
  BY <1>5, <1>6, ResumeType
<1> HIDE DEF s
<1>8. chain' \in [Nodes -> ChainType]
  BY <1>1, SameChain
<1> QED
  BY <1>1, <1>7, <1>8, RunsInv

LEMMA AfterAcceptedType ==
    ASSUME NEW n, NEW s \in NetState(n), NEW p \in Peers(n), NEW b \in Blocks, chain'[n] \in ChainType
    PROVE  AfterAccepted(n, s, p, b) \in NetState(n)
<1> DEFINE q == s.peer[p]
           r == [q EXCEPT !.seen = b, !.being = @ \ {b}]
           t == [s EXCEPT !.peer[p] = r]
<1>1. q \in PeerType
  BY StateFields
<1>2. r \in PeerType /\ r.sync_req = s.peer[p].sync_req
  BY <1>1 DEF PeerType
<1>3. \/ AfterAccepted(n, s, p, b) = s
      \/ AfterAccepted(n, s, p, b) = start_synchronizing_with_peer(n, s, p)
      \/ AfterAccepted(n, s, p, b) = fetch_next_batch_of_item_ids_from_peer(n, t, p)
      \/ AfterAccepted(n, s, p, b) = t
  BY DEF AfterAccepted
<1> HIDE DEF q, r
<1>4. t \in NetState(n)
  BY <1>2, SetPeer
<1> HIDE DEF t
<1>5. start_synchronizing_with_peer(n, s, p) \in NetState(n)
  BY StartType
<1>6. fetch_next_batch_of_item_ids_from_peer(n, t, p) \in NetState(n)
  BY <1>4, FetchNextType
<1> QED
  BY <1>3, <1>4, <1>5, <1>6

(* What the end of a sync block means for peer p. *)
EndStep(n, ok, b, s, p) ==
    CASE ok -> AfterAccepted(n, s, p, b)
      [] ~ ok /\ b \in s.peer[p].being -> disconnect_from_peer(s, p)
      [] OTHER -> s

LEMMA EndStepType ==
    ASSUME NEW n, NEW s \in NetState(n), NEW p \in Peers(n), NEW b \in Blocks, NEW ok \in BOOLEAN,
           chain'[n] \in ChainType
    PROVE  EndStep(n, ok, b, s, p) \in NetState(n)
<1>1. AfterAccepted(n, s, p, b) \in NetState(n)
  BY AfterAcceptedType
<1>2. disconnect_from_peer(s, p) \in NetState(n)
  BY DisconnectType
<1>3. CASE ok
  BY <1>1, <1>3 DEF EndStep
<1>4. CASE ~ ok /\ b \in s.peer[p].being
  BY <1>2, <1>4 DEF EndStep
<1>5. CASE ~ ok /\ b \notin s.peer[p].being
  BY <1>5 DEF EndStep
<1> QED
  BY <1>3, <1>4, <1>5

LEMMA HandledInv ==
    ASSUME NetInv, NEW n \in Nodes, SyncBlockHandled(n)
    PROVE  NetInv'
<1> DEFINE b  == Head(node[n].handling).id
           ok == Head(node[n].handling).result = "accepted"
           s0 == [State(n) EXCEPT !.node.handling = Tail(@), !.node.backlog = TRUE,
                                  !.node.accepted = IF ok THEN @ \cup {b} ELSE @]
           order == SetToSeq(Active(n))
           len == Len(order)
           A == NetState(n)
           F == [w \in A \X (1 .. len) |-> EndStep(n, ok, b, w[1], order[w[2]])]
<1>0. UNCHANGED <<chain, drops>> /\ Handled(n)
  BY DEF SyncBlockHandled
<1>1. len \in Nat /\ DOMAIN order = 1 .. len /\ \A i \in 1 .. len : order[i] \in Peers(n)
  <2>1. order \in Seq(Active(n))
    BY FinitePeers, SetToSeqType
  <2> HIDE DEF order
  <2> QED
    BY <2>1, ActiveType
<1>2. node[n] \in NodeType /\ State(n) \in NetState(n) /\ State(n).node = node[n]
  BY StateIn
<1>3. node[n].handling \in Seq(Jobs) /\ node[n].handling # <<>> /\ b \in Blocks
  <2>1. node[n].handling \in Seq(Jobs) /\ node[n].handling # <<>>
    BY <1>0, <1>2 DEF NodeType, Handled, Queues
  <2>2. Head(node[n].handling) \in Jobs
    BY <2>1
  <2> QED
    BY <2>1, <2>2 DEF Jobs
<1>4. ok \in BOOLEAN
  OBVIOUS
<1>5. chain' \in [Nodes -> ChainType] /\ chain'[n] \in ChainType
  BY <1>0, SameChain
<1>6. s0 \in A
  <2> DEFINE v == [State(n).node EXCEPT !.handling = Tail(@), !.backlog = TRUE,
                                        !.accepted = IF ok THEN @ \cup {b} ELSE @]
  <2>1. s0 = [State(n) EXCEPT !.node = v]
    OBVIOUS
  <2>2. Tail(node[n].handling) \in Queues
    <3>1. Len(node[n].handling) \in Nat /\ Len(node[n].handling) <= MaxHandled /\ Len(node[n].handling) >= 1
      BY <1>2, <1>3 DEF NodeType, Queues
    <3>2. Tail(node[n].handling) \in Seq(Jobs) /\ Len(Tail(node[n].handling)) = Len(node[n].handling) - 1
      BY <1>3
    <3> QED
      BY <3>1, <3>2, WindowConstants DEF Queues
  <2> HIDE DEF b, ok, s0
  <2>3. v \in NodeType /\ v.active = State(n).node.active
    BY <1>2, <1>3, <2>2 DEF NodeType
  <2> HIDE DEF v
  <2> QED
    BY <1>2, <2>1, <2>3, SetNode
<1>7. SyncBlockHandled(n) => LET visit(s, p) == EndStep(n, ok, b, s, p) IN Runs(n, FoldLeft(visit, s0, order))
  BY DEF SyncBlockHandled, EndStep
<1> HIDE DEF b, ok, s0, order
<1>8. \A s \in A, i \in 1 .. len :
         EndStep(n, ok, b, s, order[i]) \in A /\ F[<<s, i>>] = EndStep(n, ok, b, s, order[i])
  <2> TAKE s \in A, i \in 1 .. len
  <2>1. EndStep(n, ok, b, s, order[i]) \in A
    BY <1>1, <1>3, <1>4, <1>5, EndStepType
  <2> QED
    BY <2>1
<1> HIDE DEF F, A
<1> DEFINE Eq(g) == g = [s \in SUBSET (1 .. len) |->
                           IF s = {} THEN s0 ELSE EndStep(n, ok, b, g[s \ {Max(s)}], order[Max(s)])]
<1>9. \E g : Eq(g)
  <2>1. PICK G : FoldSolves(G, F, A, s0, len)
    BY <1>1, <1>6, <1>8, FoldSolution
  <2>2. G \in [SUBSET (1 .. len) -> A]
    BY <2>1 DEF FoldSolves
  <2>3. ASSUME NEW s \in SUBSET (1 .. len)
        PROVE  G[s] = IF s = {} THEN s0 ELSE EndStep(n, ok, b, G[s \ {Max(s)}], order[Max(s)])
    <3>1. CASE s # {}
      <4>1. Max(s) \in 1 .. len /\ G[s \ {Max(s)}] \in A
        BY <1>1, <2>2, <3>1, MaxUpTo
      <4> QED
        BY <1>8, <2>1, <3>1, <4>1 DEF FoldSolves
    <3> QED
      BY <2>1, <3>1 DEF FoldSolves
  <2>4. Eq(G)
    BY <2>2, <2>3
  <2> QED
    BY <2>4
<1> DEFINE g == CHOOSE g : Eq(g)
<1>10. Runs(n, g[1 .. len])
  BY <1>1, <1>7 DEF FoldLeft, MapThenFoldSet
<1>11. Eq(g)
  BY <1>9
<1> HIDE DEF g
<1>12. g[{}] \in A
  BY <1>6, <1>11
<1>13. ASSUME NEW k \in 1 .. len, g[1 .. k - 1] \in A PROVE g[1 .. k] \in A
  <2>1. 1 .. k \in SUBSET (1 .. len) /\ 1 .. k # {} /\ Max(1 .. k) = k /\ (1 .. k) \ {k} = 1 .. k - 1
    BY <1>1, Prefix
  <2>2. g[1 .. k] = EndStep(n, ok, b, g[1 .. k - 1], order[k])
    BY ONLY <1>11, <2>1
  <2> QED
    BY <1>8, <1>13, <2>2
<1> HIDE DEF Eq
<1>14. g[1 .. len] \in NetState(n)
  <2>1. g[1 .. len] \in A
    BY <1>1, <1>12, <1>13, FoldStays
  <2> QED
    BY <2>1 DEF A
<1> QED
  BY <1>0, <1>5, <1>10, <1>14, RunsInv

-----------------------------------------------------------------------------
(* Every step keeps the invariant. *)

LEMMA NextInv == NetInv /\ [Next]_vars => NetInv'
<1> SUFFICES ASSUME NetInv, [Next]_vars PROVE NetInv'
  OBVIOUS
<1>1. CASE UNCHANGED vars
  BY <1>1 DEF vars, NetInv, NetTypeOK, OneRequest, Requests, Peers
<1>2. ASSUME NEW n \in Nodes, Task(n) \/ ProduceBlock(n) PROVE NetInv'
  <2>1. CASE fetch_sync_items_loop(n)
    BY <2>1, FetchSyncInv
  <2>2. CASE process_backlog_of_sync_blocks(n)
    BY <2>2, BacklogInv
  <2>3. CASE PushSyncBlock(n)
    BY <2>3, PushSyncInv
  <2>4. CASE SyncBlockHandled(n)
    BY <2>4, HandledInv
  <2>5. CASE advertise_inventory_loop(n)
    BY <2>5, AdvertiseInv
  <2>6. CASE fetch_items_loop(n)
    BY <2>6, FetchLoopInv
  <2>7. CASE ProduceBlock(n)
    BY <2>7, ProduceInv
  <2> QED
    BY <1>2, <2>1, <2>2, <2>3, <2>4, <2>5, <2>6, <2>7 DEF Task
<1>3. ASSUME NEW n \in Nodes, NEW p \in Peers(n), Message(n, p) \/ Connect(n, p) \/ Drop(n, p) PROVE NetInv'
  <2>1. CASE on_fetch_blockchain_item_ids_message(n, p)
    BY <2>1, FetchIdsInv
  <2>2. CASE on_blockchain_item_ids_inventory_message(n, p)
    BY <2>2, IdsInv
  <2>3. CASE on_fetch_items_message(n, p)
    BY <2>3, FetchItemsInv
  <2>4. CASE process_block_message(n, p)
    BY <2>4, BlockInv
  <2>5. CASE on_item_ids_inventory_message(n, p)
    BY <2>5, InventoryInv
  <2>6. CASE Connect(n, p)
    BY <2>6, ConnectInv
  <2>7. CASE Drop(n, p)
    BY <2>7, DropInv
  <2> QED
    BY <1>3, <2>1, <2>2, <2>3, <2>4, <2>5, <2>6, <2>7 DEF Message
<1> QED
  BY <1>1, <1>2, <1>3 DEF Next

(* Whatever a handler leaves behind is of its type: among other things     *)
(* create_blockchain_synopsis comes to its end on every list and chain,    *)
(* with numbers that wrap around included, and every list of ids to get is *)
(* consecutive, which its arithmetic on block numbers takes for granted.   *)
THEOREM NetTypeTheorem == Spec => []NetTypeOK
<1>1. Init => NetInv
  BY InitInv
<1>2. NetInv /\ [Next]_vars => NetInv'
  BY NextInv
<1>3. NetInv => NetTypeOK
  BY DEF NetInv
<1> QED
  BY <1>1, <1>2, <1>3, PTL DEF Spec

(* _active_sync_requests is the set of the blocks requested from connected *)
(* peers, however connections are lost, peers answer late and the fetch    *)
(* loop runs in between: no block stays requested from nobody.             *)
THEOREM RequestsTheorem == Spec => []RequestsAreReal
<1>1. Init => NetInv
  BY InitInv
<1>2. NetInv /\ [Next]_vars => NetInv'
  BY NextInv
<1>3. NetInv => RequestsAreReal
  BY DEF NetInv, OneRequest, Requests, RequestsAreReal
<1> QED
  BY <1>1, <1>2, <1>3, PTL DEF Spec

(* No sync block is requested from two peers at the same time, although    *)
(* their lists name the same blocks.                                       *)
AskedOnce ==
    \A n \in Nodes : \A p, r \in Peers(n) : p # r => peer[n][p].sync_req \cap peer[n][r].sync_req = {}

(* No block is asked of two peers at a time: what fetch_sync_items_loop    *)
(* chooses for a peer is taken neither from an earlier iteration nor from  *)
(* another peer of the same iteration, in any order of the peers.          *)
THEOREM AskedOnceTheorem == Spec => []AskedOnce
<1>1. Init => NetInv
  BY InitInv
<1>2. NetInv /\ [Next]_vars => NetInv'
  BY NextInv
<1>3. NetInv => AskedOnce
  BY DEF NetInv, OneRequest, Requests, AskedOnce
<1> QED
  BY <1>1, <1>2, <1>3, PTL DEF Spec

(* No peer owes more sync blocks than the window of one request, and no    *)
(* more blocks wait for the chain thread than may be handled at a time.    *)
Windows ==
    \A n \in Nodes :
        /\ Len(node[n].handling) <= MaxHandled
        /\ \A p \in Peers(n) : Cardinality(peer[n][p].sync_req) <= MaxPerPeer

(* The limits of node_impl hold in every state: a new request is made only *)
(* of a peer that owes nothing, _maximum_blocks_per_peer_during_syncing    *)
(* blocks at most, and process_backlog_of_sync_blocks stops at             *)
(* _maximum_number_of_blocks_to_handle_at_one_time, wherever it resumes.   *)
THEOREM WindowsTheorem == Spec => []Windows
<1>1. Init => NetInv
  BY InitInv
<1>2. NetInv /\ [Next]_vars => NetInv'
  BY NextInv
<1>3. NetInv => Windows
  <2> SUFFICES ASSUME NetInv, NEW n \in Nodes
               PROVE  /\ Len(node[n].handling) <= MaxHandled
                      /\ \A p \in Peers(n) : Cardinality(peer[n][p].sync_req) <= MaxPerPeer
    BY DEF Windows
  <2>1. node[n] \in NodeType /\ \A p \in Peers(n) : peer[n][p] \in PeerType
    BY StateIn
  <2>2. node[n].handling \in Queues /\ \A p \in Peers(n) : peer[n][p].sync_req \in Few
    BY <2>1 DEF NodeType, PeerType
  <2> QED
    BY <2>2 DEF Queues, Few
<1> QED
  BY <1>1, <1>2, <1>3, PTL DEF Spec
=============================================================================
