---------------------------- MODULE FoldTheorems ----------------------------
(***************************************************************************)
(* Facts about SumFunctionOnSet(f, S), the sum of f[x] over the x in S:    *)
(* what it is for the empty set, what one element adds, and that it        *)
(* depends on nothing else; about folds over sequences; and about the      *)
(* least and greatest numbers of a set.  Sums and folds are recursive      *)
(* functions on subsets, so their facts rest on induction.                 *)
(***************************************************************************)
EXTENDS Integers, FiniteSets, SequencesExt, FiniteSetTheorems, WellFoundedInduction, TLAPS

(* Induction on natural numbers, for sets: the natural numbers are well    *)
(* founded under <, and a least number outside of S cannot exist.          *)
LEMMA SetInduction ==
    ASSUME NEW S, 0 \in S, \A n \in Nat : n \in S => n + 1 \in S
    PROVE  \A n \in Nat : n \in S
<1> DEFINE T == Nat \ S
           R == OpToRel(<, Nat)
<1>1. IsWellFoundedOn(R, Nat)
  BY NatLessThanWellFounded
<1>2. SUFFICES ASSUME T # {} PROVE FALSE
  OBVIOUS
<1>3. PICK x \in T : \A y \in T : ~ (<<y, x>> \in R)
  <2>1. T \subseteq Nat
    OBVIOUS
  <2>2. T # {}
    BY <1>2
  <2> HIDE DEF R, T
  <2> QED
    BY <1>1, <2>1, <2>2, WFMin
<1>4. x - 1 \in Nat /\ <<x - 1, x>> \in R
  BY DEF OpToRel
<1>5. (x - 1) + 1 = x
  OBVIOUS
<1> HIDE DEF R
<1> QED
  BY <1>3, <1>4, <1>5

-----------------------------------------------------------------------------
(* The element a sum takes next, the equation of the recursive function,   *)
(* and the subsets of S with at most n elements.                           *)
OneOf(s) == CHOOSE x \in s : TRUE
Solves(g, f, D) == g = [s \in D |-> IF s = {} THEN 0 ELSE f[OneOf(s)] + g[s \ {OneOf(s)}]]
UpTo(n, S) == {s \in SUBSET S : Cardinality(s) <= n}

LEMMA Smaller ==
    ASSUME NEW S, IsFiniteSet(S), S # {}
    PROVE  /\ OneOf(S) \in S /\ IsFiniteSet(S \ {OneOf(S)})
           /\ Cardinality(S) \in Nat /\ Cardinality(S \ {OneOf(S)}) = Cardinality(S) - 1
<1>1. OneOf(S) \in S
  BY DEF OneOf
<1> QED
  BY <1>1, FS_RemoveElement, FS_CardinalityType

(* The equation has a solution on the subsets of any size. *)
LEMMA SolvedUpTo ==
    ASSUME NEW f, NEW S, IsFiniteSet(S)
    PROVE  \A n \in Nat : \E g : Solves(g, f, UpTo(n, S))
<1> DEFINE N == {n \in Nat : \E g : Solves(g, f, UpTo(n, S))}
<1>0. \A s \in SUBSET S : IsFiniteSet(s) /\ Cardinality(s) \in Nat /\ (Cardinality(s) = 0 <=> s = {})
  BY FS_Subset, FS_CardinalityType, FS_EmptySet
<1>1. 0 \in N
  <2>1. UpTo(0, S) = {{}}
    BY <1>0 DEF UpTo
  <2>2. Solves([s \in UpTo(0, S) |-> 0], f, UpTo(0, S))
    BY <2>1 DEF Solves
  <2> QED
    BY <2>2
<1>2. ASSUME NEW n \in Nat, n \in N PROVE n + 1 \in N
  <2>1. PICK g : Solves(g, f, UpTo(n, S))
    BY <1>2
  <2> DEFINE D == UpTo(n + 1, S)
             val(s) == IF s = {} THEN 0 ELSE f[OneOf(s)] + g[s \ {OneOf(s)}]
             h == [s \in D |-> val(s)]
  <2>2. \A s \in UpTo(n, S) : s \in D /\ h[s] = g[s]
    <3> TAKE s \in UpTo(n, S)
    <3>1. s \in D
      BY <1>0 DEF UpTo
    <3>2. g[s] = val(s)
      BY <2>1 DEF Solves
    <3> QED
      BY <3>1, <3>2
  <2>3. \A s \in D : s # {} => s \ {OneOf(s)} \in UpTo(n, S)
    BY <1>0, Smaller DEF UpTo
  <2>4. \A s \in D : val(s) = IF s = {} THEN 0 ELSE f[OneOf(s)] + h[s \ {OneOf(s)}]
    BY <2>2, <2>3
  <2>5. Solves(h, f, D)
    <3> HIDE DEF val
    <3>1. h = [s \in D |-> IF s = {} THEN 0 ELSE f[OneOf(s)] + h[s \ {OneOf(s)}]]
      BY <2>4
    <3> HIDE DEF h, D
    <3> QED
      BY <3>1 DEF Solves
  <2> HIDE DEF h
  <2> QED
    BY <2>5
<1> HIDE DEF N
<1>3. \A n \in Nat : n \in N
  BY <1>1, <1>2, SetInduction
<1> QED
  BY <1>3 DEF N

LEMMA Solved ==
    ASSUME NEW f, NEW S, IsFiniteSet(S)
    PROVE  \E g : Solves(g, f, SUBSET S)
<1>1. Cardinality(S) \in Nat
  BY FS_CardinalityType
<1>2. UpTo(Cardinality(S), S) = SUBSET S
  BY FS_Subset DEF UpTo
<1>3. \E g : Solves(g, f, UpTo(Cardinality(S), S))
  BY <1>1, SolvedUpTo
<1> QED
  BY <1>2, <1>3

(* ... and a solution for fewer sets agrees with it. *)
LEMMA SolutionUnique ==
    ASSUME NEW f, NEW S, NEW g, NEW h, NEW U, U \subseteq S, IsFiniteSet(U),
           Solves(g, f, SUBSET S), Solves(h, f, SUBSET U)
    PROVE  g[U] = h[U]
<1> DEFINE N == {n \in Nat : \A s \in SUBSET U : Cardinality(s) = n => g[s] = h[s]}
<1>0. \A s \in SUBSET U : IsFiniteSet(s) /\ Cardinality(s) \in Nat /\ (Cardinality(s) = 0 <=> s = {})
  BY FS_Subset, FS_CardinalityType, FS_EmptySet
<1>1. 0 \in N
  BY <1>0 DEF Solves
<1>2. ASSUME NEW n \in Nat, n \in N PROVE n + 1 \in N
  <2> SUFFICES ASSUME NEW s \in SUBSET U, Cardinality(s) = n + 1 PROVE g[s] = h[s]
    OBVIOUS
  <2>1. s # {} /\ Cardinality(s \ {OneOf(s)}) = n
    BY <1>0, Smaller
  <2>2. g[s \ {OneOf(s)}] = h[s \ {OneOf(s)}]
    BY <1>2, <2>1
  <2> QED
    BY <2>1, <2>2 DEF Solves
<1> HIDE DEF N
<1>3. \A n \in Nat : n \in N
  BY <1>1, <1>2, SetInduction
<1> QED
  BY <1>3, <1>0 DEF N

LEMMA SumIsSolution ==
    ASSUME NEW f, NEW S, IsFiniteSet(S)
    PROVE  \E g : Solves(g, f, SUBSET S) /\ SumFunctionOnSet(f, S) = g[S]
<1> DEFINE g == CHOOSE g : Solves(g, f, SUBSET S)
<1>1. Solves(g, f, SUBSET S)
  BY Solved
<1>2. SumFunctionOnSet(f, S) = g[S]
  BY DEF SumFunctionOnSet, FoldFunctionOnSet, MapThenFoldSet, Solves, OneOf
<1> QED
  BY <1>1, <1>2

-----------------------------------------------------------------------------
(* What the sum is: 0 for the empty set, and otherwise the value at some   *)
(* element added to the sum over the others.                               *)
LEMMA SumUnfold ==
    ASSUME NEW f, NEW S, IsFiniteSet(S)
    PROVE  SumFunctionOnSet(f, S) =
               IF S = {} THEN 0 ELSE f[OneOf(S)] + SumFunctionOnSet(f, S \ {OneOf(S)})
<1>1. PICK g : Solves(g, f, SUBSET S) /\ SumFunctionOnSet(f, S) = g[S]
  BY SumIsSolution
<1> DEFINE T == S \ {OneOf(S)}
<1>2. IsFiniteSet(T) /\ T \in SUBSET S
  BY FS_Subset
<1>3. PICK h : Solves(h, f, SUBSET T) /\ SumFunctionOnSet(f, T) = h[T]
  BY <1>2, SumIsSolution
<1>4. g[T] = h[T]
  <2>1. T \subseteq S /\ IsFiniteSet(T) /\ Solves(g, f, SUBSET S) /\ Solves(h, f, SUBSET T)
    BY <1>1, <1>2, <1>3
  <2> HIDE DEF T
  <2> QED
    BY ONLY <2>1, SolutionUnique
<1>5. S \in SUBSET S
  OBVIOUS
<1>6. g[S] = IF S = {} THEN 0 ELSE f[OneOf(S)] + g[T]
  BY <1>1, <1>5 DEF Solves
<1> QED
  BY <1>1, <1>3, <1>4, <1>6

LEMMA SumEmpty ==
    ASSUME NEW f
    PROVE  SumFunctionOnSet(f, {}) = 0
BY SumUnfold, FS_EmptySet

(* The sum of integers is one, and of natural numbers too. *)
LEMMA SumType ==
    ASSUME NEW f, NEW S, IsFiniteSet(S), NEW V \in {Int, Nat}, \A x \in S : f[x] \in V
    PROVE  SumFunctionOnSet(f, S) \in V
<1> DEFINE N == {n \in Nat : \A s \in SUBSET S : Cardinality(s) = n => SumFunctionOnSet(f, s) \in V}
<1>0. \A s \in SUBSET S : IsFiniteSet(s) /\ Cardinality(s) \in Nat /\ (Cardinality(s) = 0 <=> s = {})
  BY FS_Subset, FS_CardinalityType, FS_EmptySet
<1>1. 0 \in N
  BY <1>0, SumEmpty
<1>2. ASSUME NEW n \in Nat, n \in N PROVE n + 1 \in N
  <2> SUFFICES ASSUME NEW s \in SUBSET S, Cardinality(s) = n + 1 PROVE SumFunctionOnSet(f, s) \in V
    OBVIOUS
  <2>1. s # {} /\ IsFiniteSet(s)
    BY <1>0
  <2>2. OneOf(s) \in s /\ Cardinality(s \ {OneOf(s)}) = n
    <3>1. /\ OneOf(s) \in s /\ Cardinality(s) \in Nat
          /\ Cardinality(s \ {OneOf(s)}) = Cardinality(s) - 1
      BY ONLY <2>1, Smaller
    <3> QED
      BY <3>1
  <2>3. SumFunctionOnSet(f, s \ {OneOf(s)}) \in V
    BY <1>2, <2>2
  <2>4. SumFunctionOnSet(f, s) = f[OneOf(s)] + SumFunctionOnSet(f, s \ {OneOf(s)})
    BY <2>1, SumUnfold
  <2> QED
    BY <2>2, <2>3, <2>4
<1> HIDE DEF N
<1>3. \A n \in Nat : n \in N
  BY <1>1, <1>2, SetInduction
<1> QED
  BY <1>3, <1>0 DEF N

(* The sum depends only on the values on S. *)
LEMMA SumEqual ==
    ASSUME NEW f, NEW g, NEW S, IsFiniteSet(S), \A x \in S : f[x] = g[x]
    PROVE  SumFunctionOnSet(f, S) = SumFunctionOnSet(g, S)
<1> DEFINE N == {n \in Nat : \A s \in SUBSET S : Cardinality(s) = n
                                => SumFunctionOnSet(f, s) = SumFunctionOnSet(g, s)}
<1>0. \A s \in SUBSET S : IsFiniteSet(s) /\ Cardinality(s) \in Nat /\ (Cardinality(s) = 0 <=> s = {})
  BY FS_Subset, FS_CardinalityType, FS_EmptySet
<1>1. 0 \in N
  BY <1>0, SumEmpty
<1>2. ASSUME NEW n \in Nat, n \in N PROVE n + 1 \in N
  <2> SUFFICES ASSUME NEW s \in SUBSET S, Cardinality(s) = n + 1
               PROVE  SumFunctionOnSet(f, s) = SumFunctionOnSet(g, s)
    OBVIOUS
  <2>1. s # {} /\ IsFiniteSet(s)
    BY <1>0
  <2>2. OneOf(s) \in s /\ Cardinality(s \ {OneOf(s)}) = n
    <3>1. /\ OneOf(s) \in s /\ Cardinality(s) \in Nat
          /\ Cardinality(s \ {OneOf(s)}) = Cardinality(s) - 1
      BY ONLY <2>1, Smaller
    <3> QED
      BY <3>1
  <2>3. SumFunctionOnSet(f, s \ {OneOf(s)}) = SumFunctionOnSet(g, s \ {OneOf(s)})
    BY <1>2, <2>2
  <2>4. SumFunctionOnSet(f, s) = f[OneOf(s)] + SumFunctionOnSet(f, s \ {OneOf(s)})
    BY <2>1, SumUnfold
  <2>5. SumFunctionOnSet(g, s) = g[OneOf(s)] + SumFunctionOnSet(g, s \ {OneOf(s)})
    BY <2>1, SumUnfold
  <2> QED
    BY <2>2, <2>3, <2>4, <2>5
<1> HIDE DEF N
<1>3. \A n \in Nat : n \in N
  BY <1>1, <1>2, SetInduction
<1> QED
  BY <1>3, <1>0 DEF N

(* OneOf element may be taken out first. *)
LEMMA SumRemove ==
    ASSUME NEW f, NEW S, IsFiniteSet(S), \A x \in S : f[x] \in Int, NEW e \in S
    PROVE  SumFunctionOnSet(f, S) = f[e] + SumFunctionOnSet(f, S \ {e})
<1> DEFINE N == {n \in Nat : \A s \in SUBSET S : Cardinality(s) = n => \A x \in s :
                     SumFunctionOnSet(f, s) = f[x] + SumFunctionOnSet(f, s \ {x})}
<1>0. \A s \in SUBSET S : IsFiniteSet(s) /\ Cardinality(s) \in Nat /\ (Cardinality(s) = 0 <=> s = {})
  BY FS_Subset, FS_CardinalityType, FS_EmptySet
<1>t. \A s \in SUBSET S : SumFunctionOnSet(f, s) \in Int
  BY <1>0, SumType
<1>1. 0 \in N
  BY <1>0
<1>2. ASSUME NEW n \in Nat, n \in N PROVE n + 1 \in N
  <2> SUFFICES ASSUME NEW s \in SUBSET S, Cardinality(s) = n + 1, NEW x \in s
               PROVE  SumFunctionOnSet(f, s) = f[x] + SumFunctionOnSet(f, s \ {x})
    OBVIOUS
  <2>1. s # {} /\ IsFiniteSet(s)
    BY <1>0
  <2> DEFINE a == OneOf(s)
             r == s \ {a}
             u == s \ {x}
             w == (s \ {a}) \ {x}
  <2>2. a \in s /\ Cardinality(r) = n
    <3>1. a \in s /\ Cardinality(s) \in Nat /\ Cardinality(r) = Cardinality(s) - 1
      BY ONLY <2>1, Smaller
    <3> QED
      BY <3>1
  <2>3. SumFunctionOnSet(f, s) = f[a] + SumFunctionOnSet(f, r)
    BY <2>1, SumUnfold
  <2>4. CASE x = a
    BY <2>3, <2>4
  <2>5. CASE x # a
    <3>1. x \in r /\ SumFunctionOnSet(f, r) = f[x] + SumFunctionOnSet(f, w)
      BY <1>2, <2>2, <2>5
    <3>2. a \in u /\ Cardinality(u) = n /\ w = u \ {a}
      <4>1. Cardinality(u) = Cardinality(s) - 1
        BY <2>1, FS_RemoveElement
      <4> QED
        BY <4>1, <2>2, <2>5
    <3>3. SumFunctionOnSet(f, u) = f[a] + SumFunctionOnSet(f, w)
      <4>1. u \in SUBSET S
        OBVIOUS
      <4> HIDE DEF u, w, a
      <4> QED
        BY <1>2, <3>2, <4>1
    <3>4. f[a] \in Int /\ f[x] \in Int /\ SumFunctionOnSet(f, w) \in Int
      BY <1>t, <2>2
    <3> HIDE DEF a, r, u, w
    <3>5. SumFunctionOnSet(f, s) = f[x] + SumFunctionOnSet(f, u)
      BY <2>3, <3>1, <3>3, <3>4
    <3> QED
      BY <3>5 DEF u
  <2> QED
    BY <2>4, <2>5
<1> HIDE DEF N
<1>3. \A n \in Nat : n \in N
  BY <1>1, <1>2, SetInduction
<1> QED
  BY <1>3, <1>0 DEF N

(* Two functions that differ only at e have sums that differ as they do.   *)
LEMMA SumChange ==
    ASSUME NEW f, NEW g, NEW S, IsFiniteSet(S), \A x \in S : f[x] \in Int /\ g[x] \in Int,
           NEW e \in S, \A x \in S \ {e} : f[x] = g[x]
    PROVE  SumFunctionOnSet(g, S) = SumFunctionOnSet(f, S) + g[e] - f[e]
<1> DEFINE T == S \ {e}
<1>1. IsFiniteSet(T) /\ T \in SUBSET S
  BY FS_Subset
<1>2. SumFunctionOnSet(f, T) = SumFunctionOnSet(g, T)
  BY <1>1, SumEqual
<1>3. SumFunctionOnSet(f, T) \in Int
  BY <1>1, SumType
<1>4. SumFunctionOnSet(f, S) = f[e] + SumFunctionOnSet(f, T)
  BY SumRemove
<1>5. SumFunctionOnSet(g, S) = g[e] + SumFunctionOnSet(g, T)
  BY SumRemove
<1>6. f[e] \in Int /\ g[e] \in Int
  OBVIOUS
<1> HIDE DEF T
<1> QED
  BY <1>2, <1>3, <1>4, <1>5, <1>6

(* A sum of zeros is zero. *)
LEMMA SumZero ==
    ASSUME NEW f, NEW S, IsFiniteSet(S), \A x \in S : f[x] = 0
    PROVE  SumFunctionOnSet(f, S) = 0
<1> DEFINE N == {n \in Nat : \A s \in SUBSET S : Cardinality(s) = n => SumFunctionOnSet(f, s) = 0}
<1>0. \A s \in SUBSET S : IsFiniteSet(s) /\ Cardinality(s) \in Nat /\ (Cardinality(s) = 0 <=> s = {})
  BY FS_Subset, FS_CardinalityType, FS_EmptySet
<1>1. 0 \in N
  BY <1>0, SumEmpty
<1>2. ASSUME NEW n \in Nat, n \in N PROVE n + 1 \in N
  <2> SUFFICES ASSUME NEW s \in SUBSET S, Cardinality(s) = n + 1 PROVE SumFunctionOnSet(f, s) = 0
    OBVIOUS
  <2>1. s # {} /\ IsFiniteSet(s)
    BY <1>0
  <2>2. OneOf(s) \in s /\ Cardinality(s \ {OneOf(s)}) = n
    <3>1. /\ OneOf(s) \in s /\ Cardinality(s) \in Nat
          /\ Cardinality(s \ {OneOf(s)}) = Cardinality(s) - 1
      BY ONLY <2>1, Smaller
    <3> QED
      BY <3>1
  <2>3. SumFunctionOnSet(f, s \ {OneOf(s)}) = 0
    BY <1>2, <2>2
  <2>4. SumFunctionOnSet(f, s) = f[OneOf(s)] + SumFunctionOnSet(f, s \ {OneOf(s)})
    BY <2>1, SumUnfold
  <2> QED
    BY <2>2, <2>3, <2>4
<1> HIDE DEF N
<1>3. \A n \in Nat : n \in N
  BY <1>1, <1>2, SetInduction
<1> QED
  BY <1>3, <1>0 DEF N

(* Induction on finite sets, for a set P of subsets. *)
LEMMA FiniteInduction ==
    ASSUME NEW S, IsFiniteSet(S), NEW P, {} \in P,
           \A u \in SUBSET S, x \in S : u \in P /\ x \notin u => u \cup {x} \in P
    PROVE  S \in P
<1> DEFINE N == {n \in Nat : \A u \in SUBSET S : Cardinality(u) = n => u \in P}
<1>0. \A u \in SUBSET S : IsFiniteSet(u) /\ Cardinality(u) \in Nat /\ (Cardinality(u) = 0 <=> u = {})
  BY FS_Subset, FS_CardinalityType, FS_EmptySet
<1>1. 0 \in N
  BY <1>0
<1>2. ASSUME NEW n \in Nat, n \in N PROVE n + 1 \in N
  <2> SUFFICES ASSUME NEW u \in SUBSET S, Cardinality(u) = n + 1 PROVE u \in P
    OBVIOUS
  <2>1. PICK x \in u : TRUE
    BY <1>0
  <2>2. u \ {x} \in SUBSET S /\ x \in S /\ x \notin u \ {x} /\ (u \ {x}) \cup {x} = u
    BY <2>1
  <2>3. Cardinality(u \ {x}) = n
    <3>1. IsFiniteSet(u) /\ Cardinality(u) \in Nat
      BY <1>0
    <3>2. Cardinality(u \ {x}) = Cardinality(u) - 1
      BY ONLY <3>1, <2>1, FS_RemoveElement
    <3> QED
      BY <3>1, <3>2
  <2>4. u \ {x} \in P
    BY <1>2, <2>2, <2>3
  <2>5. (u \ {x}) \cup {x} \in P
    BY <2>2, <2>4
  <2> QED
    BY <2>2, <2>5
<1> HIDE DEF N
<1>3. \A n \in Nat : n \in N
  BY <1>1, <1>2, SetInduction
<1> QED
  BY <1>0, <1>3 DEF N

(* The sum over a union of sets without a common element. *)
LEMMA SumUnion ==
    ASSUME NEW f, NEW S, NEW T, IsFiniteSet(S), IsFiniteSet(T), S \cap T = {},
           \A x \in S \cup T : f[x] \in Int
    PROVE  SumFunctionOnSet(f, S \cup T) = SumFunctionOnSet(f, S) + SumFunctionOnSet(f, T)
<1> DEFINE P == {u \in SUBSET T : SumFunctionOnSet(f, S \cup u) = SumFunctionOnSet(f, S) + SumFunctionOnSet(f, u)}
<1>0. ASSUME NEW u \in SUBSET T
      PROVE  /\ IsFiniteSet(u) /\ IsFiniteSet(S \cup u)
             /\ SumFunctionOnSet(f, u) \in Int /\ SumFunctionOnSet(f, S) \in Int
  <2>1. IsFiniteSet(u) /\ IsFiniteSet(S \cup u)
    BY FS_Subset, FS_Union
  <2>2. \A x \in u : f[x] \in Int
    OBVIOUS
  <2>3. \A x \in S : f[x] \in Int
    OBVIOUS
  <2> QED
    BY <2>1, <2>2, <2>3, SumType
<1>1. {} \in P
  <2>1. S \cup {} = S /\ SumFunctionOnSet(f, {}) = 0
    BY SumEmpty
  <2>2. SumFunctionOnSet(f, S) \in Int
    BY <1>0
  <2> QED
    BY <2>1, <2>2
<1>2. ASSUME NEW u \in SUBSET T, NEW x \in T, u \in P, x \notin u PROVE u \cup {x} \in P
  <2> DEFINE w == u \cup {x}
             V == S \cup w
  <2>1. /\ w \in SUBSET T /\ w \ {x} = u /\ x \in w /\ x \in V /\ V \ {x} = S \cup u
        /\ \A y \in V : f[y] \in Int
    BY <1>2
  <2>2. IsFiniteSet(w) /\ IsFiniteSet(V) /\ \A y \in w : f[y] \in Int
    BY <1>0, <2>1
  <2> HIDE DEF w, V
  <2>3. SumFunctionOnSet(f, V) = f[x] + SumFunctionOnSet(f, V \ {x})
    BY ONLY <2>1, <2>2, SumRemove
  <2>4. SumFunctionOnSet(f, w) = f[x] + SumFunctionOnSet(f, w \ {x})
    BY ONLY <2>1, <2>2, SumRemove
  <2>5. SumFunctionOnSet(f, V \ {x}) = SumFunctionOnSet(f, S \cup u) /\ SumFunctionOnSet(f, w \ {x}) = SumFunctionOnSet(f, u)
    BY <2>1
  <2>6. SumFunctionOnSet(f, S \cup u) = SumFunctionOnSet(f, S) + SumFunctionOnSet(f, u)
    BY <1>2
  <2>7. SumFunctionOnSet(f, u) \in Int /\ SumFunctionOnSet(f, S) \in Int /\ f[x] \in Int
    BY <1>0
  <2>8. SumFunctionOnSet(f, V) = SumFunctionOnSet(f, S) + SumFunctionOnSet(f, w)
    BY ONLY <2>3, <2>4, <2>5, <2>6, <2>7
  <2> QED
    BY <2>1, <2>8 DEF w, V
<1> HIDE DEF P
<1>3. T \in P
  BY <1>1, <1>2, FiniteInduction
<1> QED
  BY <1>3 DEF P

-----------------------------------------------------------------------------
(* Folds over a sequence: FoldLeft is a recursive function on the sets of *)
(* positions, which takes the greatest position off last.                  *)

(* The greatest element of a set of numbers up to n. *)
LEMMA MaxUpTo ==
    ASSUME NEW n \in Nat, NEW s \in SUBSET (1 .. n), s # {}
    PROVE  Max(s) \in s /\ \A i \in s : i <= Max(s)
<1> DEFINE N == {m \in Nat : \A u \in SUBSET (1 .. m) : u # {} => \E x \in u : \A i \in u : x >= i}
<1>1. 0 \in N
  <2>1. 1 .. 0 = {}
    OBVIOUS
  <2> QED
    BY <2>1
<1>2. ASSUME NEW m \in Nat, m \in N PROVE m + 1 \in N
  <2> SUFFICES ASSUME NEW u \in SUBSET (1 .. m + 1), u # {} PROVE \E x \in u : \A i \in u : x >= i
    OBVIOUS
  <2>1. CASE m + 1 \in u
    BY <2>1
  <2>2. CASE m + 1 \notin u
    <3>1. u \in SUBSET (1 .. m)
      BY <2>2
    <3> QED
      BY <1>2, <3>1
  <2> QED
    BY <2>1, <2>2
<1>3. n \in N
  <2> HIDE DEF N
  <2> QED
    BY <1>1, <1>2, SetInduction
<1>4. \E x \in s : \A i \in s : x >= i
  BY <1>3
<1> QED
  BY <1>4 DEF Max

(* The equation of a fold over the first m positions. *)
FoldSolvesBy(G, F, A, base, m) ==
    /\ G = [s \in SUBSET (1 .. m) |-> G[s]]
    /\ \A s \in SUBSET (1 .. m) :
          G[s] \in A[s] /\ G[s] = IF s = {} THEN base ELSE F[<<G[s \ {Max(s)}], Max(s)>>]

(* It has a solution when the step leads from what may be reached over the *)
(* positions s to what may be reached over s and a later position.         *)
LEMMA FoldSolutionBy ==
    ASSUME NEW n \in Nat, NEW A, NEW base \in A[{}], NEW F,
           \A i \in 1 .. n : \A s \in SUBSET (1 .. i - 1) : \A a \in A[s] : F[<<a, i>>] \in A[s \cup {i}]
    PROVE  \E G : FoldSolvesBy(G, F, A, base, n)
<1> DEFINE N == {m \in Nat : m <= n => \E G : FoldSolvesBy(G, F, A, base, m)}
<1>1. 0 \in N
  <2> DEFINE G == [s \in SUBSET (1 .. 0) |-> base]
  <2>1. \A s \in SUBSET (1 .. 0) : s = {}
    OBVIOUS
  <2>2. FoldSolvesBy(G, F, A, base, 0)
    BY <2>1 DEF FoldSolvesBy
  <2> QED
    BY <2>2
<1>2. ASSUME NEW m \in Nat, m \in N PROVE m + 1 \in N
  <2> SUFFICES ASSUME m + 1 <= n PROVE \E H : FoldSolvesBy(H, F, A, base, m + 1)
    OBVIOUS
  <2>1. PICK G : FoldSolvesBy(G, F, A, base, m)
    BY <1>2
  <2>a. \A s \in SUBSET (1 .. m) : G[s] \in A[s]
    BY <2>1 DEF FoldSolvesBy
  <2>b. m + 1 \in 1 .. n /\ (m + 1) - 1 = m
    OBVIOUS
  <2>c. \A s \in SUBSET (1 .. m) : F[<<G[s], m + 1>>] \in A[s \cup {m + 1}]
    BY <2>a, <2>b
  <2> DEFINE H == [s \in SUBSET (1 .. m + 1) |->
                     IF m + 1 \in s THEN F[<<G[s \ {m + 1}], m + 1>>] ELSE G[s]]
  <2>2. ASSUME NEW s \in SUBSET (1 .. m + 1)
        PROVE  /\ H[s] \in A[s]
               /\ H[s] = IF s = {} THEN base ELSE F[<<H[s \ {Max(s)}], Max(s)>>]
    <3>1. CASE m + 1 \in s
      <4>1. Max(s) = m + 1
        <5>1. m + 1 \in Nat /\ s # {}
          BY <3>1
        <5>2. Max(s) \in s /\ m + 1 <= Max(s)
          BY <3>1, <5>1, MaxUpTo
        <5>3. Max(s) \in 1 .. m + 1
          BY <5>2
        <5> QED
          BY <5>2, <5>3
      <4> DEFINE u == s \ {m + 1}
      <4>2. u \in SUBSET (1 .. m) /\ u \cup {m + 1} = s
        BY <3>1
      <4>3. H[s] = F[<<G[u], m + 1>>]
        BY <3>1
      <4>4. H[u] = G[u]
        BY <4>2
      <4>5. F[<<G[u], m + 1>>] \in A[s]
        <5> HIDE DEF u
        <5> QED
          BY <2>c, <4>2
      <4> HIDE DEF H
      <4> QED
        BY <4>1, <4>3, <4>4, <4>5, <3>1
    <3>2. CASE m + 1 \notin s
      <4>1. s \in SUBSET (1 .. m)
        BY <3>2
      <4>2. H[s] = G[s] /\ G[s] \in A[s]
        BY <3>2, <4>1, <2>a
      <4>3. CASE s = {}
        BY <4>1, <4>2, <4>3, <2>1 DEF FoldSolvesBy
      <4>4. CASE s # {}
        <5>1. s \ {Max(s)} \in SUBSET (1 .. m) /\ m + 1 \notin s \ {Max(s)}
          BY <4>1, <3>2
        <5>2. H[s \ {Max(s)}] = G[s \ {Max(s)}]
          BY <5>1
        <5>3. G[s] = F[<<G[s \ {Max(s)}], Max(s)>>]
          BY <4>1, <4>4, <2>1 DEF FoldSolvesBy
        <5> HIDE DEF H
        <5> QED
          BY <4>2, <4>4, <5>2, <5>3
      <4> QED
        BY <4>3, <4>4
    <3> QED
      BY <3>1, <3>2
  <2>3. H = [s \in SUBSET (1 .. m + 1) |-> H[s]]
    OBVIOUS
  <2> HIDE DEF H
  <2> QED
    BY <2>2, <2>3 DEF FoldSolvesBy
<1> HIDE DEF N
<1>3. n \in N
  BY <1>1, <1>2, SetInduction
<1> QED
  BY <1>3 DEF N

(* The case in which every step keeps to one set. *)
FoldSolves(G, F, A, base, m) ==
    /\ G \in [SUBSET (1 .. m) -> A]
    /\ \A s \in SUBSET (1 .. m) :
          G[s] = IF s = {} THEN base ELSE F[<<G[s \ {Max(s)}], Max(s)>>]

LEMMA FoldSolution ==
    ASSUME NEW n \in Nat, NEW A, NEW base \in A, NEW F,
           \A a \in A, i \in 1 .. n : F[<<a, i>>] \in A
    PROVE  \E G : FoldSolves(G, F, A, base, n)
<1> DEFINE B == [s \in SUBSET (1 .. n) |-> A]
<1>1. \A s \in SUBSET (1 .. n) : B[s] = A
  OBVIOUS
<1>2. \A i \in 1 .. n : \A s \in SUBSET (1 .. i - 1) : s \in SUBSET (1 .. n) /\ s \cup {i} \in SUBSET (1 .. n)
  OBVIOUS
<1> HIDE DEF B
<1>3. base \in B[{}]
  BY <1>1
<1>4. \A i \in 1 .. n : \A s \in SUBSET (1 .. i - 1) : \A a \in B[s] : F[<<a, i>>] \in B[s \cup {i}]
  BY <1>1, <1>2
<1>5. PICK G : FoldSolvesBy(G, F, B, base, n)
  BY <1>3, <1>4, FoldSolutionBy
<1>6. FoldSolves(G, F, A, base, n)
  BY <1>1, <1>5 DEF FoldSolves, FoldSolvesBy
<1> QED
  BY <1>6

(* What a fold has reached after each position. *)
LEMMA FoldStays ==
    ASSUME NEW n \in Nat, NEW A, NEW g, g[{}] \in A,
           \A k \in 1 .. n : g[1 .. k - 1] \in A => g[1 .. k] \in A
    PROVE  g[1 .. n] \in A
<1> DEFINE N == {k \in Nat : k <= n => g[1 .. k] \in A}
<1>1. 0 \in N
  <2>1. 1 .. 0 = {}
    OBVIOUS
  <2> QED
    BY <2>1
<1>2. ASSUME NEW k \in Nat, k \in N PROVE k + 1 \in N
  <2>1. (k + 1) - 1 = k /\ (k + 1 <= n => k + 1 \in 1 .. n /\ k <= n)
    OBVIOUS
  <2> QED
    BY <1>2, <2>1
<1> HIDE DEF N
<1>3. n \in N
  BY <1>1, <1>2, SetInduction
<1> QED
  BY <1>3 DEF N

(* The first k positions, as a set. *)
LEMMA Prefix ==
    ASSUME NEW n \in Nat, NEW k \in 1 .. n
    PROVE  /\ 1 .. k \in SUBSET (1 .. n) /\ 1 .. k # {}
           /\ Max(1 .. k) = k /\ (1 .. k) \ {k} = 1 .. k - 1
<1>1. 1 .. k \in SUBSET (1 .. n) /\ 1 .. k # {} /\ k \in 1 .. k /\ (1 .. k) \ {k} = 1 .. k - 1
  OBVIOUS
<1>2. Max(1 .. k) \in 1 .. k /\ k <= Max(1 .. k)
  BY <1>1, MaxUpTo
<1> QED
  BY <1>1, <1>2
-----------------------------------------------------------------------------
(* Least and greatest numbers of a set, and a part of a sequence. *)
LEMMA Least ==
    ASSUME NEW S \in SUBSET Nat, S # {}
    PROVE  \E x \in S : \A y \in S : x <= y
<1> DEFINE N == {n \in Nat : \A k \in 0 .. n : k \in S => \E x \in S : \A y \in S : x <= y}
<1>1. 0 \in N
  OBVIOUS
<1>2. ASSUME NEW n \in Nat, n \in N PROVE n + 1 \in N
  <2>1. CASE \E k \in 0 .. n : k \in S
    BY <1>2, <2>1
  <2>2. CASE \A k \in 0 .. n : k \notin S
    <3>1. ASSUME NEW k \in 0 .. n + 1, k \in S PROVE \E x \in S : \A y \in S : x <= y
      <4>1. k = n + 1
        BY <2>2, <3>1
      <4>2. \A y \in S : y \in Nat /\ y \notin 0 .. n
        BY <2>2
      <4>3. \A y \in S : k <= y
        BY <4>1, <4>2
      <4> QED
        BY <3>1, <4>3
    <3> QED
      BY <3>1
  <2> QED
    BY <2>1, <2>2
<1>3. \A n \in Nat : n \in N
  <2> HIDE DEF N
  <2> QED
    BY <1>1, <1>2, SetInduction
<1>4. PICK s \in S : TRUE
  OBVIOUS
<1> QED
  BY <1>3, <1>4

LEMMA MaxFound ==
    ASSUME NEW n \in Nat, NEW S \in SUBSET (0 .. n), S # {}
    PROVE  Max(S) \in S /\ \A i \in S : i <= Max(S)
<1> DEFINE T == {n - i : i \in S}
<1>1. T \in SUBSET Nat /\ T # {}
  <2>1. \A i \in S : i \in Int /\ i >= 0 /\ i <= n
    OBVIOUS
  <2>2. \A i \in S : n - i \in Nat
    BY <2>1
  <2> QED
    BY <2>2
<1>2. PICK t \in T : \A y \in T : t <= y
  BY <1>1, Least
<1>3. PICK x \in S : t = n - x
  OBVIOUS
<1>4. \A i \in S : x >= i
  <2>1. ASSUME NEW i \in S PROVE x >= i
    <3>1. n - i \in T /\ n - x <= n - i /\ x \in Int /\ i \in Int
      BY <1>2, <1>3
    <3> QED
      BY <3>1
  <2> QED
    BY <2>1
<1>5. \E y \in S : \A i \in S : y >= i
  BY <1>4
<1> QED
  BY <1>5 DEF Max

LEMMA MinOfTwo ==
    ASSUME NEW a \in Int, NEW b \in Int
    PROVE  Min({a, b}) = (IF a <= b THEN a ELSE b)
BY DEF Min

LEMMA MaxOfTwo ==
    ASSUME NEW a \in Int, NEW b \in Int
    PROVE  Max({a, b}) = (IF a >= b THEN a ELSE b)
BY DEF Max

LEMMA Slice ==
    ASSUME NEW X, NEW u \in Seq(X), NEW m \in Nat \ {0}, NEW n \in Nat, m <= n + 1, n <= Len(u)
    PROVE  /\ SubSeq(u, m, n) \in Seq(X) /\ Len(SubSeq(u, m, n)) = n - m + 1
           /\ \A i \in 1 .. n - m + 1 : SubSeq(u, m, n)[i] = u[i + m - 1]
OBVIOUS
-----------------------------------------------------------------------------
(* Every finite set with a total order on it can be listed in that order. *)
LEMMA Listing ==
    ASSUME NEW S, IsFiniteSet(S), NEW R,
           \A i, j \in S : i # j => <<i, j>> \in R \/ <<j, i>> \in R,
           \A i, j, k \in S : <<i, j>> \in R /\ <<j, k>> \in R => <<i, k>> \in R
    PROVE  \E s \in [1 .. Cardinality(S) -> S] :
               Range(s) = S /\ \A i, j \in 1 .. Cardinality(S) : i < j => <<s[i], s[j]>> \in R
<1> DEFINE Sorts(s, u) == /\ s \in [1 .. Cardinality(u) -> u] /\ Range(s) = u
                          /\ \A i, j \in DOMAIN s : i < j => <<s[i], s[j]>> \in R
           P == {u \in SUBSET S : \E s : Sorts(s, u)}
<1>0. \A u \in SUBSET S : IsFiniteSet(u) /\ Cardinality(u) \in Nat
  BY FS_Subset, FS_CardinalityType
<1>e. /\ \A i, j \in S : i # j => <<i, j>> \in R \/ <<j, i>> \in R
      /\ \A i, j, k \in S : <<i, j>> \in R /\ <<j, k>> \in R => <<i, k>> \in R
  OBVIOUS
<1>1. {} \in P
  <2>1. Cardinality({}) = 0 /\ 1 .. 0 = {}
    BY FS_EmptySet
  <2>2. Sorts([i \in 1 .. 0 |-> 0], {})
    BY <2>1 DEF Range
  <2> QED
    BY <2>2
<1>2. ASSUME NEW u \in SUBSET S, NEW x \in S, u \in P, x \notin u
      PROVE  u \cup {x} \in P
  <2> DEFINE v == u \cup {x}
             n == Cardinality(u)
  <2>1. PICK s : Sorts(s, u)
    BY <1>2
  <2>2. n \in Nat /\ Cardinality(v) = n + 1 /\ v \in SUBSET S
    BY <1>0, <1>2, FS_AddElement
  <2>3. /\ s \in [1 .. n -> u] /\ \A y \in u : \E i \in 1 .. n : s[i] = y
        /\ \A i, j \in 1 .. n : i < j => <<s[i], s[j]>> \in R
    BY <2>1 DEF Range
  <2>d. \A i \in 1 .. n : s[i] \in u /\ s[i] \in S /\ s[i] # x
    BY <1>2, <2>3
  <2>4. \E k \in 0 .. n : /\ \A i \in 1 .. k : <<s[i], x>> \in R
                          /\ \A i \in (k + 1) .. n : <<x, s[i]>> \in R
    <3> DEFINE B == {i \in 1 .. n : <<s[i], x>> \in R}
    <3>1. CASE B = {}
      <4>1. \A i \in 1 .. n : <<x, s[i]>> \in R
        BY <1>e, <2>d, <3>1
      <4>2. 0 \in 0 .. n /\ 1 .. 0 = {} /\ 0 + 1 = 1
        BY <2>2
      <4> QED
        BY <4>1, <4>2
    <3>2. CASE B # {}
      <4> DEFINE k == Max(B)
      <4>1. k \in B /\ \A i \in B : i <= k
        BY <2>2, <3>2, MaxUpTo
      <4> HIDE DEF k
      <4>2. k \in 1 .. n /\ <<s[k], x>> \in R
        BY <4>1
      <4>3. ASSUME NEW i \in 1 .. k PROVE <<s[i], x>> \in R
        <5>1. i = k \/ <<s[i], s[k]>> \in R
          BY <2>2, <2>3, <4>2
        <5>2. s[i] \in S /\ s[k] \in S
          BY <2>2, <2>d, <4>2
        <5> QED
          BY <1>e, <4>2, <5>1, <5>2
      <4>4. ASSUME NEW i \in (k + 1) .. n PROVE <<x, s[i]>> \in R
        <5>1. i \in 1 .. n /\ i \notin B
          BY <2>2, <4>1, <4>2
        <5>2. s[i] \in S /\ s[i] # x /\ ~ <<s[i], x>> \in R
          BY <2>d, <5>1
        <5> QED
          BY <1>e, <5>2
      <4> QED
        BY <2>2, <4>2, <4>3, <4>4
    <3> QED
      BY <3>1, <3>2
  <2>5. PICK k \in 0 .. n : /\ \A i \in 1 .. k : <<s[i], x>> \in R
                            /\ \A i \in (k + 1) .. n : <<x, s[i]>> \in R
    BY <2>4
  <2> DEFINE w == [i \in 1 .. n + 1 |-> IF i <= k THEN s[i] ELSE IF i = k + 1 THEN x ELSE s[i - 1]]
  <2>6. w \in [1 .. n + 1 -> v]
    BY <2>2, <2>3
  <2>7. \A y \in v : \E i \in 1 .. n + 1 : w[i] = y
    <3>1. w[k + 1] = x /\ k + 1 \in 1 .. n + 1
      BY <2>2
    <3>2. ASSUME NEW i \in 1 .. n PROVE \E j \in 1 .. n + 1 : w[j] = s[i]
      <4>1. CASE i <= k
        BY <2>2, <4>1
      <4>2. CASE ~ (i <= k)
        <5>1. i + 1 \in 1 .. n + 1 /\ ~ (i + 1 <= k) /\ i + 1 # k + 1 /\ (i + 1) - 1 = i
          BY <2>2, <4>2
        <5>2. w[i + 1] = s[i]
          BY <5>1
        <5> QED
          BY <5>1, <5>2
      <4> QED
        BY <4>1, <4>2
    <3> QED
      BY <2>3, <3>1, <3>2
  <2>8. ASSUME NEW i \in 1 .. n + 1, NEW j \in 1 .. n + 1, i < j PROVE <<w[i], w[j]>> \in R
    <3>1. /\ i <= k => w[i] = s[i] /\ i \in 1 .. k /\ i \in 1 .. n
          /\ i = k + 1 => w[i] = x
          /\ i > k + 1 => w[i] = s[i - 1] /\ i - 1 \in 1 .. n
          /\ j <= k => w[j] = s[j] /\ j \in 1 .. n
          /\ j = k + 1 => w[j] = x
          /\ j > k + 1 => w[j] = s[j - 1] /\ j - 1 \in (k + 1) .. n /\ j - 1 \in 1 .. n
      BY <2>2
    <3>2. CASE i <= k
      <4>1. j <= k \/ j = k + 1 \/ (j > k + 1 /\ i < j - 1)
        BY <2>2, <3>2
      <4> HIDE DEF w
      <4> QED
        BY <2>3, <2>5, <2>8, <3>1, <3>2, <4>1
    <3>3. CASE i = k + 1
      <4>1. j > k + 1
        BY <2>2, <2>8, <3>3
      <4> HIDE DEF w
      <4> QED
        BY <2>5, <3>1, <3>3, <4>1
    <3>4. CASE i > k + 1
      <4>1. j > k + 1 /\ i - 1 < j - 1
        BY <2>2, <2>8, <3>4
      <4> HIDE DEF w
      <4> QED
        BY <2>3, <3>1, <3>4, <4>1
    <3> QED
      BY <2>2, <3>2, <3>3, <3>4
  <2> HIDE DEF w
  <2>9. Sorts(w, v)
    BY <2>2, <2>6, <2>7, <2>8 DEF Range
  <2> QED
    BY <2>2, <2>9
<1>3. S \in P
  <2> HIDE DEF P
  <2> QED
    BY <1>1, <1>2, FiniteInduction
<1>4. PICK s : Sorts(s, S)
  BY <1>3
<1> QED
  BY <1>4, ZenonT(30)
=============================================================================
