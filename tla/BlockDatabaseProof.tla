------------------------- MODULE BlockDatabaseProof -------------------------
(***************************************************************************)
(* Proofs about module BlockDatabase, for any blocks and any number of     *)
(* writes and crashes:                                                     *)
(*                                                                         *)
(*   DBTypeTheorem      the type invariant                                 *)
(*   FetchTheorem       a fetch answers with the block that was asked for  *)
(*   CrashTheorem       a death of the process costs at most one block     *)
(*   BlockMapTheorem    until then the files are the table of BlockMap     *)
(*                                                                         *)
(* The bound on crashes is not inductive: an entry that remove() took out  *)
(* comes back when the buffer of the index is lost.  The invariant counts  *)
(* the entries without a block in the index as a read sees it and in the   *)
(* index as it is on disk.                                                 *)
(***************************************************************************)
EXTENDS BlockDatabase, FoldTheorems

-----------------------------------------------------------------------------
(* A bounded set of numbers has a maximum. *)
LEMMA MaxIn ==
    ASSUME NEW S \in SUBSET Nat, S # {}, NEW m \in Nat, \A x \in S : x <= m
    PROVE  Max(S) \in S /\ \A x \in S : Max(S) >= x
<1> DEFINE N == {n \in Nat : \A T \in SUBSET Nat : T # {} /\ (\A x \in T : x <= n)
                               => \E x \in T : \A y \in T : x >= y}
<1>1. 0 \in N
  <2> SUFFICES ASSUME NEW T \in SUBSET Nat, T # {}, \A x \in T : x <= 0
               PROVE  \E x \in T : \A y \in T : x >= y
    OBVIOUS
  <2>1. \A x \in T : x = 0
    OBVIOUS
  <2> QED
    BY <2>1
<1>2. ASSUME NEW n \in Nat, n \in N PROVE n + 1 \in N
  <2> SUFFICES ASSUME NEW T \in SUBSET Nat, T # {}, \A x \in T : x <= n + 1
               PROVE  \E x \in T : \A y \in T : x >= y
    OBVIOUS
  <2>1. CASE n + 1 \in T
    BY <2>1
  <2>2. CASE n + 1 \notin T
    <3>1. \A x \in T : x <= n
      BY <2>2
    <3> QED
      BY <3>1, <1>2
  <2> QED
    BY <2>1, <2>2
<1> HIDE DEF N
<1>3. m \in N
  BY <1>1, <1>2, SetInduction
<1>4. \E x \in S : \A y \in S : x >= y
  BY <1>3 DEF N
<1> QED
  BY <1>4 DEF Max

-----------------------------------------------------------------------------
(* The invariant *)

(* An entry at number n names a block of that number, if any. *)
EntryOK(e, n) ==
    /\ e.block_size > 0 => e.block_id # Zero
    /\ e.block_id # Zero => Num[e.block_id] = n

EntriesOK ==
    /\ \A n \in Numbers : EntryOK(index_file[n], n)
    /\ index_buf # <<>> => EntryOK(index_buf[1].entry, index_buf[1].num)

(* The entries of the index ix that claim a block the file bl lacks. *)
At(bl, pos)  == IF pos \in 1 .. Len(bl) THEN bl[pos] ELSE Zero
Lost(ix, bl) == {n \in Numbers : ix[n].block_size > 0 /\ At(bl, ix[n].block_pos) # ix[n].block_id}

Bad == Lost(Index, AllBlocks) \cup Lost(index_file, AllBlocks)

(* Before the first crash no entry points behind the blocks. *)
NoneDangles == crashes = 0 => \A n \in Numbers : Index[n].block_pos <= Len(AllBlocks)

DBInv == DBTypeOK /\ EntriesOK /\ Cardinality(Bad) <= crashes /\ NoneDangles

LEMMA FirstType ==
    ASSUME NEW X, NEW s \in Seq(X), s # <<>>
    PROVE  s[1] \in X
OBVIOUS

LEMMA EmptySequence ==
    ASSUME NEW X
    PROVE  <<>> \in Seq(X) /\ Len(<<>>) <= 1
OBVIOUS

LEMMA Singleton ==
    ASSUME NEW X, NEW s \in Seq(X), s # <<>>, Len(s) <= 1, NEW t \in Seq(X)
    PROVE  s[1] \in X /\ s = <<s[1]>> /\ t \o s = Append(t, s[1])
<1>0. Len(s) \in Nat /\ (Len(s) = 0 => s = <<>>)
  OBVIOUS
<1>1. Len(s) = 1 /\ s[1] \in X
  <2> DEFINE k == Len(s)
  <2>0. k \in Nat /\ k # 0 /\ k <= 1
    BY <1>0, Zenon
  <2> HIDE DEF k
  <2>1. k = 1
    BY <2>0
  <2> QED
    BY <2>1, FirstType DEF k
<1>2. s = <<s[1]>>
  BY <1>1
<1>3. t \o <<s[1]>> = Append(t, s[1])
  BY <1>1
<1> QED
  BY <1>1, <1>2, <1>3

(* The types of what the definitions compute. *)
LEMMA Types ==
    ASSUME DBTypeOK
    PROVE  /\ Index \in [Numbers -> IndexEntry]
           /\ AllBlocks \in Seq(Blocks) /\ Len(AllBlocks) = Len(blocks_file) + Len(blocks_buf)
           /\ Len(AllBlocks) \in Nat
           /\ \A b \in Blocks : Num[b] \in Numbers
           /\ MaxNum \in Nat /\ Zero \notin Blocks /\ Numbers \subseteq Nat
           /\ \A n \in Numbers : index_buf = <<>> => Index[n] = index_file[n]
<1>1. ASSUME NEW n \in Numbers
      PROVE  (IF index_buf # <<>> /\ index_buf[1].num = n
              THEN index_buf[1].entry ELSE index_file[n]) \in IndexEntry
  <2>1. CASE index_buf # <<>>
    <3>1. index_buf[1] \in [num : Numbers, entry : IndexEntry]
      BY <2>1, FirstType DEF DBTypeOK
    <3> QED
      BY <3>1 DEF DBTypeOK
  <2>2. CASE index_buf = <<>>
    BY <2>2 DEF DBTypeOK
  <2> QED
    BY <2>1, <2>2
<1>2. Index \in [Numbers -> IndexEntry]
  BY <1>1 DEF Index
<1>3. AllBlocks \in Seq(Blocks) /\ Len(AllBlocks) = Len(blocks_file) + Len(blocks_buf)
  BY DEF DBTypeOK, AllBlocks
<1>4. (\A b \in Blocks : Num[b] \in Numbers) /\ MaxNum \in Nat /\ Zero \notin Blocks
  BY TreeAssumption DEF Numbers
<1> QED
  BY <1>2, <1>3, <1>4 DEF Index, Numbers

LEMMA EntriesIndex ==
    ASSUME DBTypeOK, EntriesOK
    PROVE  \A n \in Numbers : EntryOK(Index[n], n)
BY DEF EntriesOK, Index

-----------------------------------------------------------------------------
(* Sets of bad entries *)

LEMMA LostFinite ==
    ASSUME NEW ix, NEW bl
    PROVE  Lost(ix, bl) \subseteq Numbers /\ IsFiniteSet(Numbers) /\ IsFiniteSet(Lost(ix, bl))
<1>1. IsFiniteSet(Numbers)
  BY TreeAssumption, FS_Interval DEF Numbers
<1>2. Lost(ix, bl) \in SUBSET Numbers
  BY DEF Lost
<1> QED
  BY <1>1, <1>2, FS_Subset

LEMMA BadFinite == IsFiniteSet(Bad) /\ Cardinality(Bad) \in Nat
<1>1. Bad \in SUBSET Numbers
  BY LostFinite DEF Bad
<1>2. IsFiniteSet(Numbers)
  BY LostFinite
<1> QED
  BY <1>1, <1>2, FS_Subset, FS_CardinalityType

(* A block at the end of the file takes no entry its block. *)
LEMMA LostAppend ==
    ASSUME NEW ix \in [Numbers -> IndexEntry], NEW bl \in Seq(Blocks), NEW b \in Blocks,
           \A n \in Numbers : ix[n].block_size > 0 => ix[n].block_id # Zero
    PROVE  Lost(ix, Append(bl, b)) \subseteq Lost(ix, bl)
<1> SUFFICES ASSUME NEW n \in Numbers, ix[n].block_size > 0,
                    At(bl, ix[n].block_pos) = ix[n].block_id
             PROVE  At(Append(bl, b), ix[n].block_pos) = ix[n].block_id
  BY DEF Lost
<1>1. ix[n].block_pos \in 1 .. Len(bl)
  BY DEF At
<1> QED
  BY <1>1 DEF At

(* The last block of the file is that of one entry at most. *)
LEMMA LostBlock ==
    ASSUME NEW ix, NEW bl \in Seq(Blocks), NEW b \in Blocks,
           \A n \in Numbers : EntryOK(ix[n], n)
    PROVE  Lost(ix, bl) \subseteq Lost(ix, Append(bl, b)) \cup {Num[b]}
<1> SUFFICES ASSUME NEW n \in Numbers, ix[n].block_size > 0,
                    At(bl, ix[n].block_pos) # ix[n].block_id,
                    At(Append(bl, b), ix[n].block_pos) = ix[n].block_id
             PROVE  n = Num[b]
  BY DEF Lost
<1>1. ix[n].block_pos = Len(bl) + 1
  BY DEF At, EntryOK
<1>2. ix[n].block_id = b
  BY <1>1 DEF At
<1> QED
  BY <1>2 DEF EntryOK

-----------------------------------------------------------------------------
LEMMA DBInvInit == DBInit => DBInv
<1> SUFFICES ASSUME DBInit PROVE DBInv
  OBVIOUS
<1>1. DBTypeOK
  <2>1. NoEntry \in IndexEntry
    BY WritesAssumption DEF IndexEntry, NoEntry
  <2>2. index_file \in [Numbers -> IndexEntry]
    BY <2>1 DEF DBInit
  <2>3. index_len \in 0 .. MaxNum /\ crashes \in 0 .. MaxCrashes
    BY WritesAssumption, TreeAssumption DEF DBInit
  <2>4. /\ index_buf \in Seq([num : Numbers, entry : IndexEntry]) /\ Len(index_buf) <= 1
        /\ blocks_file \in Seq(Blocks) /\ blocks_buf \in Seq(Blocks) /\ Len(blocks_buf) <= 1
    BY DEF DBInit
  <2> QED
    BY <2>2, <2>3, <2>4 DEF DBInit, DBTypeOK
<1>2. EntriesOK
  BY DEF DBInit, EntriesOK, EntryOK, NoEntry
<1>3. Index = index_file /\ \A n \in Numbers : Index[n] = NoEntry
  BY DEF DBInit, Index
<1>4. Bad = {}
  BY <1>3 DEF DBInit, Bad, Lost, NoEntry
<1>5. Cardinality(Bad) <= crashes
  BY <1>4, FS_EmptySet DEF DBInit
<1>6. NoneDangles
  BY <1>1, <1>3, Types DEF NoneDangles, NoEntry
<1> QED
  BY <1>1, <1>2, <1>5, <1>6 DEF DBInv

(* What a store, a removal and any other step do to the index and to the   *)
(* blocks as a read sees them.                                             *)
LEMMA StoreEffect ==
    ASSUME DBInv, NEW b \in Blocks, store(b)
    PROVE  LET e == [block_pos |-> Len(AllBlocks) + 1, block_size |-> 1, block_id |-> b]
           IN  /\ e \in IndexEntry /\ Num[b] \in Numbers
               /\ index_file' = Index /\ Index' = [Index EXCEPT ![Num[b]] = e]
               /\ AllBlocks' = Append(AllBlocks, b)
               /\ index_buf' = <<[num |-> Num[b], entry |-> e]>>
               /\ blocks_file' = AllBlocks /\ blocks_buf' = <<b>>
<1> DEFINE e == [block_pos |-> Len(AllBlocks) + 1, block_size |-> 1, block_id |-> b]
<1>1. DBTypeOK
  BY DEF DBInv
<1>2. Index \in [Numbers -> IndexEntry] /\ AllBlocks \in Seq(Blocks) /\ Num[b] \in Numbers
  BY <1>1, Types
<1>3. e \in IndexEntry
  BY <1>2, WritesAssumption DEF store, IndexEntry
<1>4. /\ index_file' = Index /\ index_buf' = <<[num |-> Num[b], entry |-> e]>>
      /\ blocks_file' = AllBlocks /\ blocks_buf' = <<b>>
  BY DEF store, SeekIndex, SeekBlocks
<1>5. index_buf' # <<>> /\ index_buf'[1].num = Num[b] /\ index_buf'[1].entry = e
  BY <1>4
<1> HIDE DEF e
<1>6. Index' = [n \in Numbers |-> IF Num[b] = n THEN e ELSE Index[n]]
  BY <1>4, <1>5 DEF Index
<1>7. Index' = [Index EXCEPT ![Num[b]] = e]
  BY <1>2, <1>6
<1>8. AllBlocks' = Append(AllBlocks, b)
  BY <1>2, <1>4 DEF AllBlocks
<1> QED
  BY <1>2, <1>3, <1>4, <1>7, <1>8 DEF e

LEMMA RemoveEffect ==
    ASSUME DBInv, NEW b \in Blocks, remove(b)
    PROVE  LET e == [Index[Num[b]] EXCEPT !.block_size = 0]
           IN  /\ index_file' = Index /\ AllBlocks' = AllBlocks /\ Num[b] \in Numbers
               /\ \/ /\ Index[Num[b]].block_id = b /\ e \in IndexEntry
                     /\ Index' = [Index EXCEPT ![Num[b]] = e]
                     /\ index_buf' = <<[num |-> Num[b], entry |-> e]>>
                  \/ Index[Num[b]].block_id # b /\ Index' = Index /\ index_buf' = <<>>
<1> DEFINE e == [Index[Num[b]] EXCEPT !.block_size = 0]
<1>1. DBTypeOK
  BY DEF DBInv
<1>2. Index \in [Numbers -> IndexEntry] /\ AllBlocks \in Seq(Blocks) /\ Num[b] \in Numbers
  BY <1>1, Types
<1>3. e \in IndexEntry
  BY <1>2 DEF IndexEntry
<1>4. index_file' = Index /\ AllBlocks' = AllBlocks
  BY DEF remove, SeekIndex, AllBlocks
<1>5. CASE Index[Num[b]].block_id = b
  <2>1. index_buf' = <<[num |-> Num[b], entry |-> e]>>
    BY <1>5 DEF remove
  <2>2. index_buf' # <<>> /\ index_buf'[1].num = Num[b] /\ index_buf'[1].entry = e
    BY <2>1
  <2> HIDE DEF e
  <2>3. Index' = [n \in Numbers |-> IF Num[b] = n THEN e ELSE Index[n]]
    BY <1>4, <2>2 DEF Index
  <2>4. Index' = [Index EXCEPT ![Num[b]] = e]
    BY <1>2, <2>3
  <2> QED
    BY <1>2, <1>3, <1>4, <1>5, <2>1, <2>4 DEF e
<1>6. CASE Index[Num[b]].block_id # b
  <2>1. index_buf' = <<>>
    BY <1>6 DEF remove
  <2>2. Index' = Index
    BY <2>1, <1>2, <1>4 DEF Index
  <2> QED
    BY <2>1, <2>2, <1>2, <1>4, <1>6
<1> QED
  BY <1>5, <1>6

(* The steps that put buffers on disk and change nothing a read sees. *)
Flushes ==
    /\ Index' = Index /\ AllBlocks' = AllBlocks /\ crashes' = crashes
    /\ \/ index_file' = index_file /\ index_buf' = index_buf
       \/ index_file' = Index /\ index_buf' = <<>>
    /\ \/ blocks_file' = blocks_file /\ blocks_buf' = blocks_buf
       \/ blocks_file' = AllBlocks /\ blocks_buf' = <<>>
    /\ index_len' = index_len /\ failed' \in BOOLEAN /\ is_open' \in BOOLEAN

LEMMA FlushEffect ==
    ASSUME DBInv,
           \/ \E b \in Blocks : StoreThrows(b)
           \/ \E n \in Numbers : Read(n)
           \/ open \/ close \/ UNCHANGED dbvars
    PROVE  Flushes
<1>1. DBTypeOK /\ failed \in BOOLEAN /\ is_open \in BOOLEAN
  BY DEF DBInv, DBTypeOK
<1>2. Index \in [Numbers -> IndexEntry] /\ AllBlocks \in Seq(Blocks)
  BY <1>1, Types
<1>3. ASSUME index_file' = Index, index_buf' = <<>> PROVE Index' = Index
  BY <1>2, <1>3 DEF Index
<1>4. ASSUME blocks_file' = AllBlocks, blocks_buf' = <<>> PROVE AllBlocks' = AllBlocks
  <2>1. AllBlocks' = blocks_file' \o blocks_buf'
    BY DEF AllBlocks
  <2> QED
    BY <2>1, <1>2, <1>4
<1>5. ASSUME UNCHANGED <<index_file, index_buf>> PROVE Index' = Index
  BY <1>5 DEF Index
<1>6. ASSUME UNCHANGED <<blocks_file, blocks_buf>> PROVE AllBlocks' = AllBlocks
  BY <1>6 DEF AllBlocks
<1>7. ASSUME NEW b \in Blocks, StoreThrows(b) PROVE Flushes
  BY <1>1, <1>3, <1>6, <1>7 DEF StoreThrows, SeekIndex, Flushes
<1>8. ASSUME NEW n \in Numbers, Read(n) PROVE Flushes
  <2>1. /\ index_file' = Index /\ index_buf' = <<>> /\ blocks_file' = AllBlocks /\ blocks_buf' = <<>>
        /\ UNCHANGED <<index_len, is_open, crashes>>
    BY <1>8 DEF Read, SeekIndex, SeekBlocks
  <2>2. failed' \in BOOLEAN
    BY <1>1, <1>8 DEF Read
  <2> QED
    BY <2>1, <2>2, <1>1, <1>3, <1>4 DEF Flushes
<1>9. CASE open
  BY <1>1, <1>5, <1>6, <1>9 DEF open, Flushes
<1>10. CASE close
  BY <1>1, <1>3, <1>4, <1>10 DEF close, SeekIndex, SeekBlocks, Flushes
<1>11. CASE UNCHANGED dbvars
  BY <1>1, <1>5, <1>6, <1>11 DEF dbvars, Flushes
<1> QED
  BY <1>7, <1>8, <1>9, <1>10, <1>11

(* A step that leaves fewer bad entries keeps the bound. *)
LEMMA BadShrinks ==
    ASSUME DBInv, Bad' \subseteq Bad, crashes' = crashes
    PROVE  Cardinality(Bad') <= crashes'
<1>1. IsFiniteSet(Bad) /\ Cardinality(Bad) <= crashes /\ crashes \in Int
  BY BadFinite DEF DBInv, DBTypeOK
<1>2. Cardinality(Bad') <= Cardinality(Bad) /\ IsFiniteSet(Bad')
  BY <1>1, FS_Subset
<1>3. Cardinality(Bad') \in Nat /\ Cardinality(Bad) \in Nat
  BY <1>1, <1>2, FS_CardinalityType
<1> QED
  BY <1>1, <1>2, <1>3

(* What is lost of a sequence of one block at most. *)
LEMMA BufferLost ==
    ASSUME DBTypeOK, blocks_buf # <<>>
    PROVE  \E b \in Blocks : blocks_buf = <<b>> /\ AllBlocks = Append(blocks_file, b)
<1>1. blocks_buf \in Seq(Blocks) /\ blocks_file \in Seq(Blocks) /\ Len(blocks_buf) <= 1
  BY DEF DBTypeOK
<1>2. /\ blocks_buf[1] \in Blocks /\ blocks_buf = <<blocks_buf[1]>>
      /\ blocks_file \o blocks_buf = Append(blocks_file, blocks_buf[1])
  BY <1>1, Singleton
<1> QED
  BY <1>2 DEF AllBlocks

LEMMA LengthType ==
    ASSUME NEW f
    PROVE  LengthOf(f) \in 0 .. MaxNum
<1>1. Written(f) \in SUBSET Nat /\ MaxNum \in Nat /\ \A n \in Written(f) : n <= MaxNum /\ n \in Numbers
  BY TreeAssumption DEF Written, Numbers
<1>2. CASE Written(f) = {}
  BY <1>1, <1>2 DEF LengthOf
<1>3. CASE Written(f) # {}
  <2>1. Max(Written(f)) \in Written(f)
    BY <1>1, <1>3, MaxIn
  <2> QED
    BY <1>1, <1>3, <2>1 DEF LengthOf, Numbers
<1> QED
  BY <1>2, <1>3

LEMMA CrashKeeps == DBInv /\ Crash => DBInv'
<1> SUFFICES ASSUME DBInv, Crash PROVE DBInv'
  OBVIOUS
<1>1. DBTypeOK /\ EntriesOK /\ Cardinality(Bad) <= crashes
  BY DEF DBInv
<1>2. Index \in [Numbers -> IndexEntry] /\ AllBlocks \in Seq(Blocks)
  BY <1>1, Types
<1>3. /\ index_file' \in {Index, index_file} /\ blocks_file' \in {AllBlocks, blocks_file}
      /\ index_buf' = <<>> /\ blocks_buf' = <<>> /\ index_len' = LengthOf(index_file')
      /\ crashes' = crashes + 1 /\ crashes < MaxCrashes /\ failed' = FALSE /\ is_open' = FALSE
  BY DEF Crash, SeekIndex, SeekBlocks
<1>4. index_file' \in [Numbers -> IndexEntry] /\ blocks_file' \in Seq(Blocks)
  BY <1>1, <1>2, <1>3 DEF DBTypeOK
<1>5. Index' = index_file' /\ AllBlocks' = blocks_file'
  <2>1. Index' = [n \in Numbers |-> index_file'[n]]
    BY <1>3 DEF Index
  <2>2. AllBlocks' = blocks_file' \o blocks_buf'
    BY DEF AllBlocks
  <2> QED
    BY <2>1, <2>2, <1>3, <1>4
<1>6. DBTypeOK'
  <2>1. crashes' \in 0 .. MaxCrashes
    BY <1>1, <1>3, WritesAssumption DEF DBTypeOK
  <2>2. index_len' \in 0 .. MaxNum
    BY <1>3, LengthType
  <2> QED
    BY <2>1, <2>2, <1>3, <1>4, EmptySequence DEF DBTypeOK
<1>7. \A n \in Numbers : EntryOK(index_file'[n], n)
  BY <1>1, <1>3, EntriesIndex DEF EntriesOK
<1>8. EntriesOK'
  BY <1>3, <1>7 DEF EntriesOK, EntryOK
<1>9. Bad' = Lost(index_file', blocks_file')
  BY <1>5 DEF Bad, Lost, At
<1>10. \E x : Bad' \subseteq Bad \cup {x}
  <2>1. Lost(index_file', AllBlocks) \subseteq Bad
    BY <1>3 DEF Bad
  <2>2. CASE blocks_file' = AllBlocks
    BY <2>1, <2>2, <1>9
  <2>3. CASE blocks_file' = blocks_file /\ blocks_buf = <<>>
    <3>1. AllBlocks = blocks_file
      BY <2>3, <1>1 DEF DBTypeOK, AllBlocks
    <3> QED
      BY <3>1, <2>1, <2>3, <1>9
  <2>4. CASE blocks_file' = blocks_file /\ blocks_buf # <<>>
    <3>1. PICK b \in Blocks : AllBlocks = Append(blocks_file, b)
      BY <2>4, <1>1, BufferLost
    <3>2. Lost(index_file', blocks_file) \subseteq Lost(index_file', Append(blocks_file, b)) \cup {Num[b]}
      BY <1>4, <1>7, <2>4, LostBlock
    <3> QED
      BY <3>1, <3>2, <2>1, <2>4, <1>9
  <2> QED
    BY <2>2, <2>3, <2>4, <1>3
<1>11. Cardinality(Bad') <= crashes'
  <2>1. PICK x : Bad' \subseteq Bad \cup {x}
    BY <1>10
  <2>2. IsFiniteSet(Bad) /\ Cardinality(Bad) <= crashes /\ crashes \in Int
    BY <1>1, BadFinite DEF DBTypeOK
  <2>3. IsFiniteSet(Bad \cup {x}) /\ Cardinality(Bad \cup {x}) <= Cardinality(Bad) + 1
    BY ONLY BadFinite, FS_AddElement
  <2>4. IsFiniteSet(Bad') /\ Cardinality(Bad') <= Cardinality(Bad \cup {x})
    BY <2>1, <2>3, FS_Subset
  <2>5. Cardinality(Bad) \in Nat /\ Cardinality(Bad \cup {x}) \in Nat /\ Cardinality(Bad') \in Nat
    BY <2>2, <2>3, <2>4, FS_CardinalityType
  <2> QED
    BY <2>2, <2>3, <2>4, <2>5, <1>3
<1>12. NoneDangles'
  BY <1>1, <1>3 DEF NoneDangles, DBTypeOK
<1> QED
  BY <1>6, <1>8, <1>11, <1>12 DEF DBInv

LEMMA StoreKeeps ==
    ASSUME DBInv, NEW b \in Blocks, store(b)
    PROVE  DBInv'
<1> DEFINE e == [block_pos |-> Len(AllBlocks) + 1, block_size |-> 1, block_id |-> b]
<1>1. DBTypeOK /\ EntriesOK
  BY DEF DBInv
<1>2. /\ Index \in [Numbers -> IndexEntry] /\ AllBlocks \in Seq(Blocks) /\ Zero \notin Blocks
      /\ Len(AllBlocks) \in Nat /\ MaxNum \in Nat
  BY <1>1, Types
<1>3. /\ e \in IndexEntry /\ Num[b] \in Numbers
      /\ index_file' = Index /\ Index' = [Index EXCEPT ![Num[b]] = e]
      /\ AllBlocks' = Append(AllBlocks, b)
      /\ index_buf' = <<[num |-> Num[b], entry |-> e]>>
      /\ blocks_file' = AllBlocks /\ blocks_buf' = <<b>>
  BY StoreEffect
<1>4. index_len' = Max({index_len, Num[b]}) /\ UNCHANGED <<failed, is_open, crashes>>
  BY DEF store
<1>5. e.block_pos = Len(AllBlocks) + 1 /\ e.block_size = 1 /\ e.block_id = b
  OBVIOUS
<1> HIDE DEF e
<1>6. DBTypeOK'
  <2>1. index_len' \in 0 .. MaxNum
    <3> DEFINE S == {index_len, Num[b]}
    <3>1. S \in SUBSET Nat /\ S # {} /\ \A x \in S : x <= MaxNum
      BY <1>1, <1>2, <1>3 DEF DBTypeOK, Numbers
    <3> HIDE DEF S
    <3>2. Max(S) \in S
      BY <3>1, <1>2, MaxIn
    <3> QED
      BY <3>1, <3>2, <1>2, <1>4 DEF S
  <2>2. index_buf' \in Seq([num : Numbers, entry : IndexEntry]) /\ Len(index_buf') <= 1
    <3>1. [num |-> Num[b], entry |-> e] \in [num : Numbers, entry : IndexEntry]
      BY <1>3
    <3> QED
      BY <3>1, <1>3
  <2> QED
    BY <2>1, <2>2, <1>1, <1>2, <1>3, <1>4 DEF DBTypeOK
<1>7. \A n \in Numbers : EntryOK(Index[n], n)
  BY <1>1, EntriesIndex
<1>8. EntryOK(e, Num[b])
  BY <1>2, <1>5 DEF EntryOK
<1>9. EntriesOK'
  <2>1. index_buf'[1].entry = e /\ index_buf'[1].num = Num[b]
    BY <1>3
  <2> QED
    BY <2>1, <1>3, <1>7, <1>8 DEF EntriesOK, EntryOK
<1>10. Bad' \subseteq Bad
  <2>1. Lost(Index, Append(AllBlocks, b)) \subseteq Lost(Index, AllBlocks)
    BY <1>2, <1>7, LostAppend DEF EntryOK
  <2>2. At(Append(AllBlocks, b), e.block_pos) = b
    BY <1>2, <1>5 DEF At
  <2>3. Lost([Index EXCEPT ![Num[b]] = e], Append(AllBlocks, b)) \subseteq Lost(Index, Append(AllBlocks, b))
    BY <2>2, <1>2, <1>3, <1>5 DEF Lost
  <2>4. Bad' = Lost(Index', AllBlocks') \cup Lost(index_file', AllBlocks')
    BY DEF Bad, Lost, At
  <2> QED
    BY <2>1, <2>3, <2>4, <1>3 DEF Bad
<1>11. NoneDangles'
  <2>1. Len(AllBlocks') = Len(AllBlocks) + 1
    BY <1>2, <1>3
  <2>2. \A n \in Numbers : Index[n].block_pos \in Int
    BY <1>2, WritesAssumption DEF IndexEntry
  <2>3. crashes = 0 => \A n \in Numbers : Index[n].block_pos <= Len(AllBlocks)
    BY DEF DBInv, NoneDangles
  <2>4. crashes = 0 => \A n \in Numbers : Index'[n].block_pos <= Len(AllBlocks')
    BY <2>1, <2>2, <2>3, <1>2, <1>3, <1>5
  <2> QED
    BY <2>4, <1>4 DEF NoneDangles
<1> QED
  BY <1>4, <1>6, <1>9, <1>10, <1>11, BadShrinks DEF DBInv

LEMMA RemoveKeeps ==
    ASSUME DBInv, NEW b \in Blocks, remove(b)
    PROVE  DBInv'
<1> DEFINE e == [Index[Num[b]] EXCEPT !.block_size = 0]
<1>1. DBTypeOK /\ EntriesOK
  BY DEF DBInv
<1>2. Index \in [Numbers -> IndexEntry] /\ AllBlocks \in Seq(Blocks)
  BY <1>1, Types
<1>3. index_file' = Index /\ AllBlocks' = AllBlocks /\ Num[b] \in Numbers
  BY RemoveEffect
<1>4. \/ /\ Index[Num[b]].block_id = b /\ e \in IndexEntry
         /\ Index' = [Index EXCEPT ![Num[b]] = e]
         /\ index_buf' = <<[num |-> Num[b], entry |-> e]>>
      \/ Index' = Index /\ index_buf' = <<>>
  BY RemoveEffect
<1>5. UNCHANGED <<index_len, blocks_file, blocks_buf, failed, is_open, crashes>>
  BY DEF remove
<1>6. /\ e.block_pos = Index[Num[b]].block_pos /\ e.block_size = 0
      /\ e.block_id = Index[Num[b]].block_id
  BY <1>2, <1>3 DEF IndexEntry
<1> HIDE DEF e
<1>7. \A n \in Numbers : EntryOK(Index[n], n)
  BY <1>1, EntriesIndex
<1>8. EntryOK(e, Num[b])
  BY <1>3, <1>6, <1>7 DEF EntryOK
<1>9. DBTypeOK'
  <2>1. index_buf' \in Seq([num : Numbers, entry : IndexEntry]) /\ Len(index_buf') <= 1
    <3>1. CASE index_buf' = <<>>
      BY <3>1
    <3>2. CASE index_buf' = <<[num |-> Num[b], entry |-> e]>> /\ e \in IndexEntry
      <4>1. [num |-> Num[b], entry |-> e] \in [num : Numbers, entry : IndexEntry]
        BY <3>2, <1>3
      <4> QED
        BY <4>1, <3>2
    <3> QED
      BY <3>1, <3>2, <1>4
  <2> QED
    BY <2>1, <1>1, <1>2, <1>3, <1>5 DEF DBTypeOK
<1>10. EntriesOK'
  <2>1. CASE index_buf' = <<>>
    BY <2>1, <1>3, <1>7 DEF EntriesOK, EntryOK
  <2>2. CASE index_buf' = <<[num |-> Num[b], entry |-> e]>>
    <3>1. index_buf'[1].entry = e /\ index_buf'[1].num = Num[b]
      BY <2>2
    <3> QED
      BY <3>1, <1>3, <1>7, <1>8 DEF EntriesOK, EntryOK
  <2> QED
    BY <2>1, <2>2, <1>4
<1>11. Bad' \subseteq Bad
  <2>1. Lost(Index', AllBlocks) \subseteq Lost(Index, AllBlocks)
    BY <1>2, <1>3, <1>4, <1>6 DEF Lost
  <2>2. Bad' = Lost(Index', AllBlocks') \cup Lost(index_file', AllBlocks')
    BY DEF Bad, Lost, At
  <2> QED
    BY <2>1, <2>2, <1>3 DEF Bad
<1>12. NoneDangles'
  <2>1. crashes = 0 => \A n \in Numbers : Index[n].block_pos <= Len(AllBlocks)
    BY DEF DBInv, NoneDangles
  <2>2. crashes = 0 => \A n \in Numbers : Index'[n].block_pos <= Len(AllBlocks)
    BY <2>1, <1>2, <1>3, <1>4, <1>6
  <2> QED
    BY <2>2, <1>3, <1>5 DEF NoneDangles
<1> QED
  BY <1>5, <1>9, <1>10, <1>11, <1>12, BadShrinks DEF DBInv

LEMMA FlushKeeps == DBInv /\ Flushes => DBInv'
<1> SUFFICES ASSUME DBInv, Flushes PROVE DBInv'
  OBVIOUS
<1>1. DBTypeOK /\ EntriesOK
  BY DEF DBInv
<1>2. Index \in [Numbers -> IndexEntry] /\ AllBlocks \in Seq(Blocks)
  BY <1>1, Types
<1>3. DBTypeOK'
  <2>1. index_buf' \in Seq([num : Numbers, entry : IndexEntry]) /\ Len(index_buf') <= 1
    BY <1>1, EmptySequence DEF Flushes, DBTypeOK
  <2>2. blocks_buf' \in Seq(Blocks) /\ Len(blocks_buf') <= 1 /\ blocks_file' \in Seq(Blocks)
    BY <1>1, <1>2, EmptySequence DEF Flushes, DBTypeOK
  <2> QED
    BY <2>1, <2>2, <1>1, <1>2 DEF Flushes, DBTypeOK
<1>4. \A n \in Numbers : EntryOK(Index[n], n)
  BY <1>1, EntriesIndex
<1>5. EntriesOK'
  BY <1>1, <1>4 DEF Flushes, EntriesOK, EntryOK
<1>6. Bad' \subseteq Bad
  <2>1. Bad' = Lost(Index', AllBlocks') \cup Lost(index_file', AllBlocks')
    BY DEF Bad, Lost, At
  <2> QED
    BY <2>1 DEF Flushes, Bad
<1>7. NoneDangles'
  BY DEF DBInv, Flushes, NoneDangles
<1> QED
  BY <1>3, <1>5, <1>6, <1>7, BadShrinks DEF DBInv, Flushes

LEMMA DBInvNext == DBInv /\ [DBNext]_dbvars => DBInv'
BY StoreKeeps, RemoveKeeps, FlushEffect, FlushKeeps, CrashKeeps DEF DBNext

LEMMA DBInvHolds == DBSpec => []DBInv
BY DBInvInit, DBInvNext, PTL DEF DBSpec

-----------------------------------------------------------------------------
(* Every variable of the block log keeps its type. *)
THEOREM DBTypeTheorem == DBSpec => []DBTypeOK
BY DBInvHolds, PTL DEF DBInv

(* fetch_by_number() and fetch_optional() never answer with another block  *)
(* than the one asked for, however often the process dies.                 *)
THEOREM FetchTheorem == DBSpec => []FetchIsSound
<1>1. DBInv => FetchIsSound
  BY EntriesIndex DEF DBInv, FetchIsSound, fetch_by_number, ReadsBack, EntryOK
<1> QED
  BY <1>1, DBInvHolds, PTL

(* A death of the process costs at most one block, for any number of       *)
(* blocks stored and removed before it and after.                          *)
THEOREM CrashTheorem == DBSpec => []CrashCostsOneBlock
<1>1. DBInv => CrashCostsOneBlock
  <2> SUFFICES ASSUME DBInv PROVE CrashCostsOneBlock
    OBVIOUS
  <2>1. Unreadable \subseteq Bad
    BY DEF Unreadable, Bad, Lost, At, DataAt
  <2>2. IsFiniteSet(Bad) /\ Cardinality(Bad) <= crashes /\ crashes \in Int
    BY BadFinite DEF DBInv, DBTypeOK
  <2>3. IsFiniteSet(Unreadable) /\ Cardinality(Unreadable) <= Cardinality(Bad)
    BY <2>1, <2>2, FS_Subset
  <2>4. Cardinality(Unreadable) \in Nat /\ Cardinality(Bad) \in Nat
    BY <2>2, <2>3, FS_CardinalityType
  <2> QED
    BY <2>2, <2>3, <2>4 DEF CrashCostsOneBlock
<1> QED
  BY <1>1, DBInvHolds, PTL

-----------------------------------------------------------------------------
(* The files implement the table *)

(* What a read finds at a position stays there when a block is appended. *)
LEMMA AtAppend ==
    ASSUME NEW bl \in Seq(Blocks), NEW b, NEW pos \in Nat, pos <= Len(bl)
    PROVE  At(Append(bl, b), pos) = At(bl, pos)
BY DEF At

(* The row of a table for an entry of the index ix. *)
Row(ix, bl, n) ==
    [id |-> ix[n].block_id, data |-> At(bl, ix[n].block_pos), live |-> ix[n].block_size > 0]

LEMMA TableRows ==
    /\ AbstractLog = [len |-> index_len, at |-> [n \in Numbers |-> Row(Index, AllBlocks, n)]]
    /\ AbstractLog' = [len |-> index_len', at |-> [n \in Numbers |-> Row(Index', AllBlocks', n)]]
BY DEF AbstractLog, DataAt, At, Row

LEMMA RemoveRow ==
    ASSUME NEW L, NEW a, NEW len, L = [len |-> len, at |-> a], NEW k
    PROVE  [L EXCEPT !.at[k].live = FALSE] =
               [len |-> len, at |-> [a EXCEPT ![k] = [a[k] EXCEPT !.live = FALSE]]]
<1> DEFINE x == [L.at EXCEPT ![k] = [L.at[k] EXCEPT !.live = FALSE]]
<1>1. [L EXCEPT !.at[k].live = FALSE] = [L EXCEPT !.at = x]
  OBVIOUS
<1> HIDE DEF x
<1>2. [L EXCEPT !.at = x] = [len |-> len, at |-> x]
  OBVIOUS
<1>3. L.at = a
  OBVIOUS
<1> QED
  BY <1>1, <1>2, <1>3 DEF x

LEMMA DeadRow ==
    ASSUME NEW i, NEW d, NEW l, NEW v
    PROVE  [[id |-> i, data |-> d, live |-> l] EXCEPT !.live = v] = [id |-> i, data |-> d, live |-> v]
OBVIOUS

LEMMA StoreMaps ==
    ASSUME DBInv, NEW b \in Blocks, store(b), crashes = 0
    PROVE  AbstractLog' = Map!StoreIn(AbstractLog, b, b)
<1> DEFINE e == [block_pos |-> Len(AllBlocks) + 1, block_size |-> 1, block_id |-> b]
<1>1. DBTypeOK
  BY DEF DBInv
<1>2. Index \in [Numbers -> IndexEntry] /\ AllBlocks \in Seq(Blocks) /\ Len(AllBlocks) \in Nat
  BY <1>1, Types
<1>3. /\ Num[b] \in Numbers /\ Index' = [Index EXCEPT ![Num[b]] = e]
      /\ AllBlocks' = Append(AllBlocks, b)
  BY StoreEffect
<1>4. index_len' = Max({index_len, Num[b]})
  BY DEF store
<1>5. AbstractLog = [len |-> index_len, at |-> [n \in Numbers |-> Row(Index, AllBlocks, n)]]
  BY TableRows
<1>6. AbstractLog' = [len |-> index_len', at |-> [n \in Numbers |-> Row(Index', AllBlocks', n)]]
  BY TableRows
<1>7. \A n \in Numbers : Index[n].block_pos \in Nat /\ Index[n].block_pos <= Len(AllBlocks)
  BY <1>2, WritesAssumption DEF DBInv, NoneDangles, IndexEntry
<1>8. ASSUME NEW n \in Numbers
      PROVE  Row(Index', AllBlocks', n) = IF n = Num[b] THEN [id |-> b, data |-> b, live |-> TRUE]
                                                        ELSE Row(Index, AllBlocks, n)
  <2>1. CASE n = Num[b]
    <3>1. Index'[n] = e
      BY <2>1, <1>2, <1>3
    <3>2. At(AllBlocks', Len(AllBlocks) + 1) = b
      BY <1>2, <1>3 DEF At
    <3>3. Index'[n].block_id = b /\ Index'[n].block_pos = Len(AllBlocks) + 1 /\ (Index'[n].block_size > 0) = TRUE
      BY <3>1
    <3>4. Row(Index', AllBlocks', n) = [id |-> b, data |-> b, live |-> TRUE]
      BY ONLY <3>2, <3>3 DEF Row
    <3> QED
      BY <2>1, <3>4
  <2>2. CASE n # Num[b]
    <3>1. Index'[n] = Index[n]
      BY <2>2, <1>2, <1>3
    <3>2. At(AllBlocks', Index[n].block_pos) = At(AllBlocks, Index[n].block_pos)
      BY <1>2, <1>3, <1>7, AtAppend
    <3> QED
      BY <2>2, <3>1, <3>2 DEF Row
  <2> QED
    BY <2>1, <2>2
<1>9. AbstractLog' = [len |-> index_len',
                      at  |-> [[n \in Numbers |-> Row(Index, AllBlocks, n)]
                                 EXCEPT ![Num[b]] = [id |-> b, data |-> b, live |-> TRUE]]]
  BY <1>3, <1>6, <1>8
<1>10. /\ AbstractLog.len = index_len
       /\ AbstractLog.at = [n \in Numbers |-> Row(Index, AllBlocks, n)]
  BY <1>5
<1> QED
  BY ONLY <1>4, <1>9, <1>10 DEF Map!StoreIn, Map!Max, Max

LEMMA RemoveMaps ==
    ASSUME DBInv, NEW b \in Blocks, remove(b)
    PROVE  ~ Map!RemoveThrows(AbstractLog, b) /\ AbstractLog' = Map!RemoveFrom(AbstractLog, b)
<1> DEFINE e == [Index[Num[b]] EXCEPT !.block_size = 0]
<1>1. DBTypeOK
  BY DEF DBInv
<1>2. Index \in [Numbers -> IndexEntry]
  BY <1>1, Types
<1>3. AllBlocks' = AllBlocks /\ Num[b] \in Numbers
  BY RemoveEffect
<1>4. \/ /\ Index[Num[b]].block_id = b
         /\ Index' = [Index EXCEPT ![Num[b]] = e]
      \/ Index[Num[b]].block_id # b /\ Index' = Index
  BY RemoveEffect
<1>5. index_len' = index_len /\ index_len >= Num[b] /\ index_len \in Int /\ Num[b] \in Int
  BY <1>1, <1>3 DEF remove, DBTypeOK, Numbers
<1>6. AbstractLog = [len |-> index_len, at |-> [n \in Numbers |-> Row(Index, AllBlocks, n)]]
  BY TableRows
<1>7. AbstractLog' = [len |-> index_len', at |-> [n \in Numbers |-> Row(Index', AllBlocks', n)]]
  BY TableRows
<1>8. AbstractLog.at[Num[b]].id = Index[Num[b]].block_id /\ AbstractLog.len = index_len
  BY <1>3, <1>6 DEF Row
<1>9. ~ Map!RemoveThrows(AbstractLog, b)
  BY <1>5, <1>8 DEF Map!RemoveThrows
<1>10. CASE Index[Num[b]].block_id = b /\ Index' = [Index EXCEPT ![Num[b]] = e]
  <2>1. /\ e.block_pos = Index[Num[b]].block_pos /\ e.block_size = 0
        /\ e.block_id = Index[Num[b]].block_id
    BY <1>2, <1>3 DEF IndexEntry
  <2> HIDE DEF e
  <2>2. ASSUME NEW n \in Numbers
        PROVE  Row(Index', AllBlocks', n) = IF n = Num[b] THEN [Row(Index, AllBlocks, n) EXCEPT !.live = FALSE]
                                                          ELSE Row(Index, AllBlocks, n)
    <3>1. Index'[n] = IF n = Num[b] THEN e ELSE Index[n]
      BY <1>2, <1>3, <1>10
    <3>2. CASE n = Num[b]
      <4>1. Index'[n].block_id = Index[n].block_id /\ Index'[n].block_pos = Index[n].block_pos
            /\ (Index'[n].block_size > 0) = FALSE
        BY <3>1, <3>2, <2>1
      <4>2. Row(Index', AllBlocks', n) = [Row(Index, AllBlocks, n) EXCEPT !.live = FALSE]
        <5> DEFINE i == Index[n].block_id
                   d == At(AllBlocks, Index[n].block_pos)
                   l == Index[n].block_size > 0
        <5>1. Row(Index, AllBlocks, n) = [id |-> i, data |-> d, live |-> l]
          BY DEF Row
        <5>2. Row(Index', AllBlocks', n) = [id |-> i, data |-> d, live |-> FALSE]
          BY ONLY <4>1, <1>3 DEF Row
        <5> HIDE DEF i, d, l
        <5>3. [[id |-> i, data |-> d, live |-> l] EXCEPT !.live = FALSE] =
                  [id |-> i, data |-> d, live |-> FALSE]
          BY ONLY DeadRow, Zenon
        <5> QED
          BY ONLY <5>1, <5>2, <5>3, Zenon
      <4> QED
        BY <3>2, <4>2
    <3>3. CASE n # Num[b]
      BY <3>1, <3>3, <1>3 DEF Row
    <3> QED
      BY <3>2, <3>3
  <2>3. [n \in Numbers |-> Row(Index', AllBlocks', n)] =
           [[n \in Numbers |-> Row(Index, AllBlocks, n)]
               EXCEPT ![Num[b]] = [Row(Index, AllBlocks, Num[b]) EXCEPT !.live = FALSE]]
    BY <2>2, <1>3
  <2>4. [AbstractLog EXCEPT !.at[Num[b]].live = FALSE] =
           [len |-> index_len,
            at  |-> [[n \in Numbers |-> Row(Index, AllBlocks, n)]
                        EXCEPT ![Num[b]] = [Row(Index, AllBlocks, Num[b]) EXCEPT !.live = FALSE]]]
    <3> DEFINE a == [n \in Numbers |-> Row(Index, AllBlocks, n)]
    <3>1. AbstractLog = [len |-> index_len, at |-> a] /\ a[Num[b]] = Row(Index, AllBlocks, Num[b])
      BY <1>3, <1>6
    <3> HIDE DEF a
    <3>2. [AbstractLog EXCEPT !.at[Num[b]].live = FALSE] =
             [len |-> index_len, at |-> [a EXCEPT ![Num[b]] = [a[Num[b]] EXCEPT !.live = FALSE]]]
      BY <3>1, RemoveRow
    <3> QED
      BY <3>1, <3>2 DEF a
  <2>5. AbstractLog' = [AbstractLog EXCEPT !.at[Num[b]].live = FALSE]
    BY <2>3, <2>4, <1>5, <1>7
  <2> QED
    BY <2>5, <1>8, <1>9, <1>10 DEF Map!RemoveFrom
<1>11. CASE Index[Num[b]].block_id # b /\ Index' = Index
  <2>1. AbstractLog' = AbstractLog
    BY <1>3, <1>5, <1>6, <1>7, <1>11
  <2> QED
    BY <2>1, <1>8, <1>9, <1>11 DEF Map!RemoveFrom
<1> QED
  BY <1>4, <1>10, <1>11

(* Until a process dies, storing, removing, reading, closing and opening   *)
(* the files change the table they stand for as BlockMap says: every step  *)
(* of the files is a step of the table or none.                            *)
THEOREM BlockMapTheorem == DBSpec => ImplementsBlockMap
<1>1. ASSUME DBInv, [DBNext]_dbvars, crashes' = 0
      PROVE  [Map!MNext]_AbstractLog
  <2>1. ASSUME NEW b \in Blocks, store(b) PROVE Map!MNext
    <3>1. crashes = 0
      BY <1>1, <2>1 DEF store
    <3> QED
      BY <3>1, <1>1, <2>1, StoreMaps DEF Map!MNext, Map!MStore
  <2>2. ASSUME NEW b \in Blocks, remove(b) PROVE Map!MNext
    BY <1>1, <2>2, RemoveMaps DEF Map!MNext, Map!MRemove
  <2>3. ASSUME Flushes PROVE AbstractLog' = AbstractLog
    BY <2>3 DEF Flushes, AbstractLog, DataAt
  <2>4. ~ Crash
    BY <1>1 DEF Crash, DBInv, DBTypeOK
  <2> QED
    BY <1>1, <2>1, <2>2, <2>3, <2>4, FlushEffect DEF DBNext
<1>2. DBInv /\ [DBNext]_dbvars => [crashes' = 0 => [Map!MNext]_AbstractLog]_dbvars
  BY <1>1
<1> QED
  BY <1>2, DBInvHolds, PTL DEF DBSpec, ImplementsBlockMap
=============================================================================
