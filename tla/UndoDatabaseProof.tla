------------------------- MODULE UndoDatabaseProof -------------------------
(***************************************************************************)
(* Proofs about UndoDatabase for every set of types and values, every      *)
(* number of instances, every nesting and history that satisfy             *)
(* NestingFits.                                                            *)
(***************************************************************************)
EXTENDS UndoDatabase, TLAPS

-----------------------------------------------------------------------------
(* Types of the operators on undo states *)

(* A fresh undo state is an undo state. *)
LEMMA EmptyStateType == EmptyState \in UndoState
  BY DEF EmptyState, UndoState, Slot

(* on_create keeps the shape of an undo state. *)
LEMMA CreateType ==
  ASSUME NEW state \in UndoState, NEW id \in Ids
  PROVE  on_create(state, id) \in UndoState
  BY DEF on_create, UndoState, Ids, Instances

(* on_modify keeps the shape of an undo state. *)
LEMMA ModifyType ==
  ASSUME NEW state \in UndoState, NEW id \in Ids, NEW value \in Values
  PROVE  on_modify(state, id, value) \in UndoState
  BY DEF on_modify, UndoState, Slot

(* on_remove keeps the shape of an undo state. *)
LEMMA RemoveType ==
  ASSUME NEW state \in UndoState, NEW id \in Ids, NEW value \in Values
  PROVE  on_remove(state, id, value) \in UndoState
  BY DEF on_remove, UndoState, Slot

(* merge() leaves an undo state. *)
LEMMA MergeType ==
  ASSUME NEW a \in UndoState, NEW b \in UndoState
  PROVE  MergeStates(a, b) \in UndoState
  BY DEF MergeStates, UndoState, Slot

(* Going back over an undo state yields a database. *)
LEMMA RestoreType ==
  ASSUME NEW state \in UndoState, NEW db \in Database
  PROVE  /\ RestoreObjects(state, db.objects) \in [Ids -> Slot]
         /\ RestoreNextIds(state, db.next_id) \in [Types -> 0 .. MaxInstance + 1]
  BY InstanceAssumption DEF RestoreObjects, RestoreNextIds, UndoState, Database, Slot, Instances

-----------------------------------------------------------------------------
(* What each operator does to an exact log *)

(* A log that was just started is exact. *)
LEMMA EmptyConsistent ==
  ASSUME NEW db \in Database
  PROVE  Consistent(EmptyState, db, db)
  BY DEF Consistent, ConsistentAt, ConsistentNext, EmptyState, Database

(* create() followed by on_create keeps the log exact. *)
LEMMA CreateConsistent ==
  ASSUME NEW state \in UndoState, NEW before \in Database, NEW after \in Database,
         Consistent(state, before, after), Numbered(before),
         NEW t \in Types, NEW value \in Values,
         after.next_id[t] <= MaxInstance,
         after.objects[<<t, after.next_id[t]>>] = Nothing
  PROVE  Consistent(on_create(state, <<t, after.next_id[t]>>), before,
                    [objects |-> [after.objects EXCEPT ![<<t, after.next_id[t]>>] = value],
                     next_id |-> [after.next_id EXCEPT ![t] = @ + 1]])
  <1> DEFINE id == <<t, after.next_id[t]>>
             new == [objects |-> [after.objects EXCEPT ![id] = value],
                     next_id |-> [after.next_id EXCEPT ![t] = @ + 1]]
             log == on_create(state, id)
  <1>1. id \in Ids /\ id[1] = t /\ id[2] = after.next_id[t]
    BY InstanceAssumption DEF Database, Ids, Instances
  <1>2. /\ id \notin state.new_ids
        /\ state.old_values[id] = Nothing
        /\ state.removed[id] = Nothing
    BY <1>1, InstanceAssumption, NothingAssumption
    DEF Consistent, ConsistentAt, ConsistentNext, Numbered, Database
  <1>3. ASSUME NEW x \in Ids PROVE ConsistentAt(log, before, new, x)
    <2>1. ConsistentAt(state, before, after, x)
      BY DEF Consistent
    <2>2. /\ log.old_values = state.old_values
          /\ log.removed = state.removed
          /\ log.new_ids = state.new_ids \cup {id}
      BY DEF on_create, UndoState
    <2>3. CASE x = id
      <3>1. before.objects[id] = Nothing
        BY <1>1, <1>2, <2>1, <2>3 DEF ConsistentAt
      <3>2. new.objects[id] = value /\ value # Nothing
        BY <1>1, NothingAssumption DEF Database
      <3>3. before.next_id[t] <= after.next_id[t]
        BY DEF Consistent, ConsistentNext
      <3>4. id[2] >= before.next_id[id[1]]
        BY <1>1, <3>3, InstanceAssumption DEF Database
      <3> QED BY <1>2, <2>2, <2>3, <3>1, <3>2, <3>4 DEF ConsistentAt
    <2>4. CASE x # id
      <3>1. new.objects[x] = after.objects[x]
        BY <2>4 DEF Database
      <3> QED BY <2>1, <2>2, <2>4, <3>1 DEF ConsistentAt
    <2> QED BY <2>3, <2>4
  <1>4. ASSUME NEW u \in Types PROVE ConsistentNext(log, before, new, u)
    <2>1. ConsistentNext(state, before, after, u)
      BY DEF Consistent
    <2>2. log.old_index_next_ids =
            [state.old_index_next_ids EXCEPT ![t] = IF @ = Nothing THEN id[2] ELSE @]
      BY <1>1 DEF on_create, UndoState
    <2>3. CASE u = t
      BY <1>1, <2>1, <2>2, <2>3, InstanceAssumption, NothingAssumption
      DEF ConsistentNext, UndoState, Database
    <2>4. CASE u # t
      BY <2>1, <2>2, <2>4 DEF ConsistentNext, UndoState, Database
    <2> QED BY <2>3, <2>4
  <1> QED BY <1>3, <1>4 DEF Consistent

(* on_modify before a change keeps the log exact. *)
LEMMA ModifyConsistent ==
  ASSUME NEW state \in UndoState, NEW before \in Database, NEW after \in Database,
         Consistent(state, before, after),
         NEW id \in Ids, NEW value \in Values, after.objects[id] # Nothing
  PROVE  Consistent(on_modify(state, id, after.objects[id]), before,
                    [objects |-> [after.objects EXCEPT ![id] = value],
                     next_id |-> after.next_id])
  <1> DEFINE new == [objects |-> [after.objects EXCEPT ![id] = value], next_id |-> after.next_id]
             log == on_modify(state, id, after.objects[id])
  <1>1. /\ log.new_ids = state.new_ids
        /\ log.removed = state.removed
        /\ log.old_index_next_ids = state.old_index_next_ids
        /\ \A x \in Ids : log.old_values[x] =
             IF x = id /\ id \notin state.new_ids /\ state.old_values[id] = Nothing
             THEN after.objects[id] ELSE state.old_values[x]
    BY DEF on_modify, UndoState
  <1>2. new.objects[id] # Nothing
    BY NothingAssumption DEF Database
  <1>3. ASSUME NEW x \in Ids PROVE ConsistentAt(log, before, new, x)
    <2>1. ConsistentAt(state, before, after, x)
      BY DEF Consistent
    <2>2. CASE x = id
      BY <1>1, <1>2, <2>1, <2>2 DEF ConsistentAt
    <2>3. CASE x # id
      BY <1>1, <2>1, <2>3 DEF ConsistentAt, Database
    <2> QED BY <2>2, <2>3
  <1>4. ASSUME NEW u \in Types PROVE ConsistentNext(log, before, new, u)
    BY <1>1 DEF Consistent, ConsistentNext
  <1> QED BY <1>3, <1>4 DEF Consistent

(* on_remove before a removal keeps the log exact. *)
LEMMA RemoveConsistent ==
  ASSUME NEW state \in UndoState, NEW before \in Database, NEW after \in Database,
         Consistent(state, before, after),
         NEW id \in Ids, after.objects[id] # Nothing
  PROVE  Consistent(on_remove(state, id, after.objects[id]), before,
                    [objects |-> [after.objects EXCEPT ![id] = Nothing],
                     next_id |-> after.next_id])
  <1> DEFINE new == [objects |-> [after.objects EXCEPT ![id] = Nothing], next_id |-> after.next_id]
             log == on_remove(state, id, after.objects[id])
  <1>1. /\ log.old_index_next_ids = state.old_index_next_ids
        /\ \A x \in Ids : x # id =>
             /\ x \in log.new_ids <=> x \in state.new_ids
             /\ log.old_values[x] = state.old_values[x]
             /\ log.removed[x] = state.removed[x]
    BY DEF on_remove, UndoState
  <1>2. ConsistentAt(state, before, after, id)
    BY DEF Consistent
  <1>3. ConsistentAt(log, before, new, id)
    <2>0. new.objects[id] = Nothing
      BY DEF Database
    <2>1. CASE id \in state.new_ids
      <3>1. id \notin log.new_ids /\ log.old_values = state.old_values /\ log.removed = state.removed
        BY <2>1 DEF on_remove, UndoState
      <3> QED BY <1>2, <2>0, <2>1, <3>1 DEF ConsistentAt
    <2>2. CASE id \notin state.new_ids /\ state.old_values[id] # Nothing
      <3>1. /\ log.new_ids = state.new_ids /\ log.old_values[id] = Nothing
            /\ log.removed[id] = state.old_values[id]
        BY <2>2 DEF on_remove, UndoState
      <3> QED BY <1>2, <2>0, <2>2, <3>1 DEF ConsistentAt
    <2>3. CASE id \notin state.new_ids /\ state.old_values[id] = Nothing
      <3>1. state.removed[id] = Nothing
        BY <1>2 DEF ConsistentAt
      <3>2. /\ log.new_ids = state.new_ids /\ log.old_values = state.old_values
            /\ log.removed[id] = after.objects[id]
        BY <2>3, <3>1 DEF on_remove, UndoState
      <3> QED BY <1>2, <2>0, <2>3, <3>1, <3>2 DEF ConsistentAt
    <2> QED BY <2>1, <2>2, <2>3
  <1>4. ASSUME NEW x \in Ids, x # id PROVE ConsistentAt(log, before, new, x)
    BY <1>1, <1>4 DEF Consistent, ConsistentAt, Database
  <1>5. ASSUME NEW u \in Types PROVE ConsistentNext(log, before, new, u)
    BY <1>1 DEF Consistent, ConsistentNext
  <1> QED BY <1>3, <1>4, <1>5 DEF Consistent

(* merge() composes two exact logs into one. *)
LEMMA MergeConsistent ==
  ASSUME NEW a \in UndoState, NEW b \in UndoState,
         NEW x \in Database, NEW y \in Database, NEW z \in Database,
         Consistent(a, x, y), Consistent(b, y, z), Numbered(x)
  PROVE  /\ ~ IllegalMerge(a, b)
         /\ Consistent(MergeStates(a, b), x, z)
  <1> DEFINE m == MergeStates(a, b)
  <1>1. ASSUME NEW id \in Ids
        PROVE  /\ id \in b.new_ids =>
                    /\ id \notin a.new_ids
                    /\ a.old_values[id] = Nothing
                    /\ a.removed[id] = Nothing
               /\ b.old_values[id] # Nothing \/ b.removed[id] # Nothing => a.removed[id] = Nothing
    <2>1. ConsistentAt(a, x, y, id) /\ ConsistentAt(b, y, z, id)
      BY DEF Consistent
    <2>2. ConsistentNext(a, x, y, id[1]) /\ id[2] \in Nat
      BY DEF Consistent, Ids, Instances
    <2>3. ASSUME id \in b.new_ids, a.removed[id] # Nothing PROVE FALSE
      <3>1. x.objects[id] # Nothing /\ id[2] < x.next_id[id[1]]
        BY <2>1, <2>3 DEF ConsistentAt, Numbered
      <3>2. id[2] >= y.next_id[id[1]]
        BY <2>1, <2>3 DEF ConsistentAt
      <3>3. id[1] \in Types
        BY DEF Ids
      <3> QED BY <2>2, <3>1, <3>2, <3>3, InstanceAssumption DEF ConsistentNext, Database
    <2> QED BY <2>1, <2>3 DEF ConsistentAt
  <1>2. ~ IllegalMerge(a, b)
    BY <1>1 DEF IllegalMerge
  <1>3. ASSUME NEW id \in Ids PROVE ConsistentAt(m, x, z, id)
    <2>1. ConsistentAt(a, x, y, id) /\ ConsistentAt(b, y, z, id)
      BY DEF Consistent
    <2>2. id \in m.new_ids <=> (id \in a.new_ids \/ id \in b.new_ids) /\ b.removed[id] = Nothing
      BY DEF MergeStates, UndoState
    <2>3. m.old_values[id] =
            IF b.removed[id] # Nothing /\ id \notin a.new_ids /\ id \notin b.new_ids THEN Nothing
            ELSE IF b.old_values[id] # Nothing /\ id \notin a.new_ids /\ a.old_values[id] = Nothing
                 THEN b.old_values[id] ELSE a.old_values[id]
      BY DEF MergeStates
    <2>4. m.removed[id] =
            IF b.removed[id] = Nothing \/ id \in a.new_ids \/ id \in b.new_ids THEN a.removed[id]
            ELSE IF b.old_values[id] # Nothing /\ a.old_values[id] = Nothing THEN b.old_values[id]
            ELSE IF a.old_values[id] # Nothing THEN a.old_values[id] ELSE b.removed[id]
      BY DEF MergeStates
    <2>5. id \in b.new_ids => id[2] >= x.next_id[id[1]]
      <3>1. id[1] \in Types /\ id[2] \in Nat
        BY DEF Ids, Instances
      <3> QED BY <2>1, <3>1, InstanceAssumption
              DEF ConsistentAt, Consistent, ConsistentNext, Database
    <2> QED BY <1>1, <2>1, <2>2, <2>3, <2>4, <2>5 DEF ConsistentAt
  <1>4. ASSUME NEW t \in Types PROVE ConsistentNext(m, x, z, t)
    <2>1. ConsistentNext(a, x, y, t) /\ ConsistentNext(b, y, z, t)
      BY DEF Consistent
    <2>2. m.old_index_next_ids[t] = IF a.old_index_next_ids[t] = Nothing
                                    THEN b.old_index_next_ids[t] ELSE a.old_index_next_ids[t]
      BY DEF MergeStates
    <2> QED BY <2>1, <2>2, InstanceAssumption DEF ConsistentNext, Database
  <1> QED BY <1>2, <1>3, <1>4 DEF Consistent

(* Going back over an exact log never throws and returns the older database. *)
LEMMA RestoreConsistent ==
  ASSUME NEW state \in UndoState, NEW before \in Database, NEW after \in Database,
         Consistent(state, before, after)
  PROVE  /\ ~ RestoreThrows(state, after.objects)
         /\ RestoreObjects(state, after.objects) = before.objects
         /\ RestoreNextIds(state, after.next_id) = before.next_id
  <1>1. ~ RestoreThrows(state, after.objects)
    BY DEF RestoreThrows, Consistent, ConsistentAt
  <1>2. RestoreObjects(state, after.objects) = before.objects
    <2>1. \A id \in Ids : RestoreObjects(state, after.objects)[id] = before.objects[id]
      BY DEF RestoreObjects, Consistent, ConsistentAt
    <2> QED BY <2>1 DEF RestoreObjects, Database
  <1>3. RestoreNextIds(state, after.next_id) = before.next_id
    <2>1. \A t \in Types : RestoreNextIds(state, after.next_id)[t] = before.next_id[t]
      BY DEF RestoreNextIds, Consistent, ConsistentNext
    <2> QED BY <2>1 DEF RestoreNextIds, Database
  <1> QED BY <1>1, <1>2, <1>3

-----------------------------------------------------------------------------
(* Stacks of exact logs *)

(* The link from entry i of a stack to the next one, or to the database. *)
Link(stk, snp, cur, i) ==
    LET after == IF i = Len(stk) THEN cur ELSE snp[i + 1]
    IN  snp[i] # Nothing => /\ Numbered(snp[i])
                            /\ after # Nothing
                            /\ Consistent(stk[i], snp[i], after)

(* A stack that leads from the database cur back through all its snapshots. *)
GoodLog(stk, snp, cur) ==
    /\ stk \in Seq(UndoState)
    /\ snp \in Seq(Database \cup {Nothing})
    /\ Len(snp) = Len(stk)
    /\ cur \in Database
    /\ Numbered(cur)
    /\ \A i \in 1 .. Len(stk) : Link(stk, snp, cur, i)

(* Starting a session on a good stack. *)
LEMMA GoodAppend ==
  ASSUME NEW stk, NEW snp, NEW cur, GoodLog(stk, snp, cur)
  PROVE  GoodLog(Append(stk, EmptyState), Append(snp, cur), cur)
  <1> DEFINE stk2 == Append(stk, EmptyState)
             snp2 == Append(snp, cur)
  <1> USE DEF GoodLog
  <1>1. stk2 \in Seq(UndoState) /\ snp2 \in Seq(Database \cup {Nothing})
        /\ Len(stk2) = Len(stk) + 1 /\ Len(snp2) = Len(stk) + 1
    BY EmptyStateType
  <1>2. ASSUME NEW i \in 1 .. Len(stk2) PROVE Link(stk2, snp2, cur, i)
    <2>1. CASE i = Len(stk) + 1
      <3>1. stk2[i] = EmptyState /\ snp2[i] = cur
        BY <2>1
      <3> QED BY <1>1, <2>1, <3>1, EmptyConsistent, NothingAssumption DEF Link
    <2>2. CASE i < Len(stk)
      <3>1. stk2[i] = stk[i] /\ snp2[i] = snp[i] /\ snp2[i + 1] = snp[i + 1]
        BY <2>2
      <3>2. Link(stk, snp, cur, i)
        BY <2>2
      <3> QED BY <1>1, <2>2, <3>1, <3>2 DEF Link
    <2>3. CASE i = Len(stk)
      <3>1. stk2[i] = stk[i] /\ snp2[i] = snp[i] /\ snp2[i + 1] = cur
        BY <2>3
      <3>2. Link(stk, snp, cur, i)
        BY <2>3
      <3> QED BY <1>1, <2>3, <3>1, <3>2 DEF Link
    <2> QED BY <1>1, <2>1, <2>2, <2>3
  <1> QED BY <1>1, <1>2

(* Forgetting the oldest entries of a good stack. *)
LEMMA GoodSuffix ==
  ASSUME NEW stk, NEW snp, NEW cur, GoodLog(stk, snp, cur),
         NEW k \in Nat, k < Len(stk)
  PROVE  GoodLog(SubSeq(stk, k + 1, Len(stk)), SubSeq(snp, k + 1, Len(snp)), cur)
  <1> DEFINE stk2 == SubSeq(stk, k + 1, Len(stk))
             snp2 == SubSeq(snp, k + 1, Len(snp))
  <1> USE DEF GoodLog
  <1>1. /\ stk2 \in Seq(UndoState) /\ Len(stk2) = Len(stk) - k
        /\ \A i \in 1 .. Len(stk) - k : stk2[i] = stk[i + k]
    OBVIOUS
  <1>2. /\ snp2 \in Seq(Database \cup {Nothing}) /\ Len(snp2) = Len(stk) - k
        /\ \A i \in 1 .. Len(stk) - k : snp2[i] = snp[i + k]
    OBVIOUS
  <1>3. ASSUME NEW i \in 1 .. Len(stk2) PROVE Link(stk2, snp2, cur, i)
    <2>1. Link(stk, snp, cur, i + k)
      BY <1>1
    <2>2. stk2[i] = stk[i + k] /\ snp2[i] = snp[i + k]
      BY <1>1, <1>2
    <2>3. CASE i = Len(stk2)
      <3>1. i + k = Len(stk)
        BY <1>1, <2>3
      <3> HIDE DEF stk2, snp2
      <3> QED BY <2>1, <2>2, <2>3, <3>1 DEF Link
    <2>4. CASE i # Len(stk2)
      <3>1. snp2[i + 1] = snp[(i + k) + 1]
        BY <1>1, <1>2, <2>4
      <3> QED BY <1>1, <2>1, <2>2, <2>4, <3>1 DEF Link
    <2> QED BY <2>3, <2>4
  <1> QED BY <1>1, <1>2, <1>3

(* Going back over the last entry of a good stack. *)
LEMMA GoodPop ==
  ASSUME NEW stk, NEW snp, NEW cur, GoodLog(stk, snp, cur),
         stk # <<>>, snp[Len(stk)] # Nothing
  PROVE  GoodLog(DropLast(stk), DropLast(snp), snp[Len(stk)])
  <1> DEFINE stk2 == DropLast(stk)
             snp2 == DropLast(snp)
             db == snp[Len(stk)]
  <1> USE DEF GoodLog
  <1>0. Len(stk) \in Nat /\ Len(stk) >= 1
    OBVIOUS
  <1>1. /\ stk2 \in Seq(UndoState) /\ Len(stk2) = Len(stk) - 1
        /\ \A i \in 1 .. Len(stk) - 1 : stk2[i] = stk[i]
    BY <1>0 DEF DropLast
  <1>2. /\ snp2 \in Seq(Database \cup {Nothing}) /\ Len(snp2) = Len(stk) - 1
        /\ \A i \in 1 .. Len(stk) - 1 : snp2[i] = snp[i]
    BY <1>0 DEF DropLast
  <1>3. db \in Database /\ Numbered(db)
    <2>1. Link(stk, snp, cur, Len(stk))
      BY <1>0
    <2> QED BY <1>0, <2>1 DEF Link
  <1>4. ASSUME NEW i \in 1 .. Len(stk2) PROVE Link(stk2, snp2, db, i)
    <2>1. Link(stk, snp, cur, i) /\ i # Len(stk)
      BY <1>0, <1>1
    <2>2. CASE i = Len(stk2)
      BY <1>0, <1>1, <1>2, <2>1, <2>2 DEF Link
    <2>3. CASE i # Len(stk2)
      <3>1. snp2[i + 1] = snp[i + 1]
        BY <1>0, <1>1, <1>2, <2>3
      <3> QED BY <1>0, <1>1, <1>2, <2>1, <2>3, <3>1 DEF Link
    <2> QED BY <2>2, <2>3
  <1> QED BY <1>1, <1>2, <1>3, <1>4

(* Recording a change in the last entry of a good stack. *)
LEMMA GoodReplace ==
  ASSUME NEW stk, NEW snp, NEW cur, GoodLog(stk, snp, cur), stk # <<>>,
         NEW s \in UndoState, NEW cur2 \in Database, Numbered(cur2),
         snp[Len(stk)] # Nothing => Consistent(s, snp[Len(stk)], cur2)
  PROVE  GoodLog([stk EXCEPT ![Len(stk)] = s], snp, cur2)
  <1> DEFINE stk2 == [stk EXCEPT ![Len(stk)] = s]
  <1> USE DEF GoodLog
  <1>0. Len(stk) \in Nat /\ Len(stk) >= 1
    OBVIOUS
  <1>1. /\ stk2 \in Seq(UndoState) /\ Len(stk2) = Len(stk)
        /\ \A i \in 1 .. Len(stk) : stk2[i] = IF i = Len(stk) THEN s ELSE stk[i]
    BY <1>0
  <1>2. ASSUME NEW i \in 1 .. Len(stk2) PROVE Link(stk2, snp, cur2, i)
    <2>1. Link(stk, snp, cur, i)
      BY <1>1
    <2> QED BY <1>0, <1>1, <2>1, NothingAssumption DEF Link
  <1> QED BY <1>1, <1>2

(* merge() of the last two entries of a good stack. *)
LEMMA GoodSquash ==
  ASSUME NEW stk, NEW snp, NEW cur, GoodLog(stk, snp, cur), Len(stk) >= 2
  PROVE  GoodLog([DropLast(stk) EXCEPT ![Len(stk) - 1] = MergeStates(@, stk[Len(stk)])],
                 DropLast(snp), cur)
  <1> DEFINE n == Len(stk)
             m == MergeStates(stk[n - 1], stk[n])
             stk2 == [DropLast(stk) EXCEPT ![n - 1] = MergeStates(@, stk[n])]
             snp2 == DropLast(snp)
  <1> USE DEF GoodLog
  <1>0. n \in Nat /\ stk[n - 1] \in UndoState /\ stk[n] \in UndoState
    OBVIOUS
  <1>1. /\ DropLast(stk) \in Seq(UndoState) /\ Len(DropLast(stk)) = n - 1
        /\ \A i \in 1 .. n - 1 : DropLast(stk)[i] = stk[i]
    BY <1>0 DEF DropLast
  <1>2. m \in UndoState
    BY <1>0, MergeType
  <1>3. /\ stk2 \in Seq(UndoState) /\ Len(stk2) = n - 1
        /\ \A i \in 1 .. n - 1 : stk2[i] = IF i = n - 1 THEN m ELSE stk[i]
    BY <1>0, <1>1, <1>2
  <1>4. /\ snp2 \in Seq(Database \cup {Nothing}) /\ Len(snp2) = n - 1
        /\ \A i \in 1 .. n - 1 : snp2[i] = snp[i]
    BY <1>0 DEF DropLast
  <1>5. Link(stk, snp, cur, n - 1) /\ Link(stk, snp, cur, n)
    BY <1>0
  <1>6. ASSUME snp[n - 1] # Nothing PROVE Consistent(m, snp[n - 1], cur)
    <2>1. /\ Consistent(stk[n - 1], snp[n - 1], snp[n]) /\ Numbered(snp[n - 1])
          /\ snp[n] # Nothing
      BY <1>0, <1>5, <1>6 DEF Link
    <2>2. Consistent(stk[n], snp[n], cur)
      BY <1>0, <1>5, <2>1 DEF Link
    <2>3. snp[n - 1] \in Database /\ snp[n] \in Database
      BY <1>0, <1>6, <2>1
    <2> QED BY <1>0, <2>1, <2>2, <2>3, MergeConsistent
  <1>7. ASSUME NEW i \in 1 .. Len(stk2) PROVE Link(stk2, snp2, cur, i)
    <2>1. Link(stk, snp, cur, i) /\ i # n
      BY <1>0, <1>3
    <2>2. CASE i = n - 1
      BY <1>0, <1>3, <1>4, <1>6, <2>1, <2>2, NothingAssumption DEF Link
    <2>3. CASE i # n - 1
      <3>1. snp2[i + 1] = snp[i + 1]
        BY <1>0, <1>3, <1>4, <2>3
      <3> QED BY <1>0, <1>3, <1>4, <2>1, <2>3, <3>1 DEF Link
    <2> QED BY <2>2, <2>3
  <1> QED BY <1>3, <1>4, <1>7

(* A change that is not recorded leaves no usable snapshot. *)
LEMMA GoodVoid ==
  ASSUME NEW stk, NEW snp, NEW cur, GoodLog(stk, snp, cur),
         NEW cur2 \in Database, Numbered(cur2)
  PROVE  GoodLog(stk, [i \in 1 .. Len(snp) |-> Nothing], cur2)
  BY DEF GoodLog, Link

(* A stack of one exact log. *)
LEMMA GoodSingle ==
  ASSUME NEW s \in UndoState, NEW before \in Database, NEW cur \in Database,
         Numbered(before), Numbered(cur), Consistent(s, before, cur)
  PROVE  GoodLog(<<s>>, <<before>>, cur)
  BY NothingAssumption DEF GoodLog, Link

-----------------------------------------------------------------------------
(* The inductive invariant *)

(* Sessions nest within the bound, an open session keeps the log enabled,  *)
(* only the outermost one can have been opened on a disabled log, and      *)
(* only the outermost one can be a block.                                  *)
Protocol ==
    /\ Len(sessions) <= MaxDepth
    /\ sessions # <<>> => ~ disabled
    /\ \A k \in 2 .. Len(sessions) : ~ sessions[k].disable_on_exit /\ sessions[k].kind # "block"

IInv == TypeOK /\ GoodLog(stack, snapshots, Current) /\ SessionsSurvive /\ Protocol

(* The current database is one. *)
LEMMA CurrentType == TypeOK => Current \in Database
  BY DEF TypeOK, Current, Database

(* The initial states satisfy the invariant. *)
LEMMA InitIInv == Init => IInv
  <1> SUFFICES ASSUME Init PROVE IInv
    OBVIOUS
  <1>1. TypeOK
    <2>1. objects \in [Ids -> Slot] /\ next_id \in [Types -> 0 .. MaxInstance + 1]
      BY InstanceAssumption DEF Init, Slot
    <2>2. /\ stack = <<>> /\ snapshots = <<>> /\ sessions = <<>> /\ disabled = FALSE
          /\ max_size \in MinHistory .. MaxHistory
      BY HistoryAssumption DEF Init
    <2>3. \A S : <<>> \in Seq(S)
      OBVIOUS
    <2>4. /\ stack \in Seq(UndoState) /\ snapshots \in Seq(Database \cup {Nothing})
          /\ sessions \in Seq([kind : Kinds, disable_on_exit : BOOLEAN, start : Database])
      BY <2>2, <2>3, Zenon
    <2>5. disabled \in BOOLEAN /\ Len(snapshots) = Len(stack)
      BY <2>2
    <2> QED BY <2>1, <2>2, <2>4, <2>5, Zenon DEF TypeOK
  <1>2. Numbered(Current)
    BY DEF Init, Numbered, Current
  <1>3. GoodLog(stack, snapshots, Current)
    BY <1>1, <1>2, CurrentType DEF Init, GoodLog, TypeOK
  <1>4. SessionsSurvive /\ Protocol
    BY DepthAssumption DEF Init, SessionsSurvive, Protocol
  <1> QED BY <1>1, <1>3, <1>4 DEF IInv

(* With the nesting bounded by NestingFits, trimming keeps as many entries *)
(* as there are open sessions, and a good stack good.                      *)
LEMMA TrimmedGood ==
  ASSUME NestingFits, IInv, Len(sessions) < MaxDepth
  PROVE  /\ GoodLog(Trimmed(stack), Trimmed(snapshots), Current)
         /\ Len(Trimmed(stack)) \in Nat
         /\ Len(Trimmed(stack)) >= Len(sessions)
         /\ \E k \in 0 .. Len(stack) :
               /\ Len(Trimmed(stack)) = Len(stack) - k
               /\ Trimmed(snapshots) = SubSeq(snapshots, k + 1, Len(snapshots))
               /\ Len(stack) - k >= Len(sessions)
         /\ \A k \in 1 .. Len(sessions) :
               Trimmed(snapshots)[Len(Trimmed(stack)) - Len(sessions) + k] = sessions[k].start
  <1>1. /\ Len(sessions) \in Nat /\ Len(sessions) <= max_size
        /\ max_size \in Nat /\ max_size >= 1
    BY DepthAssumption, HistoryAssumption DEF NestingFits, IInv, TypeOK
  <1>2. /\ Len(stack) \in Nat /\ Len(snapshots) = Len(stack)
        /\ stack \in Seq(UndoState) /\ snapshots \in Seq(Database \cup {Nothing})
    BY DEF IInv, TypeOK
  <1>3. CASE Len(stack) > max_size
    <2> DEFINE k == Len(stack) - max_size
    <2>1. k \in Nat /\ k < Len(stack) /\ k + 1 = Len(stack) - max_size + 1
      BY <1>1, <1>2, <1>3
    <2>2. /\ Trimmed(stack) = SubSeq(stack, k + 1, Len(stack))
          /\ Trimmed(snapshots) = SubSeq(snapshots, k + 1, Len(snapshots))
      BY <1>2, <1>3 DEF Trimmed
    <2>3. GoodLog(Trimmed(stack), Trimmed(snapshots), Current)
      BY <2>1, <2>2, GoodSuffix DEF IInv
    <2>4. Len(Trimmed(stack)) = max_size
      BY <1>1, <1>2, <2>1, <2>2
    <2>5. \A i \in 1 .. max_size : Trimmed(snapshots)[i] = snapshots[i + k]
      BY <1>1, <1>2, <2>1, <2>2
    <2>6. ASSUME NEW j \in 1 .. Len(sessions)
          PROVE  Trimmed(snapshots)[max_size - Len(sessions) + j] = sessions[j].start
      <3>1. /\ max_size - Len(sessions) + j \in 1 .. max_size
            /\ (max_size - Len(sessions) + j) + k = Len(stack) - Len(sessions) + j
        BY <1>1, <1>2
      <3> QED BY <2>5, <3>1 DEF IInv, SessionsSurvive
    <2> QED BY <1>1, <1>2, <2>1, <2>2, <2>3, <2>4, <2>6
  <1>4. CASE ~ (Len(stack) > max_size)
    <2>1. Trimmed(stack) = stack /\ Trimmed(snapshots) = snapshots
      BY <1>2, <1>4 DEF Trimmed
    <2>2. /\ 0 \in 0 .. Len(stack)
          /\ Len(Trimmed(stack)) = Len(stack) - 0
          /\ Trimmed(snapshots) = SubSeq(snapshots, 0 + 1, Len(snapshots))
      BY <1>2, <2>1
    <2>3. /\ Len(sessions) <= Len(stack)
          /\ \A k \in 1 .. Len(sessions) :
                Trimmed(snapshots)[Len(Trimmed(stack)) - Len(sessions) + k] = sessions[k].start
      BY <2>1 DEF IInv, SessionsSurvive
    <2>4. GoodLog(Trimmed(stack), Trimmed(snapshots), Current)
      BY <2>1 DEF IInv
    <2>5. \E k \in 0 .. Len(stack) :
            /\ Len(Trimmed(stack)) = Len(stack) - k
            /\ Trimmed(snapshots) = SubSeq(snapshots, k + 1, Len(snapshots))
            /\ Len(stack) - k >= Len(sessions)
      <3> WITNESS 0 \in 0 .. Len(stack)
      <3> QED BY <1>1, <1>2, <2>2, <2>3
    <2> QED BY <1>1, <1>2, <2>1, <2>3, <2>4, <2>5
  <1> QED BY <1>3, <1>4

(* start_undo_session preserves the invariant. *)
LEMMA StartIInv ==
  ASSUME NestingFits, IInv, NEW kind \in Kinds, StartUndoSession(kind)
  PROVE  IInv'
  <1> DEFINE session == [kind |-> kind, disable_on_exit |-> disabled, start |-> Current]
  <1>1. Current' = Current
    BY DEF StartUndoSession, Current
  <1>2. /\ GoodLog(Trimmed(stack), Trimmed(snapshots), Current)
        /\ Len(Trimmed(stack)) \in Nat
        /\ Len(Trimmed(stack)) >= Len(sessions)
        /\ \A k \in 1 .. Len(sessions) :
               Trimmed(snapshots)[Len(Trimmed(stack)) - Len(sessions) + k] = sessions[k].start
    BY TrimmedGood DEF StartUndoSession
  <1>3. GoodLog(stack', snapshots', Current')
    BY <1>1, <1>2, GoodAppend DEF StartUndoSession
  <1>4. session \in [kind : Kinds, disable_on_exit : BOOLEAN, start : Database]
    BY CurrentType DEF IInv, TypeOK
  <1>5. TypeOK'
    <2>1. sessions' \in Seq([kind : Kinds, disable_on_exit : BOOLEAN, start : Database])
      BY <1>4 DEF StartUndoSession, IInv, TypeOK
    <2>2. /\ stack' \in Seq(UndoState) /\ snapshots' \in Seq(Database \cup {Nothing})
          /\ Len(snapshots') = Len(stack')
      BY <1>3 DEF GoodLog
    <2>3. /\ objects' \in [Ids -> Slot] /\ next_id' \in [Types -> 0 .. MaxInstance + 1]
          /\ disabled' \in BOOLEAN /\ max_size' \in MinHistory .. MaxHistory
      BY DEF StartUndoSession, IInv, TypeOK
    <2> QED BY <2>1, <2>2, <2>3 DEF TypeOK
  <1>6. /\ Len(sessions') = Len(sessions) + 1
        /\ Len(sessions) \in Nat
        /\ sessions'[Len(sessions) + 1] = session
        /\ \A k \in 1 .. Len(sessions) : sessions'[k] = sessions[k]
    BY <1>4 DEF StartUndoSession, IInv, TypeOK
  <1>7. SessionsSurvive'
    <2> DEFINE n == Len(Trimmed(stack))
    <2>1. /\ Len(stack') = n + 1 /\ snapshots'[n + 1] = Current
          /\ \A i \in 1 .. n : snapshots'[i] = Trimmed(snapshots)[i]
      BY <1>2 DEF StartUndoSession, GoodLog
    <2>2. ASSUME NEW k \in 1 .. Len(sessions')
          PROVE  snapshots'[Len(stack') - Len(sessions') + k] = sessions'[k].start
      <3>1. Len(stack') - Len(sessions') + k = n - Len(sessions) + k
        BY <1>2, <1>6, <2>1
      <3>2. CASE k = Len(sessions) + 1
        BY <1>2, <1>6, <2>1, <3>1, <3>2
      <3>3. CASE k # Len(sessions) + 1
        <4>1. k \in 1 .. Len(sessions) /\ n - Len(sessions) + k \in 1 .. n
          BY <1>2, <1>6, <3>3
        <4> QED BY <1>2, <1>6, <2>1, <3>1, <4>1
      <3> QED BY <3>2, <3>3
    <2> QED BY <1>2, <1>6, <2>1, <2>2 DEF SessionsSurvive
  <1>8. Protocol'
    <2>1. Len(sessions') <= MaxDepth
      BY <1>6, DepthAssumption DEF StartUndoSession
    <2>2. ASSUME NEW k \in 2 .. Len(sessions')
          PROVE  ~ sessions'[k].disable_on_exit /\ sessions'[k].kind # "block"
      <3>1. CASE k = Len(sessions) + 1
        <4>1. sessions # <<>>
          BY <1>6, <3>1
        <4>2. ~ disabled /\ kind # "block"
          BY <4>1 DEF IInv, Protocol, StartUndoSession, MayStart, NoSession
        <4> QED BY <1>6, <3>1, <4>2
      <3>2. CASE k # Len(sessions) + 1
        <4>1. k \in 2 .. Len(sessions)
          BY <1>6, <3>2
        <4> QED BY <1>6, <4>1 DEF IInv, Protocol
      <3> QED BY <3>1, <3>2
    <2> QED BY <2>1, <2>2 DEF Protocol, StartUndoSession
  <1> QED BY <1>3, <1>5, <1>7, <1>8 DEF IInv

(* A change of the database together with its record in the log preserves  *)
(* the invariant when the record keeps the top log exact.                  *)
LEMMA RecordIInv ==
  ASSUME IInv, NEW s \in UndoState, Record(s),
         objects' \in [Ids -> Slot], next_id' \in [Types -> 0 .. MaxInstance + 1],
         Numbered(Current'),
         \A before \in Database : Numbered(before) /\ Consistent(TopState, before, Current)
                                    => Consistent(s, before, Current'),
         UNCHANGED <<disabled, max_size, sessions>>
  PROVE  IInv'
  <1>1. Current \in Database /\ Current' \in Database
    BY CurrentType DEF IInv, Current, Database
  <1>2. GoodLog(stack, snapshots, Current) /\ TypeOK /\ SessionsSurvive /\ Protocol
    BY DEF IInv
  <1>3. /\ GoodLog(stack', snapshots', Current')
        /\ SessionsSurvive'
    <2>1. CASE disabled
      <3>1. /\ stack' = stack /\ snapshots' = [i \in 1 .. Len(snapshots) |-> Nothing]
            /\ sessions' = sessions /\ sessions = <<>>
        BY <1>2, <2>1 DEF Record, Protocol
      <3>2. GoodLog(stack', snapshots', Current')
        BY <1>1, <1>2, <3>1, GoodVoid
      <3>3. SessionsSurvive'
        BY <1>2, <3>1 DEF SessionsSurvive, TypeOK
      <3> QED BY <3>2, <3>3
    <2>2. CASE ~ disabled /\ stack = <<>>
      <3>1. stack' = <<s>> /\ snapshots' = <<Current>> /\ sessions' = sessions
        BY <2>2 DEF Record
      <3>2. Consistent(s, Current, Current')
        BY <1>1, <1>2, <2>2, EmptyConsistent DEF TopState, GoodLog
      <3>3. GoodLog(stack', snapshots', Current')
        BY <1>1, <1>2, <3>1, <3>2, GoodSingle DEF GoodLog
      <3>4. Len(sessions) = 0
        BY <1>2, <2>2 DEF SessionsSurvive, TypeOK
      <3>5. SessionsSurvive'
        BY <3>1, <3>4 DEF SessionsSurvive
      <3> QED BY <3>3, <3>5
    <2>3. CASE ~ disabled /\ stack # <<>>
      <3>1. /\ stack' = [stack EXCEPT ![Len(stack)] = s] /\ snapshots' = snapshots
            /\ sessions' = sessions
        BY <2>3 DEF Record
      <3>2. Link(stack, snapshots, Current, Len(stack)) /\ Len(stack) \in Nat /\ Len(stack) >= 1
        BY <1>2, <2>3 DEF GoodLog
      <3>3. ASSUME snapshots[Len(stack)] # Nothing
            PROVE  Consistent(s, snapshots[Len(stack)], Current')
        <4>1. snapshots[Len(stack)] \in Database
          BY <1>2, <3>2, <3>3 DEF GoodLog
        <4> QED BY <2>3, <3>2, <3>3, <4>1 DEF Link, TopState
      <3>4. GoodLog(stack', snapshots', Current')
        BY <1>1, <1>2, <2>3, <3>1, <3>3, GoodReplace
      <3>5. Len(stack') = Len(stack)
        BY <1>2, <3>1 DEF GoodLog
      <3>6. SessionsSurvive'
        BY <1>2, <3>1, <3>5 DEF SessionsSurvive
      <3> QED BY <3>4, <3>6
    <2> QED BY <2>1, <2>2, <2>3
  <1>4. TypeOK'
    <2>1. /\ stack' \in Seq(UndoState) /\ snapshots' \in Seq(Database \cup {Nothing})
          /\ Len(snapshots') = Len(stack')
      BY <1>3 DEF GoodLog
    <2> QED BY <1>2, <2>1 DEF TypeOK
  <1>5. Protocol'
    BY <1>2 DEF Protocol
  <1> QED BY <1>3, <1>4, <1>5 DEF IInv

(* The log of the last entry is an undo state. *)
LEMMA TopStateType == TypeOK => TopState \in UndoState
  BY EmptyStateType DEF TypeOK, TopState

(* create() preserves the invariant. *)
LEMMA CreateIInv ==
  ASSUME IInv, NEW t \in Types, NEW value \in Values, Create(t, value)
  PROVE  IInv'
  <1> DEFINE id == <<t, next_id[t]>>
  <1>0. TypeOK /\ Numbered(Current) /\ Current \in Database
    BY CurrentType DEF IInv, GoodLog
  <1>1. id \in Ids /\ next_id[t] \in Nat
    BY <1>0, InstanceAssumption DEF Create, TypeOK, Ids, Instances
  <1>2. /\ objects' = [objects EXCEPT ![id] = value]
        /\ next_id' = [next_id EXCEPT ![t] = @ + 1]
        /\ Record(on_create(TopState, id))
        /\ UNCHANGED <<disabled, max_size, sessions>>
        /\ objects[id] = Nothing /\ next_id[t] <= MaxInstance
    BY DEF Create
  <1>3. on_create(TopState, id) \in UndoState
    BY <1>0, <1>1, TopStateType, CreateType
  <1>4. /\ objects' \in [Ids -> Slot]
        /\ next_id' \in [Types -> 0 .. MaxInstance + 1]
    BY <1>0, <1>1, <1>2, InstanceAssumption DEF TypeOK, Slot
  <1>5. Numbered(Current')
    <2> SUFFICES ASSUME NEW x \in Ids, objects'[x] # Nothing
                 PROVE  x[2] < next_id'[x[1]]
      BY DEF Numbered, Current
    <2>1. x[1] \in Types /\ x[2] \in Nat
      BY DEF Ids, Instances
    <2>2. CASE x = id
      BY <1>0, <1>1, <1>2, <2>2, InstanceAssumption DEF TypeOK
    <2>3. CASE x # id
      <3>1. x[2] < next_id[x[1]]
        BY <1>0, <1>2, <2>3 DEF Numbered, Current, TypeOK
      <3> QED BY <1>0, <1>2, <2>1, <3>1, InstanceAssumption DEF TypeOK
    <2> QED BY <2>2, <2>3
  <1>6. ASSUME NEW before \in Database, Numbered(before), Consistent(TopState, before, Current)
        PROVE  Consistent(on_create(TopState, id), before, Current')
    <2>1. Current' = [objects |-> [Current.objects EXCEPT ![<<t, Current.next_id[t]>>] = value],
                      next_id |-> [Current.next_id EXCEPT ![t] = @ + 1]]
      BY <1>2 DEF Current
    <2>2. id = <<t, Current.next_id[t]>> /\ Current.next_id[t] <= MaxInstance
          /\ Current.objects[<<t, Current.next_id[t]>>] = Nothing
      BY <1>2 DEF Current
    <2>3. TopState \in UndoState
      BY <1>0, TopStateType
    <2> HIDE DEF id
    <2> QED BY <1>0, <1>6, <2>1, <2>2, <2>3, CreateConsistent
  <1> HIDE DEF id
  <1> QED BY <1>2, <1>3, <1>4, <1>5, <1>6, RecordIInv

(* modify() preserves the invariant. *)
LEMMA ModifyIInv ==
  ASSUME IInv, NEW id \in Ids, NEW value \in Values, Modify(id, value)
  PROVE  IInv'
  <1>0. TypeOK /\ Numbered(Current) /\ Current \in Database /\ TopState \in UndoState
    BY CurrentType, TopStateType DEF IInv, GoodLog
  <1>1. /\ objects' = [objects EXCEPT ![id] = value] /\ next_id' = next_id
        /\ Record(on_modify(TopState, id, objects[id])) /\ objects[id] # Nothing
        /\ UNCHANGED <<disabled, max_size, sessions>>
    BY DEF Modify
  <1>2. objects[id] \in Values
    BY <1>0, <1>1 DEF TypeOK, Slot
  <1>3. on_modify(TopState, id, objects[id]) \in UndoState
    BY <1>0, <1>2, ModifyType
  <1>4. /\ objects' \in [Ids -> Slot]
        /\ next_id' \in [Types -> 0 .. MaxInstance + 1]
    BY <1>0, <1>1 DEF TypeOK, Slot
  <1>5. Numbered(Current')
    BY <1>0, <1>1 DEF Numbered, Current, TypeOK
  <1>6. ASSUME NEW before \in Database, Numbered(before), Consistent(TopState, before, Current)
        PROVE  Consistent(on_modify(TopState, id, objects[id]), before, Current')
    <2>1. /\ Current' = [objects |-> [Current.objects EXCEPT ![id] = value],
                         next_id |-> Current.next_id]
          /\ Current.objects[id] = objects[id]
      BY <1>1 DEF Current
    <2> QED BY <1>0, <1>1, <1>6, <2>1, ModifyConsistent
  <1> QED BY <1>1, <1>3, <1>4, <1>5, <1>6, RecordIInv

(* remove() preserves the invariant. *)
LEMMA RemoveIInv ==
  ASSUME IInv, NEW id \in Ids, Remove(id)
  PROVE  IInv'
  <1>0. TypeOK /\ Numbered(Current) /\ Current \in Database /\ TopState \in UndoState
    BY CurrentType, TopStateType DEF IInv, GoodLog
  <1>1. /\ objects' = [objects EXCEPT ![id] = Nothing] /\ next_id' = next_id
        /\ Record(on_remove(TopState, id, objects[id])) /\ objects[id] # Nothing
        /\ UNCHANGED <<disabled, max_size, sessions>>
    BY DEF Remove
  <1>2. objects[id] \in Values
    BY <1>0, <1>1 DEF TypeOK, Slot
  <1>3. on_remove(TopState, id, objects[id]) \in UndoState
    BY <1>0, <1>2, RemoveType
  <1>4. /\ objects' \in [Ids -> Slot]
        /\ next_id' \in [Types -> 0 .. MaxInstance + 1]
    BY <1>0, <1>1 DEF TypeOK, Slot
  <1>5. Numbered(Current')
    BY <1>0, <1>1 DEF Numbered, Current, TypeOK
  <1>6. ASSUME NEW before \in Database, Numbered(before), Consistent(TopState, before, Current)
        PROVE  Consistent(on_remove(TopState, id, objects[id]), before, Current')
    <2>1. /\ Current' = [objects |-> [Current.objects EXCEPT ![id] = Nothing],
                         next_id |-> Current.next_id]
          /\ Current.objects[id] = objects[id]
      BY <1>1 DEF Current
    <2> QED BY <1>0, <1>1, <1>6, <2>1, RemoveConsistent
  <1> QED BY <1>1, <1>3, <1>4, <1>5, <1>6, RecordIInv

(* All but the last element of a sequence. *)
LEMMA DropLastFacts ==
  ASSUME NEW S, NEW q \in Seq(S), q # <<>>
  PROVE  /\ Len(q) \in Nat /\ Len(q) >= 1 /\ q[Len(q)] \in S
         /\ DropLast(q) \in Seq(S)
         /\ Len(DropLast(q)) = Len(q) - 1
         /\ \A k \in 1 .. Len(q) - 1 : DropLast(q)[k] = q[k]
  <1>1. Len(q) \in Nat /\ Len(q) >= 1
    OBVIOUS
  <1>2. q[Len(q)] \in S
    BY <1>1
  <1>3. DropLast(q) \in Seq(S)
    BY <1>1 DEF DropLast
  <1>4. Len(DropLast(q)) = Len(q) - 1
    BY <1>1, SMTT(30) DEF DropLast
  <1>5. \A k \in 1 .. Len(q) - 1 : DropLast(q)[k] = q[k]
    BY <1>1 DEF DropLast
  <1> QED BY <1>1, <1>2, <1>3, <1>4, <1>5

(* Closing the innermost session keeps the session protocol. *)
LEMMA EndSessionFacts ==
  ASSUME TypeOK, Protocol, sessions # <<>>, EndSession
  PROVE  /\ Len(sessions) \in Nat /\ Len(sessions) >= 1
         /\ Len(sessions') = Len(sessions) - 1
         /\ \A k \in 1 .. Len(sessions) - 1 : sessions'[k] = sessions[k]
         /\ sessions' \in Seq([kind : Kinds, disable_on_exit : BOOLEAN, start : Database])
         /\ disabled' \in BOOLEAN
         /\ Protocol'
  <1> DEFINE S == [kind : Kinds, disable_on_exit : BOOLEAN, start : Database]
  <1>1. sessions \in Seq(S) /\ Len(sessions) \in Nat /\ Len(sessions) >= 1
    BY DEF TypeOK
  <1> HIDE DEF S
  <1>2. /\ sessions' \in Seq(S) /\ Len(sessions') = Len(sessions) - 1
        /\ \A k \in 1 .. Len(sessions) - 1 : sessions'[k] = sessions[k]
    BY <1>1, DropLastFacts DEF EndSession
  <1>3. disabled' \in BOOLEAN
    <2>1. sessions[Len(sessions)] \in S
      BY <1>1
    <2> QED BY <2>1 DEF EndSession, S
  <1>4. Len(sessions') <= MaxDepth
    BY <1>1, <1>2, DepthAssumption DEF Protocol
  <1>5. sessions' # <<>> => ~ disabled'
    <2> SUFFICES ASSUME sessions' # <<>> PROVE ~ disabled'
      OBVIOUS
    <2>1. Len(sessions) \in 2 .. Len(sessions)
      BY <1>1, <1>2
    <2> QED BY <2>1 DEF EndSession, Protocol
  <1>6. \A k \in 2 .. Len(sessions') :
          ~ sessions'[k].disable_on_exit /\ sessions'[k].kind # "block"
    BY <1>1, <1>2 DEF Protocol
  <1> QED BY <1>1, <1>2, <1>3, <1>4, <1>5, <1>6 DEF Protocol, S

(* The last entry of the stack belongs to the innermost session. *)
LEMMA TopOfSession ==
  ASSUME IInv, sessions # <<>>
  PROVE  /\ Len(stack) \in Nat /\ Len(stack) >= 1 /\ stack # <<>>
         /\ Len(sessions) \in Nat /\ Len(sessions) >= 1
         /\ snapshots[Len(stack)] = sessions[Len(sessions)].start
         /\ snapshots[Len(stack)] \in Database
         /\ snapshots[Len(stack)] # Nothing
  <1>1. /\ Len(stack) \in Nat /\ Len(sessions) \in Nat /\ Len(sessions) >= 1
        /\ Len(sessions) <= Len(stack)
    BY DEF IInv, TypeOK, SessionsSurvive
  <1>2. Len(sessions) \in 1 .. Len(sessions)
        /\ Len(stack) - Len(sessions) + Len(sessions) = Len(stack)
    BY <1>1
  <1>3. snapshots[Len(stack)] = sessions[Len(sessions)].start
    BY <1>2 DEF IInv, SessionsSurvive
  <1>4. sessions[Len(sessions)].start \in Database
    <2>1. sessions[Len(sessions)] \in [kind : Kinds, disable_on_exit : BOOLEAN, start : Database]
      BY DropLastFacts DEF IInv, TypeOK
    <2> QED BY <2>1
  <1> QED BY <1>1, <1>3, <1>4, NothingAssumption

(* A usable last entry leads back to its snapshot. *)
LEMMA PopReturns ==
  ASSUME IInv, stack # <<>>, snapshots[Len(stack)] # Nothing, PopRestored
  PROVE  /\ Current' = snapshots[Len(stack)]
         /\ objects' \in [Ids -> Slot] /\ next_id' \in [Types -> 0 .. MaxInstance + 1]
         /\ ~ RestoreThrows(TopState, objects)
  <1>1. /\ GoodLog(stack, snapshots, Current) /\ TypeOK /\ Current \in Database
        /\ TopState \in UndoState
    BY CurrentType, TopStateType DEF IInv
  <1>2. Len(stack) \in Nat /\ Len(stack) >= 1 /\ TopState = stack[Len(stack)]
    BY <1>1 DEF GoodLog, TopState
  <1>3. Link(stack, snapshots, Current, Len(stack))
    BY <1>1, <1>2 DEF GoodLog
  <1>4. Consistent(TopState, snapshots[Len(stack)], Current)
    BY <1>2, <1>3 DEF Link
  <1>5. snapshots[Len(stack)] \in Database
    BY <1>1, <1>2 DEF GoodLog
  <1> DEFINE snap == snapshots[Len(stack)]
  <1>6. /\ ~ RestoreThrows(TopState, Current.objects)
        /\ RestoreObjects(TopState, Current.objects) = snap.objects
        /\ RestoreNextIds(TopState, Current.next_id) = snap.next_id
    BY <1>1, <1>4, <1>5, RestoreConsistent
  <1>7. objects' = snap.objects /\ next_id' = snap.next_id
    BY <1>6 DEF PopRestored, Current
  <1> HIDE DEF snap
  <1>8. snap \in Database
    BY <1>5 DEF snap
  <1>9. Current' = snap
    BY <1>7, <1>8 DEF Current, Database
  <1> QED BY <1>6, <1>7, <1>8, <1>9 DEF Current, Database, snap

(* Undoing the innermost session preserves the invariant and returns to   *)
(* where the session began.                                               *)
LEMMA UndoIInv ==
  ASSUME IInv, sessions # <<>>, UndoLast
  PROVE  IInv' /\ Current' = sessions[Len(sessions)].start
  <1>0. TypeOK /\ Protocol /\ SessionsSurvive /\ GoodLog(stack, snapshots, Current)
    BY DEF IInv
  <1>1. /\ Len(stack) \in Nat /\ Len(stack) >= 1 /\ stack # <<>>
        /\ Len(sessions) \in Nat /\ Len(sessions) >= 1
        /\ snapshots[Len(stack)] = sessions[Len(sessions)].start
        /\ snapshots[Len(stack)] \in Database /\ snapshots[Len(stack)] # Nothing
    BY TopOfSession
  <1>2. /\ Current' = snapshots[Len(stack)]
        /\ objects' \in [Ids -> Slot] /\ next_id' \in [Types -> 0 .. MaxInstance + 1]
    BY <1>1, PopReturns DEF UndoLast
  <1>3. GoodLog(DropLast(stack), DropLast(snapshots), Current')
    BY <1>0, <1>1, <1>2, GoodPop
  <1>4. /\ Len(sessions') = Len(sessions) - 1
        /\ \A k \in 1 .. Len(sessions) - 1 : sessions'[k] = sessions[k]
        /\ sessions' \in Seq([kind : Kinds, disable_on_exit : BOOLEAN, start : Database])
        /\ disabled' \in BOOLEAN
        /\ Protocol'
    BY <1>0, <1>1, EndSessionFacts DEF UndoLast
  <1>5. GoodLog(stack', snapshots', Current') /\ SessionsSurvive'
    <2>1. CASE Len(stack) = 1
      <3>1. stack' = <<EmptyState>> /\ snapshots' = <<Current'>>
        BY <2>1 DEF UndoLast, Current
      <3>2. Current' \in Database /\ Numbered(Current')
        BY <1>3 DEF GoodLog
      <3>3. GoodLog(stack', snapshots', Current')
        BY <3>1, <3>2, GoodSingle, EmptyConsistent, EmptyStateType
      <3>4. Len(sessions') = 0
        BY <1>0, <1>1, <1>4, <2>1 DEF SessionsSurvive
      <3>5. SessionsSurvive'
        BY <3>1, <3>4 DEF SessionsSurvive
      <3> QED BY <3>3, <3>5
    <2>2. CASE Len(stack) # 1
      <3>1. stack' = DropLast(stack) /\ snapshots' = DropLast(snapshots)
        BY <2>2 DEF UndoLast
      <3>2. /\ Len(stack') = Len(stack) - 1
            /\ \A i \in 1 .. Len(stack) - 1 : snapshots'[i] = snapshots[i]
        BY <1>0, <1>1, <3>1 DEF DropLast, GoodLog
      <3>3. SessionsSurvive'
        <4>1. ASSUME NEW k \in 1 .. Len(sessions')
              PROVE  snapshots'[Len(stack') - Len(sessions') + k] = sessions'[k].start
          <5>1. /\ Len(stack') - Len(sessions') + k = Len(stack) - Len(sessions) + k
                /\ Len(stack) - Len(sessions) + k \in 1 .. Len(stack) - 1
                /\ k \in 1 .. Len(sessions) - 1 /\ k \in 1 .. Len(sessions)
            BY <1>0, <1>1, <1>4, <3>2 DEF SessionsSurvive
          <5> QED BY <1>0, <1>4, <3>2, <5>1 DEF SessionsSurvive
        <4>2. Len(sessions') <= Len(stack')
          BY <1>0, <1>1, <1>4, <3>2 DEF SessionsSurvive
        <4> QED BY <4>1, <4>2 DEF SessionsSurvive
      <3> QED BY <1>3, <3>1, <3>3
    <2> QED BY <2>1, <2>2
  <1>6. TypeOK'
    <2>1. /\ stack' \in Seq(UndoState) /\ snapshots' \in Seq(Database \cup {Nothing})
          /\ Len(snapshots') = Len(stack')
      BY <1>5 DEF GoodLog
    <2>2. max_size' \in MinHistory .. MaxHistory
      BY <1>0 DEF TypeOK, UndoLast
    <2> QED BY <1>2, <1>4, <2>1, <2>2 DEF TypeOK
  <1> QED BY <1>1, <1>2, <1>4, <1>5, <1>6 DEF IInv

(* merge() preserves the invariant. *)
LEMMA MergeIInv ==
  ASSUME IInv, sessions # <<>>, Len(stack) >= 2, MergeLast
  PROVE  IInv' /\ Current' = Current /\ snapshots' = DropLast(snapshots)
  <1>0. TypeOK /\ Protocol /\ SessionsSurvive /\ GoodLog(stack, snapshots, Current)
    BY DEF IInv
  <1>1. Len(stack) \in Nat /\ stack # <<>> /\ Len(sessions) \in Nat /\ Len(sessions) >= 1
    BY TopOfSession
  <1>2. Current' = Current
    BY DEF MergeLast, Current
  <1>3. GoodLog(stack', snapshots', Current')
    <2>1. TopState = stack[Len(stack)]
      BY <1>1 DEF TopState
    <2> QED BY <1>0, <1>2, <2>1, GoodSquash DEF MergeLast
  <1>4. /\ Len(sessions') = Len(sessions) - 1
        /\ \A k \in 1 .. Len(sessions) - 1 : sessions'[k] = sessions[k]
        /\ sessions' \in Seq([kind : Kinds, disable_on_exit : BOOLEAN, start : Database])
        /\ disabled' \in BOOLEAN
        /\ Protocol'
    BY <1>0, EndSessionFacts DEF MergeLast
  <1>5. SessionsSurvive'
    <2>1. /\ Len(snapshots') = Len(stack) - 1
          /\ \A i \in 1 .. Len(stack) - 1 : snapshots'[i] = snapshots[i]
      BY <1>0, <1>1 DEF MergeLast, DropLast, GoodLog
    <2>2. Len(stack') = Len(stack) - 1
      BY <1>3, <2>1 DEF GoodLog
    <2>3. ASSUME NEW k \in 1 .. Len(sessions')
          PROVE  snapshots'[Len(stack') - Len(sessions') + k] = sessions'[k].start
      <3>1. /\ Len(stack') - Len(sessions') + k = Len(stack) - Len(sessions) + k
            /\ Len(stack) - Len(sessions) + k \in 1 .. Len(stack) - 1
            /\ k \in 1 .. Len(sessions) - 1 /\ k \in 1 .. Len(sessions)
        BY <1>0, <1>1, <1>4, <2>2 DEF SessionsSurvive
      <3> QED BY <1>0, <1>4, <2>1, <3>1 DEF SessionsSurvive
    <2>4. Len(sessions') <= Len(stack')
      BY <1>0, <1>1, <1>4, <2>2 DEF SessionsSurvive
    <2> QED BY <2>3, <2>4 DEF SessionsSurvive
  <1>6. TypeOK'
    <2>1. /\ stack' \in Seq(UndoState) /\ snapshots' \in Seq(Database \cup {Nothing})
          /\ Len(snapshots') = Len(stack')
      BY <1>3 DEF GoodLog
    <2>2. /\ max_size' \in MinHistory .. MaxHistory /\ objects' \in [Ids -> Slot]
          /\ next_id' \in [Types -> 0 .. MaxInstance + 1]
      BY <1>0 DEF TypeOK, MergeLast
    <2> QED BY <1>4, <2>1, <2>2 DEF TypeOK
  <1> QED BY <1>2, <1>3, <1>4, <1>5, <1>6 DEF IInv, MergeLast

(* Ending a block session by commit preserves the invariant. *)
LEMMA CommitIInv ==
  ASSUME IInv, Commit
  PROVE  IInv' /\ sessions # <<>>
  <1>0. /\ TypeOK /\ Protocol /\ SessionsSurvive /\ GoodLog(stack, snapshots, Current)
        /\ sessions # <<>>
    BY DEF IInv, Commit, TopKind, NoSession
  <1>1. /\ Len(sessions) \in Nat /\ Len(sessions) >= 1
        /\ Len(sessions') = Len(sessions) - 1
        /\ sessions' \in Seq([kind : Kinds, disable_on_exit : BOOLEAN, start : Database])
        /\ disabled' \in BOOLEAN
        /\ Protocol'
    BY <1>0, EndSessionFacts DEF Commit
  <1>2. TypeOK'
    BY <1>0, <1>1 DEF TypeOK, Commit
  <1>3. GoodLog(stack', snapshots', Current')
    BY <1>0 DEF Commit, Current
  <1>4. SessionsSurvive'
    <2>1. Len(sessions) = 1
      <3>1. sessions[Len(sessions)].kind = "block"
        BY <1>0 DEF Commit, TopKind, NoSession
      <3>2. ~ (Len(sessions) \in 2 .. Len(sessions))
        BY <1>0, <3>1 DEF Protocol
      <3> QED BY <1>1, <3>2
    <2>2. Len(sessions') = 0 /\ stack' = stack
      BY <1>1, <2>1 DEF Commit
    <2> QED BY <1>0, <2>2 DEF SessionsSurvive, TypeOK
  <1> QED BY <1>0, <1>1, <1>2, <1>3, <1>4 DEF IInv

(* pop_commit preserves the invariant. *)
LEMMA PopCommitIInv ==
  ASSUME IInv, PopCommit
  PROVE  IInv' /\ Current' = snapshots[Len(snapshots)]
  <1>0. /\ TypeOK /\ Protocol /\ SessionsSurvive /\ GoodLog(stack, snapshots, Current)
        /\ sessions = <<>> /\ sessions' = sessions
        /\ stack # <<>> /\ snapshots[Len(stack)] # Nothing
        /\ Len(snapshots) = Len(stack)
    BY DEF IInv, PopCommit, NoSession, TypeOK
  <1>1. /\ Current' = snapshots[Len(stack)]
        /\ objects' \in [Ids -> Slot] /\ next_id' \in [Types -> 0 .. MaxInstance + 1]
    BY <1>0, PopReturns DEF PopCommit
  <1>2. GoodLog(stack', snapshots', Current')
    BY <1>0, <1>1, GoodPop DEF PopCommit
  <1>3. TypeOK'
    <2>1. /\ stack' \in Seq(UndoState) /\ snapshots' \in Seq(Database \cup {Nothing})
          /\ Len(snapshots') = Len(stack')
      BY <1>2 DEF GoodLog
    <2> QED BY <1>0, <1>1, <2>1 DEF TypeOK, PopCommit
  <1>4. SessionsSurvive'
    <2>1. Len(sessions') = 0 /\ Len(stack') \in Nat
      BY <1>0, <1>3 DEF TypeOK
    <2> QED BY <2>1 DEF SessionsSurvive
  <1>5. Protocol'
    BY <1>0 DEF Protocol, PopCommit
  <1> QED BY <1>0, <1>1, <1>2, <1>3, <1>4, <1>5 DEF IInv

(* Enabling, disabling and resizing the log preserve the invariant. *)
LEMMA SettingsIInv ==
  ASSUME IInv,
         Disable \/ Enable \/ \E n \in MinHistory .. MaxHistory : SetMaxSize(n)
  PROVE  IInv' /\ UNCHANGED <<Current, snapshots, sessions>>
  <1>1. /\ UNCHANGED <<objects, next_id, stack, sessions, snapshots>>
        /\ disabled' \in BOOLEAN /\ max_size' \in MinHistory .. MaxHistory
        /\ sessions # <<>> => disabled' = disabled
    BY DEF IInv, TypeOK, Disable, Enable, SetMaxSize, NoSession
  <1>2. Current' = Current
    BY <1>1 DEF Current
  <1>3. TypeOK' /\ SessionsSurvive' /\ Protocol'
    BY <1>1 DEF IInv, TypeOK, SessionsSurvive, Protocol
  <1>4. GoodLog(stack', snapshots', Current')
    BY <1>1, <1>2 DEF IInv
  <1> QED BY <1>1, <1>2, <1>3, <1>4 DEF IInv

(* Every step preserves the invariant. *)
LEMMA NextIInv ==
  ASSUME NestingFits, IInv, [Next]_vars
  PROVE  IInv'
  <1>1. CASE \E kind \in Kinds : StartUndoSession(kind)
    BY <1>1, StartIInv
  <1>2. CASE \E t \in Types, value \in Values : Create(t, value)
    BY <1>2, CreateIInv
  <1>3. CASE \E id \in Ids, value \in Values : Modify(id, value)
    BY <1>3, ModifyIInv
  <1>4. CASE \E id \in Ids : Remove(id)
    BY <1>4, RemoveIInv
  <1>5. CASE Undo
    BY <1>5, UndoIInv DEF Undo, NoSession
  <1>6. CASE Merge
    BY <1>6, UndoIInv, MergeIInv DEF Merge, TopKind, NoSession
  <1>7. CASE Commit
    BY <1>7, CommitIInv
  <1>8. CASE PopCommit
    BY <1>8, PopCommitIInv
  <1>9. CASE Disable \/ Enable \/ \E n \in MinHistory .. MaxHistory : SetMaxSize(n)
    BY <1>9, SettingsIInv
  <1>10. CASE UNCHANGED vars
    <2>1. /\ UNCHANGED <<objects, next_id, stack, disabled, max_size, sessions, snapshots>>
          /\ Current' = Current
      BY <1>10 DEF vars, Current
    <2> QED BY <2>1 DEF IInv, TypeOK, SessionsSurvive, Protocol
  <1> QED BY <1>1, <1>2, <1>3, <1>4, <1>5, <1>6, <1>7, <1>8, <1>9, <1>10 DEF Next

(* The invariant holds in every reachable state. *)
LEMMA AlwaysIInv ==
  ASSUME NestingFits
  PROVE  Spec => []IInv
  <1>1. Init => IInv
    BY InitIInv
  <1>2. IInv /\ [Next]_vars => IInv'
    BY NextIInv
  <1> QED BY <1>1, <1>2, PTL DEF Spec

-----------------------------------------------------------------------------
(* What follows from the invariant *)

(* Entry i of a good stack, read in the terms of the checked properties. *)
LEMMA ExactEntry ==
  ASSUME IInv, NEW i \in 1 .. Len(stack), snapshots[i] # Nothing
  PROVE  /\ After(i) \in Database
         /\ After(i) # Nothing
         /\ Numbered(snapshots[i])
         /\ snapshots[i] \in Database
         /\ stack[i] \in UndoState
         /\ Consistent(stack[i], snapshots[i], After(i))
  <1>1. GoodLog(stack, snapshots, Current) /\ Current \in Database
    BY DEF IInv, GoodLog
  <1>2. Link(stack, snapshots, Current, i)
    BY <1>1 DEF GoodLog
  <1>3. After(i) = IF i = Len(stack) THEN Current ELSE snapshots[i + 1]
    BY DEF After
  <1>4. /\ Numbered(snapshots[i]) /\ After(i) # Nothing
        /\ Consistent(stack[i], snapshots[i], After(i))
    BY <1>2, <1>3 DEF Link
  <1>5. snapshots[i] \in Database /\ stack[i] \in UndoState
    BY <1>1 DEF GoodLog
  <1>6. After(i) \in Database
    <2>1. CASE i = Len(stack)
      BY <1>1, <1>3, <2>1
    <2>2. CASE i # Len(stack)
      <3>1. i + 1 \in 1 .. Len(snapshots)
        BY <1>1, <2>2 DEF GoodLog
      <3>2. snapshots[i + 1] \in Database \cup {Nothing}
        BY <1>1, <3>1 DEF GoodLog
      <3> QED BY <1>3, <1>4, <2>2, <3>2
    <2> QED BY <2>1, <2>2
  <1> QED BY <1>4, <1>5, <1>6

(* The variables keep their types, whatever the callers nest and write. *)
THEOREM TypeCorrect ==
  ASSUME NestingFits
  PROVE  Spec => []TypeOK
  <1>1. IInv => TypeOK
    BY DEF IInv
  <1> QED BY <1>1, AlwaysIInv, PTL

(* Every undo state on the stack is the exact difference between two       *)
(* consecutive snapshots, so undo() and pop_commit() can always go back.   *)
THEOREM LogsExact ==
  ASSUME NestingFits
  PROVE  Spec => []LogsAreExact
  <1>1. IInv => LogsAreExact
    BY ExactEntry DEF LogsAreExact
  <1> QED BY <1>1, AlwaysIInv, PTL

(* No undo() or pop_commit() meets a missing or an unexpected object. *)
THEOREM RestoreSafe ==
  ASSUME NestingFits
  PROVE  Spec => []RestoreNeverThrows
  <1>1. IInv => RestoreNeverThrows
    BY ExactEntry, RestoreConsistent DEF RestoreNeverThrows
  <1> QED BY <1>1, AlwaysIInv, PTL

(* The combinations merge() calls N/A cannot occur. *)
THEOREM MergeLegal ==
  ASSUME NestingFits
  PROVE  Spec => []NoIllegalMerge
  <1>1. ASSUME IInv, NEW i \in 1 .. Len(stack) - 1, snapshots[i] # Nothing
        PROVE  ~ IllegalMerge(stack[i], stack[i + 1])
    <2>1. Len(stack) \in Nat
      BY <1>1 DEF IInv, TypeOK
    <2>2. /\ i \in 1 .. Len(stack) /\ i + 1 \in 1 .. Len(stack)
          /\ After(i) = snapshots[i + 1]
      BY <2>1 DEF After
    <2>3. /\ Consistent(stack[i], snapshots[i], snapshots[i + 1])
          /\ snapshots[i + 1] # Nothing /\ snapshots[i + 1] \in Database
          /\ snapshots[i] \in Database /\ Numbered(snapshots[i]) /\ stack[i] \in UndoState
      BY <1>1, <2>2, ExactEntry
    <2>4. /\ Consistent(stack[i + 1], snapshots[i + 1], After(i + 1))
          /\ After(i + 1) \in Database /\ stack[i + 1] \in UndoState
      BY <1>1, <2>2, <2>3, ExactEntry
    <2> QED BY <2>3, <2>4, MergeConsistent
  <1>2. IInv => NoIllegalMerge
    BY <1>1 DEF NoIllegalMerge
  <1> QED BY <1>2, AlwaysIInv, PTL

(* The next id of an index is never in use, although undo() hands numbers  *)
(* out again.                                                              *)
THEOREM FreshIds ==
  ASSUME NestingFits
  PROVE  Spec => []NextIdIsFresh
  <1>1. IInv => NextIdIsFresh
    BY DEF IInv, GoodLog, NextIdIsFresh
  <1> QED BY <1>1, AlwaysIInv, PTL

(* Trimming the stack never takes the undo state of an open session. *)
THEOREM OpenSessionsSurvive ==
  ASSUME NestingFits
  PROVE  Spec => []SessionsSurvive
  <1>1. IInv => SessionsSurvive
    BY DEF IInv
  <1> QED BY <1>1, AlwaysIInv, PTL

(* Undoing a session returns to the database its start found. *)
THEOREM UndoReturns ==
  ASSUME NestingFits
  PROVE  Spec => UndoReturnsToStart
  <1>1. IInv /\ [Next]_vars => [Undo => Current' = sessions[Len(sessions)].start]_vars
    BY UndoIInv DEF Undo, NoSession
  <1> QED BY <1>1, AlwaysIInv, PTL DEF Spec, UndoReturnsToStart

-----------------------------------------------------------------------------
(* Refinement *)

(* Every step of the undo log is a step of the stack of copies. *)
LEMMA StepRefines ==
  ASSUME NestingFits, IInv, [Next]_vars
  PROVE  [Store!SNext]_(Store!svars)
  <1>0. /\ TypeOK /\ Current \in Database /\ Len(snapshots) = Len(stack)
        /\ Len(stack) \in Nat /\ Len(sessions) \in Nat
        /\ (snapshots = <<>> <=> stack = <<>>)
    BY CurrentType DEF IInv, TypeOK
  <1>1. CASE \E kind \in Kinds : StartUndoSession(kind)
    <2>1. PICK kind \in Kinds : StartUndoSession(kind)
      BY <1>1
    <2>2. PICK k \in 0 .. Len(stack) :
            /\ Trimmed(snapshots) = SubSeq(snapshots, k + 1, Len(snapshots))
            /\ Len(stack) - k >= Len(sessions)
      BY <2>1, TrimmedGood DEF StartUndoSession
    <2>3. Current' = Current /\ Len(sessions') = Len(sessions) + 1
      BY <1>0, <2>1 DEF StartUndoSession, Current, TypeOK
    <2>4. Store!Begin(k)
      BY <1>0, <2>1, <2>2, <2>3 DEF Store!Begin, StartUndoSession
    <2> QED BY <1>0, <2>2, <2>4 DEF Store!SNext
  <1>2. ASSUME NEW s, Record(s), UNCHANGED sessions, IInv'
        PROVE  Store!SNext
    <2>1. Current' \in Database /\ Len(sessions') = Len(sessions)
      BY <1>2 DEF IInv, GoodLog
    <2>2. CASE disabled
      <3>1. Len(sessions) = 0
        BY <2>2 DEF IInv, Protocol
      <3>2. Store!ChangeUnrecorded
        BY <1>2, <2>1, <2>2, <3>1 DEF Store!ChangeUnrecorded, Record
      <3> QED BY <3>2 DEF Store!SNext
    <2>3. CASE ~ disabled
      <3>1. Store!Change
        BY <1>0, <1>2, <2>1, <2>3 DEF Store!Change, Record
      <3> QED BY <3>1 DEF Store!SNext
    <2> QED BY <2>2, <2>3
  <1>3. CASE \/ \E t \in Types, value \in Values : Create(t, value)
             \/ \E id \in Ids, value \in Values : Modify(id, value)
             \/ \E id \in Ids : Remove(id)
    BY <1>2, <1>3, CreateIInv, ModifyIInv, RemoveIInv DEF Create, Modify, Remove
  <1>4. ASSUME sessions # <<>>, UndoLast PROVE Store!SNext
    <2>1. /\ Current' = snapshots[Len(stack)] /\ snapshots[Len(stack)] # Nothing
          /\ Len(sessions) >= 1
      BY <1>4, UndoIInv, TopOfSession
    <2>2. Len(sessions') = Len(sessions) - 1
      BY <1>0, <1>4, EndSessionFacts DEF IInv, UndoLast
    <2>3. snapshots' = IF Len(snapshots) = 1 THEN <<snapshots[Len(snapshots)]>>
                       ELSE SubSeq(snapshots, 1, Len(snapshots) - 1)
      BY <1>0, <1>4, <2>1 DEF UndoLast, Current, DropLast
    <2>4. Store!Rollback
      BY <1>0, <2>1, <2>2, <2>3 DEF Store!Rollback, Store!Top, Store!Rest
    <2> QED BY <2>4 DEF Store!SNext
  <1>5. CASE Undo
    BY <1>4, <1>5 DEF Undo, NoSession
  <1>6. CASE Merge
    <2>1. sessions # <<>>
      BY <1>6 DEF Merge, TopKind, NoSession
    <2>2. CASE Len(stack) >= 2
      <3>1. MergeLast
        BY <1>6, <2>2 DEF Merge
      <3>2. Current' = Current /\ snapshots' = DropLast(snapshots)
        BY <2>1, <2>2, <3>1, MergeIInv
      <3>3. Len(sessions') = Len(sessions) - 1 /\ Len(sessions) >= 1
        BY <1>0, <2>1, <3>1, EndSessionFacts DEF IInv, MergeLast
      <3>4. Store!Squash
        BY <1>0, <3>2, <3>3 DEF Store!Squash, Store!Rest, DropLast
      <3> QED BY <3>4 DEF Store!SNext
    <2>3. CASE ~ (Len(stack) >= 2)
      BY <1>4, <1>6, <2>1, <2>3 DEF Merge
    <2> QED BY <2>2, <2>3
  <1>7. CASE Commit
    <2>1. Len(sessions') = Len(sessions) - 1 /\ Len(sessions) >= 1
      BY <1>0, <1>7, CommitIInv, EndSessionFacts DEF IInv, Commit
    <2>2. Current' = Current /\ snapshots' = snapshots
      BY <1>7 DEF Commit, Current
    <2>3. Store!Keep
      BY <1>0, <2>1, <2>2 DEF Store!Keep
    <2> QED BY <2>3 DEF Store!SNext
  <1>8. CASE PopCommit
    <2>1. Current' = snapshots[Len(snapshots)]
      BY <1>8, PopCommitIInv
    <2>2. Store!Pop
      BY <1>0, <1>8, <2>1 DEF Store!Pop, Store!Top, Store!Rest, PopCommit, NoSession, DropLast
    <2> QED BY <2>2 DEF Store!SNext
  <1>9. CASE Disable \/ Enable \/ \E n \in MinHistory .. MaxHistory : SetMaxSize(n)
    BY <1>9, SettingsIInv DEF Store!svars
  <1>10. CASE UNCHANGED vars
    BY <1>10 DEF vars, Current, Store!svars
  <1> QED BY <1>1, <1>3, <1>5, <1>6, <1>7, <1>8, <1>9, <1>10 DEF Next

(* The undo log implements SnapshotStore: sessions behave as if each had   *)
(* saved a copy of the whole database.                                     *)
THEOREM Refinement ==
  ASSUME NestingFits
  PROVE  Spec => ImplementsSnapshots
  <1>1. Init => Store!SInit
    BY DEF Init, Store!SInit, InitialDatabase, Current
  <1>2. IInv /\ [Next]_vars => [Store!SNext]_(Store!svars)
    BY StepRefines
  <1> QED BY <1>1, <1>2, AlwaysIInv, PTL DEF Spec, ImplementsSnapshots, Store!SSpec
=============================================================================
