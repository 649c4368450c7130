---------------------------- MODULE UndoDatabase ----------------------------
(***************************************************************************)
(* The object database with its undo log (libraries/db).  Every index      *)
(* hands out consecutive instance numbers; a stack of undo states records, *)
(* per object, what is needed to take the objects back to the moment the   *)
(* state was pushed.  Sessions (block, pending transactions, one           *)
(* transaction, a proposal) are opened and closed in LIFO order by the     *)
(* chain; a session ends by undo, by merge into the state below, or by     *)
(* commit.  A committed state can later be popped.                         *)
(*                                                                         *)
(* snapshots and the start field of a session are history variables: they  *)
(* copy the whole database at the moments the code only starts a log.      *)
(***************************************************************************)
EXTENDS Integers, Sequences

CONSTANTS
    Types,        \* (space, type) pairs: the indexes of the object database
    Values,       \* contents of an object
    MaxInstance,  \* largest instance number of the instance under check
    Nothing,      \* no object, no map entry, no usable snapshot
    MaxDepth,     \* deepest nesting of sessions by the callers
    MinHistory,   \* smallest max_size the chain ever sets
    MaxHistory    \* largest max_size the chain ever sets

ASSUME InstanceAssumption == MaxInstance \in Nat
ASSUME DepthAssumption    == MaxDepth \in Nat \ {0}
ASSUME HistoryAssumption  ==
    MinHistory \in Nat \ {0} /\ MaxHistory \in Nat /\ MinHistory <= MaxHistory

VARIABLES
    objects,   \* contents of every object, Nothing when it does not exist
    next_id,   \* _next_id of every index
    stack,     \* _stack: the undo states, oldest first
    disabled,  \* _disabled
    max_size,  \* _max_size
    sessions,  \* live session objects, innermost last
    snapshots  \* history: the database when each stack entry was pushed

vars == <<objects, next_id, stack, disabled, max_size, sessions, snapshots>>

Instances == 0 .. MaxInstance
Ids       == Types \X Instances
Slot      == Values \cup {Nothing}
Database  == [objects : [Ids -> Slot], next_id : [Types -> 0 .. MaxInstance + 1]]
Current   == [objects |-> objects, next_id |-> next_id]

ASSUME NothingAssumption ==
    Nothing \notin Values /\ Nothing \notin Int /\ Nothing \notin Database

Kinds == {"block", "pending", "temp", "validate", "proposal"}

-----------------------------------------------------------------------------
(* undo_state: unordered maps are total functions, Nothing = no entry *)

UndoState == [old_values         : [Ids -> Slot],
              old_index_next_ids : [Types -> Instances \cup {Nothing}],
              new_ids            : SUBSET Ids,
              removed            : [Ids -> Slot]]

EmptyState == [old_values         |-> [id \in Ids |-> Nothing],
               old_index_next_ids |-> [t \in Types |-> Nothing],
               new_ids            |-> {},
               removed            |-> [id \in Ids |-> Nothing]]

(* mutant: the number recorded is the index's, not the object's *)
on_create_RecordsZero(state, id) ==
    [state EXCEPT !.old_index_next_ids[id[1]] = IF @ = Nothing THEN 0 ELSE @,
                  !.new_ids = @ \cup {id}]

on_create(state, id) ==
    [state EXCEPT !.old_index_next_ids[id[1]] = IF @ = Nothing THEN id[2] ELSE @,
                  !.new_ids = @ \cup {id}]

(* mutant: the second change of an object replaces the recorded value *)
on_modify_Overwrites(state, id, value) ==
    IF id \in state.new_ids THEN state ELSE [state EXCEPT !.old_values[id] = value]

on_modify(state, id, value) ==
    IF id \in state.new_ids \/ state.old_values[id] # Nothing
    THEN state
    ELSE [state EXCEPT !.old_values[id] = value]

(* mutant: an object created and removed in one state stays in new_ids *)
on_remove_KeepsNew(state, id, value) ==
    IF id \in state.new_ids
    THEN state
    ELSE [state EXCEPT !.removed[id] = IF state.old_values[id] # Nothing
                                       THEN state.old_values[id] ELSE value,
                       !.old_values[id] = Nothing]

on_remove(state, id, value) ==
    IF id \in state.new_ids
    THEN [state EXCEPT !.new_ids = @ \ {id}]
    ELSE IF state.old_values[id] # Nothing
    THEN [state EXCEPT !.removed[id] = state.old_values[id],
                       !.old_values[id] = Nothing]
    ELSE IF state.removed[id] # Nothing
    THEN state
    ELSE [state EXCEPT !.removed[id] = value]

(* mutant: removed objects are not inserted again *)
RestoreObjects_ForgetsRemoved(state, objs) ==
    [id \in Ids |-> IF id \in state.new_ids THEN Nothing
                    ELSE IF state.old_values[id] # Nothing THEN state.old_values[id]
                    ELSE objs[id]]

(* The loops of undo() and pop_commit(): values back, new objects out, *)
(* next ids back, removed objects in.                                  *)
RestoreObjects(state, objs) ==
    [id \in Ids |-> IF state.removed[id] # Nothing THEN state.removed[id]
                    ELSE IF id \in state.new_ids THEN Nothing
                    ELSE IF state.old_values[id] # Nothing THEN state.old_values[id]
                    ELSE objs[id]]

RestoreNextIds(state, next) ==
    [t \in Types |-> IF state.old_index_next_ids[t] # Nothing
                     THEN state.old_index_next_ids[t] ELSE next[t]]

(* get_object() of a changed or new object and insert() of a removed one *)
(* throw when the log and the objects disagree.                          *)
RestoreThrows(state, objs) ==
    \E id \in Ids :
        \/ (id \in state.new_ids \/ state.old_values[id] # Nothing) /\ objs[id] = Nothing
        \/ state.removed[id] # Nothing /\ objs[id] # Nothing

(* mutant: upd(was=X) + upd(was=Y) keeps Y *)
MergeStates_KeepsLater(prev, state) ==
    [old_values |-> [id \in Ids |->
         IF state.removed[id] # Nothing THEN Nothing
         ELSE IF state.old_values[id] # Nothing /\ id \notin prev.new_ids
         THEN state.old_values[id] ELSE prev.old_values[id]],
     old_index_next_ids |-> [t \in Types |->
         IF prev.old_index_next_ids[t] = Nothing
         THEN state.old_index_next_ids[t] ELSE prev.old_index_next_ids[t]],
     new_ids |-> {id \in prev.new_ids \cup state.new_ids : state.removed[id] = Nothing},
     removed |-> [id \in Ids |->
         IF state.removed[id] = Nothing \/ id \in prev.new_ids THEN prev.removed[id]
         ELSE IF prev.old_values[id] # Nothing THEN prev.old_values[id]
         ELSE state.removed[id]]]

(* merge(): the loops over B = state run in the order old_values, new_ids, *)
(* old_index_next_ids, removed and change A = prev in place.               *)
MergeStates(prev, state) ==
    LET upd == [id \in Ids |->
                  IF state.old_values[id] # Nothing /\ id \notin prev.new_ids
                       /\ prev.old_values[id] = Nothing
                  THEN state.old_values[id] ELSE prev.old_values[id]]
        new == prev.new_ids \cup state.new_ids
        del(id) == state.removed[id] # Nothing
    IN  [old_values |-> [id \in Ids |->
             IF del(id) /\ id \notin new THEN Nothing ELSE upd[id]],
         old_index_next_ids |-> [t \in Types |->
             IF prev.old_index_next_ids[t] = Nothing
             THEN state.old_index_next_ids[t] ELSE prev.old_index_next_ids[t]],
         new_ids |-> {id \in new : ~ del(id)},
         removed |-> [id \in Ids |->
             IF ~ del(id) \/ id \in new THEN prev.removed[id]
             ELSE IF upd[id] # Nothing THEN upd[id] ELSE state.removed[id]]]

(* The N/A cells of the table in merge(), two of them asserted there. *)
IllegalMerge(prev, state) ==
    \E id \in Ids :
        \/ id \in state.new_ids /\ \/ id \in prev.new_ids
                                   \/ prev.old_values[id] # Nothing
                                   \/ prev.removed[id] # Nothing
        \/ state.old_values[id] # Nothing /\ prev.removed[id] # Nothing
        \/ state.removed[id] # Nothing /\ prev.removed[id] # Nothing

-----------------------------------------------------------------------------
(* Sessions *)

TopState == IF stack = <<>> THEN EmptyState ELSE stack[Len(stack)]

NoSession   == sessions = <<>>
TopKind     == IF NoSession THEN "none" ELSE sessions[Len(sessions)].kind
DropLast(s) == SubSeq(s, 1, Len(s) - 1)

(* mutant: >= for > *)
Trimmed_OneMore(s) ==
    IF Len(s) >= max_size THEN SubSeq(s, Len(s) - max_size + 2, Len(s)) ELSE s

(* while( size() > max_size() ) _stack.pop_front(); *)
Trimmed(s) == IF Len(s) > max_size THEN SubSeq(s, Len(s) - max_size + 1, Len(s)) ELSE s

(* Who opens which session on top of which: db_block.cpp. *)
MayStart(kind) ==
    \/ kind \in {"block", "pending"} /\ NoSession /\ ~ disabled
    \/ kind = "temp" /\ TopKind = "pending"
    \/ kind = "validate" /\ TopKind \in {"none", "pending"} /\ ~ disabled
    \/ kind = "proposal" /\ TopKind \in {"block", "temp", "validate", "proposal"}
    \/ kind = "proposal" /\ NoSession /\ disabled

(* push_proposal alone passes force_enable *)
StartUndoSession(kind) ==
    /\ MayStart(kind)
    /\ Len(sessions) < MaxDepth
    /\ stack' = Append(Trimmed(stack), EmptyState)
    /\ snapshots' = Append(Trimmed(snapshots), Current)
    /\ sessions' = Append(sessions, [kind |-> kind, disable_on_exit |-> disabled, start |-> Current])
    /\ disabled' = FALSE
    /\ UNCHANGED <<objects, next_id, max_size>>

(* _stack.back() receives the record of a change; a change made while the  *)
(* log is disabled makes every older snapshot unreachable.                 *)
Record(state) ==
    IF disabled
    THEN /\ stack' = stack
         /\ snapshots' = [i \in 1 .. Len(snapshots) |-> Nothing]
    ELSE IF stack = <<>>
    THEN /\ stack' = <<state>>
         /\ snapshots' = <<Current>>
    ELSE /\ stack' = [stack EXCEPT ![Len(stack)] = state]
         /\ snapshots' = snapshots

(* Nothing is written between the start of the pending session and the *)
(* transaction session on top of it.                                   *)
MayWrite == TopKind # "pending"

(* mutant: use_next_id() is not called *)
Create_ReusesId(t, value) ==
    LET id == <<t, next_id[t]>>
    IN  /\ MayWrite
        /\ next_id[t] <= MaxInstance
        /\ objects[id] = Nothing
        /\ objects' = [objects EXCEPT ![id] = value]
        /\ Record(on_create(TopState, id))
        /\ UNCHANGED <<next_id, disabled, max_size, sessions>>

Create(t, value) ==
    LET id == <<t, next_id[t]>>
    IN  /\ MayWrite
        /\ next_id[t] <= MaxInstance
        /\ objects[id] = Nothing
        /\ objects' = [objects EXCEPT ![id] = value]
        /\ next_id' = [next_id EXCEPT ![t] = @ + 1]
        /\ Record(on_create(TopState, id))
        /\ UNCHANGED <<disabled, max_size, sessions>>

Modify(id, value) ==
    /\ MayWrite
    /\ objects[id] # Nothing
    /\ objects' = [objects EXCEPT ![id] = value]
    /\ Record(on_modify(TopState, id, objects[id]))
    /\ UNCHANGED <<next_id, disabled, max_size, sessions>>

Remove(id) ==
    /\ MayWrite
    /\ objects[id] # Nothing
    /\ objects' = [objects EXCEPT ![id] = Nothing]
    /\ Record(on_remove(TopState, id, objects[id]))
    /\ UNCHANGED <<next_id, disabled, max_size, sessions>>

(* The destructor of the innermost session, or reset() of the pending one. *)
EndSession ==
    /\ sessions' = DropLast(sessions)
    /\ disabled' = sessions[Len(sessions)].disable_on_exit

PopRestored ==
    /\ objects' = RestoreObjects(TopState, objects)
    /\ next_id' = RestoreNextIds(TopState, next_id)

UndoLast ==
    /\ ~ RestoreThrows(TopState, objects)
    /\ PopRestored
    /\ stack' = IF Len(stack) = 1 THEN <<EmptyState>> ELSE DropLast(stack)
    /\ snapshots' = IF Len(stack) = 1
                    THEN <<[objects |-> objects', next_id |-> next_id']>>
                    ELSE DropLast(snapshots)
    /\ EndSession
    /\ UNCHANGED max_size

Undo ==
    /\ ~ NoSession
    /\ UndoLast

MergeLast ==
    /\ stack' = [DropLast(stack) EXCEPT ![Len(stack) - 1] = MergeStates(@, TopState)]
    /\ snapshots' = DropLast(snapshots)
    /\ EndSession
    /\ UNCHANGED <<objects, next_id, max_size>>

(* FC_ASSERT( _stack.size() >= 2 ) fails: the destructor undoes instead *)
Merge ==
    /\ TopKind \in {"temp", "proposal"}
    /\ IF Len(stack) >= 2 THEN MergeLast ELSE UndoLast

Commit ==
    /\ TopKind = "block"
    /\ EndSession
    /\ UNCHANGED <<objects, next_id, stack, max_size, snapshots>>

(* pop_undo() from database::pop_block.  fork_database::pop_block throws    *)
(* first when the head block has no predecessor there, which is the case    *)
(* for every state older than the last start_block (external to this        *)
(* module); those are the entries without a usable snapshot.                *)
PopCommit ==
    /\ NoSession
    /\ ~ disabled
    /\ stack # <<>>
    /\ snapshots[Len(snapshots)] # Nothing
    /\ ~ RestoreThrows(TopState, objects)
    /\ PopRestored
    /\ stack' = DropLast(stack)
    /\ snapshots' = DropLast(snapshots)
    /\ UNCHANGED <<disabled, max_size, sessions>>

(* init_genesis and reindex run with the log disabled *)
Disable ==
    /\ NoSession
    /\ ~ disabled
    /\ disabled' = TRUE
    /\ UNCHANGED <<objects, next_id, stack, max_size, sessions, snapshots>>

Enable ==
    /\ NoSession
    /\ disabled
    /\ disabled' = FALSE
    /\ UNCHANGED <<objects, next_id, stack, max_size, sessions, snapshots>>

(* mutant: head - lib instead of head - lib + 1 *)
SetMaxSize_OffByOne(n) ==
    /\ TopKind = "block" \/ (NoSession /\ disabled)
    /\ max_size' = n - 1
    /\ UNCHANGED <<objects, next_id, stack, disabled, sessions, snapshots>>

(* update_global_dynamic_data, while a block is applied *)
SetMaxSize(n) ==
    /\ TopKind = "block" \/ (NoSession /\ disabled)
    /\ max_size' = n
    /\ UNCHANGED <<objects, next_id, stack, disabled, sessions, snapshots>>

-----------------------------------------------------------------------------
Init ==
    /\ objects = [id \in Ids |-> Nothing]
    /\ next_id = [t \in Types |-> 0]
    /\ stack = <<>>
    /\ disabled = FALSE
    /\ max_size = MaxHistory
    /\ sessions = <<>>
    /\ snapshots = <<>>

Next ==
    \/ \E kind \in Kinds : StartUndoSession(kind)
    \/ \E t \in Types, value \in Values : Create(t, value)
    \/ \E id \in Ids, value \in Values : Modify(id, value)
    \/ \E id \in Ids : Remove(id)
    \/ Undo
    \/ Merge
    \/ Commit
    \/ PopCommit
    \/ Disable
    \/ Enable
    \/ \E n \in MinHistory .. MaxHistory : SetMaxSize(n)

Spec == Init /\ [][Next]_vars

-----------------------------------------------------------------------------
(* Properties *)

(* Every variable keeps the type of the member of undo_database it models. *)
TypeOK ==
    /\ objects \in [Ids -> Slot]
    /\ next_id \in [Types -> 0 .. MaxInstance + 1]
    /\ stack \in Seq(UndoState)
    /\ disabled \in BOOLEAN
    /\ max_size \in MinHistory .. MaxHistory
    /\ sessions \in Seq([kind : Kinds, disable_on_exit : BOOLEAN, start : Database])
    /\ snapshots \in Seq(Database \cup {Nothing})
    /\ Len(snapshots) = Len(stack)

(* Every object that exists was numbered below its index's next id. *)
Numbered(db) == \A id \in Ids : db.objects[id] # Nothing => id[2] < db.next_id[id[1]]

(* The database on the far side of stack entry i. *)
After(i) == IF i = Len(stack) THEN Current ELSE snapshots[i + 1]

(* An undo state that takes "after" back to "before", object by object and *)
(* index by index: the relation the comment in merge() tabulates.          *)
ConsistentAt(state, before, after, id) ==
    /\ id \in state.new_ids =>
          /\ state.old_values[id] = Nothing /\ state.removed[id] = Nothing
          /\ before.objects[id] = Nothing /\ after.objects[id] # Nothing
          /\ id[2] >= before.next_id[id[1]]
    /\ state.old_values[id] # Nothing =>
          /\ state.removed[id] = Nothing
          /\ before.objects[id] = state.old_values[id] /\ after.objects[id] # Nothing
    /\ state.removed[id] # Nothing =>
          /\ before.objects[id] = state.removed[id] /\ after.objects[id] = Nothing
    /\ (id \notin state.new_ids /\ state.old_values[id] = Nothing /\ state.removed[id] = Nothing)
          => before.objects[id] = after.objects[id]

ConsistentNext(state, before, after, t) ==
    /\ before.next_id[t] <= after.next_id[t]
    /\ state.old_index_next_ids[t] = Nothing => before.next_id[t] = after.next_id[t]
    /\ state.old_index_next_ids[t] # Nothing => before.next_id[t] = state.old_index_next_ids[t]

Consistent(state, before, after) ==
    /\ \A id \in Ids : ConsistentAt(state, before, after, id)
    /\ \A t \in Types : ConsistentNext(state, before, after, t)

(* Each undo state of the stack is the exact difference between the        *)
(* database when it was pushed and the database when the next one was, so  *)
(* undo() and pop_commit() can always go back, whatever was created,       *)
(* modified, removed, merged, undone or committed in between.              *)
LogsAreExact ==
    \A i \in 1 .. Len(stack) : snapshots[i] # Nothing =>
        After(i) # Nothing /\ Consistent(stack[i], snapshots[i], After(i))

(* undo() and pop_commit() never meet an object they expect to be there    *)
(* and is not, nor insert one that exists: they run in destructors, where  *)
(* an exception ends the process.                                          *)
RestoreNeverThrows ==
    \A i \in 1 .. Len(stack) : snapshots[i] # Nothing =>
        ~ RestoreThrows(stack[i], After(i).objects)

(* The N/A cells of the table in merge() never occur for neighbouring undo *)
(* states, which merge() asserts for two of them and assumes for the rest. *)
NoIllegalMerge ==
    \A i \in 1 .. Len(stack) - 1 : snapshots[i] # Nothing =>
        ~ IllegalMerge(stack[i], stack[i + 1])

(* create() never finds its next id taken: undo() resets the next ids, so  *)
(* numbers are handed out again, but never one that is in use.             *)
NextIdIsFresh == Numbered(Current)

(* The trimming in start_undo_session never discards the undo state of a   *)
(* session that is still open: the innermost entries of the stack are the  *)
(* open sessions' own, each still leading back to where its session began. *)
SessionsSurvive ==
    /\ Len(sessions) <= Len(stack)
    /\ \A k \in 1 .. Len(sessions) :
          snapshots[Len(stack) - Len(sessions) + k] = sessions[k].start

(* A session that is undone leaves the database as its start found it: the *)
(* "clean state of the head block" that resetting the pending session      *)
(* returns to, and the state before a failed transaction or block.         *)
UndoReturnsToStart == [][Undo => Current' = sessions[Len(sessions)].start]_vars

InitialDatabase == [objects |-> [id \in Ids |-> Nothing], next_id |-> [t \in Types |-> 0]]

Store == INSTANCE SnapshotStore WITH
    Initial <- InitialDatabase,
    db      <- Current,
    saved   <- snapshots,
    open    <- Len(sessions)

(* The undo log implements the stack of full copies: going back over it    *)
(* is going back to the copy, and no open session loses its copy.          *)
ImplementsSnapshots == Store!SSpec

(* The nesting of sessions the stack can hold without trimming an open one. *)
NestingFits == MaxDepth <= MinHistory + 1
=============================================================================
