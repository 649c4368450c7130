--------------------------- MODULE ChainDatabase ----------------------------
(***************************************************************************)
(* The chain database (libraries/chain: db_block.cpp, db_update.cpp,       *)
(* db_management.cpp, db_with.hpp) and the node's start and stop           *)
(* (libraries/app/application.cpp): blocks are applied on top of the head, *)
(* a longer fork makes the node pop its blocks and apply the fork's, a     *)
(* fork that turns out to be invalid is unwound, and transactions wait in  *)
(* a pending session on top of the head.  The process may die at any step. *)
(*                                                                         *)
(* The object database is abstracted to what a block leaves behind: the    *)
(* blocks applied and the transactions recorded against duplicates.  The   *)
(* undo stack holds copies of it, as SnapshotStore promises.               *)
(***************************************************************************)
EXTENDS ForkDatabase, BlockMap, SequencesExt

CONSTANTS
    Txs,             \* transactions
    BlockTxs,        \* the transactions of every block, in order
    Requires,        \* transactions that must have been applied before
    Executes,        \* transactions that execute a proposal: one session deeper
    Bad,             \* blocks that fail validation wherever they are applied
    Witnesses,       \* active witnesses
    Signer,          \* signed_block::witness
    MinUndo,         \* initial _max_size of the undo database
    MaxUndoHistory,  \* GRAPHENE_MAX_UNDO_HISTORY
    MaxBlockTxs,     \* maximum_block_size, in transactions
    InOrder,         \* environment: peers send only blocks above the one the node
                     \* started from, and to a node without fork head the next one
    MaxCrashes,      \* bound: deaths of the process
    MaxPushes,       \* bound: blocks pushed, generated or replayed
    MaxPending       \* bound: calls of push_transaction and validate_transaction

ASSUME ChainAssumption ==
    /\ BlockTxs \in [Blocks -> Seq(Txs)]
    /\ Requires \in [Txs -> SUBSET Txs]
    /\ Executes \subseteq Txs /\ Bad \subseteq Blocks
    /\ Signer \in [Blocks -> Witnesses]
    /\ IsFiniteSet(Witnesses) /\ Witnesses # {}
    /\ MinUndo \in Nat \ {0, 1} /\ MaxUndoHistory \in Nat \ {0}
    /\ MaxBlockTxs \in Nat /\ InOrder \in BOOLEAN
    /\ MaxCrashes \in Nat /\ MaxPushes \in Nat /\ MaxPending \in Nat

VARIABLES
    state,     \* the object database: [chain, dedupe]
    undo,      \* _undo_db._stack: copies of state, oldest first
    undo_max,  \* _undo_db._max_size
    session,   \* _pending_tx_session.valid(); its copy is on top of undo
    pending,   \* _pending_tx
    popped,    \* _popped_tx
    pc,        \* where the process is
    job,       \* locals of the call in progress
    saved,     \* the object database on disk
    unclean,   \* the dblock directory exists
    outdated,  \* the db_version file was removed
    base,      \* history: the number of the block the process started from
    count      \* calls so far, for the bounds

chainvars == <<state, undo, undo_max, session, pending, popped, pc, job>>
diskvars  == <<log, saved, unclean, outdated>>
vars      == <<chainvars, diskvars, fork, base, count>>

Genesis == [chain |-> <<>>, dedupe |-> {}]
NoJob   == [block |-> Zero, first |-> <<>>, second |-> <<>>, at |-> 0, restore |-> <<>>]

HeadId  == IdOfHead(state.chain)
HeadNum == Len(state.chain)

-----------------------------------------------------------------------------
(* Applying transactions and blocks *)

Applied(c) == UNION {Range(BlockTxs[c[i]]) : i \in 1 .. Len(c)}

(* _apply_transaction: not a duplicate, and the operations evaluate; done is *)
(* what has been applied, dup what the duplicate check knows.                *)
TxApplies(t, done, dup) == t \notin dup /\ Requires[t] \subseteq done

(* The transactions of s that apply one after the other, as they are tried. *)
Applicable(s, done, dup, limit) ==
    FoldLeft(LAMBDA acc, t : IF Len(acc) < limit /\ TxApplies(t, done \cup Range(acc), dup \cup Range(acc))
                             THEN Append(acc, t) ELSE acc, <<>>, s)

(* update_last_irreversible_block: the number at the offset in the sorted  *)
(* last confirmed numbers of the active witnesses.                         *)
LastConfirmed(c, w) == Max({0} \cup {Num[c[i]] : i \in {j \in 1 .. Len(c) : Signer[c[j]] = w}})
Offset(n) == ((10000 - 5500) * n) \div 10000
Lib(c) ==
    LET n == Cardinality(Witnesses)
    IN  Max({v \in {LastConfirmed(c, w) : w \in Witnesses} :
               Cardinality({w \in Witnesses : LastConfirmed(c, w) >= v}) >= n - Offset(n)})

(* mutant: the previous id is not compared with the head's *)
BlockApplies_AnyParent(b, s, check) == b \notin Bad

(* _apply_block up to update_global_dynamic_data, where all of the failures *)
(* modelled here are raised; check is FALSE for skip_transaction_dupe_check *)
BlockApplies(b, s, check) ==
    /\ Prev[b] = IdOfHead(s.chain)
    /\ b \notin Bad
    /\ Applicable(BlockTxs[b], Applied(s.chain), IF check THEN s.dedupe ELSE {}, Len(BlockTxs[b]))
         = BlockTxs[b]
    /\ Num[b] - Lib(s.chain) < MaxUndoHistory

AfterBlock(b, s, check) ==
    [chain  |-> Append(s.chain, b),
     dedupe |-> IF check THEN s.dedupe \cup Range(BlockTxs[b]) ELSE s.dedupe]

(* mutant: one state fewer than there are reversible blocks *)
HistorySize_OneLess(b, s) == Num[b] - Lib(s.chain)

(* update_global_dynamic_data runs before update_last_irreversible_block *)
HistorySize(b, s) == Num[b] - Lib(s.chain) + 1

-----------------------------------------------------------------------------
(* Undo sessions over whole copies (SnapshotStore) *)

TrimTo(u, n) == IF Len(u) > n THEN SubSeq(u, Len(u) - n + 1, Len(u)) ELSE u
Trim(u)      == TrimTo(u, undo_max)

(* A session that is undone; the last one leaves an empty undo state. *)
DropSession(u, s) == IF Len(u) = 1 THEN <<s>> ELSE Front(u)

(* A session with a proposal's session inside it is opened on u and closed *)
(* by merge.                                                               *)
Nested(u, deep) == IF deep THEN Front(Trim(Append(Trim(u), Genesis))) ELSE Trim(u)

(* clear_pending() and _pending_tx_session.reset(): the copy under the     *)
(* pending session comes back.                                             *)
CleanState == IF session THEN undo[Len(undo)] ELSE state
CleanUndo  == IF session THEN DropSession(undo, undo[Len(undo)]) ELSE undo

(* The stack while block b is applied, and after a session that failed. *)
WithBlock(b, u, s) ==
    LET v == Append(Trim(u), s)
    IN  IF Range(BlockTxs[b]) \cap Executes # {} THEN Trim(v) ELSE v
FailedBlock(u, s) == DropSession(Append(Trim(u), s), s)

-----------------------------------------------------------------------------
(* push_transaction, validate_transaction *)

(* mutant: the session of a transaction that fails is merged too *)
TryTransaction_KeepsFailed(t, p) ==
    /\ session' = TRUE
    /\ undo' = Trim(IF session THEN undo ELSE Append(Trim(undo), state))
    /\ pending' = IF TxApplies(t, Applied(state.chain) \cup Range(p), state.dedupe) THEN Append(p, t) ELSE p
    /\ state' = [state EXCEPT !.dedupe = @ \cup {t}]

(* _push_transaction(t) with the pending list p *)
TryTransaction(t, p) ==
    LET u == IF session THEN undo ELSE Append(Trim(undo), state)
        ok == TxApplies(t, Applied(state.chain) \cup Range(p), state.dedupe)
    IN  /\ session' = TRUE
        /\ undo' = Nested(u, ok /\ t \in Executes)
        /\ pending' = IF ok THEN Append(p, t) ELSE p
        /\ state' = IF ok THEN [state EXCEPT !.dedupe = @ \cup {t}] ELSE state

Idle == pc = "idle"

PushTransaction(t) ==
    /\ Idle
    /\ count.txs < MaxPending
    /\ TryTransaction(t, pending)
    /\ count' = [count EXCEPT !.txs = @ + 1]
    /\ UNCHANGED <<undo_max, popped, pc, job, diskvars, fork, base>>

(* the session of validate_transaction is always undone *)
ValidateTransaction(t) ==
    /\ Idle
    /\ count.txs < MaxPending
    /\ LET ok == TxApplies(t, Applied(state.chain) \cup Range(pending), state.dedupe)
       IN  undo' = IF undo = <<>> THEN <<state>> ELSE Nested(undo, ok /\ t \in Executes)
    /\ count' = [count EXCEPT !.txs = @ + 1]
    /\ UNCHANGED <<state, undo_max, session, pending, popped, pc, job, diskvars, fork, base>>

-----------------------------------------------------------------------------
(* pop_block *)

(* fetch_block_by_id( head_block_id() ) *)
HeadFetched == state.chain # <<>> /\ (HeadId \in fork.index \/ FetchOptional(log, HeadId) # Zero)

ForkPopped == HeadFetched /\ ~ ForkPopThrows(fork)
LogPopped  == ForkPopped /\ ~ RemoveThrows(log, HeadId)
CanPop     == LogPopped /\ undo # <<>>

(* mutant: the transactions of the block are not kept *)
PopBlock_Forgets ==
    /\ CanPop
    /\ fork' = ForkPop(fork)
    /\ log' = RemoveFrom(log, HeadId)
    /\ state' = undo[Len(undo)]
    /\ undo' = Front(undo)
    /\ popped' = popped

(* The fork database pops its own head, which need not be the block popped. *)
PopBlock ==
    /\ CanPop
    /\ fork' = ForkPop(fork)
    /\ log' = RemoveFrom(log, HeadId)
    /\ state' = undo[Len(undo)]
    /\ undo' = Front(undo)
    /\ popped' = BlockTxs[HeadId] \o popped

(* What was done before the call that throws stays done. *)
PopBlockThrows ==
    /\ ~ CanPop
    /\ fork' = IF ForkPopped THEN ForkPop(fork) ELSE fork
    /\ log' = IF LogPopped THEN RemoveFrom(log, HeadId) ELSE log
    /\ UNCHANGED <<state, undo, popped>>

-----------------------------------------------------------------------------
(* push_block *)

(* without_pending_transactions: the restorer takes the pending list and   *)
(* clear_pending() ends the pending session.                               *)
BeginPush(b) ==
    /\ \/ /\ Idle
          /\ count.pushes < MaxPushes
          /\ InOrder => Num[b] > base /\ (fork.head = Zero => Prev[b] = HeadId)
          /\ count' = [count EXCEPT !.pushes = @ + 1]
       \/ /\ pc = "produce"
          /\ b = job.block
          /\ UNCHANGED count
    /\ session' = FALSE
    /\ pending' = <<>>
    /\ UNCHANGED <<popped, saved, unclean, outdated, base>>

Accepted(b)  == ~ TooOld(fork, b) /\ ~ Unlinkable(fork, b)
PushedHead(b) == ForkPush(fork, b).head

Restoring(b) == [NoJob EXCEPT !.block = b, !.restore = pending]

(* the fork database throws *)
PushRejected(b) ==
    /\ BeginPush(b)
    /\ ~ Accepted(b)
    /\ state' = CleanState /\ undo' = CleanUndo
    /\ pc' = "restore" /\ job' = Restoring(b)
    /\ UNCHANGED <<fork, log, undo_max>>

(* The block pushed is applied when the fork database's head would follow  *)
(* the chain's head, whether or not it is that block.                      *)
Follows(b) == Accepted(b) /\ Prev[PushedHead(b)] = HeadId

Higher(b) == Accepted(b) /\ ~ Follows(b) /\ Num[PushedHead(b)] > HeadNum

(* the highest block is not higher than the head *)
PushIgnored(b) ==
    /\ BeginPush(b)
    /\ Accepted(b)
    /\ ~ Follows(b) /\ ~ Higher(b)
    /\ fork' = ForkPush(fork, b)
    /\ state' = CleanState /\ undo' = CleanUndo
    /\ pc' = "restore" /\ job' = Restoring(b)
    /\ UNCHANGED <<log, undo_max>>

(* fetch_branch_from throws: the head is not indexed or a pointer died *)
NoBranch(b) == HeadId # Zero => BranchThrows(ForkPush(fork, b), PushedHead(b), HeadId)

PushUnswitchable(b) ==
    /\ BeginPush(b)
    /\ Higher(b)
    /\ NoBranch(b)
    /\ fork' = ForkPush(fork, b)
    /\ state' = CleanState /\ undo' = CleanUndo
    /\ pc' = "restore" /\ job' = Restoring(b)
    /\ UNCHANGED <<log, undo_max>>

PushSwitches(b) ==
    /\ BeginPush(b)
    /\ Higher(b)
    /\ ~ NoBranch(b)
    /\ fork' = ForkPush(fork, b)
    /\ state' = CleanState /\ undo' = CleanUndo
    /\ pc' = "pop"
    /\ LET down == MeetAt(PushedHead(b), HeadId)
       IN  job' = [Restoring(b) EXCEPT !.first  = Branch(PushedHead(b), down),
                                       !.second = Branch(HeadId, down)]
    /\ UNCHANGED <<log, undo_max>>

PushApplies(b) ==
    /\ BeginPush(b)
    /\ Follows(b)
    /\ BlockApplies(b, CleanState, TRUE)
    /\ state' = AfterBlock(b, CleanState, TRUE)
    /\ undo' = WithBlock(b, CleanUndo, CleanState)
    /\ undo_max' = HistorySize(b, CleanState)
    /\ fork' = ForkSetMaxSize(ForkPush(fork, b), HistorySize(b, CleanState))
    /\ log' = StoreIn(log, b, b)
    /\ pc' = "restore" /\ job' = Restoring(b)

PushFails(b) ==
    /\ BeginPush(b)
    /\ Follows(b)
    /\ ~ BlockApplies(b, CleanState, TRUE)
    /\ state' = CleanState
    /\ undo' = FailedBlock(CleanUndo, CleanState)
    /\ fork' = ForkRemove(ForkPush(fork, b), b)
    /\ pc' = "restore" /\ job' = Restoring(b)
    /\ UNCHANGED <<log, undo_max>>

-----------------------------------------------------------------------------
(* Switching forks, one block at a time *)

InPush == UNCHANGED <<session, pending, saved, unclean, outdated, base, count>>

MeetId == Prev[job.second[1]]

(* pop blocks until we hit the forked block *)
SwitchPop ==
    /\ pc = "pop"
    /\ \/ /\ PopBlock
          /\ pc' = IF IdOfHead(state'.chain) = MeetId THEN "apply" ELSE "pop"
       \/ /\ PopBlockThrows
          /\ pc' = "restore"
    /\ UNCHANGED <<undo_max, job>> /\ InPush

NextFirst == job.first[job.at + 1]

(* mutant: every block of the fork is stored under the id of the pushed one *)
SwitchApplies_OneId ==
    /\ pc = "apply"
    /\ BlockApplies(NextFirst, state, TRUE)
    /\ state' = AfterBlock(NextFirst, state, TRUE)
    /\ undo' = WithBlock(NextFirst, undo, state)
    /\ undo_max' = HistorySize(NextFirst, state)
    /\ fork' = ForkSetMaxSize(fork, HistorySize(NextFirst, state))
    /\ log' = StoreIn(log, job.block, NextFirst)
    /\ job' = [job EXCEPT !.at = @ + 1]
    /\ pc' = IF job.at + 1 = Len(job.first) THEN "restore" ELSE "apply"
    /\ UNCHANGED popped /\ InPush

(* push all blocks on the new fork *)
SwitchApplies ==
    /\ pc = "apply"
    /\ BlockApplies(NextFirst, state, TRUE)
    /\ state' = AfterBlock(NextFirst, state, TRUE)
    /\ undo' = WithBlock(NextFirst, undo, state)
    /\ undo_max' = HistorySize(NextFirst, state)
    /\ fork' = ForkSetMaxSize(fork, HistorySize(NextFirst, state))
    /\ log' = StoreIn(log, NextFirst, NextFirst)
    /\ job' = [job EXCEPT !.at = @ + 1]
    /\ pc' = IF job.at + 1 = Len(job.first) THEN "restore" ELSE "apply"
    /\ UNCHANGED popped /\ InPush

(* mutant: the blocks of the bad fork are not popped *)
SwitchFails_NoUnwind ==
    /\ pc = "apply"
    /\ ~ BlockApplies(NextFirst, state, TRUE)
    /\ undo' = FailedBlock(undo, state)
    /\ fork' = SetHead(Erase(fork, Range(SubSeq(job.first, job.at + 1, Len(job.first)))),
                       job.second[Len(job.second)])
    /\ job' = [job EXCEPT !.at = 0]
    /\ pc' = "reapply"
    /\ UNCHANGED <<state, undo_max, log, popped>> /\ InPush

(* the rest of the new fork leaves the fork database, its head is the old one *)
SwitchFails ==
    /\ pc = "apply"
    /\ ~ BlockApplies(NextFirst, state, TRUE)
    /\ undo' = FailedBlock(undo, state)
    /\ fork' = SetHead(Erase(fork, Range(SubSeq(job.first, job.at + 1, Len(job.first)))),
                       job.second[Len(job.second)])
    /\ job' = [job EXCEPT !.at = 0]
    /\ pc' = IF HeadId = MeetId THEN "reapply" ELSE "unwind"
    /\ UNCHANGED <<state, undo_max, log, popped>> /\ InPush

(* pop all blocks from the bad fork *)
SwitchUnwinds ==
    /\ pc = "unwind"
    /\ \/ /\ PopBlock
          /\ pc' = IF IdOfHead(state'.chain) = MeetId THEN "reapply" ELSE "unwind"
       \/ /\ PopBlockThrows
          /\ pc' = "restore"
    /\ UNCHANGED <<undo_max, job>> /\ InPush

NextSecond == job.second[job.at + 1]

(* restore all blocks from the good fork; the log entry written is that of *)
(* the block whose push failed                                             *)
SwitchReapplies ==
    /\ pc = "reapply"
    /\ BlockApplies(NextSecond, state, TRUE)
    /\ state' = AfterBlock(NextSecond, state, TRUE)
    /\ undo' = WithBlock(NextSecond, undo, state)
    /\ undo_max' = HistorySize(NextSecond, state)
    /\ fork' = ForkSetMaxSize(fork, HistorySize(NextSecond, state))
    /\ log' = StoreIn(log, job.block, NextSecond)
    /\ job' = [job EXCEPT !.at = @ + 1]
    /\ pc' = IF job.at + 1 = Len(job.second) THEN "restore" ELSE "reapply"
    /\ UNCHANGED popped /\ InPush

(* ~pending_transactions_restorer: popped ones first *)
ToRestore == popped \o job.restore

RestoreTransaction ==
    /\ pc = "restore"
    /\ ToRestore # <<>>
    /\ IF Head(ToRestore) \in state.dedupe
       THEN UNCHANGED <<state, undo, session, pending>>
       ELSE TryTransaction(Head(ToRestore), pending)
    /\ IF popped # <<>>
       THEN popped' = Tail(popped) /\ UNCHANGED job
       ELSE job' = [job EXCEPT !.restore = Tail(@)] /\ UNCHANGED popped
    /\ UNCHANGED <<undo_max, pc, diskvars, fork, base, count>>

PushReturns ==
    /\ pc = "restore"
    /\ ToRestore = <<>>
    /\ pc' = "idle"
    /\ job' = NoJob
    /\ UNCHANGED <<state, undo, undo_max, session, pending, popped, diskvars, fork, base, count>>

(* _generate_block: the pending session is rebuilt and thrown away again,  *)
(* the block holds what could be applied, and push_block() gets it.        *)
GenerateBlock(b) ==
    /\ Idle
    /\ count.pushes < MaxPushes
    /\ Prev[b] = HeadId
    /\ BlockTxs[b] = Applicable(pending, Applied(state.chain), CleanState.dedupe, MaxBlockTxs)
    /\ state' = CleanState
    /\ LET u == Append(Trim(CleanUndo), CleanState)
       IN  undo' = DropSession(IF pending = <<>> THEN u
                               ELSE Nested(u, Range(BlockTxs[b]) \cap Executes # {}), CleanState)
    /\ session' = FALSE
    /\ pc' = "produce"
    /\ job' = [NoJob EXCEPT !.block = b]
    /\ count' = [count EXCEPT !.pushes = @ + 1]
    /\ UNCHANGED <<undo_max, pending, popped, diskvars, fork, base>>

-----------------------------------------------------------------------------
(* close, open, reindex, and the death of the process *)

Down ==
    /\ pc' = "down"
    /\ state' = Genesis /\ undo' = <<>> /\ undo_max' = MinUndo
    /\ session' = FALSE /\ pending' = <<>> /\ popped' = <<>>
    /\ fork' = NewFork /\ job' = NoJob /\ base' = 0

(* close( rewind = true ) *)
BeginClose ==
    /\ Idle
    /\ state' = CleanState /\ undo' = CleanUndo
    /\ session' = FALSE /\ pending' = <<>>
    /\ pc' = "close"
    /\ job' = [NoJob EXCEPT !.at = Lib(state.chain)]
    /\ UNCHANGED <<undo_max, popped, diskvars, fork, base, count>>

(* the block is also removed from the fork database *)
ClosePop ==
    /\ pc = "close"
    /\ HeadNum > job.at
    /\ CanPop
    /\ fork' = ForkRemove(ForkPop(fork), HeadId)
    /\ log' = RemoveFrom(log, HeadId)
    /\ state' = undo[Len(undo)]
    /\ undo' = Front(undo)
    /\ popped' = BlockTxs[HeadId] \o popped
    /\ UNCHANGED <<undo_max, session, pending, pc, job, saved, unclean, outdated, base, count>>

ClosePopThrows ==
    /\ pc = "close"
    /\ HeadNum > job.at
    /\ PopBlockThrows
    /\ pc' = "flush"
    /\ UNCHANGED <<undo_max, session, pending, job, saved, unclean, outdated, base, count>>

(* the objects are written, the files closed and the dblock flag removed *)
Flush ==
    /\ pc = "flush" \/ (pc = "close" /\ HeadNum <= job.at)
    /\ saved' = state
    /\ unclean' = FALSE
    /\ Down
    /\ UNCHANGED <<log, outdated, count>>

Started(s) ==
    /\ state' = s
    /\ fork' = IF LastBlock(log) = Zero THEN NewFork ELSE StartBlock(NewFork, LastBlock(log))
    /\ unclean' = TRUE
    /\ UNCHANGED <<undo, undo_max, session, pending, popped, log, count>>

LastMatches == LastBlock(log) \in {Zero, IdOfHead(saved.chain)} \/ saved.chain = <<>>

Open ==
    /\ pc = "down" /\ ~ unclean /\ ~ outdated
    /\ LastMatches
    /\ Started(saved)
    /\ pc' = "idle"
    /\ base' = Len(saved.chain)
    /\ UNCHANGED <<job, saved, outdated>>

(* open() throws; reindex() in the same process meets the objects that     *)
(* open() read and throws too.  The process exits, db_version is gone.     *)
OpenFails ==
    /\ pc = "down" /\ ~ unclean /\ ~ outdated
    /\ ~ LastMatches
    /\ outdated' = TRUE
    /\ UNCHANGED <<chainvars, log, saved, unclean, fork, base, count>>

Reindex ==
    /\ pc = "down" /\ (unclean \/ outdated)
    /\ Started(Genesis)
    /\ saved' = Genesis
    /\ pc' = IF LastBlock(log) = Zero THEN "idle" ELSE "replay"
    /\ job' = [NoJob EXCEPT !.block = LastBlock(log)]
    /\ outdated' = (outdated /\ LastBlock(log) # Zero)
    /\ UNCHANGED base

NextReplayed == FetchByNumber(log, HeadNum + 1)

ReplayBlock ==
    /\ pc = "replay"
    /\ HeadNum < Num[job.block]
    /\ NextReplayed # Zero
    /\ BlockApplies(NextReplayed, state, FALSE)
    /\ state' = AfterBlock(NextReplayed, state, FALSE)
    /\ undo_max' = HistorySize(NextReplayed, state)
    /\ fork' = ForkSetMaxSize(fork, HistorySize(NextReplayed, state))
    /\ UNCHANGED <<undo, session, pending, popped, pc, job, diskvars, base, count>>

(* done, or a gap: the blocks above it are dropped from the log *)
ReplayEnds ==
    /\ pc = "replay"
    /\ \/ /\ HeadNum >= Num[job.block]
          /\ UNCHANGED log
       \/ /\ HeadNum < Num[job.block]
          /\ NextReplayed = Zero
          /\ log' = [log EXCEPT !.at = [n \in Numbers |->
                       IF n > HeadNum + 1 THEN [@[n] EXCEPT !.live = FALSE] ELSE @[n]]]
    /\ pc' = "idle" /\ job' = NoJob
    /\ outdated' = FALSE
    /\ base' = HeadNum
    /\ UNCHANGED <<state, undo, undo_max, session, pending, popped, saved, unclean, fork, count>>

Crash ==
    /\ pc # "down"
    /\ count.crashes < MaxCrashes
    /\ count' = [count EXCEPT !.crashes = @ + 1]
    /\ Down
    /\ UNCHANGED diskvars

-----------------------------------------------------------------------------
Init ==
    /\ state = Genesis /\ undo = <<>> /\ undo_max = MinUndo
    /\ session = FALSE /\ pending = <<>> /\ popped = <<>>
    /\ fork = NewFork /\ log = EmptyLog
    /\ pc = "down" /\ job = NoJob
    /\ saved = Genesis /\ unclean = FALSE /\ outdated = FALSE
    /\ base = 0
    /\ count = [txs |-> 0, pushes |-> 0, crashes |-> 0]

PushBlock(b) ==
    \/ PushRejected(b) \/ PushIgnored(b) \/ PushUnswitchable(b)
    \/ PushSwitches(b) \/ PushApplies(b) \/ PushFails(b)

Switch == SwitchPop \/ SwitchApplies \/ SwitchFails \/ SwitchUnwinds \/ SwitchReapplies

Next ==
    \/ \E t \in Txs : PushTransaction(t) \/ ValidateTransaction(t)
    \/ \E b \in Blocks : PushBlock(b) \/ GenerateBlock(b)
    \/ Switch
    \/ RestoreTransaction \/ PushReturns
    \/ BeginClose \/ ClosePop \/ ClosePopThrows \/ Flush
    \/ Open \/ OpenFails \/ Reindex \/ ReplayBlock \/ ReplayEnds
    \/ Crash

Spec == Init /\ [][Next]_vars
-----------------------------------------------------------------------------
(* Properties *)

States   == [chain : Seq(Blocks), dedupe : SUBSET Txs]
Places   == {"idle", "produce", "pop", "apply", "unwind", "reapply", "restore",
             "close", "flush", "down", "replay"}

(* Every variable keeps the type of the member or local it models. *)
TypeOK ==
    /\ state \in States /\ saved \in States
    /\ undo \in Seq(States) /\ undo_max \in Nat
    /\ session \in BOOLEAN /\ unclean \in BOOLEAN /\ outdated \in BOOLEAN
    /\ pending \in Seq(Txs) /\ popped \in Seq(Txs)
    /\ fork \in Fork /\ log \in Log
    /\ pc \in Places
    /\ job \in [block : Blocks \cup {Zero}, first : Seq(Blocks), second : Seq(Blocks),
                at : Nat, restore : Seq(Txs)]
    /\ base \in Nat

(* A chain whose blocks follow each other from number 1 on, none of them bad. *)
IsChain(c) ==
    \A i \in 1 .. Len(c) : c[i] \notin Bad /\ Prev[c[i]] = IF i = 1 THEN Zero ELSE c[i - 1]

(* At every step of a fork switch, a rewind or a replay, and in every copy *)
(* that undo or a restart can bring back, the blocks applied form a chain  *)
(* of valid blocks.                                                        *)
ChainsAreValid ==
    /\ IsChain(state.chain) /\ IsChain(saved.chain)
    /\ \A i \in 1 .. Len(undo) : IsChain(undo[i].chain)

(* "_pending_tx_session is the result of applying _pending_tx" to the head *)
(* block's state (the comment in _generate_block), between calls.          *)
PendingIsApplied ==
    Idle => /\ pending # <<>> => session
            /\ state = [CleanState EXCEPT !.dedupe = @ \cup Range(pending)]
            /\ Applicable(pending, Applied(state.chain), CleanState.dedupe, Len(pending)) = pending

(* Copies of the states below the open pending session. *)
Committed == IF session THEN Front(undo) ELSE undo

(* Blocks the database may still have to take back. *)
Reversible == HeadNum - Max({Lib(state.chain), base})

(* Every block above the last irreversible one that was applied with undo  *)
(* can be popped, and popping it gives the state before it.                *)
UndoReachesIrreversible ==
    Idle => /\ Len(Committed) >= Reversible
            /\ \A k \in 1 .. Reversible :
                  Committed[Len(Committed) - k + 1].chain = SubSeq(state.chain, 1, HeadNum - k)

(* The blocks a switch applies, and those it restores, follow the head it  *)
(* has popped down to: the branches that the fork database returned and    *)
(* the states that the undo history brings back meet in the same block.    *)
SwitchFollowsBranch ==
    /\ pc = "apply" => Prev[NextFirst] = HeadId
    /\ pc = "reapply" => Prev[NextSecond] = HeadId

(* The blocks of the good fork apply again when the bad one is unwound. *)
GoodForkComesBack == pc = "reapply" => BlockApplies(NextSecond, state, TRUE)

(* What the log holds, from block 1 up to the first gap, replays. *)
ReplayNeverFails ==
    (pc = "replay" /\ HeadNum < Num[job.block] /\ NextReplayed # Zero)
        => BlockApplies(NextReplayed, state, FALSE)

(* "After push block is successful the block is appended to the chain      *)
(* database on disk" (db_block.cpp): between calls the log can give back   *)
(* every block of the chain.                                               *)
LogHoldsChain == Idle => \A i \in 1 .. HeadNum : FetchByNumber(log, i) = state.chain[i]

(* Transactions the node has taken on: in a block of its chain, pending,   *)
(* popped, or held by the restorer of the call in progress.                *)
Held == Applied(state.chain) \cup Range(pending) \cup Range(popped) \cup Range(job.restore)

(* push_block loses no transaction, whether it switches forks, fails half  *)
(* way or produces a block: only one that no longer applies when it is     *)
(* tried again is dropped.                                                 *)
TransactionsKept ==
    [][pc \notin {"down", "close"} /\ pc' \notin {"down", "close"} =>
         \A t \in Held : \/ t \in Held'
                         \/ /\ pc = "restore" /\ t = Head(ToRestore)
                            /\ ~ TxApplies(t, Applied(state.chain) \cup Range(pending), state.dedupe)]_vars

(* reindex "may be called after or instead of open, and will rebuild the   *)
(* object graph" (database.hpp): no start of the node gives up.            *)
EveryStartSucceeds == ~ outdated
=============================================================================
