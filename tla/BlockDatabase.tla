---------------------------- MODULE BlockDatabase ----------------------------
(***************************************************************************)
(* The block log on disk (libraries/chain/block_database.cpp): a file of   *)
(* index entries addressed by block number and a file of blocks that only  *)
(* grows.  Both are buffered streams.  Every seek writes the buffer of its *)
(* stream out, so each buffer holds at most the last write; a process that *)
(* dies loses either buffer, both or none.                                 *)
(*                                                                         *)
(* All blocks have the same packed size (true of empty blocks): a position *)
(* is the ordinal of a block in the file, 0 is "nowhere".                  *)
(***************************************************************************)
EXTENDS BlockTree

CONSTANTS
    MaxWrites,  \* bound: blocks ever written to the block file
    MaxCrashes  \* bound: deaths of the process

ASSUME WritesAssumption == MaxWrites \in Nat /\ MaxCrashes \in Nat

VARIABLES
    index_file,  \* the entries on disk, zero-filled where never written
    index_len,   \* entries the index file holds, those in the buffer counted
    index_buf,   \* the index write not yet on disk, if any
    blocks_file, \* the blocks on disk
    blocks_buf,  \* the block not yet on disk, if any
    failed,      \* failbit of _blocks: set by a short read, cleared by open
    is_open,
    crashes      \* deaths so far

dbvars == <<index_file, index_len, index_buf, blocks_file, blocks_buf, failed, is_open, crashes>>

Numbers    == 1 .. MaxNum
IndexEntry == [block_pos : 0 .. MaxWrites, block_size : 0 .. 1, block_id : Blocks \cup {Zero}]
NoEntry    == [block_pos |-> 0, block_size |-> 0, block_id |-> Zero]

(* What a read of either stream sees: the disk under the buffer. *)
Index     == [n \in Numbers |-> IF index_buf # <<>> /\ index_buf[1].num = n
                                THEN index_buf[1].entry ELSE index_file[n]]
AllBlocks == blocks_file \o blocks_buf

(* A seek puts the buffer of its stream on disk. *)
SeekIndex  == index_file' = Index
SeekBlocks == blocks_file' = AllBlocks

DataAt(pos) == IF pos \in 1 .. Len(AllBlocks) THEN AllBlocks[pos] ELSE Zero

-----------------------------------------------------------------------------
(* mutant: the block stream is not moved to its end, so blocks pile up in *)
(* the buffer                                                             *)
store_NoSeek(b) ==
    /\ is_open /\ ~ failed
    /\ Len(AllBlocks) < MaxWrites
    /\ SeekIndex
    /\ index_buf' = <<[num |-> Num[b], entry |-> [block_pos  |-> Len(AllBlocks) + 1,
                                                  block_size |-> 1, block_id |-> b]]>>
    /\ index_len' = Max({index_len, Num[b]})
    /\ blocks_buf' = Append(blocks_buf, b)
    /\ UNCHANGED <<blocks_file, failed, is_open, crashes>>

store(b) ==
    /\ is_open /\ ~ failed
    /\ Len(AllBlocks) < MaxWrites
    /\ SeekIndex /\ SeekBlocks
    /\ index_buf' = <<[num |-> Num[b], entry |-> [block_pos  |-> Len(AllBlocks) + 1,
                                                  block_size |-> 1, block_id |-> b]]>>
    /\ index_len' = Max({index_len, Num[b]})
    /\ blocks_buf' = <<b>>
    /\ UNCHANGED <<failed, is_open, crashes>>

(* With failbit set the write throws before the index entry is written. *)
StoreThrows(b) ==
    /\ is_open /\ failed
    /\ SeekIndex
    /\ index_buf' = <<>>
    /\ UNCHANGED <<index_len, blocks_file, blocks_buf, failed, is_open, crashes>>

(* mutant: the whole entry is reset *)
remove_Resets(id) ==
    /\ is_open
    /\ index_len >= Num[id]
    /\ SeekIndex
    /\ index_buf' = IF Index[Num[id]].block_id = id THEN <<[num |-> Num[id], entry |-> NoEntry]>> ELSE <<>>
    /\ UNCHANGED <<index_len, blocks_file, blocks_buf, failed, is_open, crashes>>

remove(id) ==
    /\ is_open
    /\ index_len >= Num[id]
    /\ SeekIndex
    /\ index_buf' = IF Index[Num[id]].block_id = id
                    THEN <<[num |-> Num[id], entry |-> [Index[Num[id]] EXCEPT !.block_size = 0]]>>
                    ELSE <<>>
    /\ UNCHANGED <<index_len, blocks_file, blocks_buf, failed, is_open, crashes>>

(* mutant: the id of the block read is not compared with the entry's *)
ReadsBack_Unchecked(n) ==
    ~ failed /\ Index[n].block_size > 0 /\ DataAt(Index[n].block_pos) # Zero

(* fetch_by_number(n) and fetch_optional(id): the data is there and is the *)
(* block the entry names; every other outcome is the empty optional.       *)
ReadsBack(n) ==
    ~ failed /\ Index[n].block_size > 0 /\ DataAt(Index[n].block_pos) = Index[n].block_id

fetch_by_number(n) == IF n <= index_len /\ ReadsBack(n) THEN DataAt(Index[n].block_pos) ELSE Zero

(* last() walks down to the first entry with a size and does not compare *)
(* the block it reads with that entry.                                   *)
LiveNumbers == {n \in Numbers : Index[n].block_size > 0}
last == IF LiveNumbers = {} \/ failed THEN Zero
        ELSE DataAt(Index[Max(LiveNumbers)].block_pos)

(* A read seeks both streams; past the end of the blocks it sets failbit. *)
Read(n) ==
    /\ is_open
    /\ SeekIndex /\ SeekBlocks
    /\ index_buf' = <<>> /\ blocks_buf' = <<>>
    /\ failed' = (failed \/ (Index[n].block_size > 0 /\ DataAt(Index[n].block_pos) = Zero))
    /\ UNCHANGED <<index_len, is_open, crashes>>

open ==
    /\ ~ is_open
    /\ is_open' = TRUE
    /\ failed' = FALSE
    /\ UNCHANGED <<index_file, index_len, index_buf, blocks_file, blocks_buf, crashes>>

close ==
    /\ is_open
    /\ is_open' = FALSE
    /\ SeekIndex /\ SeekBlocks
    /\ index_buf' = <<>> /\ blocks_buf' = <<>>
    /\ UNCHANGED <<index_len, failed, crashes>>

(* The length of the index file is that of what reached the disk. *)
Written(f) == {n \in Numbers : f[n].block_id # Zero}
LengthOf(f) == IF Written(f) = {} THEN 0 ELSE Max(Written(f))

Crash ==
    /\ is_open
    /\ crashes < MaxCrashes
    /\ crashes' = crashes + 1
    /\ is_open' = FALSE
    /\ SeekIndex \/ UNCHANGED index_file
    /\ SeekBlocks \/ UNCHANGED blocks_file
    /\ index_buf' = <<>> /\ blocks_buf' = <<>>
    /\ index_len' = LengthOf(index_file')
    /\ failed' = FALSE

-----------------------------------------------------------------------------
DBInit ==
    /\ index_file = [n \in Numbers |-> NoEntry]
    /\ index_len = 0
    /\ index_buf = <<>>
    /\ blocks_file = <<>>
    /\ blocks_buf = <<>>
    /\ failed = FALSE
    /\ is_open = FALSE
    /\ crashes = 0

DBNext ==
    \/ \E b \in Blocks : store(b) \/ StoreThrows(b) \/ remove(b)
    \/ \E n \in Numbers : Read(n)
    \/ open
    \/ close
    \/ Crash

DBSpec == DBInit /\ [][DBNext]_dbvars

-----------------------------------------------------------------------------
(* Properties *)

(* Every variable keeps the type of the stream or member it models. *)
DBTypeOK ==
    /\ index_file \in [Numbers -> IndexEntry]
    /\ index_len \in 0 .. MaxNum
    /\ index_buf \in Seq([num : Numbers, entry : IndexEntry]) /\ Len(index_buf) <= 1
    /\ blocks_file \in Seq(Blocks)
    /\ blocks_buf \in Seq(Blocks) /\ Len(blocks_buf) <= 1
    /\ failed \in BOOLEAN /\ is_open \in BOOLEAN
    /\ crashes \in 0 .. MaxCrashes

(* fetch_by_number() and fetch_optional() never answer with another block  *)
(* than the one asked for, even where a crash left an entry whose block    *)
(* was lost and whose place in the file a later block took.                *)
FetchIsSound ==
    \A n \in Numbers : fetch_by_number(n) # Zero =>
        Num[fetch_by_number(n)] = n /\ fetch_by_number(n) = Index[n].block_id

(* Entries that claim a block the file does not hold. *)
Unreadable == {n \in Numbers : Index[n].block_size > 0
                               /\ DataAt(Index[n].block_pos) # Index[n].block_id}

(* A death of the process costs at most one block: only the store that was *)
(* in progress can leave an entry without its block.                       *)
CrashCostsOneBlock == Cardinality(Unreadable) <= crashes

(* The table of BlockMap that the files stand for. *)
AbstractLog == [len |-> index_len,
                at  |-> [n \in Numbers |-> [id   |-> Index[n].block_id,
                                            data |-> DataAt(Index[n].block_pos),
                                            live |-> Index[n].block_size > 0]]]

Map == INSTANCE BlockMap WITH log <- AbstractLog

(* Until a process dies, the block log is the table of the blocks stored   *)
(* last under each number: storing, removing, reading, closing and opening *)
(* the files change the table as BlockMap says and in no other way.        *)
ImplementsBlockMap == [][crashes' = 0 => [Map!MNext]_AbstractLog]_dbvars
=============================================================================
