------------------------------ MODULE BlockMap ------------------------------
(***************************************************************************)
(* What block_database promises as long as no write is lost: a table from  *)
(* block numbers to the id and the data stored last under that number.     *)
(* remove() only marks an entry; its id stays.  ChainDatabase uses these   *)
(* operators for its block log, BlockDatabase implements them with files.  *)
(***************************************************************************)
EXTENDS BlockTree

VARIABLE log  \* entries of the table, and the largest number ever stored

Numbers == 1 .. MaxNum
Entry   == [id : Blocks \cup {Zero}, data : Blocks \cup {Zero}, live : BOOLEAN]
Log     == [len : 0 .. MaxNum, at : [Numbers -> Entry]]

EmptyEntry == [id |-> Zero, data |-> Zero, live |-> FALSE]
EmptyLog   == [len |-> 0, at |-> [n \in Numbers |-> EmptyEntry]]

(* The entry is that of the id's number, whatever the number of the data. *)
StoreIn(m, id, b) ==
    [len |-> Max({m.len, Num[id]}),
     at  |-> [m.at EXCEPT ![Num[id]] = [id |-> id, data |-> b, live |-> TRUE]]]

RemoveThrows(m, id) == m.len < Num[id]

(* mutant: the entry is not written back *)
RemoveFrom_NotWritten(m, id) == m

RemoveFrom(m, id) ==
    IF m.at[Num[id]].id = id
    THEN [m EXCEPT !.at[Num[id]].live = FALSE]
    ELSE m

ContainsBlock(m, id) == id # Zero /\ m.at[Num[id]].id = id /\ m.at[Num[id]].live

(* Zero stands for the empty optional.  The data must have the entry's id. *)
Readable(e)          == e.live /\ e.data = e.id
FetchOptional(m, id) == IF ContainsBlock(m, id) /\ Readable(m.at[Num[id]]) THEN id ELSE Zero
FetchByNumber(m, n)  == IF Readable(m.at[n]) THEN m.at[n].data ELSE Zero
FetchBlockId(m, n)   == m.at[n].id

LiveNumbers(m) == {n \in Numbers : m.at[n].live}
LastBlock(m)   == IF LiveNumbers(m) = {} THEN Zero ELSE m.at[Max(LiveNumbers(m))].data
LastId(m)      == IF LiveNumbers(m) = {} THEN Zero ELSE m.at[Max(LiveNumbers(m))].id

-----------------------------------------------------------------------------
MInit == log = EmptyLog

MStore(b)   == log' = StoreIn(log, b, b)
MRemove(id) == ~ RemoveThrows(log, id) /\ log' = RemoveFrom(log, id)

MNext == \E b \in Blocks : MStore(b) \/ MRemove(b)

MSpec == MInit /\ [][MNext]_log
=============================================================================
