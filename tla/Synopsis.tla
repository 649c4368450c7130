------------------------------ MODULE Synopsis ------------------------------
(***************************************************************************)
(* What a node tells a peer about its chain, and what the peer answers:    *)
(* get_blockchain_synopsis and get_block_ids of app/application.cpp, with  *)
(* the part of the synopsis that net/node.cpp appends for block ids it has *)
(* been offered and not fetched yet.                                       *)
(*                                                                         *)
(* A chain is a record [known, head, base]: the blocks in the fork and     *)
(* block databases, the head's id, and the number of the head when the     *)
(* node started.  Block numbers are unsigned words of the code: differences *)
(* wrap around.  A read outside a vector yields Garbage.                   *)
(***************************************************************************)
EXTENDS BlockTree, SequencesExt

CONSTANTS
    Garbage,  \* what operator[] of a vector yields outside its range
    Word,     \* numbers of an unsigned word: 2^32
    MaxUndo,  \* largest number of undo states kept for blocks
    Pending,  \* undo states beside those of blocks: 1 while transactions are pending
    Limit     \* most ids in an answer: 2000

ASSUME SynopsisAssumption ==
    /\ Garbage \notin Blocks \cup {Zero}
    /\ Word \in Nat /\ Word > 2 * MaxNum + 2
    /\ MaxUndo \in Nat /\ Pending \in 0 .. 1 /\ Limit \in Nat \ {0, 1}

ChainTo(id) == IF id = Zero THEN <<>> ELSE Path[id]
At(seq, i)  == IF i \in DOMAIN seq THEN seq[i] ELSE Garbage

is_known_block(c, id)    == id \in c.known
is_included_block(c, id) == id \in Range(ChainTo(c.head))

(* One undo state for every block applied since the start, and Pending. *)
UndoSize(c) == Min({MaxUndo, NumOf(c.head) - c.base}) + Pending

(* mutant: one undo state too many is counted *)
last_non_undoable_block_num_OneMore(c) == (NumOf(c.head) - UndoSize(c) - 1) % Word

last_non_undoable_block_num(c) == (NumOf(c.head) - UndoSize(c)) % Word

(* Number of the last block two chains have in common. *)
CommonNum(a, b) ==
    LET p == ChainTo(a)
        q == ChainTo(b)
    IN  Max({0} \cup {i \in DOMAIN p \cap DOMAIN q : p[i] = q[i]})

(* The numbers low, ... the loop visits: each step halves what is left up  *)
(* to true_high, and the loop stops above high.                            *)
Numbers(low, true_high, high) ==
    LET from[n \in Nat] ==
            LET m == (n + ((true_high - n + 2) % Word) \div 2) % Word
            IN  <<n>> \o (IF m <= high THEN from[m] ELSE <<>>)
    IN  from[low]

(* The number a synopsis for reference point ref begins with. *)
LowNum(c, ref) ==
    LET undoable == last_non_undoable_block_num(c)
        low == IF ref # Zero /\ is_included_block(c, ref) THEN Min({undoable, Num[ref]}) ELSE undoable
    IN  IF low = 0 THEN 1 ELSE low

(* get_block_ids_on_fork finds no branch: an exception of the chain. *)
NoBranch(c, ref) == ref # Zero /\ ~ is_included_block(c, ref) /\ ~ is_known_block(c, ref)

(* block_older_than_undo_history *)
ForkedTooLongAgo(c, ref) ==
    /\ ref # Zero /\ ~ is_included_block(c, ref)
    /\ CommonNum(c.head, ref) < last_non_undoable_block_num(c)

(* Ids up to ref, on its fork above the last common block, or up to the    *)
(* head; after is the number of ids the network code is going to append.   *)
get_blockchain_synopsis(c, ref, after) ==
    LET chain == ChainTo(IF ref = Zero THEN c.head ELSE ref)
        nums  == Numbers(LowNum(c, ref), Len(chain) + after, Len(chain))
    IN  IF chain = <<>> THEN <<>>
        ELSE [i \in DOMAIN nums |-> At(chain, nums[i])]

(* The ids of to_get, which follow the synopsis, are added to it. *)
Extended(synopsis, to_get) ==
    LET first == NumOf(to_get[1])
        high  == first + Len(to_get) - 1
        low   == IF synopsis = <<>> \/ synopsis[1] = Garbage THEN 1 ELSE NumOf(synopsis[1])
        add(ids, n) == IF n >= first THEN Append(ids, At(to_get, n - first + 1)) ELSE ids
    IN  IF to_get = <<>> THEN synopsis ELSE FoldLeft(add, synopsis, Numbers(low, high, high))

(* create_blockchain_synopsis_for_peer; to_get is not empty only after a   *)
(* synopsis has been answered.                                             *)
create_blockchain_synopsis(c, ref, to_get) ==
    Extended(get_blockchain_synopsis(c, ref, Len(to_get)), to_get)

(* mutant: the first block of the synopsis the peer knows, not the last *)
LastKnown_First(c, synopsis) ==
    LET shared == {i \in DOMAIN synopsis :
                     synopsis[i] = Zero \/ (is_known_block(c, synopsis[i]) /\ is_included_block(c, synopsis[i]))}
    IN  IF shared = {} THEN Garbage ELSE synopsis[Min(shared)]

(* The last id of the synopsis that is on the own chain; Garbage for none. *)
LastKnown(c, synopsis) ==
    LET shared == {i \in DOMAIN synopsis :
                     synopsis[i] = Zero \/ (is_known_block(c, synopsis[i]) /\ is_included_block(c, synopsis[i]))}
    IN  IF shared = {} THEN Garbage ELSE synopsis[Max(shared)]

(* The ids from the last known block on, that block included, and how many *)
(* follow.  A peer on an unreachable fork gets an empty answer.            *)
get_block_ids(c, synopsis) ==
    LET chain == ChainTo(c.head)
        last  == IF synopsis = <<>> THEN Zero ELSE LastKnown(c, synopsis)
        from  == Max({1, NumOf(last)})
        upto  == Min({Len(chain), from + Limit - 1})
    IN  IF chain = <<>> \/ last = Garbage THEN [ids |-> <<>>, remaining |-> 0]
        ELSE [ids |-> SubSeq(chain, from, upto), remaining |-> Len(chain) - upto]
=============================================================================
