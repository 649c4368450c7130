---------------------------- MODULE ForkDatabase ----------------------------
(***************************************************************************)
(* The fork database (libraries/chain/fork_database.cpp): recent blocks of *)
(* all forks.  Items own nothing but a weak pointer to their predecessor,  *)
(* so an item erased from the index leaves its children without a way      *)
(* down, also when the same block is pushed again later.                   *)
(*                                                                         *)
(* _unlinked_index is always empty: push_block rethrows before its insert, *)
(* and "invalid" is never set.  Each operator maps the state before a call *)
(* to the state after it; XThrows says when the call throws instead.       *)
(***************************************************************************)
EXTENDS BlockTree

CONSTANT CacheSize  \* initial _max_size: 1024

ASSUME CacheAssumption == CacheSize \in Nat \ {0}

VARIABLE fork
(* index     ids in _index                                                 *)
(* links     indexed blocks whose prev pointer is alive                    *)
(* head      id of *_head, Zero for none; the item may be out of the index *)
(* linked    the prev pointer of *_head is alive                           *)
(* max_size  _max_size                                                     *)

Fork == [index : SUBSET Blocks, links : SUBSET Blocks, head : Blocks \cup {Zero},
         linked : BOOLEAN, max_size : Nat]

NewFork == [index |-> {}, links |-> {}, head |-> Zero, linked |-> FALSE, max_size |-> CacheSize]

(* Items leave the index: pointers to them die. *)
Erase(f, ids) ==
    [f EXCEPT !.index  = @ \ ids,
              !.links  = {b \in @ \ ids : Prev[b] \notin ids},
              !.linked = @ /\ Prev[f.head] \notin ids]

Below(f, n)       == {b \in f.index : Num[b] < n}
ForkRemove(f, id) == Erase(f, {id})

ForkReset(f) == [f EXCEPT !.index = {}, !.links = {}, !.head = Zero, !.linked = FALSE]

StartBlock(f, b) == [f EXCEPT !.index = @ \cup {b}, !.head = b, !.linked = FALSE]

SetHead(f, b) == [f EXCEPT !.head = b, !.linked = b \in f.links]

ForkPopThrows(f) == f.head = Zero \/ ~ f.linked
ForkPop(f)       == SetHead(f, Prev[f.head])

TooOld(f, b)     == f.head # Zero /\ Num[b] <= Max({0, Num[f.head] - f.max_size})
Unlinkable(f, b) == f.head # Zero /\ Prev[b] # Zero /\ Prev[b] \notin f.index

(* _push_block: a block that is indexed already keeps its item, but a new  *)
(* item for it can still become the head.                                  *)
ForkPush(f, b) ==
    LET links == f.head # Zero /\ Prev[b] # Zero
        g     == [f EXCEPT !.index = @ \cup {b},
                           !.links = IF links /\ b \notin f.index THEN @ \cup {b} ELSE @]
        h     == [g EXCEPT !.head = b, !.linked = links]
    IN  IF f.head = Zero THEN h
        ELSE IF Num[b] > Num[f.head] THEN Erase(h, Below(h, Num[b] - Min({f.max_size, Num[b]})))
        ELSE g

ForkSetMaxSize(f, n) ==
    LET g == [f EXCEPT !.max_size = n]
    IN  IF f.head = Zero THEN g ELSE Erase(g, Below(g, Max({0, Num[f.head] - n})))

(* mutant: the walks stop at the same number, whatever the ids are *)
MeetAt_SameNumber(first, second) == Min({Len(Path[first]), Len(Path[second])})

(* fetch_branch_from(first, second): both walks go down to the same number *)
(* and then on until the previous ids agree.  When one block is an         *)
(* ancestor of the other, that block ends both branches.                   *)
MeetAt(first, second) ==
    LET p == Path[first]
        q == Path[second]
    IN  Max({i \in 1 .. Min({Len(p), Len(q)}) : Prev[p[i]] = Prev[q[i]]})

(* A branch, oldest block first (the code's vectors are newest first). *)
Branch(id, from) == SubSeq(Path[id], from, Num[id])

Walkable(f, id, down) == \A i \in down + 1 .. Num[id] : Path[id][i] \in f.links

BranchThrows(f, first, second) ==
    \/ {first, second} \ f.index # {}
    \/ ~ Walkable(f, first, MeetAt(first, second))
    \/ ~ Walkable(f, second, MeetAt(first, second))
=============================================================================
