----------------------------- MODULE BlockTree ------------------------------
(***************************************************************************)
(* The blocks of an instance: a finite tree given by previous ids.  A      *)
(* block is named by its id; block_num() is one more than the number in    *)
(* the previous id (protocol/block.hpp, block.cpp).                        *)
(***************************************************************************)
EXTENDS Integers, Sequences, FiniteSetsExt

CONSTANTS
    Blocks,  \* blocks, named by their ids
    Zero,    \* block_id_type(): the id before block 1, and "no block"
    Prev,    \* signed_block::previous
    Num,     \* num_from_id
    MaxNum   \* largest block number of the instance

ASSUME TreeAssumption ==
    /\ Zero \notin Blocks
    /\ MaxNum \in Nat
    /\ Prev \in [Blocks -> Blocks \cup {Zero}]
    /\ Num \in [Blocks -> 1 .. MaxNum]
    /\ \A b \in Blocks : Num[b] = IF Prev[b] = Zero THEN 1 ELSE Num[Prev[b]] + 1

NumOf(id) == IF id = Zero THEN 0 ELSE Num[id]

(* The blocks from number 1 up to b: what following prev pointers visits. *)
Path[b \in Blocks] == IF Prev[b] = Zero THEN <<b>> ELSE Append(Path[Prev[b]], b)

IdOfHead(c) == IF c = <<>> THEN Zero ELSE c[Len(c)]
=============================================================================
