---------------------------- MODULE SnapshotStore ----------------------------
(***************************************************************************)
(* What the undo log of libraries/db promises: a database and a stack of   *)
(* full copies of it, as if every session had saved everything.  Going     *)
(* back returns exactly the last copy.  Old copies may be forgotten when a *)
(* session begins, but never those of the sessions that are open.          *)
(***************************************************************************)
EXTENDS Integers, Sequences

CONSTANTS Database, Nothing, Initial

VARIABLES db, saved, open

svars == <<db, saved, open>>

Top == saved[Len(saved)]
Rest == SubSeq(saved, 1, Len(saved) - 1)

Begin(k) ==
    /\ Len(saved) - k >= open
    /\ saved' = Append(SubSeq(saved, k + 1, Len(saved)), db)
    /\ open' = open + 1
    /\ db' = db

(* A recorded change; the first one outside any session saves a copy. *)
Change ==
    /\ db' \in Database
    /\ saved' = IF saved = <<>> THEN <<db>> ELSE saved
    /\ open' = open

(* A change that is not recorded makes every copy useless. *)
ChangeUnrecorded ==
    /\ open = 0
    /\ db' \in Database
    /\ saved' = [i \in 1 .. Len(saved) |-> Nothing]
    /\ open' = open

(* The outermost state is replaced by a copy of itself when it is used up. *)
Rollback ==
    /\ open > 0
    /\ Top # Nothing
    /\ db' = Top
    /\ saved' = IF Len(saved) = 1 THEN <<Top>> ELSE Rest
    /\ open' = open - 1

Squash ==
    /\ open > 0
    /\ saved' = Rest
    /\ open' = open - 1
    /\ db' = db

Keep ==
    /\ open > 0
    /\ open' = open - 1
    /\ UNCHANGED <<db, saved>>

Pop ==
    /\ open = 0
    /\ saved # <<>>
    /\ Top # Nothing
    /\ db' = Top
    /\ saved' = Rest
    /\ open' = open

SInit == db = Initial /\ saved = <<>> /\ open = 0

SNext ==
    \/ \E k \in 0 .. Len(saved) : Begin(k)
    \/ Change
    \/ ChangeUnrecorded
    \/ Rollback
    \/ Squash
    \/ Keep
    \/ Pop

SSpec == SInit /\ [][SNext]_svars
=============================================================================
