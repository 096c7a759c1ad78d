------------------------- MODULE CheckpointHistory -------------------------
(***************************************************************************)
(* What a checkpoint saver promises about the checkpoints of one thread    *)
(* (checkpointers/azure_blob.py, put and get_tuple), with no word about    *)
(* the blobs it keeps them in.  A checkpoint appears in one step, with all *)
(* its channel values, on top of the newest one; it never changes while it *)
(* is kept; and the newest one is never dropped.                           *)
(*                                                                         *)
(* A channel value is a pair <<channel, id of the checkpoint that set it>>.*)
(***************************************************************************)
EXTENDS Integers

CONSTANTS
    Channels,       \* channel names
    MaxId           \* bound: the greatest id

VARIABLES
    saved,          \* ids of the checkpoints that are kept
    content         \* id -> its channel values, {} unless it is kept

vars == <<saved, content>>

Ids == 1 .. MaxId

Init ==
    /\ saved = {}
    /\ content = [i \in Ids |-> {}]

IsNewest(i) == i \in saved /\ \A j \in saved : j <= i

\* The channel values a run starts from.
Current == {b \in Channels \X Ids : \E i \in saved : IsNewest(i) /\ b \in content[i]}

\* A checkpoint with new values for the changed channels and the current others.
Save(i) ==
    /\ \A j \in saved : j < i
    /\ saved' = saved \union {i}
    /\ \E changed \in SUBSET Channels :
         content' = [content EXCEPT ![i] = {b \in Current : b[1] \notin changed}
                                             \union (changed \X {i})]

\* A checkpoint goes, with all its values, when a newer one stays.
Drop(i) ==
    /\ i \in saved
    /\ \E j \in saved : i < j
    /\ saved' = saved \ {i}
    /\ content' = [content EXCEPT ![i] = {}]

Next == \E i \in Ids : Save(i) \/ Drop(i)

Spec == Init /\ [][Next]_vars

=============================================================================
