----------------------------- MODULE HistoryWalk -----------------------------
(***************************************************************************)
(* A client that walks the history of a thread page by page: POST          *)
(* threads/{id}/history (platform/_threads.py) over the checkpoints that   *)
(* AzureBlobCheckpointSaver.list() yields one by one, newest first, while  *)
(* a run puts new ones and retention deletes old ones.  Checkpoint ids     *)
(* sort by time, so they are numbers; 0 is no id.                          *)
(***************************************************************************)
EXTENDS Integers, Sequences, FiniteSets, FiniteSetsExt, SequencesExt

CONSTANTS
    MaxId,          \* bound: how many checkpoints are ever put
    KeepLast,       \* keep_last of delete_old_checkpoints
    Limit           \* limit of the history requests

ASSUME BoundsAssumption == MaxId \in Nat

\* ThreadHistoryRequest: limit >= 1; keep_last = 0 empties the namespace.
ASSUME RequestAssumption == Limit \in Nat \ {0} /\ KeepLast \in Nat \ {0}

VARIABLES
    marks,      \* ids that have their commit marker
    tagged,     \* ids whose metadata matches the filter of the requests
    lastId,     \* the newest id put
    prune,      \* what the retention run in progress still deletes
    pc,         \* where the client's walk is
    newest,     \* the newest checkpoint when the walk began
    before,     \* "before" of the page, or 0
    todo,       \* listed ids the page has not come to
    found,      \* found_before
    results,    \* of the page
    shown       \* what the client has been given so far

walk == <<pc, newest, before, todo, found, results, shown>>

vars == <<marks, tagged, lastId, prune, walk>>

Ids == 1 .. MaxId

Init ==
    /\ marks = {}
    /\ tagged = {}
    /\ lastId = 0
    /\ prune = {}
    /\ pc = "idle"
    /\ newest = 0
    /\ before = 0
    /\ todo = {}
    /\ found = FALSE
    /\ results = <<>>
    /\ shown = <<>>

-----------------------------------------------------------------------------
(* The run and retention.                                                  *)

\* put() commits a checkpoint whose metadata matches the filter, or does not.
Put ==
    /\ lastId < MaxId
    /\ lastId' = lastId + 1
    /\ marks' = marks \union {lastId'}
    /\ tagged' \in {tagged, tagged \union {lastId'}}
    /\ UNCHANGED <<prune, walk>>

Older(n) == {i \in marks : Cardinality({j \in marks : j > i}) >= n}

PruneBegin ==
    /\ prune = {}
    /\ prune' = Older(KeepLast)
    /\ prune' # {}
    /\ UNCHANGED <<marks, tagged, lastId, walk>>

PruneMark ==
    /\ prune # {}
    /\ marks' = marks \ {Max(prune)}
    /\ prune' = prune \ {Max(prune)}
    /\ UNCHANGED <<tagged, lastId, walk>>

PruneDies ==
    /\ prune # {}
    /\ prune' = {}
    /\ UNCHANGED <<marks, tagged, lastId, walk>>

-----------------------------------------------------------------------------
(* The history handler, and its client.                                    *)

WalkBegins ==
    /\ pc = "idle"
    /\ marks # {}
    /\ newest' = Max(marks)
    /\ pc' = "page"
    /\ UNCHANGED <<marks, tagged, lastId, prune, before, todo, found, results, shown>>

\* The ids are listed once; found_before starts true without a "before".
PageList ==
    /\ pc = "page"
    /\ todo' = marks
    /\ found' = (before = 0)
    /\ results' = <<>>
    /\ pc' = "reading"
    /\ UNCHANGED <<marks, tagged, lastId, prune, newest, before, shown>>

\* Faulty: the checkpoint named by "before" opens the page.
SelectedFromBefore(i) == i \in marks /\ (found \/ i = before) /\ i \in tagged

\* A checkpoint deleted since it was listed is passed over, and so is all up
\* to and including "before", and what the filter does not match.
Selected(i) == i \in marks /\ found /\ i \in tagged

\* Faulty: the limit counts the snapshots that are read, as it would if it were
\* handed to list().
FullOfSnapshots(rs) == Len(rs) >= Limit \/ Cardinality(marks \ todo) >= Limit

\* The break after an append that reaches the limit.
Full(rs) == Len(rs) >= Limit

PageRead ==
    /\ pc = "reading"
    /\ todo # {}
    /\ LET i == Max(todo)
       IN  /\ found' = (found \/ (i \in marks /\ i = before))
           /\ results' = IF Selected(i) THEN Append(results, i) ELSE results
           /\ todo' = IF Full(results') THEN {} ELSE todo \ {i}
    /\ UNCHANGED <<marks, tagged, lastId, prune, pc, newest, before, shown>>

\* The client asks for the next page until one is not full.
PageAnswer ==
    /\ pc = "reading"
    /\ todo = {}
    /\ shown' = shown \o results
    /\ IF Len(results) < Limit
       THEN pc' = "done" /\ UNCHANGED before
       ELSE pc' = "page" /\ before' = Last(results)
    /\ results' = <<>>
    /\ UNCHANGED <<marks, tagged, lastId, prune, newest, todo, found>>

-----------------------------------------------------------------------------

Next ==
    \/ Put
    \/ PruneBegin \/ PruneMark \/ PruneDies
    \/ WalkBegins \/ PageList \/ PageRead \/ PageAnswer

Spec == Init /\ [][Next]_vars

-----------------------------------------------------------------------------
(* Correctness.                                                            *)

Falling(s) == \A m, n \in 1 .. Len(s) : m < n => s[m] > s[n]

\* The client never sees a checkpoint twice, nor an older one before a newer,
\* however puts and retention shift the list between its pages
\* (threads_history).
ShownInOrder == Falling(shown \o results)

\* What retention deleted, and what a walk must show: what matched and was there
\* when it began, and is newer than all that was deleted.
Pruned == (1 .. lastId) \ marks

Owed == {i \in marks \intersect tagged : i <= newest /\ \A j \in Pruned : j < i}

\* A walk that ended has shown every matching checkpoint that was there when
\* it began and is newer than all that retention deleted.  A walk whose "before"
\* was deleted ends at once: what it misses is older, and was to be deleted as
\* well (threads_history, delete_old_checkpoints).
WalkIsComplete == pc = "done" => \A i \in Owed : Contains(shown, i)

-----------------------------------------------------------------------------
(* The inductive invariant.                                                *)

WalkTypes ==
    /\ lastId \in 0 .. MaxId
    /\ marks \subseteq 1 .. lastId
    /\ pc \in {"idle", "page", "reading", "done"}
    /\ newest \in 0 .. lastId
    /\ before \in 0 .. lastId
    /\ todo \subseteq 1 .. lastId
    /\ found \in BOOLEAN
    /\ results \in Seq(Ids)
    /\ \A n \in 1 .. Len(results) : results[n] <= lastId
    /\ shown \in Seq(Ids)

\* "before" parts what was shown from what the page may take, and the page what it
\* took from what it has not come to.
Parted ==
    /\ Falling(shown) /\ Falling(results)
    /\ pc # "done" => \A n \in 1 .. Len(shown) : before # 0 /\ shown[n] >= before
    /\ \A n \in 1 .. Len(results) :
          /\ before # 0 => results[n] < before
          /\ \A i \in todo : i < results[n]
    /\ found /\ before # 0 => \A i \in todo : i < before

\* A page that is not under way holds nothing.
Between ==
    /\ pc # "reading" => results = <<>> /\ todo = {}
    /\ pc = "idle" => before = 0 /\ shown = <<>>
    /\ todo # {} => ~Full(results)

\* What is owed was shown, or the walk still comes to it.
StillOwed ==
    /\ pc = "page" => \A i \in Owed : Contains(shown, i) \/ before = 0 \/ i < before
    /\ pc = "reading" =>
         \A i \in Owed :
            \/ Contains(shown, i)
            \/ Contains(results, i)
            \/ i \in todo /\ (found \/ (before \in todo /\ i < before))
            \/ todo = {} /\ Full(results) /\ i < Last(results)

WalkInv == WalkTypes /\ Parted /\ Between /\ StillOwed /\ WalkIsComplete

=============================================================================
