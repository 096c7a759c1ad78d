----------------------------- MODULE ThreadBlobs -----------------------------
(***************************************************************************)
(* The blobs of a thread beyond its checkpoints proper: the pending writes *)
(* of the tasks of a step (put_writes, _load_pending_writes), and the end  *)
(* of the thread (delete_thread).  Puts, retention and readers are those   *)
(* of BlobCheckpointer; the collector of channel values stays at rest, so  *)
(* time does.                                                              *)
(*                                                                         *)
(* A task is attempted again when its host died, or by a second request    *)
(* that runs the same thread: every attempt has results of its own.        *)
(***************************************************************************)
EXTENDS BlobCheckpointer, Sequences, Functions

CONSTANTS
    Attempts,       \* attempts at one task, each with results of its own
    Batches,        \* the write indexes of a put_writes(), in its order
    NoAttempt,
    MaxDeletes      \* bound: how often the thread is deleted

\* A few channels (__interrupt__, __error__) have an index below 0.  Without writes
\* put_writes() does nothing.
ASSUME BatchesAssumption == Batches \subseteq Seq(Int) \ {<<>>}

ASSUME AttemptsAssumption == NoAttempt \notin Attempts /\ MaxDeletes \in Nat

VARIABLES
    writes,     \* id -> index -> the attempt whose result is stored
    task,       \* attempt -> its put_writes()
    sweep,      \* the write blobs that retention still has to delete
    del,        \* the delete_thread() in progress
    hit         \* history: graphs and checkpoints beside a delete_thread()

allVars == <<vars, writes, task, sweep, del, hit>>

Indexes == UNION {Range(b) : b \in Batches}

Regular == {k \in Indexes : k >= 0}

NoWrites == [k \in Indexes |-> NoAttempt]

Stored(i) == {k \in Indexes : writes[i][k] # NoAttempt}

\* What may be left of a put_writes().
Rests == {<<>>} \union UNION {{SubSeq(b, n, Len(b)) : n \in 1 .. Len(b) + 1} : b \in Batches}

TaskState == [pc : {"new", "look", "upload", "over"},
              id : 0 .. MaxId,
              todo : Rests,
              met : SUBSET Attempts]    \* those under way at the same time

UnderWay == {a \in Attempts : task[a].pc \in {"look", "upload"}}

\* The blobs under the prefix of the thread, in the order of their names:
\* checkpoints/<id>/{checkpoint.bin, metadata.bin, writes/...}, then
\* latest.json, then values/.
Names == ({"mark", "meta"} \X Ids \X {0}) \union ({"write"} \X Ids \X Indexes)
           \union {<<"latest", 0, 0>>} \union ({"value"} \X Ids \X Channels)

\* Faulty: a layout whose values come first.
RankValuesFirst(b) == CASE b[1] = "value" -> 0
                        [] b[1] = "latest" -> 4 * MaxId + 4
                        [] b[1] = "mark" -> 4 * b[2]
                        [] b[1] = "meta" -> 4 * b[2] + 1
                        [] b[1] = "write" -> 4 * b[2] + 2

Rank(b) == CASE b[1] = "mark" -> 4 * b[2]
             [] b[1] = "meta" -> 4 * b[2] + 1
             [] b[1] = "write" -> 4 * b[2] + 2
             [] b[1] = "latest" -> 4 * MaxId + 4
             [] b[1] = "value" -> 4 * MaxId + 5

Present ==
    ({"mark"} \X marks \X {0}) \union ({"meta"} \X metas \X {0})
      \union {<<"write", w[1], w[2]>> : w \in {x \in Ids \X Indexes : x[2] \in Stored(x[1])}}
      \union {<<"latest", 0, 0>> : x \in {latest} \ {0}}
      \union {<<"value", v[2], v[1]>> : v \in values}

\* alone: nothing was uploaded since delete_thread listed the blobs.
DelState == [on : BOOLEAN, todo : SUBSET Names, alone : BOOLEAN, left : 0 .. MaxDeletes]

\* It returned, raised or died.
DelOver == [del EXCEPT !.on = FALSE, !.todo = {}, !.alone = TRUE]

ThreadTypeOK ==
    /\ TypeOK
    /\ writes \in [Ids -> [Indexes -> Attempts \union {NoAttempt}]]
    /\ task \in [Attempts -> TaskState]
    /\ \A a \in UnderWay : task[a].todo # <<>>
    /\ sweep \in [id : 0 .. MaxId, todo : SUBSET Indexes]
    /\ del \in DelState
    /\ hit \in [writers : SUBSET Writers, ids : SUBSET Ids]

ThreadInit ==
    /\ Init
    /\ writes = [i \in Ids |-> NoWrites]
    /\ task = [a \in Attempts |-> [pc |-> "new", id |-> 0, todo |-> <<>>, met |-> {}]]
    /\ sweep = [id |-> 0, todo |-> {}]
    /\ del = [on |-> FALSE, todo |-> {}, alone |-> TRUE, left |-> MaxDeletes]
    /\ hit = [writers |-> {}, ids |-> {}]

\* Every upload beside a delete_thread is one it may not have listed.
Noted ==
    del' = IF del.on /\ del.alone THEN [del EXCEPT !.alone = Present' = Present] ELSE del

-----------------------------------------------------------------------------
(* Puts, beside a delete_thread() or not.                                  *)

\* A graph that runs beside a deletion, or goes on from what such a graph has
\* committed, is marked.
GraphLoad(w) ==
    /\ Load(w)
    /\ hit' = [hit EXCEPT !.writers =
                 IF del.on \/ Bases \intersect hit.ids # {} THEN @ \union {w} ELSE @]
    /\ UNCHANGED <<writes, task, sweep, del>>

GraphStops(w) ==
    /\ WriterStops(w)
    /\ hit' = [hit EXCEPT !.writers = @ \ {w}]
    /\ UNCHANGED <<writes, task, sweep, del>>

GraphPuts(w) ==
    /\ \/ PutBegin(w) \/ PutValue(w) \/ PutMeta(w) \/ PutReadLatest(w) \/ PutLatest(w)
    /\ UNCHANGED <<writes, task, sweep, hit>>
    /\ Noted

GraphCommits(w) ==
    /\ PutMark(w)
    /\ hit' = [hit EXCEPT !.ids = IF w \in hit.writers THEN @ \union {put[w].id} ELSE @]
    /\ UNCHANGED <<writes, task, sweep>>
    /\ Noted

-----------------------------------------------------------------------------
(* put_writes().                                                           *)

\* The attempts of a task are based on one checkpoint.  LangGraph may store
\* the writes of a step while that checkpoint is still put.
Basis == {task[a].id : a \in {x \in Attempts : task[x].pc # "new"}}

TaskBegin(a) ==
    /\ task[a].pc = "new"
    /\ \E i \in IF Basis = {} THEN 1 .. lastId ELSE Basis, b \in Batches :
         task' = [x \in Attempts |->
                    IF x = a THEN [pc |-> "look", id |-> i, todo |-> b, met |-> UnderWay]
                    ELSE IF x \in UnderWay THEN [task[x] EXCEPT !.met = @ \union {a}]
                    ELSE task[x]]
    /\ UNCHANGED <<vars, writes, sweep, del, hit>>

\* Faulty: one turn of the loop too many.
AdvancedOffByOne(t) == [t EXCEPT !.todo = Tail(@), !.pc = IF t.todo = <<>> THEN "over" ELSE "look"]

Advanced(t) == [t EXCEPT !.todo = Tail(@), !.pc = IF Len(t.todo) = 1 THEN "over" ELSE "look"]

\* Faulty: whatever is there is overwritten.
SkipsNever(i, k) == FALSE

\* write_index >= 0 and self._blob_exists(write_blob_path)
Skips(i, k) == k >= 0 /\ k \in Stored(i)

TaskLook(a) ==
    /\ task[a].pc = "look"
    /\ task' = [task EXCEPT ![a] = IF Skips(@.id, Head(@.todo)) THEN Advanced(@)
                                   ELSE [@ EXCEPT !.pc = "upload"]]
    /\ UNCHANGED <<vars, writes, sweep, del, hit>>

TaskUpload(a) ==
    /\ task[a].pc = "upload"
    /\ writes' = [writes EXCEPT ![task[a].id][Head(task[a].todo)] = a]
    /\ task' = [task EXCEPT ![a] = Advanced(@)]
    /\ UNCHANGED <<vars, sweep, hit>>
    /\ Noted

\* The host dies in the middle of a batch.
TaskDies(a) ==
    /\ a \in UnderWay
    /\ task' = [task EXCEPT ![a].pc = "over", ![a].todo = <<>>]
    /\ UNCHANGED <<vars, writes, sweep, del, hit>>

-----------------------------------------------------------------------------
(* Retention: the writes come after checkpoint.bin and metadata.bin.  A    *)
(* blob that is gone is passed over.                                       *)

SweepBegin ==
    /\ PruneBegin
    /\ UNCHANGED <<writes, task, sweep, del, hit>>

\* All the blobs of the checkpoint are listed before the first is deleted.
SweepMark ==
    /\ PruneMark
    /\ sweep.todo = {}
    /\ sweep' = [id |-> Newest(prune.todo), todo |-> Stored(Newest(prune.todo))]
    /\ UNCHANGED <<writes, task, del, hit>>

SweepMeta ==
    /\ PruneMeta
    /\ UNCHANGED <<writes, task, sweep, del, hit>>

\* Faulty: the writes go before the marker.
SweepWriteFirst ==
    /\ prune.todo # {}
    /\ \E k \in Stored(Newest(prune.todo)) :
         writes' = [writes EXCEPT ![Newest(prune.todo)][k] = NoAttempt]
    /\ UNCHANGED <<vars, task, sweep, del, hit>>

SweepWrite ==
    /\ prune.half = 0
    /\ sweep.todo # {}
    /\ LET k == Min(sweep.todo)
       IN  /\ writes' = [writes EXCEPT ![sweep.id][k] = NoAttempt]
           /\ sweep' = [sweep EXCEPT !.todo = @ \ {k}]
    /\ UNCHANGED <<vars, task, del, hit>>

SweepDies ==
    /\ prune # NoPrune \/ sweep.todo # {}
    /\ prune' = NoPrune
    /\ sweep' = [id |-> 0, todo |-> {}]
    /\ UNCHANGED <<blobs, lastId, put, gc, get, now, writes, task, del, hit>>

-----------------------------------------------------------------------------
(* delete_thread().                                                        *)

DeleteBegin ==
    /\ ~del.on
    /\ del.left > 0
    /\ Present # {}
    /\ del' = [on |-> TRUE, todo |-> Present, alone |-> TRUE, left |-> del.left - 1]
    /\ hit' = [hit EXCEPT !.writers = {w \in Writers : put[w].pc # "idle"}]
    /\ UNCHANGED <<vars, writes, task, sweep>>

\* The next blob of the listing.
First == CHOOSE b \in del.todo : \A x \in del.todo : Rank(b) <= Rank(x)

\* Faulty: the first blob that is gone ends the loop in silence.
OnMissingStops == [del EXCEPT !.todo = {}]

\* delete_blob() raises for a blob that is gone; nothing catches it.
OnMissing == DelOver

DeleteBlob ==
    /\ del.on
    /\ del.todo # {}
    /\ First \in Present
    /\ LET b == First
       IN  /\ marks' = IF b[1] = "mark" THEN marks \ {b[2]} ELSE marks
           /\ versions' = IF b[1] = "mark" THEN [versions EXCEPT ![b[2]] = NoVersions] ELSE versions
           /\ metas' = IF b[1] = "meta" THEN metas \ {b[2]} ELSE metas
           /\ writes' = IF b[1] = "write" THEN [writes EXCEPT ![b[2]][b[3]] = NoAttempt]
                        ELSE writes
           /\ latest' = IF b[1] = "latest" THEN 0 ELSE latest
           /\ values' = IF b[1] = "value" THEN values \ {<<b[3], b[2]>>} ELSE values
           /\ del' = [del EXCEPT !.todo = @ \ {b}]
    /\ UNCHANGED <<modified, lastId, put, prune, gc, get, now, task, sweep, hit>>

DeleteFails ==
    /\ del.on
    /\ del.todo # {}
    /\ First \notin Present
    /\ del' = OnMissing
    /\ UNCHANGED <<vars, writes, task, sweep, hit>>

DeleteEnd ==
    /\ del.on
    /\ del.todo = {}
    /\ del' = DelOver
    /\ UNCHANGED <<vars, writes, task, sweep, hit>>

DeleteDies ==
    /\ del.on
    /\ del' = DelOver
    /\ UNCHANGED <<vars, writes, task, sweep, hit>>

-----------------------------------------------------------------------------

GraphStep(w) == GraphLoad(w) \/ GraphPuts(w) \/ GraphCommits(w) \/ GraphStops(w)

TaskStep(a) == TaskBegin(a) \/ TaskLook(a) \/ TaskUpload(a) \/ TaskDies(a)

SweepStep == SweepBegin \/ SweepMark \/ SweepMeta \/ SweepWrite \/ SweepDies

DeleteStep == DeleteBegin \/ DeleteBlob \/ DeleteFails \/ DeleteEnd \/ DeleteDies

ThreadNext ==
    \/ \E w \in Writers : GraphStep(w)
    \/ \E a \in Attempts : TaskStep(a)
    \/ SweepStep
    \/ DeleteStep

ThreadSpec == ThreadInit /\ [][ThreadNext]_allVars

-----------------------------------------------------------------------------
(* Correctness.                                                            *)

\* However far a delete_thread came before it failed or its host died, every
\* checkpoint that is still committed is complete: the names put a marker
\* before what it stands for.  Only what graphs commit that ran beside the
\* deletion, or went on from there, may lack values (delete_thread, put).
RestIsComplete ==
    \A i \in marks \ hit.ids : i \in metas /\ Refs(versions[i]) \subseteq values

\* A delete_thread that returns leaves nothing, unless something was uploaded
\* while it ran: what retention deletes at the same time makes it raise instead.
DeletedIsGone == [][DeleteEnd /\ del.alone => Present = {}]_allVars

\* The first result of a regular write stays (put_writes looks before it
\* uploads, as MemorySaver does): only an attempt that overlaps the one whose
\* result is stored may replace it.
OnlyOverlapsReplace ==
    [][\A i \in Ids : \A k \in Regular \intersect Stored(i) \intersect Stored(i)' :
         writes'[i][k] # writes[i][k] => writes[i][k] \in task[writes'[i][k]].met]_allVars

\* As long as a checkpoint is retained, and was not put beside a delete_thread,
\* no pending write of it is lost, so that a reader which lists them and then
\* reads them one by one gets them all (_load_pending_writes passes over what is
\* gone in silence; _delete_checkpoint_blobs deletes the marker first).
WritesStay ==
    [][\A i \in (marks \intersect marks') \ hit.ids : Stored(i) \subseteq Stored(i)']_allVars

-----------------------------------------------------------------------------
(* The inductive invariant.  It takes neither a single writer nor one that *)
(* starts from the newest checkpoint: with the collector at rest, only a   *)
(* deletion takes values away.                                             *)

\* What retention has listed, deletes or has deleted is known: no put commits it
\* again.
ThreadIdInv ==
    /\ IdInv
    /\ prune.todo \union {sweep.id} \subseteq 0 .. lastId
    /\ sweep.id \notin marks
    /\ \A w \in Writers : InFlight(w) => put[w].id \notin prune.todo \union {sweep.id}

\* All that a graph's versions name is stored, but for what its put still uploads.
Backed(w) ==
    /\ \A b \in Refs(put[w].versions) :
          b \in values \/ (InFlight(w) /\ b[2] = put[w].id /\ b[1] \in put[w].todo)
    /\ put[w].pc = "mark" => put[w].todo = {} /\ put[w].id \in metas

\* A graph that a deletion did not meet misses nothing.
GraphInv ==
    \A w \in Writers \ hit.writers : put[w].pc # "idle" => ~del.on /\ Backed(w)

\* A deletion still has to come to the marker of what it may leave, and, as long as
\* nothing is uploaded beside it, to all there is.
DeletionInv ==
    del.on =>
       /\ \A i \in marks \ hit.ids : <<"mark", i, 0>> \in del.todo
       /\ del.alone => Present \subseteq del.todo

\* Attempts under way know of each other, and what an attempt is about to replace
\* was stored since it looked.
AttemptInv ==
    /\ \A a, x \in UnderWay : a # x => x \in task[a].met
    /\ \A a \in Attempts : task[a].pc = "upload" =>
         LET i == task[a].id
             k == Head(task[a].todo)
         IN  i \in Ids /\ k >= 0 /\ k \in Stored(i) => writes[i][k] \in task[a].met \union {a}

ThreadInv ==
    ThreadTypeOK /\ ThreadIdInv /\ GraphInv /\ DeletionInv /\ AttemptInv /\ RestIsComplete

=============================================================================
