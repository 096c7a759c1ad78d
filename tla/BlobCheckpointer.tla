-------------------------- MODULE BlobCheckpointer --------------------------
(***************************************************************************)
(* AzureBlobCheckpointSaver (checkpointers/azure_blob.py) on one thread    *)
(* and namespace: writers that put() checkpoints, readers in get_tuple(),  *)
(* retention (delete_old_checkpoints, delete_checkpoints_before) and the   *)
(* garbage collector of channel values (collect_orphaned_values), all      *)
(* running at the same time on a store that offers single-blob calls only. *)
(*                                                                         *)
(* Checkpoint ids sort by time, so they are numbers here; 0 is no id.  A   *)
(* channel version is named by the checkpoint that introduced it: a value  *)
(* blob is a pair <<channel, id>>.                                         *)
(***************************************************************************)
EXTENDS Integers, FiniteSets, FiniteSetsExt

CONSTANTS
    Channels,       \* channel names
    Writers,        \* graph runs and state updates that may put at a time
    Readers,        \* requests that may be in get_tuple() at a time
    Forks,          \* BOOLEAN: may a writer start from an older checkpoint?
    MaxId,          \* bound: how many checkpoints are ever begun
    KeepLast,       \* keep_last of delete_old_checkpoints
    Grace,          \* grace_period_seconds of collect_orphaned_values
    PutTime,        \* longest time between a put's first and commit write
    Horizon,        \* bound: puts begin until this time
    LastTick        \* bound: the clock stops at this time

ASSUME BoundsAssumption ==
    MaxId \in Nat /\ Horizon \in Nat /\ LastTick \in Nat /\ Forks \in BOOLEAN

\* keep_last = 0 empties the namespace on purpose.
ASSUME KeepAssumption == KeepLast \in Nat \ {0}

\* A put commits before its first value leaves the grace period.
ASSUME GraceAssumption == PutTime \in Nat /\ Grace \in Nat /\ PutTime < Grace

VARIABLES
    values,     \* value blobs in the store
    modified,   \* value blob -> its last_modified
    metas,      \* ids that have metadata.bin
    marks,      \* ids that have checkpoint.bin, the commit marker
    versions,   \* id -> channel -> version, as checkpoint.bin says
    latest,     \* the id in latest.json, or 0
    lastId,     \* the newest id given out
    put,        \* writer -> its graph's state and its put() in progress
    prune,      \* the retention run in progress
    gc,         \* the garbage collection in progress
    get,        \* reader -> its get_tuple() in progress
    now

vars == <<values, modified, metas, marks, versions, latest, lastId, put, prune, gc, get, now>>

Ids == 1 .. MaxId

Blobs == Channels \X Ids

Versions == [Channels -> 0 .. MaxId]

NoVersions == [c \in Channels |-> 0]

\* The value blobs a checkpoint refers to.
Refs(vs) == {b \in Blobs : vs[b[1]] = b[2]}

Newest(ids) == Max(ids)

PutState == [pc : {"idle", "loaded", "values", "mark", "hint", "latest"},
             id : 0 .. MaxId,          \* of the put in progress
             versions : Versions,      \* the graph's channel versions
             todo : SUBSET Channels,   \* values still to upload
             began : Nat,              \* when put() was called, until its commit
             seen : 0 .. MaxId]        \* latest.json as it was read

Idle == [pc |-> "idle", id |-> 0, versions |-> NoVersions, todo |-> {},
         began |-> 0, seen |-> 0]

PruneState == [todo : SUBSET Ids, half : 0 .. MaxId]

NoPrune == [todo |-> {}, half |-> 0]

GcState == [pc : {"off", "list", "fetch", "next"},
            cutoff : Int,                 \* of the first pass
            todo : SUBSET Ids,            \* listed checkpoints still to read
            retained : SUBSET Blobs,      \* what the ones read refer to
            orphans : SUBSET Blobs,
            target : SUBSET Blobs]        \* the orphan under re-check, or {}

NoGc == [pc |-> "off", cutoff |-> 0, todo |-> {}, retained |-> {}, orphans |-> {},
         target |-> {}]

GetState == [pc : {"off", "values"},
             id : 0 .. MaxId,
             todo : SUBSET Blobs,      \* values still to download
             got : SUBSET Blobs]

NoGet == [pc |-> "off", id |-> 0, todo |-> {}, got |-> {}]

TypeOK ==
    /\ values \subseteq Blobs
    /\ modified \in [Blobs -> Nat]
    /\ metas \subseteq Ids
    /\ marks \subseteq Ids
    /\ versions \in [Ids -> Versions]
    /\ latest \in 0 .. MaxId
    /\ lastId \in 0 .. MaxId
    /\ put \in [Writers -> PutState]
    /\ prune \in PruneState
    /\ gc \in GcState
    /\ Cardinality(gc.target) <= 1
    /\ get \in [Readers -> GetState]
    /\ now \in Nat

Init ==
    /\ values = {}
    /\ modified = [b \in Blobs |-> 0]
    /\ metas = {}
    /\ marks = {}
    /\ versions = [i \in Ids |-> NoVersions]
    /\ latest = 0
    /\ lastId = 0
    /\ put = [w \in Writers |-> Idle]
    /\ prune = NoPrune
    /\ gc = NoGc
    /\ get = [r \in Readers |-> NoGet]
    /\ now = 0

blobs == <<values, modified, metas, marks, versions, latest>>

-----------------------------------------------------------------------------
(* put(), called by a graph that loaded a checkpoint and then goes on from *)
(* what it has in memory.                                                  *)

\* The checkpoint a graph starts from: the newest one, or, when a request
\* names one (time travel, a state update), any.
Bases == IF marks = {} THEN {}
         ELSE IF Forks THEN marks ELSE {Newest(marks)}

Load(w) ==
    /\ put[w].pc = "idle"
    /\ \/ /\ marks = {}
          /\ put' = [put EXCEPT ![w] = [Idle EXCEPT !.pc = "loaded"]]
       \/ \E base \in Bases :
            put' = [put EXCEPT ![w] = [Idle EXCEPT !.pc = "loaded",
                                                   !.versions = versions[base]]]
    /\ UNCHANGED <<blobs, lastId, prune, gc, get, now>>

\* A step of the graph changed some channels: each gets a new version.
PutBegin(w) ==
    /\ put[w].pc = "loaded"
    /\ lastId < MaxId
    /\ now <= Horizon
    /\ lastId' = lastId + 1
    /\ \E changed \in SUBSET Channels :
         put' = [put EXCEPT ![w] =
                   [pc |-> "values", id |-> lastId + 1, todo |-> changed,
                    versions |-> [c \in Channels |-> IF c \in changed THEN lastId + 1
                                                     ELSE put[w].versions[c]],
                    began |-> now, seen |-> 0]]
    /\ UNCHANGED <<blobs, prune, gc, get, now>>

PutValue(w) ==
    /\ put[w].pc = "values"
    /\ \E c \in put[w].todo :
         /\ values' = values \union {<<c, put[w].id>>}
         /\ modified' = [modified EXCEPT ![<<c, put[w].id>>] = now]
         /\ put' = [put EXCEPT ![w].todo = @ \ {c}]
    /\ UNCHANGED <<metas, marks, versions, latest, lastId, prune, gc, get, now>>

\* Faulty: the commit marker does not wait for the values.
ValuesAssumed(w) == TRUE

\* All values are uploaded.
ValuesDone(w) == put[w].todo = {}

PutMeta(w) ==
    /\ put[w].pc = "values"
    /\ ValuesDone(w)
    /\ metas' = metas \union {put[w].id}
    /\ put' = [put EXCEPT ![w].pc = "mark"]
    /\ UNCHANGED <<values, modified, marks, versions, latest, lastId, prune, gc, get, now>>

PutMark(w) ==
    /\ put[w].pc = "mark"
    /\ marks' = marks \union {put[w].id}
    /\ versions' = [versions EXCEPT ![put[w].id] = put[w].versions]
    /\ put' = [put EXCEPT ![w].pc = "hint", ![w].began = 0]
    /\ UNCHANGED <<values, modified, metas, latest, lastId, prune, gc, get, now>>

PutReadLatest(w) ==
    /\ put[w].pc = "hint"
    /\ put' = [put EXCEPT ![w].seen = latest, ![w].pc = "latest"]
    /\ UNCHANGED <<blobs, lastId, prune, gc, get, now>>

\* Only a newer id than the one that was read replaces it.
HintIsNewer(w) == put[w].id >= put[w].seen

PutLatest(w) ==
    /\ put[w].pc = "latest"
    /\ latest' = IF HintIsNewer(w) THEN put[w].id ELSE latest
    /\ put' = [put EXCEPT ![w] = [Idle EXCEPT !.pc = "loaded",
                                              !.versions = put[w].versions]]
    /\ UNCHANGED <<values, modified, metas, marks, versions, lastId, prune, gc, get, now>>

\* The graph ends, or its host dies in the middle of a put.
WriterStops(w) ==
    /\ put[w].pc # "idle"
    /\ put' = [put EXCEPT ![w] = Idle]
    /\ UNCHANGED <<blobs, lastId, prune, gc, get, now>>

-----------------------------------------------------------------------------
(* Retention.                                                              *)

\* Faulty: one checkpoint too many.
OlderOffByOne(n) == {i \in marks : Cardinality({j \in marks : j > i}) >= n - 1}

\* checkpoint_ids[keep_last:], the ids being sorted newest first.
Older(n) == {i \in marks : Cardinality({j \in marks : j > i}) >= n}

PruneBegin ==
    /\ prune = NoPrune
    /\ \/ prune' = [NoPrune EXCEPT !.todo = Older(KeepLast)]
       \/ \E i \in marks : prune' = [NoPrune EXCEPT !.todo = {j \in marks : j < i}]
    /\ prune' # NoPrune
    /\ UNCHANGED <<blobs, lastId, put, gc, get, now>>

\* _delete_checkpoint_blobs lists by name: checkpoint.bin comes first.
PruneMark ==
    /\ prune.half = 0
    /\ prune.todo # {}
    /\ LET i == Newest(prune.todo)
       IN  /\ marks' = marks \ {i}
           /\ versions' = [versions EXCEPT ![i] = NoVersions]
           /\ prune' = [todo |-> prune.todo \ {i}, half |-> i]
    /\ UNCHANGED <<values, modified, metas, latest, lastId, put, gc, get, now>>

PruneMeta ==
    /\ prune.half # 0
    /\ metas' = metas \ {prune.half}
    /\ prune' = [prune EXCEPT !.half = 0]
    /\ UNCHANGED <<values, modified, marks, versions, latest, lastId, put, gc, get, now>>

PruneDies ==
    /\ prune # NoPrune
    /\ prune' = NoPrune
    /\ UNCHANGED <<blobs, lastId, put, gc, get, now>>

-----------------------------------------------------------------------------
(* collect_orphaned_values(dry_run=False).                                 *)

\* A namespace without latest.json is skipped.
GcBegin ==
    /\ gc.pc = "off"
    /\ latest # 0
    /\ gc' = [NoGc EXCEPT !.pc = "list", !.cutoff = now - Grace]
    /\ UNCHANGED <<blobs, lastId, put, prune, get, now>>

\* _collect_retained_versions first lists the checkpoints, then reads each.
Listed == [gc EXCEPT !.pc = "fetch", !.todo = marks, !.retained = {}]

GcList ==
    /\ gc.pc = "list"
    /\ gc' = Listed
    /\ UNCHANGED <<blobs, lastId, put, prune, get, now>>

\* A listed checkpoint that is gone makes the survivor set untrustworthy.
GcFetch ==
    /\ gc.pc = "fetch"
    /\ gc.todo # {}
    /\ LET i == Newest(gc.todo)
       IN  gc' = IF i \in marks
                 THEN [gc EXCEPT !.todo = @ \ {i}, !.retained = @ \union Refs(versions[i])]
                 ELSE NoGc
    /\ UNCHANGED <<blobs, lastId, put, prune, get, now>>

\* Faulty: a value of a put in flight looks like garbage.
OrphanedAtAnyAge(b) == b \notin gc.retained

\* Faulty: the comparison with the cutoff is reversed.
OrphanedReversed(b) == b \notin gc.retained /\ modified[b] > gc.cutoff

\* The values that nobody refers to and that are older than the grace period.
Orphaned(b) == b \notin gc.retained /\ modified[b] <= gc.cutoff

\* What is left to do once these are the orphans still to delete.
After(orphans) ==
    IF orphans = {} THEN NoGc
    ELSE [NoGc EXCEPT !.pc = "next", !.orphans = orphans]

GcValues ==
    /\ gc.pc = "fetch"
    /\ gc.todo = {}
    /\ gc.target = {}
    /\ gc' = After({b \in values : Orphaned(b)})
    /\ UNCHANGED <<blobs, lastId, put, prune, get, now>>

\* Faulty: one re-check for all the orphans.
GcNextBatched ==
    /\ gc.pc = "next"
    /\ gc' = [Listed EXCEPT !.orphans = {}, !.target = gc.orphans]
    /\ UNCHANGED <<blobs, lastId, put, prune, get, now>>

\* The next orphan: the survivors are collected again for it.
GcNext ==
    /\ gc.pc = "next"
    /\ \E b \in gc.orphans :
         gc' = [Listed EXCEPT !.orphans = @ \ {b}, !.target = {b}]
    /\ UNCHANGED <<blobs, lastId, put, prune, get, now>>

\* The re-check: an orphan that a survivor refers to by now is spared.
GcDelete ==
    /\ gc.pc = "fetch"
    /\ gc.todo = {}
    /\ gc.target # {}
    /\ values' = values \ (gc.target \ gc.retained)
    /\ modified' = [b \in Blobs |-> IF b \in values' THEN modified[b] ELSE 0]
    /\ gc' = After(gc.orphans)
    /\ UNCHANGED <<metas, marks, versions, latest, lastId, put, prune, get, now>>

GcDies ==
    /\ gc.pc # "off"
    /\ gc' = NoGc
    /\ UNCHANGED <<blobs, lastId, put, prune, get, now>>

-----------------------------------------------------------------------------
(* get_tuple(): the newest checkpoint, or the one a request names.         *)

\* Without an id the scan decides, whatever latest.json says.  A checkpoint
\* without its commit marker is answered with None.
GetMark(r) ==
    /\ get[r].pc = "off"
    /\ \E i \in marks :
         get' = [get EXCEPT ![r] = [pc |-> "values", id |-> i, got |-> {},
                                    todo |-> Refs(versions[i])]]
    /\ UNCHANGED <<blobs, lastId, put, prune, gc, now>>

\* A value that is missing is passed over in silence.
GetValue(r) ==
    /\ get[r].pc = "values"
    /\ \E b \in get[r].todo :
         get' = [get EXCEPT ![r].todo = @ \ {b},
                            ![r].got = @ \union ({b} \intersect values)]
    /\ UNCHANGED <<blobs, lastId, put, prune, gc, now>>

\* The metadata is read last: without it the answer is None, with it the tuple.
GetMeta(r) ==
    /\ get[r].pc = "values"
    /\ get[r].todo = {}
    /\ get' = [get EXCEPT ![r] = NoGet]
    /\ UNCHANGED <<blobs, lastId, put, prune, gc, now>>

-----------------------------------------------------------------------------

InTime(w) ==
    put[w].pc \in {"values", "mark"} => now < put[w].began + PutTime

Tick ==
    /\ now < LastTick
    /\ \A w \in Writers : InTime(w)
    /\ now' = now + 1
    /\ UNCHANGED <<blobs, lastId, put, prune, gc, get>>

PutStep(w) ==
    \/ PutValue(w) \/ PutMeta(w) \/ PutMark(w) \/ PutReadLatest(w) \/ PutLatest(w)

PruneStep == PruneMark \/ PruneMeta

GcStep == GcBegin \/ GcList \/ GcFetch \/ GcValues \/ GcNext \/ GcDelete

GetStep(r) == GetMark(r) \/ GetValue(r) \/ GetMeta(r)

Next ==
    \/ \E w \in Writers : Load(w) \/ PutBegin(w) \/ PutStep(w) \/ WriterStops(w)
    \/ PruneBegin \/ PruneStep \/ PruneDies
    \/ GcStep \/ GcDies
    \/ \E r \in Readers : GetStep(r)
    \/ Tick

Spec == Init /\ [][Next]_vars

-----------------------------------------------------------------------------
(* Correctness.                                                            *)

\* A checkpoint that has its commit marker has its metadata and every channel
\* value it refers to, whatever retention and garbage collection do meanwhile
\* (put: "if it exists, the checkpoint is valid"; collect_orphaned_values).
CommittedIsComplete ==
    \A i \in marks : i \in metas /\ Refs(versions[i]) \subseteq values

\* A reader that is given a checkpoint which is still retained is given all
\* its channel values (get_tuple passes over a missing value in silence).
ReaderSeesWhole ==
    [][\A r \in Readers :
         GetMeta(r) /\ get[r].id \in marks =>
           get[r].id \in metas /\ get[r].got = Refs(versions[get[r].id])]_vars

\* Retention never takes the newest checkpoint, the one the next run starts from, not
\* even when newer ones are committed while it works: for any writers, where
\* HistoryIsKept below is for one.
NewestSurvives == [][marks # {} => Newest(marks) \in marks']_vars

\* latest.json, written after the commit marker and left alone by retention,
\* may name a checkpoint that was pruned, but never one that is newer than all
\* the checkpoints there are (put, _delete_checkpoint_blobs).
LatestIsNotAhead == latest # 0 => marks # {} /\ latest <= Newest(marks)

\* The checkpoints get_tuple() would answer with, asked at this moment, and the channel
\* values it would find.
Answered == marks \intersect metas

Found == [i \in Ids |-> IF i \in Answered THEN Refs(versions[i]) \intersect values ELSE {}]

History == INSTANCE CheckpointHistory WITH saved <- Answered, content <- Found

\* For who reads it, the saver keeps a history in which a checkpoint appears whole and
\* in one step, as the newest and on top of the newest before it, never changes while
\* it is kept, and is dropped only when a newer one stays: every call to the store, of
\* a put, of retention or of the collector, is such a step or changes no answer.
HistoryIsKept == History!Spec

\* A value blob no checkpoint refers to, and no put is about to, is collected
\* in the end: pruned checkpoints and puts that died leave nothing behind.
Wanted(b) ==
    \/ \E i \in marks : b \in Refs(versions[i])
    \/ \E w \in Writers : put[w].pc \in {"loaded", "values", "mark"} /\ b \in Refs(put[w].versions)

OrphansEnd ==
    \A b \in Blobs : (b \in values /\ ~Wanted(b) /\ latest # 0) ~> (b \notin values \/ Wanted(b))

\* The collector runs on a schedule and, however often it is killed, it is not
\* for ever killed at the same point.  A writer goes on or dies, time passes.
GcFetchAt(i, recheck) == GcFetch /\ Newest(gc.todo) = i /\ (gc.target # {}) = recheck

Fairness ==
    /\ \A w \in Writers : WF_vars(PutStep(w) \/ WriterStops(w))
    /\ WF_vars(Tick)
    /\ WF_vars(GcBegin)
    /\ SF_vars(GcList) /\ SF_vars(GcValues)
    /\ \A i \in Ids, recheck \in BOOLEAN : SF_vars(GcFetchAt(i, recheck))
    /\ SF_vars(GcNext) /\ SF_vars(GcDelete)

FairSpec == Spec /\ Fairness

-----------------------------------------------------------------------------
(* The inductive invariant.  AnyWritersInv, its part about ids, retention  *)
(* and latest.json, holds for any writers; the rest for the single writer  *)
(* of a thread that goes on from its newest checkpoint.                    *)

InFlight(w) == put[w].pc \in {"values", "mark"}

\* Ids are given out once: nothing but its own put knows the id in flight, and a
\* checkpoint that was pruned does not come back.
IdInv ==
    /\ marks \subseteq 1 .. lastId
    /\ \A b \in values \union gc.orphans \union gc.target : b[2] <= lastId
    /\ gc.todo \subseteq 1 .. lastId
    /\ prune.half \in 0 .. lastId /\ prune.half \notin marks
    /\ \A r \in Readers : get[r].id \in 0 .. lastId
    /\ \A w \in Writers : InFlight(w) =>
         /\ put[w].id \in 1 .. lastId
         /\ put[w].id \notin marks \union gc.todo \union {prune.half}
         /\ \A r \in Readers : put[w].id # get[r].id
         /\ \A v \in Writers : InFlight(v) /\ put[v].id = put[w].id => v = w

\* Retention deletes what is older than a checkpoint that stays; latest.json, and
\* who is about to write it, names nothing newer than that.
RetentionInv ==
    /\ prune.todo \subseteq marks
    /\ \A i \in prune.todo : \E j \in marks : j > i
    /\ latest # 0 => \E j \in marks : latest <= j
    /\ \A w \in Writers : put[w].pc \in {"hint", "latest"} => \E j \in marks : put[w].id <= j

AnyWritersInv == TypeOK /\ IdInv /\ RetentionInv

\* The versions of the newest checkpoint.
Base == IF marks = {} THEN NoVersions ELSE versions[Newest(marks)]

\* A writer goes on from the newest checkpoint.  What it uploaded is there, and too
\* young to be collected before its commit.
Uploaded(w) ==
    /\ \A i \in marks : i < put[w].id
    /\ put[w].began <= now /\ now <= put[w].began + PutTime
    /\ \A c \in put[w].todo : put[w].versions[c] = put[w].id
    /\ \A c \in Channels : put[w].versions[c] \in {Base[c], put[w].id}
    /\ \A c \in Channels \ put[w].todo :
         put[w].versions[c] = put[w].id => <<c, put[w].id>> \in values
    /\ \A b \in values : b[2] = put[w].id => modified[b] >= put[w].began

WriterOK(w) ==
    /\ put[w].pc \in {"loaded", "hint", "latest"} => put[w].versions = Base
    /\ put[w].pc = "mark" => put[w].todo = {} /\ put[w].id \in metas
    /\ InFlight(w) => Uploaded(w)

WriterInv == \A w \in Writers : WriterOK(w)

\* No value of a put in flight is an orphan.
CutoffInv ==
    gc.pc \in {"list", "fetch"} /\ gc.target = {} => gc.cutoff <= now - Grace

OrphanInv ==
    \A b \in gc.orphans \union gc.target, w \in Writers : InFlight(w) => b[2] # put[w].id

\* While an orphan is re-checked, a survivor that refers to it was read or is still to
\* be read, or one of those still to be read is gone and the pass will be given up.
RecheckInv ==
    gc.pc = "fetch" /\ gc.todo \subseteq marks =>
       \A i \in marks : \A b \in Refs(versions[i]) \intersect gc.target :
          b \in gc.retained \/ \E k \in gc.todo : b \in Refs(versions[k])

\* What a reader did not get of a retained checkpoint, it still has to download.
ReaderInv ==
    \A r \in Readers : get[r].pc = "values" /\ get[r].id \in marks =>
       get[r].got \union get[r].todo = Refs(versions[get[r].id])

BlobInv ==
    /\ AnyWritersInv
    /\ WriterInv
    /\ CutoffInv /\ OrphanInv /\ RecheckInv
    /\ ReaderInv
    /\ CommittedIsComplete

\* docs/architecture.md: one writer per thread; and each run starts from the newest
\* checkpoint.
SingleWriter == ~Forks /\ \A v, w \in Writers : v = w

=============================================================================
