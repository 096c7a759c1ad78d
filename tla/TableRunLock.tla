---------------------------- MODULE TableRunLock ----------------------------
(***************************************************************************)
(* The per-thread run lock as AzureTableThreadStore keeps it               *)
(* (stores/azure_table.py), driven by the request handlers of the platform *)
(* routes (platform/_runs.py, platform/_threads.py) and by the timer       *)
(* function that reclaims stale locks (examples/maintenance_timer).        *)
(*                                                                         *)
(* Handlers run on many hosts at once.  Each call of the table service is  *)
(* one step, and everything a handler remembers between two calls (the     *)
(* ETag, the binding it saw, when it last looked at its clock) is in       *)
(* req[w].  A host may die between any two steps.                          *)
(***************************************************************************)
EXTENDS Integers

CONSTANTS
    Threads,        \* thread ids, as uuid4() may give them out
    Workers,        \* request handlers that may run at the same time
    Assistants,     \* registered graph names
    Sweepers,       \* callers of reset_stale_locks that may run at the same time
    None,           \* no assistant, no thread
    MaxAttempts,    \* max_attempts of try_acquire_run_lock (3 in the code)
    RunTimeout,     \* functionTimeout: the host kills a handler after this
    StaleAfter,     \* older_than_seconds of reset_stale_locks
    ResetStatus,    \* status of reset_stale_locks
    Horizon,        \* bound: requests arrive until this time
    MaxRequests     \* bound: how many run and PATCH requests arrive

ASSUME NoneAssumption == None \notin Assistants /\ None \notin Threads

ASSUME AttemptsAssumption == MaxAttempts \in Nat \ {0}

ASSUME ResetAssumption == ResetStatus \in {"idle", "error"}

ASSUME BoundsAssumption == Horizon \in Nat /\ MaxRequests \in Nat

\* A run lasts at most RunTimeout, and a PATCH that took its timestamp up to
\* RunTimeout ago may set updated_at back by as much: hence twice.
ASSUME StaleAssumption ==
    /\ RunTimeout \in Nat \ {0}
    /\ StaleAfter \in Nat
    /\ StaleAfter >= 2 * RunTimeout

VARIABLES
    rows,       \* the threads that have an entity in the table
    known,      \* the thread ids given out so far
    table,      \* thread -> its entity
    pc,         \* worker -> the next call of its handler
    req,        \* worker -> the local variables of its handler
    sweep,      \* sweeper -> its run of reset_stale_locks
    now,        \* the hosts' clock
    accepted,   \* requests accepted so far
    answer      \* the last response sent

vars == <<rows, known, table, pc, req, sweep, now, accepted, answer>>

Statuses == {"idle", "busy", "error"}

Steps == {"free", "read", "write", "running", "release", "confirm", "again",
          "patch", "patched"}

Answers == {"none", "ok", "notFound", "bound", "busy", "failed", "lost"}

\* Times end when every lock has had the time to become stale.
LastTick == Horizon + RunTimeout + StaleAfter + 1

\* The entity of a thread.  "etag" counts the writes of the row.
Entity == [status : Statuses,
           assistant : Assistants \union {None},
           updated : Nat,
           etag : Nat]

\* "overflow": the stream buffer is full.  This release stands inside the try
\* block of the stream, whose handler releases once more.
Outcomes == {"idle", "error", "overflow"}

Request == [thread : Threads \union {None},
            assistant : Assistants \union {None},
            start : Nat,       \* when the host started the handler
            asof : Nat,        \* when its last call returned
            attempt : Nat,     \* _attempt of try_acquire_run_lock, from 1; or 0
            etag : Nat,        \* the ETag it read
            binding : Assistants \union {None},  \* the assistant_id it read
            outcome : Outcomes]                  \* how its graph ended

NoRequest == [thread |-> None, assistant |-> None, start |-> 0, asof |-> 0,
              attempt |-> 0, etag |-> 0, binding |-> None, outcome |-> "idle"]

SweepRun == [began : Nat,                     \* when it took its cutoff
             pending : SUBSET Threads,        \* rows still to be fetched
             batch : SUBSET (Threads \X Nat)] \* rows to reset, with their ETags

NoSweep == [began |-> 0, pending |-> {}, batch |-> {}]

TypeOK ==
    /\ rows \subseteq known
    /\ known \subseteq Threads
    /\ table \in [Threads -> Entity]
    /\ pc \in [Workers -> Steps]
    /\ req \in [Workers -> Request]
    /\ \A w \in Workers : req[w].attempt <= MaxAttempts
    /\ sweep \in [Sweepers -> SweepRun]
    /\ now \in Nat
    /\ accepted \in Nat
    /\ answer \in Answers

Init ==
    /\ rows = {}
    /\ known = {}
    /\ table = [t \in Threads |->
                  [status |-> "idle", assistant |-> None, updated |-> 0, etag |-> 0]]
    /\ pc = [w \in Workers |-> "free"]
    /\ req = [w \in Workers |-> NoRequest]
    /\ sweep = [s \in Sweepers |-> NoSweep]
    /\ now = 0
    /\ accepted = 0
    /\ answer = "none"

-----------------------------------------------------------------------------
(* Shared vocabulary.                                                      *)

Busy(t) == t \in rows /\ table[t].status = "busy"

\* update_entity(mode="merge") that is applied: the new row has a new ETag.
Merge(t, status, assistant, stamp) ==
    table' = [table EXCEPT ![t] = [status |-> status, assistant |-> assistant,
                                   updated |-> stamp, etag |-> @.etag + 1]]

\* _now() is evaluated on the host after the handler's last call returned and
\* before the write it goes into is applied.
Stamps(w) == req[w].asof .. now

At(w, step) == pc[w] = step /\ req[w].thread \in Threads

Goto(w, step) ==
    /\ pc' = [pc EXCEPT ![w] = step]
    /\ UNCHANGED answer

Leave(w, reply) ==
    /\ pc' = [pc EXCEPT ![w] = "free"]
    /\ req' = [req EXCEPT ![w] = NoRequest]
    /\ answer' = reply

\* The request is over the thread's entity: found by this call, or not.
Found(w) == req[w].thread \in rows

Outcome(w) == IF req[w].outcome = "idle" THEN "ok" ELSE "failed"

-----------------------------------------------------------------------------
(* A run request: runs_wait and runs_stream have the same calls.           *)

\* A request names an id the client was given.
CanAccept == accepted < MaxRequests /\ now <= Horizon

\* deps.thread_store.get(): the handler goes on only if it finds the thread.
Begin(w, t, a, step) ==
    /\ pc[w] = "free"
    /\ CanAccept
    /\ accepted' = accepted + 1
    /\ IF t \in rows
         THEN /\ req' = [req EXCEPT ![w] = [NoRequest EXCEPT
                                 !.thread = t, !.assistant = a, !.start = now,
                                 !.asof = now, !.attempt = 1]]
              /\ Goto(w, step)
         ELSE Leave(w, "notFound")
    /\ UNCHANGED <<rows, known, table, sweep, now>>

RunBegin(w) == \E t \in known, a \in Assistants : Begin(w, t, a, "read")

BoundElsewhere(w) ==
    table[req[w].thread].assistant \notin {None, req[w].assistant}

\* One attempt of try_acquire_run_lock, up to the point where it either gives
\* up or has an ETag to compare with.
AcquireRefused(w) ==
    /\ At(w, "read")
    /\ \/ ~Found(w) /\ Leave(w, "notFound")
       \/ Found(w) /\ BoundElsewhere(w) /\ Leave(w, "bound")
       \/ /\ Found(w) /\ ~BoundElsewhere(w) /\ Busy(req[w].thread)
          /\ Leave(w, "busy")
    /\ UNCHANGED <<rows, known, table, sweep, now, accepted>>

AcquireRead(w) ==
    /\ At(w, "read")
    /\ Found(w)
    /\ ~BoundElsewhere(w)
    /\ ~Busy(req[w].thread)
    /\ req' = [req EXCEPT ![w].etag = table[req[w].thread].etag,
                          ![w].binding = table[req[w].thread].assistant,
                          ![w].asof = now]
    /\ Goto(w, "write")
    /\ UNCHANGED <<rows, known, table, sweep, now, accepted>>

\* Faulty variant: the merge of the acquire is sent without If-Match.
EtagIgnored(w) == TRUE

\* What If-Match compares on the server.
EtagMatches(w) == req[w].etag = table[req[w].thread].etag

\* What an attempt has read is forgotten with it.
AttemptOver(w, attempt) ==
    req' = [req EXCEPT ![w] = [@ EXCEPT !.etag = 0, !.binding = None, !.asof = now,
                                        !.attempt = attempt]]

\* Faulty variant: one attempt too many.
NextAttemptOffByOne(w) ==
    IF req[w].attempt <= MaxAttempts
    THEN /\ AttemptOver(w, req[w].attempt + 1)
         /\ Goto(w, "read")
    ELSE Leave(w, "busy")

\* ResourceModifiedError: another attempt, or None after the last one.
NextAttempt(w) ==
    IF req[w].attempt < MaxAttempts
    THEN /\ AttemptOver(w, req[w].attempt + 1)
         /\ Goto(w, "read")
    ELSE Leave(w, "busy")

AcquireMissing(w) ==
    /\ At(w, "write")
    /\ ~Found(w)
    /\ Leave(w, "notFound")
    /\ UNCHANGED <<rows, known, table, sweep, now, accepted>>

AcquireModified(w) ==
    /\ At(w, "write")
    /\ Found(w)
    /\ ~EtagMatches(w)
    /\ NextAttempt(w)
    /\ UNCHANGED <<rows, known, table, sweep, now, accepted>>

\* The patch: busy, a new updated_at, and the assistant if none was read.
LockRow(w) ==
    LET t == req[w].thread
    IN  \E stamp \in Stamps(w) :
          Merge(t, "busy",
                IF req[w].binding = None THEN req[w].assistant ELSE table[t].assistant,
                stamp)

AcquireWrite(w) ==
    /\ At(w, "write")
    /\ Found(w)
    /\ EtagMatches(w)
    /\ LockRow(w)
    /\ AttemptOver(w, 0)
    /\ Goto(w, "running")
    /\ UNCHANGED <<rows, known, sweep, now, accepted>>

\* The write is applied but its response is lost; the SDK sends it again and
\* the second one fails on the ETag the first one made.
AcquireResent(w) ==
    /\ At(w, "write")
    /\ Found(w)
    /\ EtagMatches(w)
    /\ LockRow(w)
    /\ NextAttempt(w)
    /\ UNCHANGED <<rows, known, sweep, now, accepted>>

\* The handler raises between the acquire and its try block: the request's
\* "configurable" is not a mapping, and no one has checked it.
RunRaises(w) ==
    /\ At(w, "running")
    /\ Leave(w, "failed")
    /\ UNCHANGED <<rows, known, table, sweep, now, accepted>>

\* graph.invoke or graph.stream returns, raises or overflows the buffer.
GraphEnds(w) ==
    /\ At(w, "running")
    /\ \E outcome \in Outcomes :
          req' = [req EXCEPT ![w].outcome = outcome, ![w].asof = now]
    /\ Goto(w, "release")
    /\ UNCHANGED <<rows, known, table, sweep, now, accepted>>

\* "again" is a release whose merge was applied before.
Releasing(w) == At(w, "release") \/ At(w, "again")

\* release_run_lock merges without an ETag.
ReleaseRow(w) ==
    \E stamp \in Stamps(w) :
       Merge(req[w].thread, IF req[w].outcome = "idle" THEN "idle" ELSE "error",
             table[req[w].thread].assistant, stamp)

ReleaseWrite(w) ==
    /\ Releasing(w)
    /\ Found(w)
    /\ ReleaseRow(w)
    /\ req' = [req EXCEPT ![w].asof = now]
    /\ Goto(w, "confirm")
    /\ UNCHANGED <<rows, known, sweep, now, accepted>>

\* KeyError, which _release_thread_run_lock logs and forgets.
ReleaseMissing(w) ==
    /\ Releasing(w)
    /\ ~Found(w)
    /\ Leave(w, Outcome(w))
    /\ UNCHANGED <<rows, known, table, sweep, now, accepted>>

\* Any other error leaves the handler; after an overflow it is taken for an
\* error of the graph, and the lock is released again.
Raised(w, step) ==
    IF req[w].outcome = "overflow"
    THEN /\ req' = [req EXCEPT ![w].outcome = "error", ![w].asof = now]
         /\ Goto(w, step)
    ELSE Leave(w, "failed")

\* The merge is not applied: values that json.dumps refuses, an entity over
\* the size limit, a service that refuses it.
ReleaseRaises(w) ==
    /\ Releasing(w)
    /\ Raised(w, pc[w])
    /\ UNCHANGED <<rows, known, table, sweep, now, accepted>>

\* The row is read again.
ReleaseConfirm(w) ==
    /\ At(w, "confirm")
    /\ Found(w)
    /\ Leave(w, Outcome(w))
    /\ UNCHANGED <<rows, known, table, sweep, now, accepted>>

\* Nothing handles a row that is gone by now, or a read that fails.
ReleaseUnconfirmed(w) ==
    /\ At(w, "confirm")
    /\ req[w].outcome = "overflow" => ~Found(w)
    /\ Raised(w, "again")
    /\ UNCHANGED <<rows, known, table, sweep, now, accepted>>

-----------------------------------------------------------------------------
(* PATCH, POST and DELETE of a thread.                                     *)

PatchBegin(w) == \E t \in known : Begin(w, t, None, "patch")

\* update(metadata=...): a merge without an ETag that also sets updated_at.
PatchWrite(w) ==
    /\ At(w, "patch")
    /\ Found(w)
    /\ LET t == req[w].thread
       IN  \E stamp \in Stamps(w) : Merge(t, table[t].status, table[t].assistant, stamp)
    /\ req' = [req EXCEPT ![w].asof = now]
    /\ Goto(w, "patched")
    /\ UNCHANGED <<rows, known, sweep, now, accepted>>

PatchMissing(w) ==
    /\ At(w, "patch")
    /\ ~Found(w)
    /\ Leave(w, "notFound")
    /\ UNCHANGED <<rows, known, table, sweep, now, accepted>>

\* A PATCH without metadata answers with the thread it found.
PatchEmpty(w) ==
    /\ At(w, "patch")
    /\ Leave(w, "ok")
    /\ UNCHANGED <<rows, known, table, sweep, now, accepted>>

\* update() reads the merged row outside its try block.
PatchConfirm(w) ==
    /\ At(w, "patched")
    /\ Leave(w, IF Found(w) THEN "ok" ELSE "failed")
    /\ UNCHANGED <<rows, known, table, sweep, now, accepted>>

ThreadCreate(t) ==
    /\ t \notin known
    /\ known' = known \union {t}
    /\ rows' = rows \union {t}
    /\ table' = [table EXCEPT ![t] = [status |-> "idle", assistant |-> None,
                                      updated |-> now, etag |-> 1]]
    /\ UNCHANGED <<pc, req, sweep, now, accepted, answer>>

ThreadDelete(t) ==
    /\ t \in rows
    /\ rows' = rows \ {t}
    /\ UNCHANGED <<known, table, pc, req, sweep, now, accepted, answer>>

-----------------------------------------------------------------------------
(* The timer function: reset_stale_locks.                                  *)

\* The loop is over with its last row.
SweepGoesOn(s, run) ==
    sweep' = [sweep EXCEPT ![s] = IF run.pending = {} /\ run.batch = {} THEN NoSweep ELSE run]

SweepBegin(s) ==
    /\ sweep[s] = NoSweep
    /\ SweepGoesOn(s, [began |-> now, pending |-> rows, batch |-> {}])
    /\ UNCHANGED <<rows, known, table, pc, req, now, accepted, answer>>

\* Faulty variants: every busy row is taken for stale; the comparison with the
\* cutoff is the wrong way round, and the cutoff in the future.
IsStaleAtAnyAge(t, began) == Busy(t)

IsStaleReversed(t, began) == Busy(t) /\ table[t].updated > began + StaleAfter

\* The row is busy and older than cutoff = _now() - older_than_seconds.
IsStale(t, began) == Busy(t) /\ table[t].updated < began - StaleAfter

\* query_entities yields the rows one by one; the stale ones keep their ETag.
SweepFetch(s, t) ==
    /\ t \in sweep[s].pending
    /\ SweepGoesOn(s, [sweep[s] EXCEPT !.pending = @ \ {t},
                         !.batch = IF IsStale(t, sweep[s].began)
                                   THEN @ \union {<<t, table[t].etag>>} ELSE @])
    /\ UNCHANGED <<rows, known, table, pc, req, now, accepted, answer>>

\* Faulty variant: the reset is sent without If-Match.
UnmodifiedIgnored(t, etag) == t \in rows

\* What If-Match compares on the server.
Unmodified(t, etag) == t \in rows /\ table[t].etag = etag

SweepReset(s, t) ==
    /\ \E etag \in {item[2] : item \in sweep[s].batch} :
         /\ <<t, etag>> \in sweep[s].batch
         /\ SweepGoesOn(s, [sweep[s] EXCEPT !.batch = @ \ {<<t, etag>>}])
         /\ IF Unmodified(t, etag)
              THEN \E stamp \in sweep[s].began .. now :
                     Merge(t, ResetStatus, table[t].assistant, stamp)
              ELSE UNCHANGED table
    /\ UNCHANGED <<rows, known, pc, req, now, accepted, answer>>

\* The timer's host dies, or a call of the service fails: the rest is left.
SweepDies(s) ==
    /\ sweep[s] # NoSweep
    /\ sweep' = [sweep EXCEPT ![s] = NoSweep]
    /\ UNCHANGED <<rows, known, table, pc, req, now, accepted, answer>>

-----------------------------------------------------------------------------
(* Hosts and time.                                                         *)

HostDies(w) ==
    /\ pc[w] # "free"
    /\ Leave(w, "lost")
    /\ UNCHANGED <<rows, known, table, sweep, now, accepted>>

\* No handler outlives functionTimeout.
InTime(w) == pc[w] # "free" => now < req[w].start + RunTimeout

Tick ==
    /\ now < LastTick
    /\ \A w \in Workers : InTime(w)
    /\ now' = now + 1
    /\ UNCHANGED <<rows, known, table, pc, req, sweep, accepted, answer>>

-----------------------------------------------------------------------------

RunStep(w) ==
    \/ AcquireRefused(w) \/ AcquireRead(w)
    \/ AcquireMissing(w) \/ AcquireModified(w)
    \/ AcquireWrite(w) \/ AcquireResent(w)
    \/ RunRaises(w) \/ GraphEnds(w)
    \/ ReleaseWrite(w) \/ ReleaseMissing(w) \/ ReleaseRaises(w)
    \/ ReleaseConfirm(w) \/ ReleaseUnconfirmed(w)

PatchStep(w) == PatchWrite(w) \/ PatchMissing(w) \/ PatchEmpty(w) \/ PatchConfirm(w)

ThreadStep(t) == ThreadCreate(t) \/ ThreadDelete(t)

SweepStep(s) == SweepBegin(s) \/ \E t \in Threads : SweepFetch(s, t) \/ SweepReset(s, t)

Next ==
    \/ \E w \in Workers : RunBegin(w) \/ PatchBegin(w)
    \/ \E w \in Workers : RunStep(w) \/ PatchStep(w) \/ HostDies(w)
    \/ \E t \in Threads : ThreadStep(t)
    \/ \E s \in Sweepers : SweepStep(s) \/ SweepDies(s)
    \/ Tick

Spec == Init /\ [][Next]_vars

\* A fault of the service: the merge of the release that follows an overflow
\* was applied, and the read of the row after it fails.
RereadFails(w) ==
    /\ At(w, "confirm")
    /\ req[w].outcome = "overflow"
    /\ Found(w)
    /\ Raised(w, "again")
    /\ UNCHANGED <<rows, known, table, sweep, now, accepted>>

RereadSpec == Init /\ [][Next \/ \E w \in Workers : RereadFails(w)]_vars

\* A handler that started goes on or is killed; the clock and the timer go on,
\* and a timer run that may be killed over and over is not killed for ever
\* before the same row.
Fairness ==
    /\ \A w \in Workers : WF_vars(RunStep(w) \/ PatchStep(w) \/ HostDies(w))
    /\ WF_vars(Tick)
    /\ \A s \in Sweepers :
         /\ WF_vars(SweepBegin(s))
         /\ \A t \in Threads : SF_vars(SweepFetch(s, t)) /\ SF_vars(SweepReset(s, t))

FairSpec == Spec /\ Fairness

-----------------------------------------------------------------------------
(* Correctness.                                                            *)

\* try_acquire_run_lock told w that the lock is its own, and w has not
\* released it.
Holds(w, t) == pc[w] \in {"running", "release"} /\ req[w].thread = t

\* No two runs of one thread execute at the same time, whatever the timer,
\* the PATCH handler and dying hosts do (COMPATIBILITY.md: concurrent runs of
\* a thread are rejected; try_acquire_run_lock and release_run_lock).
MutualExclusion ==
    \A t \in Threads : \A v, w \in Workers : Holds(v, t) /\ Holds(w, t) => v = w

\* While a run executes, its thread (if it was not deleted) is busy and bound
\* to the run's assistant: the timer never frees a lock in use, so the blind
\* merge of release_run_lock never lands on the lock of another run.
HolderOwnsThread ==
    \A w \in Workers, t \in rows :
       Holds(w, t) => Busy(t) /\ table[t].assistant = req[w].assistant

\* A thread bound to an assistant stays bound to it: two first runs with
\* different assistants cannot both bind it (try_acquire_run_lock).  The documents
\* (docs/architecture.md:317-321, docs/production-guide.md:233-238) still call the
\* binding a race that the last writer wins, from before the ETag was compared.
BindingIsForever ==
    [][\A t \in Threads :
         table[t].assistant # None => table'[t].assistant = table[t].assistant]_vars

(* The inductive invariant behind them, in named parts.               *)

\* The clock of a handler.
ClockInv ==
    \A w \in Workers : pc[w] # "free" =>
       /\ req[w].thread \in known
       /\ req[w].start <= req[w].asof
       /\ req[w].asof <= now
       /\ now <= req[w].start + RunTimeout
       /\ pc[w] \in {"read", "write", "running", "release"} => req[w].assistant \in Assistants

\* An ETag that still matches vouches for what was read with it.
EtagVouches(w, t) ==
    /\ req[w].etag <= table[t].etag
    /\ req[w].etag = table[t].etag /\ t \in rows =>
         ~Busy(t) /\ table[t].assistant = req[w].binding
    /\ req[w].binding \in {None, req[w].assistant}

CasInv ==
    \A w \in Workers, t \in Threads :
       pc[w] = "write" /\ req[w].thread = t => EtagVouches(w, t)

\* A lock in use is not stale: it was stamped when its run had started, and a
\* PATCH that overwrote the stamp had started at most RunTimeout before.
HolderInv ==
    /\ HolderOwnsThread
    /\ \A w \in Workers, t \in rows :
         Holds(w, t) => table[t].updated >= req[w].start - RunTimeout

\* A row a sweeper may still reset was stale when it was read.
SweepInv ==
    \A s \in Sweepers :
       /\ sweep[s].began <= now
       /\ \A item \in sweep[s].batch :
            /\ item[1] \in known
            /\ item[2] <= table[item[1]].etag
            /\ Unmodified(item[1], item[2]) => IsStale(item[1], sweep[s].began)

\* A second release is of a thread that is gone.
AgainInv == \A w \in Workers : pc[w] = "again" => req[w].thread \notin rows

CoreInv == TypeOK /\ ClockInv /\ CasInv /\ HolderInv /\ SweepInv /\ MutualExclusion

LockInv == CoreInv /\ AgainInv

\* An id not given out yet has no past (for the refinement).
FreshInv == \A t \in Threads \ known : table[t].assistant = None

(* What the store promises, as an abstract specification.                  *)

Phases ==
    [t \in Threads |-> IF t \in rows THEN "live"
                      ELSE IF t \in known THEN "gone" ELSE "unborn"]

BusyThreads == [t \in Threads |-> Busy(t)]

Bindings == [t \in Threads |-> table[t].assistant]

Holders == [t \in Threads |-> {w \in Workers : Holds(w, t)}]

Lock == INSTANCE RunLock WITH
    phase <- Phases, locked <- BusyThreads, bound <- Bindings, holders <- Holders

\* The table store, its handlers and its timer keep the promise of the
\* ThreadStore protocol (platform/stores.py): every step is a step of the
\* abstract lock, or leaves it alone.
LockIsKept == Lock!Spec

\* A thread does not stay busy for ever: a lock whose host died, or whose
\* release raised, is taken back by reset_stale_locks.
BusyEnds == \A t \in Threads : Busy(t) ~> ~Busy(t)

(* What the documents say and the code does not do.                        *)

\* A run that has the lock and ends, well or badly, on a host that lives
\* releases it (README: "on completion - success or failure - the lock is
\* released").
EndedRunReleases ==
    [][\A w \in Workers, t \in Threads :
         /\ pc[w] \in {"running", "release", "again"} /\ pc'[w] = "free"
         /\ answer' # "lost" /\ req[w].thread = t
         => ~Busy(t)']_vars

\* Two runs of a thread never execute at the same time, whatever happens to
\* the calls that release the lock (docs/production-guide.md: "Concurrent run
\* submissions for the same thread are rejected with HTTP 409").
RunsNeverOverlap ==
    \A v, w \in Workers :
       pc[v] = "running" /\ pc[w] = "running" /\ req[v].thread = req[w].thread => v = w

=============================================================================
