-------------------------- MODULE MemoryThreadStore --------------------------
(***************************************************************************)
(* InMemoryThreadStore (platform/stores.py) and the handlers that use it   *)
(* (platform/_runs.py, platform/_threads.py) in one worker process.  Every *)
(* method holds the store's RLock and is one step; handlers interleave     *)
(* between methods.  All is lost when the process restarts, which is also  *)
(* what functionTimeout does to a handler that takes too long.             *)
(***************************************************************************)
EXTENDS FiniteSets

CONSTANTS
    Threads,        \* thread ids, as uuid4() may give them out
    Workers,        \* handlers that may run at the same time
    Assistants,     \* registered graph names
    Keys,           \* metadata keys that PATCH requests set
    None            \* no assistant, no thread

ASSUME NoneAssumption == None \notin Assistants /\ None \notin Threads

VARIABLES
    known,          \* the thread ids given out so far
    threads,        \* the threads in _threads
    table,          \* thread -> its status, assistant_id and metadata keys
    pc,             \* worker -> the next call of its handler
    req             \* worker -> the local variables of its handler

vars == <<known, threads, table, pc, req>>

Thread == [status : {"idle", "busy", "error"},
           assistant : Assistants \union {None},
           metadata : SUBSET Keys]

NewThread == [status |-> "idle", assistant |-> None, metadata |-> {}]

Request == [thread : Threads \union {None},
            assistant : Assistants \union {None},
            keys : SUBSET Keys,             \* what a PATCH sets
            seen : Thread,                  \* what get() returned
            outcome : {"idle", "error"}]    \* how the graph ended

NoRequest == [thread |-> None, assistant |-> None, keys |-> {}, seen |-> NewThread,
              outcome |-> "idle"]

TypeOK ==
    /\ threads \subseteq known
    /\ known \subseteq Threads
    /\ table \in [Threads -> Thread]
    /\ pc \in [Workers -> {"free", "acquire", "running", "release", "patch"}]
    /\ req \in [Workers -> Request]

Init ==
    /\ known = {}
    /\ threads = {}
    /\ table = [t \in Threads |-> NewThread]
    /\ pc = [w \in Workers |-> "free"]
    /\ req = [w \in Workers |-> NoRequest]

-----------------------------------------------------------------------------

At(w, step) == pc[w] = step /\ req[w].thread \in Threads

Found(w) == req[w].thread \in threads

Goto(w, step) == pc' = [pc EXCEPT ![w] = step]

Leave(w) ==
    /\ pc' = [pc EXCEPT ![w] = "free"]
    /\ req' = [req EXCEPT ![w] = NoRequest]

\* get(): a request for a thread that is not there changes nothing.
Begin(w, t, a, keys, step) ==
    /\ pc[w] = "free"
    /\ t \in threads
    /\ req' = [req EXCEPT ![w] = [thread |-> t, assistant |-> a, keys |-> keys,
                                  seen |-> table[t], outcome |-> "idle"]]
    /\ Goto(w, step)
    /\ UNCHANGED <<known, threads, table>>

RunBegin(w) == \E t \in Threads, a \in Assistants : Begin(w, t, a, {}, "acquire")

PatchBegin(w) == \E t \in Threads, k \in Keys : Begin(w, t, None, {k}, "patch")

\* Faulty: the binding found by get() is trusted to be still the same.
RefusesByBinding(w) ==
    \/ req[w].seen.assistant \notin {None, req[w].assistant}
    \/ table[req[w].thread].status = "busy"

\* Faulty: the status found by get() is trusted to be still the same.
RefusesAsSeen(w) ==
    \/ table[req[w].thread].assistant \notin {None, req[w].assistant}
    \/ req[w].seen.status = "busy"

\* Bound to another assistant (ValueError) or busy (None).
Refuses(w) ==
    \/ table[req[w].thread].assistant \notin {None, req[w].assistant}
    \/ table[req[w].thread].status = "busy"

\* try_acquire_run_lock.
Acquire(w) ==
    /\ At(w, "acquire")
    /\ Found(w)
    /\ ~Refuses(w)
    /\ table' = [table EXCEPT ![req[w].thread].status = "busy",
                              ![req[w].thread].assistant = req[w].assistant]
    /\ Goto(w, "running")
    /\ UNCHANGED <<known, threads, req>>

AcquireRefused(w) ==
    /\ At(w, "acquire")
    /\ ~Found(w) \/ Refuses(w)
    /\ Leave(w)
    /\ UNCHANGED <<known, threads, table>>

\* The handler raises between the acquire and its try block ("configurable" is
\* not a mapping): the thread stays busy.
RunRaises(w) ==
    /\ At(w, "running")
    /\ Leave(w)
    /\ UNCHANGED <<known, threads, table>>

\* graph.invoke or graph.stream returns or raises.
GraphEnds(w) ==
    /\ At(w, "running")
    /\ \E outcome \in {"idle", "error"} : req' = [req EXCEPT ![w].outcome = outcome]
    /\ Goto(w, "release")
    /\ UNCHANGED <<known, threads, table>>

\* release_run_lock; a KeyError is logged and forgotten.
Release(w) ==
    /\ At(w, "release")
    /\ table' = IF Found(w) THEN [table EXCEPT ![req[w].thread].status = req[w].outcome]
                ELSE table
    /\ Leave(w)
    /\ UNCHANGED <<known, threads>>

\* Values that Thread.model_validate refuses (a graph that returns a dict with
\* keys other than strings): no one catches the ValidationError.
ReleaseRaises(w) ==
    /\ At(w, "release")
    /\ Found(w)
    /\ req[w].outcome = "idle"
    /\ Leave(w)
    /\ UNCHANGED <<known, threads, table>>

\* Faulty: the keys of the PATCH replace the metadata.
PatchedAlone(w) == [table[req[w].thread] EXCEPT !.metadata = req[w].keys]

\* Faulty: update() writes back all of the thread that get() returned.
PatchedFromSight(w) == [req[w].seen EXCEPT !.metadata = @ \union req[w].keys]

\* The handler merged the metadata that get() returned; update() replaces it.
Patched(w) ==
    [table[req[w].thread] EXCEPT !.metadata = req[w].seen.metadata \union req[w].keys]

PatchWrite(w) ==
    /\ At(w, "patch")
    /\ Found(w)
    /\ table' = [table EXCEPT ![req[w].thread] = Patched(w)]
    /\ Leave(w)
    /\ UNCHANGED <<known, threads>>

PatchMissing(w) ==
    /\ At(w, "patch")
    /\ ~Found(w)
    /\ Leave(w)
    /\ UNCHANGED <<known, threads, table>>

ThreadCreate(t) ==
    /\ t \notin known
    /\ known' = known \union {t}
    /\ threads' = threads \union {t}
    /\ table' = [table EXCEPT ![t] = NewThread]
    /\ UNCHANGED <<pc, req>>

ThreadDelete(t) ==
    /\ t \in threads
    /\ threads' = threads \ {t}
    /\ UNCHANGED <<known, table, pc, req>>

ProcessRestarts ==
    /\ threads' = {}
    /\ pc' = [w \in Workers |-> "free"]
    /\ req' = [w \in Workers |-> NoRequest]
    /\ UNCHANGED <<known, table>>

-----------------------------------------------------------------------------

Next ==
    \/ \E w \in Workers :
         \/ RunBegin(w) \/ Acquire(w) \/ AcquireRefused(w)
         \/ RunRaises(w) \/ GraphEnds(w) \/ Release(w) \/ ReleaseRaises(w)
         \/ PatchBegin(w) \/ PatchWrite(w) \/ PatchMissing(w)
    \/ \E t \in Threads : ThreadCreate(t) \/ ThreadDelete(t)
    \/ ProcessRestarts

Spec == Init /\ [][Next]_vars

-----------------------------------------------------------------------------
(* Correctness.                                                            *)

Busy(t) == t \in threads /\ table[t].status = "busy"

Holds(w, t) == pc[w] \in {"running", "release"} /\ req[w].thread = t

\* While a run executes, its thread (if it was not deleted) is busy and bound
\* to the run's assistant, whatever is PATCHed meanwhile, and no other run of
\* the thread executes (try_acquire_run_lock, update, release_run_lock).
RunOwnsThread ==
    \A w \in Workers, t \in Threads : Holds(w, t) =>
       /\ t \in threads => Busy(t) /\ table[t].assistant = req[w].assistant
       /\ \A v \in Workers : Holds(v, t) => v = w

\* Metadata keys get lost through a PATCH whose read another PATCH overtook, and
\* in no other way: no run, no release and no PATCH that was alone drops one
\* (the PATCH handler merges into what get() returned, update replaces).
OnlyOverlapsLoseKeys ==
    [][\A t \in threads \intersect threads' :
         \/ table[t].metadata \subseteq table'[t].metadata
         \/ \E w \in Workers :
              /\ pc[w] = "patch" /\ pc'[w] = "free" /\ req[w].thread = t
              /\ req[w].seen.metadata # table[t].metadata]_vars

\* The abstract lock, as this store keeps it.
Phases == [t \in Threads |-> IF t \in threads THEN "live"
                             ELSE IF t \in known THEN "gone" ELSE "unborn"]

BusyThreads == [t \in Threads |-> Busy(t)]

Bindings == [t \in Threads |-> table[t].assistant]

Holders == [t \in Threads |-> {w \in Workers : Holds(w, t)}]

Lock == INSTANCE RunLock WITH
    phase <- Phases, locked <- BusyThreads, bound <- Bindings, holders <- Holders

\* The in-memory store keeps the promise of the ThreadStore protocol: every
\* step is a step of the abstract lock, or leaves it alone.
LockIsKept == Lock!Spec

\* The inductive invariant.  A thread that was not given out yet is new, and no
\* handler knows it; a run keeps its thread bound also when it was deleted, and
\* is alone with it: while it has the lock, nobody can take it.
StoreInv ==
    /\ TypeOK
    /\ \A t \in Threads : t \notin known => table[t] = NewThread
    /\ \A w \in Workers : pc[w] # "free" => req[w].thread \in known
    /\ \A w \in Workers : pc[w] \in {"acquire", "running", "release"} =>
         req[w].assistant \in Assistants
    /\ \A w \in Workers, t \in Threads : Holds(w, t) =>
         /\ table[t].assistant = req[w].assistant
         /\ t \in threads => table[t].status = "busy"
         /\ \A v \in Workers : Holds(v, t) => v = w

=============================================================================
