---------------------------- MODULE LangGraphApp ----------------------------
(***************************************************************************)
(* LangGraphApp (app.py) in one worker process: graphs are registered, a   *)
(* thread store is set, and a FunctionApp with all routes is built once    *)
(* and cached; the host serves the one it imported.  Its platform routes   *)
(* share _registrations with the app, and have captured the store; the     *)
(* store they use is MemoryThreadStore, whose handlers run here on what    *)
(* the host serves, beside requests that take no run lock: native ones,    *)
(* runs without a thread, and state updates.                               *)
(***************************************************************************)
EXTENDS MemoryThreadStore

CONSTANTS
    Callers,        \* requests that take no run lock
    Checkpointed,   \* assistants whose graph has a checkpointer
    Elsewhere,      \* a thread id of a client that no store has given out
    NoApp           \* no FunctionApp

ASSUME AppAssumption ==
    /\ Checkpointed \subseteq Assistants
    /\ Elsewhere \notin Threads \union {None}

VARIABLES
    registered,     \* the names in _registrations
    store,          \* _thread_store: the one __post_init__ made, or one set later
    cached,         \* _function_app
    host,           \* the FunctionApp that the host imported
    sees,           \* worker -> the thread id in the config of the graph it runs
    base,           \* worker -> what became of the checkpoint its graph goes on from
    call            \* caller -> the request it executes

setup == <<registered, store, cached, host>>
appVars == <<vars, setup, sees, base, call>>

Stores == {"memory", "other"}
FunctionApps == [routes : SUBSET Assistants, store : Stores]
Ids == Threads \union {None}
Idle == [kind |-> "none", assistant |-> None, thread |-> None, graph |-> "shared"]
Calls ==
    {Idle}
    \union [kind : {"native"}, assistant : Assistants, thread : Ids, graph : {"shared"}]
    \union [kind : {"threadless"}, assistant : Assistants, thread : {None},
            graph : {"shared", "clone"}]
    \union [kind : {"update"}, assistant : Assistants, thread : Threads, graph : {"shared"}]

\* Not read yet, the newest of its thread, or older than what another graph put.
Bases == {"none", "newest", "passed by a call", "passed by a run"}

AppTypeOK ==
    /\ TypeOK
    /\ registered \subseteq Assistants /\ store \in Stores
    /\ cached \in FunctionApps \union {NoApp} /\ host \in FunctionApps \union {NoApp}
    /\ sees \in [Workers -> Ids] /\ base \in [Workers -> Bases]
    /\ call \in [Callers -> Calls]

\* __post_init__, with platform_compat.
AppInit ==
    /\ Init
    /\ registered = {} /\ store = "memory" /\ cached = NoApp /\ host = NoApp
    /\ sees = [w \in Workers |-> None] /\ base = [w \in Workers |-> "none"]
    /\ call = [c \in Callers |-> Idle]

-----------------------------------------------------------------------------
\* Setting up.

\* Faulty: the cached app is kept.
StillCached == cached

\* What register() and the setter leave of the cached app.
Reset == NoApp

\* A name that is already registered is refused.
Register(a) ==
    /\ a \notin registered
    /\ registered' = registered \union {a}
    /\ cached' = Reset
    /\ UNCHANGED <<vars, store, host, sees, base, call>>

SetStore ==
    /\ store = "memory"
    /\ store' = "other"
    /\ cached' = Reset
    /\ UNCHANGED <<vars, registered, host, sees, base, call>>

\* The function_app property: builds the routes of the graphs registered so far.
FunctionApp == IF cached = NoApp THEN [routes |-> registered, store |-> store] ELSE cached

ReadFunctionApp ==
    /\ cached' = FunctionApp
    /\ UNCHANGED <<vars, registered, store, host, sees, base, call>>

\* The host imports function_app.py and looks for its FunctionApp.
HostImports ==
    /\ host = NoApp
    /\ cached' = FunctionApp /\ host' = FunctionApp
    /\ UNCHANGED <<vars, registered, store, sees, base, call>>

-----------------------------------------------------------------------------
\* The platform routes that use the thread store.

\* Faulty: the handlers ask the app for its store at every call.
HandlersStoreNow == store

\* The store in PlatformRouteDeps.
HandlersStore == host.store

Serving == host # NoApp /\ HandlersStore = "memory"

\* Faulty: "configurable" of the request may name another thread.
ConfiguredByUser(path, user) == IF user = None THEN path ELSE user

\* configurable["thread_id"] after the request's configurable was merged in.
Configured(path, user) == path

AppRunBegin(w) ==
    /\ RunBegin(w)
    /\ req'[w].assistant \in registered
    /\ UNCHANGED <<sees, base>>

AppAcquire(w) ==
    /\ Acquire(w)
    /\ \E user \in Ids \union {Elsewhere} : sees' = [sees EXCEPT ![w] = Configured(req[w].thread, user)]
    /\ UNCHANGED base

AppGraphEnds(w) ==
    /\ RunRaises(w) \/ GraphEnds(w)
    /\ sees' = [sees EXCEPT ![w] = None] /\ base' = [base EXCEPT ![w] = "none"]

\* The graph loads the newest checkpoint of the thread in its config.
GraphReads(w) ==
    /\ pc[w] = "running" /\ base[w] = "none"
    /\ req[w].assistant \in Checkpointed
    /\ base' = [base EXCEPT ![w] = "newest"]
    /\ UNCHANGED <<vars, sees>>

\* A checkpoint is put in thread t, newer than what other graphs of t go on from.
Passed(t, by) ==
    [w \in Workers |-> IF sees[w] = t /\ base[w] # "none" THEN by ELSE base[w]]

\* The graph has done a step and goes on from its own checkpoint.
GraphPuts(w) ==
    /\ pc[w] = "running" /\ base[w] # "none"
    /\ base' = [Passed(sees[w], "passed by a run") EXCEPT ![w] = "newest"]
    /\ UNCHANGED <<vars, sees>>

Handler(w) ==
    /\ Serving
    /\ \/ AppRunBegin(w) \/ AppAcquire(w) \/ AppGraphEnds(w)
       \/ GraphReads(w) \/ GraphPuts(w)
       \/ /\ AcquireRefused(w) \/ Release(w) \/ ReleaseRaises(w)
             \/ PatchBegin(w) \/ PatchWrite(w) \/ PatchMissing(w)
          /\ UNCHANGED <<sees, base>>
    /\ UNCHANGED <<setup, call>>

ThreadRoutes ==
    /\ Serving
    /\ \E t \in Threads : ThreadCreate(t) \/ ThreadDelete(t)
    /\ UNCHANGED <<setup, sees, base, call>>

-----------------------------------------------------------------------------
\* Requests without a run lock.

CallBegins(c, kind, a, t, graph) ==
    /\ call[c] = Idle
    /\ call' = [call EXCEPT ![c] = [kind |-> kind, assistant |-> a, thread |-> t,
                                    graph |-> graph]]
    /\ UNCHANGED <<vars, setup, sees, base>>

\* The config of a native request is its client's, which may name a thread of the
\* platform (or none of them); the routes are the imported ones.
NativeBegins(c) ==
    /\ host # NoApp
    /\ \E a \in host.routes, t \in Ids : CallBegins(c, "native", a, t, "shared")

\* _get_threadless_graph: a clone without checkpointer, or the graph if it has none.
\* A graph that cannot be cloned is refused.
ThreadlessGraph(a) == IF a \in Checkpointed THEN {"clone"} ELSE {"shared"}

\* A thread_id in the config is refused.
ThreadlessBegins(c) ==
    /\ host # NoApp
    /\ \E a \in registered : \E graph \in ThreadlessGraph(a) :
          CallBegins(c, "threadless", a, None, graph)

\* Faulty: a thread that is not bound is updated with any graph.
UpdatersOrAny(t) == IF table[t].assistant = None THEN registered ELSE {table[t].assistant}

\* The graph a state update of a thread is made with: the one it is bound to.
Updaters(t) == registered \intersect {table[t].assistant}

UpdateBegins(c) ==
    /\ Serving
    /\ \E t \in threads : \E a \in Updaters(t) : CallBegins(c, "update", a, t, "shared")

\* graph.invoke, graph.stream or update_state puts a checkpoint, beside the runs.
CallPuts(c) ==
    /\ call[c].graph = "shared" /\ call[c].assistant \in Checkpointed
    /\ base' = Passed(call[c].thread, "passed by a call")
    /\ UNCHANGED <<vars, setup, sees, call>>

CallEnds(c) ==
    /\ call[c] # Idle
    /\ call' = [call EXCEPT ![c] = Idle]
    /\ UNCHANGED <<vars, setup, sees, base>>

\* The process restarts, and function_app.py is executed anew.
AppRestarts ==
    /\ ProcessRestarts
    /\ registered' = {} /\ store' = "memory" /\ cached' = NoApp /\ host' = NoApp
    /\ sees' = [w \in Workers |-> None] /\ base' = [w \in Workers |-> "none"]
    /\ call' = [c \in Callers |-> Idle]

-----------------------------------------------------------------------------

AppNext ==
    \/ \E a \in Assistants : Register(a)
    \/ SetStore \/ ReadFunctionApp \/ HostImports
    \/ \E w \in Workers : Handler(w)
    \/ ThreadRoutes
    \/ \E c \in Callers :
         NativeBegins(c) \/ ThreadlessBegins(c) \/ UpdateBegins(c)
           \/ CallPuts(c) \/ CallEnds(c)
    \/ AppRestarts

AppSpec == AppInit /\ [][AppNext]_appVars

-----------------------------------------------------------------------------

\* Whoever reads function_app is given the routes of all graphs registered by then,
\* and the store set last (register, thread_store, function_app).
AppIsCurrent ==
    cached # NoApp => cached.routes = registered /\ cached.store = store

\* A handler uses one store from its get() to its release, whatever is set meanwhile
\* (PlatformRouteDeps): a run is never released in another store than it was locked in.
HandlersKeepTheirStore == \A w \in Workers : pc[w] # "free" => Serving

\* A platform run loses nothing to another one: from the checkpoint its graph goes on
\* from, only requests without a lock (state updates, native requests) put others in
\* its thread until it ends, whatever is deleted meanwhile and whatever thread a
\* request's config names (runs_wait, runs_stream).  Those it may pass over.
NoRunPassesARun == \A w \in Workers : base[w] # "passed by a run"

\* All that the platform routes write to a thread, by runs and by state updates that
\* take no lock, is written by one graph: a state update that read the binding
\* before a run, or before the thread was deleted, still agrees with it.
OneGraphPerThread ==
    \A c \in Callers : call[c].kind = "update" =>
       /\ table[call[c].thread].assistant = call[c].assistant
       /\ \A w \in Workers : Holds(w, call[c].thread) => req[w].assistant = call[c].assistant

\* The inductive invariant: the graph of a run sees the thread whose lock the run
\* has, and a state update names a thread that was given out, bound to its graph.
AppInv ==
    /\ AppTypeOK /\ StoreInv
    /\ AppIsCurrent /\ HandlersKeepTheirStore /\ NoRunPassesARun
    /\ \A w \in Workers : pc[w] = "running" => sees[w] = req[w].thread
    /\ \A w \in Workers : base[w] # "none" => pc[w] = "running"
    /\ \A c \in Callers : call[c].kind = "update" =>
         /\ call[c].thread \in known
         /\ table[call[c].thread].assistant = call[c].assistant

=============================================================================
