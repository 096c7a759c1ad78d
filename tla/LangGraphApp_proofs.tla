------------------------- MODULE LangGraphApp_proofs -------------------------
(***************************************************************************)
(* Proofs about LangGraphApp, for any number of threads, handlers, callers *)
(* and graphs.  Every step of the app is a step of the thread store or     *)
(* leaves it alone, so what MemoryThreadStore_proofs shows of the store    *)
(* holds behind the app too; AppInv, inductive, says what the app adds.    *)
(***************************************************************************)
EXTENDS LangGraphApp, MemoryThreadStore_proofs

-----------------------------------------------------------------------------
(* The app composes with the store.                                        *)

LEMMA SetupLeavesStore ==
  ASSUME \/ \E a \in Assistants : Register(a)
         \/ SetStore \/ ReadFunctionApp \/ HostImports
         \/ \E c \in Callers :
              NativeBegins(c) \/ ThreadlessBegins(c) \/ UpdateBegins(c)
                \/ CallPuts(c) \/ CallEnds(c)
  PROVE  UNCHANGED vars /\ UNCHANGED sees
BY DEF Register, SetStore, ReadFunctionApp, HostImports, NativeBegins, ThreadlessBegins,
   UpdateBegins, CallBegins, CallPuts, CallEnds

LEMMA HandlerIsStoreStep ==
  ASSUME NEW w \in Workers, Handler(w)
  PROVE  [Next]_vars
BY DEF Handler, AppRunBegin, AppAcquire, AppGraphEnds, GraphReads, GraphPuts, Next

LEMMA AppStepIsStoreStep == [AppNext]_appVars => [Next]_vars
<1> SUFFICES ASSUME [AppNext]_appVars PROVE [Next]_vars
  OBVIOUS
<1>1. ASSUME NEW w \in Workers, Handler(w) PROVE [Next]_vars
  BY <1>1, HandlerIsStoreStep
<1>2. ASSUME ThreadRoutes \/ AppRestarts PROVE Next
  BY <1>2 DEF ThreadRoutes, AppRestarts, Next
<1>3. CASE UNCHANGED appVars
  BY <1>3 DEF appVars
<1>4. QED
  BY <1>1, <1>2, <1>3, SetupLeavesStore DEF AppNext

\* The app and its handlers are the store and its handlers with more around them.
THEOREM AppRunsTheStore == AppSpec => Spec
<1>1. AppInit => Init
  BY DEF AppInit
<1>2. QED
  BY <1>1, AppStepIsStoreStep, PTL DEF AppSpec, Spec

\* Behind the app, a run owns its thread while it executes.
THEOREM RunsOwnTheirThreadBehindTheApp == AppSpec => []RunOwnsThread
BY AppRunsTheStore, RunsOwnTheirThreadInMemory, PTL

\* Behind the app, the store implements the abstract lock.
THEOREM AppKeepsTheLock == AppSpec => LockIsKept
BY AppRunsTheStore, MemoryKeepsTheLock, PTL

\* Behind the app, only overlapping PATCHes lose metadata keys.
THEOREM AppLosesKeysByOverlapsOnly == AppSpec => OnlyOverlapsLoseKeys
BY AppRunsTheStore, KeysAreLostByOverlapsOnly, PTL

-----------------------------------------------------------------------------
(* What the store keeps: a thread that is bound stays bound to its graph.  *)

LEMMA BindingsStay ==
  ASSUME StoreInv, [Next]_vars, NEW t \in known, table[t].assistant \in Assistants
  PROVE  t \in known' /\ table'[t].assistant = table[t].assistant
<1> USE NoneAssumption
<1>1. t \in Threads
  BY DEF StoreInv, TypeOK
<1>2. ASSUME NEW w \in Workers, Acquire(w) PROVE table'[t].assistant = table[t].assistant
  <2>1. req[w].thread \in Threads /\ table[req[w].thread].assistant \in {None, req[w].assistant}
    BY <1>2 DEF Acquire, At, Refuses
  <2>2. CASE t = req[w].thread
    BY <1>1, <1>2, <2>1, <2>2 DEF StoreInv, TypeOK, Acquire, Thread
  <2>3. CASE t # req[w].thread
    BY <1>1, <1>2, <2>1, <2>3 DEF StoreInv, TypeOK, Acquire, Thread
  <2>4. QED
    BY <2>2, <2>3
<1>3. ASSUME NEW w \in Workers, Release(w) PROVE table'[t].assistant = table[t].assistant
  BY <1>1, <1>3 DEF StoreInv, TypeOK, Release, At, Thread
<1>4. ASSUME NEW w \in Workers, PatchWrite(w) PROVE table'[t].assistant = table[t].assistant
  BY <1>1, <1>4 DEF StoreInv, TypeOK, PatchWrite, Patched, At, Thread
<1>5. ASSUME NEW u \in Threads, ThreadCreate(u)
      PROVE  t \in known' /\ table'[t].assistant = table[t].assistant
  <2>1. u # t /\ known' = known \union {u} /\ table' = [table EXCEPT ![u] = NewThread]
    BY <1>5 DEF ThreadCreate
  <2>2. QED
    BY <1>1, <2>1 DEF StoreInv, TypeOK
<1>6. UNCHANGED known \/ \E u \in Threads : ThreadCreate(u)
  BY DEF Next, vars, RunBegin, PatchBegin, Begin, Acquire, AcquireRefused, RunRaises,
     GraphEnds, Release, ReleaseRaises, PatchWrite, PatchMissing, ThreadDelete, ProcessRestarts
<1>7. \/ UNCHANGED table
      \/ \E w \in Workers : Acquire(w) \/ Release(w) \/ PatchWrite(w)
      \/ \E u \in Threads : ThreadCreate(u)
  BY DEF Next, vars, RunBegin, PatchBegin, Begin, AcquireRefused, RunRaises,
     GraphEnds, ReleaseRaises, PatchMissing, ThreadDelete, ProcessRestarts
<1>8. QED
  BY <1>2, <1>3, <1>4, <1>5, <1>6, <1>7

-----------------------------------------------------------------------------
(* AppInv is inductive: one lemma per conjunct.                            *)

LEMMA InitAppInv == AppInit => AppInv
<1> SUFFICES ASSUME AppInit PROVE AppInv
  OBVIOUS
<1>1. StoreInv
  BY InitStoreInv DEF AppInit
<1>2. \A c \in Callers : call[c].kind = "none"
  BY DEF AppInit, Idle
<1>3. AppTypeOK
  BY <1>1 DEF StoreInv, AppInit, AppTypeOK, Stores, Ids, Bases, Calls
<1>4. \A w \in Workers : pc[w] = "free"
  BY DEF AppInit, Init
<1>5. AppIsCurrent
  BY DEF AppInit, AppIsCurrent
<1>6. \A w \in Workers : base[w] = "none"
  BY DEF AppInit
<1>7. QED
  BY <1>1, <1>2, <1>3, <1>4, <1>5, <1>6 DEF AppInv, HandlersKeepTheirStore, NoRunPassesARun

\* register() and the setter reset the cached app; whoever reads it builds it anew.
LEMMA SetupPreserves ==
  ASSUME AppInv, [AppNext]_appVars
  PROVE  /\ registered' \subseteq Assistants /\ store' \in Stores
         /\ cached' \in FunctionApps \union {NoApp} /\ host' \in FunctionApps \union {NoApp}
         /\ AppIsCurrent'
<1> USE DEF AppInv, AppTypeOK, AppIsCurrent
<1>1. FunctionApp \in FunctionApps \union {NoApp}
  BY DEF FunctionApp, FunctionApps
<1>2. ASSUME NEW a \in Assistants, Register(a)
      PROVE  cached' = NoApp /\ registered' = registered \union {a} /\ UNCHANGED <<store, host>>
  BY <1>2 DEF Register, Reset
<1>3. CASE SetStore
  BY <1>3 DEF SetStore, Reset, Stores
<1>4. CASE ReadFunctionApp \/ HostImports
  <2>1. cached' = FunctionApp /\ host' \in {host, FunctionApp} /\ UNCHANGED <<registered, store>>
    BY <1>4 DEF ReadFunctionApp, HostImports
  <2>2. cached' # NoApp => cached'.routes = registered /\ cached'.store = store
    BY <2>1 DEF FunctionApp
  <2>3. QED
    BY <1>1, <2>1, <2>2
<1>5. CASE AppRestarts
  BY <1>5 DEF AppRestarts, Stores
<1>6. CASE UNCHANGED setup
  BY <1>6 DEF setup
<1>7. UNCHANGED appVars => UNCHANGED setup
  BY DEF appVars
<1>8. QED
  BY <1>2, <1>3, <1>4, <1>5, <1>6, <1>7 DEF AppNext, Handler, ThreadRoutes, NativeBegins,
     ThreadlessBegins, UpdateBegins, CallBegins, CallPuts, CallEnds

\* Nothing is served before the app was imported, and it is imported once.
LEMMA ServingPreserves ==
  ASSUME AppInv, [AppNext]_appVars
  PROVE  HandlersKeepTheirStore'
<1> USE DEF AppInv, HandlersKeepTheirStore
<1>1. ASSUME NEW w \in Workers, Handler(w) PROVE HandlersKeepTheirStore'
  BY <1>1 DEF Handler, Serving, HandlersStore, setup
<1>2. CASE ThreadRoutes
  BY <1>2 DEF ThreadRoutes, Serving, HandlersStore, setup
<1>3. CASE HostImports
  <2>1. \A w \in Workers : pc[w] = "free"
    BY <1>3 DEF HostImports, Serving
  <2>2. QED
    BY <1>3, <2>1 DEF HostImports, vars
<1>4. CASE AppRestarts
  BY <1>4 DEF AppRestarts, ProcessRestarts
<1>5. CASE UNCHANGED <<pc, host>>
  BY <1>5 DEF Serving, HandlersStore
<1>6. UNCHANGED appVars => UNCHANGED <<pc, host>>
  BY DEF appVars, vars, setup
<1>7. QED
  BY <1>1, <1>2, <1>3, <1>4, <1>5, <1>6 DEF AppNext, Register, SetStore, ReadFunctionApp,
     NativeBegins, ThreadlessBegins, UpdateBegins, CallBegins, CallPuts, CallEnds, vars, setup

\* Only a step that acquires starts a graph, and it gives it the thread of its path.
LEMMA SeesPreserves ==
  ASSUME AppInv, [AppNext]_appVars
  PROVE  /\ sees' \in [Workers -> Ids]
         /\ \A w \in Workers : pc'[w] = "running" => sees'[w] = req'[w].thread
<1> USE DEF AppInv, AppTypeOK, Ids
<1>1. pc \in [Workers -> {"free", "acquire", "running", "release", "patch"}]
      /\ req \in [Workers -> Request] /\ sees \in [Workers -> Ids]
  BY DEF TypeOK
<1>2. ASSUME NEW w \in Workers, AppAcquire(w)
      PROVE  /\ sees' = [sees EXCEPT ![w] = req[w].thread] /\ req[w].thread \in Threads
             /\ UNCHANGED req /\ \A v \in Workers : v # w => pc'[v] = pc[v]
  BY <1>1, <1>2 DEF AppAcquire, Acquire, At, Goto, Configured
<1>3. ASSUME NEW w \in Workers, AppGraphEnds(w)
      PROVE  /\ sees' = [sees EXCEPT ![w] = None] /\ pc'[w] # "running"
             /\ \A v \in Workers : v # w => pc'[v] = pc[v] /\ req'[v] = req[v]
  BY <1>1, <1>3 DEF AppGraphEnds, RunRaises, GraphEnds, Goto, Leave
<1>4. ASSUME NEW w \in Workers,
             \/ RunBegin(w) \/ AcquireRefused(w) \/ Release(w) \/ ReleaseRaises(w)
             \/ PatchBegin(w) \/ PatchWrite(w) \/ PatchMissing(w)
             \/ GraphReads(w) \/ GraphPuts(w)
      PROVE  \A v \in Workers : pc'[v] = "running" => pc[v] = "running" /\ req'[v] = req[v]
  BY <1>1, <1>4 DEF RunBegin, PatchBegin, Begin, Goto, Leave, AcquireRefused, Release,
     ReleaseRaises, PatchWrite, PatchMissing, GraphReads, GraphPuts, vars
<1>5. ASSUME NEW w \in Workers, Handler(w)
      PROVE  /\ sees' \in [Workers -> Ids]
             /\ \A v \in Workers : pc'[v] = "running" => sees'[v] = req'[v].thread
  <2>1. CASE AppAcquire(w)
    BY <1>1, <1>2, <2>1
  <2>2. CASE AppGraphEnds(w)
    BY <1>1, <1>3, <2>2
  <2>3. CASE ~AppAcquire(w) /\ ~AppGraphEnds(w)
    BY <1>1, <1>4, <1>5, <2>3 DEF Handler, AppRunBegin, GraphReads, GraphPuts
  <2>4. QED
    BY <2>1, <2>2, <2>3
<1>6. CASE ThreadRoutes
  BY <1>1, <1>6 DEF ThreadRoutes, ThreadCreate, ThreadDelete
<1>7. CASE AppRestarts
  BY <1>7 DEF AppRestarts, ProcessRestarts
<1>8. CASE UNCHANGED vars /\ UNCHANGED sees
  BY <1>1, <1>8 DEF vars
<1>9. UNCHANGED appVars => UNCHANGED vars /\ UNCHANGED sees
  BY DEF appVars
<1>10. QED
  BY <1>5, <1>6, <1>7, <1>8, <1>9, SetupLeavesStore DEF AppNext

\* A run's checkpoint is put in the thread whose lock the run has, and so passes by
\* no other run.
LEMMA PutsPassNoRun ==
  ASSUME AppInv, NEW w \in Workers, GraphPuts(w), NEW v \in Workers, v # w
  PROVE  base'[v] = base[v]
<1>1. base'[v] = Passed(sees[w], "passed by a run")[v]
  BY DEF GraphPuts, Passed
<1>2. CASE base[v] = "none"
  BY <1>1, <1>2 DEF Passed
<1>3. CASE base[v] # "none"
  <2>1. pc[v] = "running" /\ pc[w] = "running"
    BY <1>3 DEF AppInv, GraphPuts
  <2>2. req[v].thread \in Threads \union {None} /\ req[w].thread \in known
    BY <2>1 DEF AppInv, StoreInv, TypeOK, Request
  <2>3. req[w].thread \in Threads
    BY <2>2 DEF AppInv, StoreInv, TypeOK
  <2>4. req[v].thread # req[w].thread
    BY <2>1, <2>3 DEF AppInv, StoreInv, Holds
  <2>5. sees[v] # sees[w]
    BY <2>1, <2>4 DEF AppInv
  <2>6. QED
    BY <1>1, <2>5 DEF Passed
<1>4. QED
  BY <1>2, <1>3

\* What a checkpoint that a call puts does to the runs.
LEMMA CallsPassRuns ==
  ASSUME AppInv, NEW c \in Callers, CallPuts(c), NEW v \in Workers
  PROVE  base'[v] \in {base[v], "passed by a call"} /\ (base[v] = "none" => base'[v] = "none")
BY DEF CallPuts, Passed

\* Only a running graph has a checkpoint to go on from.
LEMMA BasePreserves ==
  ASSUME AppInv, [AppNext]_appVars
  PROVE  /\ base' \in [Workers -> Bases]
         /\ \A w \in Workers : base'[w] # "none" => pc'[w] = "running"
         /\ NoRunPassesARun'
<1> DEFINE Good == \A v \in Workers : /\ base'[v] \in Bases
                                      /\ base'[v] # "none" => pc'[v] = "running"
                                      /\ base'[v] # "passed by a run"
<1> SUFFICES base' \in [Workers -> Bases] /\ Good
  BY DEF NoRunPassesARun
<1>1. /\ base \in [Workers -> Bases]
      /\ pc \in [Workers -> {"free", "acquire", "running", "release", "patch"}]
      /\ \A v \in Workers : /\ base[v] # "none" => pc[v] = "running"
                            /\ base[v] # "passed by a run"
  BY DEF AppInv, AppTypeOK, TypeOK, NoRunPassesARun
<1>2. ASSUME NEW w \in Workers, AppAcquire(w) PROVE UNCHANGED base /\ Good
  BY <1>1, <1>2 DEF AppAcquire, Acquire, Goto
<1>3. ASSUME NEW w \in Workers, AppGraphEnds(w)
      PROVE  base' \in [Workers -> Bases] /\ Good
  BY <1>1, <1>3 DEF AppGraphEnds, RunRaises, GraphEnds, Goto, Leave, Bases
<1>4. ASSUME NEW w \in Workers, GraphReads(w)
      PROVE  base' \in [Workers -> Bases] /\ Good
  BY <1>1, <1>4 DEF GraphReads, vars, Bases
<1>5. ASSUME NEW w \in Workers, GraphPuts(w)
      PROVE  base' \in [Workers -> Bases] /\ Good
  <2>1. base'[w] = "newest" /\ DOMAIN base' = Workers /\ UNCHANGED pc /\ pc[w] = "running"
    BY <1>5 DEF GraphPuts, Passed, vars
  <2>2. \A v \in Workers : v # w => base'[v] = base[v]
    BY <1>5, PutsPassNoRun
  <2>3. base' = [v \in Workers |-> base'[v]]
    BY <1>5 DEF GraphPuts, Passed
  <2>4. \A v \in Workers : base'[v] \in Bases
    BY <1>1, <2>1, <2>2 DEF Bases
  <2>5. Good
    BY <1>1, <2>1, <2>2, <2>4
  <2>6. QED
    BY <2>3, <2>4, <2>5
<1>6. ASSUME NEW w \in Workers,
             \/ RunBegin(w) \/ AcquireRefused(w) \/ Release(w) \/ ReleaseRaises(w)
             \/ PatchBegin(w) \/ PatchWrite(w) \/ PatchMissing(w),
             UNCHANGED base
      PROVE  Good
  BY <1>1, <1>6 DEF RunBegin, PatchBegin, Begin, Goto, Leave, AcquireRefused, Release,
     ReleaseRaises, PatchWrite, PatchMissing, At
<1>7. ASSUME NEW w \in Workers, Handler(w)
      PROVE  base' \in [Workers -> Bases] /\ Good
  BY <1>1, <1>2, <1>3, <1>4, <1>5, <1>6, <1>7 DEF Handler, AppRunBegin
<1>8. ASSUME NEW c \in Callers, CallPuts(c)
      PROVE  base' \in [Workers -> Bases] /\ Good
  <2>1. UNCHANGED pc /\ base' = [v \in Workers |-> base'[v]]
    BY <1>8 DEF CallPuts, Passed, vars
  <2>2. QED
    BY <1>1, <1>8, <2>1, CallsPassRuns DEF Bases
<1>9. CASE ThreadRoutes
  BY <1>1, <1>9 DEF ThreadRoutes, ThreadCreate, ThreadDelete
<1>10. CASE AppRestarts
  BY <1>10 DEF AppRestarts, ProcessRestarts, Bases
<1>11. CASE UNCHANGED <<pc, base>>
  BY <1>1, <1>11
<1>12. UNCHANGED appVars => UNCHANGED <<pc, base>>
  BY DEF appVars, vars
<1>13. QED
  BY <1>7, <1>8, <1>9, <1>10, <1>11, <1>12 DEF AppNext, Register, SetStore, ReadFunctionApp,
     HostImports, NativeBegins, ThreadlessBegins, UpdateBegins, CallBegins, CallEnds, vars

\* What is known of a request that takes no run lock.
CallIsSound(c) ==
    /\ call[c] \in Calls
    /\ call[c].kind = "update" =>
         call[c].thread \in known /\ table[call[c].thread].assistant = call[c].assistant

LEMMA IdleIsACall == Idle \in Calls /\ Idle.kind = "none"
BY DEF Idle, Calls

\* A request that begins is given what its handler checked, and nothing else changes.
LEMMA CallBeginsSound ==
  ASSUME AppInv, NEW c \in Callers, NativeBegins(c) \/ ThreadlessBegins(c) \/ UpdateBegins(c)
  PROVE  /\ call' \in [Callers -> Calls] /\ CallIsSound(c)'
         /\ \A d \in Callers : d # c => call'[d] = call[d]
<1> USE DEF AppInv, AppTypeOK
<1>1. host # NoApp => host.routes \subseteq Assistants
  BY DEF FunctionApps
<1>2. CASE NativeBegins(c)
  <2>1. PICK a \in Assistants, t \in Ids : CallBegins(c, "native", a, t, "shared")
    BY <1>1, <1>2 DEF NativeBegins
  <2>2. QED
    BY <2>1 DEF CallBegins, Calls, CallIsSound
<1>3. CASE ThreadlessBegins(c)
  <2>1. PICK a \in Assistants, graph \in {"shared", "clone"} :
          CallBegins(c, "threadless", a, None, graph)
    BY <1>3 DEF ThreadlessBegins, ThreadlessGraph
  <2>2. QED
    BY <2>1 DEF CallBegins, Calls, CallIsSound
<1>4. CASE UpdateBegins(c)
  <2>1. PICK t \in threads, a \in Assistants :
          a \in Updaters(t) /\ CallBegins(c, "update", a, t, "shared")
    BY <1>4 DEF UpdateBegins, Updaters
  <2>2. t \in known /\ t \in Threads /\ a \in Assistants /\ table[t].assistant = a
    BY <2>1 DEF TypeOK, Updaters
  <2>3. UNCHANGED <<known, table>>
    BY <2>1 DEF CallBegins, vars
  <2>4. call' = [call EXCEPT ![c] = [kind |-> "update", assistant |-> a, thread |-> t,
                                     graph |-> "shared"]]
    BY <2>1 DEF CallBegins
  <2>5. QED
    BY <2>2, <2>3, <2>4 DEF Calls, CallIsSound
<1>5. QED
  BY <1>2, <1>3, <1>4

LEMMA CallsPreserved ==
  ASSUME AppInv, [AppNext]_appVars
  PROVE  call' \in [Callers -> Calls] /\ \A c \in Callers : CallIsSound(c)'
<1>1. call \in [Callers -> Calls] /\ \A c \in Callers : CallIsSound(c)
  BY DEF AppInv, AppTypeOK, CallIsSound
<1>2. [Next]_vars
  BY AppStepIsStoreStep
<1>3. ASSUME NEW c \in Callers, call'[c] = call[c] PROVE CallIsSound(c)'
  <2>1. call[c].kind = "update" => call[c].assistant \in Assistants
    BY <1>1 DEF CallIsSound, Calls, Idle
  <2>2. QED
    BY <1>1, <1>2, <1>3, <2>1, BindingsStay DEF AppInv, CallIsSound
<1>4. ASSUME NEW c \in Callers, NativeBegins(c) \/ ThreadlessBegins(c) \/ UpdateBegins(c)
      PROVE  call' \in [Callers -> Calls] /\ \A d \in Callers : CallIsSound(d)'
  BY <1>3, <1>4, CallBeginsSound
<1>5. ASSUME NEW c \in Callers, CallEnds(c)
      PROVE  call' \in [Callers -> Calls] /\ \A d \in Callers : CallIsSound(d)'
  <2>1. call' = [call EXCEPT ![c] = Idle]
    BY <1>5 DEF CallEnds
  <2>2. CallIsSound(c)'
    BY <1>1, <2>1, IdleIsACall DEF CallIsSound
  <2>3. QED
    BY <1>1, <1>3, <2>1, <2>2, IdleIsACall
<1>6. CASE AppRestarts
  <2>1. call' = [c \in Callers |-> Idle]
    BY <1>6 DEF AppRestarts
  <2>2. QED
    BY <2>1, IdleIsACall DEF CallIsSound
<1>7. CASE UNCHANGED call
  BY <1>1, <1>3, <1>7
<1>8. UNCHANGED appVars => UNCHANGED call
  BY DEF appVars
<1>9. QED
  BY <1>4, <1>5, <1>6, <1>7, <1>8 DEF AppNext, Register, SetStore, ReadFunctionApp,
     HostImports, CallPuts, Handler, ThreadRoutes

LEMMA NextAppInv == AppInv /\ [AppNext]_appVars => AppInv'
<1> SUFFICES ASSUME AppInv, [AppNext]_appVars PROVE AppInv'
  OBVIOUS
<1>1. StoreInv'
  BY AppStepIsStoreStep, NextStoreInv DEF AppInv
<1>2. AppTypeOK'
  BY <1>1, SetupPreserves, SeesPreserves, BasePreserves, CallsPreserved DEF AppTypeOK, StoreInv
<1>3. QED
  BY <1>1, <1>2, SetupPreserves, ServingPreserves, SeesPreserves, BasePreserves, CallsPreserved
     DEF AppInv, CallIsSound

\* The inductive invariant of the app holds in every reachable state.
THEOREM AppInvHolds == AppSpec => []AppInv
BY InitAppInv, NextAppInv, PTL DEF AppSpec

\* Every variable of the app keeps its type.
THEOREM AppTypeCorrect == AppSpec => []AppTypeOK
<1>1. AppInv => AppTypeOK
  BY DEF AppInv
<1>2. QED
  BY <1>1, AppInvHolds, PTL

\* The cached FunctionApp has the routes of all registered graphs and the store set last.
THEOREM CachedAppIsCurrent == AppSpec => []AppIsCurrent
<1>1. AppInv => AppIsCurrent
  BY DEF AppInv
<1>2. QED
  BY <1>1, AppInvHolds, PTL

\* A handler uses one store from its get() to its release.
THEOREM HandlersUseOneStore == AppSpec => []HandlersKeepTheirStore
<1>1. AppInv => HandlersKeepTheirStore
  BY DEF AppInv
<1>2. QED
  BY <1>1, AppInvHolds, PTL

\* While a run executes, no other run puts a checkpoint in its thread.
THEOREM RunsPassNoRun == AppSpec => []NoRunPassesARun
<1>1. AppInv => NoRunPassesARun
  BY DEF AppInv
<1>2. QED
  BY <1>1, AppInvHolds, PTL

LEMMA AppInvOneGraph == AppInv => OneGraphPerThread
<1> SUFFICES ASSUME AppInv, NEW c \in Callers, call[c].kind = "update"
             PROVE  /\ table[call[c].thread].assistant = call[c].assistant
                    /\ \A w \in Workers : Holds(w, call[c].thread) =>
                         req[w].assistant = call[c].assistant
  BY DEF OneGraphPerThread
<1>1. call[c].thread \in Threads
  BY DEF AppInv, StoreInv, TypeOK
<1>2. QED
  BY <1>1 DEF AppInv, StoreInv

\* Runs and state updates of a thread are made with one graph.
THEOREM ThreadsHaveOneGraph == AppSpec => []OneGraphPerThread
BY AppInvOneGraph, AppInvHolds, PTL

=============================================================================
