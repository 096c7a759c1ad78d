----------------------- MODULE MemoryThreadStore_proofs -----------------------
(***************************************************************************)
(* Proofs about MemoryThreadStore, for any number of threads, handlers,    *)
(* assistants and metadata keys.  StoreInv is inductive; the refinement of *)
(* RunLock and the properties of the store follow from it step by step.    *)
(***************************************************************************)
EXTENDS MemoryThreadStore, TLAPS

-----------------------------------------------------------------------------
(* StoreInv is inductive: one lemma per method.                            *)

LEMMA InitStoreInv == Init => StoreInv
<1> SUFFICES ASSUME Init PROVE StoreInv
  OBVIOUS
<1>1. TypeOK
  BY DEF Init, TypeOK, Thread, NewThread, Request, NoRequest
<1>2. QED
  BY <1>1 DEF Init, StoreInv, Holds

\* What a handler that ends leaves of the others.
LEMMA LeavePreserves ==
  ASSUME StoreInv, NEW w \in Workers, Leave(w), UNCHANGED <<known, threads, table>>
  PROVE  StoreInv'
<1>1. TypeOK'
  BY DEF StoreInv, TypeOK, Leave, Request, NoRequest, NewThread, Thread
<1>2. \A v \in Workers : pc'[v] # "free" => v # w /\ pc'[v] = pc[v] /\ req'[v] = req[v]
  BY DEF StoreInv, TypeOK, Leave
<1>3. \A v \in Workers, t \in Threads : Holds(v, t)' => Holds(v, t) /\ req'[v] = req[v]
  BY <1>2 DEF Holds
<1>4. QED
  BY <1>1, <1>2, <1>3 DEF StoreInv

LEMMA BeginPreserves ==
  ASSUME StoreInv, NEW w \in Workers, RunBegin(w) \/ PatchBegin(w)
  PROVE  StoreInv'
<1>1. PICK t \in Threads, a \in Assistants \union {None}, keys \in SUBSET Keys,
           step \in {"acquire", "patch"} :
             Begin(w, t, a, keys, step) /\ (step = "acquire" => a \in Assistants)
  BY DEF RunBegin, PatchBegin
<1>2. TypeOK'
  <2>1. req' \in [Workers -> Request]
    BY <1>1 DEF StoreInv, TypeOK, Begin, Request
  <2>2. pc' \in [Workers -> {"free", "acquire", "running", "release", "patch"}]
    BY <1>1 DEF StoreInv, TypeOK, Begin, Goto
  <2>3. QED
    BY <1>1, <2>1, <2>2 DEF StoreInv, TypeOK, Begin
<1>3. req'[w].thread \in known /\ (step = "acquire" => req'[w].assistant \in Assistants)
  BY <1>1 DEF StoreInv, TypeOK, Begin
<1>4. \A v \in Workers : v # w => pc'[v] = pc[v] /\ req'[v] = req[v]
  BY <1>1 DEF StoreInv, TypeOK, Begin, Goto
<1>5. pc'[w] = step
  BY <1>1 DEF StoreInv, TypeOK, Begin, Goto
<1>6. \A v \in Workers, u \in Threads : Holds(v, u)' => Holds(v, u) /\ req'[v] = req[v]
  BY <1>1, <1>4, <1>5 DEF Holds
<1>7. UNCHANGED <<known, threads, table>>
  BY <1>1 DEF Begin
<1>8. QED
  BY <1>2, <1>3, <1>4, <1>5, <1>6, <1>7 DEF StoreInv

LEMMA AcquirePreserves ==
  ASSUME StoreInv, NEW w \in Workers, Acquire(w)
  PROVE  StoreInv'
<1> DEFINE t == req[w].thread
<1>1. t \in Threads /\ t \in threads /\ t \in known /\ req[w].assistant \in Assistants
  BY DEF StoreInv, TypeOK, Acquire, At, Found
<1>2. UNCHANGED <<known, threads, req>>
  BY DEF Acquire
<1>3. table' = [table EXCEPT ![t] = [@ EXCEPT !.status = "busy", !.assistant = req[w].assistant]]
  BY <1>1 DEF StoreInv, TypeOK, Acquire, Thread
<1>4. TypeOK'
  <2>1. table' \in [Threads -> Thread]
    <3>1. table \in [Threads -> Thread]
      BY DEF StoreInv, TypeOK
    <3>2. table[t] \in Thread
      BY <1>1, <3>1
    <3>3. [table[t] EXCEPT !.status = "busy", !.assistant = req[w].assistant] \in Thread
      BY <1>1, <3>2 DEF Thread
    <3>4. QED
      BY <1>3, <3>1, <3>3
  <2>2. pc' \in [Workers -> {"free", "acquire", "running", "release", "patch"}]
    BY DEF StoreInv, TypeOK, Acquire, Goto
  <2>3. QED
    BY <1>2, <2>1, <2>2 DEF StoreInv, TypeOK
<1>5. table'[t].status = "busy" /\ table'[t].assistant = req[w].assistant
  BY <1>1, <1>3 DEF StoreInv, TypeOK, Thread
<1>6. \A u \in Threads : u # t => table'[u] = table[u]
  BY <1>3 DEF StoreInv, TypeOK
<1>7. \A v \in Workers : pc'[v] = IF v = w THEN "running" ELSE pc[v]
  BY DEF StoreInv, TypeOK, Acquire, Goto
<1>8. \A v \in Workers : ~Holds(v, t)
  BY <1>1 DEF StoreInv, Acquire, Refuses
<1>9. \A v \in Workers, u \in Threads : Holds(v, u)' => (v = w /\ u = t) \/ (v # w /\ u # t /\ Holds(v, u))
  BY <1>2, <1>7, <1>8 DEF Holds
<1>10. \A v \in Workers, u \in Threads : Holds(v, u)' =>
         /\ table'[u].assistant = req'[v].assistant
         /\ u \in threads' => table'[u].status = "busy"
         /\ \A x \in Workers : Holds(x, u)' => x = v
  BY <1>2, <1>5, <1>6, <1>9 DEF StoreInv
<1>11. \A u \in Threads : u \notin known' => table'[u] = NewThread
  BY <1>1, <1>2, <1>6 DEF StoreInv
<1>12. \A v \in Workers :
         /\ pc'[v] # "free" => req'[v].thread \in known'
         /\ pc'[v] \in {"acquire", "running", "release"} => req'[v].assistant \in Assistants
  BY <1>1, <1>2, <1>7 DEF StoreInv
<1>13. QED
  BY <1>4, <1>10, <1>11, <1>12 DEF StoreInv

LEMMA GraphEndsPreserves ==
  ASSUME StoreInv, NEW w \in Workers, GraphEnds(w)
  PROVE  StoreInv'
<1>1. PICK outcome \in {"idle", "error"} : req' = [req EXCEPT ![w].outcome = outcome]
  BY DEF GraphEnds
<1>2. UNCHANGED <<known, threads, table>>
  BY DEF GraphEnds
<1>3. \A v \in Workers : req'[v].thread = req[v].thread /\ req'[v].assistant = req[v].assistant
  BY <1>1 DEF StoreInv, TypeOK, Request
<1>4. \A v \in Workers : pc'[v] = IF v = w THEN "release" ELSE pc[v]
  BY DEF StoreInv, TypeOK, GraphEnds, Goto
<1>5. pc[w] = "running"
  BY DEF GraphEnds, At
<1>6. TypeOK'
  <2>1. req' \in [Workers -> Request]
    BY <1>1 DEF StoreInv, TypeOK, Request
  <2>2. pc' \in [Workers -> {"free", "acquire", "running", "release", "patch"}]
    BY DEF StoreInv, TypeOK, GraphEnds, Goto
  <2>3. QED
    BY <1>2, <2>1, <2>2 DEF StoreInv, TypeOK
<1>7. \A v \in Workers, t \in Threads : Holds(v, t)' <=> Holds(v, t)
  BY <1>3, <1>4, <1>5 DEF Holds
<1>8. QED
  BY <1>2, <1>3, <1>4, <1>5, <1>6, <1>7 DEF StoreInv

LEMMA ReleasePreserves ==
  ASSUME StoreInv, NEW w \in Workers, Release(w)
  PROVE  StoreInv'
<1> DEFINE t == req[w].thread
<1>1. t \in Threads /\ t \in known /\ Holds(w, t) /\ req[w].outcome \in {"idle", "error"}
  BY DEF StoreInv, TypeOK, Release, At, Holds, Request
<1>2. UNCHANGED <<known, threads>>
  BY DEF Release
<1>3. TypeOK'
  <2>1. table' \in [Threads -> Thread]
    BY <1>1 DEF StoreInv, TypeOK, Release, Thread
  <2>2. pc' \in [Workers -> {"free", "acquire", "running", "release", "patch"}]
    BY DEF StoreInv, TypeOK, Release, Leave
  <2>3. req' \in [Workers -> Request]
    BY DEF StoreInv, TypeOK, Release, Leave, Request, NoRequest, NewThread, Thread
  <2>4. QED
    BY <1>2, <2>1, <2>2, <2>3 DEF StoreInv, TypeOK
<1>4. \A u \in Threads : table'[u].assistant = table[u].assistant /\ (u # t => table'[u] = table[u])
  BY <1>1 DEF StoreInv, TypeOK, Release, Thread
<1>5. \A v \in Workers : pc'[v] # "free" => v # w /\ pc'[v] = pc[v] /\ req'[v] = req[v]
  BY DEF StoreInv, TypeOK, Release, Leave
<1>6. \A v \in Workers, u \in Threads :
        Holds(v, u)' => v # w /\ u # t /\ Holds(v, u) /\ req'[v] = req[v]
  BY <1>1, <1>5 DEF StoreInv, Holds
<1>7. QED
  BY <1>1, <1>2, <1>3, <1>4, <1>5, <1>6 DEF StoreInv

LEMMA PatchPreserves ==
  ASSUME StoreInv, NEW w \in Workers, PatchWrite(w)
  PROVE  StoreInv'
<1> DEFINE t == req[w].thread
<1>1. t \in Threads /\ t \in known /\ req[w].keys \subseteq Keys /\ req[w].seen \in Thread
  BY DEF StoreInv, TypeOK, PatchWrite, At, Request
<1>2. UNCHANGED <<known, threads>>
  BY DEF PatchWrite
<1>3. req[w].seen.metadata \subseteq Keys
  BY <1>1 DEF Thread
<1>4. Patched(w) \in Thread
  BY <1>1, <1>3 DEF StoreInv, TypeOK, Patched, Thread
<1>5. TypeOK'
  <2>1. table' \in [Threads -> Thread]
    BY <1>4 DEF StoreInv, TypeOK, PatchWrite
  <2>2. pc' \in [Workers -> {"free", "acquire", "running", "release", "patch"}]
    BY DEF StoreInv, TypeOK, PatchWrite, Leave
  <2>3. req' \in [Workers -> Request]
    BY DEF StoreInv, TypeOK, PatchWrite, Leave, Request, NoRequest, NewThread, Thread
  <2>4. QED
    BY <1>2, <2>1, <2>2, <2>3 DEF StoreInv, TypeOK
<1>6. \A u \in Threads : /\ table'[u].assistant = table[u].assistant
                         /\ table'[u].status = table[u].status
                         /\ u # t => table'[u] = table[u]
  BY <1>1 DEF StoreInv, TypeOK, PatchWrite, Patched, Thread
<1>7. \A v \in Workers : pc'[v] # "free" => v # w /\ pc'[v] = pc[v] /\ req'[v] = req[v]
  BY DEF StoreInv, TypeOK, PatchWrite, Leave
<1>8. \A v \in Workers, u \in Threads : Holds(v, u)' => Holds(v, u) /\ req'[v] = req[v]
  BY <1>7 DEF Holds
<1>9. QED
  BY <1>1, <1>2, <1>5, <1>6, <1>7, <1>8 DEF StoreInv

LEMMA ThreadCreatePreserves ==
  ASSUME StoreInv, NEW t \in Threads, ThreadCreate(t)
  PROVE  StoreInv'
<1>1. TypeOK'
  BY DEF StoreInv, TypeOK, ThreadCreate, Thread, NewThread
<1>2. UNCHANGED <<pc, req>> /\ known' = known \union {t} /\ threads' = threads \union {t}
  BY DEF ThreadCreate
<1>3. \A u \in Threads : u # t => table'[u] = table[u]
  BY DEF StoreInv, TypeOK, ThreadCreate
<1>4. \A v \in Workers : ~Holds(v, t)
  BY DEF StoreInv, ThreadCreate, Holds
<1>5. \A v \in Workers, u \in Threads : Holds(v, u)' => Holds(v, u) /\ u # t
  BY <1>2, <1>4 DEF Holds
<1>6. QED
  BY <1>1, <1>2, <1>3, <1>5 DEF StoreInv

LEMMA ThreadDeletePreserves ==
  ASSUME StoreInv, NEW t \in Threads, ThreadDelete(t)
  PROVE  StoreInv'
<1>1. UNCHANGED <<known, table, pc, req>> /\ threads' \subseteq threads
  BY DEF ThreadDelete
<1>2. TypeOK'
  BY <1>1 DEF StoreInv, TypeOK
<1>3. \A v \in Workers, u \in Threads : Holds(v, u)' <=> Holds(v, u)
  BY <1>1 DEF Holds
<1>4. QED
  BY <1>1, <1>2, <1>3 DEF StoreInv

LEMMA RestartPreserves ==
  ASSUME StoreInv, ProcessRestarts
  PROVE  StoreInv'
<1>1. TypeOK'
  BY DEF StoreInv, TypeOK, ProcessRestarts, Request, NoRequest, NewThread, Thread
<1>2. \A v \in Workers : pc'[v] = "free"
  BY DEF ProcessRestarts
<1>3. UNCHANGED <<known, table>>
  BY DEF ProcessRestarts
<1>4. QED
  BY <1>1, <1>2, <1>3 DEF StoreInv, Holds

LEMMA NextStoreInv == StoreInv /\ [Next]_vars => StoreInv'
<1> SUFFICES ASSUME StoreInv, [Next]_vars PROVE StoreInv'
  OBVIOUS
<1>1. ASSUME NEW w \in Workers, RunBegin(w) \/ PatchBegin(w) PROVE StoreInv'
  BY <1>1, BeginPreserves
<1>2. ASSUME NEW w \in Workers, Acquire(w) PROVE StoreInv'
  BY <1>2, AcquirePreserves
<1>3. ASSUME NEW w \in Workers,
             AcquireRefused(w) \/ RunRaises(w) \/ ReleaseRaises(w) \/ PatchMissing(w)
      PROVE  StoreInv'
  BY <1>3, LeavePreserves DEF AcquireRefused, RunRaises, ReleaseRaises, PatchMissing
<1>4. ASSUME NEW w \in Workers, GraphEnds(w) PROVE StoreInv'
  BY <1>4, GraphEndsPreserves
<1>5. ASSUME NEW w \in Workers, Release(w) PROVE StoreInv'
  BY <1>5, ReleasePreserves
<1>6. ASSUME NEW w \in Workers, PatchWrite(w) PROVE StoreInv'
  BY <1>6, PatchPreserves
<1>7. ASSUME NEW t \in Threads, ThreadCreate(t) \/ ThreadDelete(t) PROVE StoreInv'
  BY <1>7, ThreadCreatePreserves, ThreadDeletePreserves
<1>8. CASE ProcessRestarts
  BY <1>8, RestartPreserves
<1>9. CASE UNCHANGED vars
  BY <1>9 DEF vars, StoreInv, TypeOK, Holds
<1>10. QED
  BY <1>1, <1>2, <1>3, <1>4, <1>5, <1>6, <1>7, <1>8, <1>9 DEF Next

\* The inductive invariant of the in-memory store holds in every reachable state.
THEOREM StoreInvHolds == Spec => []StoreInv
BY InitStoreInv, NextStoreInv, PTL DEF Spec

\* Every variable keeps its type; ids that are in the store were given out.
THEOREM StoreTypeCorrect == Spec => []TypeOK
<1>1. StoreInv => TypeOK
  BY DEF StoreInv
<1>2. QED
  BY <1>1, StoreInvHolds, PTL

LEMMA StoreInvOwns == StoreInv => RunOwnsThread
BY DEF StoreInv, RunOwnsThread, Busy

\* While a run executes, its thread is busy and its own, and no other run of the
\* thread executes.
THEOREM RunsOwnTheirThreadInMemory == Spec => []RunOwnsThread
BY StoreInvOwns, StoreInvHolds, PTL

-----------------------------------------------------------------------------
(* The refinement: every step of the store is a step of the abstract lock, *)
(* or leaves it alone.                                                     *)

\* A handler that stops where it has no lock, or starts.
LEMMA SameHolders ==
  ASSUME UNCHANGED <<known, threads, table>>,
         \A w \in Workers, t \in Threads : Holds(w, t)' <=> Holds(w, t)
  PROVE  UNCHANGED Lock!vars
<1>1. Phases' = Phases /\ BusyThreads' = BusyThreads /\ Bindings' = Bindings
  BY DEF Phases, BusyThreads, Bindings, Busy
<1>2. Holders' = Holders
  <2>1. \A t \in Threads : {w \in Workers : Holds(w, t)'} = {w \in Workers : Holds(w, t)}
    OBVIOUS
  <2>2. QED
    BY <2>1 DEF Holders
<1>3. QED
  BY <1>1, <1>2 DEF Lock!vars

LEMMA BeginStutters ==
  ASSUME StoreInv, NEW w \in Workers, RunBegin(w) \/ PatchBegin(w)
  PROVE  UNCHANGED Lock!vars
<1>1. pc[w] = "free" /\ pc'[w] \in {"acquire", "patch"} /\ UNCHANGED <<known, threads, table>>
  BY DEF StoreInv, TypeOK, RunBegin, PatchBegin, Begin, Goto
<1>2. \A v \in Workers : v # w => pc'[v] = pc[v] /\ req'[v] = req[v]
  BY DEF StoreInv, TypeOK, RunBegin, PatchBegin, Begin, Goto
<1>3. QED
  BY <1>1, <1>2, SameHolders DEF Holds

\* A handler that ends without a lock.
LEMMA LeaveStutters ==
  ASSUME StoreInv, NEW w \in Workers, Leave(w), UNCHANGED <<known, threads, table>>,
         pc[w] \notin {"running", "release"}
  PROVE  UNCHANGED Lock!vars
<1>1. \A v \in Workers : v # w => pc'[v] = pc[v] /\ req'[v] = req[v]
  BY DEF StoreInv, TypeOK, Leave
<1>2. pc'[w] = "free"
  BY DEF StoreInv, TypeOK, Leave
<1>3. QED
  BY <1>1, <1>2, SameHolders DEF Holds

LEMMA GraphEndsStutters ==
  ASSUME StoreInv, NEW w \in Workers, GraphEnds(w)
  PROVE  UNCHANGED Lock!vars
<1>1. \A v \in Workers : req'[v].thread = req[v].thread
  BY DEF StoreInv, TypeOK, GraphEnds, Request
<1>2. pc[w] = "running" /\ \A v \in Workers : pc'[v] = IF v = w THEN "release" ELSE pc[v]
  BY DEF StoreInv, TypeOK, GraphEnds, Goto, At
<1>3. UNCHANGED <<known, threads, table>>
  BY DEF GraphEnds
<1>4. QED
  BY <1>1, <1>2, <1>3, SameHolders DEF Holds

LEMMA PatchStutters ==
  ASSUME StoreInv, NEW w \in Workers, PatchWrite(w)
  PROVE  UNCHANGED Lock!vars
<1>1. UNCHANGED <<known, threads>>
  BY DEF PatchWrite
<1>2. \A t \in Threads : table'[t].assistant = table[t].assistant /\ table'[t].status = table[t].status
  BY DEF StoreInv, TypeOK, PatchWrite, Patched, Thread
<1>3. Phases' = Phases /\ BusyThreads' = BusyThreads /\ Bindings' = Bindings
  BY <1>1, <1>2 DEF Phases, BusyThreads, Bindings, Busy
<1>4. pc[w] = "patch" /\ pc'[w] = "free"
  BY DEF StoreInv, TypeOK, PatchWrite, Leave, At
<1>5. \A v \in Workers : v # w => pc'[v] = pc[v] /\ req'[v] = req[v]
  BY DEF StoreInv, TypeOK, PatchWrite, Leave
<1>6. \A v \in Workers, t \in Threads : Holds(v, t)' <=> Holds(v, t)
  BY <1>4, <1>5 DEF Holds
<1>7. \A t \in Threads : {v \in Workers : Holds(v, t)'} = {v \in Workers : Holds(v, t)}
  BY <1>6
<1>8. QED
  BY <1>3, <1>7 DEF Lock!vars, Holders

LEMMA AcquireRefines ==
  ASSUME StoreInv, NEW w \in Workers, Acquire(w)
  PROVE  Lock!Next
<1> DEFINE t == req[w].thread
           a == req[w].assistant
<1>1. t \in Threads /\ t \in threads /\ ~Refuses(w) /\ a \in Assistants
  BY DEF StoreInv, Acquire, At, Found
<1>2. UNCHANGED <<known, threads, req>>
  BY DEF Acquire
<1>3. /\ table'[t].status = "busy" /\ table'[t].assistant = a
      /\ \A u \in Threads : u # t => table'[u] = table[u]
  BY <1>1 DEF StoreInv, TypeOK, Acquire, Thread
<1>4. \A v \in Workers : pc'[v] = IF v = w THEN "running" ELSE pc[v]
  BY DEF StoreInv, TypeOK, Acquire, Goto
<1>5. pc[w] = "acquire" /\ \A v \in Workers : ~Holds(v, t)
  BY <1>1 DEF StoreInv, Acquire, Refuses, At
<1>6. Phases' = Phases /\ Phases[t] = "live"
  BY <1>1, <1>2 DEF Phases
<1>7. ~BusyThreads[t] /\ BusyThreads' = [BusyThreads EXCEPT ![t] = TRUE]
  BY <1>1, <1>2, <1>3 DEF BusyThreads, Busy, Refuses
<1>8. Bindings[t] \in {None, a} /\ Bindings' = [Bindings EXCEPT ![t] = a]
  BY <1>1, <1>3 DEF Bindings, Refuses
<1>9. Holders[t] = {} /\ Holders' = [Holders EXCEPT ![t] = {w}]
  <2>1. \A u \in Threads : {v \in Workers : Holds(v, u)'} =
                              IF u = t THEN {w} ELSE {v \in Workers : Holds(v, u)}
    BY <1>1, <1>2, <1>4, <1>5 DEF Holds
  <2>2. QED
    BY <1>1, <1>5, <2>1 DEF Holders
<1>10. QED
  BY <1>1, <1>6, <1>7, <1>8, <1>9 DEF Lock!Next, Lock!Acquire, Lock!Lockable

\* A handler that ends and leaves its lock as it is.
LEMMA AbandonRefines ==
  ASSUME StoreInv, NEW w \in Workers, Leave(w), UNCHANGED <<known, threads, table>>,
         pc[w] \in {"running", "release"}, req[w].thread \in Threads
  PROVE  Lock!Next
<1> DEFINE t == req[w].thread
<1>1. Phases' = Phases /\ BusyThreads' = BusyThreads /\ Bindings' = Bindings
  BY DEF Phases, BusyThreads, Bindings, Busy
<1>2. Holds(w, t)
  BY DEF Holds
<1>3. \A v \in Workers : v # w => pc'[v] = pc[v] /\ req'[v] = req[v]
  BY DEF StoreInv, TypeOK, Leave
<1>4. pc'[w] = "free"
  BY DEF StoreInv, TypeOK, Leave
<1>5. \A v \in Workers, u \in Threads : Holds(v, u)' <=> Holds(v, u) /\ v # w
  BY <1>3, <1>4 DEF Holds
<1>6. \A u \in Threads : u # t => ~Holds(w, u)
  BY DEF Holds
<1>7. \A u \in Threads : {v \in Workers : Holds(v, u)'} =
                            {v \in Workers : Holds(v, u)} \ (IF u = t THEN {w} ELSE {})
  BY <1>5, <1>6
<1>8. w \in Holders[t] /\ Holders' = [Holders EXCEPT ![t] = @ \ {w}]
  <2>1. w \in Holders[t]
    BY <1>2 DEF Holders
  <2>2. Holders' = [u \in Threads |-> Holders[u] \ (IF u = t THEN {w} ELSE {})]
    BY <1>7 DEF Holders
  <2>3. Holders = [u \in Threads |-> Holders[u]]
    BY DEF Holders
  <2> HIDE DEF t
  <2>4. QED
    BY <2>1, <2>2, <2>3
<1>9. QED
  BY <1>1, <1>8 DEF Lock!Next, Lock!Abandon

LEMMA ReleaseRefines ==
  ASSUME StoreInv, NEW w \in Workers, Release(w)
  PROVE  Lock!Next
<1> DEFINE t == req[w].thread
<1>1. t \in Threads /\ pc[w] = "release" /\ Leave(w) /\ UNCHANGED <<known, threads>>
  BY DEF Release, At
<1>2. CASE ~Found(w)
  BY <1>1, <1>2, AbandonRefines DEF Release
<1>3. CASE Found(w)
  <2>1. t \in threads /\ Holds(w, t) /\ req[w].outcome \in {"idle", "error"}
    BY <1>1, <1>3 DEF StoreInv, TypeOK, Found, Holds, Request
  <2>2. /\ table'[t].status = req[w].outcome /\ table'[t].assistant = table[t].assistant
        /\ \A u \in Threads : u # t => table'[u] = table[u]
    BY <1>1, <1>3 DEF StoreInv, TypeOK, Release, Thread
  <2>3. Phases' = Phases /\ Phases[t] = "live"
    BY <1>1, <2>1 DEF Phases
  <2>4. BusyThreads' = [BusyThreads EXCEPT ![t] = FALSE]
    BY <1>1, <2>1, <2>2 DEF BusyThreads, Busy
  <2>5. Bindings' = Bindings
    BY <2>2 DEF Bindings
  <2>6. \A v \in Workers : v # w => pc'[v] = pc[v] /\ req'[v] = req[v]
    BY <1>1 DEF StoreInv, TypeOK, Leave
  <2>7. pc'[w] = "free"
    BY <1>1 DEF StoreInv, TypeOK, Leave
  <2>8. \A v \in Workers, u \in Threads : Holds(v, u)' <=> Holds(v, u) /\ v # w
    BY <2>6, <2>7 DEF Holds
  <2>9. \A u \in Threads : {v \in Workers : Holds(v, u)'} =
                              {v \in Workers : Holds(v, u)} \ (IF u = t THEN {w} ELSE {})
    BY <2>8 DEF Holds
  <2>10. w \in Holders[t] /\ Holders' = [Holders EXCEPT ![t] = @ \ {w}]
    <3>1. w \in Holders[t]
      BY <1>1, <2>1 DEF Holders
    <3>2. Holders' = [u \in Threads |-> Holders[u] \ (IF u = t THEN {w} ELSE {})]
      BY <2>9 DEF Holders
    <3>3. Holders = [u \in Threads |-> Holders[u]]
      BY DEF Holders
    <3> HIDE DEF t
    <3>4. QED
      BY <3>1, <3>2, <3>3
  <2>11. QED
    BY <1>1, <2>3, <2>4, <2>5, <2>10 DEF Lock!Next, Lock!Release
<1>4. QED
  BY <1>2, <1>3

LEMMA ThreadCreateRefines ==
  ASSUME StoreInv, NEW t \in Threads, ThreadCreate(t)
  PROVE  Lock!Next
<1>1. t \notin known /\ t \notin threads /\ table[t] = NewThread
  BY DEF StoreInv, TypeOK, ThreadCreate
<1>2. known' = known \union {t} /\ threads' = threads \union {t} /\ UNCHANGED <<pc, req>>
  BY DEF ThreadCreate
<1>3. table' = table
  BY <1>1 DEF StoreInv, TypeOK, ThreadCreate
<1>4. Phases[t] = "unborn" /\ Phases' = [Phases EXCEPT ![t] = "live"]
  BY <1>1, <1>2 DEF Phases
<1>5. BusyThreads' = BusyThreads
  BY <1>1, <1>2, <1>3 DEF BusyThreads, Busy, NewThread
<1>6. Bindings' = Bindings /\ Holders' = Holders
  BY <1>2, <1>3 DEF Bindings, Holders, Holds
<1>7. QED
  BY <1>4, <1>5, <1>6 DEF Lock!Next, Lock!Create

LEMMA ThreadDeleteRefines ==
  ASSUME StoreInv, NEW t \in Threads, ThreadDelete(t)
  PROVE  Lock!Next
<1>1. t \in threads /\ t \in known /\ threads' = threads \ {t}
  BY DEF StoreInv, TypeOK, ThreadDelete
<1>2. UNCHANGED <<known, table, pc, req>>
  BY DEF ThreadDelete
<1>3. Phases[t] = "live" /\ Phases' = [Phases EXCEPT ![t] = "gone"]
  BY <1>1, <1>2 DEF Phases
<1>4. BusyThreads' = [BusyThreads EXCEPT ![t] = FALSE]
  BY <1>1, <1>2 DEF BusyThreads, Busy
<1>5. Bindings' = Bindings /\ Holders' = Holders
  BY <1>2 DEF Bindings, Holders, Holds
<1>6. QED
  BY <1>3, <1>4, <1>5 DEF Lock!Next, Lock!Delete

LEMMA RestartRefines ==
  ASSUME StoreInv, ProcessRestarts
  PROVE  Lock!Next
<1>1. threads' = {} /\ UNCHANGED <<known, table>> /\ \A w \in Workers : pc'[w] = "free"
  BY DEF ProcessRestarts
<1>2. Phases' = [t \in Threads |-> IF Phases[t] = "live" THEN "gone" ELSE Phases[t]]
  BY <1>1 DEF StoreInv, TypeOK, Phases
<1>3. BusyThreads' = [t \in Threads |-> FALSE] /\ Bindings' = Bindings
  BY <1>1 DEF BusyThreads, Bindings, Busy
<1>4. \A t \in Threads : {w \in Workers : Holds(w, t)'} = {}
  BY <1>1 DEF Holds
<1>5. Holders' = [t \in Threads |-> {}]
  BY <1>4 DEF Holders
<1>6. QED
  BY <1>2, <1>3, <1>5 DEF Lock!Next, Lock!Wipe

LEMMA NextRefines == StoreInv /\ [Next]_vars => [Lock!Next]_Lock!vars
<1> SUFFICES ASSUME StoreInv, [Next]_vars PROVE [Lock!Next]_Lock!vars
  OBVIOUS
<1>1. ASSUME NEW w \in Workers, RunBegin(w) \/ PatchBegin(w) PROVE [Lock!Next]_Lock!vars
  BY <1>1, BeginStutters
<1>2. ASSUME NEW w \in Workers, Acquire(w) PROVE [Lock!Next]_Lock!vars
  BY <1>2, AcquireRefines
<1>3. ASSUME NEW w \in Workers, AcquireRefused(w) \/ PatchMissing(w)
      PROVE  [Lock!Next]_Lock!vars
  BY <1>3, LeaveStutters DEF AcquireRefused, PatchMissing, At
<1>4. ASSUME NEW w \in Workers, RunRaises(w) \/ ReleaseRaises(w)
      PROVE  [Lock!Next]_Lock!vars
  BY <1>4, AbandonRefines DEF RunRaises, ReleaseRaises, At
<1>5. ASSUME NEW w \in Workers, GraphEnds(w) PROVE [Lock!Next]_Lock!vars
  BY <1>5, GraphEndsStutters
<1>6. ASSUME NEW w \in Workers, Release(w) PROVE [Lock!Next]_Lock!vars
  BY <1>6, ReleaseRefines
<1>7. ASSUME NEW w \in Workers, PatchWrite(w) PROVE [Lock!Next]_Lock!vars
  BY <1>7, PatchStutters
<1>8. ASSUME NEW t \in Threads, ThreadCreate(t) \/ ThreadDelete(t)
      PROVE  [Lock!Next]_Lock!vars
  BY <1>8, ThreadCreateRefines, ThreadDeleteRefines
<1>9. CASE ProcessRestarts
  BY <1>9, RestartRefines
<1>10. CASE UNCHANGED vars
  BY <1>10, SameHolders DEF vars, Holds
<1>11. QED
  BY <1>1, <1>2, <1>3, <1>4, <1>5, <1>6, <1>7, <1>8, <1>9, <1>10 DEF Next

\* The in-memory store and its handlers implement the abstract lock of the
\* ThreadStore protocol.
THEOREM MemoryKeepsTheLock == Spec => LockIsKept
<1>1. Init => Lock!Init
  <2> SUFFICES ASSUME Init PROVE Lock!Init
    OBVIOUS
  <2>1. Phases = [t \in Threads |-> "unborn"] /\ BusyThreads = [t \in Threads |-> FALSE]
    BY DEF Init, Phases, BusyThreads, Busy
  <2>2. Bindings = [t \in Threads |-> None]
    BY DEF Init, Bindings, NewThread
  <2>3. \A t \in Threads : {w \in Workers : Holds(w, t)} = {}
    BY DEF Init, Holds
  <2>4. Holders = [t \in Threads |-> {}]
    BY <2>3 DEF Holders
  <2>5. QED
    BY <2>1, <2>2, <2>4 DEF Lock!Init
<1>2. QED
  BY <1>1, NextRefines, StoreInvHolds, PTL DEF Spec, LockIsKept, Lock!Spec

-----------------------------------------------------------------------------
(* Metadata.                                                               *)

\* What a step does to the metadata of the threads that are there before and after.
KeysKept ==
    \A t \in threads \intersect threads' :
       \/ table[t].metadata \subseteq table'[t].metadata
       \/ \E w \in Workers :
            /\ pc[w] = "patch" /\ pc'[w] = "free" /\ req[w].thread = t
            /\ req[w].seen.metadata # table[t].metadata

LEMMA NextKeepsKeys == StoreInv /\ Next => KeysKept
<1> SUFFICES ASSUME StoreInv, Next PROVE KeysKept
  OBVIOUS
<1> USE DEF KeysKept
<1>1. ASSUME NEW w \in Workers, Acquire(w) \/ Release(w) PROVE KeysKept
  <2>1. req[w].thread \in Threads /\ table \in [Threads -> Thread]
    BY <1>1 DEF StoreInv, TypeOK, Acquire, Release, At
  <2>2. \A t \in Threads : table'[t].metadata = table[t].metadata
    BY <1>1, <2>1 DEF Acquire, Release, Thread
  <2>3. QED
    BY <2>2 DEF StoreInv, TypeOK
<1>2. ASSUME NEW w \in Workers, PatchWrite(w) PROVE KeysKept
  <2> DEFINE t == req[w].thread
  <2>1. t \in Threads /\ pc[w] = "patch" /\ pc'[w] = "free"
    BY <1>2 DEF StoreInv, TypeOK, PatchWrite, At, Leave
  <2>2. /\ table'[t].metadata = req[w].seen.metadata \union req[w].keys
        /\ \A u \in Threads : u # t => table'[u] = table[u]
    BY <1>2, <2>1 DEF StoreInv, TypeOK, PatchWrite, Patched, Thread
  <2>3. QED
    BY <2>1, <2>2 DEF StoreInv, TypeOK
<1>3. ASSUME NEW t \in Threads, ThreadCreate(t) PROVE KeysKept
  <2>1. \A u \in Threads : u # t => table'[u] = table[u]
    BY <1>3 DEF StoreInv, TypeOK, ThreadCreate
  <2>2. t \notin threads
    BY <1>3 DEF StoreInv, TypeOK, ThreadCreate
  <2>3. QED
    BY <2>1, <2>2 DEF StoreInv, TypeOK
<1>4. CASE table' = table
  BY <1>4
<1>5. QED
  BY <1>1, <1>2, <1>3, <1>4 DEF Next, RunBegin, PatchBegin, Begin, AcquireRefused, RunRaises,
     GraphEnds, ReleaseRaises, PatchMissing, ThreadDelete, ProcessRestarts

\* A key of a thread's metadata is lost only through a PATCH that another one overtook.
THEOREM KeysAreLostByOverlapsOnly == Spec => OnlyOverlapsLoseKeys
<1>1. StoreInv /\ [Next]_vars => [KeysKept]_vars
  BY NextKeepsKeys
<1>2. QED
  BY <1>1, StoreInvHolds, PTL DEF Spec, OnlyOverlapsLoseKeys, KeysKept

=============================================================================
