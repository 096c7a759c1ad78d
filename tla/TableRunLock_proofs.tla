------------------------- MODULE TableRunLock_proofs -------------------------
(***************************************************************************)
(* Proofs about TableRunLock, for every value of its constants.            *)
(***************************************************************************)
EXTENDS TableRunLock, TLAPS

\* No handler runs and no row exists at first.
LEMMA InitLockInv == Init => LockInv
<1> SUFFICES ASSUME Init PROVE LockInv
  OBVIOUS
<1> USE DEF Init
<1>1. TypeOK
  BY NoneAssumption, AttemptsAssumption
  DEF TypeOK, Entity, Request, NoRequest, SweepRun, NoSweep, Statuses, Steps, Answers, Outcomes
<1>2. ClockInv /\ CasInv
  BY DEF ClockInv, CasInv
<1>3. HolderInv /\ MutualExclusion
  BY DEF HolderInv, HolderOwnsThread, MutualExclusion, Holds
<1>4. SweepInv
  BY DEF SweepInv, NoSweep
<1>5. AgainInv
  BY DEF AgainInv
<1>6. QED
  BY <1>1, <1>2, <1>3, <1>4, <1>5 DEF LockInv, CoreInv

\* What leaving a handler does to the types.
LEMMA LeaveType ==
  ASSUME TypeOK, NEW w \in Workers, NEW reply \in Answers, Leave(w, reply)
  PROVE  /\ pc' \in [Workers -> Steps]
         /\ req' \in [Workers -> Request]
         /\ \A v \in Workers : req'[v].attempt <= MaxAttempts
         /\ answer' \in Answers
  BY NoneAssumption, AttemptsAssumption
  DEF TypeOK, Leave, NoRequest, Request, Steps, Outcomes

\* What a merge does to the types, and to the other rows.
LEMMA MergeType ==
  ASSUME TypeOK, NEW t \in Threads, NEW status \in Statuses,
         NEW assistant \in Assistants \union {None}, NEW stamp \in Nat,
         Merge(t, status, assistant, stamp)
  PROVE  /\ table' \in [Threads -> Entity]
         /\ table'[t] = [status |-> status, assistant |-> assistant,
                         updated |-> stamp, etag |-> table[t].etag + 1]
         /\ \A u \in Threads \ {t} : table'[u] = table[u]
  BY DEF TypeOK, Merge, Entity

\* A timestamp lies between the handler's last call and now.
LEMMA StampsType ==
  ASSUME TypeOK, ClockInv, NEW w \in Workers, pc[w] # "free", NEW stamp \in Stamps(w)
  PROVE  stamp \in Nat /\ req[w].start <= stamp /\ stamp <= now
  BY DEF TypeOK, ClockInv, Stamps, Request

\* What the end of an attempt does to the types.
LEMMA AttemptOverType ==
  ASSUME TypeOK, NEW w \in Workers, NEW n \in Nat, AttemptOver(w, n)
  PROVE  \E r \in Request :
           /\ req' = [req EXCEPT ![w] = r]
           /\ r.thread = req[w].thread /\ r.assistant = req[w].assistant
           /\ r.start = req[w].start /\ r.asof = now /\ r.attempt = n
<1> DEFINE r == [req[w] EXCEPT !.etag = 0, !.binding = None, !.asof = now, !.attempt = n]
<1>1. req[w] \in Request /\ now \in Nat /\ req' = [req EXCEPT ![w] = r]
  BY DEF TypeOK, AttemptOver
<1>2. /\ r \in Request /\ r.asof = now /\ r.attempt = n
      /\ r.thread = req[w].thread /\ r.assistant = req[w].assistant /\ r.start = req[w].start
  BY <1>1 DEF Request
<1>3. QED
  BY <1>1, <1>2

\* A sweeper goes on with its run, or its run is over.
LEMMA SweepGoesOnType ==
  ASSUME TypeOK, NEW s \in Sweepers, NEW run \in SweepRun, SweepGoesOn(s, run)
  PROVE  /\ sweep' \in [Sweepers -> SweepRun]
         /\ sweep'[s] \in {run, NoSweep}
         /\ \A other \in Sweepers : other # s => sweep'[other] = sweep[other]
<1>1. NoSweep \in SweepRun
  BY DEF NoSweep, SweepRun
<1>2. QED
  BY <1>1 DEF TypeOK, SweepGoesOn

-----------------------------------------------------------------------------
(* Handlers that leave change no row, and take nothing from the others.    *)

\* A handler that leaves has no claim left.
LEMMA LeavePreserves ==
  ASSUME LockInv, NEW w \in Workers, NEW reply \in Answers, Leave(w, reply),
         UNCHANGED <<rows, known, table, sweep, now, accepted>>
  PROVE  CoreInv'
<1> USE DEF LockInv, CoreInv
<1>1. TypeOK'
  BY LeaveType DEF TypeOK
<1> DEFINE Others == \A v \in Workers : /\ v # w => pc'[v] = pc[v] /\ req'[v] = req[v]
                                        /\ pc'[w] = "free"
<1>2. Others
  BY DEF Leave, TypeOK
<1>3. ClockInv'
  BY <1>2 DEF ClockInv
<1>4. CasInv'
  BY <1>2 DEF CasInv, EtagVouches, Busy
<1>5. HolderInv' /\ MutualExclusion'
  BY <1>2 DEF HolderInv, HolderOwnsThread, MutualExclusion, Holds, Busy
<1>6. SweepInv'
  BY DEF SweepInv, Unmodified, IsStale, Busy
<1>7. QED
  BY <1>1, <1>3, <1>4, <1>5, <1>6

\* A request that starts has read nothing yet and holds nothing.
LEMMA BeginPreserves ==
  ASSUME LockInv, NEW w \in Workers, NEW t \in known,
         NEW a \in Assistants \union {None}, NEW step \in {"read", "patch"},
         step = "read" => a \in Assistants, Begin(w, t, a, step)
  PROVE  CoreInv'
<1> USE NoneAssumption, AttemptsAssumption, StaleAssumption DEF LockInv, CoreInv
<1>1. CASE t \notin rows
  <2>1. Leave(w, "notFound") /\ UNCHANGED <<rows, known, table, sweep, now>>
    BY <1>1 DEF Begin
  <2>2. pc[w] = "free" /\ accepted' \in Nat
    BY DEF Begin, TypeOK
  <2>3. TypeOK'
    BY <2>1, <2>2, LeaveType DEF TypeOK, Answers
  <2>4. \A v \in Workers : (v # w => pc'[v] = pc[v] /\ req'[v] = req[v]) /\ pc'[w] = "free"
    BY <2>1 DEF Leave, TypeOK
  <2>5. ClockInv' /\ CasInv' /\ HolderInv' /\ MutualExclusion'
    BY <2>1, <2>4 DEF ClockInv, CasInv, EtagVouches, HolderInv, HolderOwnsThread, MutualExclusion, Holds, Busy
  <2>6. SweepInv'
    BY <2>1 DEF SweepInv, Unmodified, IsStale, Busy
  <2>7. QED
    BY <2>3, <2>5, <2>6
<1>2. CASE t \in rows
  <2> DEFINE r == [NoRequest EXCEPT !.thread = t, !.assistant = a, !.start = now,
                                    !.asof = now, !.attempt = 1]
  <2>1. /\ req' = [req EXCEPT ![w] = r]
        /\ pc' = [pc EXCEPT ![w] = step]
        /\ UNCHANGED <<answer, rows, known, table, sweep, now>>
        /\ accepted' = accepted + 1
    BY <1>2 DEF Begin, Goto
  <2>2. /\ r \in Request /\ r.thread = t /\ r.assistant = a /\ r.start = now
        /\ r.asof = now /\ r.attempt = 1
    BY DEF TypeOK, Request, NoRequest, Outcomes
  <2> HIDE DEF r
  <2>3. TypeOK'
    BY <2>1, <2>2 DEF TypeOK, Steps
  <2>4. \A v \in Workers : /\ v # w => pc'[v] = pc[v] /\ req'[v] = req[v]
                           /\ pc'[w] = step /\ req'[w] = r
    BY <2>1 DEF TypeOK
  <2>5. ClockInv'
    BY <2>1, <2>2, <2>4 DEF ClockInv, TypeOK
  <2>6. CasInv' /\ HolderInv' /\ MutualExclusion'
    BY <2>1, <2>4 DEF CasInv, EtagVouches, HolderInv, HolderOwnsThread, MutualExclusion, Holds, Busy
  <2>7. SweepInv'
    BY <2>1 DEF SweepInv, Unmodified, IsStale, Busy
  <2>8. QED
    BY <2>3, <2>5, <2>6, <2>7
<1>3. QED
  BY <1>1, <1>2

\* A handler that goes on without writing a row keeps the others' facts.
LEMMA GoesOn ==
  ASSUME LockInv, NEW w \in Workers, NEW step \in Steps, NEW r \in Request,
         pc[w] # "free", step # "write",
         req' = [req EXCEPT ![w] = r], Goto(w, step),
         UNCHANGED <<rows, known, table, sweep, now, accepted>>,
         r.attempt <= MaxAttempts, r.thread = req[w].thread,
         r.assistant = req[w].assistant, r.start = req[w].start, r.asof = now,
         step \in {"running", "release"} => pc[w] \in {"running", "release"},
         step = "read" => pc[w] = "write"
  PROVE  CoreInv'
<1> USE DEF LockInv, CoreInv, Goto
<1>1. \A v \in Workers : /\ v # w => pc'[v] = pc[v] /\ req'[v] = req[v]
                         /\ pc'[w] = step /\ req'[w] = r
  BY DEF TypeOK
<1>2. TypeOK'
  BY DEF TypeOK
<1>3. ClockInv'
  BY <1>1 DEF ClockInv, TypeOK, Request
<1>4. CasInv'
  BY <1>1 DEF CasInv, EtagVouches, Busy
<1>5. HolderInv' /\ MutualExclusion'
  BY <1>1 DEF HolderInv, HolderOwnsThread, MutualExclusion, Holds, Busy
<1>6. SweepInv'
  BY DEF SweepInv, Unmodified, IsStale, Busy
<1>7. QED
  BY <1>2, <1>3, <1>4, <1>5, <1>6

\* A failed attempt is followed by another one, or by the answer "busy".
LEMMA NextAttemptPreserves ==
  ASSUME LockInv, NEW w \in Workers, pc[w] = "write", NextAttempt(w),
         UNCHANGED <<rows, known, table, sweep, now, accepted>>
  PROVE  CoreInv'
<1> USE AttemptsAssumption DEF LockInv, CoreInv
<1>1. CASE req[w].attempt < MaxAttempts
  <2> DEFINE n == req[w].attempt + 1
  <2>1. n \in Nat /\ n <= MaxAttempts
    BY <1>1 DEF TypeOK, Request
  <2>2. AttemptOver(w, n) /\ Goto(w, "read")
    BY <1>1 DEF NextAttempt
  <2> HIDE DEF n
  <2>3. QED
    BY <2>1, <2>2, AttemptOverType, GoesOn DEF Steps
<1>2. CASE ~(req[w].attempt < MaxAttempts)
  BY <1>2, LeavePreserves DEF NextAttempt, Answers
<1>3. QED
  BY <1>1, <1>2

\* The end of a graph changes nothing in the table.
LEMMA GraphEndsPreserves ==
  ASSUME LockInv, NEW w \in Workers, GraphEnds(w)
  PROVE  CoreInv'
<1> USE DEF LockInv, CoreInv
<1>1. PICK outcome \in Outcomes :
         req' = [req EXCEPT ![w].outcome = outcome, ![w].asof = now]
  BY DEF GraphEnds
<1> DEFINE r == [req[w] EXCEPT !.outcome = outcome, !.asof = now]
<1>2. req' = [req EXCEPT ![w] = r] /\ r \in Request /\ r.asof = now
  BY <1>1 DEF TypeOK, Request
<1>3. /\ r.thread = req[w].thread /\ r.assistant = req[w].assistant
      /\ r.start = req[w].start /\ r.attempt = req[w].attempt
  BY DEF TypeOK, Request
<1> HIDE DEF r
<1>4. /\ pc[w] = "running" /\ Goto(w, "release") /\ r.attempt <= MaxAttempts
      /\ UNCHANGED <<rows, known, table, sweep, now, accepted>>
  BY <1>3 DEF GraphEnds, At, TypeOK
<1>5. QED
  BY <1>2, <1>3, <1>4, GoesOn DEF Steps

\* An error of the release: the handler leaves, or releases once more.
LEMMA RaisedPreserves ==
  ASSUME LockInv, NEW w \in Workers, NEW step \in {"release", "again"},
         pc[w] \in {"release", "again", "confirm"}, step = "release" => pc[w] = "release",
         Raised(w, step), UNCHANGED <<rows, known, table, sweep, now, accepted>>
  PROVE  CoreInv'
<1> USE DEF LockInv, CoreInv
<1>1. CASE req[w].outcome = "overflow"
  <2> DEFINE r == [req[w] EXCEPT !.outcome = "error", !.asof = now]
  <2>0. req[w] \in Request /\ now \in Nat /\ req \in [Workers -> Request]
    BY DEF TypeOK
  <2>1. req' = [req EXCEPT ![w] = r] /\ r \in Request /\ r.asof = now
    <3>1. req' = [req EXCEPT ![w] = r]
      BY <1>1, <2>0 DEF Raised
    <3>2. r \in Request
      BY <2>0 DEF Request, Outcomes
    <3>3. r.asof = now
      BY <2>0 DEF Request
    <3>4. QED
      BY <3>1, <3>2, <3>3
  <2>2. /\ r.thread = req[w].thread /\ r.assistant = req[w].assistant
        /\ r.start = req[w].start /\ r.attempt = req[w].attempt
    BY <2>0 DEF Request
  <2> HIDE DEF r
  <2>3. Goto(w, step) /\ r.attempt <= MaxAttempts
    BY <1>1, <2>2 DEF Raised, TypeOK
  <2>4. QED
    BY <2>1, <2>2, <2>3, GoesOn DEF Steps
<1>2. CASE req[w].outcome # "overflow"
  BY <1>2, LeavePreserves DEF Raised, Answers
<1>3. QED
  BY <1>1, <1>2

\* The read of an attempt: the ETag and the binding are those of the row.
LEMMA AcquireReadPreserves ==
  ASSUME LockInv, NEW w \in Workers, AcquireRead(w)
  PROVE  CoreInv'
<1> USE DEF LockInv, CoreInv
<1> DEFINE t == req[w].thread
           r == [req[w] EXCEPT !.etag = table[t].etag, !.binding = table[t].assistant,
                               !.asof = now]
<1>1. /\ pc[w] = "read" /\ t \in rows /\ t \in Threads /\ ~Busy(t) /\ ~BoundElsewhere(w)
      /\ UNCHANGED <<rows, known, table, sweep, now, accepted, answer>>
      /\ pc' = [pc EXCEPT ![w] = "write"]
  BY DEF AcquireRead, At, Found, Goto
<1>2. req' = [req EXCEPT ![w] = r] /\ r \in Request
  <2>1. req' = [req EXCEPT ![w] = r]
    BY <1>1 DEF AcquireRead, TypeOK, Request
  <2>2. req[w] \in Request /\ table[t].etag \in Nat /\ now \in Nat
        /\ table[t].assistant \in Assistants \union {None}
    BY <1>1 DEF TypeOK, Entity
  <2>3. \A q \in Request, e \in Nat, b \in Assistants \union {None}, n \in Nat :
          [q EXCEPT !.etag = e, !.binding = b, !.asof = n] \in Request
    BY DEF Request
  <2>4. r \in Request
    BY <2>2, <2>3, Zenon
  <2>5. QED
    BY <2>1, <2>4
<1>3. /\ r.thread = t /\ r.assistant = req[w].assistant /\ r.asof = now
      /\ r.start = req[w].start /\ r.attempt = req[w].attempt
      /\ r.etag = table[t].etag /\ r.binding = table[t].assistant
  BY DEF TypeOK, Request
<1>4. table[t].assistant \in {None, req[w].assistant} /\ table[t].etag \in Nat
  BY <1>1 DEF BoundElsewhere, TypeOK, Entity
<1> HIDE DEF t, r
<1>5. \A v \in Workers : /\ v # w => pc'[v] = pc[v] /\ req'[v] = req[v]
                         /\ pc'[w] = "write" /\ req'[w] = r
  BY <1>1, <1>2 DEF TypeOK
<1>6. TypeOK'
  BY <1>1, <1>2, <1>3 DEF TypeOK, Steps
<1>7. ClockInv'
  BY <1>1, <1>3, <1>5 DEF ClockInv, TypeOK, Request, t
<1>8. CasInv'
  BY <1>1, <1>3, <1>4, <1>5 DEF CasInv, EtagVouches, Busy
<1>9. HolderInv' /\ MutualExclusion'
  BY <1>1, <1>5 DEF HolderInv, HolderOwnsThread, MutualExclusion, Holds, Busy
<1>10. SweepInv'
  BY <1>1 DEF SweepInv, Unmodified, IsStale, Busy
<1>11. QED
  BY <1>6, <1>7, <1>8, <1>9, <1>10

-----------------------------------------------------------------------------
(* Steps that write a row.                                                 *)

\* A write of one row leaves alone what is known of the other rows, and an
\* ETag read before it no longer matches.
LEMMA MergeCasInv ==
  ASSUME LockInv, NEW t \in Threads, NEW status \in Statuses,
         NEW assistant \in Assistants \union {None}, NEW stamp \in Nat,
         Merge(t, status, assistant, stamp), UNCHANGED rows,
         NEW v \in Workers, pc[v] = "write", req'[v] = req[v],
         NEW u \in Threads, req[v].thread = u
  PROVE  EtagVouches(v, u)'
<1> USE DEF LockInv, CoreInv
<1>1. /\ table'[t].etag = table[t].etag + 1
      /\ \A other \in Threads \ {t} : table'[other] = table[other]
      /\ table[t].etag \in Nat
  <2>1. TypeOK /\ table[t].etag \in Nat
    BY DEF TypeOK, Entity
  <2>2. /\ table'[t] = [status |-> status, assistant |-> assistant,
                        updated |-> stamp, etag |-> table[t].etag + 1]
        /\ \A other \in Threads \ {t} : table'[other] = table[other]
    BY <2>1, MergeType
  <2>3. QED
    BY <2>1, <2>2
<1>2. EtagVouches(v, u) /\ req[v].etag \in Nat
  BY DEF CasInv, TypeOK, Request
<1>3. CASE u = t
  BY <1>1, <1>2, <1>3 DEF EtagVouches
<1>4. CASE u # t
  BY <1>1, <1>2, <1>4 DEF EtagVouches, Busy
<1>5. QED
  BY <1>3, <1>4

\* No sweeper learns of a row in this step.
SweepShrinks ==
    \A s \in Sweepers :
       /\ sweep'[s].began <= now
       /\ \A item \in sweep'[s].batch : item \in sweep[s].batch /\ sweep'[s].began = sweep[s].began

\* ... and what a sweeper fetched before: a written row is no longer the one
\* whose ETag the sweeper holds.
LEMMA MergeSweepInv ==
  ASSUME LockInv, NEW t \in Threads, NEW status \in Statuses,
         NEW assistant \in Assistants \union {None}, NEW stamp \in Nat,
         Merge(t, status, assistant, stamp), UNCHANGED <<rows, known, now>>,
         UNCHANGED sweep \/ SweepShrinks
  PROVE  SweepInv'
<1> USE DEF LockInv, CoreInv
<1>1. /\ table'[t].etag = table[t].etag + 1
      /\ \A u \in Threads \ {t} : table'[u] = table[u]
      /\ table[t].etag \in Nat
  <2>1. TypeOK /\ table[t].etag \in Nat
    BY DEF TypeOK, Entity
  <2>2. /\ table'[t] = [status |-> status, assistant |-> assistant,
                        updated |-> stamp, etag |-> table[t].etag + 1]
        /\ \A u \in Threads \ {t} : table'[u] = table[u]
    BY <2>1, MergeType
  <2>3. QED
    BY <2>1, <2>2
<1>2. SweepShrinks
  BY DEF SweepShrinks, SweepInv
<1>3. ASSUME NEW s \in Sweepers, NEW item \in sweep'[s].batch
      PROVE  /\ item[1] \in known' /\ item[2] <= table'[item[1]].etag
             /\ Unmodified(item[1], item[2])' => IsStale(item[1], sweep[s].began)'
             /\ sweep'[s].began = sweep[s].began
  <2>1. item \in sweep[s].batch /\ sweep'[s].began = sweep[s].began
    BY <1>2, <1>3 DEF SweepShrinks
  <2>2. item[1] \in Threads /\ item[2] \in Nat
    BY <2>1 DEF TypeOK, SweepRun
  <2>3. QED
    BY <1>1, <2>1, <2>2 DEF SweepInv, Unmodified, IsStale, Busy
<1>4. QED
  BY <1>2, <1>3 DEF SweepInv, SweepShrinks

\* What the write of an acquire needs and does, whether its caller learns of
\* it or not: the row was not busy, so nobody held the lock.
LEMMA LockRowFacts ==
  ASSUME LockInv, NEW w \in Workers, pc[w] = "write", Found(w), EtagMatches(w),
         LockRow(w)
  PROVE  /\ req[w].thread \in Threads
         /\ ~Busy(req[w].thread)
         /\ \A v \in Workers : ~Holds(v, req[w].thread)
         /\ \E stamp \in Stamps(w) :
              /\ stamp \in Nat /\ req[w].start <= stamp
              /\ Merge(req[w].thread, "busy", req[w].assistant, stamp)
<1> USE DEF LockInv, CoreInv
<1> DEFINE t == req[w].thread
<1>1. t \in Threads /\ t \in rows /\ req[w].assistant \in Assistants
  BY DEF ClockInv, TypeOK, Found
<1>2. ~Busy(t) /\ table[t].assistant = req[w].binding /\ req[w].binding \in {None, req[w].assistant}
  BY <1>1 DEF CasInv, EtagVouches, EtagMatches
<1>3. \A v \in Workers : ~Holds(v, t)
  BY <1>1, <1>2 DEF HolderInv, HolderOwnsThread
<1>4. PICK stamp \in Stamps(w) :
        Merge(t, "busy",
              IF req[w].binding = None THEN req[w].assistant ELSE table[t].assistant, stamp)
  BY DEF LockRow
<1>5. Merge(t, "busy", req[w].assistant, stamp)
  BY <1>2, <1>4
<1>6. QED
  BY <1>1, <1>2, <1>3, <1>5, StampsType

\* The winner of the compare-and-swap found the row idle: nobody held it.
LEMMA AcquireWritePreserves ==
  ASSUME LockInv, NEW w \in Workers, AcquireWrite(w)
  PROVE  CoreInv'
<1> USE DEF LockInv, CoreInv
<1> DEFINE t == req[w].thread
<1>1. /\ pc[w] = "write" /\ Found(w) /\ EtagMatches(w) /\ LockRow(w)
      /\ pc' = [pc EXCEPT ![w] = "running"]
      /\ AttemptOver(w, 0)
      /\ UNCHANGED <<rows, known, sweep, now, accepted, answer>>
  BY DEF AcquireWrite, At, Goto
<1>2. /\ t \in Threads /\ \A v \in Workers : ~Holds(v, t)
  BY <1>1, LockRowFacts
<1>3. PICK stamp \in Stamps(w) :
        stamp \in Nat /\ req[w].start <= stamp /\ Merge(t, "busy", req[w].assistant, stamp)
  BY <1>1, LockRowFacts
<1>4. PICK r \in Request :
        /\ req' = [req EXCEPT ![w] = r]
        /\ r.thread = t /\ r.assistant = req[w].assistant /\ r.asof = now
        /\ r.start = req[w].start /\ r.attempt = 0
  BY <1>1, AttemptOverType
<1>5. req[w].assistant \in Assistants /\ t \in rows /\ RunTimeout \in Nat /\ req[w].start \in Nat
  BY <1>1, StaleAssumption DEF ClockInv, Found, TypeOK, Request
<1>6. /\ table' \in [Threads -> Entity]
      /\ table'[t] = [status |-> "busy", assistant |-> req[w].assistant,
                      updated |-> stamp, etag |-> table[t].etag + 1]
      /\ \A u \in Threads \ {t} : table'[u] = table[u]
  BY <1>2, <1>3, <1>5, MergeType DEF Statuses
<1>7. \A v \in Workers : /\ v # w => pc'[v] = pc[v] /\ req'[v] = req[v]
                         /\ pc'[w] = "running" /\ req'[w] = r
  BY <1>1, <1>4 DEF TypeOK
<1>8. TypeOK'
  BY <1>1, <1>4, <1>6, AttemptsAssumption DEF TypeOK, Steps
<1>9. ClockInv'
  BY <1>1, <1>4, <1>5, <1>7 DEF ClockInv, TypeOK, Request
<1>10. CasInv'
  <2> SUFFICES ASSUME NEW v \in Workers, NEW u \in Threads,
                      pc'[v] = "write", req'[v].thread = u
               PROVE  EtagVouches(v, u)'
    BY DEF CasInv
  <2>1. v # w /\ pc[v] = "write" /\ req'[v] = req[v] /\ req[v].thread = u
    BY <1>7
  <2>2. QED
    BY <1>1, <1>2, <1>3, <1>5, <2>1, MergeCasInv DEF Statuses
<1>11. HolderInv' /\ MutualExclusion'
  <2>1. \A v \in Workers, u \in Threads :
           Holds(v, u)' => (v = w /\ u = t) \/ (v # w /\ u # t /\ Holds(v, u))
    BY <1>2, <1>4, <1>7 DEF Holds
  <2>2. MutualExclusion'
    BY <2>1 DEF MutualExclusion
  <2>3. HolderOwnsThread'
    BY <1>1, <1>4, <1>6, <1>7, <2>1 DEF HolderInv, HolderOwnsThread, Busy, TypeOK
  <2>4. stamp >= req[w].start - RunTimeout
    BY <1>3, <1>5
  <2>5. \A v \in Workers, u \in rows' : Holds(v, u)' => table'[u].updated >= req'[v].start - RunTimeout
    BY <1>1, <1>4, <1>6, <1>7, <2>1, <2>4 DEF HolderInv, TypeOK
  <2>6. QED
    BY <2>2, <2>3, <2>5 DEF HolderInv
<1>12. SweepInv'
  BY <1>1, <1>2, <1>3, <1>5, MergeSweepInv DEF Statuses
<1>13. QED
  BY <1>8, <1>9, <1>10, <1>11, <1>12

\* The write nobody learns of: its row becomes busy, and nobody holds it.
LEMMA AcquireResentPreserves ==
  ASSUME LockInv, NEW w \in Workers, AcquireResent(w)
  PROVE  CoreInv'
<1> USE DEF LockInv, CoreInv
<1> DEFINE t == req[w].thread
<1>1. /\ pc[w] = "write" /\ Found(w) /\ EtagMatches(w) /\ LockRow(w) /\ NextAttempt(w)
      /\ UNCHANGED <<rows, known, sweep, now, accepted>>
  BY DEF AcquireResent, At
<1>2. t \in Threads /\ \A v \in Workers : ~Holds(v, t)
  BY <1>1, LockRowFacts
<1>3. PICK stamp \in Stamps(w) :
        stamp \in Nat /\ Merge(t, "busy", req[w].assistant, stamp)
  BY <1>1, LockRowFacts
<1>4. req[w].assistant \in Assistants
  BY <1>1 DEF ClockInv
<1>5. /\ table' \in [Threads -> Entity]
      /\ \A u \in Threads \ {t} : table'[u] = table[u]
  BY <1>2, <1>3, <1>4, MergeType DEF Statuses
<1>6. /\ req' \in [Workers -> Request] /\ pc' \in [Workers -> Steps] /\ answer' \in Answers
      /\ \A v \in Workers : req'[v].attempt <= MaxAttempts
      /\ \A v \in Workers \ {w} : pc'[v] = pc[v] /\ req'[v] = req[v]
      /\ \/ pc'[w] = "free"
         \/ /\ pc'[w] = "read" /\ req'[w].thread = t /\ req'[w].start = req[w].start
            /\ req'[w].assistant = req[w].assistant /\ req'[w].asof = now
  <2>1. CASE req[w].attempt < MaxAttempts
    <3> DEFINE n == req[w].attempt + 1
    <3>1. AttemptOver(w, n) /\ Goto(w, "read")
      BY <1>1, <2>1 DEF NextAttempt
    <3>2. n \in Nat /\ n <= MaxAttempts
      BY <2>1, AttemptsAssumption DEF TypeOK, Request
    <3> HIDE DEF n
    <3>3. PICK r \in Request :
            /\ req' = [req EXCEPT ![w] = r]
            /\ r.thread = t /\ r.assistant = req[w].assistant
            /\ r.start = req[w].start /\ r.asof = now /\ r.attempt = n
      BY <3>1, <3>2, AttemptOverType
    <3> HIDE DEF t
    <3>4. QED
      BY <3>1, <3>2, <3>3 DEF Goto, TypeOK, Steps
  <2>2. CASE ~(req[w].attempt < MaxAttempts)
    <3>1. Leave(w, "busy")
      BY <1>1, <2>2 DEF NextAttempt
    <3>2. pc'[w] = "free" /\ \A v \in Workers \ {w} : pc'[v] = pc[v] /\ req'[v] = req[v]
      BY <3>1 DEF Leave, TypeOK
    <3>3. QED
      BY <3>1, <3>2, LeaveType DEF Answers
  <2>3. QED
    BY <2>1, <2>2
<1> HIDE DEF t
<1>7. TypeOK'
  BY <1>1, <1>5, <1>6 DEF TypeOK
<1>8. ClockInv'
  BY <1>1, <1>6 DEF ClockInv, TypeOK, Request, t
<1>9. CasInv'
  <2> SUFFICES ASSUME NEW v \in Workers, NEW u \in Threads,
                      pc'[v] = "write", req'[v].thread = u
               PROVE  EtagVouches(v, u)'
    BY DEF CasInv
  <2>1. v # w /\ pc[v] = "write" /\ req'[v] = req[v] /\ req[v].thread = u
    BY <1>6
  <2>2. QED
    BY <1>1, <1>2, <1>3, <1>4, <2>1, MergeCasInv DEF Statuses
<1>10. HolderInv' /\ MutualExclusion'
  <2>1. \A v \in Workers, u \in Threads :
          Holds(v, u)' => v # w /\ u # t /\ Holds(v, u) /\ req'[v] = req[v]
    BY <1>2, <1>6 DEF Holds
  <2>2. MutualExclusion'
    BY <2>1 DEF MutualExclusion
  <2>3. rows' = rows /\ rows \subseteq Threads
    BY <1>1 DEF TypeOK
  <2>4. HolderInv'
    BY <1>5, <2>1, <2>3 DEF HolderInv, HolderOwnsThread, Busy
  <2>5. QED
    BY <2>2, <2>4
<1>11. SweepInv'
  BY <1>1, <1>2, <1>3, <1>4, MergeSweepInv DEF Statuses
<1>12. QED
  BY <1>7, <1>8, <1>9, <1>10, <1>11

\* A handler that writes its row and goes on to read it back.
LEMMA WriteBackFacts ==
  ASSUME LockInv, NEW w \in Workers, pc[w] \in {"release", "patch"},
         NEW step \in {"confirm", "patched"}, Goto(w, step),
         req' = [req EXCEPT ![w].asof = now],
         NEW status \in Statuses, NEW stamp \in Stamps(w), Found(w),
         Merge(req[w].thread, status, table[req[w].thread].assistant, stamp),
         UNCHANGED <<rows, known, sweep, now, accepted>>
  PROVE  /\ TypeOK' /\ ClockInv' /\ CasInv' /\ SweepInv'
         /\ \A v \in Workers, u \in Threads : Holds(v, u)' => v # w /\ Holds(v, u) /\ req'[v] = req[v]
         /\ table'[req[w].thread] = [status |-> status,
              assistant |-> table[req[w].thread].assistant, updated |-> stamp,
              etag |-> table[req[w].thread].etag + 1]
         /\ \A u \in Threads \ {req[w].thread} : table'[u] = table[u]
<1> USE DEF LockInv, CoreInv
<1> DEFINE t == req[w].thread
           r == [req[w] EXCEPT !.asof = now]
<1>1. t \in Threads /\ stamp \in Nat /\ table[t].assistant \in Assistants \union {None}
  BY StampsType DEF ClockInv, TypeOK, Entity
<1>2. /\ table' \in [Threads -> Entity]
      /\ table'[t] = [status |-> status, assistant |-> table[t].assistant,
                      updated |-> stamp, etag |-> table[t].etag + 1]
      /\ \A u \in Threads \ {t} : table'[u] = table[u]
  BY <1>1, MergeType
<1>3. /\ req' = [req EXCEPT ![w] = r] /\ r \in Request /\ r.thread = t /\ r.start = req[w].start
      /\ r.asof = now /\ r.attempt = req[w].attempt
  BY DEF TypeOK, Request
<1>4. CasInv'
  <2> SUFFICES ASSUME NEW v \in Workers, NEW u \in Threads,
                      pc'[v] = "write", req'[v].thread = u
               PROVE  EtagVouches(v, u)'
    BY DEF CasInv
  <2>1. v # w /\ pc[v] = "write" /\ req'[v] = req[v] /\ req[v].thread = u
    BY DEF Goto, TypeOK
  <2>2. QED
    BY <1>1, <2>1, MergeCasInv
<1>5. SweepInv'
  BY <1>1, MergeSweepInv
<1> HIDE DEF r
<1>6. \A v \in Workers : /\ v # w => pc'[v] = pc[v] /\ req'[v] = req[v]
                         /\ pc'[w] = step /\ req'[w] = r
  BY <1>3 DEF Goto, TypeOK
<1>7. TypeOK'
  BY <1>2, <1>3 DEF TypeOK, Goto, Steps
<1>8. ClockInv'
  BY <1>3, <1>6 DEF ClockInv, TypeOK, Request
<1>9. \A v \in Workers, u \in Threads : Holds(v, u)' => v # w /\ Holds(v, u) /\ req'[v] = req[v]
  BY <1>6 DEF Holds
<1>10. QED
  BY <1>2, <1>4, <1>5, <1>7, <1>8, <1>9

\* The blind merge of a release hits the releaser's own lock.
LEMMA ReleaseWritePreserves ==
  ASSUME LockInv, NEW w \in Workers, ReleaseWrite(w)
  PROVE  CoreInv'
<1> USE DEF LockInv, CoreInv
<1> DEFINE t == req[w].thread
           status == IF req[w].outcome = "idle" THEN "idle" ELSE "error"
<1>1. PICK stamp \in Stamps(w) : Merge(t, status, table[t].assistant, stamp)
  BY DEF ReleaseWrite, ReleaseRow
<1>2. /\ pc[w] = "release" /\ Found(w) /\ Goto(w, "confirm") /\ t \in Threads
      /\ req' = [req EXCEPT ![w].asof = now]
      /\ UNCHANGED <<rows, known, sweep, now, accepted>>
  BY DEF ReleaseWrite, Releasing, At, Found, AgainInv
<1>3. status \in Statuses
  BY DEF Statuses
<1> HIDE DEF status
<1>4. /\ TypeOK' /\ ClockInv' /\ CasInv' /\ SweepInv'
      /\ \A v \in Workers, u \in Threads : Holds(v, u)' => v # w /\ Holds(v, u) /\ req'[v] = req[v]
      /\ \A u \in Threads \ {t} : table'[u] = table[u]
  BY <1>1, <1>2, <1>3, WriteBackFacts
<1>5. \A v \in Workers, u \in Threads : Holds(v, u)' => u # t
  BY <1>2, <1>4 DEF MutualExclusion, Holds
<1>6. MutualExclusion'
  BY <1>4 DEF MutualExclusion
<1>7. rows' = rows /\ rows \subseteq Threads
  BY <1>2 DEF TypeOK
<1>8. HolderInv'
  BY <1>4, <1>5, <1>7 DEF HolderInv, HolderOwnsThread, Busy
<1>9. QED
  BY <1>4, <1>6, <1>8

\* A PATCH keeps status and binding; its stamp is at most RunTimeout old.
LEMMA PatchWritePreserves ==
  ASSUME LockInv, NEW w \in Workers, PatchWrite(w)
  PROVE  CoreInv'
<1> USE DEF LockInv, CoreInv
<1> DEFINE t == req[w].thread
<1>1. PICK stamp \in Stamps(w) : Merge(t, table[t].status, table[t].assistant, stamp)
  BY DEF PatchWrite
<1>2. /\ pc[w] = "patch" /\ Found(w) /\ Goto(w, "patched") /\ t \in Threads
      /\ req' = [req EXCEPT ![w].asof = now]
      /\ UNCHANGED <<rows, known, sweep, now, accepted>>
  BY DEF PatchWrite, At
<1>3. table[t].status \in Statuses
  BY <1>2 DEF TypeOK, Entity
<1>4. /\ TypeOK' /\ ClockInv' /\ CasInv' /\ SweepInv'
      /\ \A v \in Workers, u \in Threads : Holds(v, u)' => v # w /\ Holds(v, u) /\ req'[v] = req[v]
      /\ table'[t] = [status |-> table[t].status, assistant |-> table[t].assistant,
                      updated |-> stamp, etag |-> table[t].etag + 1]
      /\ \A u \in Threads \ {t} : table'[u] = table[u]
  BY <1>1, <1>2, <1>3, WriteBackFacts
<1>5. MutualExclusion'
  BY <1>4 DEF MutualExclusion
<1>6. rows' = rows /\ rows \subseteq Threads
  BY <1>2 DEF TypeOK
<1>7. HolderOwnsThread'
  BY <1>4, <1>6 DEF HolderInv, HolderOwnsThread, Busy
<1>8. ASSUME NEW v \in Workers, Holds(v, t)
      PROVE  stamp >= req[v].start - RunTimeout
  <2>1. stamp \in Nat /\ req[w].start <= stamp /\ now <= req[w].start + RunTimeout
    BY <1>2, StampsType DEF ClockInv
  <2>2. req[v].start <= now
    BY <1>8 DEF Holds, ClockInv, TypeOK, Request
  <2>3. req[v].start \in Nat /\ req[w].start \in Nat /\ now \in Nat /\ RunTimeout \in Nat
    BY StaleAssumption DEF TypeOK, Request
  <2>4. QED
    BY <2>1, <2>2, <2>3
<1>9. HolderInv'
  BY <1>4, <1>6, <1>7, <1>8 DEF HolderInv
<1>10. QED
  BY <1>4, <1>5, <1>9

-----------------------------------------------------------------------------
(* Threads, the timer, time.                                               *)

\* Nobody works on an id that was not given out, and no ETag of it is kept.
LEMMA ThreadCreatePreserves ==
  ASSUME LockInv, NEW t \in Threads, ThreadCreate(t)
  PROVE  CoreInv'
<1> USE DEF LockInv, CoreInv, ThreadCreate
<1>1. TypeOK'
  BY DEF TypeOK, Entity, Statuses
<1>2. /\ \A w \in Workers : pc[w] # "free" => req[w].thread # t
      /\ \A s \in Sweepers : \A item \in sweep[s].batch : item[1] # t
  BY DEF ClockInv, SweepInv
<1>3. \A u \in Threads \ {t} : table'[u] = table[u]
  BY DEF TypeOK
<1>4. ClockInv'
  BY DEF ClockInv
<1>5. CasInv'
  BY <1>2, <1>3 DEF CasInv, EtagVouches, Busy
<1>6. \A w \in Workers, u \in Threads : Holds(w, u)' => u # t /\ Holds(w, u)
  BY <1>2 DEF Holds
<1>7. rows' = rows \union {t} /\ rows \subseteq Threads
  BY DEF TypeOK
<1>8. HolderInv' /\ MutualExclusion'
  BY <1>3, <1>6, <1>7 DEF HolderInv, HolderOwnsThread, MutualExclusion, Busy
<1>9. SweepInv'
  <2>1. \A s \in Sweepers : \A item \in sweep[s].batch : item[1] \in Threads
    BY DEF TypeOK, SweepRun
  <2>2. QED
    BY <1>2, <1>3, <2>1 DEF SweepInv, Unmodified, IsStale, Busy
<1>10. QED
  BY <1>1, <1>4, <1>5, <1>8, <1>9

\* A deleted row takes every claim about rows with it.
LEMMA ThreadDeletePreserves ==
  ASSUME LockInv, NEW t \in Threads, ThreadDelete(t)
  PROVE  CoreInv'
<1> USE DEF LockInv, CoreInv, ThreadDelete
<1>1. TypeOK' /\ ClockInv'
  BY DEF TypeOK, ClockInv
<1>2. CasInv'
  BY DEF CasInv, EtagVouches, Busy
<1>3. HolderInv' /\ MutualExclusion'
  BY DEF HolderInv, HolderOwnsThread, MutualExclusion, Holds, Busy
<1>4. SweepInv'
  BY DEF SweepInv, Unmodified, IsStale, Busy
<1>5. QED
  BY <1>1, <1>2, <1>3, <1>4

\* A sweeper that begins has fetched nothing.
LEMMA SweepBeginPreserves ==
  ASSUME LockInv, NEW s \in Sweepers, SweepBegin(s)
  PROVE  TypeOK' /\ SweepInv'
<1> USE DEF LockInv, CoreInv
<1> DEFINE run == [began |-> now, pending |-> rows, batch |-> {}]
<1>1. run \in SweepRun /\ run.began = now /\ run.batch = {}
  BY DEF TypeOK, SweepRun
<1>2. SweepGoesOn(s, run) /\ UNCHANGED <<rows, known, table, pc, req, now, accepted, answer>>
  BY DEF SweepBegin
<1> HIDE DEF run
<1>3. /\ sweep' \in [Sweepers -> SweepRun] /\ sweep'[s] \in {run, NoSweep}
      /\ \A other \in Sweepers : other # s => sweep'[other] = sweep[other]
  BY <1>1, <1>2, SweepGoesOnType
<1>4. sweep'[s].began <= now /\ sweep'[s].batch = {}
  BY <1>1, <1>3 DEF NoSweep, TypeOK
<1>5. TypeOK'
  BY <1>2, <1>3 DEF TypeOK
<1>6. SweepInv'
  BY <1>2, <1>3, <1>4 DEF SweepInv, Unmodified, IsStale, Busy
<1>7. QED
  BY <1>5, <1>6

\* A fetched row is kept only if it is stale.
LEMMA SweepFetchPreserves ==
  ASSUME LockInv, NEW s \in Sweepers, NEW t \in Threads, SweepFetch(s, t)
  PROVE  TypeOK' /\ SweepInv'
<1> USE DEF LockInv, CoreInv
<1> DEFINE p == sweep[s].pending \ {t}
           b == IF IsStale(t, sweep[s].began) THEN sweep[s].batch \union {<<t, table[t].etag>>}
                                              ELSE sweep[s].batch
           run == [sweep[s] EXCEPT !.pending = p, !.batch = b]
<1>1. table[t].etag \in Nat /\ sweep[s] \in SweepRun /\ sweep[s].began \in Nat
  BY DEF TypeOK, Entity, SweepRun
<1>2. p \in SUBSET Threads /\ b \in SUBSET (Threads \X Nat)
  BY <1>1 DEF SweepRun
<1>3. SweepGoesOn(s, run) /\ UNCHANGED <<rows, known, table, pc, req, now, accepted, answer>>
  BY DEF SweepFetch
<1>4. /\ IsStale(t, sweep[s].began) => t \in known
      /\ \A item \in b : \/ item \in sweep[s].batch
                         \/ item = <<t, table[t].etag>> /\ IsStale(t, sweep[s].began)
  BY DEF IsStale, Busy, TypeOK
<1> HIDE DEF p, b
<1>5. run \in SweepRun /\ run.began = sweep[s].began /\ run.batch = b
  BY <1>1, <1>2 DEF SweepRun
<1> HIDE DEF run
<1>6. /\ sweep' \in [Sweepers -> SweepRun] /\ sweep'[s] \in {run, NoSweep}
      /\ \A other \in Sweepers : other # s => sweep'[other] = sweep[other]
  BY <1>3, <1>5, SweepGoesOnType
<1>7. TypeOK'
  BY <1>3, <1>6 DEF TypeOK
<1>8. ASSUME NEW item \in b
      PROVE  /\ item[1] \in known /\ item[2] <= table[item[1]].etag
             /\ Unmodified(item[1], item[2]) => IsStale(item[1], sweep[s].began)
  BY <1>1, <1>4 DEF SweepInv
<1>9. ASSUME NEW o \in Sweepers
      PROVE  /\ sweep'[o].began <= now
             /\ \A item \in sweep'[o].batch :
                  /\ item[1] \in known /\ item[2] <= table[item[1]].etag
                  /\ Unmodified(item[1], item[2]) => IsStale(item[1], sweep'[o].began)
  <2>1. CASE o # s
    BY <1>6, <2>1 DEF SweepInv
  <2>2. CASE o = s /\ sweep'[s] = run
    BY <1>5, <1>8, <2>2 DEF SweepInv
  <2>3. CASE o = s /\ sweep'[s] = NoSweep
    BY <2>3 DEF NoSweep, TypeOK
  <2>4. QED
    BY <1>6, <2>1, <2>2, <2>3
<1>10. SweepInv'
  BY <1>3, <1>9 DEF SweepInv, Unmodified, IsStale, Busy
<1>11. QED
  BY <1>7, <1>10

\* A sweeper that dies forgets what it fetched.
LEMMA SweepDiesPreserves ==
  ASSUME LockInv, NEW s \in Sweepers, SweepDies(s)
  PROVE  TypeOK' /\ SweepInv'
<1> USE DEF LockInv, CoreInv
<1>1. /\ sweep' = [sweep EXCEPT ![s] = NoSweep]
      /\ UNCHANGED <<rows, known, table, pc, req, now, accepted, answer>>
  BY DEF SweepDies
<1>2. NoSweep \in SweepRun /\ NoSweep.began = 0 /\ NoSweep.batch = {}
  BY DEF NoSweep, SweepRun
<1>3. TypeOK'
  BY <1>1, <1>2 DEF TypeOK
<1>4. ASSUME NEW o \in Sweepers
      PROVE  \/ sweep'[o] = sweep[o]
             \/ sweep'[o].began <= now /\ sweep'[o].batch = {}
  <2>1. CASE o = s
    BY <1>1, <1>2, <2>1 DEF TypeOK
  <2>2. CASE o # s
    BY <1>1, <2>2 DEF TypeOK
  <2>3. QED
    BY <2>1, <2>2
<1>5. SweepInv'
  BY <1>1, <1>4 DEF SweepInv, Unmodified, IsStale, Busy
<1>6. QED
  BY <1>3, <1>5

\* The steps of the sweepers that write no row.
LEMMA SweepReadsPreserve ==
  ASSUME LockInv, NEW s \in Sweepers,
         SweepBegin(s) \/ (\E t \in Threads : SweepFetch(s, t)) \/ SweepDies(s)
  PROVE  CoreInv'
<1>1. UNCHANGED <<rows, known, table, pc, req, now, accepted, answer>>
  BY DEF SweepBegin, SweepFetch, SweepDies
<1>2. ClockInv' /\ CasInv' /\ HolderInv' /\ MutualExclusion'
  BY <1>1 DEF LockInv, CoreInv, ClockInv, CasInv, EtagVouches, HolderInv, HolderOwnsThread,
              MutualExclusion, Holds, Busy
<1>3. TypeOK' /\ SweepInv'
  BY SweepBeginPreserves, SweepFetchPreserves, SweepDiesPreserves
<1>4. QED
  BY <1>2, <1>3 DEF CoreInv

\* A stale row whose ETag still matches is held by nobody: a holder that lives
\* started at most RunTimeout ago, and its stamp is at most as much older.
LEMMA StaleIsOrphan ==
  ASSUME LockInv, NEW s \in Sweepers, NEW t \in Threads, IsStale(t, sweep[s].began)
  PROVE  \A w \in Workers : ~Holds(w, t)
<1> SUFFICES ASSUME NEW w \in Workers, Holds(w, t) PROVE FALSE
  OBVIOUS
<1> USE DEF LockInv, CoreInv
<1>1. /\ t \in rows /\ table[t].updated < sweep[s].began - StaleAfter /\ sweep[s].began <= now
  BY DEF IsStale, Busy, SweepInv
<1>2. table[t].updated >= req[w].start - RunTimeout /\ now <= req[w].start + RunTimeout
  BY <1>1 DEF HolderInv, ClockInv, Holds
<1>3. /\ table[t].updated \in Nat /\ sweep[s].began \in Nat /\ now \in Nat /\ req[w].start \in Nat
  BY DEF TypeOK, Entity, Request, SweepRun
<1>4. QED
  BY <1>1, <1>2, <1>3, StaleAssumption

\* The row a reset writes is one nobody holds.
LEMMA SweepResetFacts ==
  ASSUME LockInv, NEW s \in Sweepers, NEW t \in Threads, SweepReset(s, t)
  PROVE  /\ sweep' \in [Sweepers -> SweepRun] /\ SweepShrinks
         /\ UNCHANGED <<rows, known, pc, req, now, accepted, answer>>
         /\ \/ UNCHANGED table
            \/ /\ Busy(t) /\ \A w \in Workers : ~Holds(w, t)
               /\ \E stamp \in Nat : Merge(t, ResetStatus, table[t].assistant, stamp)
<1> USE DEF LockInv, CoreInv
<1>1. PICK etag \in {item[2] : item \in sweep[s].batch} :
         /\ <<t, etag>> \in sweep[s].batch
         /\ SweepGoesOn(s, [sweep[s] EXCEPT !.batch = @ \ {<<t, etag>>}])
         /\ IF Unmodified(t, etag)
              THEN \E stamp \in sweep[s].began .. now :
                     Merge(t, ResetStatus, table[t].assistant, stamp)
              ELSE UNCHANGED table
  BY DEF SweepReset
<1>2. Unmodified(t, etag) => IsStale(t, sweep[s].began)
  BY <1>1 DEF SweepInv
<1>3. IsStale(t, sweep[s].began) => Busy(t) /\ \A w \in Workers : ~Holds(w, t)
  BY StaleIsOrphan DEF IsStale
<1>4. \A stamp \in sweep[s].began .. now : stamp \in Nat
  BY DEF TypeOK, SweepRun
<1> DEFINE b == sweep[s].batch \ {<<t, etag>>}
           run == [sweep[s] EXCEPT !.batch = b]
<1>5. sweep[s] \in SweepRun /\ b \in SUBSET (Threads \X Nat) /\ b \subseteq sweep[s].batch
  BY DEF TypeOK, SweepRun
<1>6. SweepGoesOn(s, run)
  BY <1>1
<1> HIDE DEF b
<1>7. run \in SweepRun /\ run.began = sweep[s].began /\ run.batch = b
  BY <1>5 DEF SweepRun
<1> HIDE DEF run
<1>8. /\ sweep' \in [Sweepers -> SweepRun] /\ sweep'[s] \in {run, NoSweep}
      /\ \A other \in Sweepers : other # s => sweep'[other] = sweep[other]
  BY <1>6, <1>7, SweepGoesOnType
<1>9. NoSweep.began <= now /\ NoSweep.batch = {}
  BY DEF NoSweep, TypeOK
<1>10. SweepShrinks
  BY <1>5, <1>7, <1>8, <1>9 DEF SweepShrinks, SweepInv
<1>11. UNCHANGED <<rows, known, pc, req, now, accepted, answer>>
  BY DEF SweepReset
<1>12. QED
  BY <1>1, <1>2, <1>3, <1>4, <1>8, <1>10, <1>11

\* A reset frees a lock that nobody holds.
LEMMA SweepResetPreserves ==
  ASSUME LockInv, NEW s \in Sweepers, NEW t \in Threads, SweepReset(s, t)
  PROVE  CoreInv'
<1> USE DEF LockInv, CoreInv
<1>1. /\ sweep' \in [Sweepers -> SweepRun] /\ SweepShrinks
      /\ UNCHANGED <<rows, known, pc, req, now, accepted, answer>>
  BY SweepResetFacts
<1>2. ClockInv' /\ MutualExclusion'
  BY <1>1 DEF ClockInv, MutualExclusion, Holds
<1>3. CASE UNCHANGED table
  <2>1. TypeOK' /\ CasInv' /\ HolderInv'
    BY <1>1, <1>3
    DEF TypeOK, CasInv, EtagVouches, HolderInv, HolderOwnsThread, Holds, Busy
  <2>2. SweepInv'
    BY <1>1, <1>3 DEF SweepShrinks, SweepInv, Unmodified, IsStale, Busy
  <2>3. QED
    BY <1>2, <2>1, <2>2
<1>4. CASE /\ Busy(t) /\ \A w \in Workers : ~Holds(w, t)
           /\ \E stamp \in Nat : Merge(t, ResetStatus, table[t].assistant, stamp)
  <2>1. PICK stamp \in Nat : Merge(t, ResetStatus, table[t].assistant, stamp)
    BY <1>4
  <2>2. ResetStatus \in Statuses /\ table[t].assistant \in Assistants \union {None}
    BY ResetAssumption DEF Statuses, TypeOK, Entity
  <2>3. /\ table' \in [Threads -> Entity]
        /\ \A u \in Threads \ {t} : table'[u] = table[u]
    BY <2>1, <2>2, MergeType
  <2>4. TypeOK'
    BY <1>1, <2>3 DEF TypeOK
  <2>5. CasInv'
    <3> SUFFICES ASSUME NEW v \in Workers, NEW u \in Threads,
                        pc'[v] = "write", req'[v].thread = u
                 PROVE  EtagVouches(v, u)'
      BY DEF CasInv
    <3>1. pc[v] = "write" /\ req'[v] = req[v] /\ req[v].thread = u
      BY <1>1
    <3>2. QED
      BY <1>1, <2>1, <2>2, <3>1, MergeCasInv
  <2>6. \A v \in Workers, u \in Threads : Holds(v, u)' => u # t /\ Holds(v, u) /\ req'[v] = req[v]
    BY <1>1, <1>4 DEF Holds
  <2>7. rows' = rows /\ rows \subseteq Threads
    BY <1>1 DEF TypeOK
  <2>8. HolderInv'
    BY <2>3, <2>6, <2>7 DEF HolderInv, HolderOwnsThread, Busy
  <2>9. SweepInv'
    BY <1>1, <2>1, <2>2, MergeSweepInv
  <2>10. QED
    BY <1>2, <2>4, <2>5, <2>8, <2>9
<1>5. QED
  BY <1>3, <1>4, SweepResetFacts

\* Time passes only while every handler is within its limit.
LEMMA TickPreserves ==
  ASSUME LockInv, Tick
  PROVE  CoreInv'
<1> USE DEF LockInv, CoreInv, Tick
<1>1. TypeOK'
  BY DEF TypeOK
<1>2. ClockInv'
  BY StaleAssumption DEF ClockInv, InTime, TypeOK, Request
<1>3. CasInv' /\ HolderInv' /\ MutualExclusion'
  BY DEF CasInv, EtagVouches, HolderInv, HolderOwnsThread, MutualExclusion, Holds, Busy
<1>4. ASSUME NEW s \in Sweepers
      PROVE  /\ sweep[s].began \in Nat /\ now \in Nat /\ now' = now + 1
             /\ UNCHANGED <<rows, known, table, sweep>>
  BY DEF TypeOK, SweepRun
<1>5. SweepInv'
  BY <1>4 DEF SweepInv, Unmodified, IsStale, Busy
<1>6. QED
  BY <1>1, <1>2, <1>3, <1>5

-----------------------------------------------------------------------------
(* The theorems.                                                           *)

\* One case per call of a run.
LEMMA RunStepPreserves ==
  ASSUME LockInv, NEW w \in Workers, RunStep(w)
  PROVE  CoreInv'
<1>1. CASE \/ AcquireRefused(w) \/ AcquireMissing(w) \/ RunRaises(w)
          \/ ReleaseMissing(w) \/ ReleaseConfirm(w)
  <2>1. PICK reply \in Answers : Leave(w, reply)
    BY <1>1 DEF AcquireRefused, AcquireMissing, RunRaises, ReleaseMissing, ReleaseConfirm, Outcome, Answers
  <2>2. UNCHANGED <<rows, known, table, sweep, now, accepted>>
    BY <1>1 DEF AcquireRefused, AcquireMissing, RunRaises, ReleaseMissing, ReleaseConfirm
  <2>3. QED
    BY <2>1, <2>2, LeavePreserves
<1>2. CASE AcquireModified(w)
  BY <1>2, NextAttemptPreserves DEF AcquireModified, At
<1>3. CASE AcquireRead(w)
  BY <1>3, AcquireReadPreserves
<1>4. CASE AcquireWrite(w)
  BY <1>4, AcquireWritePreserves
<1>5. CASE AcquireResent(w)
  BY <1>5, AcquireResentPreserves
<1>6. CASE GraphEnds(w)
  BY <1>6, GraphEndsPreserves
<1>7. CASE ReleaseWrite(w)
  BY <1>7, ReleaseWritePreserves
<1>8. CASE ReleaseRaises(w)
  BY <1>8, RaisedPreserves DEF ReleaseRaises, Releasing, At
<1>9. CASE ReleaseUnconfirmed(w)
  BY <1>9, RaisedPreserves DEF ReleaseUnconfirmed, At
<1>10. QED
  BY <1>1, <1>2, <1>3, <1>4, <1>5, <1>6, <1>7, <1>8, <1>9 DEF RunStep

\* One case per call of a PATCH.
LEMMA PatchStepPreserves ==
  ASSUME LockInv, NEW w \in Workers, PatchStep(w)
  PROVE  CoreInv'
<1>1. CASE PatchWrite(w)
  BY <1>1, PatchWritePreserves
<1>2. CASE PatchMissing(w) \/ PatchEmpty(w) \/ PatchConfirm(w)
  <2>1. PICK reply \in Answers : Leave(w, reply)
    BY <1>2 DEF PatchMissing, PatchEmpty, PatchConfirm, Answers
  <2>2. UNCHANGED <<rows, known, table, sweep, now, accepted>>
    BY <1>2 DEF PatchMissing, PatchEmpty, PatchConfirm
  <2>3. QED
    BY <2>1, <2>2, LeavePreserves
<1>3. QED
  BY <1>1, <1>2 DEF PatchStep

\* One step per action of Next.
LEMMA NextCoreInv == LockInv /\ [Next]_vars => CoreInv'
<1> SUFFICES ASSUME LockInv, [Next]_vars PROVE CoreInv'
  OBVIOUS
<1>1. ASSUME NEW w \in Workers, RunBegin(w) \/ PatchBegin(w) PROVE CoreInv'
  <2>1. CASE RunBegin(w)
    BY <2>1, BeginPreserves DEF RunBegin
  <2>2. CASE PatchBegin(w)
    BY <2>2, BeginPreserves DEF PatchBegin
  <2>3. QED
    BY <1>1, <2>1, <2>2
<1>2. ASSUME NEW w \in Workers, RunStep(w) PROVE CoreInv'
  BY <1>2, RunStepPreserves
<1>3. ASSUME NEW w \in Workers, PatchStep(w) PROVE CoreInv'
  BY <1>3, PatchStepPreserves
<1>4. ASSUME NEW w \in Workers, HostDies(w) PROVE CoreInv'
  BY <1>4, LeavePreserves DEF HostDies, Answers
<1>5. ASSUME NEW t \in Threads, ThreadStep(t) PROVE CoreInv'
  BY <1>5, ThreadCreatePreserves, ThreadDeletePreserves DEF ThreadStep
<1>6. ASSUME NEW s \in Sweepers, SweepStep(s) PROVE CoreInv'
  BY <1>6, SweepReadsPreserve, SweepResetPreserves DEF SweepStep
<1>7. ASSUME NEW s \in Sweepers, SweepDies(s) PROVE CoreInv'
  BY <1>7, SweepReadsPreserve
<1>8. CASE Tick
  BY <1>8, TickPreserves
<1>9. CASE UNCHANGED vars
  <2> USE DEF LockInv, CoreInv, vars
  <2>1. TypeOK' /\ ClockInv'
    BY <1>9 DEF TypeOK, ClockInv
  <2>2. CasInv' /\ HolderInv' /\ MutualExclusion'
    BY <1>9 DEF CasInv, EtagVouches, HolderInv, HolderOwnsThread, MutualExclusion, Holds, Busy
  <2>3. SweepInv'
    BY <1>9 DEF SweepInv, Unmodified, IsStale, Busy
  <2>4. QED
    BY <2>1, <2>2, <2>3
<1>10. QED
  BY <1>1, <1>2, <1>3, <1>4, <1>5, <1>6, <1>7, <1>8, <1>9 DEF Next

\* Only a release whose row is gone is tried again, and ids do not come back.
LEMMA NextAgainInv == LockInv /\ [Next]_vars => AgainInv'
<1> SUFFICES ASSUME LockInv, [Next]_vars, NEW v \in Workers, pc'[v] = "again"
             PROVE  req'[v].thread \notin rows'
  BY DEF AgainInv
<1> USE DEF LockInv, CoreInv
<1>1. CASE UNCHANGED <<pc, req, rows>>
  BY <1>1 DEF AgainInv
<1>2. ASSUME NEW t \in Threads, ThreadStep(t) PROVE req'[v].thread \notin rows'
  <2>1. UNCHANGED <<pc, req>> /\ rows' \subseteq rows \union (Threads \ known)
    BY <1>2 DEF ThreadStep, ThreadCreate, ThreadDelete
  <2>2. req[v].thread \in known
    BY <2>1 DEF ClockInv
  <2>3. QED
    BY <2>1, <2>2 DEF AgainInv
<1>3. ASSUME NEW w \in Workers,
             RunBegin(w) \/ PatchBegin(w) \/ RunStep(w) \/ PatchStep(w) \/ HostDies(w)
      PROVE  req'[v].thread \notin rows'
  <2>1. rows' = rows
    BY <1>3 DEF RunBegin, PatchBegin, Begin, RunStep, PatchStep, HostDies, AcquireRefused,
         AcquireRead, AcquireMissing, AcquireModified, AcquireWrite, AcquireResent, RunRaises, GraphEnds,
         ReleaseWrite, ReleaseMissing, ReleaseRaises, ReleaseConfirm, ReleaseUnconfirmed,
         PatchWrite, PatchMissing, PatchEmpty, PatchConfirm
  <2>2. CASE v # w
    <3>1. pc'[v] = pc[v] /\ req'[v] = req[v]
      BY <1>3, <2>2 DEF TypeOK, Leave, Goto, NextAttempt, AttemptOver, Raised, LockRow, ReleaseRow,
         RunBegin, PatchBegin, Begin, RunStep, PatchStep, HostDies, AcquireRefused,
         AcquireRead, AcquireMissing, AcquireModified, AcquireWrite, AcquireResent, RunRaises, GraphEnds,
         ReleaseWrite, ReleaseMissing, ReleaseRaises, ReleaseConfirm, ReleaseUnconfirmed,
         PatchWrite, PatchMissing, PatchEmpty, PatchConfirm
    <3>2. QED
      BY <2>1, <3>1 DEF AgainInv
  <2>3. CASE v = w
    <3>1. ReleaseRaises(w) \/ ReleaseUnconfirmed(w)
      BY <1>3, <2>3 DEF TypeOK, Leave, Goto, NextAttempt, AttemptOver,
         RunBegin, PatchBegin, Begin, RunStep, PatchStep, HostDies, AcquireRefused,
         AcquireRead, AcquireMissing, AcquireModified, AcquireWrite, AcquireResent, RunRaises, GraphEnds,
         ReleaseWrite, ReleaseMissing, ReleaseConfirm, PatchWrite, PatchMissing, PatchEmpty, PatchConfirm
    <3>2. Raised(w, pc'[w]) /\ (pc[w] = "again" \/ ~Found(w))
      BY <3>1, <2>3 DEF ReleaseRaises, ReleaseUnconfirmed, Raised, Goto, Leave, TypeOK
    <3>3. req'[w].thread = req[w].thread
      BY <3>2, <2>3 DEF Raised, Leave, TypeOK, Request
    <3>4. QED
      BY <2>1, <2>3, <3>2, <3>3 DEF AgainInv, Found
  <2>4. QED
    BY <2>2, <2>3
<1>4. QED
  BY <1>1, <1>2, <1>3 DEF Next, vars, SweepStep, SweepBegin, SweepFetch, SweepReset,
       SweepDies, Tick

\* The invariant is inductive.
LEMMA NextLockInv == LockInv /\ [Next]_vars => LockInv'
  BY NextCoreInv, NextAgainInv DEF LockInv

\* The inductive invariant holds in every behaviour of the table store, its
\* handlers and its timer, for any number of threads, handlers and assistants.
THEOREM LockInvHolds == Spec => []LockInv
<1>1. QED
  BY InitLockInv, NextLockInv, PTL DEF Spec

\* Every variable keeps its type; no acquire makes more than max_attempts.
THEOREM TypeCorrect == Spec => []TypeOK
<1>1. LockInv => TypeOK
  BY DEF LockInv, CoreInv
<1>2. QED
  BY <1>1, LockInvHolds, PTL

\* No two runs of one thread ever execute together, although the release is
\* blind and the timer frees locks on their age alone, provided a lock counts
\* as stale only after twice the time a handler may take (StaleAssumption).
THEOREM RunsExclude == Spec => []MutualExclusion
<1>1. LockInv => MutualExclusion
  BY DEF LockInv, CoreInv
<1>2. QED
  BY <1>1, LockInvHolds, PTL

\* The thread of a run stays busy and bound to the run's assistant: neither
\* the timer nor another handler's release frees a lock in use.
THEOREM RunsOwnTheirThread == Spec => []HolderOwnsThread
<1>1. LockInv => HolderOwnsThread
  BY DEF LockInv, CoreInv, HolderInv
<1>2. QED
  BY <1>1, LockInvHolds, PTL

-----------------------------------------------------------------------------
(* The table store implements the abstract lock.                           *)

\* A step that touches neither table nor threads changes the abstract state
\* by its holders alone.
LEMMA SameTable ==
  ASSUME UNCHANGED <<rows, known, table>>
  PROVE  UNCHANGED <<Phases, BusyThreads, Bindings>>
  BY DEF Phases, BusyThreads, Bindings, Busy

\* When no handler starts or stops holding a lock, the holders stay.
LEMMA SameHolders ==
  ASSUME \A v \in Workers, u \in Threads : Holds(v, u)' <=> Holds(v, u)
  PROVE  UNCHANGED Holders
<1>1. \A u \in Threads : {v \in Workers : Holds(v, u)'} = {v \in Workers : Holds(v, u)}
  OBVIOUS
<1>2. QED
  BY <1>1 DEF Holders

\* A step that changes none of the abstract variables is a stutter.
LEMMA AbstractStutter ==
  ASSUME UNCHANGED <<Phases, BusyThreads, Bindings>>, UNCHANGED Holders
  PROVE  [Lock!Next]_Lock!vars
  BY DEF Lock!vars

\* A handler that leaves gives up its lock, if it had one, as it is.
LEMMA LeaveRefines ==
  ASSUME LockInv, NEW w \in Workers, NEW reply \in Answers, Leave(w, reply),
         UNCHANGED <<rows, known, table>>
  PROVE  [Lock!Next]_Lock!vars
<1>1. \A v \in Workers : (v # w => pc'[v] = pc[v] /\ req'[v] = req[v]) /\ pc'[w] = "free"
  BY DEF Leave, LockInv, CoreInv, TypeOK
<1>2. UNCHANGED <<Phases, BusyThreads, Bindings>>
  BY SameTable
<1>3. CASE \E t \in Threads : Holds(w, t)
  <2>1. PICK t \in Threads : Holds(w, t)
    BY <1>3
  <2>2. \A v \in Workers, u \in Threads : Holds(v, u)' <=> Holds(v, u) /\ v # w
    BY <1>1 DEF Holds
  <2>3. \A u \in Threads : u # t => ~Holds(w, u)
    BY <2>1 DEF Holds
  <2>4. \A u \in Threads : {v \in Workers : Holds(v, u)'} =
                             IF u = t THEN {v \in Workers : Holds(v, u)} \ {w}
                                      ELSE {v \in Workers : Holds(v, u)}
    BY <2>2, <2>3
  <2>5. w \in Holders[t] /\ Holders' = [Holders EXCEPT ![t] = @ \ {w}]
    BY <2>1, <2>4 DEF Holders
  <2>6. Lock!Abandon(w, t)
    BY <1>2, <2>5 DEF Lock!Abandon
  <2>7. QED
    BY <2>6 DEF Lock!Next
<1>4. CASE \A t \in Threads : ~Holds(w, t)
  <2>1. \A v \in Workers, u \in Threads : Holds(v, u)' <=> Holds(v, u)
    BY <1>1, <1>4 DEF Holds
  <2>2. QED
    BY <1>2, <2>1, SameHolders, AbstractStutter
<1>5. QED
  BY <1>3, <1>4

\* Steps of a handler between acquiring and releasing, or outside both.
LEMMA GoesOnRefines ==
  ASSUME LockInv, NEW w \in Workers, UNCHANGED <<rows, known, table>>,
         \A v \in Workers : v # w => pc'[v] = pc[v] /\ req'[v] = req[v],
         \A t \in Threads : Holds(w, t)' <=> Holds(w, t)
  PROVE  [Lock!Next]_Lock!vars
<1>1. \A v \in Workers, u \in Threads : Holds(v, u)' <=> Holds(v, u)
  BY DEF Holds
<1>2. QED
  BY <1>1, SameTable, SameHolders, AbstractStutter

\* An error of the release: the lock is abandoned, or held for another try.
LEMMA RaisedRefines ==
  ASSUME LockInv, NEW w \in Workers, NEW step \in {"release", "again"},
         pc[w] \in {"release", "again", "confirm"}, step = "release" <=> pc[w] = "release",
         Raised(w, step), UNCHANGED <<rows, known, table>>
  PROVE  [Lock!Next]_Lock!vars
<1>1. CASE req[w].outcome = "overflow"
  <2>1. /\ \A v \in Workers : v # w => pc'[v] = pc[v] /\ req'[v] = req[v]
        /\ pc'[w] = step /\ req'[w].thread = req[w].thread
    BY <1>1 DEF Raised, Goto, LockInv, CoreInv, TypeOK, Request
  <2>2. \A t \in Threads : Holds(w, t)' <=> Holds(w, t)
    BY <2>1 DEF Holds
  <2>3. QED
    BY <2>1, <2>2, GoesOnRefines
<1>2. CASE req[w].outcome # "overflow"
  BY <1>2, LeaveRefines DEF Raised, Answers
<1>3. QED
  BY <1>1, <1>2

\* Another attempt, or the answer "busy", touches no lock.
LEMMA NextAttemptRefines ==
  ASSUME LockInv, NEW w \in Workers, pc[w] = "write", NextAttempt(w),
         UNCHANGED <<rows, known, table>>
  PROVE  [Lock!Next]_Lock!vars
<1>1. /\ \A v \in Workers : v # w => pc'[v] = pc[v] /\ req'[v] = req[v]
      /\ pc'[w] \in {"read", "free"}
  BY DEF NextAttempt, AttemptOver, Goto, Leave, LockInv, CoreInv, TypeOK
<1>2. \A t \in Threads : Holds(w, t)' <=> Holds(w, t)
  BY <1>1 DEF Holds
<1>3. QED
  BY <1>1, <1>2, GoesOnRefines

\* The write of an acquire, as the abstract lock sees it.
LEMMA LockRowRefines ==
  ASSUME LockInv, NEW w \in Workers, pc[w] = "write", Found(w), EtagMatches(w),
         LockRow(w), UNCHANGED <<rows, known>>
  PROVE  LET t == req[w].thread
             a == req[w].assistant
         IN  /\ t \in Threads /\ a \in Assistants
             /\ Phases[t] = "live" /\ ~BusyThreads[t] /\ Holders[t] = {}
             /\ Bindings[t] \in {None, a}
             /\ UNCHANGED Phases
             /\ BusyThreads' = [BusyThreads EXCEPT ![t] = TRUE]
             /\ Bindings' = [Bindings EXCEPT ![t] = a]
<1> DEFINE t == req[w].thread
           a == req[w].assistant
<1>1. /\ t \in Threads /\ ~Busy(t) /\ \A v \in Workers : ~Holds(v, t)
  BY LockRowFacts
<1>2. PICK stamp \in Stamps(w) : stamp \in Nat /\ Merge(t, "busy", a, stamp)
  BY LockRowFacts
<1>3. a \in Assistants /\ t \in rows
  BY DEF LockInv, CoreInv, ClockInv, Found
<1>4. table[t].assistant \in {None, a}
  <2>1. EtagVouches(w, t) /\ req[w].etag = table[t].etag
    BY <1>1 DEF LockInv, CoreInv, CasInv, EtagMatches
  <2>2. QED
    BY <1>3, <2>1 DEF EtagVouches
<1>5. /\ table'[t].status = "busy" /\ table'[t].assistant = a
      /\ \A u \in Threads \ {t} : table'[u] = table[u]
  <2>1. TypeOK /\ "busy" \in Statuses /\ a \in Assistants \union {None}
    BY <1>3 DEF LockInv, CoreInv, Statuses
  <2>2. /\ table'[t] = [status |-> "busy", assistant |-> a, updated |-> stamp,
                        etag |-> table[t].etag + 1]
        /\ \A u \in Threads \ {t} : table'[u] = table[u]
    BY <1>1, <1>2, <2>1, MergeType
  <2>3. QED
    BY <2>2
<1> HIDE DEF t, a
<1>6. Phases[t] = "live" /\ ~BusyThreads[t] /\ Holders[t] = {} /\ Bindings[t] \in {None, a}
  BY <1>1, <1>3, <1>4 DEF Phases, BusyThreads, Holders, Bindings
<1>7. UNCHANGED Phases
  BY DEF Phases
<1>8. BusyThreads' = [BusyThreads EXCEPT ![t] = TRUE]
  BY <1>1, <1>3, <1>5 DEF BusyThreads, Busy
<1>9. Bindings' = [Bindings EXCEPT ![t] = a]
  BY <1>1, <1>5 DEF Bindings
<1>10. QED
  BY <1>1, <1>3, <1>6, <1>7, <1>8, <1>9 DEF t, a

\* The compare-and-swap is the abstract Acquire.
LEMMA AcquireWriteRefines ==
  ASSUME LockInv, NEW w \in Workers, AcquireWrite(w)
  PROVE  [Lock!Next]_Lock!vars
<1> DEFINE t == req[w].thread
           a == req[w].assistant
<1>1. /\ pc[w] = "write" /\ Found(w) /\ EtagMatches(w) /\ LockRow(w)
      /\ pc' = [pc EXCEPT ![w] = "running"]
      /\ AttemptOver(w, 0) /\ TypeOK
      /\ UNCHANGED <<rows, known>>
  BY DEF AcquireWrite, At, Goto, LockInv, CoreInv
<1>2. /\ t \in Threads /\ a \in Assistants
      /\ Phases[t] = "live" /\ ~BusyThreads[t] /\ Holders[t] = {}
      /\ Bindings[t] \in {None, a}
      /\ UNCHANGED Phases
      /\ BusyThreads' = [BusyThreads EXCEPT ![t] = TRUE]
      /\ Bindings' = [Bindings EXCEPT ![t] = a]
  BY <1>1, LockRowRefines
<1>3. /\ \A v \in Workers : v # w => pc'[v] = pc[v] /\ req'[v] = req[v]
      /\ pc'[w] = "running" /\ req'[w].thread = t
  <2>1. PICK r \in Request : req' = [req EXCEPT ![w] = r] /\ r.thread = t
    BY <1>1, AttemptOverType
  <2>2. QED
    BY <1>1, <2>1 DEF TypeOK
<1>4. \A v \in Workers : ~Holds(v, t)
  BY <1>1, LockRowFacts
<1> HIDE DEF t, a
<1>5. \A v \in Workers, u \in Threads : Holds(v, u)' <=> Holds(v, u) \/ (v = w /\ u = t)
  BY <1>1, <1>3 DEF Holds
<1>6. \A u \in Threads : {v \in Workers : Holds(v, u)'} =
                           IF u = t THEN {w} ELSE {v \in Workers : Holds(v, u)}
  BY <1>4, <1>5
<1>7. Holders' = [Holders EXCEPT ![t] = {w}]
  BY <1>2, <1>6 DEF Holders
<1>8. Lock!Acquire(w, t, a)
  BY <1>2, <1>7 DEF Lock!Acquire, Lock!Lockable
<1>9. QED
  BY <1>2, <1>8 DEF Lock!Next

\* A compare-and-swap whose answer is lost is the abstract Strand.
LEMMA AcquireResentRefines ==
  ASSUME LockInv, NEW w \in Workers, AcquireResent(w)
  PROVE  [Lock!Next]_Lock!vars
<1> DEFINE t == req[w].thread
           a == req[w].assistant
<1>1. /\ pc[w] = "write" /\ Found(w) /\ EtagMatches(w) /\ LockRow(w) /\ NextAttempt(w)
      /\ UNCHANGED <<rows, known>>
  BY DEF AcquireResent, At
<1>2. /\ t \in Threads /\ a \in Assistants
      /\ Phases[t] = "live" /\ ~BusyThreads[t] /\ Holders[t] = {}
      /\ Bindings[t] \in {None, a}
      /\ UNCHANGED Phases
      /\ BusyThreads' = [BusyThreads EXCEPT ![t] = TRUE]
      /\ Bindings' = [Bindings EXCEPT ![t] = a]
  BY <1>1, LockRowRefines
<1>3. /\ \A v \in Workers : v # w => pc'[v] = pc[v] /\ req'[v] = req[v]
      /\ pc'[w] \in {"read", "free"}
  BY <1>1 DEF NextAttempt, AttemptOver, Goto, Leave, LockInv, CoreInv, TypeOK
<1> HIDE DEF t, a
<1>4. UNCHANGED Holders
  <2>1. \A v \in Workers, u \in Threads : Holds(v, u)' <=> Holds(v, u)
    BY <1>1, <1>3 DEF Holds
  <2>2. QED
    BY <2>1, SameHolders
<1>5. Lock!Strand(t, a)
  BY <1>2, <1>4 DEF Lock!Strand, Lock!Lockable
<1>6. QED
  BY <1>2, <1>5 DEF Lock!Next

\* The merge of a release is the abstract Release.
LEMMA ReleaseWriteRefines ==
  ASSUME LockInv, NEW w \in Workers, ReleaseWrite(w)
  PROVE  [Lock!Next]_Lock!vars
<1> DEFINE t == req[w].thread
           status == IF req[w].outcome = "idle" THEN "idle" ELSE "error"
<1>1. PICK stamp \in Stamps(w) : Merge(t, status, table[t].assistant, stamp)
  BY DEF ReleaseWrite, ReleaseRow
<1>2. /\ pc[w] = "release" /\ t \in rows /\ t \in Threads
      /\ pc' = [pc EXCEPT ![w] = "confirm"]
      /\ req' = [req EXCEPT ![w].asof = now]
      /\ UNCHANGED <<rows, known>>
  BY DEF ReleaseWrite, Releasing, At, Goto, Found, LockInv, AgainInv
<1>3. /\ status \in Statuses /\ status # "busy"
      /\ table[t].assistant \in Assistants \union {None} /\ TypeOK /\ stamp \in Nat
  BY <1>2, StampsType DEF LockInv, CoreInv, TypeOK, Request, Statuses, Entity
<1> HIDE DEF status
<1>4. /\ table'[t] = [status |-> status, assistant |-> table[t].assistant,
                      updated |-> stamp, etag |-> table[t].etag + 1]
      /\ \A u \in Threads \ {t} : table'[u] = table[u]
  BY <1>1, <1>2, <1>3, MergeType
<1>5. /\ \A v \in Workers : v # w => pc'[v] = pc[v] /\ req'[v] = req[v]
      /\ pc'[w] = "confirm" /\ Holds(w, t)
  BY <1>2 DEF LockInv, CoreInv, TypeOK, Holds
<1>6. \A u \in Threads : u # t => ~Holds(w, u)
  BY DEF Holds
<1> HIDE DEF t
<1>7. \A v \in Workers, u \in Threads : Holds(v, u)' <=> Holds(v, u) /\ v # w
  BY <1>5 DEF Holds
<1>8. \A u \in Threads : {v \in Workers : Holds(v, u)'} =
                           IF u = t THEN {v \in Workers : Holds(v, u)} \ {w}
                                    ELSE {v \in Workers : Holds(v, u)}
  BY <1>6, <1>7
<1>9. w \in Holders[t] /\ Holders' = [Holders EXCEPT ![t] = @ \ {w}]
  BY <1>2, <1>5, <1>8 DEF Holders
<1>10. Phases[t] = "live" /\ UNCHANGED Phases
  BY <1>2 DEF Phases
<1>11. BusyThreads' = [BusyThreads EXCEPT ![t] = FALSE]
  <2>1. table'[t].status # "busy" /\ rows' = rows
    BY <1>2, <1>3, <1>4
  <2>2. \A u \in Threads : Busy(u)' = IF u = t THEN FALSE ELSE Busy(u)
    BY <1>4, <2>1 DEF Busy
  <2>3. QED
    BY <2>2 DEF BusyThreads
<1>12. UNCHANGED Bindings
  BY <1>2, <1>4 DEF Bindings
<1>13. Lock!Release(w, t)
  BY <1>9, <1>10, <1>11, <1>12 DEF Lock!Release
<1>14. QED
  BY <1>2, <1>13 DEF Lock!Next

\* A PATCH leaves status and binding alone: a stutter.
LEMMA PatchWriteRefines ==
  ASSUME LockInv, NEW w \in Workers, PatchWrite(w)
  PROVE  [Lock!Next]_Lock!vars
<1> DEFINE t == req[w].thread
<1>1. PICK stamp \in Stamps(w) : Merge(t, table[t].status, table[t].assistant, stamp)
  BY DEF PatchWrite
<1>2. /\ pc[w] = "patch" /\ t \in Threads
      /\ pc' = [pc EXCEPT ![w] = "patched"]
      /\ req' = [req EXCEPT ![w].asof = now]
      /\ UNCHANGED <<rows, known>>
  BY DEF PatchWrite, At, Goto
<1>3. /\ table[t].status \in Statuses /\ table[t].assistant \in Assistants \union {None}
      /\ TypeOK /\ stamp \in Nat
  BY <1>2, StampsType DEF LockInv, CoreInv, TypeOK, Entity
<1>4. /\ table'[t] = [status |-> table[t].status, assistant |-> table[t].assistant,
                      updated |-> stamp, etag |-> table[t].etag + 1]
      /\ \A u \in Threads \ {t} : table'[u] = table[u]
  BY <1>1, <1>2, <1>3, MergeType
<1>5. /\ \A v \in Workers : v # w => pc'[v] = pc[v] /\ req'[v] = req[v]
      /\ pc'[w] = "patched"
  BY <1>2 DEF LockInv, CoreInv, TypeOK
<1> HIDE DEF t
<1>6. \A v \in Workers, u \in Threads : Holds(v, u)' <=> Holds(v, u)
  BY <1>2, <1>5 DEF Holds
<1>7. UNCHANGED <<Phases, BusyThreads, Bindings>>
  BY <1>2, <1>4 DEF Phases, BusyThreads, Bindings, Busy
<1>8. QED
  BY <1>6, <1>7, SameHolders, AbstractStutter

\* Creating and deleting a thread are the abstract Create and Delete.
LEMMA ThreadStepRefines ==
  ASSUME LockInv, FreshInv, NEW t \in Threads, ThreadStep(t)
  PROVE  [Lock!Next]_Lock!vars
<1>1. UNCHANGED <<pc, req>>
  BY DEF ThreadStep, ThreadCreate, ThreadDelete
<1>2. UNCHANGED Holders
  BY <1>1, SameHolders DEF Holds
<1>3. CASE ThreadCreate(t)
  <2>1. /\ t \notin known /\ t \notin rows /\ known' = known \union {t}
        /\ rows' = rows \union {t}
        /\ table'[t].status = "idle" /\ table'[t].assistant = None
        /\ \A u \in Threads \ {t} : table'[u] = table[u]
    BY <1>3 DEF ThreadCreate, LockInv, CoreInv, TypeOK
  <2>2. Phases[t] = "unborn" /\ Phases' = [Phases EXCEPT ![t] = "live"]
    BY <2>1 DEF Phases
  <2>3. \A u \in Threads : Busy(u)' = Busy(u)
    BY <2>1 DEF Busy
  <2>4. UNCHANGED BusyThreads
    BY <2>3 DEF BusyThreads
  <2>5. table[t].assistant = None
    BY <2>1 DEF FreshInv
  <2>6. UNCHANGED Bindings
    BY <2>1, <2>5 DEF Bindings
  <2>7. Lock!Create(t)
    BY <1>2, <2>2, <2>4, <2>6 DEF Lock!Create
  <2>8. QED
    BY <2>7 DEF Lock!Next
<1>4. CASE ThreadDelete(t)
  <2>1. t \in rows /\ t \in known /\ rows' = rows \ {t} /\ known' = known /\ table' = table
    BY <1>4 DEF ThreadDelete, LockInv, CoreInv, TypeOK
  <2>2. Phases[t] = "live" /\ Phases' = [Phases EXCEPT ![t] = "gone"]
    BY <2>1 DEF Phases
  <2>3. Busy(t)' = FALSE /\ \A u \in Threads : u # t => Busy(u)' = Busy(u)
    BY <2>1 DEF Busy
  <2>4. BusyThreads' = [BusyThreads EXCEPT ![t] = FALSE]
    BY <2>3 DEF BusyThreads
  <2>5. UNCHANGED Bindings
    BY <2>1 DEF Bindings
  <2>6. Lock!Delete(t)
    BY <1>2, <2>2, <2>4, <2>5 DEF Lock!Delete
  <2>7. QED
    BY <2>6 DEF Lock!Next
<1>5. QED
  BY <1>3, <1>4 DEF ThreadStep

\* A reset is the abstract Reclaim.
LEMMA SweepResetRefines ==
  ASSUME LockInv, NEW s \in Sweepers, NEW t \in Threads, SweepReset(s, t)
  PROVE  [Lock!Next]_Lock!vars
<1>1. UNCHANGED <<rows, known, pc, req>>
  BY SweepResetFacts
<1>2. UNCHANGED Holders
  BY <1>1, SameHolders DEF Holds
<1>3. CASE UNCHANGED table
  BY <1>1, <1>2, <1>3, SameTable, AbstractStutter
<1>4. CASE /\ Busy(t) /\ \A w \in Workers : ~Holds(w, t)
           /\ \E stamp \in Nat : Merge(t, ResetStatus, table[t].assistant, stamp)
  <2>1. PICK stamp \in Nat : Merge(t, ResetStatus, table[t].assistant, stamp)
    BY <1>4
  <2>2. /\ ResetStatus \in Statuses /\ ResetStatus # "busy" /\ TypeOK
        /\ table[t].assistant \in Assistants \union {None}
    BY ResetAssumption DEF Statuses, LockInv, CoreInv, TypeOK, Entity
  <2>3. /\ table'[t] = [status |-> ResetStatus, assistant |-> table[t].assistant,
                        updated |-> stamp, etag |-> table[t].etag + 1]
        /\ \A u \in Threads \ {t} : table'[u] = table[u]
    BY <2>1, <2>2, MergeType
  <2>4. Phases[t] = "live" /\ UNCHANGED Phases /\ BusyThreads[t] /\ Holders[t] = {}
    BY <1>1, <1>4 DEF Phases, BusyThreads, Holders, Busy
  <2>5. Busy(t)' = FALSE
    BY <2>2, <2>3 DEF Busy
  <2>6. \A u \in Threads : u # t => Busy(u)' = Busy(u)
    BY <1>1, <2>3 DEF Busy
  <2>7. BusyThreads' = [BusyThreads EXCEPT ![t] = FALSE]
    BY <2>5, <2>6 DEF BusyThreads
  <2>8. UNCHANGED Bindings
    BY <2>3 DEF Bindings
  <2>9. Lock!Reclaim(t)
    BY <1>2, <2>4, <2>7, <2>8 DEF Lock!Reclaim
  <2>10. QED
    BY <2>9 DEF Lock!Next
<1>5. QED
  BY <1>3, <1>4, SweepResetFacts

\* One case per call of a run.
LEMMA RunStepRefines ==
  ASSUME LockInv, NEW w \in Workers, RunStep(w)
  PROVE  [Lock!Next]_Lock!vars
<1>1. CASE \/ AcquireRefused(w) \/ AcquireMissing(w) \/ RunRaises(w)
          \/ ReleaseMissing(w) \/ ReleaseConfirm(w)
  <2>1. PICK reply \in Answers : Leave(w, reply)
    BY <1>1 DEF AcquireRefused, AcquireMissing, RunRaises, ReleaseMissing, ReleaseConfirm, Outcome, Answers
  <2>2. UNCHANGED <<rows, known, table>>
    BY <1>1 DEF AcquireRefused, AcquireMissing, RunRaises, ReleaseMissing, ReleaseConfirm
  <2>3. QED
    BY <2>1, <2>2, LeaveRefines
<1>2. CASE AcquireModified(w)
  BY <1>2, NextAttemptRefines DEF AcquireModified, At
<1>3. CASE AcquireRead(w) \/ GraphEnds(w)
  <2>0. /\ req \in [Workers -> Request]
        /\ pc \in [Workers -> Steps]
    BY DEF LockInv, CoreInv, TypeOK
  <2>1. /\ UNCHANGED <<rows, known, table>>
        /\ \A v \in Workers : v # w => pc'[v] = pc[v] /\ req'[v] = req[v]
        /\ \/ pc[w] = "read" /\ pc'[w] = "write"
           \/ pc[w] = "running" /\ pc'[w] = "release"
        /\ req'[w].thread = req[w].thread
    <3>1. CASE AcquireRead(w)
      BY <3>1, <2>0 DEF AcquireRead, At, Goto, Request
    <3>2. CASE GraphEnds(w)
      <4>1. PICK outcome \in Outcomes :
               req' = [req EXCEPT ![w].outcome = outcome, ![w].asof = now]
        BY <3>2 DEF GraphEnds
      <4>2. QED
        BY <3>2, <4>1, <2>0 DEF GraphEnds, At, Goto, Request
    <3>3. QED
      BY <1>3, <3>1, <3>2
  <2>2. \A t \in Threads : Holds(w, t)' <=> Holds(w, t)
    BY <2>1 DEF Holds
  <2>3. QED
    BY <2>1, <2>2, GoesOnRefines
<1>4. CASE AcquireWrite(w)
  BY <1>4, AcquireWriteRefines
<1>5. CASE AcquireResent(w)
  BY <1>5, AcquireResentRefines
<1>6. CASE ReleaseWrite(w)
  BY <1>6, ReleaseWriteRefines
<1>7. CASE ReleaseRaises(w)
  BY <1>7, RaisedRefines DEF ReleaseRaises, Releasing, At
<1>8. CASE ReleaseUnconfirmed(w)
  BY <1>8, RaisedRefines DEF ReleaseUnconfirmed, At
<1>9. QED
  BY <1>1, <1>2, <1>3, <1>4, <1>5, <1>6, <1>7, <1>8 DEF RunStep

\* One case per call of a PATCH.
LEMMA PatchStepRefines ==
  ASSUME LockInv, NEW w \in Workers, PatchStep(w)
  PROVE  [Lock!Next]_Lock!vars
<1>1. CASE PatchWrite(w)
  BY <1>1, PatchWriteRefines
<1>2. CASE PatchMissing(w) \/ PatchEmpty(w) \/ PatchConfirm(w)
  <2>1. PICK reply \in Answers : Leave(w, reply)
    BY <1>2 DEF PatchMissing, PatchEmpty, PatchConfirm, Answers
  <2>2. UNCHANGED <<rows, known, table>>
    BY <1>2 DEF PatchMissing, PatchEmpty, PatchConfirm
  <2>3. QED
    BY <2>1, <2>2, LeaveRefines
<1>3. QED
  BY <1>1, <1>2 DEF PatchStep

\* A request that starts changes nothing abstract.
LEMMA BeginRefines ==
  ASSUME LockInv, NEW w \in Workers, RunBegin(w) \/ PatchBegin(w)
  PROVE  [Lock!Next]_Lock!vars
<1>1. PICK t \in known, a \in Assistants \union {None}, step \in {"read", "patch"} :
        Begin(w, t, a, step)
  BY DEF RunBegin, PatchBegin
<1>2. /\ UNCHANGED <<rows, known, table>> /\ pc[w] = "free"
      /\ \A v \in Workers : v # w => pc'[v] = pc[v] /\ req'[v] = req[v]
      /\ pc'[w] \in {"free", "read", "patch"}
  BY <1>1 DEF Begin, Goto, Leave, LockInv, CoreInv, TypeOK
<1>3. \A u \in Threads : Holds(w, u)' <=> Holds(w, u)
  BY <1>2 DEF Holds
<1>4. QED
  BY <1>2, <1>3, GoesOnRefines

\* Every step is a step of the abstract lock, or a stutter.
LEMMA NextRefines == LockInv /\ FreshInv /\ [Next]_vars => [Lock!Next]_Lock!vars
<1> SUFFICES ASSUME LockInv, FreshInv, [Next]_vars PROVE [Lock!Next]_Lock!vars
  OBVIOUS
<1>1. ASSUME NEW w \in Workers, RunBegin(w) \/ PatchBegin(w) PROVE [Lock!Next]_Lock!vars
  BY <1>1, BeginRefines
<1>2. ASSUME NEW w \in Workers, RunStep(w) PROVE [Lock!Next]_Lock!vars
  BY <1>2, RunStepRefines
<1>3. ASSUME NEW w \in Workers, PatchStep(w) PROVE [Lock!Next]_Lock!vars
  BY <1>3, PatchStepRefines
<1>4. ASSUME NEW w \in Workers, HostDies(w) PROVE [Lock!Next]_Lock!vars
  BY <1>4, LeaveRefines DEF HostDies, Answers
<1>5. ASSUME NEW t \in Threads, ThreadStep(t) PROVE [Lock!Next]_Lock!vars
  BY <1>5, ThreadStepRefines
<1>6. ASSUME NEW s \in Sweepers, NEW t \in Threads, SweepReset(s, t) PROVE [Lock!Next]_Lock!vars
  BY <1>6, SweepResetRefines
<1>7. CASE UNCHANGED <<rows, known, table, pc, req>>
  <2>1. \A v \in Workers, u \in Threads : Holds(v, u)' <=> Holds(v, u)
    BY <1>7 DEF Holds
  <2>2. QED
    BY <1>7, <2>1, SameTable, SameHolders, AbstractStutter
<1>8. CASE \/ Tick
          \/ \E s \in Sweepers : SweepBegin(s) \/ SweepDies(s) \/ \E t \in Threads : SweepFetch(s, t)
  BY <1>7, <1>8 DEF SweepBegin, SweepDies, Tick, SweepFetch
<1>9. CASE UNCHANGED vars
  BY <1>7, <1>9 DEF vars
<1>10. QED
  BY <1>1, <1>2, <1>3, <1>4, <1>5, <1>6, <1>8, <1>9 DEF Next, SweepStep

\* The abstract lock changes the binding of live threads only.
LEMMA AbstractBinding ==
  ASSUME [Lock!Next]_Lock!vars, NEW t \in Threads, Bindings'[t] # Bindings[t]
  PROVE  Phases[t] = "live" /\ Bindings[t] = None
  BY DEF Lock!Next, Lock!vars, Lock!Create, Lock!Reclaim, Lock!Delete, Lock!Strand,
         Lock!Release, Lock!Abandon, Lock!Acquire, Lock!Wipe, Lock!Lockable, Bindings

\* An id that is not given out yet is bound to nothing.
LEMMA NextFresh == LockInv /\ FreshInv /\ [Next]_vars => FreshInv'
<1> SUFFICES ASSUME LockInv, FreshInv, [Next]_vars, NEW t \in Threads, t \notin known'
             PROVE  table'[t].assistant = None
  BY DEF FreshInv
<1>1. known \subseteq known'
  BY DEF Next, vars, RunBegin, PatchBegin, Begin, RunStep, PatchStep, ThreadStep, SweepStep,
         SweepBegin, SweepFetch, SweepReset, SweepDies, Tick, HostDies, ThreadCreate,
         ThreadDelete, AcquireRefused, AcquireRead, AcquireMissing, AcquireModified,
         AcquireWrite, AcquireResent, RunRaises, GraphEnds, ReleaseWrite, ReleaseMissing, ReleaseRaises,
         ReleaseConfirm, ReleaseUnconfirmed, PatchWrite, PatchMissing, PatchEmpty, PatchConfirm
<1>2. Phases[t] # "live" /\ table[t].assistant = None
  BY <1>1 DEF FreshInv, Phases, LockInv, CoreInv, TypeOK
<1>3. Bindings'[t] = Bindings[t]
  BY <1>2, NextRefines, AbstractBinding
<1>4. QED
  BY <1>2, <1>3 DEF Bindings

\* Hence FreshInv is an invariant.
LEMMA FreshHolds == Spec => []FreshInv
<1>1. Init => FreshInv
  <2> SUFFICES ASSUME Init, NEW t \in Threads PROVE table[t].assistant = None
    BY DEF FreshInv
  <2> QED
    BY DEF Init
<1>2. QED
  BY <1>1, NextFresh, LockInvHolds, PTL DEF Spec

\* The table store, its handlers and its timer implement the abstract lock.
THEOREM TableKeepsTheLock == Spec => LockIsKept
<1>1. Init => Lock!Init
  <2> SUFFICES ASSUME Init PROVE Lock!Init
    OBVIOUS
  <2>1. Phases = [t \in Threads |-> "unborn"] /\ BusyThreads = [t \in Threads |-> FALSE]
    BY DEF Init, Phases, BusyThreads, Busy
  <2>2. Bindings = [t \in Threads |-> None]
    BY DEF Init, Bindings
  <2>3. \A t \in Threads : {w \in Workers : Holds(w, t)} = {}
    BY DEF Init, Holds
  <2>4. Holders = [t \in Threads |-> {}]
    BY <2>3 DEF Holders
  <2>5. QED
    BY <2>1, <2>2, <2>4 DEF Lock!Init
<1>2. QED
  BY <1>1, NextRefines, LockInvHolds, FreshHolds, PTL DEF Spec, LockIsKept, Lock!Spec

\* A thread once bound to an assistant stays bound to it.
THEOREM BindingsLast == Spec => BindingIsForever
<1>1. ASSUME LockInv, FreshInv, [Next]_vars
      PROVE  [\A t \in Threads :
                table[t].assistant # None => table'[t].assistant = table[t].assistant]_vars
  BY <1>1, NextRefines, AbstractBinding DEF Bindings
<1>2. QED
  BY <1>1, LockInvHolds, FreshHolds, PTL DEF Spec, BindingIsForever

=============================================================================
