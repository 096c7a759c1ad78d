------------------------- MODULE CosmosHelper_proofs -------------------------
(***************************************************************************)
(* Proofs about CosmosHelper, for any number of calls and closers.         *)
(***************************************************************************)
EXTENDS CosmosHelper, TLAPS

\* Nothing has been called at first.
LEMMA CosmosInitInv == CosmosInit => CosmosTypeOK /\ EnvInv /\ SaverInv
<1> SUFFICES ASSUME CosmosInit PROVE CosmosTypeOK /\ EnvInv /\ SaverInv
  OBVIOUS
<1> USE DEF CosmosInit
<1>1. CosmosTypeOK
  <2>1. original \in Account /\ env \in Account
    BY DEF Account, Setting
  <2>2. close \in [Closers -> [pc : {"free", "check", "managed", "call", "mark", "discard"},
                              saver : Savers, late : BOOLEAN, calls : 0..MaxCloses]]
    BY NamesAssumption DEF NoClose, Savers
  <2>3. QED
    BY <2>1, <2>2 DEF CosmosTypeOK
<1>2. EnvInv
  BY NamesAssumption DEF EnvInv, OwnAccount, EnvIsRestored, Held
<1>3. SaverInv
  BY DEF SaverInv, OpenIsManaged, LaterCloseIsNoOp, Returned, NoClose
<1>4. QED
  BY <1>1, <1>2, <1>3

\* Types: one step of create.
LEMMA CreateType ==
  ASSUME CosmosTypeOK, SaverInv, NEW c \in Calls, Resolve(c) \/ CreateStep(c)
  PROVE  CosmosTypeOK'
<1> USE DEF CosmosTypeOK, Goto, envVars, classVars, trackVars, closeVars
<1>1. CASE Resolve(c)
  BY <1>1 DEF Resolve
<1>2. CASE TakeLock(c)
  BY <1>2 DEF TakeLock, Held
<1>3. CASE SetEndpoint(c)
  BY <1>3 DEF SetEndpoint, Account, Setting, Held
<1>4. CASE SetKey(c)
  BY <1>4 DEF SetKey, Account, Setting, Held
<1>5. CASE Construct(c)
  BY <1>5 DEF Construct, Held
<1>6. CASE Raises(c)
  BY <1>6 DEF Raises, Unwound, Held
<1>7. CASE RestoreEndpoint(c)
  BY <1>7 DEF RestoreEndpoint, Restored, Account, Held
<1>8. CASE RestoreKey(c)
  BY <1>8 DEF RestoreKey, Restored, Account, Held
<1>9. CASE Leave(c)
  BY <1>9 DEF Leave
<1>10. CASE ReadFallback(c)
  BY <1>10 DEF ReadFallback, TrackedBy
<1>11. CASE AddToWeakSet(c)
  <2>1. tracked' \subseteq made
    BY <1>11 DEF AddToWeakSet, SaverInv
  <2>2. pc' = [pc EXCEPT ![c] = IF weakrefs THEN "done" ELSE "flag"]
    BY <1>11 DEF AddToWeakSet
  <2>3. QED
    BY <1>11, <2>1, <2>2 DEF AddToWeakSet
<1>12. CASE SetFallback(c)
  BY <1>12 DEF SetFallback
<1>13. CASE SetMarker(c)
  <2>1. marked' \subseteq made
    BY <1>13 DEF SetMarker, SaverInv
  <2>2. pc' = [pc EXCEPT ![c] = IF attrs THEN "done" ELSE "raised"]
    BY <1>13 DEF SetMarker
  <2>3. QED
    BY <1>13, <2>1, <2>2 DEF SetMarker
<1>14. QED
  BY <1>1, <1>2, <1>3, <1>4, <1>5, <1>6, <1>7, <1>8, <1>9, <1>10, <1>11, <1>12, <1>13
     DEF CreateStep

\* What the beginning of a close does to its closer.
LEMMA BeginType ==
  ASSUME CosmosTypeOK, NEW k \in Closers, CloseBegin(k)
  PROVE  /\ close' \in [Closers -> [pc : {"free", "check", "managed", "call", "mark", "discard"},
                                    saver : Savers, late : BOOLEAN, calls : 0..MaxCloses]]
         /\ close'[k].pc = "check"
         /\ close'[k].late => close'[k].saver \in returned
         /\ \A j \in Closers : j # k => close'[j] = close[j]
<1> USE DEF CosmosTypeOK
<1>1. PICK s \in Returned \union {Foreign} :
        close' = [close EXCEPT ![k].pc = "check", ![k].saver = s, ![k].late = s \in returned,
                               ![k].calls = @ + 1]
  BY DEF CloseBegin
<1>2. s \in Savers /\ close[k].calls + 1 \in 0..MaxCloses
  BY NamesAssumption DEF CloseBegin, Returned, Savers
<1>3. CASE s \in returned
  <2>1. close' = [close EXCEPT ![k].pc = "check", ![k].saver = s, ![k].late = TRUE,
                               ![k].calls = @ + 1]
    BY <1>1, <1>3, Zenon
  <2>2. QED
    BY <2>1, <1>2, <1>3
<1>4. CASE s \notin returned
  <2>1. close' = [close EXCEPT ![k].pc = "check", ![k].saver = s, ![k].late = FALSE,
                               ![k].calls = @ + 1]
    <3>1. (s \in returned) = FALSE
      BY <1>4
    <3>2. QED
      BY <1>1, <3>1, Zenon
  <2>2. QED
    BY <2>1, <1>2
<1>5. QED
  BY <1>3, <1>4

\* What a close that goes on or ends does to its closer.
LEMMA CloserTyped ==
  ASSUME CosmosTypeOK, NEW k \in Closers,
         CloseEnds(k) \/ \E step \in {"managed", "call", "mark", "discard"} : To(k, step)
  PROVE  close' \in [Closers -> [pc : {"free", "check", "managed", "call", "mark", "discard"},
                                 saver : Savers, late : BOOLEAN, calls : 0..MaxCloses]]
<1>1. close \in [Closers -> [pc : {"free", "check", "managed", "call", "mark", "discard"},
                             saver : Savers, late : BOOLEAN, calls : 0..MaxCloses]]
  BY DEF CosmosTypeOK
<1>2. CASE CloseEnds(k)
  <2>1. [close[k] EXCEPT !.pc = "free", !.late = FALSE] \in
          [pc : {"free", "check", "managed", "call", "mark", "discard"},
           saver : Savers, late : BOOLEAN, calls : 0..MaxCloses]
    BY <1>1
  <2>2. close' = [close EXCEPT ![k] = [close[k] EXCEPT !.pc = "free", !.late = FALSE]]
    BY <1>1, <1>2 DEF CloseEnds
  <2>3. QED
    BY <1>1, <2>1, <2>2
<1>3. CASE \E step \in {"managed", "call", "mark", "discard"} : To(k, step)
  <2>1. PICK step \in {"managed", "call", "mark", "discard"} :
          close' = [close EXCEPT ![k].pc = step]
    BY <1>3 DEF To
  <2>2. QED
    BY <1>1, <2>1
<1>4. QED
  BY <1>2, <1>3

\* Types: one step of close.
LEMMA CloseType ==
  ASSUME CosmosTypeOK, SaverInv, NEW k \in Closers, CloseBegin(k) \/ CloseStep(k)
  PROVE  CosmosTypeOK'
<1> USE DEF CosmosTypeOK, envVars, classVars, trackVars
<1>1. CASE CloseBegin(k)
  BY <1>1, BeginType DEF CloseBegin
<1>2. CASE CheckClosed(k)
  BY <1>2, CloserTyped DEF CheckClosed
<1>3. CASE CheckManaged(k)
  BY <1>3, CloserTyped DEF CheckManaged
<1>4. CASE CallClose(k)
  BY <1>4, CloserTyped DEF CallClose
<1>5. CASE CloseRaises(k)
  BY <1>5, CloserTyped DEF CloseRaises
<1>6. CASE MarkClosed(k)
  BY <1>6, CloserTyped DEF MarkClosed, SaverInv
<1>7. CASE Discard(k)
  BY <1>7, CloserTyped DEF Discard, SaverInv
<1>8. QED
  BY <1>1, <1>2, <1>3, <1>4, <1>5, <1>6, <1>7 DEF CloseStep

\* The environment: only the holder of the lock touches it.
LEMMA CreateEnv ==
  ASSUME CosmosTypeOK, EnvInv, NEW c \in Calls, Resolve(c) \/ CreateStep(c)
  PROVE  EnvInv'
<1> USE NamesAssumption
    DEF CosmosTypeOK, EnvInv, OwnAccount, EnvIsRestored, Goto, envVars, classVars, trackVars, closeVars, Held
<1>1. CASE Resolve(c)
  BY <1>1 DEF Resolve
<1>2. CASE TakeLock(c)
  BY <1>2 DEF TakeLock
<1>3. CASE SetEndpoint(c)
  BY <1>3 DEF SetEndpoint, Account
<1>4. CASE SetKey(c)
  BY <1>4 DEF SetKey, Account
<1>5. CASE Construct(c)
  BY <1>5 DEF Construct, Account
<1>6. CASE Raises(c)
  BY <1>6 DEF Raises, Unwound
<1>7. CASE RestoreEndpoint(c)
  BY <1>7 DEF RestoreEndpoint, Restored, Account
<1>8. CASE RestoreKey(c)
  BY <1>8 DEF RestoreKey, Restored, Account
<1>9. CASE Leave(c)
  BY <1>9 DEF Leave
<1>10. CASE ReadFallback(c) \/ SetFallback(c)
  BY <1>10 DEF ReadFallback, TrackedBy, SetFallback
<1>11. CASE AddToWeakSet(c) \/ SetMarker(c)
  BY <1>11 DEF AddToWeakSet, SetMarker
<1>12. QED
  BY <1>1, <1>2, <1>3, <1>4, <1>5, <1>6, <1>7, <1>8, <1>9, <1>10, <1>11 DEF CreateStep

\* The savers: one step of create.
LEMMA CreateSaver ==
  ASSUME CosmosTypeOK, SaverInv, NEW c \in Calls, Resolve(c) \/ CreateStep(c)
  PROVE  SaverInv'
<1> USE DEF CosmosTypeOK, SaverInv, OpenIsManaged, LaterCloseIsNoOp, Returned, IsManaged,
            Goto, envVars, classVars, trackVars, closeVars
<1>1. CASE Resolve(c) \/ TakeLock(c) \/ SetEndpoint(c) \/ SetKey(c)
  BY <1>1 DEF Resolve, TakeLock, SetEndpoint, SetKey
<1>2. CASE Construct(c) \/ Raises(c)
  BY <1>2 DEF Construct, Raises, Unwound
<1>3. CASE RestoreEndpoint(c) \/ RestoreKey(c)
  BY <1>3 DEF RestoreEndpoint, RestoreKey
<1>4. CASE Leave(c)
  BY <1>4 DEF Leave
<1>5. CASE ReadFallback(c) \/ SetFallback(c)
  BY <1>5 DEF ReadFallback, TrackedBy, SetFallback
<1>6. CASE AddToWeakSet(c)
  BY <1>6 DEF AddToWeakSet
<1>7. CASE SetMarker(c)
  BY <1>7 DEF SetMarker
<1>8. QED
  BY <1>1, <1>2, <1>3, <1>4, <1>5, <1>6, <1>7 DEF CreateStep

\* The savers: one step of close.  A saver leaves the WeakSet only when it is closed.
LEMMA CloseSaver ==
  ASSUME CosmosTypeOK, SaverInv, NEW k \in Closers, CloseBegin(k) \/ CloseStep(k)
  PROVE  SaverInv'
<1> USE DEF CosmosTypeOK, SaverInv, OpenIsManaged, LaterCloseIsNoOp, Returned, IsManaged,
            envVars, classVars, trackVars, To, CloseEnds
<1>1. CASE CloseBegin(k)
  <2>1. /\ close'[k].pc = "check"
        /\ close'[k].late => close'[k].saver \in returned
        /\ \A j \in Closers : j # k => close'[j] = close[j]
    BY <1>1, BeginType
  <2>2. UNCHANGED <<pc, made, weakrefs, attrs, fallback, tracked, marked, closed, returned>>
    BY <1>1 DEF CloseBegin
  <2>3. OpenIsManaged'
    BY <2>2
  <2>4. LaterCloseIsNoOp'
    BY <2>1, <2>2
  <2>5. QED
    BY <2>1, <2>2, <2>3, <2>4
<1>2. CASE CheckClosed(k)
  BY <1>2 DEF CheckClosed
<1>3. CASE CheckManaged(k)
  BY <1>3 DEF CheckManaged
<1>4. CASE CallClose(k) \/ CloseRaises(k)
  <2>1. CASE CallClose(k)
    BY <2>1 DEF CallClose
  <2>2. CASE CloseRaises(k)
    BY <2>2 DEF CloseRaises
  <2>3. QED
    BY <1>4, <2>1, <2>2
<1>5. CASE MarkClosed(k)
  BY <1>5 DEF MarkClosed
<1>6. CASE Discard(k)
  BY <1>6 DEF Discard
<1>7. QED
  BY <1>1, <1>2, <1>3, <1>4, <1>5, <1>6 DEF CloseStep

\* A close touches neither the environment nor a saver's account.
LEMMA CloseEnv ==
  ASSUME EnvInv, NEW k \in Closers, CloseBegin(k) \/ CloseStep(k)
  PROVE  EnvInv'
  BY DEF EnvInv, OwnAccount, EnvIsRestored, envVars, CloseStep, CloseBegin, CheckClosed,
         CheckManaged, CallClose, CloseRaises, MarkClosed, Discard

\* Both invariants hold in every reachable state, however many threads there are.
THEOREM CosmosInvHolds == CosmosSpec => [](CosmosTypeOK /\ EnvInv /\ SaverInv)
<1>1. CosmosInit => CosmosTypeOK /\ EnvInv /\ SaverInv
  BY CosmosInitInv
<1>2. CosmosTypeOK /\ EnvInv /\ SaverInv /\ [CosmosNext]_cosmosVars
        => (CosmosTypeOK /\ EnvInv /\ SaverInv)'
  <2> SUFFICES ASSUME CosmosTypeOK, EnvInv, SaverInv, [CosmosNext]_cosmosVars
               PROVE  (CosmosTypeOK /\ EnvInv /\ SaverInv)'
    OBVIOUS
  <2>1. ASSUME NEW c \in Calls, Resolve(c) \/ CreateStep(c)
        PROVE  (CosmosTypeOK /\ EnvInv /\ SaverInv)'
    BY <2>1, CreateType, CreateEnv, CreateSaver
  <2>2. ASSUME NEW k \in Closers, CloseBegin(k) \/ CloseStep(k)
        PROVE  (CosmosTypeOK /\ EnvInv /\ SaverInv)'
    BY <2>2, CloseType, CloseEnv, CloseSaver
  <2>3. CASE UNCHANGED cosmosVars
    BY <2>3 DEF cosmosVars, CosmosTypeOK, EnvInv, OwnAccount, EnvIsRestored, SaverInv,
                OpenIsManaged, LaterCloseIsNoOp, Returned, IsManaged
  <2>4. QED
    BY <2>1, <2>2, <2>3 DEF CosmosNext
<1>3. QED
  BY <1>1, <1>2, PTL DEF CosmosSpec

\* Each saver is connected to the account its own caller named
\* (create_cosmos_checkpointer).
THEOREM SaversOwnTheirAccount == CosmosSpec => []OwnAccount
  BY CosmosInvHolds, PTL DEF EnvInv

\* The environment is what the deployment set whenever nobody holds _env_lock
\* (create_cosmos_checkpointer).
THEOREM EnvironmentIsRestored == CosmosSpec => []EnvIsRestored
  BY CosmosInvHolds, PTL DEF EnvInv

\* A saver that was returned is managed until it is closed, and none is lost that could
\* be tracked (create_cosmos_checkpointer, close_cosmos_checkpointer).
THEOREM OpenSaversAreManaged == CosmosSpec => []OpenIsManaged
  BY CosmosInvHolds, PTL DEF SaverInv

\* A close after a close that returned does nothing (close_cosmos_checkpointer).
THEOREM LaterClosesAreNoOps == CosmosSpec => []LaterCloseIsNoOp
  BY CosmosInvHolds, PTL DEF SaverInv

=============================================================================
