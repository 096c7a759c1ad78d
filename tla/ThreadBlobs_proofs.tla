--------------------------- MODULE ThreadBlobs_proofs ---------------------------
(***************************************************************************)
(* Proofs about put_writes(), retention and delete_thread(), for every set *)
(* of channels, writers, attempts and batches and every bound.             *)
(***************************************************************************)
EXTENDS ThreadBlobs, BlobCheckpointer_proofs

ST == INSTANCE SequenceTheorems

-----------------------------------------------------------------------------
(* Batches of writes.                                                      *)

LEMMA BatchIndexes ==
  ASSUME NEW b \in Batches
  PROVE  /\ b \in Seq(Int) /\ b # <<>> /\ Len(b) \in Nat \ {0}
         /\ \A n \in 1 .. Len(b) : b[n] \in Indexes
<1>1. b \in Seq(Int) /\ b # <<>>
  BY BatchesAssumption
<1>2. Len(b) \in Nat \ {0} /\ DOMAIN b = 1 .. Len(b)
  BY <1>1
<1>3. \A n \in 1 .. Len(b) : b[n] \in Range(b)
  BY <1>2 DEF Range
<1>4. Range(b) \subseteq Indexes
  BY DEF Indexes
<1>5. QED
  BY <1>1, <1>2, <1>3, <1>4

\* A batch is left from one of its indexes on.
LEMMA RestFrom ==
  ASSUME NEW t \in Rests, t # <<>>
  PROVE  \E b \in Batches : \E n \in 1 .. Len(b) : t = SubSeq(b, n, Len(b))
<1>1. PICK b \in Batches : \E n \in 1 .. Len(b) + 1 : t = SubSeq(b, n, Len(b))
  BY DEF Rests
<1>2. PICK n \in 1 .. Len(b) + 1 : t = SubSeq(b, n, Len(b))
  BY <1>1
<1>3. b \in Seq(Int) /\ Len(b) \in Nat
  BY BatchIndexes
<1>4. ASSUME n = Len(b) + 1 PROVE FALSE
  <2>1. n \in Int /\ Len(b) \in Int /\ Len(b) < n
    BY <1>3, <1>4
  <2>2. SubSeq(b, n, Len(b)) = <<>>
    BY <2>1, ST!SubSeqEmpty, Zenon
  <2>3. QED
    BY <1>2, <2>2
<1>5. n \in 1 .. Len(b)
  BY <1>3, <1>4
<1>6. QED
  BY <1>2, <1>5

LEMMA RestStep ==
  ASSUME NEW t \in Rests, t # <<>>
  PROVE  /\ Head(t) \in Indexes /\ Tail(t) \in Rests
         /\ Len(t) # 1 => Tail(t) # <<>>
<1>0. PICK b \in Batches : \E m \in 1 .. Len(b) : t = SubSeq(b, m, Len(b))
  BY RestFrom
<1>1. PICK n \in 1 .. Len(b) : t = SubSeq(b, n, Len(b))
  BY <1>0
<1>2. b \in Seq(Int) /\ Len(b) \in Nat /\ b[n] \in Indexes
  BY BatchIndexes
<1>3. Len(b) \in n .. Len(b) /\ n + 1 \in 1 .. Len(b) + 1
  BY <1>2
<1>4. Head(t) = b[n] /\ Tail(t) = SubSeq(b, n + 1, Len(b))
  BY <1>1, <1>2, <1>3, ST!HeadTailOfSubSeq
<1>5. SubSeq(b, n + 1, Len(b)) \in Rests
  <2>1. SubSeq(b, n + 1, Len(b)) \in {SubSeq(b, m, Len(b)) : m \in 1 .. Len(b) + 1}
    BY <1>3, Zenon
  <2>2. QED
    BY <2>1, Zenon DEF Rests
<1>6. t \in Seq(Int)
  <2>1. n \in Int /\ Len(b) \in Int /\ \A i \in n .. Len(b) : b[i] \in Int
    BY <1>2
  <2>2. QED
    BY <1>1, <2>1, ST!SubSeqProperties
<1>7. Len(t) # 1 => Tail(t) # <<>>
  <2>1. Tail(t) \in Seq(Int) /\ Len(Tail(t)) = Len(t) - 1 /\ Len(t) \in Nat
    BY <1>6, ST!HeadTailProperties
  <2>2. Len(<<>>) = 0
    OBVIOUS
  <2>3. ASSUME Tail(t) = <<>> PROVE Len(t) = 1
    <3>1. Len(t) - 1 = 0 /\ Len(t) \in Nat
      BY <2>1, <2>2, <2>3, Zenon
    <3>2. \A m \in Nat : m - 1 = 0 => m = 1
      OBVIOUS
    <3>3. QED
      BY <3>1, <3>2, Zenon
  <2>4. QED
    BY <2>3, Zenon
<1>8. QED
  BY <1>2, <1>4, <1>5, <1>7

LEMMA WholeBatch ==
  ASSUME NEW b \in Batches
  PROVE  b \in Rests /\ b # <<>>
<1>1. b \in Seq(Int) /\ b # <<>> /\ Len(b) \in Nat \ {0}
  BY BatchIndexes
<1>2. b = SubSeq(b, 1, Len(b)) /\ 1 \in 1 .. Len(b) + 1
  BY <1>1, ST!SubSeqFull
<1>3. QED
  BY <1>1, <1>2 DEF Rests

LEMMA IndexesAreInt == Indexes \subseteq Int
<1>1. ASSUME NEW b \in Batches PROVE Range(b) \subseteq Int
  <2>1. b \in Seq(Int)
    BY BatchIndexes
  <2>2. \A x \in DOMAIN b : b[x] \in Int
    BY <2>1
  <2>3. QED
    BY <2>2 DEF Range
<1>2. QED
  BY <1>1 DEF Indexes

-----------------------------------------------------------------------------
(* The order in which a deletion takes the blobs.                          *)

LEMMA Ranks ==
  /\ \A i \in Ids : i \in Nat /\ i <= MaxId /\ MaxId \in Nat
  /\ \A i : Rank(<<"mark", i, 0>>) = 4 * i
  /\ \A b \in Names : Rank(b) \in Nat
<1>1. \A i \in Ids : i \in Nat /\ i <= MaxId /\ MaxId \in Nat
  BY BoundsAssumption DEF Ids
<1>2. \A i : Rank(<<"mark", i, 0>>) = 4 * i
  BY DEF Rank
<1>3. ASSUME NEW b \in Names PROVE Rank(b) \in Nat
  <2>1. CASE b \in {"mark", "meta"} \X Ids \X {0}
    BY <1>1, <2>1 DEF Rank
  <2>2. CASE b \in {"write"} \X Ids \X Indexes
    BY <1>1, <2>2 DEF Rank
  <2>3. CASE b = <<"latest", 0, 0>>
    BY <2>3, BoundsAssumption DEF Rank
  <2>4. CASE b \in {"value"} \X Ids \X Channels
    BY <2>4, BoundsAssumption DEF Rank
  <2>5. QED
    BY <2>1, <2>2, <2>3, <2>4 DEF Names
<1>4. QED
  BY <1>1, <1>2, <1>3

LEMMA FirstIsFirst ==
  ASSUME ThreadTypeOK, del.todo # {}
  PROVE  First \in del.todo /\ First \in Names /\ \A x \in del.todo : Rank(First) <= Rank(x)
<1>1. del.todo \subseteq Names
  BY DEF ThreadTypeOK, DelState
<1>2. {Rank(x) : x \in del.todo} \in SUBSET Nat /\ {Rank(x) : x \in del.todo} # {}
  BY <1>1, Ranks
<1>3. PICK t \in {Rank(x) : x \in del.todo} : \A u \in {Rank(x) : x \in del.todo} : t <= u
  BY <1>2, LeastExists
<1>4. PICK b \in del.todo : t = Rank(b)
  BY <1>3
<1>5. \A x \in del.todo : Rank(b) <= Rank(x)
  BY <1>3, <1>4
<1>6. QED
  BY <1>1, <1>5, Zenon DEF First

\* A marker comes before the rest of its checkpoint, and before all values.
LEMMA MarkerFirst ==
  ASSUME ThreadTypeOK, del.todo # {}, First[1] # "mark",
         NEW i \in Ids, <<"mark", i, 0>> \in del.todo
  PROVE  First[1] # "value" /\ First[2] # i
<1>1. First \in Names /\ Rank(First) <= Rank(<<"mark", i, 0>>)
  BY FirstIsFirst
<1>2. Rank(First) <= 4 * i /\ i \in Nat /\ i <= MaxId /\ MaxId \in Nat /\ i # 0
  BY <1>1, Ranks DEF Ids
<1>3. ASSUME First[1] = "value" PROVE FALSE
  <2>1. Rank(First) = 4 * MaxId + 5
    BY <1>3 DEF Rank
  <2>2. QED
    BY <1>2, <2>1
<1>4. ASSUME First[2] = i PROVE FALSE
  <2>1. CASE First[1] = "meta"
    BY <1>2, <1>4, <2>1 DEF Rank
  <2>2. CASE First[1] = "write"
    BY <1>2, <1>4, <2>2 DEF Rank
  <2>3. CASE First = <<"latest", 0, 0>>
    BY <1>2, <1>4, <2>3
  <2>4. QED
    BY <1>1, <1>3, <2>1, <2>2, <2>3 DEF Names
<1>5. QED
  BY <1>3, <1>4

-----------------------------------------------------------------------------
(* Types.                                                                  *)

LEMMA ThreadConstants ==
  /\ NoWrites \in [Indexes -> Attempts \union {NoAttempt}]
  /\ <<>> \in Rests
  /\ MaxDeletes \in Nat
  /\ \A i : Stored(i) \subseteq Indexes
  /\ UnderWay \subseteq Attempts
BY AttemptsAssumption DEF NoWrites, Rests, Stored, UnderWay

LEMMA PresentNames == ThreadTypeOK => Present \subseteq Names
<1> SUFFICES ASSUME ThreadTypeOK PROVE Present \subseteq Names
  OBVIOUS
<1>1. marks \subseteq Ids /\ metas \subseteq Ids /\ values \subseteq Channels \X Ids
  BY DEF ThreadTypeOK, TypeOK, Blobs
<1>2. {"mark"} \X marks \X {0} \subseteq Names /\ {"meta"} \X metas \X {0} \subseteq Names
  BY <1>1 DEF Names
<1>3. {<<"write", w[1], w[2]>> : w \in {x \in Ids \X Indexes : x[2] \in Stored(x[1])}}
         \subseteq Names
  BY DEF Names
<1>4. {<<"latest", 0, 0>> : x \in {latest} \ {0}} \subseteq Names
  BY DEF Names
<1>5. {<<"value", v[2], v[1]>> : v \in values} \subseteq Names
  BY <1>1 DEF Names
<1>6. QED
  BY <1>2, <1>3, <1>4, <1>5 DEF Present

LEMMA ThreadTypeInit == ThreadInit => ThreadTypeOK
<1> SUFFICES ASSUME ThreadInit PROVE ThreadTypeOK
  OBVIOUS
<1>1. TypeOK
  BY TypeInit DEF ThreadInit
<1>2. 0 \in 0 .. MaxId /\ MaxDeletes \in 0 .. MaxDeletes
  BY BoundsAssumption, ThreadConstants
<1>3. task \in [Attempts -> TaskState] /\ UnderWay = {}
  BY <1>2, ThreadConstants DEF ThreadInit, TaskState, UnderWay
<1>4. writes \in [Ids -> [Indexes -> Attempts \union {NoAttempt}]]
  BY ThreadConstants DEF ThreadInit
<1>5. del \in DelState
  BY <1>2 DEF ThreadInit, DelState
<1>6. QED
  BY <1>1, <1>2, <1>3, <1>4, <1>5 DEF ThreadInit, ThreadTypeOK

\* A deletion that ends or notes an upload.
LEMMA DelTyped ==
  ASSUME ThreadTypeOK
  PROVE  DelOver \in DelState /\ (Noted => del' \in DelState)
<1>1. del \in DelState
  BY DEF ThreadTypeOK
<1>2. (Present' = Present) \in BOOLEAN
  OBVIOUS
<1>3. \A b \in BOOLEAN : [del EXCEPT !.alone = b] \in DelState
  BY <1>1 DEF DelState
<1>4. QED
  BY <1>1, <1>2, <1>3 DEF DelOver, DelState, Noted

LEMMA GraphTyped ==
  ASSUME ThreadTypeOK, IdInv, NEW w \in Writers, GraphStep(w)
  PROVE  ThreadTypeOK'
<1>1. TypeOK'
  BY LoadTyped, PutBeginTyped, PutStepTyped, WriterStopsTyped
  DEF ThreadTypeOK, GraphStep, GraphLoad, GraphPuts, GraphCommits, GraphStops, PutStep
<1>2. UNCHANGED <<writes, task, sweep>>
  BY DEF GraphStep, GraphLoad, GraphPuts, GraphCommits, GraphStops
<1>3. del' \in DelState
  BY DelTyped DEF GraphStep, GraphLoad, GraphPuts, GraphCommits, GraphStops, ThreadTypeOK
<1>4. hit' \in [writers : SUBSET Writers, ids : SUBSET Ids]
  <2>1. hit \in [writers : SUBSET Writers, ids : SUBSET Ids]
    BY DEF ThreadTypeOK
  <2>2. CASE GraphCommits(w)
    <3>1. put[w].id \in Ids
      BY <2>2, InFlightId DEF GraphCommits, PutMark, InFlight, ThreadTypeOK
    <3>2. QED
      BY <2>1, <2>2, <3>1 DEF GraphCommits
  <2>3. CASE ~GraphCommits(w)
    BY <2>1, <2>3 DEF GraphStep, GraphLoad, GraphPuts, GraphStops
  <2>4. QED
    BY <2>2, <2>3
<1>5. QED
  BY <1>1, <1>2, <1>3, <1>4 DEF ThreadTypeOK, UnderWay

LEMMA AdvancedTyped ==
  ASSUME NEW t \in TaskState, t.todo # <<>>
  PROVE  /\ Advanced(t) \in TaskState
         /\ Advanced(t).pc \in {"look", "upload"} => Advanced(t).todo # <<>>
         /\ Advanced(t).id = t.id /\ Advanced(t).met = t.met
         /\ Advanced(t).pc \in {"look", "over"}
<1>1. t.todo \in Rests
  BY DEF TaskState
<1>2. Tail(t.todo) \in Rests /\ (Len(t.todo) # 1 => Tail(t.todo) # <<>>)
  BY <1>1, RestStep
<1> DEFINE rest == Tail(t.todo)
<1> DEFINE one == Len(t.todo) = 1
<1>3. rest \in Rests /\ (~one => rest # <<>>)
  BY <1>2
<1>4. Advanced(t) = [t EXCEPT !.todo = rest, !.pc = IF one THEN "over" ELSE "look"]
  BY DEF Advanced
<1> HIDE DEF rest, one
<1>5. QED
  BY <1>3, <1>4 DEF TaskState

LEMMA TaskTyped ==
  ASSUME ThreadTypeOK, NEW a \in Attempts, TaskStep(a)
  PROVE  ThreadTypeOK'
<1>0. /\ TypeOK /\ task \in [Attempts -> TaskState]
      /\ \A x \in UnderWay : task[x].todo # <<>>
  BY DEF ThreadTypeOK
<1>1. TypeOK'
  BY <1>0 DEF TaskStep, TaskBegin, TaskLook, TaskUpload, TaskDies, vars, TypeOK
<1>2. sweep' = sweep /\ hit' = hit
  BY DEF TaskStep, TaskBegin, TaskLook, TaskUpload, TaskDies
<1>3. del' \in DelState
  BY DelTyped DEF TaskStep, TaskBegin, TaskLook, TaskUpload, TaskDies, ThreadTypeOK
<1>4. writes' \in [Ids -> [Indexes -> Attempts \union {NoAttempt}]]
  <2>1. writes \in [Ids -> [Indexes -> Attempts \union {NoAttempt}]]
    BY DEF ThreadTypeOK
  <2>2. CASE TaskUpload(a)
    <3>1. PICK i, k : writes' = [writes EXCEPT ![i][k] = a]
      BY <2>2 DEF TaskUpload
    <3>2. QED
      BY <2>1, <3>1
  <2>3. CASE writes' = writes
    BY <2>1, <2>3
  <2>4. QED
    BY <2>2, <2>3 DEF TaskStep, TaskBegin, TaskLook, TaskDies
<1>5. /\ task' \in [Attempts -> TaskState]
      /\ \A x \in Attempts : task'[x].pc \in {"look", "upload"} => task'[x].todo # <<>>
  <2>1. CASE TaskBegin(a)
    <3>1. PICK i \in (IF Basis = {} THEN 1 .. lastId ELSE Basis), b \in Batches :
         task' = [x \in Attempts |->
                    IF x = a THEN [pc |-> "look", id |-> i, todo |-> b, met |-> UnderWay]
                    ELSE IF x \in UnderWay THEN [task[x] EXCEPT !.met = @ \union {a}]
                    ELSE task[x]]
      BY <2>1 DEF TaskBegin
    <3>2. i \in 0 .. MaxId
      <4>1. lastId \in 0 .. MaxId /\ MaxId \in Nat
        BY <1>0, BoundsAssumption DEF TypeOK
      <4>2. Basis \subseteq 0 .. MaxId
        BY <1>0 DEF Basis, TaskState
      <4>3. QED
        BY <4>1, <4>2
    <3>3. b \in Rests /\ b # <<>>
      BY WholeBatch
    <3>4. [pc |-> "look", id |-> i, todo |-> b, met |-> UnderWay] \in TaskState
      BY <3>2, <3>3, ThreadConstants DEF TaskState
    <3>5. \A x \in Attempts : [task[x] EXCEPT !.met = @ \union {a}] \in TaskState
      BY <1>0 DEF TaskState
    <3>6. /\ DOMAIN task' = Attempts
          /\ task'[a] = [pc |-> "look", id |-> i, todo |-> b, met |-> UnderWay]
          /\ \A x \in Attempts \ {a} :
                task'[x] \in {task[x], [task[x] EXCEPT !.met = @ \union {a}]}
      BY <3>1
    <3>7. task' \in [Attempts -> TaskState]
      BY <1>0, <3>1, <3>4, <3>5
    <3>8. ASSUME NEW x \in Attempts \ {a}
          PROVE  task'[x].pc = task[x].pc /\ task'[x].todo = task[x].todo
      BY <1>0, <3>6 DEF TaskState
    <3>9. task'[a].todo # <<>>
      BY <3>3, <3>6
    <3>10. QED
      BY <1>0, <3>7, <3>8, <3>9 DEF UnderWay
  <2>2. CASE TaskLook(a) \/ TaskUpload(a)
    <3>1. task[a] \in TaskState /\ task[a].todo # <<>>
      BY <1>0, <2>2 DEF TaskLook, TaskUpload, UnderWay
    <3>2. [task[a] EXCEPT !.pc = "upload"] \in TaskState
      BY <3>1 DEF TaskState
    <3>3. /\ Advanced(task[a]) \in TaskState
          /\ Advanced(task[a]).pc \in {"look", "upload"} => Advanced(task[a]).todo # <<>>
      BY <3>1, AdvancedTyped
    <3>4. task' \in {[task EXCEPT ![a] = Advanced(task[a])],
                     [task EXCEPT ![a] = [task[a] EXCEPT !.pc = "upload"]]}
      BY <1>0, <2>2 DEF TaskLook, TaskUpload
    <3>5. \A x \in Attempts : x # a => task'[x] = task[x]
      BY <1>0, <3>4
    <3>6. task'[a] \in {Advanced(task[a]), [task[a] EXCEPT !.pc = "upload"]}
      BY <1>0, <3>4
    <3>7. [task[a] EXCEPT !.pc = "upload"].todo # <<>>
      BY <3>1 DEF TaskState
    <3>8. task' \in [Attempts -> TaskState]
      BY <1>0, <3>2, <3>3, <3>4
    <3>9. QED
      BY <1>0, <3>3, <3>5, <3>6, <3>7, <3>8 DEF UnderWay
  <2>3. CASE TaskDies(a)
    <3>0. task[a] \in TaskState /\ <<>> \in Rests
      BY <1>0, ThreadConstants
    <3>1. [task[a] EXCEPT !.pc = "over", !.todo = <<>>] \in TaskState
      BY <3>0 DEF TaskState
    <3>2. task' = [task EXCEPT ![a] = [task[a] EXCEPT !.pc = "over", !.todo = <<>>]]
      BY <1>0, <2>3 DEF TaskDies
    <3>3. QED
      BY <1>0, <3>1, <3>2 DEF UnderWay, TaskState
  <2>4. QED
    BY <2>1, <2>2, <2>3 DEF TaskStep
<1>6. QED
  BY <1>1, <1>2, <1>3, <1>4, <1>5 DEF ThreadTypeOK, UnderWay

LEMMA SweepTyped ==
  ASSUME ThreadTypeOK, SweepStep
  PROVE  ThreadTypeOK'
<1>1. TypeOK'
  <2>1. CASE SweepDies
    BY <2>1, ConstantsTyped DEF SweepDies, ThreadTypeOK, TypeOK, blobs
  <2>2. CASE SweepWrite
    BY <2>2 DEF SweepWrite, ThreadTypeOK, TypeOK, vars
  <2>3. CASE SweepBegin \/ SweepMark \/ SweepMeta
    BY <2>3, PruneTyped DEF SweepBegin, SweepMark, SweepMeta, PruneStep, ThreadTypeOK
  <2>4. QED
    BY <2>1, <2>2, <2>3 DEF SweepStep
<1>2. UNCHANGED <<task, del, hit>>
  BY DEF SweepStep, SweepBegin, SweepMark, SweepMeta, SweepWrite, SweepDies
<1>3. writes' \in [Ids -> [Indexes -> Attempts \union {NoAttempt}]]
  BY DEF SweepStep, SweepBegin, SweepMark, SweepMeta, SweepWrite, SweepDies, ThreadTypeOK
<1>4. sweep' \in [id : 0 .. MaxId, todo : SUBSET Indexes]
  <2>1. CASE SweepMark
    <3>1. prune.todo \in SUBSET Ids /\ prune.todo # {}
      BY <2>1 DEF SweepMark, PruneMark, ThreadTypeOK, TypeOK, PruneState
    <3>2. Newest(prune.todo) \in 0 .. MaxId
      BY <3>1, NewestOf, BoundsAssumption DEF Ids
    <3>3. QED
      BY <2>1, <3>2, ThreadConstants DEF SweepMark
  <2>2. CASE SweepWrite
    BY <2>2 DEF SweepWrite, ThreadTypeOK
  <2>3. CASE SweepDies
    BY <2>3, BoundsAssumption DEF SweepDies
  <2>4. CASE SweepBegin \/ SweepMeta
    BY <2>4 DEF SweepBegin, SweepMeta, ThreadTypeOK
  <2>5. QED
    BY <2>1, <2>2, <2>3, <2>4 DEF SweepStep
<1>5. QED
  BY <1>1, <1>2, <1>3, <1>4 DEF ThreadTypeOK, UnderWay

LEMMA DeleteTyped ==
  ASSUME ThreadTypeOK, DeleteStep
  PROVE  ThreadTypeOK'
<1>1. CASE DeleteBegin
  <2>1. del' \in DelState
    <3>1. del.left \in 0 .. MaxDeletes /\ MaxDeletes \in Nat /\ del.left > 0
      BY <1>1, ThreadConstants DEF DeleteBegin, ThreadTypeOK, DelState
    <3>2. del.left - 1 \in 0 .. MaxDeletes
      BY <3>1
    <3>3. QED
      BY <1>1, <3>2, PresentNames DEF DeleteBegin, DelState
  <2>2. hit' \in [writers : SUBSET Writers, ids : SUBSET Ids]
    BY <1>1 DEF DeleteBegin, ThreadTypeOK
  <2>3. QED
    BY <1>1, <2>1, <2>2 DEF DeleteBegin, ThreadTypeOK, TypeOK, UnderWay, vars
<1>2. CASE DeleteBlob
  <2>1. First \in Names
    BY <1>2, FirstIsFirst DEF DeleteBlob
  <2>2. PICK b \in Names :
         /\ marks' = IF b[1] = "mark" THEN marks \ {b[2]} ELSE marks
         /\ versions' = IF b[1] = "mark" THEN [versions EXCEPT ![b[2]] = NoVersions] ELSE versions
         /\ metas' = IF b[1] = "meta" THEN metas \ {b[2]} ELSE metas
         /\ writes' = IF b[1] = "write" THEN [writes EXCEPT ![b[2]][b[3]] = NoAttempt]
                      ELSE writes
         /\ latest' = IF b[1] = "latest" THEN 0 ELSE latest
         /\ values' = IF b[1] = "value" THEN values \ {<<b[3], b[2]>>} ELSE values
         /\ del' = [del EXCEPT !.todo = @ \ {b}]
    BY <1>2, <2>1 DEF DeleteBlob
  <2>3. TypeOK'
    <3>1. TypeOK /\ UNCHANGED <<modified, lastId, put, prune, gc, get, now>>
      BY <1>2 DEF DeleteBlob, ThreadTypeOK
    <3>2. values' \subseteq values /\ metas' \subseteq metas /\ marks' \subseteq marks
      BY <2>2
    <3>3. versions' \in [Ids -> Versions]
      BY <2>2, <3>1, ConstantsTyped DEF TypeOK
    <3>4. latest' \in 0 .. MaxId
      BY <2>2, <3>1, BoundsAssumption DEF TypeOK
    <3>5. QED
      BY <3>1, <3>2, <3>3, <3>4 DEF TypeOK
  <2>4. writes' \in [Ids -> [Indexes -> Attempts \union {NoAttempt}]]
    BY <2>2 DEF ThreadTypeOK
  <2>5. del' \in DelState
    BY <2>2 DEF ThreadTypeOK, DelState
  <2>6. QED
    BY <1>2, <2>3, <2>4, <2>5 DEF DeleteBlob, ThreadTypeOK, UnderWay
<1>3. CASE DeleteFails \/ DeleteEnd \/ DeleteDies
  BY <1>3, DelTyped DEF DeleteFails, DeleteEnd, DeleteDies, OnMissing, ThreadTypeOK, TypeOK,
                        UnderWay, vars
<1>4. QED
  BY <1>1, <1>2, <1>3 DEF DeleteStep

LEMMA ThreadTypeStep ==
  ASSUME ThreadTypeOK, IdInv, [ThreadNext]_allVars
  PROVE  ThreadTypeOK'
<1>1. CASE UNCHANGED allVars
  BY <1>1 DEF allVars, vars, ThreadTypeOK, TypeOK, UnderWay
<1>2. QED
  BY <1>1, GraphTyped, TaskTyped, SweepTyped, DeleteTyped DEF ThreadNext

-----------------------------------------------------------------------------
(* Ids are given out once, and what retention has listed does not come     *)
(* back.                                                                   *)

\* A step that begins, uploads and commits nothing.
LEMMA ThreadIdFrame ==
  ASSUME ThreadTypeOK, ThreadIdInv,
         UNCHANGED <<lastId, gc, get>>, marks' \subseteq marks, values' \subseteq values,
         prune'.todo \union {prune'.half, sweep'.id}
            \subseteq {0} \union marks \union prune.todo \union {prune.half, sweep.id},
         prune'.half \notin marks', sweep'.id \notin marks',
         \A w \in Writers : InFlight(w)' => InFlight(w) /\ put'[w].id = put[w].id
  PROVE  ThreadIdInv'
<1> DEFINE known == {0} \union marks \union prune.todo \union {prune.half, sweep.id}
<1>0. lastId \in Nat
  BY BoundsAssumption DEF ThreadTypeOK, TypeOK
<1>1. known \subseteq 0 .. lastId
  <2>1. 0 \in 0 .. lastId /\ 1 .. lastId \subseteq 0 .. lastId
    BY <1>0
  <2>2. marks \subseteq 1 .. lastId /\ prune.half \in 0 .. lastId
    BY DEF ThreadIdInv, IdInv
  <2>3. prune.todo \union {sweep.id} \subseteq 0 .. lastId
    BY DEF ThreadIdInv
  <2>4. QED
    BY <2>1, <2>2, <2>3
<1>2. ASSUME NEW w \in Writers, InFlight(w)
      PROVE  put[w].id \in 1 .. lastId /\ put[w].id \notin known
  BY <1>0, <1>2 DEF ThreadIdInv, IdInv
<1>3. prune'.todo \union {prune'.half, sweep'.id} \subseteq known
  OBVIOUS
<1> HIDE DEF known
<1>4. ASSUME NEW w \in Writers, InFlight(w)'
      PROVE  put'[w].id \notin prune'.todo \union {sweep'.id}
  BY <1>2, <1>3, <1>4
<1>5. ASSUME NEW w \in Writers, InFlight(w)'
      PROVE  /\ put'[w].id \in 1 .. lastId'
             /\ put'[w].id \notin marks' \union gc'.todo \union {prune'.half}
             /\ \A r \in Readers : put'[w].id # get'[r].id
             /\ \A v \in Writers : InFlight(v)' /\ put'[v].id = put'[w].id => v = w
  <2>1. put'[w].id = put[w].id /\ InFlight(w)
    BY <1>5
  <2>2. put[w].id # prune'.half
    BY <1>2, <1>3, <2>1
  <2>3. QED
    BY <1>5, <2>1, <2>2 DEF ThreadIdInv, IdInv
<1>6. prune'.half \in 0 .. lastId' /\ prune'.todo \union {sweep'.id} \subseteq 0 .. lastId'
  BY <1>1, <1>3
<1>7. IdInv'
  BY <1>5, <1>6 DEF ThreadIdInv, IdInv
<1>8. QED
  BY <1>4, <1>6, <1>7 DEF ThreadIdInv

\* A writer's steps that neither begin nor commit a put leave the id in flight.
LEMMA StaysInFlight ==
  ASSUME TypeOK, NEW w \in Writers,
         Load(w) \/ PutValue(w) \/ PutMeta(w) \/ PutReadLatest(w) \/ PutLatest(w)
            \/ WriterStops(w)
  PROVE  /\ \A v \in Writers \ {w} : put'[v] = put[v]
         /\ \A v \in Writers : InFlight(v)' => InFlight(v) /\ put'[v].id = put[v].id
<1>1. \A v \in Writers \ {w} : put'[v] = put[v]
  BY DEF Load, PutValue, PutMeta, PutReadLatest, PutLatest, WriterStops, TypeOK
<1>2. InFlight(w)' => InFlight(w) /\ put'[w].id = put[w].id
  <2>1. CASE Load(w)
    BY <2>1 DEF Load, InFlight, TypeOK, Idle
  <2>2. CASE PutValue(w)
    <3>1. PICK c \in put[w].todo : put' = [put EXCEPT ![w].todo = @ \ {c}]
      BY <2>2 DEF PutValue
    <3>2. QED
      BY <3>1 DEF InFlight, TypeOK, PutState
  <2>3. CASE PutMeta(w)
    BY <2>3 DEF PutMeta, InFlight, TypeOK, PutState
  <2>4. CASE PutReadLatest(w)
    BY <2>4 DEF PutReadLatest, InFlight, TypeOK, PutState
  <2>5. CASE PutLatest(w)
    BY <2>5 DEF PutLatest, InFlight, TypeOK, Idle
  <2>6. CASE WriterStops(w)
    BY <2>6 DEF WriterStops, InFlight, TypeOK, Idle
  <2>7. QED
    BY <2>1, <2>2, <2>3, <2>4, <2>5, <2>6
<1>3. QED
  BY <1>1, <1>2 DEF InFlight

LEMMA GraphIds ==
  ASSUME ThreadTypeOK, ThreadIdInv, NEW w \in Writers, GraphStep(w)
  PROVE  ThreadIdInv'
<1>0. TypeOK /\ IdInv /\ lastId \in Nat
  BY BoundsAssumption DEF ThreadTypeOK, ThreadIdInv, TypeOK
<1>1. sweep' = sweep
  BY DEF GraphStep, GraphLoad, GraphPuts, GraphCommits, GraphStops
<1>2. CASE Load(w) \/ PutValue(w) \/ PutMeta(w) \/ PutReadLatest(w) \/ PutLatest(w)
              \/ WriterStops(w)
  <2>1. IdInv'
    BY <1>0, <1>2, WriterIds, PutValueIds
  <2>2. UNCHANGED <<lastId, marks, prune>>
    BY <1>2 DEF Load, PutValue, PutMeta, PutReadLatest, PutLatest, WriterStops, blobs
  <2>3. \A v \in Writers : InFlight(v)' => InFlight(v) /\ put'[v].id = put[v].id
    BY <1>0, <1>2, StaysInFlight
  <2>4. QED
    BY <1>1, <2>1, <2>2, <2>3 DEF ThreadIdInv
<1>3. CASE PutBegin(w)
  <2>1. IdInv'
    BY <1>0, <1>3, PutBeginIds
  <2>2. UNCHANGED <<marks, prune>> /\ lastId' = lastId + 1
    BY <1>3 DEF PutBegin, blobs
  <2>3. /\ put'[w].id = lastId + 1
        /\ \A v \in Writers \ {w} : put'[v] = put[v]
    BY <1>0, <1>3 DEF PutBegin, TypeOK
  <2>4. prune.todo \union {sweep.id} \subseteq 0 .. lastId
    BY DEF ThreadIdInv
  <2>5. lastId + 1 \notin 0 .. lastId /\ 0 .. lastId \subseteq 0 .. lastId + 1
    BY <1>0
  <2>6. ASSUME NEW v \in Writers, InFlight(v)'
        PROVE  put'[v].id \notin prune.todo \union {sweep.id}
    <3>1. CASE v = w
      BY <2>3, <2>4, <2>5, <3>1
    <3>2. CASE v # w
      BY <2>3, <2>6, <3>2 DEF ThreadIdInv, InFlight
    <3>3. QED
      BY <3>1, <3>2
  <2>7. QED
    BY <1>1, <2>1, <2>2, <2>4, <2>5, <2>6 DEF ThreadIdInv
<1>4. CASE PutMark(w)
  <2>1. IdInv'
    BY <1>0, <1>4, PutMarkIds
  <2>2. /\ UNCHANGED <<lastId, prune>> /\ marks' = marks \union {put[w].id}
        /\ InFlight(w) /\ ~InFlight(w)'
        /\ \A v \in Writers \ {w} : put'[v] = put[v]
    BY <1>0, <1>4 DEF PutMark, InFlight, TypeOK, PutState
  <2>3. \A v \in Writers : InFlight(v)' => InFlight(v) /\ put'[v] = put[v]
    BY <2>2 DEF InFlight
  <2>4. QED
    BY <1>1, <2>1, <2>2, <2>3 DEF ThreadIdInv
<1>5. QED
  BY <1>2, <1>3, <1>4 DEF GraphStep, GraphLoad, GraphPuts, GraphCommits, GraphStops

LEMMA SweepIds ==
  ASSUME ThreadTypeOK, ThreadIdInv, SweepStep
  PROVE  ThreadIdInv'
<1>1. UNCHANGED <<lastId, gc, get, put, values>> /\ marks' \subseteq marks
  BY DEF SweepStep, SweepBegin, SweepMark, SweepMeta, SweepWrite, SweepDies, PruneBegin,
         PruneMark, PruneMeta, blobs, vars
<1>2. \A w \in Writers : InFlight(w)' => InFlight(w) /\ put'[w].id = put[w].id
  BY <1>1 DEF InFlight
<1>3. /\ prune.half \notin marks /\ sweep.id \notin marks /\ 0 \notin marks
  BY DEF ThreadIdInv, IdInv, ThreadTypeOK, TypeOK, Ids
<1>4. /\ prune'.todo \union {prune'.half, sweep'.id}
            \subseteq {0} \union marks \union prune.todo \union {prune.half, sweep.id}
      /\ prune'.half \notin marks' /\ sweep'.id \notin marks'
  <2>1. CASE SweepBegin
    <3>1. prune'.todo \subseteq marks /\ prune'.half = 0
      BY <2>1 DEF SweepBegin, PruneBegin, NoPrune, Older
    <3>2. sweep' = sweep /\ marks' = marks
      BY <2>1 DEF SweepBegin, PruneBegin, blobs
    <3>3. QED
      BY <1>3, <3>1, <3>2
  <2>2. CASE SweepMark
    <3>1. Newest(prune.todo) \in prune.todo
      BY <2>2, NewestOf DEF SweepMark, PruneMark, ThreadTypeOK, TypeOK, PruneState
    <3>2. /\ prune'.todo \subseteq prune.todo
          /\ prune'.half = Newest(prune.todo) /\ sweep'.id = Newest(prune.todo)
          /\ marks' = marks \ {Newest(prune.todo)}
      BY <2>2 DEF SweepMark, PruneMark
    <3>3. QED
      BY <3>1, <3>2
  <2>3. CASE SweepMeta
    BY <1>3, <2>3 DEF SweepMeta, PruneMeta, ThreadTypeOK, TypeOK, PruneState
  <2>4. CASE SweepWrite
    BY <1>3, <2>4 DEF SweepWrite, ThreadTypeOK, vars
  <2>5. CASE SweepDies
    BY <1>3, <2>5 DEF SweepDies, NoPrune, blobs
  <2>6. QED
    BY <2>1, <2>2, <2>3, <2>4, <2>5 DEF SweepStep
<1>5. QED
  BY <1>1, <1>2, <1>4, ThreadIdFrame

LEMMA DeleteIds ==
  ASSUME ThreadTypeOK, ThreadIdInv, DeleteStep
  PROVE  ThreadIdInv'
<1>1. UNCHANGED <<lastId, gc, get, put, prune, sweep>>
  BY DEF DeleteStep, DeleteBegin, DeleteBlob, DeleteFails, DeleteEnd, DeleteDies, vars
<1>2. marks' \subseteq marks /\ values' \subseteq values
  BY DEF DeleteStep, DeleteBegin, DeleteBlob, DeleteFails, DeleteEnd, DeleteDies, vars
<1>3. \A w \in Writers : InFlight(w)' => InFlight(w) /\ put'[w].id = put[w].id
  BY <1>1 DEF InFlight
<1>4. prune.half \notin marks /\ sweep.id \notin marks
  BY DEF ThreadIdInv, IdInv
<1>5. QED
  BY <1>1, <1>2, <1>3, <1>4, ThreadIdFrame

LEMMA ThreadIdStep ==
  ASSUME ThreadTypeOK, ThreadIdInv, [ThreadNext]_allVars
  PROVE  ThreadIdInv'
<1>1. CASE UNCHANGED <<vars, sweep>>
  BY <1>1 DEF vars, ThreadIdInv, IdInv, InFlight
<1>2. CASE \E a \in Attempts : TaskStep(a)
  BY <1>1, <1>2 DEF TaskStep, TaskBegin, TaskLook, TaskUpload, TaskDies
<1>3. QED
  BY <1>1, <1>2, GraphIds, SweepIds, DeleteIds DEF ThreadNext, allVars

-----------------------------------------------------------------------------
(* What a deletion leaves.                                                 *)

LEMMA NotedDel ==
  ASSUME ThreadTypeOK, Noted
  PROVE  /\ del'.on = del.on /\ del'.todo = del.todo
         /\ del.on /\ del'.alone => del.alone /\ Present' = Present
<1>1. del \in DelState
  BY DEF ThreadTypeOK
<1>2. CASE del.on /\ del.alone
  <2>1. del' = [del EXCEPT !.alone = (Present' = Present)]
    BY <1>2 DEF Noted
  <2>2. /\ del'.on = del.on /\ del'.todo = del.todo
        /\ del'.alone <=> (Present' = Present)
    BY <1>1, <2>1, Zenon DEF DelState
  <2>3. QED
    BY <1>2, <2>2, Zenon
<1>3. CASE ~(del.on /\ del.alone)
  BY <1>3, Zenon DEF Noted
<1>4. QED
  BY <1>2, <1>3, Zenon

\* What the blobs there are depend on.
LEMMA PresentSame ==
  ASSUME UNCHANGED <<blobs, writes>>
  PROVE  Present' = Present /\ \A i : Stored(i)' = Stored(i)
BY DEF Present, Stored, blobs

LEMMA PresentFrame ==
  ASSUME marks' \subseteq marks, metas' \subseteq metas, values' \subseteq values,
         latest' \in {0, latest}, \A i \in Ids : Stored(i)' \subseteq Stored(i)
  PROVE  Present' \subseteq Present
<1>1. {"mark"} \X marks' \X {0} \subseteq {"mark"} \X marks \X {0}
  OBVIOUS
<1>2. {"meta"} \X metas' \X {0} \subseteq {"meta"} \X metas \X {0}
  OBVIOUS
<1>3. {<<"write", w[1], w[2]>> : w \in {x \in Ids \X Indexes : x[2] \in Stored(x[1])'}}
         \subseteq {<<"write", w[1], w[2]>> : w \in {x \in Ids \X Indexes : x[2] \in Stored(x[1])}}
  OBVIOUS
<1>4. {<<"latest", 0, 0>> : x \in {latest'} \ {0}} \subseteq {<<"latest", 0, 0>> : x \in {latest} \ {0}}
  OBVIOUS
<1>5. {<<"value", v[2], v[1]>> : v \in values'} \subseteq {<<"value", v[2], v[1]>> : v \in values}
  OBVIOUS
<1>6. QED
  BY <1>1, <1>2, <1>3, <1>4, <1>5 DEF Present

LEMMA RestFrame ==
  ASSUME RestIsComplete, hit'.ids = hit.ids, marks' \subseteq marks,
         \A i \in marks' \ hit.ids :
            versions'[i] = versions[i] /\ (i \in metas => i \in metas') /\ values \subseteq values'
  PROVE  RestIsComplete'
<1>1. ASSUME NEW i \in marks' \ hit'.ids
      PROVE  i \in metas' /\ Refs(versions'[i]) \subseteq values'
  BY DEF RestIsComplete
<1>2. QED
  BY <1>1 DEF RestIsComplete, Refs

LEMMA GraphRest ==
  ASSUME ThreadTypeOK, ThreadIdInv, GraphInv, RestIsComplete, NEW w \in Writers, GraphStep(w)
  PROVE  RestIsComplete'
<1>1. CASE GraphCommits(w)
  <2>1. /\ put[w].pc = "mark" /\ InFlight(w)
        /\ marks' = marks \union {put[w].id}
        /\ UNCHANGED <<values, metas>>
    BY <1>1 DEF GraphCommits, PutMark, InFlight
  <2>2. put[w].id \in Ids
    BY <2>1, InFlightId DEF ThreadTypeOK, ThreadIdInv
  <2>3. /\ versions'[put[w].id] = put[w].versions
        /\ \A i \in Ids : i # put[w].id => versions'[i] = versions[i]
    BY <1>1, <2>2 DEF GraphCommits, PutMark, ThreadTypeOK, TypeOK
  <2>4. /\ hit.ids \subseteq hit'.ids
        /\ w \in hit.writers => put[w].id \in hit'.ids
    BY <1>1 DEF GraphCommits, ThreadTypeOK
  <2>5. ASSUME NEW i \in marks' \ hit'.ids
        PROVE  i \in metas /\ Refs(versions'[i]) \subseteq values
    <3>1. CASE i = put[w].id
      <4>1. Backed(w)
        BY <2>1, <2>4, <3>1 DEF GraphInv
      <4>2. QED
        BY <2>1, <2>3, <3>1, <4>1 DEF Backed
    <3>2. CASE i # put[w].id
      <4>1. i \in marks \ hit.ids /\ i \in Ids
        BY <2>1, <2>4, <3>2 DEF ThreadTypeOK, TypeOK
      <4>2. QED
        BY <2>3, <3>2, <4>1 DEF RestIsComplete
    <3>3. QED
      BY <3>1, <3>2
  <2>6. QED
    BY <2>1, <2>5 DEF RestIsComplete, Refs
<1>2. CASE ~GraphCommits(w)
  <2>1. /\ UNCHANGED <<marks, versions>> /\ hit'.ids = hit.ids
        /\ values \subseteq values' /\ metas \subseteq metas'
    BY <1>2 DEF GraphStep, GraphLoad, GraphPuts, GraphStops, Load, PutBegin, PutValue,
                PutMeta, PutReadLatest, PutLatest, WriterStops, blobs, ThreadTypeOK
  <2>2. QED
    BY <2>1, RestFrame
<1>3. QED
  BY <1>1, <1>2

LEMMA SweepRest ==
  ASSUME ThreadTypeOK, ThreadIdInv, RestIsComplete, SweepStep
  PROVE  RestIsComplete'
<1>1. values' = values /\ hit' = hit
  BY DEF SweepStep, SweepBegin, SweepMark, SweepMeta, SweepWrite, SweepDies, PruneBegin,
         PruneMark, PruneMeta, blobs, vars
<1>2. CASE SweepMark
  <2>1. /\ marks' = marks \ {Newest(prune.todo)} /\ metas' = metas
        /\ versions' = [versions EXCEPT ![Newest(prune.todo)] = NoVersions]
    BY <1>2 DEF SweepMark, PruneMark
  <2>2. \A i \in marks' : versions'[i] = versions[i]
    BY <2>1 DEF ThreadTypeOK, TypeOK
  <2>3. QED
    BY <1>1, <2>1, <2>2, RestFrame
<1>3. CASE SweepMeta
  <2>1. UNCHANGED <<marks, versions>> /\ metas' = metas \ {prune.half}
    BY <1>3 DEF SweepMeta, PruneMeta
  <2>2. prune.half \notin marks
    BY DEF ThreadIdInv, IdInv
  <2>3. QED
    BY <1>1, <2>1, <2>2, RestFrame
<1>4. CASE SweepBegin \/ SweepWrite \/ SweepDies
  <2>1. UNCHANGED <<marks, versions, metas>>
    BY <1>4 DEF SweepBegin, SweepWrite, SweepDies, PruneBegin, blobs, vars
  <2>2. QED
    BY <1>1, <2>1, RestFrame
<1>5. QED
  BY <1>2, <1>3, <1>4 DEF SweepStep

LEMMA DeleteRest ==
  ASSUME ThreadTypeOK, DeletionInv, RestIsComplete, DeleteStep
  PROVE  RestIsComplete'
<1>1. CASE DeleteBlob
  <2>1. /\ del.on /\ del.todo # {} /\ hit' = hit
        /\ marks' \subseteq marks
        /\ First[1] = "mark" => UNCHANGED <<values, metas>>
        /\ First[1] # "mark" => UNCHANGED <<marks, versions>>
        /\ First[1] # "value" => values' = values
        /\ metas \ {First[2]} \subseteq metas'
    BY <1>1 DEF DeleteBlob
  <2>2. ASSUME NEW i \in marks' \ hit.ids
        PROVE  versions'[i] = versions[i] /\ (i \in metas => i \in metas') /\ values \subseteq values'
    <3>1. CASE First[1] = "mark"
      <4>1. i # First[2]
        BY <1>1, <3>1 DEF DeleteBlob
      <4>2. versions' = [versions EXCEPT ![First[2]] = NoVersions]
        BY <1>1, <3>1 DEF DeleteBlob
      <4>3. versions'[i] = versions[i]
        BY <2>1, <4>1, <4>2 DEF ThreadTypeOK, TypeOK
      <4>4. QED
        BY <2>1, <3>1, <4>3
    <3>2. CASE First[1] # "mark"
      <4>1. <<"mark", i, 0>> \in del.todo /\ i \in Ids
        BY <2>1 DEF DeletionInv, ThreadTypeOK, TypeOK
      <4>2. First[1] # "value" /\ First[2] # i
        BY <2>1, <3>2, <4>1, MarkerFirst
      <4>3. QED
        BY <2>1, <3>2, <4>2
    <3>3. QED
      BY <3>1, <3>2
  <2>3. QED
    BY <2>1, <2>2, RestFrame
<1>2. CASE ~DeleteBlob
  <2>1. UNCHANGED <<values, metas, marks, versions>> /\ hit'.ids = hit.ids
    BY <1>2 DEF DeleteStep, DeleteBegin, DeleteFails, DeleteEnd, DeleteDies, vars, ThreadTypeOK
  <2>2. QED
    BY <2>1, RestFrame
<1>3. QED
  BY <1>1, <1>2

LEMMA RestCompleteStep ==
  ASSUME ThreadTypeOK, ThreadIdInv, GraphInv, DeletionInv, RestIsComplete,
         [ThreadNext]_allVars
  PROVE  RestIsComplete'
<1>1. CASE UNCHANGED <<vars, hit>>
  BY <1>1 DEF vars, RestIsComplete, Refs
<1>2. CASE \E a \in Attempts : TaskStep(a)
  BY <1>1, <1>2 DEF TaskStep, TaskBegin, TaskLook, TaskUpload, TaskDies
<1>3. QED
  BY <1>1, <1>2, GraphRest, SweepRest, DeleteRest DEF ThreadNext, allVars

\* No step but an upload adds to the blobs.
LEMMA SweepPresent ==
  ASSUME ThreadTypeOK, SweepStep
  PROVE  Present' \subseteq Present /\ marks' \subseteq marks /\ del' = del /\ hit' = hit
<1>1. /\ marks' \subseteq marks /\ metas' \subseteq metas
      /\ UNCHANGED <<values, latest, del, hit>>
  BY DEF SweepStep, SweepBegin, SweepMark, SweepMeta, SweepWrite, SweepDies, PruneBegin,
         PruneMark, PruneMeta, blobs, vars
<1>2. \A i \in Ids : Stored(i)' \subseteq Stored(i)
  <2>1. CASE SweepWrite
    <3>1. PICK k : writes' = [writes EXCEPT ![sweep.id][k] = NoAttempt]
      BY <2>1 DEF SweepWrite
    <3>2. \A i \in Ids : \A x \in Indexes : writes'[i][x] \in {writes[i][x], NoAttempt}
      BY <3>1 DEF ThreadTypeOK
    <3>3. QED
      BY <3>2 DEF Stored
  <2>2. CASE ~SweepWrite
    BY <2>2 DEF SweepStep, SweepBegin, SweepMark, SweepMeta, SweepDies, Stored
  <2>3. QED
    BY <2>1, <2>2
<1>3. QED
  BY <1>1, <1>2, PresentFrame

LEMMA DeletePresent ==
  ASSUME ThreadTypeOK, DeleteBlob
  PROVE  /\ Present' \subseteq Present \ {First}
         /\ del'.on = del.on /\ del'.alone = del.alone /\ del'.todo = del.todo \ {First}
<1>0. First \in Names /\ del \in DelState
  BY FirstIsFirst DEF DeleteBlob, ThreadTypeOK
<1>1. PICK b \in Names : b = First
  BY <1>0
<1>2. /\ marks' = IF b[1] = "mark" THEN marks \ {b[2]} ELSE marks
      /\ metas' = IF b[1] = "meta" THEN metas \ {b[2]} ELSE metas
      /\ writes' = IF b[1] = "write" THEN [writes EXCEPT ![b[2]][b[3]] = NoAttempt] ELSE writes
      /\ latest' = IF b[1] = "latest" THEN 0 ELSE latest
      /\ values' = IF b[1] = "value" THEN values \ {<<b[3], b[2]>>} ELSE values
      /\ del' = [del EXCEPT !.todo = @ \ {b}]
  BY <1>1 DEF DeleteBlob
<1>3. \A i \in Ids : \A x \in Indexes : writes'[i][x] \in {writes[i][x], NoAttempt}
  BY <1>2 DEF ThreadTypeOK
<1>4. Present' \subseteq Present
  <2>1. \A i \in Ids : Stored(i)' \subseteq Stored(i)
    BY <1>3 DEF Stored
  <2>2. QED
    BY <1>2, <2>1, PresentFrame
<1>5. b \notin Present'
  <2>1. CASE b \in {"mark", "meta"} \X Ids \X {0}
    BY <1>2, <2>1 DEF Present
  <2>2. CASE b \in {"write"} \X Ids \X Indexes
    <3>1. b[1] = "write" /\ b[2] \in Ids /\ b[3] \in Indexes
      BY <2>2
    <3>2. writes'[b[2]][b[3]] = NoAttempt
      BY <1>2, <3>1 DEF ThreadTypeOK
    <3>3. b[3] \notin Stored(b[2])'
      BY <3>2 DEF Stored
    <3>4. QED
      BY <2>2, <3>1, <3>3 DEF Present
  <2>3. CASE b = <<"latest", 0, 0>>
    BY <1>2, <2>3 DEF Present
  <2>4. CASE b \in {"value"} \X Ids \X Channels
    <3>1. b[1] = "value" /\ b = <<"value", b[2], b[3]>>
      BY <2>4
    <3>2. values' = values \ {<<b[3], b[2]>>} /\ values \subseteq Channels \X Ids
      BY <1>2, <3>1 DEF ThreadTypeOK, TypeOK, Blobs
    <3>3. \A v \in values' : v = <<v[1], v[2]>> /\ v # <<b[3], b[2]>>
      BY <3>2
    <3>4. b \notin {<<"value", v[2], v[1]>> : v \in values'}
      BY <3>1, <3>3
    <3>5. QED
      BY <2>4, <3>1, <3>4 DEF Present
  <2>5. QED
    BY <2>1, <2>2, <2>3, <2>4 DEF Names
<1>6. QED
  BY <1>0, <1>1, <1>2, <1>4, <1>5 DEF DelState

LEMMA DeletionFrame ==
  ASSUME DeletionInv, del'.on => del.on, del'.on => del.todo \subseteq del'.todo,
         del'.on /\ del'.alone => del.alone /\ Present' \subseteq Present,
         marks' \ hit'.ids \subseteq marks \ hit.ids
  PROVE  DeletionInv'
BY DEF DeletionInv

LEMMA GraphDeletion ==
  ASSUME ThreadTypeOK, GraphInv, DeletionInv, NEW w \in Writers, GraphStep(w)
  PROVE  DeletionInv'
<1>1. CASE GraphLoad(w) \/ GraphStops(w)
  <2>1. UNCHANGED <<blobs, writes, del>> /\ hit'.ids = hit.ids
    BY <1>1 DEF GraphLoad, GraphStops, Load, WriterStops, ThreadTypeOK
  <2>2. Present' = Present /\ marks' = marks
    BY <2>1, PresentSame DEF blobs
  <2>3. QED
    BY <2>1, <2>2, DeletionFrame
<1>2. CASE GraphPuts(w)
  <2>1. marks' = marks /\ hit' = hit /\ Noted
    BY <1>2 DEF GraphPuts, PutBegin, PutValue, PutMeta, PutReadLatest, PutLatest, blobs
  <2>2. QED
    BY <2>1, NotedDel, DeletionFrame
<1>3. CASE GraphCommits(w)
  <2>1. put[w].pc = "mark" /\ marks' = marks \union {put[w].id} /\ Noted
    BY <1>3 DEF GraphCommits, PutMark
  <2>2. hit.ids \subseteq hit'.ids /\ (w \in hit.writers => put[w].id \in hit'.ids)
    BY <1>3 DEF GraphCommits, ThreadTypeOK
  <2>3. w \notin hit.writers => ~del'.on
    BY <2>1, NotedDel DEF GraphInv
  <2>4. CASE w \in hit.writers
    BY <2>1, <2>2, <2>4, NotedDel, DeletionFrame
  <2>5. CASE w \notin hit.writers
    BY <2>3, <2>5 DEF DeletionInv
  <2>6. QED
    BY <2>4, <2>5
<1>4. QED
  BY <1>1, <1>2, <1>3 DEF GraphStep

LEMMA DeleteDeletion ==
  ASSUME ThreadTypeOK, DeletionInv, DeleteStep
  PROVE  DeletionInv'
<1>1. CASE DeleteBegin
  <2>1. /\ del'.todo = Present /\ UNCHANGED <<blobs, writes>> /\ hit'.ids = hit.ids
    BY <1>1 DEF DeleteBegin, vars, blobs, ThreadTypeOK
  <2>2. Present' = Present /\ marks' = marks
    BY <2>1, PresentSame DEF blobs
  <2>3. \A i \in marks : <<"mark", i, 0>> \in Present
    BY DEF Present
  <2>4. QED
    BY <2>1, <2>2, <2>3 DEF DeletionInv
<1>2. CASE DeleteBlob
  <2>1. /\ Present' \subseteq Present \ {First}
        /\ del'.on = del.on /\ del'.alone = del.alone /\ del'.todo = del.todo \ {First}
    BY <1>2, DeletePresent
  <2>2. hit' = hit /\ del.on /\ marks' \subseteq marks
    BY <1>2 DEF DeleteBlob
  <2>3. ASSUME NEW i \in marks' \ hit.ids
        PROVE  <<"mark", i, 0>> \in del.todo \ {First}
    <3>1. <<"mark", i, 0>> # First
      BY <1>2 DEF DeleteBlob
    <3>2. QED
      BY <2>2, <3>1 DEF DeletionInv
  <2>4. QED
    BY <2>1, <2>2, <2>3 DEF DeletionInv
<1>3. CASE DeleteFails \/ DeleteEnd \/ DeleteDies
  <2>1. ~del'.on
    BY <1>3 DEF DeleteFails, DeleteEnd, DeleteDies, OnMissing, DelOver, ThreadTypeOK, DelState
  <2>2. QED
    BY <2>1 DEF DeletionInv
<1>4. QED
  BY <1>1, <1>2, <1>3 DEF DeleteStep

LEMMA DeletionStep ==
  ASSUME ThreadTypeOK, GraphInv, DeletionInv, [ThreadNext]_allVars
  PROVE  DeletionInv'
<1>1. CASE UNCHANGED <<vars, writes, del, hit>>
  BY <1>1 DEF vars, DeletionInv, Present, Stored
<1>2. ASSUME NEW a \in Attempts, TaskStep(a)
      PROVE  DeletionInv'
  <2>1. CASE TaskUpload(a)
    <3>1. UNCHANGED <<marks, hit>> /\ Noted
      BY <2>1 DEF TaskUpload, vars
    <3>2. QED
      BY <3>1, NotedDel, DeletionFrame
  <2>2. CASE ~TaskUpload(a)
    BY <1>1, <1>2, <2>2 DEF TaskStep, TaskBegin, TaskLook, TaskDies
  <2>3. QED
    BY <2>1, <2>2
<1>3. CASE SweepStep
  BY <1>3, SweepPresent, DeletionFrame
<1>4. QED
  BY <1>1, <1>2, <1>3, GraphDeletion, DeleteDeletion DEF ThreadNext, allVars

-----------------------------------------------------------------------------
(* What a graph that met no deletion has stored.                           *)

\* What others upload or delete does not take anything from a put in flight.
LEMMA BackedFrame ==
  ASSUME NEW w \in Writers, Backed(w), put'[w] = put[w], values \subseteq values',
         InFlight(w) /\ put[w].id \in metas => put[w].id \in metas'
  PROVE  Backed(w)'
<1>1. \A b \in Refs(put'[w].versions) :
         b \in values' \/ (InFlight(w)' /\ b[2] = put'[w].id /\ b[1] \in put'[w].todo)
  BY DEF Backed, Refs, InFlight
<1>2. put'[w].pc = "mark" => put'[w].todo = {} /\ put'[w].id \in metas'
  BY DEF Backed, InFlight
<1>3. QED
  BY <1>1, <1>2 DEF Backed, Refs

LEMMA LoadBacked ==
  ASSUME ThreadTypeOK, RestIsComplete, NEW w \in Writers, Load(w),
         Bases \intersect hit.ids = {}
  PROVE  Backed(w)'
<1>1. put'[w].pc = "loaded" /\ values' = values
  <2>1. \A vs : [Idle EXCEPT !.pc = "loaded", !.versions = vs].pc = "loaded"
    BY DEF Idle
  <2>2. [Idle EXCEPT !.pc = "loaded"].pc = "loaded"
    BY DEF Idle
  <2>3. PICK s : put' = [put EXCEPT ![w] = s] /\ s.pc = "loaded"
    BY <2>1, <2>2 DEF Load
  <2>4. QED
    BY <2>3 DEF Load, blobs, ThreadTypeOK, TypeOK
<1>2. Refs(put'[w].versions) \subseteq values
  <2>1. CASE put' = [put EXCEPT ![w] = [Idle EXCEPT !.pc = "loaded"]]
    <3>1. put'[w].versions = NoVersions
      BY <2>1 DEF Idle, ThreadTypeOK, TypeOK
    <3>2. Refs(NoVersions) = {}
      BY BoundsAssumption DEF Refs, NoVersions, Blobs, Ids
    <3>3. QED
      BY <3>1, <3>2
  <2>2. ASSUME NEW base \in Bases,
               put' = [put EXCEPT ![w] = [Idle EXCEPT !.pc = "loaded",
                                                      !.versions = versions[base]]]
        PROVE  Refs(put'[w].versions) \subseteq values
    <3>1. put'[w].versions = versions[base]
      BY <2>2 DEF Idle, ThreadTypeOK, TypeOK
    <3>2. base \in marks
      <4>1. marks # {} => Newest(marks) \in marks
        BY NewestOf DEF ThreadTypeOK, TypeOK
      <4>2. QED
        BY <4>1 DEF Bases
    <3>3. QED
      BY <3>1, <3>2 DEF RestIsComplete
  <2>3. QED
    BY <2>1, <2>2 DEF Load
<1>3. QED
  BY <1>1, <1>2 DEF Backed, Refs

LEMMA PutBacked ==
  ASSUME ThreadTypeOK, ThreadIdInv, NEW w \in Writers, Backed(w),
         PutBegin(w) \/ PutStep(w)
  PROVE  Backed(w)'
<1>0. put \in [Writers -> PutState] /\ put[w] \in PutState
  BY DEF ThreadTypeOK, TypeOK
<1>1. CASE PutBegin(w)
  <2>1. PICK changed \in SUBSET Channels :
         put' = [put EXCEPT ![w] =
                   [pc |-> "values", id |-> lastId + 1, todo |-> changed,
                    versions |-> [c \in Channels |-> IF c \in changed THEN lastId + 1
                                                     ELSE put[w].versions[c]],
                    began |-> now, seen |-> 0]]
    BY <1>1 DEF PutBegin
  <2>2. /\ put'[w].pc = "values" /\ put'[w].id = lastId + 1 /\ put'[w].todo = changed
        /\ \A c \in Channels : put'[w].versions[c] = IF c \in changed THEN lastId + 1
                                                     ELSE put[w].versions[c]
        /\ values' = values
    BY <1>0, <1>1, <2>1 DEF PutBegin, blobs
  <2>3. ASSUME NEW b \in Refs(put'[w].versions)
        PROVE  b \in values \/ (b[2] = put'[w].id /\ b[1] \in put'[w].todo)
    <3>1. b \in Blobs /\ b[1] \in Channels /\ put'[w].versions[b[1]] = b[2]
      BY DEF Refs, Blobs
    <3>2. CASE b[1] \in changed
      BY <2>2, <3>1, <3>2
    <3>3. CASE b[1] \notin changed
      <4>1. b \in Refs(put[w].versions)
        BY <2>2, <3>1, <3>3 DEF Refs
      <4>2. QED
        BY <1>1, <4>1 DEF Backed, InFlight, PutBegin
    <3>4. QED
      BY <3>2, <3>3
  <2>4. QED
    BY <2>2, <2>3 DEF Backed, InFlight, Refs
<1>2. CASE PutValue(w)
  <2>1. PICK c \in put[w].todo :
          /\ values' = values \union {<<c, put[w].id>>}
          /\ put' = [put EXCEPT ![w].todo = @ \ {c}]
    BY <1>2 DEF PutValue
  <2>2. /\ put'[w].pc = "values" /\ put[w].pc = "values"
        /\ put'[w].id = put[w].id /\ put'[w].versions = put[w].versions
        /\ put'[w].todo = put[w].todo \ {c}
    BY <1>0, <1>2, <2>1 DEF PutValue, PutState
  <2>3. ASSUME NEW b \in Refs(put[w].versions)
        PROVE  b \in values' \/ (b[2] = put[w].id /\ b[1] \in put'[w].todo)
    <3>1. b = <<b[1], b[2]>>
      BY DEF Refs, Blobs
    <3>2. b \in values \/ (b[2] = put[w].id /\ b[1] \in put[w].todo)
      BY DEF Backed
    <3>3. QED
      BY <2>1, <2>2, <3>1, <3>2
  <2>4. QED
    BY <2>2, <2>3 DEF Backed, InFlight, Refs
<1>3. CASE PutMeta(w)
  <2>1. /\ put[w].pc = "values" /\ put[w].todo = {}
        /\ put'[w].pc = "mark" /\ put'[w].todo = {}
        /\ put'[w].id = put[w].id /\ put'[w].versions = put[w].versions
        /\ metas' = metas \union {put[w].id} /\ values' = values
    BY <1>0, <1>3 DEF PutMeta, ValuesDone, PutState
  <2>2. QED
    BY <2>1 DEF Backed, Refs
<1>4. CASE PutMark(w) \/ PutReadLatest(w) \/ PutLatest(w)
  <2>1. /\ put'[w].pc \in {"hint", "latest", "loaded"}
        /\ put'[w].versions = put[w].versions /\ values' = values
    <3>1. CASE PutMark(w)
      BY <1>0, <3>1 DEF PutMark, PutState
    <3>2. CASE PutReadLatest(w)
      BY <1>0, <3>2 DEF PutReadLatest, PutState, blobs
    <3>3. CASE PutLatest(w)
      <4>1. put' = [put EXCEPT ![w] = [Idle EXCEPT !.pc = "loaded", !.versions = put[w].versions]]
        BY <3>3 DEF PutLatest
      <4>2. put'[w] = [Idle EXCEPT !.pc = "loaded", !.versions = put[w].versions]
        BY <1>0, <4>1
      <4>3. QED
        BY <3>3, <4>2 DEF PutLatest, Idle
    <3>4. QED
      BY <1>4, <3>1, <3>2, <3>3
  <2>2. InFlight(w) => put[w].todo = {}
    BY <1>4 DEF PutMark, PutReadLatest, PutLatest, Backed, InFlight
  <2>3. Refs(put[w].versions) \subseteq values
    BY <2>2 DEF Backed
  <2>4. QED
    BY <2>1, <2>3 DEF Backed, Refs
<1>5. QED
  BY <1>1, <1>2, <1>3, <1>4 DEF PutStep

LEMMA GraphBacked ==
  ASSUME ThreadTypeOK, ThreadIdInv, GraphInv, RestIsComplete, NEW w \in Writers, GraphStep(w)
  PROVE  GraphInv'
<1>1. /\ values \subseteq values' /\ metas \subseteq metas'
      /\ \A v \in Writers \ {w} : put'[v] = put[v]
  BY DEF GraphStep, GraphLoad, GraphPuts, GraphCommits, GraphStops, Load, PutBegin, PutValue,
         PutMeta, PutMark, PutReadLatest, PutLatest, WriterStops, blobs, ThreadTypeOK, TypeOK
<1>2. hit.writers \subseteq hit'.writers \union {w} /\ del'.on = del.on
  BY NotedDel DEF GraphStep, GraphLoad, GraphPuts, GraphCommits, GraphStops, ThreadTypeOK
<1>3. ASSUME NEW v \in Writers \ hit'.writers, v # w, put'[v].pc # "idle"
      PROVE  ~del'.on /\ Backed(v)'
  <2>1. v \notin hit.writers /\ put'[v] = put[v]
    BY <1>1, <1>2, <1>3
  <2>2. ~del.on /\ Backed(v)
    BY <1>3, <2>1 DEF GraphInv
  <2>3. QED
    BY <1>1, <1>2, <2>1, <2>2, BackedFrame
<1>4. ASSUME w \notin hit'.writers, put'[w].pc # "idle"
      PROVE  ~del'.on /\ Backed(w)'
  <2>1. CASE GraphLoad(w)
    <3>1. ~(del.on \/ Bases \intersect hit.ids # {})
      BY <1>4, <2>1 DEF GraphLoad, ThreadTypeOK
    <3>2. QED
      BY <1>2, <2>1, <3>1, LoadBacked DEF GraphLoad
  <2>2. CASE GraphPuts(w) \/ GraphCommits(w)
    <3>1. hit'.writers = hit.writers /\ put[w].pc # "idle" /\ (PutBegin(w) \/ PutStep(w))
      BY <2>2 DEF GraphPuts, GraphCommits, PutStep, PutBegin, PutValue, PutMeta, PutMark,
                  PutReadLatest, PutLatest, ThreadTypeOK
    <3>2. ~del.on /\ Backed(w)
      BY <1>4, <3>1 DEF GraphInv
    <3>3. QED
      BY <1>2, <3>1, <3>2, PutBacked
  <2>3. CASE GraphStops(w)
    BY <1>4, <2>3 DEF GraphStops, WriterStops, Idle, ThreadTypeOK, TypeOK
  <2>4. QED
    BY <2>1, <2>2, <2>3 DEF GraphStep
<1>5. QED
  BY <1>3, <1>4 DEF GraphInv

\* A step that no graph takes and that begins no deletion.
LEMMA OthersBacked ==
  ASSUME ThreadTypeOK, GraphInv, put' = put, hit' = hit, del'.on => del.on,
         ~del.on => values \subseteq values',
         \A w \in Writers : InFlight(w) /\ put[w].id \in metas /\ ~del.on => put[w].id \in metas'
  PROVE  GraphInv'
<1>1. ASSUME NEW w \in Writers \ hit'.writers, put'[w].pc # "idle"
      PROVE  ~del'.on /\ Backed(w)'
  <2>1. ~del.on /\ Backed(w)
    BY <1>1 DEF GraphInv
  <2>2. QED
    BY <2>1, BackedFrame
<1>2. QED
  BY <1>1 DEF GraphInv

LEMMA GraphInvStep ==
  ASSUME ThreadTypeOK, ThreadIdInv, GraphInv, RestIsComplete, [ThreadNext]_allVars
  PROVE  GraphInv'
<1>1. CASE UNCHANGED vars /\ hit' = hit /\ (del'.on => del.on)
  BY <1>1, OthersBacked DEF vars
<1>2. ASSUME NEW a \in Attempts, TaskStep(a)
      PROVE  GraphInv'
  BY <1>1, <1>2, NotedDel DEF TaskStep, TaskBegin, TaskLook, TaskUpload, TaskDies
<1>3. CASE SweepStep
  <2>1. UNCHANGED <<put, hit, del, values>>
    BY <1>3 DEF SweepStep, SweepBegin, SweepMark, SweepMeta, SweepWrite, SweepDies, PruneBegin,
         PruneMark, PruneMeta, blobs, vars
  <2>2. metas \ {prune.half} \subseteq metas'
    BY <1>3 DEF SweepStep, SweepBegin, SweepMark, SweepMeta, SweepWrite, SweepDies, PruneBegin,
         PruneMark, PruneMeta, blobs, vars
  <2>3. \A w \in Writers : InFlight(w) => put[w].id # prune.half
    BY DEF ThreadIdInv, IdInv
  <2>4. QED
    BY <2>1, <2>2, <2>3, OthersBacked
<1>4. CASE DeleteBegin
  BY <1>4 DEF DeleteBegin, GraphInv, vars, ThreadTypeOK
<1>5. CASE DeleteBlob
  BY <1>5, OthersBacked DEF DeleteBlob
<1>6. CASE DeleteFails \/ DeleteEnd \/ DeleteDies
  BY <1>1, <1>6 DEF DeleteFails, DeleteEnd, DeleteDies
<1>7. CASE UNCHANGED allVars
  BY <1>1, <1>7 DEF allVars
<1>8. QED
  BY <1>2, <1>3, <1>4, <1>5, <1>6, <1>7, GraphBacked DEF ThreadNext, DeleteStep

-----------------------------------------------------------------------------
(* Attempts at a task.                                                     *)

\* Steps of retention and of a deletion, and all others but uploads of writes.
LEMMA WritesFrame ==
  ASSUME ThreadTypeOK, [ThreadNext]_allVars, \A a \in Attempts : ~TaskUpload(a)
  PROVE  \A i \in Ids : \A k \in Indexes : writes'[i][k] \in {writes[i][k], NoAttempt}
<1>1. CASE SweepWrite
  <2>1. PICK k : writes' = [writes EXCEPT ![sweep.id][k] = NoAttempt]
    BY <1>1 DEF SweepWrite
  <2>2. QED
    BY <2>1 DEF ThreadTypeOK
<1>2. CASE DeleteBlob
  <2>1. PICK b : writes' = IF b[1] = "write" THEN [writes EXCEPT ![b[2]][b[3]] = NoAttempt]
                           ELSE writes
    BY <1>2 DEF DeleteBlob
  <2>2. QED
    BY <2>1 DEF ThreadTypeOK
<1>3. CASE writes' = writes
  BY <1>3
<1>4. QED
  BY <1>1, <1>2, <1>3 DEF ThreadNext, allVars, GraphStep, GraphLoad, GraphPuts, GraphCommits,
     GraphStops, TaskStep, TaskBegin, TaskLook, TaskDies, SweepStep, SweepBegin, SweepMark,
     SweepMeta, SweepDies, DeleteStep, DeleteBegin, DeleteFails, DeleteEnd, DeleteDies

LEMMA UploadStores ==
  ASSUME ThreadTypeOK, NEW a \in Attempts, TaskUpload(a)
  PROVE  \A i \in Ids : \A k \in Indexes :
            IF i = task[a].id /\ k = Head(task[a].todo) THEN writes'[i][k] = a
            ELSE writes'[i][k] = writes[i][k]
<1> DEFINE j == task[a].id
<1> DEFINE h == Head(task[a].todo)
<1>1. writes' = [writes EXCEPT ![j][h] = a]
  BY DEF TaskUpload
<1> HIDE DEF j, h
<1>2. \A i \in Ids : \A k \in Indexes :
            IF i = j /\ k = h THEN writes'[i][k] = a ELSE writes'[i][k] = writes[i][k]
  BY <1>1 DEF ThreadTypeOK
<1>3. QED
  BY <1>2 DEF j, h

\* Only the attempt a takes a step, and knows the others as before.
LEMMA AttemptFrame ==
  ASSUME ThreadTypeOK, AttemptInv, NEW a \in UnderWay,
         \A x \in Attempts \ {a} : task'[x] = task[x],
         task'[a].met = task[a].met,
         task'[a].pc = "upload" => ~Skips(task[a].id, Head(task[a].todo))',
         \A i \in Ids : \A k \in Indexes : writes'[i][k] \in {writes[i][k], NoAttempt, a}
  PROVE  AttemptInv'
<1>0. UnderWay' \subseteq UnderWay
  BY DEF UnderWay
<1>1. ASSUME NEW x \in UnderWay', NEW y \in UnderWay', x # y
      PROVE  y \in task'[x].met
  <2>1. y \in task[x].met
    BY <1>0, <1>1 DEF AttemptInv
  <2>2. QED
    BY <2>1, ThreadConstants, <1>0
<1>2. ASSUME NEW x \in Attempts, task'[x].pc = "upload",
             task'[x].id \in Ids, Head(task'[x].todo) >= 0,
             Head(task'[x].todo) \in Stored(task[x].id)'
      PROVE  writes'[task'[x].id][Head(task'[x].todo)] \in task'[x].met \union {x}
  <2>1. x # a
    BY <1>2 DEF Skips
  <2>2. task'[x] = task[x] /\ task[x].pc = "upload" /\ x \in UnderWay
    BY <1>2, <2>1 DEF UnderWay
  <2> DEFINE i == task[x].id
  <2> DEFINE k == Head(task[x].todo)
  <2>3. i \in Ids /\ k >= 0 /\ k \in Indexes /\ writes'[i][k] # NoAttempt
    BY <1>2, <2>2 DEF Stored
  <2>4. a \in task[x].met
    BY <2>1, <2>2 DEF AttemptInv
  <2>5. k \in Stored(i) => writes[i][k] \in task[x].met \union {x}
    BY <2>2, <2>3 DEF AttemptInv
  <2>6. writes'[i][k] = a \/ writes'[i][k] = writes[i][k]
    BY <2>3
  <2>7. writes'[i][k] = writes[i][k] => k \in Stored(i)
    BY <2>3 DEF Stored
  <2>8. QED
    BY <2>2, <2>4, <2>5, <2>6, <2>7
<1>3. QED
  BY <1>1, <1>2 DEF AttemptInv

\* A step that no attempt takes.
LEMMA OthersAttempts ==
  ASSUME AttemptInv, task' = task,
         \A i \in Ids : \A k \in Indexes : writes'[i][k] \in {writes[i][k], NoAttempt}
  PROVE  AttemptInv'
<1>1. UnderWay' = UnderWay
  BY DEF UnderWay
<1>2. \A i \in Ids : \A k \in Stored(i)' : k \in Stored(i) /\ writes'[i][k] = writes[i][k]
  BY DEF Stored
<1>3. QED
  BY <1>1, <1>2 DEF AttemptInv

LEMMA BeginAttempts ==
  ASSUME ThreadTypeOK, AttemptInv, NEW a \in Attempts, TaskBegin(a)
  PROVE  AttemptInv'
<1>0. task \in [Attempts -> TaskState] /\ a \notin UnderWay /\ writes' = writes
  BY DEF TaskBegin, ThreadTypeOK, UnderWay
<1>1. PICK i, b :
         task' = [x \in Attempts |->
                    IF x = a THEN [pc |-> "look", id |-> i, todo |-> b, met |-> UnderWay]
                    ELSE IF x \in UnderWay THEN [task[x] EXCEPT !.met = @ \union {a}]
                    ELSE task[x]]
  <2> DEFINE New(i, b) ==
        [x \in Attempts |->
           IF x = a THEN [pc |-> "look", id |-> i, todo |-> b, met |-> UnderWay]
           ELSE IF x \in UnderWay THEN [task[x] EXCEPT !.met = @ \union {a}]
           ELSE task[x]]
  <2>1. \E i \in (IF Basis = {} THEN 1 .. lastId ELSE Basis) : \E b \in Batches : task' = New(i, b)
    BY Zenon DEF TaskBegin
  <2> HIDE DEF New
  <2>2. \E i, b : task' = New(i, b)
    BY <2>1, Zenon
  <2>3. QED
    BY <2>2, Zenon DEF New
<1>2. task'[a].pc = "look" /\ task'[a].met = UnderWay
  BY <1>1
<1>3. ASSUME NEW x \in Attempts \ {a}
      PROVE  /\ task'[x].pc = task[x].pc /\ task'[x].id = task[x].id
             /\ task'[x].todo = task[x].todo /\ task[x].met \subseteq task'[x].met
             /\ x \in UnderWay => a \in task'[x].met
  BY <1>0, <1>1 DEF TaskState
<1>4. UnderWay' = UnderWay \union {a}
  BY <1>0, <1>2, <1>3 DEF UnderWay
<1>5. ASSUME NEW x \in UnderWay', NEW y \in UnderWay', x # y
      PROVE  y \in task'[x].met
  <2>1. CASE x = a
    BY <1>2, <1>4, <1>5, <2>1
  <2>2. CASE y = a
    BY <1>3, <1>4, <1>5, <2>2, ThreadConstants
  <2>3. CASE x # a /\ y # a
    BY <1>3, <1>4, <1>5, <2>3, ThreadConstants DEF AttemptInv
  <2>4. QED
    BY <2>1, <2>2, <2>3
<1>6. ASSUME NEW x \in Attempts, task'[x].pc = "upload",
             task'[x].id \in Ids, Head(task'[x].todo) >= 0,
             Head(task'[x].todo) \in Stored(task[x].id)'
      PROVE  writes'[task'[x].id][Head(task'[x].todo)] \in task'[x].met \union {x}
  <2>1. x # a
    BY <1>2, <1>6
  <2>2. /\ task[x].pc = "upload" /\ task'[x].id = task[x].id /\ task'[x].todo = task[x].todo
        /\ task[x].met \subseteq task'[x].met
    BY <1>3, <1>6, <2>1
  <2>3. Head(task[x].todo) \in Stored(task[x].id)
    BY <1>0, <1>6, <2>2 DEF Stored
  <2>4. QED
    BY <1>0, <1>6, <2>2, <2>3 DEF AttemptInv
<1>7. QED
  BY <1>5, <1>6 DEF AttemptInv

LEMMA TaskAttempts ==
  ASSUME ThreadTypeOK, AttemptInv, NEW a \in Attempts, TaskStep(a)
  PROVE  AttemptInv'
<1>0. task \in [Attempts -> TaskState] /\ task[a] \in TaskState
  BY DEF ThreadTypeOK
<1>1. CASE TaskLook(a)
  <2>1. a \in UnderWay /\ task[a].todo # <<>> /\ writes' = writes
    BY <1>1 DEF TaskLook, UnderWay, ThreadTypeOK
  <2>2. \A x \in Attempts \ {a} : task'[x] = task[x]
    BY <1>0, <1>1 DEF TaskLook
  <2>3. CASE Skips(task[a].id, Head(task[a].todo))
    <3>1. task'[a] = Advanced(task[a])
      BY <1>0, <1>1, <2>3 DEF TaskLook
    <3>2. task'[a].met = task[a].met /\ task'[a].pc # "upload"
      BY <1>0, <2>1, <3>1, AdvancedTyped
    <3>3. QED
      BY <2>1, <2>2, <3>2, AttemptFrame
  <2>4. CASE ~Skips(task[a].id, Head(task[a].todo))
    <3>1. task'[a] = [task[a] EXCEPT !.pc = "upload"]
      BY <1>0, <1>1, <2>4 DEF TaskLook
    <3>2. task'[a].met = task[a].met /\ task'[a].id = task[a].id /\ task'[a].todo = task[a].todo
      BY <1>0, <3>1 DEF TaskState
    <3>3. ~Skips(task[a].id, Head(task[a].todo))'
      BY <2>1, <2>4, <3>2 DEF Skips, Stored
    <3>4. QED
      BY <2>1, <2>2, <3>2, <3>3, AttemptFrame
  <2>5. QED
    BY <2>3, <2>4
<1>2. CASE TaskUpload(a)
  <2>1. a \in UnderWay /\ task[a].todo # <<>>
    BY <1>2 DEF TaskUpload, UnderWay, ThreadTypeOK
  <2>2. \A x \in Attempts \ {a} : task'[x] = task[x]
    BY <1>0, <1>2 DEF TaskUpload
  <2>3. task'[a] = Advanced(task[a])
    BY <1>0, <1>2 DEF TaskUpload
  <2>4. task'[a].met = task[a].met /\ task'[a].pc # "upload"
    BY <1>0, <2>1, <2>3, AdvancedTyped
  <2>5. \A i \in Ids : \A k \in Indexes : writes'[i][k] \in {writes[i][k], a}
    BY <1>2, UploadStores
  <2>6. QED
    BY <2>1, <2>2, <2>4, <2>5, AttemptFrame
<1>3. CASE TaskDies(a)
  <2>1. a \in UnderWay /\ writes' = writes
    BY <1>3 DEF TaskDies
  <2>2. /\ \A x \in Attempts \ {a} : task'[x] = task[x]
        /\ task'[a].met = task[a].met /\ task'[a].pc = "over"
    BY <1>0, <1>3 DEF TaskDies, TaskState
  <2>3. QED
    BY <2>1, <2>2, AttemptFrame
<1>4. QED
  BY <1>1, <1>2, <1>3, BeginAttempts DEF TaskStep

LEMMA AttemptStep ==
  ASSUME ThreadTypeOK, AttemptInv, [ThreadNext]_allVars
  PROVE  AttemptInv'
<1>1. CASE \E a \in Attempts : TaskStep(a)
  BY <1>1, TaskAttempts
<1>2. CASE ~\E a \in Attempts : TaskStep(a)
  <2>1. task' = task
    BY <1>2 DEF ThreadNext, allVars, GraphStep, GraphLoad, GraphPuts, GraphCommits, GraphStops,
       SweepStep, SweepBegin, SweepMark, SweepMeta, SweepWrite, SweepDies, DeleteStep,
       DeleteBegin, DeleteBlob, DeleteFails, DeleteEnd, DeleteDies
  <2>2. QED
    BY <1>2, <2>1, WritesFrame, OthersAttempts DEF TaskStep
<1>3. QED
  BY <1>1, <1>2

-----------------------------------------------------------------------------
(* The invariant, and what follows from it.                                *)

LEMMA ThreadInvInit == ThreadInit => ThreadInv
<1> SUFFICES ASSUME ThreadInit PROVE ThreadInv
  OBVIOUS
<1>1. ThreadTypeOK
  BY ThreadTypeInit
<1>2. ThreadIdInv
  <2>1. IdInv
    BY IdInit DEF ThreadInit
  <2>2. prune.todo = {} /\ sweep.id = 0 /\ lastId = 0 /\ marks = {}
    BY DEF ThreadInit, Init, NoPrune
  <2>3. \A w \in Writers : ~InFlight(w)
    BY DEF ThreadInit, Init, Idle, InFlight
  <2>4. QED
    BY <2>1, <2>2, <2>3 DEF ThreadIdInv
<1>3. GraphInv
  BY DEF ThreadInit, Init, Idle, GraphInv
<1>4. DeletionInv
  BY DEF ThreadInit, DeletionInv
<1>5. AttemptInv
  BY DEF ThreadInit, AttemptInv, UnderWay
<1>6. RestIsComplete
  BY DEF ThreadInit, Init, RestIsComplete
<1>7. QED
  BY <1>1, <1>2, <1>3, <1>4, <1>5, <1>6 DEF ThreadInv

LEMMA ThreadInvStep == ThreadInv /\ [ThreadNext]_allVars => ThreadInv'
<1> SUFFICES ASSUME ThreadInv, [ThreadNext]_allVars PROVE ThreadInv'
  OBVIOUS
<1>1. ThreadTypeOK'
  BY ThreadTypeStep DEF ThreadInv, ThreadIdInv
<1>2. ThreadIdInv' /\ GraphInv' /\ DeletionInv' /\ AttemptInv' /\ RestIsComplete'
  BY ThreadIdStep, GraphInvStep, DeletionStep, AttemptStep, RestCompleteStep DEF ThreadInv
<1>3. QED
  BY <1>1, <1>2 DEF ThreadInv

\* Whatever graphs, tasks, retention and deletions do beside each other: what a
\* deletion may leave has its marker still to be deleted, and what a graph that met no
\* deletion refers to is stored.
THEOREM ThreadInvariant == ThreadSpec => []ThreadInv
<1>1. QED
  BY ThreadInvInit, ThreadInvStep, PTL DEF ThreadSpec

\* put_writes, retention and delete_thread keep the state well formed.
THEOREM ThreadTypeCorrect == ThreadSpec => []ThreadTypeOK
<1>1. ThreadInv => ThreadTypeOK
  BY DEF ThreadInv
<1>2. QED
  BY <1>1, ThreadInvariant, PTL

\* However far a delete_thread came before it failed, a checkpoint whose marker it left
\* has its metadata and all its values, unless it was put beside a deletion.
THEOREM DeletionLeavesWhole == ThreadSpec => []RestIsComplete
<1>1. ThreadInv => RestIsComplete
  BY DEF ThreadInv
<1>2. QED
  BY <1>1, ThreadInvariant, PTL

\* A delete_thread that returns, with nothing uploaded beside it, leaves no blob.
THEOREM DeletionIsWhole == ThreadSpec => DeletedIsGone
<1>1. ThreadInv /\ [ThreadNext]_allVars => [DeleteEnd /\ del.alone => Present = {}]_allVars
  <2> SUFFICES ASSUME ThreadInv, DeleteEnd, del.alone PROVE Present = {}
    OBVIOUS
  <2>1. del.on /\ del.todo = {}
    BY DEF DeleteEnd
  <2>2. Present \subseteq del.todo
    BY <2>1 DEF ThreadInv, DeletionInv
  <2>3. QED
    BY <2>1, <2>2
<1>2. QED
  BY <1>1, ThreadInvariant, PTL DEF ThreadSpec, DeletedIsGone

\* A step that replaces a stored result is the upload of an attempt that overlaps the one
\* whose result it was.
LEMMA ReplacedByOverlap ==
  ASSUME ThreadInv, [ThreadNext]_allVars,
         NEW i \in Ids, NEW k \in Regular \intersect Stored(i) \intersect Stored(i)',
         writes'[i][k] # writes[i][k]
  PROVE  writes[i][k] \in task[writes'[i][k]].met
<1>1. k \in Indexes /\ k >= 0 /\ writes[i][k] # NoAttempt /\ writes'[i][k] # NoAttempt
  BY DEF Regular, Stored
<1>2. PICK a \in Attempts : TaskUpload(a)
  BY <1>1, WritesFrame DEF ThreadInv
<1>3. i = task[a].id /\ k = Head(task[a].todo) /\ writes'[i][k] = a
  BY <1>1, <1>2, UploadStores DEF ThreadInv
<1>4. writes[i][k] \in task[a].met \union {a}
  BY <1>1, <1>2, <1>3 DEF ThreadInv, AttemptInv, TaskUpload
<1>5. QED
  BY <1>3, <1>4

\* The result of a regular write that is stored is replaced by no attempt but one that
\* overlaps the attempt whose result it is.
THEOREM FirstResultStays == ThreadSpec => OnlyOverlapsReplace
<1>1. ThreadInv /\ [ThreadNext]_allVars =>
         [\A i \in Ids : \A k \in Regular \intersect Stored(i) \intersect Stored(i)' :
             writes'[i][k] # writes[i][k] => writes[i][k] \in task[writes'[i][k]].met]_allVars
  BY ReplacedByOverlap
<1>2. QED
  BY <1>1, ThreadInvariant, PTL DEF ThreadSpec, OnlyOverlapsReplace

\* Of a retained checkpoint that was put beside no deletion, no step takes a write.
LEMMA RetainedWrites ==
  ASSUME ThreadInv, [ThreadNext]_allVars,
         NEW i \in (marks \intersect marks') \ hit.ids
  PROVE  Stored(i) \subseteq Stored(i)'
<1>0. ThreadTypeOK /\ i \in Ids
  BY DEF ThreadInv, ThreadTypeOK, TypeOK
<1>1. CASE \E a \in Attempts : TaskUpload(a)
  <2>1. PICK a \in Attempts : TaskUpload(a)
    BY <1>1
  <2>2. \A k \in Indexes : writes'[i][k] \in {writes[i][k], a} /\ a # NoAttempt
    BY <1>0, <2>1, UploadStores, AttemptsAssumption
  <2>3. QED
    BY <2>2 DEF Stored
<1>2. CASE SweepWrite
  <2>1. i # sweep.id
    BY DEF ThreadInv, ThreadIdInv
  <2>2. PICK k : writes' = [writes EXCEPT ![sweep.id][k] = NoAttempt]
    BY <1>2 DEF SweepWrite
  <2>3. writes'[i] = writes[i]
    BY <1>0, <2>1, <2>2 DEF ThreadTypeOK
  <2>4. QED
    BY <2>3 DEF Stored
<1>3. CASE DeleteBlob
  <2>1. writes' = IF First[1] = "write" THEN [writes EXCEPT ![First[2]][First[3]] = NoAttempt]
                  ELSE writes
    BY <1>3 DEF DeleteBlob
  <2>2. del.on /\ del.todo # {} /\ <<"mark", i, 0>> \in del.todo
    BY <1>3 DEF DeleteBlob, ThreadInv, DeletionInv
  <2>3. CASE First[1] = "write"
    <3>1. First[2] # i
      BY <1>0, <2>2, <2>3, MarkerFirst
    <3>2. writes'[i] = writes[i]
      BY <1>0, <2>1, <2>3, <3>1 DEF ThreadTypeOK
    <3>3. QED
      BY <3>2 DEF Stored
  <2>4. CASE First[1] # "write"
    BY <2>1, <2>4 DEF Stored
  <2>5. QED
    BY <2>3, <2>4
<1>4. CASE writes' = writes
  BY <1>4 DEF Stored
<1>5. QED
  BY <1>1, <1>2, <1>3, <1>4 DEF ThreadNext, allVars, GraphStep, GraphLoad, GraphPuts,
     GraphCommits, GraphStops, TaskStep, TaskBegin, TaskLook, TaskDies, SweepStep, SweepBegin,
     SweepMark, SweepMeta, SweepDies, DeleteStep, DeleteBegin, DeleteFails, DeleteEnd, DeleteDies

\* A reader that lists the pending writes of a retained checkpoint, put beside no deletion,
\* and then reads them one by one misses none of them.
THEOREM PendingWritesStay == ThreadSpec => WritesStay
<1>1. ThreadInv /\ [ThreadNext]_allVars =>
         [\A i \in (marks \intersect marks') \ hit.ids : Stored(i) \subseteq Stored(i)']_allVars
  BY RetainedWrites
<1>2. QED
  BY <1>1, ThreadInvariant, PTL DEF ThreadSpec, WritesStay

=============================================================================
