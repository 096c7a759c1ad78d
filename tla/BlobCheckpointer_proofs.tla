------------------------ MODULE BlobCheckpointer_proofs ------------------------
(***************************************************************************)
(* Proofs about AzureBlobCheckpointSaver for every set of channels,        *)
(* writers and readers and every bound of BlobCheckpointer.                *)
(***************************************************************************)
EXTENDS BlobCheckpointer, FiniteSetTheorems, WellFoundedInduction, TLAPS

-----------------------------------------------------------------------------
(* The greatest of a set of ids.                                           *)

LEMMA WellFoundedHasMinimum ==
  \A R, W, S : IsWellFoundedOn(R, W) /\ S \subseteq W /\ S # {} =>
     \E x \in S : \A y \in S : ~ (<<y, x>> \in R)
BY WFMin, Zenon

LEMMA LessThanOnNat ==
  \E R : IsWellFoundedOn(R, Nat) /\ \A x, y \in Nat : <<x, y>> \in R <=> x < y
<1>1. \A x, y \in Nat : <<x, y>> \in OpToRel(<, Nat) <=> x < y
  BY DEF OpToRel
<1>2. QED
  BY <1>1, NatLessThanWellFounded, Zenon

LEMMA LeastExists ==
  ASSUME NEW S \in SUBSET Nat, S # {}
  PROVE  \E x \in S : \A y \in S : x <= y
<1>1. PICK R : IsWellFoundedOn(R, Nat) /\ \A x, y \in Nat : <<x, y>> \in R <=> x < y
  BY LessThanOnNat, Zenon
<1>2. PICK x \in S : \A y \in S : ~ (<<y, x>> \in R)
  <2>1. S \subseteq Nat
    OBVIOUS
  <2>2. IsWellFoundedOn(R, Nat)
    BY <1>1, Zenon
  <2>3. QED
    BY <2>1, <2>2, WellFoundedHasMinimum, Zenon
<1>3. ASSUME NEW y \in S PROVE x <= y
  <2>1. x \in Nat /\ y \in Nat
    OBVIOUS
  <2>2. ~ (y < x)
    BY <1>1, <1>2, <2>1, Zenon
  <2>3. QED
    BY <2>1, <2>2
<1>4. QED
  BY <1>3

LEMMA MaxIsGreatest ==
  ASSUME NEW n \in Nat, NEW S \in SUBSET (1 .. n), S # {}
  PROVE  /\ Max(S) \in S
         /\ \A y \in S : y <= Max(S)
<1>1. \A x \in S : x \in Nat /\ n - x \in Nat
  OBVIOUS
<1>2. PICK t \in {n - x : x \in S} : \A u \in {n - x : x \in S} : t <= u
  <2>1. {n - x : x \in S} \in SUBSET Nat /\ {n - x : x \in S} # {}
    BY <1>1
  <2>2. QED
    BY <2>1, LeastExists, Zenon
<1>3. PICK x \in S : t = n - x
  BY <1>2
<1>4. \A y \in S : t <= n - y
  BY <1>2
<1>5. \A y \in S : x >= y
  BY <1>1, <1>3, <1>4
<1>6. QED
  BY <1>5 DEF Max

\* The greatest id stays the greatest of a set that lost others.
LEMMA NewestOf ==
  ASSUME NEW S \in SUBSET Ids, S # {}
  PROVE  /\ Newest(S) \in S
         /\ \A y \in S : y <= Newest(S)
BY MaxIsGreatest, BoundsAssumption DEF Newest, Ids

LEMMA IdsAreInt == Ids \subseteq Int
BY BoundsAssumption DEF Ids

LEMMA NewestIs ==
  ASSUME NEW S \in SUBSET Ids, NEW i \in S, \A y \in S : y <= i
  PROVE  Newest(S) = i
<1>1. Newest(S) \in S /\ i <= Newest(S)
  BY NewestOf
<1>2. Newest(S) <= i
  BY <1>1
<1>3. S \subseteq Int
  BY BoundsAssumption DEF Ids
<1>4. \A x, y \in Int : x <= y /\ y <= x => x = y
  OBVIOUS
<1>5. Newest(S) \in Int /\ i \in Int
  BY <1>1, <1>3, Zenon
<1>6. QED
  BY <1>1, <1>2, <1>4, <1>5, Zenon

-----------------------------------------------------------------------------
(* Types.                                                                  *)

\* The blobs that the checkpoints' versions name are value blobs.
LEMMA RefsAreBlobs == \A vs : Refs(vs) \subseteq Blobs
BY DEF Refs

LEMMA ConstantsTyped ==
  /\ NoVersions \in Versions
  /\ Idle \in PutState
  /\ NoPrune \in PruneState
  /\ NoGc \in GcState /\ NoGc.target = {}
  /\ NoGet \in GetState
<1>1. NoVersions \in Versions
  BY BoundsAssumption DEF NoVersions, Versions
<1>2. QED
  BY <1>1, BoundsAssumption
  DEF Idle, PutState, NoPrune, PruneState, NoGc, GcState, NoGet, GetState

LEMMA TypeInit == Init => TypeOK
<1> SUFFICES ASSUME Init PROVE TypeOK
  OBVIOUS
<1>1. Cardinality(gc.target) <= 1
  BY ConstantsTyped, FS_EmptySet DEF Init
<1>2. QED
  BY <1>1, ConstantsTyped, BoundsAssumption DEF Init, TypeOK

LEMMA LoadTyped ==
  ASSUME TypeOK, NEW w \in Writers, Load(w)
  PROVE  TypeOK'
<1>1. put' \in [Writers -> PutState]
  <2>1. \A vs \in Versions : [[Idle EXCEPT !.pc = "loaded"] EXCEPT !.versions = vs] \in PutState
    BY ConstantsTyped DEF PutState, Idle
  <2>2. CASE marks = {} /\ put' = [put EXCEPT ![w] = [Idle EXCEPT !.pc = "loaded"]]
    <3>1. [Idle EXCEPT !.pc = "loaded"] \in PutState
      BY ConstantsTyped DEF PutState, Idle
    <3>2. QED
      BY <2>2, <3>1 DEF TypeOK
  <2>3. ASSUME NEW base \in Bases,
               put' = [put EXCEPT ![w] = [Idle EXCEPT !.pc = "loaded",
                                                      !.versions = versions[base]]]
        PROVE  put' \in [Writers -> PutState]
    <3>1. base \in Ids
      BY NewestOf DEF Bases, TypeOK
    <3>2. [Idle EXCEPT !.pc = "loaded", !.versions = versions[base]] \in PutState
      BY <2>1, <3>1 DEF TypeOK
    <3>3. QED
      BY <2>3, <3>2 DEF TypeOK
  <2>4. QED
    BY <2>2, <2>3 DEF Load
<1>2. QED
  BY <1>1 DEF Load, TypeOK, blobs

LEMMA PutBeginTyped ==
  ASSUME TypeOK, NEW w \in Writers, PutBegin(w)
  PROVE  TypeOK'
<1>1. lastId + 1 \in 1 .. MaxId /\ lastId' \in 0 .. MaxId
  BY BoundsAssumption DEF PutBegin, TypeOK
<1>2. put' \in [Writers -> PutState]
  <2>1. PICK changed \in SUBSET Channels :
          put' = [put EXCEPT ![w] =
                   [pc |-> "values", id |-> lastId + 1, todo |-> changed,
                    versions |-> [c \in Channels |-> IF c \in changed THEN lastId + 1
                                                     ELSE put[w].versions[c]],
                    began |-> now, seen |-> 0]]
    BY DEF PutBegin
  <2> DEFINE vs == [c \in Channels |-> IF c \in changed THEN lastId + 1
                                       ELSE put[w].versions[c]]
  <2>2. vs \in Versions
    BY <1>1 DEF TypeOK, PutState, Versions
  <2>3. [pc |-> "values", id |-> lastId + 1, todo |-> changed, versions |-> vs,
         began |-> now, seen |-> 0] \in PutState
    BY <1>1, <2>2, BoundsAssumption DEF PutState, TypeOK
  <2>4. QED
    BY <2>1, <2>3 DEF TypeOK
<1>3. QED
  BY <1>1, <1>2 DEF PutBegin, TypeOK, blobs

LEMMA InFlightId ==
  ASSUME TypeOK, IdInv, NEW w \in Writers, InFlight(w)
  PROVE  put[w].id \in Ids
<1>1. put[w].id \in 1 .. lastId
  BY DEF IdInv
<1>2. QED
  BY <1>1, BoundsAssumption DEF TypeOK, Ids

LEMMA PutStepTyped ==
  ASSUME TypeOK, IdInv, NEW w \in Writers, PutStep(w)
  PROVE  TypeOK'
<1>1. CASE PutValue(w)
  <2>1. PICK c \in put[w].todo :
          /\ values' = values \union {<<c, put[w].id>>}
          /\ modified' = [modified EXCEPT ![<<c, put[w].id>>] = now]
          /\ put' = [put EXCEPT ![w].todo = @ \ {c}]
    BY <1>1 DEF PutValue
  <2>2. put[w].id \in Ids
    BY <1>1, InFlightId DEF PutValue, InFlight
  <2>3. c \in Channels
    BY DEF TypeOK, PutState
  <2>4. values' \subseteq Blobs
    BY <2>1, <2>2, <2>3 DEF TypeOK, Blobs
  <2>5. modified' \in [Blobs -> Nat]
    BY <2>1 DEF TypeOK
  <2>6. put' \in [Writers -> PutState]
    BY <2>1 DEF TypeOK, PutState
  <2>7. QED
    BY <1>1, <2>4, <2>5, <2>6 DEF PutValue, TypeOK
<1>2. CASE PutMeta(w)
  <2>1. put[w].id \in Ids
    BY <1>2, InFlightId DEF PutMeta, InFlight
  <2>2. put' \in [Writers -> PutState]
    BY <1>2 DEF PutMeta, TypeOK, PutState
  <2>3. QED
    BY <1>2, <2>1, <2>2 DEF PutMeta, TypeOK
<1>3. CASE PutMark(w)
  <2>1. put[w].id \in Ids
    BY <1>3, InFlightId DEF PutMark, InFlight
  <2>2. put' \in [Writers -> PutState]
    <3>1. put \in [Writers -> PutState] /\ put[w] \in PutState
      BY DEF TypeOK
    <3>2. [put[w] EXCEPT !.pc = "hint", !.began = 0] \in PutState
      BY <3>1 DEF PutState
    <3>3. put' = [put EXCEPT ![w] = [put[w] EXCEPT !.pc = "hint", !.began = 0]]
      BY <1>3, <3>1 DEF PutMark
    <3>4. QED
      BY <3>1, <3>2, <3>3
  <2>3. versions' \in [Ids -> Versions]
    <3>1. put[w].versions \in Versions /\ versions \in [Ids -> Versions]
      BY DEF TypeOK, PutState
    <3>2. QED
      BY <1>3, <3>1 DEF PutMark
  <2>4. QED
    BY <1>3, <2>1, <2>2, <2>3 DEF PutMark, TypeOK
<1>4. CASE PutReadLatest(w)
  <2>1. put' \in [Writers -> PutState]
    BY <1>4 DEF PutReadLatest, TypeOK, PutState
  <2>2. QED
    BY <1>4, <2>1 DEF PutReadLatest, TypeOK, blobs
<1>5. CASE PutLatest(w)
  <2>1. put' \in [Writers -> PutState]
    BY <1>5, ConstantsTyped DEF PutLatest, TypeOK, PutState, Idle
  <2>2. latest' \in 0 .. MaxId
    BY <1>5 DEF PutLatest, TypeOK, PutState
  <2>3. QED
    BY <1>5, <2>1, <2>2 DEF PutLatest, TypeOK
<1>6. QED
  BY <1>1, <1>2, <1>3, <1>4, <1>5 DEF PutStep

LEMMA WriterStopsTyped ==
  ASSUME TypeOK, NEW w \in Writers, WriterStops(w)
  PROVE  TypeOK'
<1>1. put' \in [Writers -> PutState]
  BY ConstantsTyped DEF WriterStops, TypeOK
<1>2. QED
  BY <1>1 DEF WriterStops, TypeOK, blobs

LEMMA PruneTyped ==
  ASSUME TypeOK, PruneBegin \/ PruneStep \/ PruneDies
  PROVE  TypeOK'
<1>1. CASE PruneBegin
  <2>1. prune' \in PruneState
    <3>1. \A S \in SUBSET Ids : [NoPrune EXCEPT !.todo = S] \in PruneState
      BY ConstantsTyped DEF NoPrune, PruneState
    <3>2. Older(KeepLast) \subseteq Ids /\ \A i : {j \in marks : j < i} \subseteq Ids
      BY DEF Older, TypeOK
    <3>3. QED
      BY <1>1, <3>1, <3>2 DEF PruneBegin
  <2>2. QED
    BY <1>1, <2>1 DEF PruneBegin, TypeOK, blobs
<1>2. CASE PruneMark
  <2>1. Newest(prune.todo) \in prune.todo /\ prune.todo \subseteq Ids
    BY <1>2, NewestOf DEF PruneMark, TypeOK, PruneState
  <2>2. prune' \in PruneState
    BY <1>2, <2>1 DEF PruneMark, PruneState, Ids
  <2>3. versions' \in [Ids -> Versions]
    BY <1>2, ConstantsTyped DEF PruneMark, TypeOK
  <2>4. QED
    BY <1>2, <2>2, <2>3 DEF PruneMark, TypeOK
<1>3. CASE PruneMeta
  BY <1>3, BoundsAssumption DEF PruneMeta, TypeOK, PruneState
<1>4. CASE PruneDies
  BY <1>4, ConstantsTyped DEF PruneDies, TypeOK, blobs
<1>5. QED
  BY <1>1, <1>2, <1>3, <1>4 DEF PruneStep

LEMMA AfterTyped ==
  ASSUME NEW S \in SUBSET Blobs
  PROVE  After(S) \in GcState /\ After(S).target = {}
BY ConstantsTyped DEF After, NoGc, GcState

LEMMA GcTyped ==
  ASSUME TypeOK, GcStep \/ GcDies
  PROVE  TypeOK'
<1>1. CASE GcBegin
  <2>1. now - Grace \in Int
    BY GraceAssumption DEF TypeOK
  <2>2. \A k \in Int : LET g == [NoGc EXCEPT !.pc = "list", !.cutoff = k]
                       IN  g \in GcState /\ g.target = {}
    BY DEF NoGc, GcState
  <2>3. gc' \in GcState /\ gc'.target = {}
    BY <1>1, <2>1, <2>2 DEF GcBegin
  <2>4. Cardinality(gc'.target) <= 1
    BY <2>3, FS_EmptySet
  <2>5. QED
    BY <1>1, <2>3, <2>4 DEF GcBegin, TypeOK, blobs
<1>2. CASE GcList
  <2>1. gc' \in GcState /\ gc'.target = gc.target
    BY <1>2 DEF GcList, Listed, TypeOK, GcState
  <2>2. QED
    BY <1>2, <2>1 DEF GcList, TypeOK, blobs
<1>3. CASE GcFetch
  <2>1. Newest(gc.todo) \in Ids
    BY <1>3, NewestOf DEF GcFetch, TypeOK, GcState
  <2>2. CASE gc' = NoGc
    BY <1>3, <2>2, ConstantsTyped, FS_EmptySet DEF GcFetch, TypeOK, blobs
  <2>3. CASE gc' = [gc EXCEPT !.todo = @ \ {Newest(gc.todo)},
                              !.retained = @ \union Refs(versions[Newest(gc.todo)])]
    <3>1. gc' \in GcState /\ gc'.target = gc.target
      BY <2>3, RefsAreBlobs DEF TypeOK, GcState
    <3>2. QED
      BY <1>3, <3>1 DEF GcFetch, TypeOK, blobs
  <2>4. QED
    BY <1>3, <2>2, <2>3 DEF GcFetch
<1>4. CASE GcValues
  <2>1. gc' \in GcState /\ gc'.target = {}
    BY <1>4, AfterTyped DEF GcValues, TypeOK
  <2>2. QED
    BY <1>4, <2>1, FS_EmptySet DEF GcValues, TypeOK, blobs
<1>5. CASE GcNext
  <2>1. PICK b \in gc.orphans : gc' = [Listed EXCEPT !.orphans = @ \ {b}, !.target = {b}]
    BY <1>5 DEF GcNext
  <2>2. gc' \in GcState /\ gc'.target = {b}
    BY <2>1 DEF Listed, TypeOK, GcState
  <2>3. Cardinality(gc'.target) <= 1
    <3>1. Cardinality(gc'.target) = 1
      BY <2>2, FS_Singleton, Zenon
    <3>2. QED
      BY <3>1
  <2>4. QED
    BY <1>5, <2>2, <2>3 DEF GcNext, TypeOK, blobs
<1>6. CASE GcDelete
  <2>1. gc' \in GcState /\ gc'.target = {}
    BY <1>6, AfterTyped DEF GcDelete, TypeOK, GcState
  <2>2. modified' \in [Blobs -> Nat]
    BY <1>6 DEF GcDelete, TypeOK
  <2>3. QED
    BY <1>6, <2>1, <2>2, FS_EmptySet DEF GcDelete, TypeOK
<1>7. CASE GcDies
  BY <1>7, ConstantsTyped, FS_EmptySet DEF GcDies, TypeOK, blobs
<1>8. QED
  BY <1>1, <1>2, <1>3, <1>4, <1>5, <1>6, <1>7 DEF GcStep

\* One value asked for: it leaves the list, and may be among those found.
LEMMA GetTakes ==
  ASSUME NEW g \in GetState, NEW b, NEW more \in SUBSET Blobs
  PROVE  [g EXCEPT !.todo = @ \ {b}, !.got = @ \union more] \in GetState
<1> DEFINE left == g.todo \ {b}
           have == g.got \union more
<1>1. g.todo \in SUBSET Blobs /\ g.got \in SUBSET Blobs
  BY DEF GetState
<1>2. left \in SUBSET Blobs /\ have \in SUBSET Blobs
  BY <1>1
<1> HIDE DEF left, have
<1>3. [g EXCEPT !.todo = left] \in GetState
  BY <1>2 DEF GetState
<1>4. [[g EXCEPT !.todo = left] EXCEPT !.got = have] \in GetState
  BY <1>2, <1>3 DEF GetState
<1>5. [g EXCEPT !.todo = left, !.got = have] \in GetState
  BY <1>4
<1>6. QED
  BY <1>5 DEF left, have

LEMMA GetTyped ==
  ASSUME TypeOK, NEW r \in Readers, GetStep(r)
  PROVE  TypeOK'
<1>1. get' \in [Readers -> GetState]
  <2>1. CASE GetMark(r)
    <3>1. PICK i \in marks :
            get' = [get EXCEPT ![r] = [pc |-> "values", id |-> i, got |-> {},
                                       todo |-> Refs(versions[i])]]
      BY <2>1 DEF GetMark
    <3>2. [pc |-> "values", id |-> i, got |-> {}, todo |-> Refs(versions[i])] \in GetState
      BY RefsAreBlobs, BoundsAssumption DEF GetState, TypeOK, Ids
    <3>3. QED
      BY <3>1, <3>2 DEF TypeOK
  <2>2. CASE GetValue(r)
    <3>1. PICK b \in get[r].todo :
            get' = [get EXCEPT ![r].todo = @ \ {b},
                               ![r].got = @ \union ({b} \intersect values)]
      BY <2>2 DEF GetValue
    <3>2. get[r] \in GetState /\ {b} \intersect values \in SUBSET Blobs
      BY DEF TypeOK
    <3> DEFINE more == {b} \intersect values
    <3>3. [get[r] EXCEPT !.todo = @ \ {b}, !.got = @ \union more] \in GetState
      BY <3>2, GetTakes
    <3>4. get' = [get EXCEPT ![r] = [get[r] EXCEPT !.todo = @ \ {b},
                                                   !.got = @ \union more]]
      BY <3>1, <3>2 DEF GetState
    <3>5. QED
      BY <3>3, <3>4 DEF TypeOK
  <2>3. CASE GetMeta(r)
    BY <2>3, ConstantsTyped DEF GetMeta, TypeOK
  <2>4. QED
    BY <2>1, <2>2, <2>3 DEF GetStep
<1>2. QED
  BY <1>1 DEF GetStep, GetMark, GetValue, GetMeta, TypeOK, blobs

LEMMA TypeStep == TypeOK /\ IdInv /\ [Next]_vars => TypeOK'
<1> SUFFICES ASSUME TypeOK, IdInv, [Next]_vars PROVE TypeOK'
  OBVIOUS
<1>1. CASE Tick
  BY <1>1 DEF Tick, TypeOK, blobs
<1>2. CASE UNCHANGED vars
  BY <1>2 DEF vars, TypeOK
<1>3. QED
  BY <1>1, <1>2, LoadTyped, PutBeginTyped, PutStepTyped, WriterStopsTyped, PruneTyped,
     GcTyped, GetTyped DEF Next

-----------------------------------------------------------------------------
(* Ids are given out once.                                                 *)

LEMMA IdInit == Init => IdInv
BY BoundsAssumption
DEF Init, IdInv, InFlight, Idle, NoGc, NoGet, NoPrune

\* A step that gives out no id, uploads and commits nothing: whatever it lists,
\* deletes or reads, it has from the ids that are known.
LEMMA IdFrame ==
  ASSUME TypeOK, IdInv,
         lastId' = lastId, marks' \subseteq marks,
         values' \union gc'.orphans \union gc'.target
            \subseteq values \union gc.orphans \union gc.target,
         gc'.todo \subseteq gc.todo \union marks,
         prune'.half \in {0, prune.half} \union marks, prune'.half \notin marks',
         \A r \in Readers : get'[r].id \in {0, get[r].id} \union marks,
         \A w \in Writers : InFlight(w)' => InFlight(w) /\ put'[w].id = put[w].id
  PROVE  IdInv'
<1>0. lastId \in Nat
  BY BoundsAssumption DEF TypeOK
<1>1. marks' \subseteq 1 .. lastId'
  BY DEF IdInv
<1>2. \A b \in values' \union gc'.orphans \union gc'.target : b[2] <= lastId'
  BY DEF IdInv
<1>3. gc'.todo \subseteq 1 .. lastId'
  BY DEF IdInv
<1>a. {0} \union marks \subseteq 0 .. lastId
  BY <1>0 DEF IdInv
<1>4. prune'.half \in 0 .. lastId'
  <2>1. prune.half \in 0 .. lastId
    BY DEF IdInv
  <2>2. QED
    BY <2>1, <1>a
<1>5. \A r \in Readers : get'[r].id \in 0 .. lastId'
  <2>1. \A r \in Readers : get[r].id \in 0 .. lastId
    BY DEF IdInv
  <2>2. QED
    BY <2>1, <1>a
<1>6. ASSUME NEW w \in Writers, InFlight(w)'
      PROVE  /\ put'[w].id \in 1 .. lastId'
             /\ put'[w].id \notin marks' \union gc'.todo \union {prune'.half}
             /\ \A r \in Readers : put'[w].id # get'[r].id
             /\ \A v \in Writers : InFlight(v)' /\ put'[v].id = put'[w].id => v = w
  <2>1. InFlight(w) /\ put'[w].id = put[w].id
    BY <1>6
  <2>2. put[w].id \in 1 .. lastId /\ put[w].id # 0
    BY <2>1, <1>0 DEF IdInv
  <2>3. put[w].id \notin marks \union gc.todo \union {prune.half}
    BY <2>1 DEF IdInv
  <2>4. \A r \in Readers : put[w].id # get[r].id
    BY <2>1 DEF IdInv
  <2>5. \A v \in Writers : InFlight(v)' /\ put'[v].id = put'[w].id => v = w
    BY <2>1 DEF IdInv
  <2>6. \A r \in Readers : put[w].id # get'[r].id
    BY <2>2, <2>3, <2>4
  <2>7. QED
    BY <2>1, <2>2, <2>3, <2>5, <2>6
<1>7. QED
  BY <1>1, <1>2, <1>3, <1>4, <1>5, <1>6 DEF IdInv

LEMMA PutBeginIds ==
  ASSUME TypeOK, IdInv, NEW w \in Writers, PutBegin(w)
  PROVE  IdInv'
<1>0. lastId \in Nat /\ lastId' = lastId + 1
  BY BoundsAssumption DEF TypeOK, PutBegin
<1>1. /\ InFlight(w)' /\ put'[w].id = lastId + 1
      /\ \A v \in Writers \ {w} : put'[v] = put[v]
  BY DEF TypeOK, PutBegin, InFlight
<1>2. UNCHANGED <<values, marks, gc, prune, get>>
  BY DEF PutBegin, blobs
<1>3. \A v \in Writers \ {w} : InFlight(v)' <=> InFlight(v)
  BY <1>1 DEF InFlight
<1>4. ASSUME NEW v \in Writers, InFlight(v)'
      PROVE  /\ put'[v].id \in 1 .. lastId'
             /\ put'[v].id \notin marks \union gc.todo \union {prune.half}
             /\ \A r \in Readers : put'[v].id # get[r].id
             /\ \A u \in Writers : InFlight(u)' /\ put'[u].id = put'[v].id => u = v
  <2>1. CASE v = w
    BY <2>1, <1>0, <1>1, <1>3 DEF IdInv
  <2>2. CASE v # w
    BY <1>4, <2>2, <1>0, <1>1, <1>3 DEF IdInv
  <2>3. QED
    BY <2>1, <2>2
<1>5. \A b \in values \union gc.orphans \union gc.target : b[2] <= lastId'
  <2>1. \A b \in Blobs : b[2] \in Int
    BY BoundsAssumption DEF Blobs, Ids
  <2>2. values \union gc.orphans \union gc.target \subseteq Blobs
    BY DEF TypeOK, GcState
  <2>3. QED
    BY <1>0, <2>1, <2>2 DEF IdInv
<1>6. QED
  BY <1>0, <1>2, <1>4, <1>5 DEF IdInv

LEMMA PutValueIds ==
  ASSUME TypeOK, IdInv, NEW w \in Writers, PutValue(w)
  PROVE  IdInv'
<1>0. lastId \in Nat /\ put[w].id \in 1 .. lastId
  BY BoundsAssumption DEF TypeOK, PutValue, IdInv, InFlight
<1>1. \A v \in Writers : put'[v].pc = put[v].pc /\ put'[v].id = put[v].id
  BY DEF TypeOK, PutValue, PutState
<1>2. \A b \in values' : b \in values \/ b[2] = put[w].id
  BY DEF PutValue
<1>3. \A b \in values' \union gc.orphans \union gc.target : b[2] <= lastId
  BY <1>0, <1>2 DEF IdInv
<1>4. QED
  BY <1>1, <1>3 DEF IdInv, InFlight, PutValue

LEMMA PutMarkIds ==
  ASSUME TypeOK, IdInv, NEW w \in Writers, PutMark(w)
  PROVE  IdInv'
<1>0. InFlight(w)
  BY DEF PutMark, InFlight
<1>1. /\ ~InFlight(w)'
      /\ \A v \in Writers \ {w} : put'[v] = put[v]
  BY DEF TypeOK, PutMark, PutState, InFlight
<1>2. \A v \in Writers : InFlight(v)' => InFlight(v) /\ put'[v].id = put[v].id /\ v # w
  BY <1>1 DEF InFlight
<1>3. marks' = marks \union {put[w].id} /\ UNCHANGED <<lastId, values, gc, prune, get>>
  BY DEF PutMark
<1>4. put[w].id \in 1 .. lastId /\ put[w].id # prune.half
  BY <1>0 DEF IdInv
<1>5. ASSUME NEW v \in Writers, InFlight(v)'
      PROVE  /\ put'[v].id \in 1 .. lastId
             /\ put'[v].id \notin marks' \union gc.todo \union {prune.half}
             /\ \A r \in Readers : put'[v].id # get[r].id
             /\ \A u \in Writers : InFlight(u)' /\ put'[u].id = put'[v].id => u = v
  BY <1>0, <1>2, <1>3, <1>5 DEF IdInv
<1>6. QED
  BY <1>3, <1>4, <1>5 DEF IdInv

\* A writer's steps that neither begin nor commit a put.
LEMMA WriterIds ==
  ASSUME TypeOK, IdInv, NEW w \in Writers,
         Load(w) \/ PutMeta(w) \/ PutReadLatest(w) \/ PutLatest(w) \/ WriterStops(w)
  PROVE  IdInv'
<1>1. UNCHANGED <<lastId, marks, values, gc, prune, get>>
  BY DEF Load, PutMeta, PutReadLatest, PutLatest, WriterStops, blobs
<1>2. \A v \in Writers \ {w} : put'[v] = put[v]
  BY DEF Load, PutMeta, PutReadLatest, PutLatest, WriterStops, TypeOK
<1>3. InFlight(w)' => InFlight(w) /\ put'[w].id = put[w].id
  <2>1. CASE Load(w)
    BY <2>1 DEF Load, InFlight, TypeOK, Idle
  <2>2. CASE PutMeta(w)
    BY <2>2 DEF PutMeta, InFlight, TypeOK, PutState
  <2>3. CASE PutReadLatest(w)
    BY <2>3 DEF PutReadLatest, InFlight, TypeOK, PutState
  <2>4. CASE PutLatest(w)
    BY <2>4 DEF PutLatest, InFlight, TypeOK, Idle
  <2>5. CASE WriterStops(w)
    BY <2>5 DEF WriterStops, InFlight, TypeOK, Idle
  <2>6. QED
    BY <2>1, <2>2, <2>3, <2>4, <2>5
<1>4. \A v \in Writers : InFlight(v)' => InFlight(v) /\ put'[v].id = put[v].id
  BY <1>2, <1>3 DEF InFlight
<1>5. prune.half \notin marks
  BY DEF IdInv
<1>6. QED
  BY <1>1, <1>4, <1>5, IdFrame

\* Retention hides the commit marker of a checkpoint before it deletes the rest.
LEMMA PruneIds ==
  ASSUME TypeOK, IdInv, RetentionInv, PruneBegin \/ PruneStep \/ PruneDies
  PROVE  IdInv'
<1>1. UNCHANGED <<lastId, values, gc, get, put>> /\ marks' \subseteq marks
  BY DEF PruneBegin, PruneStep, PruneMark, PruneMeta, PruneDies, blobs
<1>2. prune.half \notin marks /\ 0 \notin marks
  BY DEF IdInv, TypeOK, Ids
<1>3. prune'.half \in {0, prune.half} \union marks /\ prune'.half \notin marks'
  <2>1. CASE PruneBegin
    BY <1>2, <2>1 DEF PruneBegin, NoPrune, blobs
  <2>2. CASE PruneMark
    <3>1. Newest(prune.todo) \in prune.todo
      BY <2>2, NewestOf DEF PruneMark, TypeOK, PruneState
    <3>2. QED
      BY <2>2, <3>1 DEF PruneMark, RetentionInv
  <2>3. CASE PruneMeta
    BY <1>2, <2>3 DEF PruneMeta, TypeOK, PruneState
  <2>4. CASE PruneDies
    BY <1>2, <2>4 DEF PruneDies, NoPrune, blobs
  <2>5. QED
    BY <2>1, <2>2, <2>3, <2>4 DEF PruneStep
<1>4. \A w \in Writers : InFlight(w)' => InFlight(w) /\ put'[w].id = put[w].id
  BY <1>1 DEF InFlight
<1>5. QED
  BY <1>1, <1>3, <1>4, IdFrame

LEMMA GcIds ==
  ASSUME TypeOK, IdInv, GcStep \/ GcDies
  PROVE  IdInv'
<1>1. UNCHANGED <<lastId, marks, prune, get, put>>
  BY DEF GcStep, GcBegin, GcList, GcFetch, GcValues, GcNext, GcDelete, GcDies, blobs
<1>2. /\ values' \union gc'.orphans \union gc'.target
            \subseteq values \union gc.orphans \union gc.target
      /\ gc'.todo \subseteq gc.todo \union marks
  <2>1. NoGc.orphans = {} /\ NoGc.target = {} /\ NoGc.todo = {}
    BY DEF NoGc
  <2>2. \A S : After(S).orphans \subseteq S /\ After(S).target = {} /\ After(S).todo = {}
    BY DEF After, NoGc
  <2>3. CASE GcBegin
    BY <2>3 DEF GcBegin, NoGc, blobs
  <2>4. CASE GcList
    BY <2>4 DEF GcList, Listed, TypeOK, GcState, blobs
  <2>5. CASE GcFetch
    BY <2>1, <2>5 DEF GcFetch, TypeOK, GcState, blobs
  <2>6. CASE GcValues
    BY <2>2, <2>6 DEF GcValues, blobs
  <2>7. CASE GcNext
    BY <2>7 DEF GcNext, Listed, TypeOK, GcState, blobs
  <2>8. CASE GcDelete
    <3>1. gc' = After(gc.orphans) /\ values' \subseteq values
      BY <2>8 DEF GcDelete
    <3>2. QED
      BY <2>2, <3>1
  <2>9. CASE GcDies
    BY <2>1, <2>9 DEF GcDies, blobs
  <2>10. QED
    BY <2>3, <2>4, <2>5, <2>6, <2>7, <2>8, <2>9 DEF GcStep
<1>3. \A w \in Writers : InFlight(w)' => InFlight(w) /\ put'[w].id = put[w].id
  BY <1>1 DEF InFlight
<1>4. prune.half \notin marks
  BY DEF IdInv
<1>5. QED
  BY <1>1, <1>2, <1>3, <1>4, IdFrame

LEMMA GetIds ==
  ASSUME TypeOK, IdInv, NEW r \in Readers, GetStep(r)
  PROVE  IdInv'
<1>1. UNCHANGED <<lastId, marks, values, gc, prune, put>>
  BY DEF GetStep, GetMark, GetValue, GetMeta, blobs
<1>2. \A q \in Readers : get'[q].id \in {0, get[q].id} \union marks
  <2>1. CASE GetMark(r)
    BY <2>1 DEF GetMark, TypeOK
  <2>2. CASE GetValue(r)
    BY <2>2 DEF GetValue, TypeOK, GetState
  <2>3. CASE GetMeta(r)
    BY <2>3 DEF GetMeta, TypeOK, NoGet
  <2>4. QED
    BY <2>1, <2>2, <2>3 DEF GetStep
<1>3. \A w \in Writers : InFlight(w)' => InFlight(w) /\ put'[w].id = put[w].id
  BY <1>1 DEF InFlight
<1>4. prune.half \notin marks
  BY DEF IdInv
<1>5. QED
  BY <1>1, <1>2, <1>3, <1>4, IdFrame

LEMMA IdStep == TypeOK /\ IdInv /\ RetentionInv /\ [Next]_vars => IdInv'
<1> SUFFICES ASSUME TypeOK, IdInv, RetentionInv, [Next]_vars PROVE IdInv'
  OBVIOUS
<1>1. CASE Tick
  BY <1>1 DEF Tick, IdInv, InFlight, blobs
<1>2. CASE UNCHANGED vars
  BY <1>2 DEF vars, IdInv, InFlight
<1>3. QED
  BY <1>1, <1>2, WriterIds, PutBeginIds, PutValueIds, PutMarkIds, PruneIds, GcIds, GetIds
  DEF Next, PutStep

-----------------------------------------------------------------------------
(* Retention.                                                              *)

LEMMA RetentionInit == Init => RetentionInv
BY DEF Init, RetentionInv, NoPrune, Idle

\* Commits only add to the checkpoints there are.
LEMMA RetentionFrame ==
  ASSUME TypeOK, TypeOK', RetentionInv,
         marks \subseteq marks', prune' = prune, latest' = latest,
         \A w \in Writers : put'[w].pc \in {"hint", "latest"} =>
            \/ put'[w].id \in marks'
            \/ put[w].pc \in {"hint", "latest"} /\ put'[w].id = put[w].id
  PROVE  RetentionInv'
<1>1. prune'.todo \subseteq marks'
  BY DEF RetentionInv
<1>2. \A i \in prune'.todo : \E j \in marks' : j > i
  BY DEF RetentionInv
<1>3. latest' # 0 => \E j \in marks' : latest' <= j
  BY DEF RetentionInv
<1>4. ASSUME NEW w \in Writers, put'[w].pc \in {"hint", "latest"}
      PROVE  \E j \in marks' : put'[w].id <= j
  <2>1. CASE put'[w].id \in marks'
    <3>1. put'[w].id \in Int
      <4>1. marks' \subseteq Ids
        BY DEF TypeOK
      <4>2. QED
        BY <2>1, <4>1, IdsAreInt, Zenon
    <3>2. QED
      BY <2>1, <3>1
  <2>2. CASE put[w].pc \in {"hint", "latest"} /\ put'[w].id = put[w].id
    BY <2>2 DEF RetentionInv
  <2>3. QED
    BY <1>4, <2>1, <2>2
<1>5. QED
  BY <1>1, <1>2, <1>3, <1>4 DEF RetentionInv

\* The newest of the checkpoints to delete is older than one that stays.
LEMMA PruneKeepsNewer ==
  ASSUME TypeOK, RetentionInv, PruneMark
  PROVE  /\ Newest(prune.todo) \in prune.todo
         /\ marks' = marks \ {Newest(prune.todo)}
         /\ \A i \in marks : \E j \in marks' : i <= j
         /\ \A i \in prune.todo : \E j \in marks' : i < j
<1> DEFINE m == Newest(prune.todo)
<1>1. m \in prune.todo /\ \A i \in prune.todo : i <= m
  BY NewestOf DEF PruneMark, TypeOK, PruneState
<1>2. marks' = marks \ {m}
  BY DEF PruneMark
<1>3. marks \subseteq Int
  BY BoundsAssumption DEF TypeOK, Ids
<1>4. PICK k \in marks : k > m
  BY <1>1 DEF RetentionInv
<1>5. k \in marks' /\ m \in Int /\ k \in Int
  <2>1. m \in Int /\ k \in Int
    BY <1>1, <1>3 DEF RetentionInv
  <2>2. k # m
    BY <1>4, <2>1
  <2>3. QED
    BY <1>2, <2>1, <2>2
<1>6. ASSUME NEW i \in marks PROVE \E j \in marks' : i <= j
  <2>1. CASE i = m
    BY <1>4, <1>5, <2>1
  <2>2. CASE i # m
    BY <1>2, <1>3, <2>2
  <2>3. QED
    BY <2>1, <2>2
<1>7. ASSUME NEW i \in prune.todo PROVE \E j \in marks' : i < j
  <2>1. i \in Int /\ i <= m
    BY <1>1, <1>3 DEF RetentionInv
  <2>2. QED
    BY <1>4, <1>5, <2>1
<1>8. QED
  BY <1>1, <1>2, <1>6, <1>7

LEMMA PruneRetention ==
  ASSUME TypeOK, RetentionInv, PruneBegin \/ PruneStep \/ PruneDies
  PROVE  RetentionInv'
<1>1. UNCHANGED <<latest, put>>
  BY DEF PruneBegin, PruneStep, PruneMark, PruneMeta, PruneDies, blobs
<1>2. CASE PruneMark
  <2>1. prune'.todo = prune.todo \ {Newest(prune.todo)}
    BY <1>2 DEF PruneMark
  <2>2. prune'.todo \subseteq marks' /\ \A i \in prune'.todo : \E j \in marks' : j > i
    <3>1. \A i \in prune.todo : \E j \in marks' : i < j
      BY <1>2, PruneKeepsNewer
    <3>2. prune'.todo \subseteq marks'
      BY <1>2, <2>1, PruneKeepsNewer DEF RetentionInv
    <3>3. QED
      BY <2>1, <3>1, <3>2
  <2>3. \A n \in 0 .. MaxId : (\E j \in marks : n <= j) => \E j \in marks' : n <= j
    <3>1. \A i \in marks : \E j \in marks' : i <= j
      BY <1>2, PruneKeepsNewer
    <3>2. marks \subseteq Int /\ marks' \subseteq Int
      BY <1>2, PruneKeepsNewer, IdsAreInt DEF TypeOK
    <3>3. \A n, i, j \in Int : n <= i /\ i <= j => n <= j
      OBVIOUS
    <3>4. 0 .. MaxId \subseteq Int
      BY BoundsAssumption
    <3>5. QED
      BY <3>1, <3>2, <3>3, <3>4
  <2>4. latest' # 0 => \E j \in marks' : latest' <= j
    BY <1>1, <2>3 DEF RetentionInv, TypeOK
  <2>5. \A w \in Writers : put'[w].pc \in {"hint", "latest"} => \E j \in marks' : put'[w].id <= j
    BY <1>1, <2>3 DEF RetentionInv, TypeOK, PutState
  <2>6. QED
    BY <2>2, <2>4, <2>5 DEF RetentionInv
<1>3. CASE PruneBegin
  <2>1. marks' = marks
    BY <1>3 DEF PruneBegin, blobs
  <2>2. prune'.todo \subseteq marks /\ \A i \in prune'.todo : \E j \in marks : j > i
    <3>1. CASE prune' = [NoPrune EXCEPT !.todo = Older(KeepLast)]
      <4>1. ASSUME NEW i \in Older(KeepLast)
            PROVE  \E j \in marks : j > i
        <5>1. Cardinality({j \in marks : j > i}) >= KeepLast
          BY DEF Older
        <5>2. {j \in marks : j > i} # {}
          BY <5>1, FS_EmptySet, KeepAssumption
        <5>3. QED
          BY <5>2
      <4>2. prune'.todo = Older(KeepLast)
        BY <3>1 DEF NoPrune
      <4>3. QED
        BY <4>1, <4>2 DEF Older
    <3>2. ASSUME NEW i \in marks, prune' = [NoPrune EXCEPT !.todo = {j \in marks : j < i}]
          PROVE  prune'.todo \subseteq marks /\ \A k \in prune'.todo : \E j \in marks : j > k
      <4>1. prune'.todo = {j \in marks : j < i}
        BY <3>2 DEF NoPrune
      <4>2. marks \subseteq Int
        BY BoundsAssumption DEF TypeOK, Ids
      <4>3. QED
        BY <4>1, <4>2
    <3>3. QED
      BY <1>3, <3>1, <3>2 DEF PruneBegin
  <2>3. QED
    BY <1>1, <2>1, <2>2 DEF RetentionInv
<1>4. CASE PruneMeta
  <2>1. prune'.todo = prune.todo /\ marks' = marks
    BY <1>4 DEF PruneMeta, TypeOK, PruneState
  <2>2. QED
    BY <1>1, <2>1 DEF RetentionInv
<1>5. CASE PruneDies
  <2>1. prune'.todo = {} /\ marks' = marks
    BY <1>5 DEF PruneDies, NoPrune, blobs
  <2>2. QED
    BY <1>1, <2>1 DEF RetentionInv
<1>6. QED
  BY <1>2, <1>3, <1>4, <1>5 DEF PruneStep

LEMMA WriterRetention ==
  ASSUME TypeOK, TypeOK', RetentionInv, NEW w \in Writers,
         Load(w) \/ PutBegin(w) \/ PutStep(w) \/ WriterStops(w)
  PROVE  RetentionInv'
<1>1. prune' = prune /\ marks \subseteq marks'
  BY DEF Load, PutBegin, PutStep, PutValue, PutMeta, PutMark, PutReadLatest, PutLatest,
         WriterStops, blobs
<1>2. \A v \in Writers \ {w} : put'[v] = put[v]
  BY DEF Load, PutBegin, PutStep, PutValue, PutMeta, PutMark, PutReadLatest, PutLatest,
         WriterStops, TypeOK
<1>3. put'[w].pc \in {"hint", "latest"} =>
         \/ put'[w].id \in marks'
         \/ put[w].pc \in {"hint", "latest"} /\ put'[w].id = put[w].id
  <2>1. CASE Load(w)
    BY <2>1 DEF Load, TypeOK, Idle
  <2>2. CASE PutBegin(w)
    BY <2>2 DEF PutBegin, TypeOK
  <2>3. CASE PutValue(w)
    BY <2>3 DEF PutValue, TypeOK, PutState
  <2>4. CASE PutMeta(w)
    BY <2>4 DEF PutMeta, TypeOK, PutState
  <2>5. CASE PutMark(w)
    BY <2>5 DEF PutMark, TypeOK, PutState
  <2>6. CASE PutReadLatest(w)
    BY <2>6 DEF PutReadLatest, TypeOK, PutState
  <2>7. CASE PutLatest(w)
    BY <2>7 DEF PutLatest, TypeOK, Idle
  <2>8. CASE WriterStops(w)
    BY <2>8 DEF WriterStops, TypeOK, Idle
  <2>9. QED
    BY <2>1, <2>2, <2>3, <2>4, <2>5, <2>6, <2>7, <2>8 DEF PutStep
<1>4. \A v \in Writers : put'[v].pc \in {"hint", "latest"} =>
         \/ put'[v].id \in marks'
         \/ put[v].pc \in {"hint", "latest"} /\ put'[v].id = put[v].id
  BY <1>2, <1>3
<1>5. CASE latest' = latest
  BY <1>1, <1>4, <1>5, RetentionFrame
<1>6. CASE PutLatest(w)
  <2>1. marks' = marks /\ prune' = prune
    BY <1>6 DEF PutLatest
  <2>2. \E j \in marks : put[w].id <= j
    BY <1>6 DEF PutLatest, RetentionInv
  <2>3. latest' \in {latest, put[w].id}
    BY <1>6 DEF PutLatest
  <2>4. latest' # 0 => \E j \in marks : latest' <= j
    BY <2>2, <2>3 DEF RetentionInv
  <2>5. \A v \in Writers : put'[v].pc \in {"hint", "latest"} => v # w
    BY <1>6 DEF PutLatest, TypeOK, Idle
  <2>6. QED
    BY <1>2, <2>1, <2>4, <2>5 DEF RetentionInv
<1>7. QED
  BY <1>5, <1>6 DEF Load, PutBegin, PutStep, PutValue, PutMeta, PutMark, PutReadLatest,
                    WriterStops, blobs

LEMMA RetentionStep ==
  TypeOK /\ TypeOK' /\ RetentionInv /\ [Next]_vars => RetentionInv'
<1> SUFFICES ASSUME TypeOK, TypeOK', RetentionInv, [Next]_vars PROVE RetentionInv'
  OBVIOUS
<1>1. CASE GcStep \/ GcDies
  BY <1>1 DEF GcStep, GcBegin, GcList, GcFetch, GcValues, GcNext, GcDelete, GcDies, blobs,
              RetentionInv
<1>2. ASSUME NEW r \in Readers, GetStep(r) PROVE RetentionInv'
  BY <1>2 DEF GetStep, GetMark, GetValue, GetMeta, blobs, RetentionInv
<1>3. CASE Tick
  BY <1>3 DEF Tick, blobs, RetentionInv
<1>4. CASE UNCHANGED vars
  BY <1>4 DEF vars, RetentionInv
<1>5. QED
  BY <1>1, <1>2, <1>3, <1>4, PruneRetention, WriterRetention DEF Next

-----------------------------------------------------------------------------
(* What holds for any number of writers, wherever they start from.         *)

LEMMA AnyWritersInvariant == Spec => []AnyWritersInv
<1>1. Init => AnyWritersInv
  BY TypeInit, IdInit, RetentionInit DEF AnyWritersInv
<1>2. AnyWritersInv /\ [Next]_vars => AnyWritersInv'
  BY TypeStep, IdStep, RetentionStep DEF AnyWritersInv
<1>3. QED
  BY <1>1, <1>2, PTL DEF Spec

\* Every step of put, get_tuple, retention and garbage collection keeps the state
\* well formed.
THEOREM TypeCorrect == Spec => []TypeOK
<1>1. AnyWritersInv => TypeOK
  BY DEF AnyWritersInv
<1>2. QED
  BY <1>1, AnyWritersInvariant, PTL

\* latest.json is never ahead of all the checkpoints there are, however many
\* writers race for it and whatever retention deletes meanwhile.
THEOREM LatestNeverAhead == Spec => []LatestIsNotAhead
<1>1. AnyWritersInv => LatestIsNotAhead
  <2> SUFFICES ASSUME AnyWritersInv, latest # 0
               PROVE  marks # {} /\ latest <= Newest(marks)
    BY DEF LatestIsNotAhead
  <2>1. PICK j \in marks : latest <= j
    BY DEF AnyWritersInv, RetentionInv
  <2>2. j <= Newest(marks) /\ Newest(marks) \in marks
    BY NewestOf DEF AnyWritersInv, TypeOK
  <2>3. latest \in Int /\ marks \subseteq Int
    BY IdsAreInt, BoundsAssumption DEF AnyWritersInv, TypeOK
  <2>4. \A x, y, z \in Int : x <= y /\ y <= z => x <= z
    OBVIOUS
  <2>5. latest <= Newest(marks)
    <3>1. j \in Int /\ Newest(marks) \in Int
      BY <2>2, <2>3, Zenon
    <3>2. QED
      BY <2>1, <2>2, <2>3, <2>4, <3>1, Zenon
  <2>6. QED
    BY <2>2, <2>5, Zenon
<1>2. QED
  BY <1>1, AnyWritersInvariant, PTL

LEMMA NewestStays ==
  ASSUME AnyWritersInv, [Next]_vars, marks # {}
  PROVE  Newest(marks) \in marks'
<1>1. Newest(marks) \in marks /\ \A i \in marks : i <= Newest(marks)
  BY NewestOf DEF AnyWritersInv, TypeOK
<1>2. CASE PruneMark
  <2>1. PICK j \in marks' : Newest(prune.todo) < j
    BY <1>2, PruneKeepsNewer DEF AnyWritersInv
  <2>2. j \in marks /\ j <= Newest(marks)
    BY <1>1, <1>2, <2>1, PruneKeepsNewer DEF AnyWritersInv
  <2>3. marks \subseteq Int /\ Newest(prune.todo) \in marks
    BY <1>2, PruneKeepsNewer, IdsAreInt DEF AnyWritersInv, RetentionInv, TypeOK
  <2>4. Newest(marks) # Newest(prune.todo)
    <3>1. \A x, y \in Int : x < y => ~ (y <= x)
      OBVIOUS
    <3>2. j \in Int /\ Newest(prune.todo) \in Int
      BY <2>2, <2>3, Zenon
    <3>3. QED
      BY <2>1, <2>2, <3>1, <3>2, Zenon
  <2>5. QED
    BY <1>1, <1>2, <2>4, PruneKeepsNewer DEF AnyWritersInv
<1>3. CASE ~PruneMark
  <2>1. marks \subseteq marks'
    BY <1>3 DEF Next, vars, blobs, Load, PutBegin, PutStep, PutValue, PutMeta, PutMark,
                PutReadLatest, PutLatest, WriterStops, PruneBegin, PruneStep, PruneMeta,
                PruneDies, GcStep, GcBegin, GcList, GcFetch, GcValues, GcNext, GcDelete,
                GcDies, GetStep, GetMark, GetValue, GetMeta, Tick
  <2>2. QED
    BY <1>1, <2>1
<1>4. QED
  BY <1>2, <1>3

\* Retention never deletes the newest checkpoint, even while newer ones are put.
THEOREM NewestNeverPruned == Spec => NewestSurvives
<1>1. AnyWritersInv /\ [Next]_vars => [marks # {} => Newest(marks) \in marks']_vars
  BY NewestStays
<1>2. QED
  BY <1>1, AnyWritersInvariant, PTL DEF Spec, NewestSurvives

-----------------------------------------------------------------------------
(* One writer per thread, which goes on from the newest checkpoint.        *)

LEMMA PruneMarkKeeps ==
  ASSUME AnyWritersInv, PruneMark
  PROVE  /\ marks' \subseteq marks
         /\ \A i \in marks' : versions'[i] = versions[i]
         /\ Base' = Base
<1>1. marks' \subseteq marks
  BY DEF PruneMark
<1>2. \A i \in marks' : versions'[i] = versions[i]
  BY DEF PruneMark, AnyWritersInv, TypeOK
<1>3. marks # {}
  BY DEF PruneMark, AnyWritersInv, RetentionInv
<1>4. Newest(marks) \in marks'
  BY <1>3, NewestStays DEF Next, PruneStep
<1>5. Newest(marks') = Newest(marks)
  <2>1. marks' \in SUBSET Ids
    BY <1>1 DEF AnyWritersInv, TypeOK
  <2>2. \A i \in marks' : i <= Newest(marks)
    BY <1>1, <1>3, NewestOf DEF AnyWritersInv, TypeOK
  <2>3. QED
    BY <1>4, <2>1, <2>2, NewestIs
<1>6. QED
  BY <1>1, <1>2, <1>3, <1>4, <1>5 DEF Base

LEMMA PutMarkCommits ==
  ASSUME AnyWritersInv, NEW w \in Writers, WriterOK(w), PutMark(w)
  PROVE  /\ put[w].id \in Ids \ marks
         /\ marks' = marks \union {put[w].id}
         /\ \A i \in marks : versions'[i] = versions[i]
         /\ versions'[put[w].id] = put[w].versions
         /\ Base' = put[w].versions
<1>1. InFlight(w)
  BY DEF PutMark, InFlight
<1>2. put[w].id \in Ids \ marks
  BY <1>1, InFlightId DEF AnyWritersInv, IdInv
<1>3. marks' = marks \union {put[w].id}
  BY DEF PutMark
<1>4. /\ \A i \in marks : versions'[i] = versions[i]
      /\ versions'[put[w].id] = put[w].versions
  BY <1>2 DEF PutMark, AnyWritersInv, TypeOK
<1>5. Newest(marks') = put[w].id
  <2>1. marks' \in SUBSET Ids
    BY <1>2, <1>3 DEF AnyWritersInv, TypeOK
  <2>2. put[w].id \in Int /\ marks \subseteq Int
    BY <1>2, IdsAreInt, Zenon DEF AnyWritersInv, TypeOK
  <2>3. put[w].id <= put[w].id
    BY <2>2
  <2>4. \A i \in marks : i < put[w].id
    BY <1>1 DEF WriterOK, Uploaded
  <2>5. \A i \in marks : i <= put[w].id
    <3>1. \A i, n \in Int : i < n => i <= n
      OBVIOUS
    <3>2. QED
      BY <2>2, <2>4, <3>1, Zenon
  <2>6. QED
    BY <1>3, <2>1, <2>3, <2>5, NewestIs
<1>6. QED
  BY <1>2, <1>3, <1>4, <1>5 DEF Base

\* A version that the newest checkpoint has names a value it refers to.
LEMMA BaseRefs ==
  ASSUME TypeOK, NEW c \in Channels, NEW n \in Ids, Base[c] = n
  PROVE  \E i \in marks : <<c, n>> \in Refs(versions[i])
<1>1. n # 0
  BY BoundsAssumption DEF Ids
<1>2. marks # {} /\ Base = versions[Newest(marks)]
  BY <1>1 DEF Base, NoVersions
<1>3. Newest(marks) \in marks
  BY <1>2, NewestOf DEF TypeOK
<1>4. <<c, n>> \in Refs(versions[Newest(marks)])
  BY <1>2 DEF Refs, Blobs
<1>5. QED
  BY <1>3, <1>4

\* What a put is about to refer to: its own values and those of the newest checkpoint.
LEMMA PutRefs ==
  ASSUME AnyWritersInv, NEW w \in Writers, WriterOK(w), InFlight(w),
         NEW b \in Refs(put[w].versions)
  PROVE  \/ b[2] = put[w].id
         \/ \E i \in marks : b \in Refs(versions[i])
<1>1. PICK c \in Channels, n \in Ids : b = <<c, n>> /\ put[w].versions[c] = n
  BY DEF Refs, Blobs
<1>2. CASE n = put[w].id
  BY <1>1, <1>2
<1>3. CASE Base[c] = n
  BY <1>1, <1>3, BaseRefs DEF AnyWritersInv
<1>4. QED
  BY <1>1, <1>2, <1>3 DEF WriterOK, Uploaded

-----------------------------------------------------------------------------
(* Committed checkpoints are complete.                                     *)

LEMMA CompleteFrame ==
  ASSUME CommittedIsComplete, marks' \subseteq marks,
         \A i \in marks' : versions'[i] = versions[i] /\ (i \in metas => i \in metas'),
         \A i \in marks' : Refs(versions[i]) \intersect values \subseteq values'
  PROVE  CommittedIsComplete'
<1> SUFFICES ASSUME NEW i \in marks'
             PROVE  i \in metas' /\ Refs(versions'[i]) \subseteq values'
  BY DEF CommittedIsComplete, Refs
<1>1. i \in metas /\ Refs(versions[i]) \subseteq values
  BY DEF CommittedIsComplete
<1>2. QED
  BY <1>1

LEMMA PutMarkComplete ==
  ASSUME AnyWritersInv, CommittedIsComplete, NEW w \in Writers, WriterOK(w), PutMark(w)
  PROVE  CommittedIsComplete'
<1>1. UNCHANGED <<values, metas>>
  BY DEF PutMark
<1>2. InFlight(w) /\ put[w].todo = {} /\ put[w].id \in metas
  BY DEF PutMark, InFlight, WriterOK
<1>3. Refs(put[w].versions) \subseteq values
  <2> SUFFICES ASSUME NEW b \in Refs(put[w].versions) PROVE b \in values
    OBVIOUS
  <2>1. PICK c \in Channels, n \in Ids : b = <<c, n>> /\ put[w].versions[c] = n
    BY DEF Refs, Blobs
  <2>2. CASE n = put[w].id
    BY <1>2, <2>1, <2>2 DEF WriterOK, Uploaded
  <2>3. CASE \E i \in marks : b \in Refs(versions[i])
    BY <2>3 DEF CommittedIsComplete
  <2>4. QED
    BY <1>2, <2>1, <2>2, <2>3, PutRefs
<1>4. ASSUME NEW i \in marks'
      PROVE  i \in metas' /\ Refs(versions'[i]) \subseteq values'
  <2>1. CASE i = put[w].id
    BY <1>1, <1>2, <1>3, <2>1, PutMarkCommits
  <2>2. CASE i \in marks
    BY <1>1, <2>2, PutMarkCommits DEF CommittedIsComplete
  <2>3. QED
    BY <2>1, <2>2, PutMarkCommits
<1>5. QED
  BY <1>4 DEF CommittedIsComplete, Refs

\* Only what the re-check found no survivor to refer to is deleted.
LEMMA GcDeleteComplete ==
  ASSUME AnyWritersInv, RecheckInv, CommittedIsComplete, GcDelete
  PROVE  CommittedIsComplete'
<1>1. UNCHANGED <<marks, metas, versions>>
  BY DEF GcDelete
<1>2. \A i \in marks : Refs(versions[i]) \intersect gc.target \subseteq gc.retained
  BY DEF GcDelete, RecheckInv
<1>3. values' = values \ (gc.target \ gc.retained)
  BY DEF GcDelete
<1>4. \A i \in marks : Refs(versions[i]) \intersect values \subseteq values'
  BY <1>2, <1>3
<1>5. QED
  BY <1>1, <1>4, CompleteFrame

LEMMA CompleteStep ==
  BlobInv /\ [Next]_vars => CommittedIsComplete'
<1> SUFFICES ASSUME BlobInv, [Next]_vars PROVE CommittedIsComplete'
  OBVIOUS
<1>1. AnyWritersInv /\ CommittedIsComplete
  BY DEF BlobInv
<1>2. ASSUME NEW w \in Writers, Load(w) \/ PutBegin(w) \/ PutStep(w) \/ WriterStops(w)
      PROVE  CommittedIsComplete'
  <2>1. CASE PutMark(w)
    BY <1>1, <2>1, PutMarkComplete DEF BlobInv, WriterInv
  <2>2. CASE ~PutMark(w)
    <3>1. marks' = marks /\ versions' = versions /\ metas \subseteq metas' /\ values \subseteq values'
      BY <1>2, <2>2 DEF Load, PutBegin, PutStep, PutValue, PutMeta, PutReadLatest, PutLatest,
                        WriterStops, blobs
    <3>2. QED
      BY <1>1, <3>1, CompleteFrame
  <2>3. QED
    BY <2>1, <2>2
<1>3. CASE PruneMark
  <2>1. metas' = metas /\ values' = values
    BY <1>3 DEF PruneMark
  <2>2. QED
    BY <1>1, <1>3, <2>1, PruneMarkKeeps, CompleteFrame
<1>4. CASE PruneMeta
  <2>1. UNCHANGED <<marks, versions, values>> /\ metas' = metas \ {prune.half}
    BY <1>4 DEF PruneMeta
  <2>2. prune.half \notin marks
    BY <1>1 DEF AnyWritersInv, IdInv
  <2>3. QED
    BY <1>1, <2>1, <2>2, CompleteFrame
<1>5. CASE GcDelete
  BY <1>1, <1>5, GcDeleteComplete DEF BlobInv
<1>6. CASE UNCHANGED <<marks, versions, metas, values>>
  BY <1>1, <1>6, CompleteFrame
<1>7. QED
  BY <1>2, <1>3, <1>4, <1>5, <1>6
  DEF Next, vars, blobs, PruneBegin, PruneStep, PruneDies, GcStep, GcBegin, GcList, GcFetch,
      GcValues, GcNext, GcDies, GetStep, GetMark, GetValue, GetMeta, Tick

-----------------------------------------------------------------------------
(* The writer.                                                             *)

\* What others do leaves alone what a put relies on.
LEMMA WriterFrame ==
  ASSUME WriterInv, put' = put, now' = now, Base' = Base, marks' \subseteq marks,
         \A w \in Writers : InFlight(w) =>
            /\ put[w].id \in metas => put[w].id \in metas'
            /\ \A b : b \in values /\ b[2] = put[w].id => b \in values'
            /\ \A b \in values' : b \in values /\ modified'[b] = modified[b]
  PROVE  WriterInv'
<1> SUFFICES ASSUME NEW w \in Writers PROVE WriterOK(w)'
  BY DEF WriterInv
<1>1. WriterOK(w)
  BY DEF WriterInv
<1>2. InFlight(w)' <=> InFlight(w)
  BY DEF InFlight
<1>3. put[w].pc \in {"loaded", "hint", "latest"} => put[w].versions = Base
  BY <1>1 DEF WriterOK
<1>4. put[w].pc = "mark" => put[w].todo = {} /\ put[w].id \in metas'
  BY <1>1 DEF WriterOK, InFlight
<1>5. ASSUME InFlight(w) PROVE Uploaded(w)'
  <2>1. Uploaded(w)
    BY <1>1, <1>5 DEF WriterOK
  <2>2. \A c \in Channels \ put[w].todo :
          put[w].versions[c] = put[w].id => <<c, put[w].id>> \in values'
    BY <1>5, <2>1 DEF Uploaded
  <2>3. \A b \in values' : b[2] = put[w].id => modified'[b] >= put[w].began
    BY <1>5, <2>1 DEF Uploaded
  <2>4. QED
    BY <2>1, <2>2, <2>3 DEF Uploaded
<1>6. QED
  BY <1>2, <1>3, <1>4, <1>5 DEF WriterOK

LEMMA WriterPrune ==
  ASSUME AnyWritersInv, WriterInv, PruneBegin \/ PruneStep \/ PruneDies
  PROVE  WriterInv'
<1>1. UNCHANGED <<put, now, values, modified>>
  BY DEF PruneBegin, PruneStep, PruneMark, PruneMeta, PruneDies, blobs
<1>2. CASE PruneMark
  <2>1. metas' = metas
    BY <1>2 DEF PruneMark
  <2>2. QED
    BY <1>1, <1>2, <2>1, PruneMarkKeeps, WriterFrame
<1>3. CASE PruneMeta
  <2>1. metas' = metas \ {prune.half} /\ marks' = marks /\ Base' = Base
    BY <1>3 DEF PruneMeta, Base
  <2>2. \A w \in Writers : InFlight(w) => put[w].id # prune.half
    BY DEF AnyWritersInv, IdInv
  <2>3. QED
    BY <1>1, <2>1, <2>2, WriterFrame
<1>4. CASE PruneBegin \/ PruneDies
  <2>1. metas' = metas /\ marks' = marks /\ Base' = Base
    BY <1>4 DEF PruneBegin, PruneDies, blobs, Base
  <2>2. QED
    BY <1>1, <2>1, WriterFrame
<1>5. QED
  BY <1>2, <1>3, <1>4 DEF PruneStep

LEMMA WriterGc ==
  ASSUME AnyWritersInv, OrphanInv, WriterInv, GcStep \/ GcDies
  PROVE  WriterInv'
<1>1. UNCHANGED <<put, now, metas, marks>> /\ Base' = Base
  BY DEF GcStep, GcBegin, GcList, GcFetch, GcValues, GcNext, GcDelete, GcDies, blobs, Base
<1>2. CASE GcDelete
  <2>1. values' = values \ (gc.target \ gc.retained)
    BY <1>2 DEF GcDelete
  <2>2. \A w \in Writers : InFlight(w) => \A b : b \in values /\ b[2] = put[w].id => b \in values'
    BY <2>1 DEF OrphanInv
  <2>3. \A b \in values' : b \in values /\ modified'[b] = modified[b]
    <3>1. values' \subseteq Blobs
      BY <2>1 DEF AnyWritersInv, TypeOK
    <3>2. QED
      BY <1>2, <2>1, <3>1 DEF GcDelete
  <2>4. QED
    BY <1>1, <2>2, <2>3, WriterFrame
<1>3. CASE UNCHANGED <<values, modified>>
  BY <1>1, <1>3, WriterFrame
<1>4. QED
  BY <1>2, <1>3 DEF GcStep, GcBegin, GcList, GcFetch, GcValues, GcNext, GcDies, blobs

LEMMA WriterGet ==
  ASSUME WriterInv, NEW r \in Readers, GetStep(r)
  PROVE  WriterInv'
<1>1. UNCHANGED <<put, now, metas, marks, versions, values, modified>>
  BY DEF GetStep, GetMark, GetValue, GetMeta, blobs
<1>2. Base' = Base
  BY <1>1 DEF Base
<1>3. QED
  BY <1>1, <1>2, WriterFrame

\* Time does not pass once a put in flight has used up its time.
LEMMA WriterTick ==
  ASSUME AnyWritersInv, WriterInv, Tick
  PROVE  WriterInv'
<1> SUFFICES ASSUME NEW w \in Writers PROVE WriterOK(w)'
  BY DEF WriterInv
<1>1. UNCHANGED <<put, marks, versions, metas, values, modified>> /\ now' = now + 1
  BY DEF Tick, blobs
<1>2. Base' = Base /\ (InFlight(w)' <=> InFlight(w))
  BY <1>1 DEF Base, InFlight
<1>3. WriterOK(w)
  BY DEF WriterInv
<1>4. ASSUME InFlight(w) PROVE Uploaded(w)'
  <2>1. Uploaded(w)
    BY <1>3, <1>4 DEF WriterOK
  <2>2. now < put[w].began + PutTime
    BY <1>4 DEF Tick, InTime, InFlight
  <2>3. put[w].began \in Nat /\ now \in Nat
    BY DEF AnyWritersInv, TypeOK, PutState
  <2>4. put[w].began <= now
    BY <2>1 DEF Uploaded
  <2>5. put[w].began <= now' /\ now' <= put[w].began + PutTime
    BY <1>1, <2>2, <2>3, <2>4, GraceAssumption
  <2>6. QED
    BY <1>1, <1>2, <2>1, <2>5 DEF Uploaded
<1>5. QED
  BY <1>1, <1>2, <1>3, <1>4 DEF WriterOK

\* The newest checkpoint has no version that is still to be given out.
LEMMA BaseIsKnown ==
  ASSUME AnyWritersInv, CommittedIsComplete, NEW c \in Channels
  PROVE  Base[c] # lastId + 1
<1> SUFFICES ASSUME Base[c] = lastId + 1 PROVE FALSE
  OBVIOUS
<1>1. lastId \in Nat /\ lastId \in 0 .. MaxId
  BY BoundsAssumption DEF AnyWritersInv, TypeOK
<1>2. Base \in Versions
  <2>1. marks # {} => Newest(marks) \in Ids
    BY NewestOf DEF AnyWritersInv, TypeOK
  <2>2. QED
    BY <2>1, ConstantsTyped DEF Base, AnyWritersInv, TypeOK
<1>3. lastId + 1 \in Ids
  BY <1>1, <1>2, BoundsAssumption DEF Versions, Ids
<1>4. PICK i \in marks : <<c, lastId + 1>> \in Refs(versions[i])
  BY <1>3, BaseRefs DEF AnyWritersInv
<1>5. <<c, lastId + 1>> \in values
  BY <1>4 DEF CommittedIsComplete
<1>6. lastId + 1 <= lastId
  BY <1>5 DEF AnyWritersInv, IdInv
<1>7. QED
  BY <1>1, <1>6

LEMMA LoadWriter ==
  ASSUME SingleWriter, AnyWritersInv, NEW w \in Writers, Load(w)
  PROVE  WriterOK(w)'
<1>1. Base' = Base
  BY DEF Load, blobs, Base
<1>2. put'[w].pc = "loaded" /\ put'[w].versions = Base
  <2>1. CASE marks = {} /\ put' = [put EXCEPT ![w] = [Idle EXCEPT !.pc = "loaded"]]
    BY <2>1 DEF AnyWritersInv, TypeOK, Idle, Base
  <2>2. ASSUME NEW base \in Bases,
               put' = [put EXCEPT ![w] = [Idle EXCEPT !.pc = "loaded",
                                                      !.versions = versions[base]]]
        PROVE  put'[w].pc = "loaded" /\ put'[w].versions = Base
    <3>1. marks # {} /\ base = Newest(marks)
      BY DEF Bases, SingleWriter
    <3>2. QED
      BY <2>2, <3>1 DEF AnyWritersInv, TypeOK, Idle, Base
  <2>3. QED
    BY <2>1, <2>2 DEF Load
<1>3. QED
  BY <1>1, <1>2 DEF WriterOK, InFlight

LEMMA PutBeginWriter ==
  ASSUME AnyWritersInv, CommittedIsComplete, NEW w \in Writers, WriterOK(w), PutBegin(w)
  PROVE  WriterOK(w)'
<1>1. UNCHANGED <<marks, versions, metas, values, modified, now>> /\ Base' = Base
  BY DEF PutBegin, blobs, Base
<1>2. put[w].versions = Base
  BY DEF WriterOK, PutBegin
<1>3. PICK changed \in SUBSET Channels :
        put'[w] = [pc |-> "values", id |-> lastId + 1, todo |-> changed,
                   versions |-> [c \in Channels |-> IF c \in changed THEN lastId + 1
                                                    ELSE put[w].versions[c]],
                   began |-> now, seen |-> 0]
  BY DEF PutBegin, AnyWritersInv, TypeOK
<1>4. lastId \in Nat /\ now \in Nat
  BY BoundsAssumption DEF AnyWritersInv, TypeOK
<1>5. \A i \in marks : i < lastId + 1
  <2>1. \A i, n \in Int : i <= n => i < n + 1
    OBVIOUS
  <2>2. \A i \in marks : i \in Int /\ i <= lastId
    <3>1. marks \subseteq 1 .. lastId
      BY DEF AnyWritersInv, IdInv
    <3>2. \A i \in 1 .. lastId : i \in Int /\ i <= lastId
      BY <1>4
    <3>3. QED
      BY <3>1, <3>2, Zenon
  <2>3. lastId \in Int
    BY <1>4
  <2>4. QED
    BY <2>1, <2>2, <2>3, Zenon
<1>6. now <= now /\ now <= now + PutTime
  BY <1>4, GraceAssumption
<1>7. \A c \in Channels \ changed : put'[w].versions[c] # lastId + 1
  BY <1>2, <1>3, BaseIsKnown
<1>8. \A b \in values : b[2] # lastId + 1
  BY <1>4 DEF AnyWritersInv, IdInv
<1>9. Uploaded(w)'
  BY <1>1, <1>2, <1>3, <1>5, <1>6, <1>7, <1>8 DEF Uploaded
<1>10. QED
  BY <1>3, <1>9 DEF WriterOK

LEMMA PutValueWriter ==
  ASSUME AnyWritersInv, NEW w \in Writers, WriterOK(w), PutValue(w)
  PROVE  WriterOK(w)'
<1>1. UNCHANGED <<marks, versions, metas, now>> /\ Base' = Base
  BY DEF PutValue, Base
<1>2. Uploaded(w)
  BY DEF WriterOK, PutValue, InFlight
<1>3. PICK c \in put[w].todo :
        /\ values' = values \union {<<c, put[w].id>>}
        /\ modified' = [modified EXCEPT ![<<c, put[w].id>>] = now]
        /\ put' = [put EXCEPT ![w].todo = @ \ {c}]
  BY DEF PutValue
<1>4. put'[w] = [put[w] EXCEPT !.todo = @ \ {c}]
  BY <1>3 DEF AnyWritersInv, TypeOK
<1>5. /\ put'[w].pc = "values" /\ put'[w].id = put[w].id /\ put'[w].began = put[w].began
      /\ put'[w].versions = put[w].versions /\ put'[w].todo = put[w].todo \ {c}
  BY <1>4 DEF PutValue, AnyWritersInv, TypeOK, PutState
<1>6. \A d \in Channels \ put'[w].todo :
        put[w].versions[d] = put[w].id => <<d, put[w].id>> \in values'
  BY <1>2, <1>3, <1>5 DEF Uploaded
<1>7. \A b \in values' : b[2] = put[w].id => modified'[b] >= put[w].began
  <2>1. values \subseteq Blobs /\ modified \in [Blobs -> Nat] /\ <<c, put[w].id>> \in Blobs
    <3>1. put[w].id \in Ids
      BY InFlightId DEF AnyWritersInv, PutValue, InFlight
    <3>2. QED
      BY <3>1 DEF AnyWritersInv, TypeOK, PutState, Blobs
  <2>2. now >= put[w].began
    BY <1>2 DEF Uploaded, AnyWritersInv, TypeOK, PutState
  <2>3. QED
    BY <1>2, <1>3, <2>1, <2>2 DEF Uploaded
<1>8. Uploaded(w)'
  BY <1>1, <1>2, <1>5, <1>6, <1>7 DEF Uploaded
<1>9. QED
  BY <1>5, <1>8 DEF WriterOK

\* The other steps of put() upload no value.
LEMMA OtherWriterSteps ==
  ASSUME AnyWritersInv, NEW w \in Writers, WriterOK(w),
         PutMeta(w) \/ PutMark(w) \/ PutReadLatest(w) \/ PutLatest(w) \/ WriterStops(w)
  PROVE  WriterOK(w)'
<1>1. CASE PutMeta(w)
  <2>1. UNCHANGED <<marks, versions, values, modified, now>> /\ Base' = Base
    BY <1>1 DEF PutMeta, Base
  <2>2. /\ put'[w].pc = "mark" /\ put'[w].todo = {} /\ put'[w].todo = put[w].todo
        /\ put'[w].id = put[w].id /\ put'[w].id \in metas'
        /\ put'[w].began = put[w].began /\ put'[w].versions = put[w].versions
    BY <1>1 DEF PutMeta, ValuesDone, AnyWritersInv, TypeOK, PutState
  <2>3. Uploaded(w)
    BY <1>1 DEF WriterOK, PutMeta, InFlight
  <2>4. Uploaded(w)'
    BY <2>1, <2>2, <2>3 DEF Uploaded
  <2>5. QED
    BY <2>2, <2>4 DEF WriterOK
<1>2. CASE PutMark(w)
  <2>1. put'[w].pc = "hint" /\ put'[w].versions = put[w].versions
    BY <1>2 DEF PutMark, AnyWritersInv, TypeOK, PutState
  <2>2. QED
    BY <1>2, <2>1, PutMarkCommits DEF WriterOK, InFlight
<1>3. CASE PutReadLatest(w)
  <2>1. put'[w].pc = "latest" /\ put'[w].versions = put[w].versions /\ Base' = Base
    BY <1>3 DEF PutReadLatest, AnyWritersInv, TypeOK, PutState, blobs, Base
  <2>2. QED
    BY <1>3, <2>1 DEF WriterOK, InFlight, PutReadLatest
<1>4. CASE PutLatest(w)
  <2>1. put'[w].pc = "loaded" /\ put'[w].versions = put[w].versions /\ Base' = Base
    BY <1>4 DEF PutLatest, AnyWritersInv, TypeOK, Idle, Base
  <2>2. QED
    BY <1>4, <2>1 DEF WriterOK, InFlight, PutLatest
<1>5. CASE WriterStops(w)
  BY <1>5 DEF WriterStops, AnyWritersInv, TypeOK, Idle, WriterOK, InFlight
<1>6. QED
  BY <1>1, <1>2, <1>3, <1>4, <1>5

LEMMA WriterStep ==
  SingleWriter /\ BlobInv /\ [Next]_vars => WriterInv'
<1> SUFFICES ASSUME SingleWriter, BlobInv, [Next]_vars PROVE WriterInv'
  OBVIOUS
<1>1. AnyWritersInv /\ WriterInv /\ OrphanInv /\ CommittedIsComplete
  BY DEF BlobInv
<1>2. ASSUME NEW w \in Writers, Load(w) \/ PutBegin(w) \/ PutStep(w) \/ WriterStops(w)
      PROVE  WriterInv'
  <2>1. WriterOK(w)
    BY <1>1 DEF WriterInv
  <2>2. WriterOK(w)'
    BY <1>1, <1>2, <2>1, LoadWriter, PutBeginWriter, PutValueWriter, OtherWriterSteps DEF PutStep
  <2>3. \A v \in Writers : v = w
    BY DEF SingleWriter
  <2>4. QED
    BY <2>2, <2>3 DEF WriterInv
<1>3. CASE UNCHANGED vars
  <2>1. UNCHANGED <<put, now, marks, metas, values, modified>> /\ Base' = Base
    BY <1>3 DEF vars, Base
  <2>2. QED
    BY <1>1, <2>1, WriterFrame
<1>4. QED
  BY <1>1, <1>2, <1>3, WriterPrune, WriterGc, WriterGet, WriterTick DEF Next

-----------------------------------------------------------------------------
(* The garbage collector.                                                  *)

LEMMA AfterFields ==
  ASSUME NEW S
  PROVE  /\ After(S).pc \in {"off", "next"} /\ After(S).orphans = S
         /\ After(S).target = {}
BY DEF After, NoGc

LEMMA CutoffStep ==
  AnyWritersInv /\ CutoffInv /\ [Next]_vars => CutoffInv'
<1> SUFFICES ASSUME AnyWritersInv, CutoffInv, [Next]_vars PROVE CutoffInv'
  OBVIOUS
<1>0. now \in Nat /\ gc \in GcState
  BY DEF AnyWritersInv, TypeOK
<1>1. CASE Tick
  <2>1. gc' = gc /\ now' = now + 1 /\ gc.cutoff \in Int
    BY <1>0, <1>1 DEF Tick, GcState
  <2>2. QED
    BY <1>0, <2>1, GraceAssumption DEF CutoffInv
<1>2. CASE GcStep \/ GcDies
  <2>1. now' = now
    BY <1>2 DEF GcStep, GcBegin, GcList, GcFetch, GcValues, GcNext, GcDelete, GcDies
  <2>2. CASE GcBegin
    <3>1. now - Grace \in Int /\ now - Grace <= now - Grace
      BY <1>0, GraceAssumption
    <3>2. gc'.cutoff = now - Grace
      BY <2>2 DEF GcBegin, NoGc
    <3>3. QED
      BY <2>1, <3>1, <3>2 DEF CutoffInv
  <2>3. CASE GcList
    BY <1>0, <2>1, <2>3 DEF GcList, Listed, GcState, CutoffInv
  <2>4. CASE GcFetch
    BY <1>0, <2>1, <2>4 DEF GcFetch, NoGc, GcState, CutoffInv
  <2>5. CASE GcNext
    <3>1. gc'.target # {}
      BY <1>0, <2>5 DEF GcNext, Listed, GcState
    <3>2. QED
      BY <3>1 DEF CutoffInv
  <2>6. CASE GcValues \/ GcDelete
    <3>1. gc'.pc \in {"off", "next"}
      BY <2>6, AfterFields DEF GcValues, GcDelete
    <3>2. QED
      BY <3>1 DEF CutoffInv
  <2>7. CASE GcDies
    BY <2>7 DEF GcDies, NoGc, CutoffInv
  <2>8. QED
    BY <1>2, <2>2, <2>3, <2>4, <2>5, <2>6, <2>7 DEF GcStep
<1>3. CASE UNCHANGED <<gc, now>>
  BY <1>3 DEF CutoffInv
<1>4. QED
  BY <1>1, <1>2, <1>3
  DEF Next, vars, Load, PutBegin, PutStep, PutValue, PutMeta, PutMark, PutReadLatest, PutLatest,
      WriterStops, PruneBegin, PruneStep, PruneMark, PruneMeta, PruneDies, GetStep, GetMark,
      GetValue, GetMeta

\* A value of a put in flight was uploaded after the cutoff.
LEMMA InFlightIsYoung ==
  ASSUME AnyWritersInv, WriterInv, CutoffInv, GcValues,
         NEW b \in values, Orphaned(b), NEW w \in Writers, InFlight(w)
  PROVE  b[2] # put[w].id
<1> SUFFICES ASSUME b[2] = put[w].id PROVE FALSE
  OBVIOUS
<1>1. Uploaded(w)
  BY DEF WriterInv, WriterOK
<1>2. modified[b] >= put[w].began /\ now <= put[w].began + PutTime
  BY <1>1 DEF Uploaded
<1>3. modified[b] <= gc.cutoff /\ gc.cutoff <= now - Grace
  BY DEF Orphaned, CutoffInv, GcValues
<1>4. /\ modified[b] \in Int /\ put[w].began \in Int /\ now \in Int /\ gc.cutoff \in Int
      /\ PutTime \in Int /\ Grace \in Int /\ PutTime < Grace
  BY GraceAssumption DEF AnyWritersInv, TypeOK, PutState, GcState
<1>5. QED
  BY <1>2, <1>3, <1>4

\* A step that finds no orphans.
LEMMA OrphanFrame ==
  ASSUME OrphanInv,
         gc'.orphans \union gc'.target \subseteq gc.orphans \union gc.target,
         \A w \in Writers : InFlight(w)' => InFlight(w) /\ put'[w].id = put[w].id
  PROVE  OrphanInv'
BY DEF OrphanInv

LEMMA OrphanStep ==
  BlobInv /\ [Next]_vars => OrphanInv'
<1> SUFFICES ASSUME BlobInv, [Next]_vars PROVE OrphanInv'
  OBVIOUS
<1>0. AnyWritersInv /\ OrphanInv /\ WriterInv /\ CutoffInv /\ gc \in GcState
  BY DEF BlobInv, AnyWritersInv, TypeOK
<1>1. CASE GcValues
  <2>1. gc'.orphans \union gc'.target = {b \in values : Orphaned(b)} /\ put' = put
    BY <1>1, AfterFields DEF GcValues
  <2>2. \A b \in values, w \in Writers : Orphaned(b) /\ InFlight(w) => b[2] # put[w].id
    BY <1>0, <1>1, InFlightIsYoung
  <2>3. QED
    BY <2>1, <2>2 DEF OrphanInv, InFlight
<1>2. CASE GcBegin \/ GcList \/ GcFetch \/ GcNext \/ GcDelete \/ GcDies
  <2>1. put' = put
    BY <1>2 DEF GcBegin, GcList, GcFetch, GcNext, GcDelete, GcDies
  <2>2. gc'.orphans \union gc'.target \subseteq gc.orphans \union gc.target
    <3>1. CASE GcBegin \/ GcDies
      <4>1. CASE GcBegin
        BY <4>1 DEF GcBegin, NoGc
      <4>2. CASE GcDies
        BY <4>2 DEF GcDies, NoGc
      <4>3. QED
        BY <3>1, <4>1, <4>2
    <3>2. CASE GcList
      BY <1>0, <3>2 DEF GcList, Listed, GcState
    <3>3. CASE GcFetch
      BY <1>0, <3>3 DEF GcFetch, NoGc, GcState
    <3>4. CASE GcNext
      BY <1>0, <3>4 DEF GcNext, Listed, GcState
    <3>5. CASE GcDelete
      BY <3>5, AfterFields DEF GcDelete
    <3>6. QED
      BY <1>2, <3>1, <3>2, <3>3, <3>4, <3>5
  <2>3. QED
    BY <1>0, <2>1, <2>2, OrphanFrame DEF InFlight
<1>3. ASSUME NEW w \in Writers, PutBegin(w) PROVE OrphanInv'
  <2>1. gc' = gc /\ put'[w].id = lastId + 1 /\ \A v \in Writers \ {w} : put'[v] = put[v]
    BY <1>0, <1>3 DEF PutBegin, AnyWritersInv, TypeOK
  <2>2. \A b \in gc.orphans \union gc.target : b[2] # lastId + 1
    <3>1. lastId \in Nat
      BY <1>0, BoundsAssumption DEF AnyWritersInv, TypeOK
    <3>2. QED
      BY <1>0, <3>1 DEF AnyWritersInv, IdInv
  <2>3. QED
    BY <1>0, <2>1, <2>2 DEF OrphanInv, InFlight
<1>4. ASSUME NEW w \in Writers, Load(w) \/ PutStep(w) \/ WriterStops(w) PROVE OrphanInv'
  <2>1. gc' = gc
    BY <1>4 DEF Load, PutStep, PutValue, PutMeta, PutMark, PutReadLatest, PutLatest, WriterStops
  <2>2. \A v \in Writers \ {w} : put'[v] = put[v]
    BY <1>0, <1>4 DEF Load, PutStep, PutValue, PutMeta, PutMark, PutReadLatest, PutLatest,
                      WriterStops, AnyWritersInv, TypeOK
  <2>3. InFlight(w)' => InFlight(w) /\ put'[w].id = put[w].id
    <3>1. put \in [Writers -> PutState]
      BY <1>0 DEF AnyWritersInv, TypeOK
    <3>2. CASE Load(w) \/ PutLatest(w) \/ WriterStops(w)
      <4>1. CASE Load(w)
        BY <3>1, <4>1 DEF Load, Idle, InFlight
      <4>2. CASE PutLatest(w)
        BY <3>1, <4>2 DEF PutLatest, Idle, InFlight
      <4>3. CASE WriterStops(w)
        BY <3>1, <4>3 DEF WriterStops, Idle, InFlight
      <4>4. QED
        BY <3>2, <4>1, <4>2, <4>3
    <3>3. CASE PutValue(w)
      BY <3>1, <3>3 DEF PutValue, PutState, InFlight
    <3>4. CASE PutMeta(w) \/ PutMark(w) \/ PutReadLatest(w)
      BY <3>1, <3>4 DEF PutMeta, PutMark, PutReadLatest, PutState, InFlight
    <3>5. QED
      BY <1>4, <3>2, <3>3, <3>4 DEF PutStep
  <2>4. QED
    BY <1>0, <2>1, <2>2, <2>3, OrphanFrame DEF InFlight
<1>5. CASE UNCHANGED <<gc, put>>
  BY <1>0, <1>5 DEF OrphanInv, InFlight
<1>6. QED
  BY <1>1, <1>2, <1>3, <1>4, <1>5
  DEF Next, vars, GcStep, PruneBegin, PruneStep, PruneMark, PruneMeta, PruneDies, GetStep,
      GetMark, GetValue, GetMeta, Tick

LEMMA RecheckFrame ==
  ASSUME RecheckInv, gc' = gc, marks' \subseteq marks,
         \A i \in marks' : versions'[i] = versions[i]
  PROVE  RecheckInv'
<1> SUFFICES ASSUME gc.pc = "fetch", gc.todo \subseteq marks',
                    NEW i \in marks', NEW b \in Refs(versions'[i]) \intersect gc.target
             PROVE  b \in gc.retained \/ \E k \in gc.todo : b \in Refs(versions'[k])
  BY DEF RecheckInv, Refs
<1>1. versions'[i] = versions[i] /\ gc.todo \subseteq marks
  OBVIOUS
<1>2. b \in gc.retained \/ \E k \in gc.todo : b \in Refs(versions[k])
  BY <1>1 DEF RecheckInv
<1>3. \A k \in gc.todo : versions'[k] = versions[k]
  OBVIOUS
<1>4. QED
  BY <1>2, <1>3

\* A commit during the re-check: its own values are no orphans, and the others it has
\* from a checkpoint that the re-check knows.
LEMMA PutMarkRecheck ==
  ASSUME AnyWritersInv, OrphanInv, RecheckInv, NEW w \in Writers, WriterOK(w), PutMark(w)
  PROVE  RecheckInv'
<1>1. gc' = gc /\ InFlight(w)
  BY DEF PutMark, InFlight
<1>2. put[w].id \notin gc.todo
  BY <1>1 DEF AnyWritersInv, IdInv
<1> SUFFICES ASSUME gc.pc = "fetch", gc.todo \subseteq marks',
                    NEW i \in marks', NEW b \in Refs(versions'[i]) \intersect gc.target
             PROVE  b \in gc.retained \/ \E k \in gc.todo : b \in Refs(versions'[k])
  BY <1>1 DEF RecheckInv, Refs
<1>3. gc.todo \subseteq marks
  BY <1>2, PutMarkCommits
<1>4. \E j \in marks : b \in Refs(versions[j])
  <2>1. CASE i = put[w].id
    <3>1. b \in Refs(put[w].versions)
      BY <2>1, PutMarkCommits
    <3>2. b[2] # put[w].id
      BY <1>1 DEF OrphanInv
    <3>3. QED
      BY <1>1, <3>1, <3>2, PutRefs
  <2>2. CASE i \in marks
    BY <2>2, PutMarkCommits
  <2>3. QED
    BY <2>1, <2>2, PutMarkCommits
<1>5. b \in gc.retained \/ \E k \in gc.todo : b \in Refs(versions[k])
  BY <1>3, <1>4 DEF RecheckInv
<1>6. \A k \in gc.todo : versions'[k] = versions[k]
  BY <1>3, PutMarkCommits
<1>7. QED
  BY <1>5, <1>6

LEMMA GcRecheck ==
  ASSUME AnyWritersInv, RecheckInv, GcStep \/ GcDies
  PROVE  RecheckInv'
<1>0. gc \in GcState
  BY DEF AnyWritersInv, TypeOK
<1>1. UNCHANGED <<marks, versions>>
  BY DEF GcStep, GcBegin, GcList, GcFetch, GcValues, GcNext, GcDelete, GcDies, blobs
<1>2. CASE GcList \/ GcNext
  <2>1. gc'.todo = marks
    <3>1. CASE GcList
      BY <1>0, <3>1 DEF GcList, Listed, GcState
    <3>2. CASE GcNext
      BY <1>0, <3>2 DEF GcNext, Listed, GcState
    <3>3. QED
      BY <1>2, <3>1, <3>2
  <2>2. QED
    BY <1>1, <2>1 DEF RecheckInv, Refs
<1>3. CASE GcFetch
  <2> DEFINE i == Newest(gc.todo)
  <2>1. CASE i \in marks
    <3>1. /\ gc.pc = "fetch" /\ gc'.target = gc.target
          /\ gc'.todo = gc.todo \ {i} /\ gc'.retained = gc.retained \union Refs(versions[i])
      BY <1>0, <1>3, <2>1 DEF GcFetch, GcState
    <3>2. ASSUME gc'.todo \subseteq marks,
                 NEW j \in marks, NEW b \in Refs(versions[j]) \intersect gc.target
          PROVE  b \in gc'.retained \/ \E k \in gc'.todo : b \in Refs(versions[k])
      <4>1. gc.todo \subseteq marks
        BY <2>1, <3>1, <3>2
      <4>2. b \in gc.retained \/ \E k \in gc.todo : b \in Refs(versions[k])
        BY <3>1, <4>1 DEF RecheckInv
      <4>3. QED
        BY <3>1, <4>2
    <3>3. QED
      BY <1>1, <3>1, <3>2 DEF RecheckInv, Refs
  <2>2. CASE i \notin marks
    BY <1>3, <2>2 DEF GcFetch, NoGc, RecheckInv
  <2>3. QED
    BY <2>1, <2>2
<1>4. CASE GcBegin \/ GcValues \/ GcDelete \/ GcDies
  <2>1. gc'.pc # "fetch"
    <3>1. CASE GcBegin
      BY <3>1 DEF GcBegin, NoGc
    <3>2. CASE GcValues \/ GcDelete
      BY <3>2, AfterFields DEF GcValues, GcDelete
    <3>3. CASE GcDies
      BY <3>3 DEF GcDies, NoGc
    <3>4. QED
      BY <1>4, <3>1, <3>2, <3>3
  <2>2. QED
    BY <2>1 DEF RecheckInv
<1>5. QED
  BY <1>2, <1>3, <1>4 DEF GcStep

LEMMA RecheckStep ==
  BlobInv /\ [Next]_vars => RecheckInv'
<1> SUFFICES ASSUME BlobInv, [Next]_vars PROVE RecheckInv'
  OBVIOUS
<1>1. AnyWritersInv /\ WriterInv /\ OrphanInv /\ RecheckInv
  BY DEF BlobInv
<1>2. ASSUME NEW w \in Writers, Load(w) \/ PutBegin(w) \/ PutStep(w) \/ WriterStops(w)
      PROVE  RecheckInv'
  <2>1. CASE PutMark(w)
    BY <1>1, <2>1, PutMarkRecheck DEF WriterInv
  <2>2. CASE ~PutMark(w)
    <3>1. UNCHANGED <<gc, marks, versions>>
      BY <1>2, <2>2 DEF Load, PutBegin, PutStep, PutValue, PutMeta, PutReadLatest, PutLatest,
                        WriterStops, blobs
    <3>2. QED
      BY <1>1, <3>1, RecheckFrame
  <2>3. QED
    BY <2>1, <2>2
<1>3. CASE PruneMark
  <2>1. gc' = gc
    BY <1>3 DEF PruneMark
  <2>2. QED
    BY <1>1, <1>3, <2>1, PruneMarkKeeps, RecheckFrame
<1>4. CASE GcStep \/ GcDies
  BY <1>1, <1>4, GcRecheck
<1>5. CASE UNCHANGED <<gc, marks, versions>>
  BY <1>1, <1>5, RecheckFrame
<1>6. QED
  BY <1>2, <1>3, <1>4, <1>5
  DEF Next, vars, blobs, PruneBegin, PruneStep, PruneMeta, PruneDies, GetStep, GetMark,
      GetValue, GetMeta, Tick

-----------------------------------------------------------------------------
(* Readers.                                                                *)

LEMMA ReaderFrame ==
  ASSUME ReaderInv, get' = get,
         \A r \in Readers : get[r].id \in marks' =>
            get[r].id \in marks /\ versions'[get[r].id] = versions[get[r].id]
  PROVE  ReaderInv'
<1> SUFFICES ASSUME NEW r \in Readers, get[r].pc = "values", get[r].id \in marks'
             PROVE  get[r].got \union get[r].todo = Refs(versions'[get[r].id])
  BY DEF ReaderInv, Refs
<1>1. get[r].got \union get[r].todo = Refs(versions[get[r].id])
  BY DEF ReaderInv
<1>2. QED
  BY <1>1

LEMMA GetReader ==
  ASSUME AnyWritersInv, ReaderInv, CommittedIsComplete, NEW r \in Readers, GetStep(r)
  PROVE  ReaderInv'
<1>0. get \in [Readers -> GetState]
  BY DEF AnyWritersInv, TypeOK
<1>1. UNCHANGED <<marks, versions>>
  BY DEF GetStep, GetMark, GetValue, GetMeta, blobs
<1>2. \A q \in Readers \ {r} : get'[q] = get[q]
  BY <1>0 DEF GetStep, GetMark, GetValue, GetMeta
<1>3. get'[r].pc = "values" /\ get'[r].id \in marks =>
         get'[r].got \union get'[r].todo = Refs(versions[get'[r].id])
  <2>1. CASE GetMark(r)
    <3>1. PICK i \in marks :
            get'[r] = [pc |-> "values", id |-> i, got |-> {}, todo |-> Refs(versions[i])]
      BY <1>0, <2>1 DEF GetMark
    <3>2. QED
      BY <3>1
  <2>2. CASE GetValue(r)
    <3>1. PICK b \in get[r].todo :
            get'[r] = [get[r] EXCEPT !.todo = @ \ {b},
                                     !.got = @ \union ({b} \intersect values)]
      BY <1>0, <2>2 DEF GetValue
    <3>2. /\ get'[r].pc = get[r].pc /\ get'[r].id = get[r].id
          /\ get'[r].todo = get[r].todo \ {b}
          /\ get'[r].got = get[r].got \union ({b} \intersect values)
      BY <1>0, <3>1 DEF GetState
    <3>3. ASSUME get[r].pc = "values", get[r].id \in marks
          PROVE  get'[r].got \union get'[r].todo = Refs(versions[get[r].id])
      <4>1. get[r].got \union get[r].todo = Refs(versions[get[r].id])
        BY <3>3 DEF ReaderInv
      <4>2. b \in values
        BY <3>3, <4>1 DEF CommittedIsComplete
      <4>3. QED
        BY <3>2, <4>1, <4>2
    <3>4. QED
      BY <3>2, <3>3
  <2>3. CASE GetMeta(r)
    BY <1>0, <2>3 DEF GetMeta, NoGet
  <2>4. QED
    BY <2>1, <2>2, <2>3 DEF GetStep
<1>4. QED
  BY <1>1, <1>2, <1>3 DEF ReaderInv, Refs

LEMMA ReaderStep ==
  BlobInv /\ [Next]_vars => ReaderInv'
<1> SUFFICES ASSUME BlobInv, [Next]_vars PROVE ReaderInv'
  OBVIOUS
<1>1. AnyWritersInv /\ WriterInv /\ ReaderInv /\ CommittedIsComplete
  BY DEF BlobInv
<1>2. ASSUME NEW w \in Writers, Load(w) \/ PutBegin(w) \/ PutStep(w) \/ WriterStops(w)
      PROVE  ReaderInv'
  <2>1. CASE PutMark(w)
    <3>1. get' = get /\ InFlight(w)
      BY <2>1 DEF PutMark, InFlight
    <3>2. \A r \in Readers : get[r].id # put[w].id
      BY <1>1, <3>1 DEF AnyWritersInv, IdInv
    <3>3. /\ marks' = marks \union {put[w].id}
          /\ \A i \in marks : versions'[i] = versions[i]
      BY <1>1, <2>1, PutMarkCommits DEF WriterInv
    <3>4. QED
      BY <1>1, <3>1, <3>2, <3>3, ReaderFrame
  <2>2. CASE ~PutMark(w)
    <3>1. UNCHANGED <<get, marks, versions>>
      BY <1>2, <2>2 DEF Load, PutBegin, PutStep, PutValue, PutMeta, PutReadLatest, PutLatest,
                        WriterStops, blobs
    <3>2. QED
      BY <1>1, <3>1, ReaderFrame
  <2>3. QED
    BY <2>1, <2>2
<1>3. CASE PruneMark
  <2>1. get' = get
    BY <1>3 DEF PruneMark
  <2>2. QED
    BY <1>1, <1>3, <2>1, PruneMarkKeeps, ReaderFrame
<1>4. ASSUME NEW r \in Readers, GetStep(r) PROVE ReaderInv'
  BY <1>1, <1>4, GetReader
<1>5. CASE UNCHANGED <<get, marks, versions>>
  BY <1>1, <1>5, ReaderFrame
<1>6. QED
  BY <1>2, <1>3, <1>4, <1>5
  DEF Next, vars, blobs, PruneBegin, PruneStep, PruneMeta, PruneDies, GcStep, GcBegin, GcList,
      GcFetch, GcValues, GcNext, GcDelete, GcDies, Tick

-----------------------------------------------------------------------------

LEMMA BlobInvInit == Init => BlobInv
<1> SUFFICES ASSUME Init PROVE BlobInv
  OBVIOUS
<1>1. AnyWritersInv
  BY TypeInit, IdInit, RetentionInit DEF AnyWritersInv
<1>2. WriterInv
  BY DEF Init, WriterInv, WriterOK, InFlight, Idle
<1>3. CutoffInv /\ OrphanInv /\ RecheckInv
  BY DEF Init, CutoffInv, OrphanInv, RecheckInv, NoGc
<1>4. ReaderInv /\ CommittedIsComplete
  BY DEF Init, ReaderInv, CommittedIsComplete
<1>5. QED
  BY <1>1, <1>2, <1>3, <1>4 DEF BlobInv

LEMMA BlobInvStep == SingleWriter /\ BlobInv /\ [Next]_vars => BlobInv'
<1>1. BlobInv /\ [Next]_vars => AnyWritersInv'
  BY TypeStep, IdStep, RetentionStep DEF BlobInv, AnyWritersInv
<1>2. BlobInv /\ [Next]_vars => CutoffInv'
  BY CutoffStep DEF BlobInv
<1>3. QED
  BY <1>1, <1>2, WriterStep, OrphanStep, RecheckStep, ReaderStep, CompleteStep DEF BlobInv

\* The inductive invariant of a thread that has one writer.
THEOREM BlobInvariant ==
  ASSUME SingleWriter
  PROVE  Spec => []BlobInv
<1>1. BlobInv /\ [Next]_vars => BlobInv'
  BY BlobInvStep
<1>2. QED
  BY <1>1, BlobInvInit, PTL DEF Spec

\* With one writer per thread, every checkpoint that has its commit marker has its
\* metadata and all the values it refers to: no interleaving of a put, a retention run
\* and a garbage collection, each of which may die at any point, takes one away.
THEOREM CommittedStaysComplete ==
  ASSUME SingleWriter
  PROVE  Spec => []CommittedIsComplete
<1>1. BlobInv => CommittedIsComplete
  BY DEF BlobInv
<1>2. QED
  BY <1>1, BlobInvariant, PTL

\* With one writer per thread, get_tuple() answers a checkpoint that is still retained
\* with all its values, whatever happened between its reads.
THEOREM ReadersSeeWhole ==
  ASSUME SingleWriter
  PROVE  Spec => ReaderSeesWhole
<1>1. ASSUME BlobInv, NEW r \in Readers, GetMeta(r), get[r].id \in marks
      PROVE  get[r].id \in metas /\ get[r].got = Refs(versions[get[r].id])
  <2>1. get[r].pc = "values" /\ get[r].todo = {}
    BY <1>1 DEF GetMeta
  <2>2. get[r].got \union get[r].todo = Refs(versions[get[r].id])
    BY <1>1, <2>1 DEF BlobInv, ReaderInv
  <2>3. get[r].id \in metas
    BY <1>1 DEF BlobInv, CommittedIsComplete
  <2>4. QED
    BY <2>1, <2>2, <2>3
<1>2. BlobInv => [\A r \in Readers :
         GetMeta(r) /\ get[r].id \in marks =>
           get[r].id \in metas /\ get[r].got = Refs(versions[get[r].id])]_vars
  BY <1>1
<1>3. QED
  BY <1>2, BlobInvariant, PTL DEF ReaderSeesWhole

-----------------------------------------------------------------------------
(* The history that put and get_tuple promise.                             *)

\* A committed checkpoint is answered with all the values it refers to.
LEMMA FoundIsRefs ==
  ASSUME CommittedIsComplete
  PROVE  /\ Answered = marks
         /\ Found = [i \in Ids |-> IF i \in marks THEN Refs(versions[i]) ELSE {}]
<1>1. Answered = marks
  BY DEF Answered, CommittedIsComplete
<1>2. \A i \in marks : Refs(versions[i]) \intersect values = Refs(versions[i])
  BY DEF CommittedIsComplete
<1>3. QED
  BY <1>1, <1>2 DEF Found

LEMMA FoundIsRefsNext ==
  ASSUME CommittedIsComplete'
  PROVE  /\ Answered' = marks'
         /\ Found' = [i \in Ids |-> IF i \in marks' THEN Refs(versions'[i]) ELSE {}]
<1>1. \A i \in marks' : i \in metas' /\ Refs(versions'[i]) \subseteq values'
  BY DEF CommittedIsComplete, Refs
<1>2. Answered' = marks'
  BY <1>1 DEF Answered
<1>3. \A i \in marks' : Refs(versions'[i]) \intersect values' = Refs(versions'[i])
  BY <1>1
<1>4. Found' = [i \in Ids |-> IF i \in Answered' THEN Refs(versions'[i]) \intersect values'
                              ELSE {}]
  BY DEF Found, Refs
<1>5. QED
  BY <1>2, <1>3, <1>4

LEMMA HistoryStutters ==
  ASSUME CommittedIsComplete, CommittedIsComplete',
         marks' = marks, \A i \in marks : versions'[i] = versions[i]
  PROVE  UNCHANGED History!vars
<1>1. Answered' = Answered
  BY FoundIsRefs, FoundIsRefsNext
<1>2. Found' = Found
  BY FoundIsRefs, FoundIsRefsNext
<1>3. QED
  BY <1>1, <1>2 DEF History!vars

\* What a run starts from is what the newest checkpoint refers to.
LEMMA CurrentIsBase ==
  ASSUME TypeOK, CommittedIsComplete
  PROVE  History!Current = Refs(Base)
<1>1. CASE marks = {}
  <2>1. History!Current = {}
    BY <1>1, FoundIsRefs DEF History!Current
  <2>2. \A n \in Ids : n # 0
    BY BoundsAssumption DEF Ids
  <2>3. Refs(NoVersions) = {}
    BY <2>2 DEF Refs, NoVersions, Blobs
  <2>4. QED
    BY <1>1, <2>1, <2>3 DEF Base
<1>2. CASE marks # {}
  <2> DEFINE top == Newest(marks)
  <2>1. top \in marks /\ \A i \in marks : i <= top
    BY <1>2, NewestOf DEF TypeOK
  <2>2. \A i : History!IsNewest(i) <=> i = top
    <3>1. \A i : History!IsNewest(i) <=> i \in marks /\ \A j \in marks : j <= i
      BY FoundIsRefs DEF History!IsNewest
    <3>2. \A i \in marks : (\A j \in marks : j <= i) => i = top
      BY NewestIs DEF TypeOK
    <3>3. QED
      BY <2>1, <3>1, <3>2
  <2>3. Found[top] = Refs(versions[top])
    BY <2>1, FoundIsRefs DEF TypeOK
  <2>4. History!Current = {b \in Blobs : b \in Found[top]}
    BY <2>1, <2>2, FoundIsRefs DEF History!Current, Blobs, History!Ids, Ids
  <2>5. QED
    BY <1>2, <2>3, <2>4, RefsAreBlobs DEF Base
<1>3. QED
  BY <1>1, <1>2

\* A put adds the values of the channels it changed to those of the newest checkpoint.
LEMMA PutContent ==
  ASSUME AnyWritersInv, NEW w \in Writers, WriterOK(w), InFlight(w), put[w].id \in Ids,
         NEW changed, changed = {c \in Channels : put[w].versions[c] = put[w].id}
  PROVE  Refs(put[w].versions) =
           {b \in Refs(Base) : b[1] \notin changed} \union (changed \X {put[w].id})
<1> DEFINE i == put[w].id
           vs == put[w].versions
<1>1. \A c \in Channels : vs[c] \in {Base[c], i}
  BY DEF WriterOK, Uploaded
<1>2. \A c \in Channels : c \in changed <=> vs[c] = i
  OBVIOUS
<1>3. i \in Ids
  OBVIOUS
<1> HIDE DEF i, vs
<1>4. \A c \in Channels, n \in Ids : <<c, n>> \in Refs(vs) <=> vs[c] = n
  BY DEF Refs, Blobs
<1>5. \A c \in Channels, n \in Ids : <<c, n>> \in Refs(Base) <=> Base[c] = n
  BY DEF Refs, Blobs
<1>6. changed \subseteq Channels
  OBVIOUS
<1> DEFINE new == {b \in Refs(Base) : b[1] \notin changed} \union (changed \X {i})
<1>7. \A c \in Channels, n \in Ids :
        <<c, n>> \in new <=> (Base[c] = n /\ c \notin changed) \/ (c \in changed /\ n = i)
  BY <1>5
<1>8. ASSUME NEW c \in Channels, NEW n \in Ids
      PROVE  <<c, n>> \in Refs(vs) <=> <<c, n>> \in new
  <2> HIDE DEF new
  <2>1. CASE c \in changed
    BY <1>2, <1>4, <1>7, <2>1
  <2>2. CASE c \notin changed
    <3>1. vs[c] = Base[c] /\ vs[c] # i
      BY <1>1, <1>2, <2>2
    <3>2. QED
      BY <1>4, <1>7, <2>2, <3>1
  <2>3. QED
    BY <2>1, <2>2
<1>9. Refs(vs) \subseteq Channels \X Ids /\ new \subseteq Channels \X Ids
  BY <1>3, <1>6, RefsAreBlobs DEF Blobs
<1> HIDE DEF new
<1>10. Refs(vs) = new
  <2>1. \A b \in Channels \X Ids : b \in Refs(vs) <=> b \in new
    <3> SUFFICES ASSUME NEW b \in Channels \X Ids PROVE b \in Refs(vs) <=> b \in new
      OBVIOUS
    <3>1. PICK c \in Channels, n \in Ids : b = <<c, n>>
      OBVIOUS
    <3>2. QED
      BY <1>8, <3>1
  <2>2. QED
    BY <1>9, <2>1, Zenon
<1>11. QED
  BY <1>10 DEF new, i, vs

LEMMA PutMarkSaves ==
  ASSUME AnyWritersInv, CommittedIsComplete, CommittedIsComplete',
         NEW w \in Writers, WriterOK(w), PutMark(w)
  PROVE  History!Next
<1> DEFINE i == put[w].id
           changed == {c \in Channels : put[w].versions[c] = i}
           content == {b \in History!Current : b[1] \notin changed} \union (changed \X {i})
<1>1. /\ i \in Ids \ marks /\ marks' = marks \union {i}
      /\ \A j \in marks : versions'[j] = versions[j]
      /\ versions'[i] = put[w].versions
  BY PutMarkCommits
<1>2. InFlight(w)
  BY DEF PutMark, InFlight
<1>3. \A j \in marks : j < i
  BY <1>2 DEF WriterOK, Uploaded
<1>4. Refs(versions'[i]) = content
  BY <1>1, <1>2, PutContent, CurrentIsBase DEF AnyWritersInv
<1>5. Answered' = Answered \union {i} /\ \A j \in Answered : j < i
  BY <1>1, <1>3, FoundIsRefs, FoundIsRefsNext
<1> HIDE DEF content
<1>6. Found' = [Found EXCEPT ![i] = content]
  <2> HIDE DEF i
  <2>1. Found' = [j \in Ids |-> IF j = i THEN content ELSE Found[j]]
    <3>1. Found' = [j \in Ids |-> IF j \in marks' THEN Refs(versions'[j]) ELSE {}]
      BY FoundIsRefsNext
    <3>2. \A j \in Ids : Found[j] = IF j \in marks THEN Refs(versions[j]) ELSE {}
      BY FoundIsRefs
    <3>3. \A j \in marks : Refs(versions'[j]) = Refs(versions[j])
      BY <1>1
    <3>4. ASSUME NEW j \in Ids
          PROVE  (IF j \in marks' THEN Refs(versions'[j]) ELSE {}) =
                   (IF j = i THEN content ELSE Found[j])
      BY <1>1, <1>4, <3>2, <3>3
    <3>5. QED
      BY <3>1, <3>4
  <2>2. Found = [j \in Ids |-> Found[j]]
    BY FoundIsRefs
  <2>3. QED
    BY <2>1, <2>2
<1>7. changed \in SUBSET Channels
  OBVIOUS
<1>8. History!Save(i)
  BY <1>5, <1>6, <1>7 DEF History!Save, content
<1>9. QED
  BY <1>1, <1>8 DEF History!Next, History!Ids, Ids

LEMMA PruneMarkDrops ==
  ASSUME AnyWritersInv, CommittedIsComplete, CommittedIsComplete', PruneMark
  PROVE  History!Next
<1> DEFINE i == Newest(prune.todo)
<1>1. i \in prune.todo /\ marks' = marks \ {i}
  BY NewestOf DEF PruneMark, AnyWritersInv, RetentionInv, TypeOK
<1>2. i \in marks /\ \E j \in marks : i < j
  <2>1. \A k \in prune.todo : k \in marks /\ \E j \in marks : k < j
    BY DEF AnyWritersInv, RetentionInv
  <2>2. QED
    BY <1>1, <2>1
<1>3. \A j \in marks' : versions'[j] = versions[j]
  BY PruneMarkKeeps
<1> HIDE DEF i
<1>4. Answered' = Answered \ {i} /\ i \in Answered /\ \E j \in Answered : i < j
  BY <1>1, <1>2, FoundIsRefs, FoundIsRefsNext
<1>5. Found' = [Found EXCEPT ![i] = {}]
  <2>1. Found' = [j \in Ids |-> IF j = i THEN {} ELSE Found[j]]
    <3>1. Found' = [j \in Ids |-> IF j \in marks' THEN Refs(versions'[j]) ELSE {}]
      BY FoundIsRefsNext
    <3>2. \A j \in Ids : Found[j] = IF j \in marks THEN Refs(versions[j]) ELSE {}
      BY FoundIsRefs
    <3>3. \A j \in marks' : Refs(versions'[j]) = Refs(versions[j])
      BY <1>3
    <3>4. ASSUME NEW j \in Ids
          PROVE  (IF j \in marks' THEN Refs(versions'[j]) ELSE {}) =
                   (IF j = i THEN {} ELSE Found[j])
      BY <1>1, <3>2, <3>3
    <3>5. QED
      BY <3>1, <3>4
  <2>2. Found = [j \in Ids |-> Found[j]]
    BY FoundIsRefs
  <2>3. QED
    BY <2>1, <2>2
<1>6. i \in Ids
  BY <1>2 DEF AnyWritersInv, TypeOK
<1>7. History!Drop(i)
  BY <1>4, <1>5 DEF History!Drop
<1>8. QED
  BY <1>6, <1>7 DEF History!Next, History!Ids, Ids

LEMMA HistoryStep ==
  ASSUME BlobInv, BlobInv', [Next]_vars
  PROVE  [History!Next]_History!vars
<1>1. /\ AnyWritersInv /\ CommittedIsComplete /\ CommittedIsComplete'
      /\ \A w \in Writers : WriterOK(w)
  BY DEF BlobInv, WriterInv
<1>2. ASSUME NEW w \in Writers, PutMark(w) PROVE History!Next
  BY <1>1, <1>2, PutMarkSaves
<1>3. CASE PruneMark
  BY <1>1, <1>3, PruneMarkDrops
<1>4. CASE UNCHANGED <<marks, versions>>
  BY <1>1, <1>4, HistoryStutters
<1>5. QED
  BY <1>2, <1>3, <1>4
  DEF Next, vars, blobs, Load, PutBegin, PutStep, PutValue, PutMeta, PutReadLatest, PutLatest,
      WriterStops, PruneBegin, PruneStep, PruneMeta, PruneDies, GcStep, GcBegin, GcList,
      GcFetch, GcValues, GcNext, GcDelete, GcDies, GetStep, GetMark, GetValue, GetMeta, Tick

\* With one writer per thread, the saver implements the abstract history: put, retention
\* and garbage collection, blob by blob and dying at any point, look to a reader like
\* checkpoints that appear whole, never change, and go while a newer one stays.
THEOREM SaverKeepsHistory ==
  ASSUME SingleWriter
  PROVE  Spec => HistoryIsKept
<1>1. Init => History!Init
  <2> SUFFICES ASSUME Init PROVE History!Init
    OBVIOUS
  <2>1. CommittedIsComplete /\ marks = {}
    BY DEF Init, CommittedIsComplete
  <2>2. Answered = {} /\ Found = [i \in Ids |-> {}]
    BY <2>1, FoundIsRefs
  <2>3. QED
    BY <2>2 DEF History!Init, History!Ids, Ids
<1>2. BlobInv /\ BlobInv' /\ [Next]_vars => [History!Next]_History!vars
  BY HistoryStep
<1>3. QED
  BY <1>1, <1>2, BlobInvariant, PTL DEF Spec, HistoryIsKept, History!Spec

=============================================================================
