--------------------------- MODULE HistoryWalk_proofs ---------------------------
(***************************************************************************)
(* Proofs about a walk of the history, for every number of checkpoints,    *)
(* every limit of a page and every count that retention keeps.             *)
(***************************************************************************)
EXTENDS HistoryWalk, WellFoundedInduction, TLAPS

ST == INSTANCE SequenceTheorems

-----------------------------------------------------------------------------
(* The greatest of a set of ids.                                           *)

LEMMA WellFoundedHasMinimum ==
  \A R, W, S : IsWellFoundedOn(R, W) /\ S \subseteq W /\ S # {} =>
     \E x \in S : \A y \in S : ~ (<<y, x>> \in R)
BY WFMin, Zenon

LEMMA LessThanOnNat ==
  \E R : IsWellFoundedOn(R, Nat) /\ \A x, y \in Nat : <<x, y>> \in R <=> x < y
<1>1. \A x, y \in Nat : <<x, y>> \in OpToRel(<, Nat) <=> x < y
  BY DEF OpToRel
<1>2. QED
  BY <1>1, NatLessThanWellFounded, Zenon

LEMMA LeastExists ==
  ASSUME NEW S \in SUBSET Nat, S # {}
  PROVE  \E x \in S : \A y \in S : x <= y
<1>1. PICK R : IsWellFoundedOn(R, Nat) /\ \A x, y \in Nat : <<x, y>> \in R <=> x < y
  BY LessThanOnNat, Zenon
<1>2. PICK x \in S : \A y \in S : ~ (<<y, x>> \in R)
  <2>1. S \subseteq Nat
    OBVIOUS
  <2>2. IsWellFoundedOn(R, Nat)
    BY <1>1, Zenon
  <2>3. QED
    BY <2>1, <2>2, WellFoundedHasMinimum, Zenon
<1>3. ASSUME NEW y \in S PROVE x <= y
  <2>1. x \in Nat /\ y \in Nat
    OBVIOUS
  <2>2. ~ (y < x)
    BY <1>1, <1>2, <2>1, Zenon
  <2>3. QED
    BY <2>1, <2>2
<1>4. QED
  BY <1>3

LEMMA MaxIsGreatest ==
  ASSUME NEW n \in Nat, NEW S \in SUBSET (1 .. n), S # {}
  PROVE  /\ Max(S) \in S
         /\ \A y \in S : y <= Max(S)
<1>1. \A x \in S : x \in Nat /\ n - x \in Nat
  OBVIOUS
<1>2. PICK t \in {n - x : x \in S} : \A u \in {n - x : x \in S} : t <= u
  <2>1. {n - x : x \in S} \in SUBSET Nat /\ {n - x : x \in S} # {}
    BY <1>1
  <2>2. QED
    BY <2>1, LeastExists, Zenon
<1>3. PICK x \in S : t = n - x
  BY <1>2
<1>4. \A y \in S : t <= n - y
  BY <1>2
<1>5. \A y \in S : x >= y
  BY <1>1, <1>3, <1>4
<1>6. QED
  BY <1>5 DEF Max

LEMMA Bounds == MaxId \in Nat /\ Limit \in Nat /\ Limit > 0 /\ Ids \subseteq Nat \ {0}
BY BoundsAssumption, RequestAssumption DEF Ids

\* What a page reads next.
LEMMA NextOfTodo ==
  ASSUME WalkTypes, todo # {}
  PROVE  /\ Max(todo) \in todo /\ \A y \in todo : y <= Max(todo)
         /\ Max(todo) \in Ids /\ Max(todo) <= lastId
         /\ \A y \in todo \ {Max(todo)} : y < Max(todo)
<1>1. lastId \in Nat /\ todo \in SUBSET (1 .. lastId) /\ lastId <= MaxId
  BY Bounds DEF WalkTypes
<1>2. Max(todo) \in todo /\ \A y \in todo : y <= Max(todo)
  BY <1>1, MaxIsGreatest
<1> DEFINE i == Max(todo)
<1>3. i \in todo /\ \A y \in todo : y <= i
  BY <1>2
<1> HIDE DEF i
<1>4. i \in Ids /\ i <= lastId /\ \A y \in todo \ {i} : y < i
  BY <1>1, <1>3, Bounds DEF Ids
<1>5. QED
  BY <1>3, <1>4 DEF i

-----------------------------------------------------------------------------
(* What is owed.                                                           *)

\* A checkpoint put after the walk began is not owed by it, and what retention
\* deletes is owed no more.
LEMMA OwedShrinks ==
  ASSUME WalkTypes, [Next]_vars, newest' = newest
  PROVE  Owed' \subseteq Owed
<1>0. lastId \in Nat /\ newest \in 0 .. lastId /\ marks \subseteq 1 .. lastId
  BY Bounds DEF WalkTypes
<1>1. CASE Put
  <2> SUFFICES ASSUME NEW i \in Owed' PROVE i \in Owed
    OBVIOUS
  <2>1. /\ i \in marks' /\ i \in tagged' /\ i <= newest
        /\ \A j \in Pruned' : j < i
    BY DEF Owed
  <2>2. /\ lastId' = lastId + 1 /\ marks' = marks \union {lastId'}
        /\ tagged' \subseteq tagged \union {lastId'}
    BY <1>1 DEF Put
  <2>3. i # lastId'
    BY <1>0, <2>1, <2>2
  <2>4. Pruned \subseteq Pruned'
    BY <1>0, <2>2 DEF Pruned
  <2>5. QED
    BY <2>1, <2>2, <2>3, <2>4 DEF Owed
<1>2. CASE PruneMark
  <2>1. marks' \subseteq marks /\ tagged' = tagged /\ lastId' = lastId
    BY <1>2 DEF PruneMark
  <2>2. Pruned \subseteq Pruned'
    BY <2>1 DEF Pruned
  <2>3. QED
    BY <2>1, <2>2 DEF Owed
<1>3. CASE UNCHANGED <<marks, tagged, lastId>>
  BY <1>3 DEF Owed, Pruned
<1>4. QED
  BY <1>1, <1>2, <1>3 DEF Next, vars, PruneBegin, PruneDies, WalkBegins, PageList, PageRead,
                          PageAnswer

\* All that is newer than what is owed is still there.
LEMMA NewerIsThere ==
  ASSUME WalkTypes, NEW i \in Owed, NEW j \in 1 .. lastId, j >= i
  PROVE  j \in marks
<1>1. i \in Int /\ j \in Int /\ \A k \in Pruned : k < i
  BY DEF Owed, WalkTypes
<1>2. ~ (j < i)
  BY <1>1
<1>3. QED
  BY <1>1, <1>2 DEF Pruned

-----------------------------------------------------------------------------
(* Sequences of ids.                                                       *)

LEMMA AppendIds ==
  ASSUME NEW s \in Seq(Ids), NEW i \in Ids
  PROVE  /\ Append(s, i) \in Seq(Ids) /\ Len(Append(s, i)) = Len(s) + 1
         /\ \A n \in 1 .. Len(s) : Append(s, i)[n] = s[n]
         /\ Append(s, i)[Len(s) + 1] = i
OBVIOUS

LEMMA Holds ==
  ASSUME NEW s \in Seq(Ids), NEW i \in Ids
  PROVE  /\ Contains(Append(s, i), i)
         /\ \A x : Contains(s, x) => Contains(Append(s, i), x)
         /\ Last(Append(s, i)) = i
<1>1. Len(s) \in Nat
  OBVIOUS
<1>2. /\ Len(Append(s, i)) = Len(s) + 1
      /\ \A n \in 1 .. Len(s) : Append(s, i)[n] = s[n]
      /\ Append(s, i)[Len(s) + 1] = i
  BY AppendIds
<1>3. QED
  BY <1>1, <1>2 DEF Contains, Last

LEMMA JoinIds ==
  ASSUME NEW s \in Seq(Ids), NEW t \in Seq(Ids)
  PROVE  /\ s \o t \in Seq(Ids) /\ Len(s \o t) = Len(s) + Len(t)
         /\ \A n \in 1 .. Len(s) : (s \o t)[n] = s[n]
         /\ \A n \in 1 .. Len(t) : (s \o t)[Len(s) + n] = t[n]
<1>1. /\ s \o t \in Seq(Ids) /\ Len(s \o t) = Len(s) + Len(t)
      /\ \A n \in 1 .. Len(s) + Len(t) :
            (s \o t)[n] = IF n <= Len(s) THEN s[n] ELSE t[n - Len(s)]
  BY ST!ConcatProperties
<1>2. Len(s) \in Nat /\ Len(t) \in Nat
  OBVIOUS
<1>3. ASSUME NEW n \in 1 .. Len(s) PROVE (s \o t)[n] = s[n]
  BY <1>1, <1>2
<1>4. ASSUME NEW n \in 1 .. Len(t) PROVE (s \o t)[Len(s) + n] = t[n]
  <2> DEFINE m == Len(s) + n
  <2>1. m \in 1 .. Len(s) + Len(t) /\ ~ (m <= Len(s)) /\ m - Len(s) = n
    BY <1>2
  <2> HIDE DEF m
  <2>2. (s \o t)[m] = t[n]
    BY <1>1, <2>1
  <2>3. QED
    BY <2>2 DEF m
<1>5. QED
  BY <1>1, <1>3, <1>4

LEMMA JoinHolds ==
  ASSUME NEW s \in Seq(Ids), NEW t \in Seq(Ids), NEW x, Contains(s, x) \/ Contains(t, x)
  PROVE  Contains(s \o t, x)
<1>1. /\ Len(s) \in Nat /\ Len(t) \in Nat /\ Len(s \o t) = Len(s) + Len(t)
      /\ \A n \in 1 .. Len(s) : (s \o t)[n] = s[n]
      /\ \A n \in 1 .. Len(t) : (s \o t)[Len(s) + n] = t[n]
  BY JoinIds
<1>2. CASE Contains(s, x)
  BY <1>1, <1>2 DEF Contains
<1>3. CASE Contains(t, x)
  <2>1. PICK n \in 1 .. Len(t) : t[n] = x
    BY <1>3 DEF Contains
  <2>2. Len(s) + n \in 1 .. Len(s \o t) /\ (s \o t)[Len(s) + n] = x
    BY <1>1, <2>1
  <2>3. QED
    BY <2>2 DEF Contains
<1>4. QED
  BY <1>2, <1>3

LEMMA JoinFalls ==
  ASSUME NEW s \in Seq(Ids), NEW t \in Seq(Ids), Falling(s), Falling(t),
         \A m \in 1 .. Len(s), n \in 1 .. Len(t) : s[m] > t[n]
  PROVE  Falling(s \o t)
<1>1. /\ Len(s) \in Nat /\ Len(t) \in Nat /\ Len(s \o t) = Len(s) + Len(t)
      /\ \A n \in 1 .. Len(s) : (s \o t)[n] = s[n]
      /\ \A n \in 1 .. Len(t) : (s \o t)[Len(s) + n] = t[n]
  BY JoinIds
<1> SUFFICES ASSUME NEW m \in 1 .. Len(s) + Len(t), NEW n \in 1 .. Len(s) + Len(t), m < n
             PROVE  (s \o t)[m] > (s \o t)[n]
  BY <1>1 DEF Falling
<1>2. CASE n <= Len(s)
  <2>1. m \in 1 .. Len(s) /\ n \in 1 .. Len(s)
    BY <1>1, <1>2
  <2>2. s[m] > s[n]
    BY <2>1 DEF Falling
  <2>3. QED
    BY <1>1, <2>1, <2>2
<1>3. CASE m <= Len(s) /\ n > Len(s)
  <2> DEFINE k == n - Len(s)
  <2>1. m \in 1 .. Len(s) /\ k \in 1 .. Len(t) /\ n = Len(s) + k
    BY <1>1, <1>3
  <2> HIDE DEF k
  <2>2. s[m] > t[k] /\ (s \o t)[m] = s[m] /\ (s \o t)[Len(s) + k] = t[k]
    BY <1>1, <2>1
  <2>3. QED
    BY <2>1, <2>2
<1>4. CASE m > Len(s)
  <2> DEFINE j == m - Len(s)
  <2> DEFINE k == n - Len(s)
  <2>1. /\ j \in 1 .. Len(t) /\ k \in 1 .. Len(t) /\ j < k
        /\ m = Len(s) + j /\ n = Len(s) + k
    BY <1>1, <1>4
  <2> HIDE DEF j, k
  <2>2. t[j] > t[k]
    BY <2>1 DEF Falling
  <2>3. (s \o t)[Len(s) + j] = t[j] /\ (s \o t)[Len(s) + k] = t[k]
    BY <1>1, <2>1
  <2>4. QED
    BY <2>1, <2>2, <2>3
<1>5. QED
  BY <1>1, <1>2, <1>3, <1>4

-----------------------------------------------------------------------------
(* The steps.                                                              *)

LEMMA WalkInit == Init => WalkInv
<1> SUFFICES ASSUME Init PROVE WalkInv
  OBVIOUS
<1>1. WalkTypes
  <2>1. 0 \in 0 .. MaxId /\ <<>> \in Seq(Ids) /\ FALSE \in BOOLEAN
    BY Bounds
  <2>2. lastId = 0 /\ marks = {} /\ newest = 0 /\ before = 0 /\ todo = {} /\ Len(results) = 0
    BY DEF Init
  <2>3. pc = "idle" /\ results = <<>> /\ shown = <<>> /\ found = FALSE
    BY DEF Init
  <2>4. \A n \in 1 .. Len(results) : results[n] <= lastId
    BY <2>2
  <2>5. results \in Seq(Ids) /\ shown \in Seq(Ids)
    BY <2>1, <2>3, Zenon
  <2>6. marks \subseteq 1 .. lastId /\ todo \subseteq 1 .. lastId
    BY <2>2
  <2>7. newest \in 0 .. lastId /\ before \in 0 .. lastId /\ lastId \in 0 .. MaxId
    BY <2>1, <2>2
  <2>8. QED
    BY <2>3, <2>4, <2>5, <2>6, <2>7 DEF WalkTypes
<1>2. Parted /\ Between
  BY DEF Init, Parted, Between, Falling
<1>3. QED
  BY <1>1, <1>2 DEF Init, WalkInv, StillOwed, WalkIsComplete

\* A put, retention or nothing: the walk stands still, and owes no more.
LEMMA StandStill ==
  ASSUME WalkInv, [Next]_vars, UNCHANGED walk
  PROVE  WalkInv'
<1>0. /\ WalkTypes /\ Parted /\ Between /\ StillOwed /\ WalkIsComplete
      /\ pc' = pc /\ newest' = newest /\ before' = before /\ todo' = todo
      /\ found' = found /\ results' = results /\ shown' = shown
  BY DEF WalkInv, walk
<1>1. lastId' \in lastId .. MaxId /\ marks' \subseteq 1 .. lastId'
  <2>1. lastId \in 0 .. MaxId /\ marks \subseteq 1 .. lastId /\ MaxId \in Nat
    BY <1>0, Bounds DEF WalkTypes
  <2>2. CASE Put
    BY <2>1, <2>2 DEF Put
  <2>3. CASE PruneMark
    <3>1. marks' \subseteq marks /\ lastId' = lastId
      BY <2>3 DEF PruneMark
    <3>2. QED
      BY <2>1, <3>1
  <2>4. CASE UNCHANGED <<marks, lastId>>
    BY <2>1, <2>4
  <2>5. QED
    BY <2>2, <2>3, <2>4 DEF Next, vars, PruneBegin, PruneDies, WalkBegins, PageList, PageRead,
                            PageAnswer
<1>2. WalkTypes'
  <2>1. lastId \in 0 .. MaxId /\ lastId' \in 0 .. MaxId /\ lastId <= lastId' /\ MaxId \in Nat
    BY <1>0, <1>1, Bounds DEF WalkTypes
  <2>2. newest \in 0 .. lastId' /\ before \in 0 .. lastId' /\ todo \subseteq 1 .. lastId'
    BY <1>0, <2>1 DEF WalkTypes
  <2>3. \A n \in 1 .. Len(results) : results[n] <= lastId'
    <3>1. \A n \in 1 .. Len(results) : results[n] \in Nat /\ results[n] <= lastId
      <4>1. results \in Seq(Ids) /\ \A n \in 1 .. Len(results) : results[n] <= lastId
        BY <1>0 DEF WalkTypes
      <4>2. \A n \in 1 .. Len(results) : results[n] \in Ids
        BY <4>1
      <4>3. QED
        BY <4>1, <4>2, Bounds
    <3>2. QED
      BY <2>1, <3>1
  <2>4. QED
    BY <1>0, <1>1, <2>1, <2>2, <2>3 DEF WalkTypes
<1>3. Parted' /\ Between'
  BY <1>0 DEF Parted, Between, Falling, Full
<1>4. Owed' \subseteq Owed
  BY <1>0, OwedShrinks
<1>5. StillOwed' /\ WalkIsComplete'
  BY <1>0, <1>4 DEF StillOwed, WalkIsComplete, Full, Contains, Last
<1>6. QED
  BY <1>2, <1>3, <1>5 DEF WalkInv

LEMMA BeginStep ==
  ASSUME WalkInv, WalkBegins
  PROVE  WalkInv'
<1>0. WalkTypes /\ Parted /\ Between
  BY DEF WalkInv
<1>1. newest' \in 0 .. lastId
  <2>1. marks \in SUBSET (1 .. lastId) /\ lastId \in Nat /\ marks # {}
    BY <1>0, Bounds DEF WalkTypes, WalkBegins
  <2>2. Max(marks) \in marks /\ newest' = Max(marks)
    BY <2>1, MaxIsGreatest DEF WalkBegins
  <2>3. newest' \in marks
    BY <2>2, Zenon
  <2>4. QED
    BY <2>1, <2>3
<1>2. WalkTypes'
  BY <1>0, <1>1 DEF WalkTypes, WalkBegins
<1>3. Parted' /\ Between'
  BY <1>0 DEF Parted, Between, Falling, Full, WalkBegins
<1>4. StillOwed' /\ WalkIsComplete'
  BY <1>0 DEF Between, StillOwed, WalkIsComplete, WalkBegins
<1>5. QED
  BY <1>2, <1>3, <1>4 DEF WalkInv

\* What is owed and was not shown is listed, and so is the "before" of the page.
LEMMA ListStep ==
  ASSUME WalkInv, [Next]_vars, PageList
  PROVE  WalkInv'
<1>0. /\ WalkTypes /\ Parted /\ Between /\ StillOwed
      /\ pc = "page" /\ pc' = "reading" /\ todo' = marks /\ results' = <<>>
      /\ found' = (before = 0)
      /\ UNCHANGED <<marks, tagged, lastId, newest, before, shown>>
  BY DEF WalkInv, PageList
<1>1. WalkTypes'
  <2>1. <<>> \in Seq(Ids)
    OBVIOUS
  <2>2. QED
    BY <1>0, <2>1 DEF WalkTypes
<1>2. Parted' /\ Between'
  <2>1. ~Full(<<>>)
    BY Bounds DEF Full
  <2>2. Len(results') = 0 /\ ~Full(results')
    BY <1>0, <2>1
  <2>3. Parted'
    <3>1. found' => before' = 0
      BY <1>0
    <3>2. Falling(shown') /\ \A n \in 1 .. Len(shown') : before' # 0 /\ shown'[n] >= before'
      BY <1>0 DEF Parted
    <3>3. Falling(results') /\ 1 .. Len(results') = {}
      BY <2>2 DEF Falling
    <3>4. QED
      BY <3>1, <3>2, <3>3 DEF Parted
  <2>4. Between'
    <3>1. Len(results') < Limit /\ pc' = "reading"
      BY <1>0, <2>2, Bounds
    <3>2. ~ (Len(results') >= Limit)
      BY <2>2, Bounds
    <3>3. QED
      BY <3>1, <3>2, Zenon DEF Between, Full
  <2>5. QED
    BY <2>3, <2>4
<1>3. StillOwed'
  <2>1. Owed' = Owed
    BY <1>0 DEF Owed, Pruned
  <2>2. ASSUME NEW i \in Owed, ~Contains(shown, i)
        PROVE  i \in marks /\ (before = 0 \/ (before \in marks /\ i < before))
    <3>1. i \in marks
      BY DEF Owed
    <3>2. before = 0 \/ i < before
      BY <1>0, <2>2 DEF StillOwed
    <3>3. ASSUME i < before PROVE before \in marks
      <4>1. before \in 1 .. lastId /\ before >= i
        BY <1>0, <3>1, <3>3 DEF WalkTypes
      <4>2. QED
        BY <1>0, <4>1, NewerIsThere
    <3>4. QED
      BY <3>1, <3>2, <3>3
  <2>3. QED
    BY <1>0, <2>1, <2>2 DEF StillOwed
<1>4. QED
  BY <1>0, <1>1, <1>2, <1>3 DEF WalkInv, WalkIsComplete

\* One listed id is read: the page may take it, and comes to "before" at last.
LEMMA ReadStep ==
  ASSUME WalkInv, [Next]_vars, PageRead
  PROVE  WalkInv'
<1> DEFINE i == Max(todo)
<1>0. /\ WalkTypes /\ Parted /\ Between /\ StillOwed
      /\ pc = "reading" /\ pc' = "reading" /\ todo # {}
      /\ UNCHANGED <<marks, tagged, lastId, newest, before, shown>>
  BY DEF WalkInv, PageRead
<1>1. /\ i \in todo /\ i \in Ids /\ i <= lastId
      /\ \A y \in todo : y <= i
      /\ \A y \in todo \ {i} : y < i
  BY <1>0, NextOfTodo, Zenon
<1>2. /\ found' <=> found \/ (i \in marks /\ i = before)
      /\ Selected(i) => results' = Append(results, i)
      /\ ~Selected(i) => results' = results
      /\ Full(results') => todo' = {}
      /\ ~Full(results') => todo' = todo \ {i}
      /\ found' \in BOOLEAN
  BY DEF PageRead
<1> HIDE DEF i
<1>3. /\ lastId \in Nat /\ i \in Nat /\ i # 0 /\ before \in Nat /\ todo \subseteq Nat
      /\ results \in Seq(Ids) /\ shown \in Seq(Ids) /\ Len(results) \in Nat
      /\ todo \subseteq 1 .. lastId
  BY <1>0, <1>1, Bounds DEF WalkTypes
<1>4. /\ results' \in Seq(Ids) /\ Len(results') \in Nat
      /\ \A n \in 1 .. Len(results') :
            \/ n \in 1 .. Len(results) /\ results'[n] = results[n]
            \/ Selected(i) /\ n = Len(results) + 1 /\ results'[n] = i
  <2>1. CASE Selected(i)
    <3>1. /\ Append(results, i) \in Seq(Ids) /\ Len(Append(results, i)) = Len(results) + 1
          /\ \A n \in 1 .. Len(results) : Append(results, i)[n] = results[n]
          /\ Append(results, i)[Len(results) + 1] = i
      BY <1>1, <1>3, AppendIds
    <3>2. results' = Append(results, i)
      BY <1>2, <2>1
    <3>3. /\ results' \in Seq(Ids) /\ Len(results') = Len(results) + 1
          /\ \A n \in 1 .. Len(results) : results'[n] = results[n]
          /\ results'[Len(results) + 1] = i
      BY <3>1, <3>2, Zenon
    <3>4. QED
      BY <1>3, <2>1, <3>3
  <2>2. CASE ~Selected(i)
    BY <1>2, <1>3, <2>2
  <2>3. QED
    BY <2>1, <2>2
<1>5. todo' \subseteq todo \ {i}
  BY <1>2
<1>6. \A n \in 1 .. Len(results) : results[n] \in Nat /\ results[n] <= lastId
  <2>1. \A n \in 1 .. Len(results) : results[n] <= lastId
    BY <1>0 DEF WalkTypes
  <2>2. \A n \in 1 .. Len(results) : results[n] \in Ids
    BY <1>3
  <2>3. QED
    BY <2>1, <2>2, Bounds
<1>7. WalkTypes'
  <2>1. \A n \in 1 .. Len(results') : results'[n] <= lastId
    BY <1>1, <1>4, <1>6
  <2>2. todo' \subseteq 1 .. lastId
    BY <1>3, <1>5
  <2>3. QED
    BY <1>0, <1>2, <1>4, <2>1, <2>2 DEF WalkTypes
<1>8. Parted'
  <2>1. Falling(shown') /\ \A n \in 1 .. Len(shown') : before' # 0 /\ shown'[n] >= before'
    BY <1>0 DEF Parted
  <2>2. /\ \A m, n \in 1 .. Len(results) : m < n => results[m] > results[n]
        /\ \A n \in 1 .. Len(results) :
              /\ before # 0 => results[n] < before
              /\ \A y \in todo : y < results[n]
        /\ found /\ before # 0 => \A y \in todo : y < before
    BY <1>0 DEF Parted, Falling
  <2>3. Falling(results')
    <3> SUFFICES ASSUME NEW m \in 1 .. Len(results'), NEW n \in 1 .. Len(results'), m < n
                 PROVE  results'[m] > results'[n]
      BY DEF Falling
    <3>1. m \in 1 .. Len(results) /\ results'[m] = results[m]
      BY <1>3, <1>4
    <3>2. CASE n \in 1 .. Len(results) /\ results'[n] = results[n]
      BY <2>2, <3>1, <3>2
    <3>3. CASE results'[n] = i
      <4>1. i < results[m]
        BY <1>1, <2>2, <3>1
      <4>2. QED
        BY <1>3, <1>6, <3>1, <3>3, <4>1
    <3>4. QED
      BY <1>4, <3>2, <3>3
  <2>4. ASSUME NEW n \in 1 .. Len(results'), before # 0
        PROVE  results'[n] < before
    <3>1. CASE n \in 1 .. Len(results) /\ results'[n] = results[n]
      BY <2>2, <2>4, <3>1
    <3>2. CASE Selected(i) /\ results'[n] = i
      BY <1>1, <2>2, <2>4, <3>2 DEF Selected
    <3>3. QED
      BY <1>4, <3>1, <3>2
  <2>5. ASSUME NEW n \in 1 .. Len(results'), NEW y \in todo'
        PROVE  y < results'[n]
    BY <1>1, <1>4, <1>5, <2>2
  <2>6. ASSUME found', before # 0, NEW y \in todo'
        PROVE  y < before
    BY <1>1, <1>2, <1>5, <2>2, <2>6
  <2>7. QED
    BY <1>0, <2>1, <2>3, <2>4, <2>5, <2>6 DEF Parted
<1>9. Between'
  <2>1. todo' # {} => ~Full(results')
    BY <1>2
  <2>2. QED
    BY <1>0, <2>1, Zenon DEF Between, Full
<1>10. ASSUME NEW j \in Owed
       PROVE  \/ Contains(shown, j)
              \/ Contains(results', j)
              \/ j \in todo' /\ (found' \/ (before \in todo' /\ j < before))
              \/ todo' = {} /\ Full(results') /\ j < Last(results')
  <2>1. \/ Contains(shown, j)
        \/ Contains(results, j)
        \/ j \in todo /\ (found \/ (before \in todo /\ j < before))
    BY <1>0 DEF StillOwed
  <2>2. CASE Contains(results, j)
    <3>1. Contains(Append(results, i), j)
      BY <1>1, <1>3, <2>2, Holds
    <3>2. QED
      BY <1>2, <2>2, <3>1, Zenon
  <2>3. CASE j = i /\ (found \/ (before \in todo /\ j < before))
    <3>1. found
      BY <1>1, <1>3, <2>3
    <3>2. Selected(i)
      BY <2>3, <3>1 DEF Selected, Owed
    <3>3. Contains(Append(results, i), i)
      BY <1>1, <1>3, Holds
    <3>4. QED
      BY <1>2, <2>3, <3>2, <3>3, Zenon
  <2>4. CASE j \in todo \ {i} /\ (found \/ (before \in todo /\ j < before))
    <3>1. j < i /\ i \in 1 .. lastId
      BY <1>1, <1>3, <2>4
    <3>2. i >= j
      BY <1>3, <2>4, <3>1
    <3>3. i \in marks
      BY <1>0, <3>1, <3>2, NewerIsThere
    <3>4. CASE Full(results')
      <4>1. ~Full(results)
        BY <1>0 DEF Between
      <4>2. Selected(i) /\ results' = Append(results, i)
        BY <1>2, <3>4, <4>1, Zenon
      <4>3. Last(Append(results, i)) = i
        BY <1>1, <1>3, Holds
      <4>4. j < Last(results')
        BY <3>1, <4>2, <4>3, Zenon
      <4>5. QED
        BY <1>2, <3>4, <4>4, Zenon
    <3>5. CASE ~Full(results')
      BY <1>2, <2>4, <3>3, <3>5
    <3>6. QED
      BY <3>4, <3>5
  <2>5. QED
    BY <2>1, <2>2, <2>3, <2>4
<1>11. StillOwed'
  <2>1. Owed' = Owed
    BY <1>0 DEF Owed, Pruned
  <2>2. shown' = shown /\ before' = before
    BY <1>0
  <2>3. QED
    BY <1>0, <1>10, <2>1, <2>2, Zenon DEF StillOwed, Full, Contains, Last
<1>12. QED
  BY <1>0, <1>7, <1>8, <1>9, <1>11 DEF WalkInv, WalkIsComplete

\* What was shown is newer than what the page took.
LEMMA ShownIsNewer ==
  ASSUME WalkTypes, Parted, Between
  PROVE  /\ \A m \in 1 .. Len(shown), n \in 1 .. Len(results) : shown[m] > results[n]
         /\ Falling(shown \o results)
<1>1. /\ results \in Seq(Ids) /\ shown \in Seq(Ids) /\ before \in Int
      /\ Falling(shown) /\ Falling(results)
  BY Bounds DEF WalkTypes, Parted
<1>2. ASSUME NEW m \in 1 .. Len(shown), NEW n \in 1 .. Len(results)
      PROVE  shown[m] > results[n]
  <2>1. shown[m] \in Nat /\ results[n] \in Nat
    <3>1. shown[m] \in Ids /\ results[n] \in Ids
      BY <1>1
    <3>2. QED
      BY <3>1, Bounds
  <2>2. CASE pc = "done"
    <3>1. results = <<>>
      BY <2>2 DEF Between
    <3>2. QED
      BY <3>1
  <2>3. CASE pc # "done"
    <3>1. before # 0 /\ shown[m] >= before /\ results[n] < before
      BY <2>3 DEF Parted
    <3>2. QED
      BY <1>1, <2>1, <3>1
  <2>4. QED
    BY <2>2, <2>3
<1>3. QED
  BY <1>1, <1>2, JoinFalls

\* A page is answered; the next one begins after its last checkpoint.
LEMMA AnswerStep ==
  ASSUME WalkInv, [Next]_vars, PageAnswer
  PROVE  WalkInv'
<1>0. /\ WalkTypes /\ Parted /\ Between /\ StillOwed
      /\ pc = "reading" /\ todo = {} /\ todo' = {}
      /\ shown' = shown \o results /\ results' = <<>>
      /\ found' = found
      /\ UNCHANGED <<marks, tagged, lastId, newest>>
  BY DEF WalkInv, PageAnswer
<1>1. /\ results \in Seq(Ids) /\ shown \in Seq(Ids) /\ <<>> \in Seq(Ids)
      /\ Len(results) \in Nat /\ Len(shown) \in Nat
      /\ lastId \in Nat /\ before \in 0 .. lastId
  BY <1>0, Bounds DEF WalkTypes
<1>2. /\ shown' \in Seq(Ids) /\ Len(shown') = Len(shown) + Len(results)
      /\ \A n \in 1 .. Len(shown) : shown'[n] = shown[n]
      /\ \A n \in 1 .. Len(results) : shown'[Len(shown) + n] = results[n]
  BY <1>0, <1>1, JoinIds
<1>3. /\ Falling(shown')
      /\ \A m \in 1 .. Len(shown), n \in 1 .. Len(results) : shown[m] > results[n]
  <2>1. Falling(shown \o results)
    BY <1>0, ShownIsNewer
  <2>2. QED
    BY <1>0, <2>1, ShownIsNewer, Zenon
<1>4. /\ \A n \in 1 .. Len(results) : results[n] \in Nat \ {0} /\ results[n] <= lastId
      /\ \A n \in 1 .. Len(shown) : shown[n] \in Nat
  <2>1. \A n \in 1 .. Len(results) : results[n] <= lastId
    BY <1>0 DEF WalkTypes
  <2>2. /\ \A n \in 1 .. Len(results) : results[n] \in Ids
        /\ \A n \in 1 .. Len(shown) : shown[n] \in Ids
    BY <1>1
  <2>3. QED
    BY <2>1, <2>2, Bounds
<1>5. ASSUME NEW j \in Owed, Contains(shown, j) \/ Contains(results, j)
      PROVE  Contains(shown', j)
  BY <1>0, <1>1, <1>5, JoinHolds
<1>6. ASSUME NEW j \in Owed
      PROVE  Contains(shown', j) \/ (Full(results) /\ j < Last(results))
  BY <1>0, <1>5 DEF StillOwed
<1>7. Owed' = Owed
  BY <1>0 DEF Owed, Pruned
<1>8. Len(results') = 0
  BY <1>0
<1>9. CASE Len(results) < Limit
  <2>1. pc' = "done" /\ before' = before
    BY <1>9 DEF PageAnswer
  <2>2. WalkTypes'
    BY <1>0, <1>1, <1>2, <1>8, <2>1 DEF WalkTypes
  <2>3. Parted'
    <3>1. Falling(results')
      BY <1>8 DEF Falling
    <3>2. QED
      BY <1>0, <1>3, <1>8, <2>1, <3>1 DEF Parted
  <2>4. Between'
    BY <1>0, <2>1, Zenon DEF Between
  <2>5. ~Full(results)
    BY <1>1, <1>9, Bounds DEF Full
  <2>6. WalkIsComplete'
    BY <1>6, <1>7, <2>5, Zenon DEF WalkIsComplete
  <2>7. StillOwed'
    BY <2>1, Zenon DEF StillOwed
  <2>8. QED
    BY <2>2, <2>3, <2>4, <2>6, <2>7 DEF WalkInv
<1>10. CASE ~ (Len(results) < Limit)
  <2> DEFINE last == Last(results)
  <2>1. pc' = "page" /\ before' = last
    BY <1>10 DEF PageAnswer
  <2>2. Len(results) \in 1 .. Len(results) /\ last = results[Len(results)]
    BY <1>1, <1>10, Bounds DEF Last
  <2>3. last \in Nat \ {0} /\ last <= lastId
    BY <1>4, <2>2
  <2>4. \A n \in 1 .. Len(results) : results[n] >= last
    <3>1. ASSUME NEW n \in 1 .. Len(results) PROVE results[n] >= last
      <4>1. CASE n = Len(results)
        BY <1>4, <2>2, <4>1
      <4>2. CASE n < Len(results)
        <5>1. Falling(results)
          BY <1>0 DEF Parted
        <5>2. results[n] > results[Len(results)]
          BY <2>2, <4>2, <5>1 DEF Falling
        <5>3. QED
          BY <1>4, <2>2, <5>2
      <4>3. QED
        BY <1>1, <4>1, <4>2
    <3>2. QED
      BY <3>1
  <2>5. \A n \in 1 .. Len(shown) : shown[n] >= last
    BY <1>3, <1>4, <2>2
  <2> HIDE DEF last
  <2>6. ASSUME NEW n \in 1 .. Len(shown') PROVE shown'[n] >= last
    <3>1. CASE n \in 1 .. Len(shown)
      BY <1>2, <2>5, <3>1
    <3>2. CASE n > Len(shown)
      <4> DEFINE k == n - Len(shown)
      <4>1. k \in 1 .. Len(results) /\ n = Len(shown) + k
        BY <1>1, <1>2, <3>2
      <4> HIDE DEF k
      <4>2. shown'[Len(shown) + k] = results[k] /\ results[k] >= last
        BY <1>2, <2>4, <4>1
      <4>3. QED
        BY <4>1, <4>2
    <3>3. QED
      BY <1>1, <1>2, <3>1, <3>2
  <2>7. WalkTypes'
    <3>1. before' \in 0 .. lastId /\ pc' = "page"
      BY <1>1, <2>1, <2>3
    <3>2. QED
      BY <1>0, <1>1, <1>2, <1>8, <3>1 DEF WalkTypes
  <2>8. Parted'
    <3>1. Falling(results')
      BY <1>8 DEF Falling
    <3>2. before' # 0 /\ \A n \in 1 .. Len(shown') : shown'[n] >= before'
      BY <2>1, <2>3, <2>6
    <3>3. QED
      BY <1>0, <1>3, <1>8, <3>1, <3>2 DEF Parted
  <2>9. Between'
    BY <1>0, <2>1, Zenon DEF Between
  <2>10. StillOwed' /\ WalkIsComplete'
    <3>1. \A j \in Owed : Contains(shown', j) \/ j < last
      BY <1>6 DEF last
    <3>2. QED
      BY <1>7, <2>1, <3>1, Zenon DEF StillOwed, WalkIsComplete
  <2>11. QED
    BY <2>7, <2>8, <2>9, <2>10 DEF WalkInv
<1>11. QED
  BY <1>9, <1>10

\* What a client was shown and what a walk still owes it, at every step.
THEOREM WalkInvariant == Spec => []WalkInv
<1>1. Init => WalkInv
  BY WalkInit
<1>2. WalkInv /\ [Next]_vars => WalkInv'
  <2> SUFFICES ASSUME WalkInv, [Next]_vars PROVE WalkInv'
    OBVIOUS
  <2>1. CASE UNCHANGED walk
    BY <2>1, StandStill
  <2>2. CASE WalkBegins
    BY <2>2, BeginStep
  <2>3. CASE PageList
    BY <2>3, ListStep
  <2>4. CASE PageRead
    BY <2>4, ReadStep
  <2>5. CASE PageAnswer
    BY <2>5, AnswerStep
  <2>6. QED
    BY <2>1, <2>2, <2>3, <2>4, <2>5
    DEF Next, vars, Put, PruneBegin, PruneMark, PruneDies
<1>3. QED
  BY <1>1, <1>2, PTL DEF Spec

\* Pages of any limit show the checkpoints newest first and none twice, whatever is
\* put or deleted between them and while one is read (threads_history).
THEOREM ShownNewestFirst == Spec => []ShownInOrder
<1>1. WalkInv => ShownInOrder
  BY ShownIsNewer DEF WalkInv, ShownInOrder
<1>2. QED
  BY <1>1, WalkInvariant, PTL

\* No walk that ended, however many pages it took, missed a checkpoint that it owed
\* (threads_history, delete_old_checkpoints).
THEOREM NothingOwedIsMissed == Spec => []WalkIsComplete
<1>1. WalkInv => WalkIsComplete
  BY DEF WalkInv
<1>2. QED
  BY <1>1, WalkInvariant, PTL

=============================================================================
