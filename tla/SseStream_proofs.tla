---------------------------- MODULE SseStream_proofs ----------------------------
(***************************************************************************)
(* Proofs about the buffered event streams, for every limit, every size of *)
(* a frame and every number of events.                                     *)
(***************************************************************************)
EXTENDS SseStream, FiniteSetTheorems, TLAPS

ST == INSTANCE SequenceTheorems

-----------------------------------------------------------------------------
(* Sequences of frames.                                                    *)

LEMMA FrameSeqs ==
  /\ \A k \in Frames : <<k>> \in Seq(Frames)
  /\ \A j, k \in Frames : <<j, k>> \in Seq(Frames)
  /\ <<>> \in Seq(Frames)
  /\ <<"error", "end", "error", "end">> \in Seq(Frames)
  /\ <<"metadata", "error", "end">> \in Seq(Frames)
  /\ Opening \in Seq(Frames)
<1>1. \A k \in Frames : <<k>> \in Seq(Frames)
  OBVIOUS
<1>2. \A j, k \in Frames : <<j, k>> \in Seq(Frames)
  OBVIOUS
<1>3. <<>> \in Seq(Frames)
  OBVIOUS
<1>4. \A j, k \in Frames : <<j, k, j, k>> \in Seq(Frames)
  OBVIOUS
<1>5. \A i, j, k \in Frames : <<i, j, k>> \in Seq(Frames)
  OBVIOUS
<1>6. {"metadata", "error", "end"} \subseteq Frames
  BY DEF Frames
<1>7. Opening \in Seq(Frames)
  BY <1>1, <1>3, <1>6 DEF Opening
<1>8. QED
  BY <1>1, <1>2, <1>3, <1>4, <1>5, <1>6, <1>7

LEMMA RepeatedSeq ==
  ASSUME NEW n \in Nat
  PROVE  /\ Repeated("data", n) \in Seq(Frames)
         /\ Len(Repeated("data", n)) = n
         /\ \A i \in 1 .. n : Repeated("data", n)[i] = "data"
BY DEF Repeated, Frames

LEMMA OneMore ==
  ASSUME NEW n \in Nat
  PROVE  Repeated("data", n) \o <<"data">> = Repeated("data", n + 1)
<1> DEFINE s == Repeated("data", n) \o <<"data">>
<1> DEFINE t == Repeated("data", n + 1)
<1>1. /\ s \in Seq(Frames) /\ Len(s) = n + 1
      /\ \A i \in 1 .. n + 1 : s[i] = "data"
  BY RepeatedSeq, FrameSeqs DEF Frames
<1>2. /\ t \in Seq(Frames) /\ Len(t) = n + 1
      /\ \A i \in 1 .. n + 1 : t[i] = "data"
  BY RepeatedSeq
<1>3. QED
  BY <1>1, <1>2, ST!SeqEqual

LEMMA Associative ==
  ASSUME NEW s \in Seq(Frames), NEW t \in Seq(Frames), NEW u \in Seq(Frames)
  PROVE  (s \o t) \o u = s \o (t \o u)
BY ST!ConcatAssociative

LEMMA ConcatNothing ==
  ASSUME NEW s \in Seq(Frames)
  PROVE  <<>> \o s = s /\ s \o <<>> = s
BY ST!ConcatEmptySeq

\* The frames of a buffer, one by one.
LEMMA BufferFrames ==
  ASSUME NEW n \in Nat, NEW tail \in Seq(Frames), Buffer(n, tail)
  PROVE  /\ chunks \in Seq(Frames)
         /\ Len(chunks) = Len(Opening) + n + Len(tail)
         /\ \A i \in 1 .. Len(Opening) : chunks[i] = Opening[i]
         /\ \A i \in 1 .. n : chunks[Len(Opening) + i] = "data"
         /\ \A i \in 1 .. Len(tail) : chunks[Len(Opening) + n + i] = tail[i]
<1> DEFINE r == Repeated("data", n)
<1>1. r \in Seq(Frames) /\ Len(r) = n /\ \A i \in 1 .. n : r[i] = "data"
  BY RepeatedSeq
<1>2. Opening \in Seq(Frames)
  BY FrameSeqs
<1>3. chunks = (Opening \o r) \o tail
  BY DEF Buffer
<1> HIDE DEF r
<1>4. /\ Opening \o r \in Seq(Frames) /\ Len(Opening \o r) = Len(Opening) + n
      /\ \A i \in 1 .. Len(Opening) + n :
            (Opening \o r)[i] = IF i <= Len(Opening) THEN Opening[i] ELSE r[i - Len(Opening)]
  BY <1>1, <1>2, ST!ConcatProperties
<1>5. /\ chunks \in Seq(Frames) /\ Len(chunks) = Len(Opening \o r) + Len(tail)
      /\ \A i \in 1 .. Len(Opening \o r) + Len(tail) :
            chunks[i] = IF i <= Len(Opening \o r) THEN (Opening \o r)[i]
                        ELSE tail[i - Len(Opening \o r)]
  BY <1>3, <1>4, ST!ConcatProperties
<1>6. Len(Opening) \in Nat /\ Len(tail) \in Nat
  BY <1>2
<1>7. \A i \in 1 .. Len(Opening) : chunks[i] = Opening[i]
  BY <1>4, <1>5, <1>6
<1>8. ASSUME NEW i \in 1 .. n PROVE chunks[Len(Opening) + i] = "data"
  <2> DEFINE j == Len(Opening) + i
  <2>1. /\ j \in 1 .. Len(Opening) + n /\ j \in 1 .. Len(Opening \o r) + Len(tail)
        /\ j <= Len(Opening \o r) /\ ~ (j <= Len(Opening)) /\ j - Len(Opening) = i
    BY <1>4, <1>6
  <2> HIDE DEF j
  <2>2. chunks[j] = r[i]
    BY <1>4, <1>5, <2>1
  <2>3. QED
    BY <1>1, <2>2 DEF j
<1>9. ASSUME NEW i \in 1 .. Len(tail) PROVE chunks[Len(Opening) + n + i] = tail[i]
  <2> DEFINE j == Len(Opening) + n + i
  <2>1. /\ j \in 1 .. Len(Opening \o r) + Len(tail)
        /\ ~ (j <= Len(Opening \o r)) /\ j - Len(Opening \o r) = i
    BY <1>4, <1>6
  <2> HIDE DEF j
  <2>2. chunks[j] = tail[i]
    BY <1>5, <2>1
  <2>3. QED
    BY <2>2 DEF j
<1>10. QED
  BY <1>4, <1>5, <1>7, <1>8, <1>9

LEMMA BufferMore ==
  ASSUME NEW n \in Nat, NEW tail \in Seq(Frames), Buffer(n, tail), NEW more \in Seq(Frames)
  PROVE  chunks \o more = Opening \o Repeated("data", n) \o (tail \o more)
<1> DEFINE s == Opening \o Repeated("data", n)
<1>1. s \in Seq(Frames)
  BY FrameSeqs, RepeatedSeq
<1>2. chunks = s \o tail
  BY DEF Buffer
<1> HIDE DEF s
<1>3. (s \o tail) \o more = s \o (tail \o more)
  BY <1>1, Associative
<1>4. QED
  BY <1>2, <1>3 DEF s

\* What follows the data frames.
LEMMA BufferTail ==
  ASSUME NEW n \in Nat, Buffer(n, <<>>), NEW more \in Seq(Frames)
  PROVE  chunks \o more = Opening \o Repeated("data", n) \o more
<1>1. <<>> \in Seq(Frames)
  BY FrameSeqs, Zenon
<1>2. chunks \o more = Opening \o Repeated("data", n) \o (<<>> \o more)
  BY <1>1, BufferMore, Zenon
<1>3. <<>> \o more = more
  BY ConcatNothing, Zenon
<1>4. QED
  BY <1>2, <1>3, Zenon

LEMMA BufferData ==
  ASSUME NEW n \in Nat, Buffer(n, <<>>)
  PROVE  Append(chunks, "data") = Opening \o Repeated("data", n + 1) \o <<>>
<1> DEFINE r == Repeated("data", n)
<1>1. r \in Seq(Frames) /\ Opening \in Seq(Frames) /\ <<"data">> \in Seq(Frames)
  BY FrameSeqs, RepeatedSeq DEF Frames
<1>2. chunks = Opening \o r
  BY <1>1 DEF Buffer
<1>3. r \o <<"data">> = Repeated("data", n + 1)
  BY OneMore
<1> HIDE DEF r
<1>4. Append(chunks, "data") = (Opening \o r) \o <<"data">>
  BY <1>1, <1>2
<1>5. (Opening \o r) \o <<"data">> = Opening \o (r \o <<"data">>)
  BY <1>1, Associative
<1>6. Repeated("data", n + 1) \in Seq(Frames)
  BY RepeatedSeq
<1>7. Opening \o Repeated("data", n + 1) \o <<>> = Opening \o Repeated("data", n + 1)
  BY <1>1, <1>6
<1>8. QED
  BY <1>3, <1>4, <1>5, <1>7

LEMMA Openings ==
  /\ Repeated("data", 0) = <<>>
  /\ Platform =>
       <<"metadata", "error", "end">> = Opening \o Repeated("data", 0) \o <<"error", "end">>
  /\ Platform => <<"metadata">> = Opening \o Repeated("data", 0) \o <<>>
  /\ Native => <<>> = Opening \o Repeated("data", 0) \o <<>>
<1>1. Repeated("data", 0) = <<>>
  BY DEF Repeated
<1>2. Platform => Opening = <<"metadata">>
  BY DEF Opening
<1>3. Native => Opening = <<>>
  BY DEF Opening, Native, Platform
<1>4. <<"metadata">> \o <<>> = <<"metadata">> /\ <<>> \o <<>> = <<>>
  BY ST!ConcatEmptySeq, FrameSeqs DEF Frames
<1>5. <<"metadata">> \o <<"error", "end">> = <<"metadata", "error", "end">>
  <2> DEFINE s == <<"metadata">> \o <<"error", "end">>
  <2> DEFINE t == <<"metadata", "error", "end">>
  <2>1. <<"metadata">> \in Seq(Frames) /\ <<"error", "end">> \in Seq(Frames)
    BY FrameSeqs DEF Frames
  <2>2. s \in Seq(Frames) /\ Len(s) = 3 /\ s[1] = "metadata" /\ s[2] = "error" /\ s[3] = "end"
    BY <2>1, ST!ConcatProperties
  <2>3. t \in Seq(Frames) /\ Len(t) = 3 /\ t[1] = "metadata" /\ t[2] = "error" /\ t[3] = "end"
    BY FrameSeqs
  <2>4. \A i \in 1 .. 3 : s[i] = t[i]
    BY <2>2, <2>3
  <2>5. QED
    BY <2>2, <2>3, <2>4, ST!SeqEqual
<1>6. QED
  BY <1>1, <1>2, <1>3, <1>4, <1>5

-----------------------------------------------------------------------------
(* Types.                                                                  *)

LEMMA TypeInit == Init => TypeOK
<1> SUFFICES ASSUME Init PROVE TypeOK
  OBVIOUS
<1>1. buffered \in Nat /\ buffered <= maxBytes /\ yielded \in 0 .. MaxEvents
  BY SizesAssumption DEF Init
<1>2. chunks \in Seq(Frames)
  BY FrameSeqs DEF Init
<1>3. body \in [input : Values \union {Scalar}, config : Values \union {Scalar}]
  BY DEF Init
<1>4. QED
  BY <1>1, <1>2, <1>3 DEF Init, TypeOK

\* A request that is not over yet has counted no more than the limit.
LEMMA NotRefused ==
  ASSUME TypeOK, pc \notin {"refused", "answered", "crashed"}
  PROVE  maxBytes \in Nat /\ buffered \in 0 .. maxBytes
BY SizesAssumption DEF TypeOK, Refused

LEMMA AppendChunkTyped ==
  ASSUME TypeOK, pc \notin {"refused", "answered", "crashed"},
         NEW kind \in Frames, NEW size \in Nat, AppendChunk(kind, size)
  PROVE  chunks' \in Seq(Frames) /\ buffered' \in 0 .. maxBytes
<1>1. chunks \in Seq(Frames) /\ buffered \in 0 .. maxBytes /\ maxBytes \in Nat
  BY NotRefused DEF TypeOK
<1>2. "error" \in Frames
  BY DEF Frames
<1>3. QED
  BY <1>1, <1>2 DEF AppendChunk, Fits

LEMMA TypeStep == TypeOK /\ [Next]_vars => TypeOK'
<1> SUFFICES ASSUME TypeOK, [Next]_vars PROVE TypeOK'
  OBVIOUS
<1>0. /\ maxBytes \in Nat /\ MetadataSize \in Nat /\ ErrorSize \in Nat /\ EndSize \in Nat
      /\ Sizes \subseteq Nat /\ MaxEvents \in Nat
      /\ {"metadata", "data", "error", "end"} \subseteq Frames
  BY SizesAssumption DEF TypeOK, Frames
<1>00. pc \notin {"refused", "answered", "crashed"} => buffered \in 0 .. maxBytes
  BY NotRefused
<1>1. CASE Accept \/ Reject
  BY <1>0, <1>00, <1>1 DEF Accept, Reject, TypeOK
<1>2. CASE PlatformBegins
  <2>1. chunks' \in Seq(Frames)
    BY <1>0, <1>2, FrameSeqs DEF PlatformBegins
  <2>2. buffered' \in Nat /\ (buffered' <= maxBytes' \/ Refused')
    BY <1>0, <1>2 DEF PlatformBegins, Refused
  <2>3. QED
    BY <1>2, <2>1, <2>2 DEF PlatformBegins, TypeOK
<1>3. CASE PlatformEvent
  <2>1. PICK size \in Sizes :
         IF Fits(size)
         THEN /\ chunks' = Append(chunks, "data")
              /\ buffered' = buffered + size
              /\ UNCHANGED <<pc, dropped>>
         ELSE /\ chunks' = chunks \o PlatformOverflow
              /\ pc' = "overflow"
              /\ dropped' = TRUE
              /\ UNCHANGED buffered
    BY <1>3 DEF PlatformEvent
  <2>2. chunks' \in Seq(Frames)
    <3>1. chunks \in Seq(Frames) /\ PlatformOverflow \in Seq(Frames)
      BY <1>0, FrameSeqs DEF TypeOK, PlatformOverflow
    <3>2. Append(chunks, "data") \in Seq(Frames) /\ chunks \o PlatformOverflow \in Seq(Frames)
      BY <1>0, <3>1
    <3>3. QED
      BY <2>1, <3>2
  <2>3. buffered' \in 0 .. maxBytes
    BY <1>0, <1>00, <1>3, <2>1 DEF PlatformEvent, Fits
  <2>4. yielded' \in 0 .. MaxEvents
    BY <1>0, <1>3 DEF PlatformEvent, TypeOK
  <2>5. pc' \in {"stream", "overflow"} /\ dropped' \in BOOLEAN
    BY <1>3, <2>1 DEF PlatformEvent, TypeOK
  <2>6. QED
    BY <1>0, <1>3, <2>2, <2>3, <2>4, <2>5 DEF PlatformEvent, TypeOK
<1>4. CASE PlatformRaises
  BY <1>0, <1>00, <1>4 DEF PlatformRaises, TypeOK
<1>5. CASE PlatformEnds
  BY <1>0, <1>00, <1>5 DEF PlatformEnds, TypeOK
<1>6. CASE PlatformAnswers
  <2>1. chunks' \in Seq(Frames)
    BY <1>0, <1>6 DEF PlatformAnswers, TypeOK
  <2>2. lock' \in {"none", "busy", "idle", "error"}
    BY <1>6 DEF PlatformAnswers, StatusOf, TypeOK
  <2>3. buffered' \in Nat /\ (buffered' <= maxBytes' \/ Refused')
    BY <1>0, <1>00, <1>6 DEF PlatformAnswers, TypeOK, Refused
  <2>4. QED
    BY <1>6, <2>1, <2>2, <2>3 DEF PlatformAnswers, TypeOK
<1>7. CASE ReleaseRaises
  <2>1. buffered' \in Nat /\ (buffered' <= maxBytes' \/ Refused')
    BY <1>0, <1>00, <1>7 DEF ReleaseRaises, TypeOK, Refused
  <2>2. QED
    BY <1>7, <2>1 DEF ReleaseRaises, TypeOK
<1>8. CASE NativeBegins \/ NativeEnds
  BY <1>0, <1>00, <1>8 DEF NativeBegins, NativeEnds, TypeOK
<1>9. CASE NativeEvent
  <2>1. PICK size \in Sizes :
         /\ AppendChunk("data", size)
         /\ IF Fits(size) THEN UNCHANGED <<pc, dropped>>
            ELSE pc' = "ended" /\ dropped' = TRUE
    BY <1>9 DEF NativeEvent
  <2>2. chunks' \in Seq(Frames) /\ buffered' \in 0 .. maxBytes
    BY <1>0, <1>9, <2>1, AppendChunkTyped DEF NativeEvent
  <2>3. yielded' \in 0 .. MaxEvents
    BY <1>0, <1>9 DEF NativeEvent, TypeOK
  <2>4. pc' \in {"stream", "ended"} /\ dropped' \in BOOLEAN
    BY <1>9, <2>1 DEF NativeEvent, TypeOK
  <2>5. QED
    BY <1>0, <1>9, <2>2, <2>3, <2>4 DEF NativeEvent, TypeOK
<1>10. CASE NativeRaises
  <2>1. chunks' \in Seq(Frames) /\ buffered' \in 0 .. maxBytes
    BY <1>0, <1>10, AppendChunkTyped DEF NativeRaises
  <2>2. QED
    BY <1>0, <1>10, <2>1 DEF NativeRaises, TypeOK
<1>11. CASE NativeAnswers
  <2>1. chunks' \in Seq(Frames) /\ buffered' \in 0 .. maxBytes
    BY <1>0, <1>11, AppendChunkTyped DEF NativeAnswers
  <2>2. QED
    BY <1>0, <1>11, <2>1 DEF NativeAnswers, TypeOK
<1>12. CASE UNCHANGED vars
  BY <1>12 DEF vars, TypeOK, Refused
<1>13. QED
  BY <1>1, <1>2, <1>3, <1>4, <1>5, <1>6, <1>7, <1>8, <1>9, <1>10, <1>11, <1>12 DEF Next

-----------------------------------------------------------------------------
(* What the buffer holds.                                                  *)

LEMMA RouteFixed ==
  ASSUME [Next]_vars
  PROVE  /\ route' = route /\ maxBytes' = maxBytes
         /\ (Platform' <=> Platform) /\ (Native' <=> Native) /\ Opening' = Opening
<1>1. route' = route /\ maxBytes' = maxBytes
  BY DEF Next, vars, Accept, Reject, PlatformBegins, PlatformEvent, PlatformRaises,
         PlatformEnds, PlatformAnswers, ReleaseRaises, NativeBegins, NativeEvent,
         NativeRaises, NativeEnds, NativeAnswers
<1>2. QED
  BY <1>1 DEF Platform, Native, Opening

\* A route is either a platform route or the native one.
LEMMA OneRoute == Platform => ~Native
BY DEF Platform, Native

LEMMA ShapeInit == Init => Shape
BY DEF Init, Shape, Answered

LEMMA AppendIsConcat ==
  ASSUME TypeOK, NEW k \in Frames
  PROVE  Append(chunks, k) = chunks \o <<k>>
BY DEF TypeOK

LEMMA Tails ==
  /\ <<"error", "end">> \o <<"error", "end">> = <<"error", "end", "error", "end">>
  /\ \A k \in Frames : <<"error">> \o <<k>> = <<"error", k>>
<1>1. <<"error", "end">> \o <<"error", "end">> = <<"error", "end", "error", "end">>
  <2> DEFINE s == <<"error", "end">> \o <<"error", "end">>
  <2> DEFINE t == <<"error", "end", "error", "end">>
  <2>1. <<"error", "end">> \in Seq(Frames)
    BY FrameSeqs DEF Frames
  <2>2. /\ s \in Seq(Frames) /\ Len(s) = 4
        /\ s[1] = "error" /\ s[2] = "end" /\ s[3] = "error" /\ s[4] = "end"
    BY <2>1, ST!ConcatProperties
  <2>3. /\ t \in Seq(Frames) /\ Len(t) = 4
        /\ t[1] = "error" /\ t[2] = "end" /\ t[3] = "error" /\ t[4] = "end"
    BY FrameSeqs
  <2>4. \A i \in 1 .. 4 : s[i] = t[i]
    BY <2>2, <2>3
  <2>5. QED
    BY <2>2, <2>3, <2>4, ST!SeqEqual
<1>2. ASSUME NEW k \in Frames PROVE <<"error">> \o <<k>> = <<"error", k>>
  <2> DEFINE s == <<"error">> \o <<k>>
  <2> DEFINE t == <<"error", k>>
  <2>1. <<"error">> \in Seq(Frames) /\ <<k>> \in Seq(Frames)
    BY FrameSeqs DEF Frames
  <2>2. s \in Seq(Frames) /\ Len(s) = 2 /\ s[1] = "error" /\ s[2] = k
    BY <2>1, ST!ConcatProperties
  <2>3. t \in Seq(Frames) /\ Len(t) = 2 /\ t[1] = "error" /\ t[2] = k
    BY FrameSeqs DEF Frames
  <2>4. \A i \in 1 .. 2 : s[i] = t[i]
    BY <2>2, <2>3
  <2>5. QED
    BY <2>2, <2>3, <2>4, ST!SeqEqual
<1>3. QED
  BY <1>1, <1>2

LEMMA PlatformShape ==
  ASSUME StreamInv, [Next]_vars,
         PlatformBegins \/ PlatformEvent \/ PlatformRaises \/ PlatformEnds
  PROVE  Shape'
<1>0. /\ Opening' = Opening /\ (Platform' <=> Platform) /\ (Native' <=> Native)
      /\ Platform /\ ~Native
      /\ yielded \in Nat
  BY RouteFixed, OneRoute, SizesAssumption
  DEF StreamInv, TypeOK, PlatformBegins, PlatformEvent, PlatformRaises, PlatformEnds
<1>1. CASE PlatformBegins
  <2>1. yielded' = 0 /\ ~dropped'
    BY <1>1 DEF PlatformBegins, StreamInv, Shape
  <2>2. CASE MetadataSize > maxBytes
    <3>1. Buffer(0, <<"error", "end">>)' /\ pc' = "refused"
      BY <1>0, <1>1, <2>2, Openings DEF PlatformBegins, Buffer
    <3>2. QED
      BY <1>0, <2>1, <3>1 DEF Shape, Answered
  <2>3. CASE ~ (MetadataSize > maxBytes)
    <3>1. chunks' = Opening' \o Repeated("data", yielded') \o <<>> /\ pc' = "stream"
      BY <1>0, <1>1, <2>1, <2>3, Openings DEF PlatformBegins
    <3>2. QED
      BY <1>0, <2>1, <3>1 DEF Shape, Answered, Buffer
  <2>4. QED
    BY <2>2, <2>3
<1>2. CASE PlatformEvent
  <2>1. Buffer(yielded, <<>>) /\ ~dropped /\ pc = "stream" /\ yielded' = yielded + 1
    BY <1>2 DEF PlatformEvent, StreamInv, Shape
  <2>2. PICK size \in Sizes :
         IF Fits(size)
         THEN /\ chunks' = Append(chunks, "data")
              /\ buffered' = buffered + size
              /\ UNCHANGED <<pc, dropped>>
         ELSE /\ chunks' = chunks \o PlatformOverflow
              /\ pc' = "overflow"
              /\ dropped' = TRUE
              /\ UNCHANGED buffered
    BY <1>2 DEF PlatformEvent
  <2>3. CASE Fits(size)
    <3>1. chunks' = Opening' \o Repeated("data", yielded') \o <<>>
      BY <1>0, <2>1, <2>2, <2>3, BufferData
    <3>2. QED
      BY <2>1, <2>2, <2>3, <3>1 DEF Shape, Answered, Buffer
  <2>4. CASE ~Fits(size)
    <3>1. PlatformOverflow = <<"error", "end">> /\ PlatformOverflow \in Seq(Frames)
      BY FrameSeqs DEF PlatformOverflow, Frames
    <3>2. chunks' = Opening' \o Repeated("data", yielded) \o <<"error", "end">>
      <4>1. chunks \o PlatformOverflow
              = Opening \o Repeated("data", yielded) \o PlatformOverflow
        BY <1>0, <2>1, <3>1, BufferTail, Zenon
      <4>2. chunks' = chunks \o PlatformOverflow
        BY <2>2, <2>4
      <4>3. QED
        BY <1>0, <3>1, <4>1, <4>2, Zenon
    <3>3. yielded \in Kept'
      BY <1>0, <2>1 DEF Kept
    <3>4. QED
      BY <1>0, <2>1, <2>2, <2>4, <3>2, <3>3 DEF Shape, Answered, Buffer
  <2>5. QED
    BY <2>3, <2>4
<1>3. CASE PlatformRaises
  <2>1. Buffer(yielded, <<>>)
    BY <1>3 DEF PlatformRaises, StreamInv, Shape
  <2>2. chunks' = Opening' \o Repeated("data", yielded') \o <<>>
    BY <1>0, <1>3, <2>1 DEF PlatformRaises, Buffer
  <2>3. QED
    BY <1>0, <1>3, <2>2 DEF PlatformRaises, Shape, Answered, Buffer
<1>4. CASE PlatformEnds
  <2>1. Buffer(yielded, <<>>) /\ ~dropped
    BY <1>4 DEF PlatformEnds, StreamInv, Shape
  <2>2. Append(chunks, "end") = chunks \o <<"end">>
    BY DEF StreamInv, TypeOK
  <2>3. <<"end">> \in Seq(Frames)
    BY FrameSeqs DEF Frames
  <2>4. chunks' = Opening' \o Repeated("data", yielded') \o <<"end">>
    <3>1. chunks \o <<"end">> = Opening \o Repeated("data", yielded) \o <<"end">>
      BY <1>0, <2>1, <2>3, BufferTail, Zenon
    <3>2. chunks' = chunks \o <<"end">> /\ yielded' = yielded
      BY <1>4, <2>2 DEF PlatformEnds
    <3>3. QED
      BY <1>0, <3>1, <3>2, Zenon
  <2>5. QED
    BY <1>0, <1>4, <2>1, <2>4 DEF PlatformEnds, Shape, Answered, Buffer
<1>5. QED
  BY <1>1, <1>2, <1>3, <1>4

LEMMA KeptNat == TypeOK => yielded \in Nat /\ Kept \subseteq Nat /\ yielded \in Kept
BY SizesAssumption DEF TypeOK, Kept

\* The answer of a platform route, and a release that fails.
LEMMA AnswerShape ==
  ASSUME StreamInv, [Next]_vars, PlatformAnswers \/ ReleaseRaises
  PROVE  Shape'
<1>0. /\ Opening' = Opening /\ (Platform' <=> Platform) /\ (Native' <=> Native)
      /\ route' = route /\ Platform /\ ~Native
      /\ yielded' = yielded /\ dropped' = dropped /\ Kept' = Kept
      /\ yielded \in Nat /\ Kept \subseteq Nat /\ yielded \in Kept /\ TypeOK
  BY RouteFixed, OneRoute, KeptNat
  DEF StreamInv, PlatformAnswers, ReleaseRaises, Kept, Platform
<1>1. CASE PlatformAnswers /\ pc = "ended"
  <2>1. Buffer(yielded, <<"end">>) /\ ~dropped /\ chunks' = chunks
    BY <1>0, <1>1 DEF PlatformAnswers, StreamInv, Shape
  <2>2. route = "thread" => lock' = "idle"
    BY <1>1 DEF PlatformAnswers, StatusOf
  <2>3. AnsweredShape'
    BY <1>0, <2>1, <2>2 DEF AnsweredShape, Buffer
  <2>4. QED
    BY <1>1, <2>3 DEF PlatformAnswers, Shape
<1>2. CASE PlatformAnswers /\ pc \in {"refused", "overflow"}
  <2>1. PICK n \in Kept : Buffer(n, <<"error", "end">>) /\ (~dropped => n = yielded)
    BY <1>0, <1>2 DEF StreamInv, Shape
  <2>2. (route = "thread" => lock' = "error") /\ chunks' = chunks
    BY <1>2 DEF PlatformAnswers, StatusOf
  <2>3. AnsweredShape'
    BY <1>0, <2>1, <2>2 DEF AnsweredShape, Buffer
  <2>4. QED
    BY <1>2, <2>3 DEF PlatformAnswers, Shape
<1>3. CASE PlatformAnswers /\ pc = "failed"
  <2>1. /\ chunks' = chunks \o <<"error", "end">> /\ dropped
        /\ route = "thread" => lock' = "error"
    BY <1>3 DEF PlatformAnswers, StatusOf, StreamInv, Shape
  <2>2. <<"error", "end">> \in Seq(Frames)
    BY FrameSeqs DEF Frames
  <2>3. CASE Buffer(yielded, <<>>)
    <3>1. chunks' = Opening \o Repeated("data", yielded) \o <<"error", "end">>
      BY <1>0, <2>1, <2>2, <2>3, BufferTail, Zenon
    <3>2. AnsweredShape'
      BY <1>0, <2>1, <3>1 DEF AnsweredShape, Buffer
    <3>3. QED
      BY <1>3, <3>2 DEF PlatformAnswers, Shape
  <2>4. ASSUME route = "thread", NEW n \in Kept, Buffer(n, <<"error", "end">>)
        PROVE  Shape'
    <3>1. chunks \o <<"error", "end">>
            = Opening \o Repeated("data", n) \o (<<"error", "end">> \o <<"error", "end">>)
      <4>1. n \in Nat
        BY <1>0, Zenon
      <4>2. QED
        BY <2>2, <2>4, <4>1, BufferMore, Zenon
    <3>2. chunks' = Opening \o Repeated("data", n) \o <<"error", "end", "error", "end">>
      BY <2>1, <3>1, Tails, Zenon
    <3>3. AnsweredShape'
      BY <1>0, <2>1, <2>4, <3>2 DEF AnsweredShape, Buffer
    <3>4. QED
      BY <1>3, <3>3 DEF PlatformAnswers, Shape
  <2>5. QED
    BY <1>3, <2>3, <2>4 DEF StreamInv, Shape
<1>4. CASE ReleaseRaises
  <2>1. chunks' = chunks
    BY <1>4 DEF ReleaseRaises
  <2>2. CASE pc = "overflow"
    <3>1. route = "thread" /\ pc' = "failed"
      BY <1>4, <2>2 DEF ReleaseRaises
    <3>2. dropped /\ \E n \in Kept : Buffer(n, <<"error", "end">>)
      BY <2>2 DEF StreamInv, Shape
    <3>3. QED
      BY <1>0, <2>1, <3>1, <3>2 DEF Shape, Answered, Buffer
  <2>3. CASE pc # "overflow"
    <3>1. pc' = "crashed"
      BY <1>4, <2>3 DEF ReleaseRaises
    <3>2. QED
      BY <3>1 DEF Shape, Answered
  <2>4. QED
    BY <2>2, <2>3
<1>5. QED
  BY <1>1, <1>2, <1>3, <1>4 DEF PlatformAnswers

\* The events of the native route; an error takes the place of what does not fit.
LEMMA NativeShape ==
  ASSUME StreamInv, [Next]_vars,
         NativeBegins \/ NativeEvent \/ NativeRaises \/ NativeEnds
  PROVE  Shape'
<1>0. /\ Opening' = Opening /\ (Platform' <=> Platform) /\ (Native' <=> Native)
      /\ Native /\ ~Platform
      /\ yielded \in Nat /\ Kept \subseteq Nat /\ yielded \in Kept /\ TypeOK
  BY RouteFixed, OneRoute, KeptNat
  DEF StreamInv, NativeBegins, NativeEvent, NativeRaises, NativeEnds
<1>a. /\ Append(chunks, "error") = chunks \o <<"error">>
      /\ <<"error">> \in Seq(Frames)
  BY <1>0, AppendIsConcat, FrameSeqs DEF Frames
<1>1. CASE NativeBegins
  <2>1. /\ pc' = "stream" /\ chunks' = <<>> /\ yielded' = 0 /\ ~dropped'
    BY <1>1 DEF NativeBegins, StreamInv, Shape
  <2>2. <<>> = Opening \o Repeated("data", 0) \o <<>>
    BY <1>0, Openings
  <2>3. chunks' = Opening' \o Repeated("data", yielded') \o <<>>
    BY <1>0, <2>1, <2>2, Zenon
  <2>4. QED
    BY <2>1, <2>3 DEF Shape, Answered, Buffer
<1>2. CASE NativeEvent
  <2>1. Buffer(yielded, <<>>) /\ ~dropped /\ pc = "stream" /\ yielded' = yielded + 1
    BY <1>2 DEF NativeEvent, StreamInv, Shape
  <2>2. PICK size \in Sizes :
         /\ AppendChunk("data", size)
         /\ IF Fits(size) THEN UNCHANGED <<pc, dropped>>
            ELSE pc' = "ended" /\ dropped' = TRUE
    BY <1>2 DEF NativeEvent
  <2>3. CASE Fits(size)
    <3>1. chunks' = Opening' \o Repeated("data", yielded') \o <<>>
      BY <1>0, <2>1, <2>2, <2>3, BufferData DEF AppendChunk
    <3>2. QED
      BY <2>1, <2>2, <2>3, <3>1 DEF Shape, Answered, Buffer
  <2>4. CASE ~Fits(size)
    <3>1. chunks' = chunks \o <<"error">> /\ pc' = "ended" /\ dropped'
      BY <1>a, <2>2, <2>4 DEF AppendChunk
    <3>2. chunks' = Opening' \o Repeated("data", yielded) \o <<"error">>
      BY <1>0, <1>a, <2>1, <3>1, BufferTail, Zenon
    <3>3. yielded \in Kept'
      BY <1>0, <2>1 DEF Kept
    <3>4. QED
      BY <1>0, <3>1, <3>2, <3>3 DEF Shape, Answered, Buffer
  <2>5. QED
    BY <2>3, <2>4
<1>3. CASE NativeRaises
  <2>1. Buffer(yielded, <<>>) /\ yielded' = yielded /\ pc' = "ended" /\ dropped'
    BY <1>3 DEF NativeRaises, StreamInv, Shape
  <2>2. chunks' = chunks \o <<"error">>
    BY <1>a, <1>3 DEF NativeRaises, AppendChunk
  <2>3. chunks' = Opening' \o Repeated("data", yielded) \o <<"error">>
    BY <1>0, <1>a, <2>1, <2>2, BufferTail, Zenon
  <2>4. yielded \in Kept'
    BY <1>0, <2>1 DEF Kept
  <2>5. QED
    BY <1>0, <2>1, <2>3, <2>4 DEF Shape, Answered, Buffer
<1>4. CASE NativeEnds
  <2>1. Buffer(yielded, <<>>) /\ ~dropped
    BY <1>4 DEF NativeEnds, StreamInv, Shape
  <2>2. UNCHANGED <<yielded, dropped, chunks>> /\ pc' = "ended"
    BY <1>4 DEF NativeEnds
  <2>3. QED
    BY <1>0, <2>1, <2>2 DEF Shape, Answered, Buffer
<1>5. QED
  BY <1>1, <1>2, <1>3, <1>4

\* The last frame of the native route: the end, or an error that took its place.
LEMMA NativeAnswerShape ==
  ASSUME StreamInv, [Next]_vars, NativeAnswers
  PROVE  Shape'
<1>0. /\ Opening' = Opening /\ (Platform' <=> Platform) /\ (Native' <=> Native)
      /\ Native /\ ~Platform /\ maxBytes' = maxBytes
      /\ Kept' = Kept /\ yielded' = yielded /\ dropped' = dropped
      /\ yielded \in Nat /\ Kept \subseteq Nat /\ TypeOK
  BY RouteFixed, OneRoute, KeptNat DEF StreamInv, NativeAnswers, Kept
<1>1. PICK last \in {"error", "end"} :
         /\ chunks' = Append(chunks, last)
         /\ last = "error" => buffered' = buffered /\ ~Fits(EndSize)
  <2>1. CASE Fits(EndSize)
    BY <2>1 DEF NativeAnswers, AppendChunk
  <2>2. CASE ~Fits(EndSize)
    BY <2>2 DEF NativeAnswers, AppendChunk
  <2>3. QED
    BY <2>1, <2>2
<1>2. last \in Frames /\ <<last>> \in Seq(Frames) /\ <<"error">> \in Seq(Frames)
  BY FrameSeqs DEF Frames
<1>3. chunks' = chunks \o <<last>>
  BY <1>0, <1>1, <1>2, AppendIsConcat
<1>4. last = "error" => buffered' + EndSize > maxBytes'
  <2>1. buffered \in Int /\ maxBytes \in Int /\ EndSize \in Int
    BY <1>0, SizesAssumption DEF TypeOK
  <2>2. QED
    BY <1>0, <1>1, <2>1 DEF Fits
<1>5. AnsweredShape'
  <2>1. CASE ~dropped /\ Buffer(yielded, <<>>)
    <3>1. chunks' = Opening' \o Repeated("data", yielded') \o <<last>>
      BY <1>0, <1>2, <1>3, <2>1, BufferTail, Zenon
    <3>2. QED
      BY <1>0, <1>4, <2>1, <3>1 DEF AnsweredShape, Buffer
  <2>2. ASSUME dropped, NEW n \in Kept, Buffer(n, <<"error">>)
        PROVE  AnsweredShape'
    <3>1. n \in Nat
      BY <1>0, Zenon
    <3>2. chunks \o <<last>> = Opening \o Repeated("data", n) \o (<<"error">> \o <<last>>)
      BY <1>2, <2>2, <3>1, BufferMore, Zenon
    <3>3. chunks' = Opening' \o Repeated("data", n) \o <<"error", last>>
      BY <1>0, <1>2, <1>3, <3>2, Tails, Zenon
    <3>4. QED
      BY <1>0, <1>4, <2>2, <3>3 DEF AnsweredShape, Buffer
  <2>3. QED
    BY <1>0, <2>1, <2>2 DEF NativeAnswers, StreamInv, Shape
<1>6. QED
  BY <1>5 DEF NativeAnswers, Shape

LEMMA ShapeStep == StreamInv /\ [Next]_vars => Shape'
<1> SUFFICES ASSUME StreamInv, [Next]_vars PROVE Shape'
  OBVIOUS
<1>1. CASE Accept \/ Reject
  <2>1. /\ chunks' = <<>> /\ yielded' = 0 /\ ~dropped'
        /\ pc' \in {"begin", "rejected"}
    BY <1>1 DEF Accept, Reject, StreamInv, Shape
  <2>2. QED
    BY <2>1 DEF Shape, Answered
<1>2. CASE UNCHANGED vars
  <2>1. UNCHANGED <<pc, route, chunks, yielded, dropped>>
        /\ (AnsweredShape' <=> AnsweredShape)
    BY <1>2 DEF vars, AnsweredShape, Buffer, Opening, Kept, Platform, Native
  <2>2. /\ Kept' = Kept /\ (Platform' <=> Platform) /\ (Native' <=> Native)
        /\ (Answered' <=> Answered)
    BY <2>1 DEF Kept, Platform, Native, Answered
  <2>3. \A n, tail : Buffer(n, tail)' <=> Buffer(n, tail)
    BY <2>1, <2>2 DEF Buffer, Opening
  <2>4. QED
    BY <2>1, <2>2, <2>3 DEF StreamInv, Shape
<1>3. QED
  BY <1>1, <1>2, PlatformShape, AnswerShape, NativeShape, NativeAnswerShape DEF Next

\* What the buffer holds and what the handler remembers agree at every step.
THEOREM StreamInvariant == Spec => []StreamInv
<1>1. Init => StreamInv
  BY TypeInit, ShapeInit DEF StreamInv
<1>2. StreamInv /\ [Next]_vars => StreamInv'
  BY TypeStep, ShapeStep DEF StreamInv
<1>3. QED
  BY <1>1, <1>2, PTL DEF Spec

-----------------------------------------------------------------------------
(* What a client can tell.                                                 *)

\* The end of an answer.
EndTails == {<<"end">>, <<"error">>, <<"error", "end">>, <<"error", "error">>,
             <<"error", "end", "error", "end">>}

LEMMA EndTailFrames ==
  ASSUME NEW tail \in EndTails
  PROVE  /\ tail \in Seq(Frames) /\ Len(tail) \in 1 .. 4
         /\ \A i \in 1 .. Len(tail) : tail[i] \in {"error", "end"}
         /\ tail = <<"end">> \/ tail[1] = "error"
<1>1. "error" \in Frames /\ "end" \in Frames
  BY DEF Frames
<1>2. CASE tail = <<"error", "end", "error", "end">>
  BY <1>2, FrameSeqs
<1>3. CASE tail = <<"end">>
  <2>1. <<"end">> \in Seq(Frames)
    BY <1>1, FrameSeqs, Zenon
  <2>2. Len(<<"end">>) = 1 /\ <<"end">>[1] = "end"
    OBVIOUS
  <2>3. QED
    BY <1>3, <2>1, <2>2
<1>4. CASE tail = <<"error">>
  <2>1. <<"error">> \in Seq(Frames)
    BY <1>1, FrameSeqs, Zenon
  <2>2. Len(<<"error">>) = 1 /\ <<"error">>[1] = "error"
    OBVIOUS
  <2>3. QED
    BY <1>4, <2>1, <2>2
<1>5. ASSUME NEW last \in {"error", "end"}, tail = <<"error", last>>
      PROVE  /\ tail \in Seq(Frames) /\ Len(tail) \in 1 .. 4
             /\ \A i \in 1 .. Len(tail) : tail[i] \in {"error", "end"}
             /\ tail = <<"end">> \/ tail[1] = "error"
  <2>1. last \in Frames
    BY <1>1
  <2>2. <<"error", last>> \in Seq(Frames)
    BY <1>1, <2>1, FrameSeqs, Zenon
  <2>3. /\ Len(<<"error", last>>) = 2
        /\ <<"error", last>>[1] = "error" /\ <<"error", last>>[2] = last
    OBVIOUS
  <2>4. QED
    BY <1>5, <2>2, <2>3
<1>6. QED
  BY <1>2, <1>3, <1>4, <1>5 DEF EndTails

LEMMA AnswerTail ==
  ASSUME StreamInv, Answered
  PROVE  \E n \in Kept, tail \in EndTails :
            /\ Buffer(n, tail)
            /\ ~dropped => n = yielded
            /\ dropped => tail # <<"end">>
<1>1. yielded \in Kept
  BY KeptNat DEF StreamInv
<1>2. AnsweredShape
  BY DEF StreamInv, Shape
<1>3. CASE Platform /\ ~dropped /\ Buffer(yielded, <<"end">>)
  BY <1>1, <1>3 DEF EndTails
<1>4. CASE Platform /\ \E n \in Kept : /\ ~dropped => n = yielded
                                       /\ \/ Buffer(n, <<"error", "end">>)
                                          \/ Buffer(n, <<"error", "end", "error", "end">>)
  <2>1. <<"error", "end">> \in EndTails /\ <<"error", "end", "error", "end">> \in EndTails
    BY DEF EndTails
  <2>2. <<"error", "end">> # <<"end">> /\ <<"error", "end", "error", "end">> # <<"end">>
    OBVIOUS
  <2>3. QED
    BY <1>4, <2>1, <2>2
<1>5. ASSUME NEW last \in {"error", "end"},
             \/ ~dropped /\ Buffer(yielded, <<last>>)
             \/ dropped /\ \E n \in Kept : Buffer(n, <<"error", last>>)
      PROVE  \E n \in Kept, tail \in EndTails :
                /\ Buffer(n, tail)
                /\ ~dropped => n = yielded
                /\ dropped => tail # <<"end">>
  <2>1. <<last>> \in EndTails /\ <<"error", last>> \in EndTails
    BY DEF EndTails
  <2>2. <<"error", last>> # <<"end">>
    OBVIOUS
  <2>3. QED
    BY <1>1, <1>5, <2>1, <2>2
<1>6. QED
  BY <1>2, <1>3, <1>4, <1>5 DEF AnsweredShape

LEMMA OpeningFrames ==
  Len(Opening) \in {0, 1} /\ \A i \in 1 .. Len(Opening) : Opening[i] = "metadata"
BY DEF Opening

LEMMA DataCount ==
  ASSUME NEW n \in Nat, NEW tail \in EndTails, Buffer(n, tail)
  PROVE  Count("data") = n
<1> DEFINE m == Len(Opening)
<1>1. m \in {0, 1}
  BY OpeningFrames
<1>2. tail \in Seq(Frames) /\ Len(tail) \in Nat
  BY EndTailFrames
<1>3. /\ chunks \in Seq(Frames) /\ Len(chunks) = m + n + Len(tail)
      /\ \A i \in 1 .. m : chunks[i] = "metadata"
      /\ \A i \in 1 .. n : chunks[m + i] = "data"
      /\ \A i \in 1 .. Len(tail) : chunks[m + n + i] # "data"
  <2>1. /\ chunks \in Seq(Frames)
        /\ Len(chunks) = Len(Opening) + n + Len(tail)
        /\ \A i \in 1 .. Len(Opening) : chunks[i] = Opening[i]
        /\ \A i \in 1 .. n : chunks[Len(Opening) + i] = "data"
        /\ \A i \in 1 .. Len(tail) : chunks[Len(Opening) + n + i] = tail[i]
    BY <1>2, BufferFrames, Zenon
  <2>2. \A i \in 1 .. Len(tail) : tail[i] \in {"error", "end"}
    BY EndTailFrames
  <2>3. \A i \in 1 .. Len(Opening) : Opening[i] = "metadata"
    BY OpeningFrames
  <2>4. QED
    BY <2>1, <2>2, <2>3
<1> HIDE DEF m
<1>4. ASSUME NEW i \in 1 .. m + n + Len(tail)
      PROVE  chunks[i] = "data" <=> i \in m + 1 .. m + n
  <2>1. CASE i <= m
    BY <1>1, <1>3, <2>1
  <2>2. CASE m < i /\ i <= m + n
    <3>1. i - m \in 1 .. n /\ m + (i - m) = i
      BY <1>1, <2>2
    <3>2. QED
      BY <1>1, <1>3, <2>2, <3>1
  <2>3. CASE m + n < i
    <3> DEFINE k == i - (m + n)
    <3>1. k \in 1 .. Len(tail) /\ m + n + k = i /\ i \notin m + 1 .. m + n
      BY <1>1, <1>2, <2>3
    <3> HIDE DEF k
    <3>2. chunks[m + n + k] # "data"
      BY <1>3, <3>1
    <3>3. QED
      BY <3>1, <3>2
  <2>4. QED
    BY <1>1, <1>2, <2>1, <2>2, <2>3
<1>5. DOMAIN chunks = 1 .. m + n + Len(tail)
  BY <1>3
<1>6. {i \in DOMAIN chunks : chunks[i] = "data"} = m + 1 .. m + n
  BY <1>1, <1>2, <1>4, <1>5
<1>7. Cardinality(m + 1 .. m + n) = n
  BY <1>1, FS_Interval
<1>8. QED
  BY <1>6, <1>7 DEF Count

LEMMA ErrorIsThere ==
  ASSUME NEW n \in Nat, NEW tail \in EndTails, Buffer(n, tail)
  PROVE  Contains(chunks, "error") <=> tail # <<"end">>
<1> DEFINE m == Len(Opening)
<1>1. m \in {0, 1}
  BY OpeningFrames
<1>2. tail \in Seq(Frames) /\ Len(tail) \in 1 .. 4
  BY EndTailFrames
<1>3. /\ chunks \in Seq(Frames) /\ Len(chunks) = m + n + Len(tail)
      /\ \A i \in 1 .. m : chunks[i] = "metadata"
      /\ \A i \in 1 .. n : chunks[m + i] = "data"
      /\ \A i \in 1 .. Len(tail) : chunks[m + n + i] = tail[i]
  BY <1>2, BufferFrames, OpeningFrames
<1> HIDE DEF m
<1>4. CASE tail # <<"end">>
  <2>1. m + n + 1 \in 1 .. Len(chunks) /\ 1 \in 1 .. Len(tail)
    BY <1>1, <1>2, <1>3
  <2>2. tail[1] = "error"
    BY <1>4, EndTailFrames
  <2>3. chunks[m + n + 1] = "error"
    BY <1>3, <2>1, <2>2
  <2>4. QED
    BY <1>4, <2>1, <2>3 DEF Contains
<1>5. CASE tail = <<"end">>
  <2>1. Len(tail) = 1 /\ tail[1] = "end"
    BY <1>5
  <2>2. ASSUME NEW i \in 1 .. Len(chunks) PROVE chunks[i] # "error"
    <3>1. CASE i <= m
      BY <1>1, <1>3, <3>1
    <3>2. CASE m < i /\ i <= m + n
      <4>1. i - m \in 1 .. n /\ m + (i - m) = i
        BY <1>1, <3>2
      <4>2. QED
        BY <1>3, <4>1
    <3>3. CASE m + n < i
      <4>1. i = m + n + 1 /\ 1 \in 1 .. Len(tail)
        BY <1>1, <1>3, <2>1, <3>3
      <4>2. QED
        BY <1>3, <2>1, <4>1
    <3>4. QED
      BY <1>1, <1>3, <2>1, <3>1, <3>2, <3>3
  <2>3. QED
    BY <1>5, <2>2 DEF Contains
<1>6. QED
  BY <1>4, <1>5

\* A client can tell a stream that was cut short from a whole one.
THEOREM CutsAreTold == Spec => []CutIsTold
<1>1. StreamInv => CutIsTold
  <2> SUFFICES ASSUME StreamInv, Answered
               PROVE  /\ Count("data") \in {yielded, yielded - 1}
                      /\ dropped => Contains(chunks, "error")
                      /\ ~dropped => Count("data") = yielded
    BY DEF CutIsTold
  <2>1. PICK n \in Kept, tail \in EndTails :
            /\ Buffer(n, tail)
            /\ ~dropped => n = yielded
            /\ dropped => tail # <<"end">>
    BY AnswerTail
  <2>2. n \in Nat /\ n \in {yielded, yielded - 1}
    BY KeptNat DEF StreamInv, Kept
  <2>3. QED
    BY <2>1, <2>2, DataCount, ErrorIsThere
<1>2. QED
  BY <1>1, StreamInvariant, PTL

\* A handler's state stays within its types, and the byte count within the limit, but
\* for a metadata frame that exceeds it alone and ends the response (runs_stream,
\* handle_stream).
THEOREM TypeCorrect == Spec => []TypeOK
<1>1. StreamInv => TypeOK
  BY DEF StreamInv
<1>2. QED
  BY <1>1, StreamInvariant, PTL

\* A thread is left idle exactly when its client was given the whole stream, for
\* every buffer limit and every point where the graph fails (runs_stream).
THEOREM StatusIsTold == Spec => []StatusMatchesStream
<1>1. StreamInv => StatusMatchesStream
  <2> SUFFICES ASSUME StreamInv, Answered, route = "thread"
               PROVE  lock = IF Contains(chunks, "error") THEN "error" ELSE "idle"
    BY DEF StatusMatchesStream
  <2>1. AnsweredShape /\ ~Native
    BY DEF StreamInv, Shape, Native
  <2>2. yielded \in Nat /\ Kept \subseteq Nat
    BY KeptNat DEF StreamInv
  <2>3. CASE lock = "idle" /\ Buffer(yielded, <<"end">>)
    <3>1. <<"end">> \in EndTails
      BY DEF EndTails
    <3>2. ~Contains(chunks, "error")
      BY <2>2, <2>3, <3>1, ErrorIsThere, Zenon
    <3>3. QED
      BY <2>3, <3>2
  <2>4. ASSUME lock = "error",
               NEW n \in Kept,
               NEW tail \in {<<"error", "end">>, <<"error", "end", "error", "end">>},
               Buffer(n, tail)
        PROVE  lock = IF Contains(chunks, "error") THEN "error" ELSE "idle"
    <3>1. tail \in EndTails /\ tail # <<"end">> /\ n \in Nat
      BY <2>2 DEF EndTails
    <3>2. Contains(chunks, "error")
      BY <2>4, <3>1, ErrorIsThere, Zenon
    <3>3. QED
      BY <2>4, <3>2
  <2>5. QED
    BY <2>1, <2>3, <2>4 DEF AnsweredShape
<1>2. QED
  BY <1>1, StreamInvariant, PTL

\* A platform stream is well formed, but for the one failure that is told twice
\* (platform/_sse.py, platform/_runs.py).
THEOREM PlatformStreams == Spec => []PlatformFrames
<1>1. StreamInv => PlatformFrames
  <2> SUFFICES ASSUME StreamInv, Answered, Platform
               PROVE  \/ WellFormed(chunks)
                      \/ /\ lock = "error"
                         /\ \E n \in 0 .. yielded :
                              chunks = <<"metadata">> \o Repeated("data", n)
                                          \o <<"error", "end", "error", "end">>
    BY DEF PlatformFrames
  <2>1. AnsweredShape /\ ~Native /\ Opening = <<"metadata">>
    BY OneRoute DEF StreamInv, Shape, Opening
  <2>2. /\ yielded \in 0 .. yielded /\ yielded \in 0 .. MaxEvents
        /\ Kept \subseteq 0 .. yielded /\ Kept \subseteq 0 .. MaxEvents
    BY SizesAssumption DEF StreamInv, TypeOK, Kept
  <2>3. CASE Buffer(yielded, <<"end">>)
    BY <2>1, <2>2, <2>3 DEF Buffer, WellFormed
  <2>4. ASSUME NEW n \in Kept, Buffer(n, <<"error", "end">>)
        PROVE  WellFormed(chunks)
    BY <2>1, <2>2, <2>4 DEF Buffer, WellFormed
  <2>5. ASSUME route = "thread" => lock = "error", route = "thread",
               NEW n \in Kept, Buffer(n, <<"error", "end", "error", "end">>)
        PROVE  /\ lock = "error"
               /\ \E k \in 0 .. yielded :
                    chunks = <<"metadata">> \o Repeated("data", k)
                                \o <<"error", "end", "error", "end">>
    BY <2>1, <2>2, <2>5 DEF Buffer
  <2>6. QED
    BY <2>1, <2>3, <2>4, <2>5 DEF AnsweredShape
<1>2. QED
  BY <1>1, StreamInvariant, PTL

LEMMA LastOfBuffer ==
  ASSUME NEW n \in Nat, NEW tail \in Seq(Frames), Len(tail) > 0, Buffer(n, tail)
  PROVE  Last(chunks) = tail[Len(tail)]
<1>1. Len(tail) \in 1 .. Len(tail)
  OBVIOUS
<1>2. /\ Len(chunks) = Len(Opening) + n + Len(tail)
      /\ \A i \in 1 .. Len(tail) : chunks[Len(Opening) + n + i] = tail[i]
  BY BufferFrames
<1>3. chunks[Len(Opening) + n + Len(tail)] = tail[Len(tail)]
  BY <1>1, <1>2
<1>4. QED
  BY <1>2, <1>3 DEF Last

\* A native stream that lacks its end frame has no room for one, whatever the sizes
\* and the limit (_handlers.py handle_stream).
THEOREM NativeStreams == Spec => []NativeFrames
<1>1. StreamInv => NativeFrames
  <2> SUFFICES ASSUME StreamInv, Answered, Native
               PROVE  \E n \in 0 .. yielded, tail \in {<<>>, <<"error">>} :
                         /\ chunks = Repeated("data", n) \o tail \o <<Last(chunks)>>
                         /\ Last(chunks) \in {"error", "end"}
                         /\ Last(chunks) = "error" => buffered + EndSize > maxBytes
    BY DEF NativeFrames
  <2>1. AnsweredShape /\ ~Platform /\ Opening = <<>>
    BY OneRoute DEF StreamInv, Shape, Opening
  <2>2. /\ yielded \in 0 .. yielded /\ yielded \in Nat
        /\ Kept \subseteq 0 .. yielded /\ Kept \subseteq Nat
    BY SizesAssumption DEF StreamInv, TypeOK, Kept
  <2>3. PICK last \in {"error", "end"} :
            /\ last = "error" => buffered + EndSize > maxBytes
            /\ \/ ~dropped /\ Buffer(yielded, <<last>>)
               \/ dropped /\ \E n \in Kept : Buffer(n, <<"error", last>>)
    BY <2>1 DEF AnsweredShape
  <2>4. last \in Frames /\ "error" \in Frames
    BY DEF Frames
  <2>5. /\ <<last>> \in Seq(Frames) /\ <<"error">> \in Seq(Frames)
        /\ <<"error", last>> \in Seq(Frames)
    BY <2>4, FrameSeqs, Zenon
  <2>6. CASE Buffer(yielded, <<last>>)
    <3> DEFINE r == Repeated("data", yielded)
    <3>1. r \in Seq(Frames)
      BY <2>2, RepeatedSeq
    <3>2. chunks = <<>> \o r \o <<last>>
      BY <2>1, <2>6 DEF Buffer
    <3> HIDE DEF r
    <3>3. <<>> \o r = r /\ r \o <<>> = r
      BY <3>1, ConcatNothing, Zenon
    <3>4. chunks = r \o <<>> \o <<last>>
      BY <3>2, <3>3, Zenon
    <3>5. Last(chunks) = last
      <4>1. Len(<<last>>) > 0 /\ <<last>>[Len(<<last>>)] = last
        OBVIOUS
      <4>2. Last(chunks) = <<last>>[Len(<<last>>)]
        BY <2>2, <2>5, <2>6, <4>1, LastOfBuffer, Zenon
      <4>3. QED
        BY <4>1, <4>2, Zenon
    <3>6. QED
      BY <2>2, <2>3, <3>4, <3>5 DEF r
  <2>7. ASSUME NEW n \in Kept, Buffer(n, <<"error", last>>)
        PROVE  /\ Last(chunks) = last
               /\ n \in 0 .. yielded
               /\ chunks = Repeated("data", n) \o <<"error">> \o <<last>>
    <3> DEFINE r == Repeated("data", n)
    <3>0. n \in Nat /\ n \in 0 .. yielded
      BY <2>2
    <3>1. r \in Seq(Frames)
      BY <3>0, RepeatedSeq
    <3>2. chunks = <<>> \o r \o <<"error", last>>
      BY <2>1, <2>7 DEF Buffer
    <3> HIDE DEF r
    <3>3. <<>> \o r = r
      BY <3>1, ConcatNothing, Zenon
    <3>4. <<"error">> \o <<last>> = <<"error", last>>
      BY <2>4, Tails, Zenon
    <3>5. (r \o <<"error">>) \o <<last>> = r \o (<<"error">> \o <<last>>)
      BY <2>5, <3>1, Associative, Zenon
    <3>6. chunks = r \o <<"error">> \o <<last>>
      BY <3>2, <3>3, <3>4, <3>5, Zenon
    <3>7. Last(chunks) = last
      <4>1. Len(<<"error", last>>) > 0 /\ <<"error", last>>[Len(<<"error", last>>)] = last
        OBVIOUS
      <4>2. Last(chunks) = <<"error", last>>[Len(<<"error", last>>)]
        BY <2>5, <2>7, <3>0, <4>1, LastOfBuffer, Zenon
      <4>3. QED
        BY <4>1, <4>2, Zenon
    <3>8. QED
      BY <3>0, <3>6, <3>7 DEF r
  <2>8. QED
    BY <2>3, <2>6, <2>7
<1>2. QED
  BY <1>1, StreamInvariant, PTL

=============================================================================
