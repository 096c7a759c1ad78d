------------------------------ MODULE SseStream ------------------------------
(***************************************************************************)
(* The buffered event streams: POST threads/{id}/runs/stream and           *)
(* POST runs/stream (platform/_runs.py, platform/_sse.py) and the native   *)
(* POST graphs/{name}/stream (_handlers.py).  A handler collects the frames *)
(* of one response until the graph ends, raises or overflows the buffer.   *)
(* Frames are known by their kind, and their sizes in bytes are numbers.   *)
(***************************************************************************)
EXTENDS InputValidation, FiniteSets

CONSTANTS
    Sizes,          \* sizes of the data frames a graph may yield
    MaxEvents,      \* bound: how many events a graph yields
    Limits,         \* values of max_stream_response_bytes
    MetadataSize,   \* of the frames, in bytes
    ErrorSize,      \* "stream processing failed"
    EndSize

ASSUME SizesAssumption ==
    /\ Sizes \subseteq Nat \ {0}
    /\ {MetadataSize, ErrorSize, EndSize} \subseteq Nat \ {0}
    /\ MaxEvents \in Nat /\ Limits \subseteq Nat

VARIABLES
    route,          \* which of the three routes is called
    maxBytes,       \* max_stream_response_bytes, configured once
    pc,             \* where its handler is
    body,           \* "input" and "config" of the request, until they are checked
    chunks,         \* the frames collected
    buffered,       \* buffered_bytes
    lock,           \* status of the thread: "busy" until it is released
    yielded,        \* how many events the graph yielded
    dropped         \* did an event not make it into the buffer?

vars == <<route, maxBytes, pc, body, chunks, buffered, lock, yielded, dropped>>

Routes == {"thread", "threadless", "native"}

Frames == {"metadata", "data", "error", "end"}

\* The metadata frame was too large: it was in the buffer, and counted, by then.
Refused ==
    /\ pc \in {"refused", "answered", "crashed"}
    /\ buffered = MetadataSize /\ chunks = <<"metadata", "error", "end">>

\* What was counted is within the limit, but for a metadata frame that is refused.
TypeOK ==
    /\ route \in Routes
    /\ maxBytes \in Limits
    /\ pc \in {"received", "rejected", "begin", "refused", "stream", "overflow", "failed",
              "ended", "answered", "crashed"}
    /\ body \in [input : Values \union {Scalar}, config : Values \union {Scalar}]
    /\ chunks \in Seq(Frames)
    /\ buffered \in Nat /\ (buffered <= maxBytes \/ Refused)
    /\ lock \in {"none", "busy", "idle", "error"}
    /\ yielded \in 0 .. MaxEvents
    /\ dropped \in BOOLEAN

Init ==
    /\ route \in Routes
    /\ maxBytes \in Limits
    /\ pc = "received"
    /\ body \in [input : Values, config : Values]
    /\ chunks = <<>>
    /\ buffered = 0
    /\ lock = "none"
    /\ yielded = 0
    /\ dropped = FALSE

-----------------------------------------------------------------------------
(* The checks of the request.  The run lock of a thread is acquired after  *)
(* them; requests refused for another reason are left out.                 *)

Accepted == ErrorOf(body.input) = "none" /\ ErrorOf(body.config) = "none"

Accept ==
    /\ pc = "received"
    /\ Accepted
    /\ pc' = "begin"
    /\ lock' = IF route = "thread" THEN "busy" ELSE "none"
    /\ body' = [input |-> Scalar, config |-> Scalar]
    /\ UNCHANGED <<route, maxBytes, chunks, buffered, yielded, dropped>>

Reject ==
    /\ pc = "received"
    /\ ~Accepted
    /\ pc' = "rejected"
    /\ body' = [input |-> Scalar, config |-> Scalar]
    /\ UNCHANGED <<route, maxBytes, chunks, buffered, lock, yielded, dropped>>

-----------------------------------------------------------------------------
(* The platform routes.                                                    *)

Platform == route \in {"thread", "threadless"}

\* The metadata frame is in the buffer and counted before its size is compared.
PlatformBegins ==
    /\ Platform
    /\ pc = "begin"
    /\ buffered' = MetadataSize
    /\ IF MetadataSize > maxBytes
       THEN chunks' = <<"metadata", "error", "end">> /\ pc' = "refused"
       ELSE chunks' = <<"metadata">> /\ pc' = "stream"
    /\ UNCHANGED <<route, maxBytes, body, lock, yielded, dropped>>

\* Faulty: the size of the frame itself is not counted.
FitsBefore(size) == buffered <= maxBytes

\* The frame may fill the buffer to the last byte.
Fits(size) == buffered + size <= maxBytes

\* Faulty: the stream is left without an end.
PlatformNoEnd == <<"error">>

\* What an overflow puts in place of the frame; neither is counted.
PlatformOverflow == <<"error", "end">>

PlatformEvent ==
    /\ Platform
    /\ pc = "stream"
    /\ yielded < MaxEvents
    /\ yielded' = yielded + 1
    /\ \E size \in Sizes :
         IF Fits(size)
         THEN /\ chunks' = Append(chunks, "data")
              /\ buffered' = buffered + size
              /\ UNCHANGED <<pc, dropped>>
         ELSE /\ chunks' = chunks \o PlatformOverflow
              /\ pc' = "overflow"
              /\ dropped' = TRUE
              /\ UNCHANGED buffered
    /\ UNCHANGED <<route, maxBytes, body, lock>>

\* The graph raises, or an event is one that json.dumps refuses.
PlatformRaises ==
    /\ Platform
    /\ pc = "stream"
    /\ pc' = "failed"
    /\ dropped' = TRUE
    /\ UNCHANGED <<route, maxBytes, body, chunks, buffered, lock, yielded>>

PlatformEnds ==
    /\ Platform
    /\ pc = "stream"
    /\ chunks' = Append(chunks, "end")
    /\ pc' = "ended"
    /\ UNCHANGED <<route, maxBytes, body, buffered, lock, yielded, dropped>>

\* Faulty: a response that overflowed is taken for a complete one.
StatusUnlessFailed(end) == IF end = "failed" THEN "error" ELSE "idle"

\* The status a thread is released to.
StatusOf(end) == IF end = "ended" THEN "idle" ELSE "error"

\* The lock is released and the answer sent.  A failed stream releases first
\* and then appends its last frames.
PlatformAnswers ==
    /\ Platform
    /\ pc \in {"refused", "overflow", "failed", "ended"}
    /\ lock' = IF route = "thread" THEN StatusOf(pc) ELSE lock
    /\ chunks' = IF pc = "failed" THEN chunks \o <<"error", "end">> ELSE chunks
    /\ pc' = "answered"
    /\ UNCHANGED <<route, maxBytes, body, buffered, yielded, dropped>>

\* release_run_lock raises something else than KeyError.  The release after an
\* overflow is inside the try block: it goes on as a failed stream.
ReleaseRaises ==
    /\ route = "thread"
    /\ pc \in {"refused", "overflow", "failed", "ended"}
    /\ pc' = IF pc = "overflow" THEN "failed" ELSE "crashed"
    /\ UNCHANGED <<route, maxBytes, body, chunks, buffered, lock, yielded, dropped>>

-----------------------------------------------------------------------------
(* The native route: every frame goes through _append_chunk.               *)

Native == route = "native"

\* Faulty: a frame that does not fit is dropped without a word.
AppendChunkSilently(kind, size) ==
    IF Fits(size)
    THEN /\ chunks' = Append(chunks, kind)
         /\ buffered' = buffered + size
    ELSE UNCHANGED <<chunks, buffered>>

\* An error frame takes the place of a frame that does not fit.
AppendChunk(kind, size) ==
    IF Fits(size)
    THEN /\ chunks' = Append(chunks, kind)
         /\ buffered' = buffered + size
    ELSE /\ chunks' = Append(chunks, "error")
         /\ UNCHANGED buffered

NativeBegins ==
    /\ Native
    /\ pc = "begin"
    /\ pc' = "stream"
    /\ UNCHANGED <<route, maxBytes, body, chunks, buffered, lock, yielded, dropped>>

\* Faulty: the loop goes on after an event that did not fit.
NativeEventGoesOn ==
    /\ Native
    /\ pc = "stream"
    /\ yielded < MaxEvents
    /\ yielded' = yielded + 1
    /\ \E size \in Sizes :
         /\ AppendChunk("data", size)
         /\ dropped' = (dropped \/ ~Fits(size))
    /\ UNCHANGED <<route, maxBytes, body, pc, lock>>

NativeEvent ==
    /\ Native
    /\ pc = "stream"
    /\ yielded < MaxEvents
    /\ yielded' = yielded + 1
    /\ \E size \in Sizes :
         /\ AppendChunk("data", size)
         /\ IF Fits(size) THEN UNCHANGED <<pc, dropped>>
            ELSE pc' = "ended" /\ dropped' = TRUE
    /\ UNCHANGED <<route, maxBytes, body, lock>>

NativeRaises ==
    /\ Native
    /\ pc = "stream"
    /\ AppendChunk("error", ErrorSize)
    /\ pc' = "ended"
    /\ dropped' = TRUE
    /\ UNCHANGED <<route, maxBytes, body, lock, yielded>>

NativeEnds ==
    /\ Native
    /\ pc = "stream"
    /\ pc' = "ended"
    /\ UNCHANGED <<route, maxBytes, body, chunks, buffered, lock, yielded, dropped>>

NativeAnswers ==
    /\ Native
    /\ pc = "ended"
    /\ AppendChunk("end", EndSize)
    /\ pc' = "answered"
    /\ UNCHANGED <<route, maxBytes, body, lock, yielded, dropped>>

-----------------------------------------------------------------------------

Next ==
    \/ Accept \/ Reject
    \/ PlatformBegins \/ PlatformEvent \/ PlatformRaises \/ PlatformEnds
    \/ PlatformAnswers \/ ReleaseRaises
    \/ NativeBegins \/ NativeEvent \/ NativeRaises \/ NativeEnds \/ NativeAnswers

Spec == Init /\ [][Next]_vars

-----------------------------------------------------------------------------
(* Correctness.                                                            *)

\* What passes the checks is within both limits, and what is within them passes
\* (validate_input_structure, for "input" and "config"): the one walk that counts as
\* it goes and stops early refuses the same values as counting all of them.
LimitsDecide ==
    [][pc = "received" =>
         (pc' = "begin" <=> Within(body.input) /\ Within(body.config))]_vars

Answered == pc = "answered"

Count(kind) == Cardinality({i \in DOMAIN chunks : chunks[i] = kind})

\* A client can tell a stream that was cut short, by the graph or by the buffer,
\* from a whole one: the data frames of an answer are those the graph yielded, but
\* for the one that did not fit, and if one lacks there is an error frame (all
\* three routes).
CutIsTold ==
    Answered =>
       /\ Count("data") \in {yielded, yielded - 1}
       /\ dropped => Contains(chunks, "error")
       /\ ~dropped => Count("data") = yielded

\* A thread is left idle only if its client was given the whole stream, and in
\* error only if the client was told of an error (runs_stream).
StatusMatchesStream ==
    Answered /\ route = "thread" =>
       lock = IF Contains(chunks, "error") THEN "error" ELSE "idle"

Repeated(kind, n) == [i \in 1 .. n |-> kind]

\* One metadata frame, then data, then at most one error, then one end frame.
WellFormed(frames) ==
    \E n \in 0 .. MaxEvents, tail \in {<<"end">>, <<"error", "end">>} :
       frames = <<"metadata">> \o Repeated("data", n) \o tail

\* A platform stream is well formed (platform/_sse.py: "always first", "always
\* last"), but for one that overflowed and whose release failed: it says twice
\* that it failed and ended.
PlatformFrames ==
    Answered /\ Platform =>
       \/ WellFormed(chunks)
       \/ /\ lock = "error"
          /\ \E n \in 0 .. yielded :
               chunks = <<"metadata">> \o Repeated("data", n)
                           \o <<"error", "end", "error", "end">>

\* A native stream is data, then at most one error, then an end frame, if the
\* buffer has room for the end frame: if not, an error frame takes its place
\* (handle_stream; docs/architecture.md always shows the end frame).
NativeFrames ==
    Answered /\ Native =>
       \E n \in 0 .. yielded, tail \in {<<>>, <<"error">>} :
          /\ chunks = Repeated("data", n) \o tail \o <<Last(chunks)>>
          /\ Last(chunks) \in {"error", "end"}
          /\ Last(chunks) = "error" => buffered + EndSize > maxBytes

-----------------------------------------------------------------------------
(* The inductive invariant: what the buffer holds wherever a handler is.   *)

Opening == IF Platform THEN <<"metadata">> ELSE <<>>

Buffer(n, tail) == chunks = Opening \o Repeated("data", n) \o tail

\* How many data frames there are when an event may lack.
Kept == {n \in {yielded - 1, yielded} : n >= 0}

AnsweredShape ==
    \/ /\ Platform /\ ~dropped
       /\ route = "thread" => lock = "idle"
       /\ Buffer(yielded, <<"end">>)
    \/ /\ Platform
       /\ route = "thread" => lock = "error"
       /\ \E n \in Kept :
            /\ ~dropped => n = yielded
            /\ \/ Buffer(n, <<"error", "end">>)
               \/ route = "thread" /\ Buffer(n, <<"error", "end", "error", "end">>)
    \/ /\ Native
       /\ \E last \in {"error", "end"} :
            /\ last = "error" => buffered + EndSize > maxBytes
            /\ \/ ~dropped /\ Buffer(yielded, <<last>>)
               \/ dropped /\ \E n \in Kept : Buffer(n, <<"error", last>>)

Shape ==
    /\ pc \in {"received", "begin"} => chunks = <<>> /\ yielded = 0 /\ ~dropped
    /\ pc = "stream" => Buffer(yielded, <<>>) /\ ~dropped
    /\ pc = "refused" =>
         Platform /\ ~dropped /\ yielded = 0 /\ Buffer(0, <<"error", "end">>)
    /\ pc = "overflow" =>
         Platform /\ dropped /\ \E n \in Kept : Buffer(n, <<"error", "end">>)
    /\ pc = "failed" =>
         /\ Platform /\ dropped
         /\ \/ Buffer(yielded, <<>>)
            \/ route = "thread" /\ \E n \in Kept : Buffer(n, <<"error", "end">>)
    /\ pc = "ended" /\ Platform => ~dropped /\ Buffer(yielded, <<"end">>)
    /\ pc = "ended" /\ Native =>
         \/ ~dropped /\ Buffer(yielded, <<>>)
         \/ dropped /\ \E n \in Kept : Buffer(n, <<"error">>)
    /\ Answered => AnsweredShape

StreamInv == TypeOK /\ Shape

=============================================================================
