---------------------------- MODULE GrpcWebStub ----------------------------
(***************************************************************************)
(* One call of the grpc-web stub (transport/grpcweb.py, GrpcWebStub, over  *)
(* transport/framing.py): the server frames a response, the network cuts   *)
(* it into chunks anywhere, drops its tail or fails, and the stub takes    *)
(* whole frames off its buffer and decides how the call ends.  That end is *)
(* the only thing PySpark's recovery sees: a stream that stops is          *)
(* reattached, UNAVAILABLE is retried, any other exception reaches the     *)
(* user.                                                                   *)
(*                                                                         *)
(* A byte is its offset in the response body, and the stub's buffer is the *)
(* offsets consumed + 1 .. arrived.  A frame is known by the offset of its *)
(* last byte; of its payload only the kind and the grpc-status count.      *)
(***************************************************************************)
EXTENDS Naturals, Sequences

CONSTANTS
  MaxFrames,   \* bound: frames of one response
  MaxPayload   \* bound: bytes of one payload

ASSUME FrameBounds == MaxFrames \in Nat /\ MaxPayload \in Nat

VARIABLES
  method,    \* "unary" (client streaming is lowered to it) or "stream"
  frames,    \* the frames the server has sent
  header,    \* grpc-status among the HTTP headers, with or without a body
  arrived,   \* bytes of the body the channel has handed to the stub
  consumed,  \* bytes taken off the front of the buffer
  messages,  \* the frames whose payload the caller was given, in order
  trailer,   \* grpc-status of the last trailer frame taken
  result     \* how the call ended

server == <<frames, header>>
stub   == <<arrived, consumed, messages, trailer, result>>
vars   == <<method, server, stub>>

HEADER_LEN == 5

\* "none": no trailer; "missing": a trailer without grpc-status.
Status == {"none", "missing", "ok", "error"}

Frame == [kind : {"message", "compressed", "trailer"}, status : Status, end : Nat]

Results == {"running",
            "ok",               \* unary: the response is returned
            "stop",             \* stream: StopIteration
            "grpc_error",       \* SparkConnectGrpcException
            "unavailable",      \* a retryable grpc.RpcError
            "value_error",      \* iter_frames met a partial frame
            "transport_error",  \* the channel's TransportError, as it is
            "closed"}           \* the caller dropped the stream

Init ==
  /\ method \in {"unary", "stream"}
  /\ frames = <<>> /\ header = "none"
  /\ arrived = 0 /\ consumed = 0 /\ messages = <<>>
  /\ trailer = "none" /\ result = "running"

-----------------------------------------------------------------------------
(* The server and its proxy.                                               *)

End(i) == IF i = 0 THEN 0 ELSE frames[i].end
Sent == End(Len(frames))
HasTrailer == frames # <<>> /\ frames[Len(frames)].kind = "trailer"

SendFrame(k, st, len) ==
  /\ result = "running" /\ ~HasTrailer /\ Len(frames) < MaxFrames
  /\ (k = "trailer") <=> (st # "none")
  /\ frames' = Append(frames, [kind |-> k, status |-> st, end |-> Sent + HEADER_LEN + len])
  /\ UNCHANGED <<method, header, stub>>

\* Some servers and proxies put the status into the HTTP headers, which come
\* before the body, if there is one, and before its trailer, if it has one.
SendHeader(st) ==
  /\ result = "running" /\ frames = <<>> /\ header = "none"
  /\ header' = st
  /\ UNCHANGED <<method, frames, stub>>

-----------------------------------------------------------------------------
(* The stub.                                                               *)

\* MUTANT of Front: a frame that ends with the buffer is taken for a partial one.
FrontBeforeEnd(i) ==
  /\ consumed = End(i - 1)
  /\ arrived - consumed >= HEADER_LEN
  /\ frames[i].end < arrived

\* _take_frame: frame i, header and body, is at the front of the buffer.
Front(i) ==
  /\ consumed = End(i - 1)
  /\ arrived - consumed >= HEADER_LEN
  /\ frames[i].end <= arrived

Partial == \A i \in 1 .. Len(frames) : ~Front(i)

Streaming == method = "stream" /\ result = "running"

\* The channel hands over the next bytes; a stream has drained its buffer first.
NextChunk(n) ==
  /\ result = "running"
  /\ method = "stream" => Partial
  /\ arrived + n <= Sent
  /\ arrived' = arrived + n
  /\ UNCHANGED <<method, server, consumed, messages, trailer, result>>

TakeMessage(i) ==
  /\ Streaming /\ Front(i) /\ frames[i].kind = "message"
  /\ consumed' = frames[i].end
  /\ messages' = Append(messages, i)
  /\ UNCHANGED <<method, server, arrived, trailer, result>>

TakeTrailer(i) ==
  /\ Streaming /\ Front(i) /\ frames[i].kind = "trailer"
  /\ consumed' = frames[i].end
  /\ trailer' = frames[i].status
  /\ UNCHANGED <<method, server, arrived, messages, result>>

RejectCompressed(i) ==
  /\ Streaming /\ Front(i) /\ frames[i].kind = "compressed"
  /\ consumed' = frames[i].end
  /\ result' = "grpc_error"
  /\ UNCHANGED <<method, server, arrived, messages, trailer>>

\* MUTANT of StreamResult: the status of the trailer is not looked at.
StopAnyway(st) == "stop"

\* No trailer: the stream broke, and stops so that PySpark reattaches.
StreamResult(st) == IF st \in {"none", "ok"} THEN "stop" ELSE "grpc_error"

\* The channel's iterator ends, at the end of the body or before it.
StreamEnds ==
  /\ Streaming /\ Partial
  /\ result' = StreamResult(trailer)
  /\ UNCHANGED <<method, server, arrived, consumed, messages, trailer>>

\* The channel raises TransportError.
StreamFails ==
  /\ Streaming /\ Partial
  /\ result' = "unavailable"
  /\ UNCHANGED <<method, server, arrived, consumed, messages, trailer>>

\* PySpark drops the generator, which is suspended at a yield.
Close ==
  /\ Streaming /\ messages # <<>>
  /\ result' = "closed"
  /\ UNCHANGED <<method, server, arrived, consumed, messages, trailer>>

Whole(i) == frames[i].end <= arrived
WholeOf(k) == {i \in 1 .. Len(frames) : Whole(i) /\ frames[i].kind = k}
CutMidFrame == arrived > 0 /\ \A i \in 1 .. Len(frames) : frames[i].end # arrived

\* MUTANT of UnaryStatus: no trailer and no header is taken for OK.
MissingIsOk ==
  IF WholeOf("trailer") # {} THEN frames[Len(frames)].status
  ELSE IF header = "none" THEN "ok" ELSE header

\* The trailer frame, else the HTTP headers.
UnaryStatus ==
  IF WholeOf("trailer") # {} THEN frames[Len(frames)].status ELSE header

\* _decode_body and _raise_for_trailers, on the body as it arrived.
UnaryReturns ==
  /\ method = "unary" /\ result = "running"
  /\ \/ /\ WholeOf("compressed") # {} /\ result' = "grpc_error"
        /\ UNCHANGED messages
     \/ /\ WholeOf("compressed") = {} /\ CutMidFrame /\ result' = "value_error"
        /\ UNCHANGED messages
     \/ /\ WholeOf("compressed") = {} /\ ~CutMidFrame
        /\ UnaryStatus # "ok" \/ WholeOf("message") = {}
        /\ result' = "grpc_error" /\ UNCHANGED messages
     \/ /\ WholeOf("compressed") = {} /\ ~CutMidFrame
        /\ UnaryStatus = "ok" /\ WholeOf("message") # {}
        /\ result' = "ok" /\ messages' = <<1>>
  /\ UNCHANGED <<method, server, arrived, consumed, trailer>>

UnaryFails ==
  /\ method = "unary" /\ result = "running"
  /\ result' = "transport_error"
  /\ UNCHANGED <<method, server, arrived, consumed, messages, trailer>>

Next ==
  \/ \E k \in {"message", "compressed", "trailer"}, st \in Status, len \in 0 .. MaxPayload :
       SendFrame(k, st, len)
  \/ \E st \in {"ok", "error"} : SendHeader(st)
  \/ \E n \in 1 .. MaxFrames * (HEADER_LEN + MaxPayload) : NextChunk(n)
  \/ \E i \in 1 .. Len(frames) : TakeMessage(i) \/ TakeTrailer(i) \/ RejectCompressed(i)
  \/ StreamEnds \/ StreamFails \/ Close
  \/ UnaryReturns \/ UnaryFails

Spec == Init /\ [][Next]_vars
-----------------------------------------------------------------------------
\* Every variable has its type, and the buffer lies within the body.
TypeOK ==
  /\ method \in {"unary", "stream"}
  /\ frames \in Seq(Frame) /\ Len(frames) <= MaxFrames
  /\ header \in Status
  /\ arrived \in Nat /\ consumed \in Nat
  /\ consumed <= arrived /\ arrived <= Sent
  /\ messages \in Seq(1 .. MaxFrames)
  /\ trailer \in Status
  /\ result \in Results

\* However the body was cut into chunks, a stream has given its caller exactly
\* the messages that arrived whole before the first compressed frame, each
\* once and in order, and ends as those bytes say: with an error for a
\* compressed frame or a bad trailer, and with a stop for no trailer or an OK
\* one (_stream_responses, _take_frame).
Ended == method = "stream" /\ result \in {"stop", "grpc_error", "unavailable"}
Readable == {i \in WholeOf("message") : \A j \in WholeOf("compressed") : i < j}
BadTrailers == {i \in WholeOf("trailer") : frames[i].status # "ok"}

ChunkingIrrelevant == Ended =>
  /\ messages = [i \in 1 .. Len(messages) |-> i]
  /\ 1 .. Len(messages) = Readable
  /\ result = "stop"        => WholeOf("compressed") = {} /\ BadTrailers = {}
  /\ result = "unavailable" => WholeOf("compressed") = {}
  /\ result = "grpc_error"  => WholeOf("compressed") # {} \/ BadTrailers # {}

\* A stop tells PySpark that the stream is over: after a trailer the caller has
\* the whole response and the server said it was OK; without one no whole
\* response with a trailer has arrived, so that, where servers end a response
\* with a trailer, it was cut and reattaching is right (_stream_responses,
\* grpcweb.py:380-398).  A server that ends it with no more than a status in
\* the headers looks the same: a stream ignores them.
StopIsJustified == method = "stream" /\ result = "stop" =>
  IF trailer = "none"
  THEN ~(HasTrailer /\ arrived = Sent)
  ELSE /\ HasTrailer /\ arrived = Sent /\ frames[Len(frames)].status = "ok"
       /\ Len(messages) = Len(frames) - 1

\* A unary call returns the first message, whole and uncompressed, of a body
\* that is not cut inside a frame, and only on the word of the server: the
\* trailer that ends a body that is whole, or, if no trailer arrived, an OK in
\* the headers.  So a truncated response without a status in its headers is
\* never returned, and a trailer that arrived is never overruled by the headers
\* (_call_unary, _call_client_stream, _decode_body).
ReturnIsJustified == method = "unary" /\ result = "ok" =>
  /\ messages = <<1>> /\ frames[1].kind = "message" /\ Whole(1)
  /\ \E i \in 1 .. Len(frames) : frames[i].end = arrived
  /\ IF HasTrailer /\ arrived = Sent THEN frames[Len(frames)].status = "ok"
     ELSE header = "ok"
=============================================================================
