-------------------------- MODULE GrpcWebStubProofs --------------------------
(***************************************************************************)
(* For responses of any number of frames of any size, cut into chunks      *)
(* anywhere: the stub keeps its types, gives a stream exactly the messages *)
(* that arrived whole, stops only where a stop is right, and returns from  *)
(* a unary call only on the word of the server.                            *)
(*                                                                         *)
(* The argument is that the stub stays aligned to frames: while a stream   *)
(* runs, what was consumed ends with some frame k (Taken), and since ends  *)
(* of frames grow (Framed), the frames that have arrived whole are 1 .. k  *)
(* as soon as no whole frame is left in the buffer.                        *)
(***************************************************************************)
EXTENDS GrpcWebStub, TLAPS

F == Len(frames)

Types ==
  /\ method \in {"unary", "stream"} /\ header \in Status /\ trailer \in Status /\ result \in Results
  /\ frames \in Seq(Frame) /\ F <= MaxFrames
  /\ arrived \in Nat /\ consumed \in Nat /\ consumed <= arrived /\ arrived <= Sent
  /\ messages \in Seq(1 .. MaxFrames)

\* Frames follow each other, and a trailer ends them.
Framed ==
  /\ \A i \in 1 .. F : /\ frames[i].end >= HEADER_LEN
                       /\ frames[i].kind = "trailer" => i = F
                       /\ frames[i].kind = "trailer" <=> frames[i].status # "none"
  /\ \A i, j \in 1 .. F : i < j => frames[i].end + HEADER_LEN <= frames[j].end

\* A running stream has taken the frames 1 .. k.
Taken(k) ==
  /\ consumed = End(k)
  /\ \/ /\ trailer = "none" /\ messages = [i \in 1 .. k |-> i]
        /\ \A i \in 1 .. k : frames[i].kind = "message"
     \/ /\ k = F /\ k > 0 /\ frames[k].kind = "trailer" /\ trailer = frames[k].status
        /\ messages = [i \in 1 .. k - 1 |-> i]
        /\ \A i \in 1 .. k - 1 : frames[i].kind = "message"

Aligned == method = "stream" /\ result = "running" => \E k \in 0 .. F : Taken(k)

Ends == ChunkingIrrelevant /\ StopIsJustified /\ ReturnIsJustified

IInv == Types /\ Framed /\ Aligned /\ Ends

LEMMA InitInv == Init => IInv
<1> SUFFICES ASSUME Init PROVE IInv
  OBVIOUS
<1>1. Types
  BY FrameBounds DEF Init, Types, F, Status, Results, Sent, End
<1>2. Framed
  BY DEF Init, Framed, F
<1>3. Taken(0) /\ 0 \in 0 .. F
  BY DEF Init, Taken, End, F
<1>4. Ends
  BY DEF Init, Ends, ChunkingIrrelevant, StopIsJustified, ReturnIsJustified, Ended
<1> QED
  BY <1>1, <1>2, <1>3, <1>4 DEF IInv, Aligned

\* The ends of frames are numbers and grow.
LEMMA EndsGrow ==
  ASSUME Types, Framed
  PROVE  /\ F \in Nat
         /\ \A i \in 1 .. F : frames[i] \in Frame /\ frames[i].end \in Nat
         /\ \A k \in 0 .. F : End(k) \in Nat /\ End(k) <= Sent
         /\ \A k \in 0 .. F, i \in 1 .. F : i <= k => frames[i].end <= End(k)
         /\ \A k \in 0 .. F, i \in 1 .. F : i > k => End(k) + HEADER_LEN <= frames[i].end
<1>1. F \in Nat /\ \A i \in 1 .. F : frames[i] \in Frame /\ frames[i].end \in Nat
  <2>1. F \in Nat /\ \A i \in 1 .. F : frames[i] \in Frame
    BY DEF Types, F
  <2> QED
    BY <2>1 DEF Frame
<1>2. \A i, j \in 1 .. F : i < j => frames[i].end + HEADER_LEN <= frames[j].end
  BY DEF Framed
<1>3. \A i \in 1 .. F : frames[i].end >= HEADER_LEN
  BY DEF Framed
<1>4. \A i \in 1 .. F : End(i) = frames[i].end
  BY DEF End
<1>5. End(0) = 0
  BY DEF End
<1>6. ASSUME NEW k \in 0 .. F PROVE End(k) \in Nat
  BY <1>1, <1>4, <1>5
<1>7. ASSUME NEW k \in 0 .. F, NEW i \in 1 .. F, i <= k PROVE frames[i].end <= End(k)
  <2>1. k \in 1 .. F /\ (i = k \/ i < k)
    BY <1>1, <1>7
  <2> QED
    BY <1>1, <1>2, <1>4, <2>1 DEF HEADER_LEN
<1>8. ASSUME NEW k \in 0 .. F, NEW i \in 1 .. F, i > k PROVE End(k) + HEADER_LEN <= frames[i].end
  <2>1. CASE k = 0
    BY <2>1, <1>1, <1>3, <1>5 DEF HEADER_LEN
  <2>2. CASE k # 0
    BY <2>2, <1>2, <1>4, <1>8
  <2> QED
    BY <2>1, <2>2
<1>9. ASSUME NEW k \in 0 .. F PROVE End(k) <= Sent
  <2>1. CASE k = 0
    <3>1. Sent \in Nat /\ End(k) = 0
      BY <2>1, <1>1, <1>5, <1>6 DEF Sent, F
    <3> QED
      BY <3>1
  <2>2. CASE k # 0
    <3>1. k \in 1 .. F /\ F \in 0 .. F /\ k <= F
      BY <2>2, <1>1
    <3>2. frames[k].end <= End(F)
      BY <3>1, <1>7
    <3> QED
      BY <3>1, <3>2, <1>4 DEF Sent, F
  <2> QED
    BY <2>1, <2>2
<1> QED
  BY <1>1, <1>6, <1>7, <1>8, <1>9
-----------------------------------------------------------------------------
\* The frame at the front of the buffer follows the frames taken, and no
\* trailer was taken before it.
LEMMA FrontIsNext ==
  ASSUME Types, Framed, NEW k \in 0 .. F, Taken(k), NEW i \in 1 .. F, Front(i)
  PROVE  /\ i = k + 1 /\ trailer = "none" /\ messages = [j \in 1 .. k |-> j]
         /\ \A j \in 1 .. k : frames[j].kind = "message"
         /\ consumed = End(k) /\ frames[i].end <= arrived
<1>1. F \in Nat /\ k \in Nat /\ i \in Nat /\ i - 1 \in 0 .. F
  BY EndsGrow
<1>2. End(k) = End(i - 1) /\ consumed = End(k) /\ frames[i].end <= arrived
  BY DEF Taken, Front
<1>3. End(k) \in Nat /\ frames[i].end \in Nat
  BY EndsGrow
<1>4. i > k
  <2> SUFFICES ASSUME i <= k PROVE FALSE
    BY <1>1
  <2>1. i > i - 1
    BY <1>1
  <2>2. frames[i].end <= End(k) /\ End(i - 1) + HEADER_LEN <= frames[i].end
    BY <1>1, <2>1, EndsGrow
  <2> QED
    BY <2>2, <1>2, <1>3 DEF HEADER_LEN
<1>5. i <= k + 1
  <2> SUFFICES ASSUME k + 1 < i PROVE FALSE
    BY <1>1
  <2>1. k + 1 \in 1 .. F /\ k + 1 <= i - 1 /\ k + 1 > k
    BY <1>1
  <2>2. /\ frames[k + 1].end <= End(i - 1) /\ End(k) + HEADER_LEN <= frames[k + 1].end
        /\ frames[k + 1].end \in Nat
    BY <1>1, <2>1, EndsGrow
  <2> QED
    BY <2>2, <1>2, <1>3 DEF HEADER_LEN
<1>6. i = k + 1 /\ k # F
  BY <1>1, <1>4, <1>5
<1> QED
  BY <1>2, <1>6 DEF Taken

\* With no whole frame in the buffer, the whole frames are those taken.
LEMMA WholeIsTaken ==
  ASSUME Types, Framed, Partial, NEW k \in 0 .. F, Taken(k), NEW i \in 1 .. F
  PROVE  Whole(i) <=> i <= k
<1>1. F \in Nat /\ k \in Nat /\ i \in Nat /\ arrived \in Nat /\ consumed <= arrived
  BY EndsGrow DEF Types
<1>2. consumed = End(k) /\ End(k) \in Nat /\ frames[i].end \in Nat
  BY EndsGrow DEF Taken
<1>3. ASSUME i <= k PROVE Whole(i)
  <2>1. frames[i].end <= End(k)
    BY <1>3, EndsGrow
  <2> QED
    BY <2>1, <1>1, <1>2 DEF Whole
<1>4. ASSUME i > k, Whole(i) PROVE FALSE
  <2>1. k + 1 \in 1 .. F /\ k + 1 > k /\ (k + 1 = i \/ k + 1 < i)
    BY <1>1, <1>4
  <2>2. frames[k + 1].end \in Nat /\ End(k) + HEADER_LEN <= frames[k + 1].end
    BY <2>1, EndsGrow
  <2>3. frames[k + 1].end <= frames[i].end
    <3>1. CASE k + 1 = i
      BY <3>1, <1>2
    <3>2. CASE k + 1 < i
      <4>1. frames[k + 1].end + HEADER_LEN <= frames[i].end
        BY <3>2, <2>1 DEF Framed
      <4> QED
        BY <4>1, <2>2, <1>2 DEF HEADER_LEN
    <3> QED
      BY <2>1, <3>1, <3>2
  <2>4. frames[i].end <= arrived
    BY <1>4 DEF Whole
  <2>5. k + 1 - 1 = k
    BY <1>1
  <2>6. consumed = End(k + 1 - 1)
    BY <1>2, <2>5
  <2>7. arrived - consumed >= HEADER_LEN /\ frames[k + 1].end <= arrived
    BY <1>1, <1>2, <2>2, <2>3, <2>4 DEF HEADER_LEN
  <2>8. Front(k + 1)
    BY <2>6, <2>7 DEF Front
  <2> QED
    BY <2>1, <2>8 DEF Partial, F
<1> QED
  BY <1>1, <1>3, <1>4
-----------------------------------------------------------------------------
(* The server.                                                             *)

LEMMA SendFrameSafe ==
  ASSUME IInv, NEW k \in {"message", "compressed", "trailer"}, NEW st \in Status,
         NEW len \in 0 .. MaxPayload, SendFrame(k, st, len)
  PROVE  Types' /\ Framed' /\ Aligned'
<1> DEFINE f == [kind |-> k, status |-> st, end |-> Sent + HEADER_LEN + len]
<1>1. Types /\ Framed /\ Aligned /\ len \in Nat
  BY FrameBounds DEF IInv
<1>2. /\ frames' = Append(frames, f) /\ ~HasTrailer
      /\ UNCHANGED <<method, header, arrived, consumed, messages, trailer, result>>
      /\ F < MaxFrames /\ (k = "trailer" <=> st # "none")
  BY DEF SendFrame, stub, F
<1>3. F \in Nat /\ Sent \in Nat /\ frames \in Seq(Frame) /\ MaxFrames \in Nat
  BY <1>1, EndsGrow, FrameBounds DEF Types, Sent, F
<1>4. f.end \in Nat /\ f.end >= HEADER_LEN /\ f.end >= Sent + HEADER_LEN
  BY <1>1, <1>3 DEF HEADER_LEN
<1>5. f \in Frame
  BY <1>4 DEF Frame
<1>6. /\ frames' \in Seq(Frame) /\ F' = F + 1 /\ frames'[F + 1] = f
      /\ \A i \in 1 .. F : frames'[i] = frames[i]
  BY <1>2, <1>3, <1>5 DEF F
<1>7. \A i \in 0 .. F : End(i)' = End(i)
  BY <1>6, <1>3 DEF End
<1>8. Sent' = f.end
  <2>1. F + 1 # 0
    BY <1>3
  <2> QED
    BY <2>1, <1>6 DEF Sent, End, F
<1>9. Types'
  <2>1. arrived \in Nat /\ arrived <= Sent
    BY <1>1 DEF Types
  <2>2. arrived <= f.end
    BY <2>1, <1>3, <1>4 DEF HEADER_LEN
  <2>3. F + 1 <= MaxFrames
    BY <1>2, <1>3
  <2> QED
    BY <1>1, <1>2, <1>6, <1>8, <2>2, <2>3 DEF Types
<1>10. \A i \in 1 .. F : frames[i].kind # "trailer"
  <2>1. \A i \in 1 .. F : frames[i].kind = "trailer" => i = F
    BY <1>1 DEF Framed
  <2>2. F = 0 \/ frames[F].kind # "trailer"
    BY <1>2, <1>3 DEF HasTrailer, F
  <2> QED
    BY <2>1, <2>2, <1>3
<1>11. Framed'
  <2>1. ASSUME NEW i \in 1 .. F + 1
        PROVE  /\ frames'[i].end >= HEADER_LEN
               /\ frames'[i].kind = "trailer" => i = F + 1
               /\ frames'[i].kind = "trailer" <=> frames'[i].status # "none"
    <3>1. CASE i = F + 1
      <4>1. frames'[i] = f /\ f.kind = k /\ f.status = st
        BY <3>1, <1>6
      <4> HIDE DEF f
      <4> QED
        BY <3>1, <4>1, <1>2, <1>4
    <3>2. CASE i \in 1 .. F
      BY <3>2, <1>1, <1>6, <1>10 DEF Framed
    <3> QED
      BY <3>1, <3>2, <1>3
  <2>2. ASSUME NEW i \in 1 .. F + 1, NEW j \in 1 .. F + 1, i < j
        PROVE  frames'[i].end + HEADER_LEN <= frames'[j].end
    <3>1. CASE j = F + 1
      <4>1. i \in 1 .. F /\ F \in 0 .. F /\ i <= F
        BY <3>1, <2>2, <1>3
      <4>2. frames[i].end \in Nat /\ frames[i].end <= Sent
        BY <4>1, <1>1, EndsGrow DEF Sent, F
      <4>3. frames'[i] = frames[i] /\ frames'[j] = f
        BY <3>1, <4>1, <1>6
      <4> HIDE DEF f
      <4> QED
        BY <4>2, <4>3, <1>3, <1>4 DEF HEADER_LEN
    <3>2. CASE j \in 1 .. F
      <4>1. i \in 1 .. F
        BY <3>2, <2>2, <1>3
      <4> QED
        BY <4>1, <3>2, <2>2, <1>1, <1>6 DEF Framed
    <3> QED
      BY <3>1, <3>2, <1>3
  <2> QED
    BY <2>1, <2>2, <1>2, <1>6 DEF Framed
<1>12. Aligned'
  <2> SUFFICES ASSUME method' = "stream" /\ result' = "running" PROVE \E n \in 0 .. F' : Taken(n)'
    BY DEF Aligned
  <2>1. PICK n \in 0 .. F : Taken(n)
    BY <1>1, <1>2 DEF Aligned
  <2>2. n \in 0 .. F' /\ \A i \in 1 .. n : i \in 1 .. F
    BY <1>3, <1>6
  <2>3. ~(n = F /\ n > 0 /\ frames[n].kind = "trailer")
    BY <1>3, <1>10
  <2>4. /\ consumed = End(n) /\ trailer = "none" /\ messages = [i \in 1 .. n |-> i]
        /\ \A i \in 1 .. n : frames[i].kind = "message"
    BY <2>1, <2>3 DEF Taken
  <2>5. Taken(n)'
    <3>1. consumed' = End(n)'
      BY <2>4, <1>2, <1>7
    <3>2. \A i \in 1 .. n : frames'[i].kind = "message"
      BY <2>2, <2>4, <1>6
    <3>3. trailer' = "none" /\ messages' = [i \in 1 .. n |-> i]
      BY <2>4, <1>2
    <3> QED
      BY <3>1, <3>2, <3>3 DEF Taken
  <2> QED
    BY <2>2, <2>5
<1> QED
  BY <1>9, <1>11, <1>12

LEMMA SendHeaderSafe ==
  ASSUME IInv, NEW st \in {"ok", "error"}, SendHeader(st)
  PROVE  Types' /\ Framed' /\ Aligned'
<1>1. /\ frames = <<>> /\ header' = st
      /\ UNCHANGED <<method, frames, arrived, consumed, messages, trailer, result>>
  BY DEF SendHeader, stub
<1>2. Types'
  BY <1>1 DEF IInv, Types, Status, F, Sent, End
<1>3. Framed'
  BY <1>1 DEF IInv, Framed, F
<1>4. Aligned'
  BY <1>1 DEF IInv, Aligned, Taken, F, End
<1> QED
  BY <1>2, <1>3, <1>4
-----------------------------------------------------------------------------
(* The stub: a step of a running stream.                                   *)

\* Nothing the stub does disturbs the response.
LEMMA ResponseStays ==
  ASSUME Framed, UNCHANGED server
  PROVE  Framed' /\ F' = F /\ Sent' = Sent /\ \A k \in 0 .. F : End(k)' = End(k)
BY DEF Framed, server, F, Sent, End

LEMMA NextChunkSafe ==
  ASSUME IInv, NEW n \in Nat, NextChunk(n)
  PROVE  Types' /\ Framed' /\ Aligned'
<1>1. /\ arrived' = arrived + n /\ arrived + n <= Sent /\ UNCHANGED server
      /\ UNCHANGED <<method, frames, header, consumed, messages, trailer, result>>
  BY DEF NextChunk, server
<1>2. Framed' /\ Sent' = Sent /\ F' = F /\ \A k \in 0 .. F : End(k)' = End(k)
  BY <1>1, ResponseStays DEF IInv
<1>3. Types'
  <2>1. arrived \in Nat /\ consumed \in Nat /\ consumed <= arrived
    BY DEF IInv, Types
  <2>2. arrived' \in Nat /\ consumed <= arrived' /\ arrived' <= Sent'
    BY <2>1, <1>1, <1>2
  <2> QED
    BY <2>2, <1>1, <1>2 DEF IInv, Types
<1>4. Aligned'
  BY <1>1, <1>2 DEF IInv, Aligned, Taken
<1> QED
  BY <1>2, <1>3, <1>4

LEMMA TakeMessageSafe ==
  ASSUME IInv, NEW i \in 1 .. F, TakeMessage(i)
  PROVE  Types' /\ Framed' /\ Aligned'
<1>1. /\ consumed' = frames[i].end /\ messages' = Append(messages, i) /\ UNCHANGED server
      /\ UNCHANGED <<method, frames, header, arrived, trailer, result>>
      /\ method = "stream" /\ result = "running" /\ Front(i) /\ frames[i].kind = "message"
  BY DEF TakeMessage, server, Streaming
<1>2. Types /\ Framed /\ Aligned
  BY DEF IInv
<1>3. Framed' /\ Sent' = Sent /\ F' = F /\ \A k \in 0 .. F : End(k)' = End(k)
  BY <1>1, <1>2, ResponseStays
<1>4. PICK k \in 0 .. F : Taken(k)
  BY <1>1, <1>2 DEF Aligned
<1>5. /\ i = k + 1 /\ trailer = "none" /\ messages = [j \in 1 .. k |-> j]
      /\ (\A j \in 1 .. k : frames[j].kind = "message") /\ frames[i].end <= arrived
  BY <1>1, <1>2, <1>4, FrontIsNext
<1>6. F \in Nat /\ k \in Nat /\ frames[i].end \in Nat /\ F <= MaxFrames
  BY <1>2, EndsGrow DEF Types
<1>7. Types'
  <2>1. i \in 1 .. MaxFrames
    BY <1>6, FrameBounds
  <2>2. messages' \in Seq(1 .. MaxFrames)
    BY <2>1, <1>1, <1>2 DEF Types
  <2> QED
    BY <2>2, <1>1, <1>2, <1>3, <1>5, <1>6 DEF Types
<1>8. Taken(i)'
  <2>1. messages' = [j \in 1 .. i |-> j]
    BY <1>1, <1>5, <1>6
  <2>2. \A j \in 1 .. i : frames'[j].kind = "message"
    BY <1>1, <1>5, <1>6
  <2>3. consumed' = End(i)'
    <3>1. i # 0
      BY <1>6
    <3> QED
      BY <3>1, <1>1 DEF End
  <2> QED
    BY <2>1, <2>2, <2>3, <1>1, <1>5 DEF Taken
<1>9. Aligned'
  <2>1. i \in 0 .. F'
    BY <1>3, <1>6
  <2> QED
    BY <2>1, <1>8 DEF Aligned
<1> QED
  BY <1>3, <1>7, <1>9

LEMMA TakeTrailerSafe ==
  ASSUME IInv, NEW i \in 1 .. F, TakeTrailer(i)
  PROVE  Types' /\ Framed' /\ Aligned'
<1>1. /\ consumed' = frames[i].end /\ trailer' = frames[i].status /\ UNCHANGED server
      /\ UNCHANGED <<method, frames, header, arrived, messages, result>>
      /\ method = "stream" /\ result = "running" /\ Front(i) /\ frames[i].kind = "trailer"
  BY DEF TakeTrailer, server, Streaming
<1>2. Types /\ Framed /\ Aligned
  BY DEF IInv
<1>3. Framed' /\ Sent' = Sent /\ F' = F /\ \A k \in 0 .. F : End(k)' = End(k)
  BY <1>1, <1>2, ResponseStays
<1>4. PICK k \in 0 .. F : Taken(k)
  BY <1>1, <1>2 DEF Aligned
<1>5. /\ i = k + 1 /\ messages = [j \in 1 .. k |-> j]
      /\ (\A j \in 1 .. k : frames[j].kind = "message") /\ frames[i].end <= arrived
  BY <1>1, <1>2, <1>4, FrontIsNext
<1>6. F \in Nat /\ k \in Nat /\ i # 0 /\ i - 1 = k /\ frames[i] \in Frame /\ frames[i].end \in Nat
  BY <1>2, <1>5, EndsGrow
<1>7. i = F
  BY <1>1, <1>2 DEF Framed
<1>8. Types'
  BY <1>1, <1>2, <1>3, <1>5, <1>6 DEF Types, Frame
<1>9. Taken(i)'
  <2>1. consumed' = End(i)'
    BY <1>1, <1>6 DEF End
  <2>2. i = F' /\ i > 0 /\ frames'[i].kind = "trailer" /\ trailer' = frames'[i].status
    BY <1>1, <1>3, <1>6, <1>7
  <2>3. messages' = [j \in 1 .. i - 1 |-> j] /\ \A j \in 1 .. i - 1 : frames'[j].kind = "message"
    BY <1>1, <1>5, <1>6
  <2> QED
    BY <2>1, <2>2, <2>3 DEF Taken
<1>10. Aligned'
  <2>1. i \in 0 .. F'
    BY <1>3, <1>6
  <2> QED
    BY <2>1, <1>9 DEF Aligned
<1> QED
  BY <1>3, <1>8, <1>10
-----------------------------------------------------------------------------
(* The stub: the end of a stream.                                          *)

\* A stream that has no whole frame left in its buffer has given its caller
\* the messages that arrived whole, none is compressed, and its trailer is the
\* one that arrived.
LEMMA NothingIsLeft ==
  ASSUME Types, Framed, Aligned, Streaming, Partial
  PROVE  /\ messages = [i \in 1 .. Len(messages) |-> i] /\ 1 .. Len(messages) = Readable
         /\ WholeOf("compressed") = {}
         /\ BadTrailers = {} <=> trailer \in {"none", "ok"}
         /\ trailer # "none" => /\ HasTrailer /\ arrived = Sent /\ trailer = frames[F].status
                                /\ Len(messages) = F - 1
         /\ trailer = "none" /\ arrived = Sent => ~HasTrailer
<1>1. PICK k \in 0 .. F : Taken(k)
  BY DEF Aligned, Streaming
<1>2. F \in Nat /\ k \in Nat /\ F = Len(frames) /\ trailer \in Status
  BY EndsGrow DEF Types, F
<1>3. \A i \in 1 .. F : Whole(i) <=> i <= k
  BY <1>1, WholeIsTaken
<1>4. \A i \in 1 .. F : frames[i].kind = "trailer" => i = F /\ frames[i].status # "none"
  BY DEF Framed
<1>5. ASSUME NEW x \in {"message", "compressed", "trailer"}
      PROVE  WholeOf(x) = {i \in 1 .. k : frames[i].kind = x}
  <2>1. \A i : i \in 1 .. F /\ i <= k <=> i \in 1 .. k
    BY <1>2
  <2> QED
    BY <2>1, <1>2, <1>3 DEF WholeOf
<1>6. CASE /\ trailer = "none" /\ messages = [i \in 1 .. k |-> i]
           /\ \A i \in 1 .. k : frames[i].kind = "message"
  <2>1. WholeOf("compressed") = {} /\ WholeOf("message") = 1 .. k /\ WholeOf("trailer") = {}
    BY <1>5, <1>6
  <2>2. Len(messages) = k
    BY <1>2, <1>6
  <2>3. BadTrailers = {} /\ Readable = 1 .. k
    BY <2>1 DEF BadTrailers, Readable
  <2>4. ASSUME arrived = Sent PROVE ~HasTrailer
    <3> SUFFICES ASSUME HasTrailer PROVE FALSE
      OBVIOUS
    <3>1. F \in 1 .. F /\ F # 0 /\ frames[F].kind = "trailer"
      BY <1>2 DEF HasTrailer, Types
    <3>2. frames[F].end = Sent
      BY <3>1, <1>2 DEF Sent, End
    <3>3. Whole(F)
      <4>1. frames[F].end = arrived /\ arrived \in Nat
        BY <3>2, <2>4 DEF Types
      <4> QED
        BY <4>1 DEF Whole
    <3>4. F \in WholeOf("trailer")
      BY <3>1, <3>3, <1>2 DEF WholeOf
    <3> QED
      BY <3>4, <2>1
  <2> QED
    BY <2>1, <2>2, <2>3, <2>4, <1>6
<1>7. CASE /\ k = F /\ k > 0 /\ frames[k].kind = "trailer" /\ trailer = frames[k].status
           /\ messages = [i \in 1 .. k - 1 |-> i]
           /\ \A i \in 1 .. k - 1 : frames[i].kind = "message"
  <2>1. k \in 1 .. F /\ k - 1 \in Nat /\ \A i \in 1 .. k : i = k \/ i \in 1 .. k - 1
    BY <1>2, <1>7
  <2>2. \A i \in 1 .. k - 1 : i \in 1 .. k /\ i # k
    BY <1>2
  <2>3. WholeOf("compressed") = {} /\ WholeOf("message") = 1 .. k - 1 /\ WholeOf("trailer") = {k}
    <3>1. \A i \in 1 .. k : frames[i].kind = IF i = k THEN "trailer" ELSE "message"
      BY <2>1, <1>7
    <3>2. k \in 1 .. k
      BY <2>1
    <3>3. WholeOf("compressed") = {}
      BY <3>1, <1>5
    <3>4. WholeOf("message") = 1 .. k - 1
      BY <3>1, <2>1, <2>2, <1>5
    <3>5. WholeOf("trailer") = {k}
      BY <3>1, <3>2, <1>5
    <3> QED
      BY <3>3, <3>4, <3>5
  <2>4. Len(messages) = k - 1
    BY <2>1, <1>7
  <2>5. trailer # "none"
    BY <2>1, <1>4, <1>7
  <2>6. Readable = 1 .. k - 1
    BY <2>3 DEF Readable
  <2>7. BadTrailers = {} <=> trailer \in {"none", "ok"}
    BY <2>3, <2>5, <1>7 DEF BadTrailers
  <2>8. HasTrailer
    <3>1. frames # <<>>
      BY <2>1, <1>2
    <3> QED
      BY <3>1, <1>2, <1>7 DEF HasTrailer
  <2>9. arrived = Sent
    <3>1. End(k) = Sent /\ consumed = End(k)
      BY <1>1, <1>2, <1>7 DEF Sent, Taken
    <3>2. consumed \in Nat /\ arrived \in Nat /\ Sent \in Nat /\ consumed <= arrived /\ arrived <= Sent
      BY <3>1 DEF Types
    <3> QED
      BY <3>1, <3>2
  <2> QED
    BY <2>3, <2>4, <2>5, <2>6, <2>7, <2>8, <2>9, <1>7
<1> QED
  BY <1>1, <1>6, <1>7 DEF Taken
\* A call that is over has no more to align, and only its end to account for.
LEMMA EndedSafe ==
  ASSUME IInv, UNCHANGED <<method, frames, header, arrived, trailer>>, result' \in Results,
         result' # "running", consumed' \in Nat, consumed' <= arrived, messages' \in Seq(1 .. MaxFrames)
  PROVE  Types' /\ Framed' /\ Aligned'
<1>1. Framed' /\ F' = F /\ Sent' = Sent
  BY ResponseStays DEF IInv, server
<1>2. Types'
  BY <1>1 DEF IInv, Types
<1>3. Aligned'
  BY DEF Aligned
<1> QED
  BY <1>1, <1>2, <1>3

\* What arrived does not change when the call ends.
LEMMA SameBytes ==
  ASSUME UNCHANGED <<frames, header, arrived>>
  PROVE  /\ Readable' = Readable /\ BadTrailers' = BadTrailers
         /\ WholeOf("compressed")' = WholeOf("compressed")
         /\ HasTrailer' = HasTrailer /\ Sent' = Sent
<1>1. WholeOf("compressed")' = WholeOf("compressed") /\ WholeOf("message")' = WholeOf("message")
      /\ WholeOf("trailer")' = WholeOf("trailer")
  BY DEF WholeOf, Whole
<1>2. Readable' = Readable /\ BadTrailers' = BadTrailers
  BY <1>1 DEF Readable, BadTrailers
<1>3. HasTrailer' = HasTrailer /\ Sent' = Sent
  BY DEF HasTrailer, Sent, End
<1> QED
  BY <1>1, <1>2, <1>3

LEMMA StreamEndsSafe ==
  ASSUME IInv, StreamEnds
  PROVE  Types' /\ Framed' /\ Aligned' /\ Ends'
<1>1. /\ UNCHANGED <<method, frames, header, arrived, consumed, messages, trailer>>
      /\ result' = StreamResult(trailer) /\ Streaming /\ Partial /\ method = "stream"
  BY DEF StreamEnds, server, Streaming
<1>2. Types /\ Framed /\ Aligned
  BY DEF IInv
<1>3. result' = IF trailer \in {"none", "ok"} THEN "stop" ELSE "grpc_error"
  BY <1>1 DEF StreamResult
<1>4. Types' /\ Framed' /\ Aligned'
  <2>1. result' \in Results /\ result' # "running"
    BY <1>3 DEF Results
  <2>2. consumed' \in Nat /\ consumed' <= arrived /\ messages' \in Seq(1 .. MaxFrames)
    BY <1>1, <1>2 DEF Types
  <2> QED
    BY <2>1, <2>2, <1>1, EndedSafe
<1>5. /\ messages = [i \in 1 .. Len(messages) |-> i] /\ 1 .. Len(messages) = Readable
      /\ WholeOf("compressed") = {}
      /\ BadTrailers = {} <=> trailer \in {"none", "ok"}
      /\ trailer # "none" => /\ HasTrailer /\ arrived = Sent /\ trailer = frames[F].status
                             /\ Len(messages) = F - 1
      /\ trailer = "none" /\ arrived = Sent => ~HasTrailer
  BY <1>1, <1>2, NothingIsLeft
<1>6. /\ Readable' = Readable /\ BadTrailers' = BadTrailers
      /\ WholeOf("compressed")' = WholeOf("compressed")
      /\ HasTrailer' = HasTrailer /\ Sent' = Sent
  BY <1>1, SameBytes
<1>7. ChunkingIrrelevant'
  BY <1>1, <1>3, <1>5, <1>6 DEF ChunkingIrrelevant, Ended
<1>8. StopIsJustified'
  BY <1>1, <1>3, <1>5, <1>6 DEF StopIsJustified, F
<1>9. ReturnIsJustified'
  BY <1>1 DEF ReturnIsJustified
<1> QED
  BY <1>4, <1>7, <1>8, <1>9 DEF Ends

LEMMA StreamFailsSafe ==
  ASSUME IInv, StreamFails
  PROVE  Types' /\ Framed' /\ Aligned' /\ Ends'
<1>1. /\ UNCHANGED <<method, frames, header, arrived, consumed, messages, trailer>>
      /\ result' = "unavailable" /\ Streaming /\ Partial /\ method = "stream"
  BY DEF StreamFails, server, Streaming
<1>2. Types /\ Framed /\ Aligned
  BY DEF IInv
<1>3. Types' /\ Framed' /\ Aligned'
  <2>1. result' \in Results /\ result' # "running"
    BY <1>1 DEF Results
  <2>2. consumed' \in Nat /\ consumed' <= arrived /\ messages' \in Seq(1 .. MaxFrames)
    BY <1>1, <1>2 DEF Types
  <2> QED
    BY <2>1, <2>2, <1>1, EndedSafe
<1>4. /\ messages = [i \in 1 .. Len(messages) |-> i] /\ 1 .. Len(messages) = Readable
      /\ WholeOf("compressed") = {}
  BY <1>1, <1>2, NothingIsLeft
<1>5. Readable' = Readable /\ WholeOf("compressed")' = WholeOf("compressed")
  BY <1>1, SameBytes
<1>6. ChunkingIrrelevant'
  BY <1>1, <1>4, <1>5 DEF ChunkingIrrelevant, Ended
<1>7. StopIsJustified' /\ ReturnIsJustified'
  BY <1>1 DEF StopIsJustified, ReturnIsJustified
<1> QED
  BY <1>3, <1>6, <1>7 DEF Ends

\* The messages before a compressed frame are those taken already.
LEMMA RejectCompressedSafe ==
  ASSUME IInv, NEW i \in 1 .. F, RejectCompressed(i)
  PROVE  Types' /\ Framed' /\ Aligned' /\ Ends'
<1>1. /\ consumed' = frames[i].end /\ result' = "grpc_error"
      /\ UNCHANGED <<method, frames, header, arrived, messages, trailer>>
      /\ method = "stream" /\ result = "running" /\ Front(i) /\ frames[i].kind = "compressed"
  BY DEF RejectCompressed, server, Streaming
<1>2. Types /\ Framed /\ Aligned
  BY DEF IInv
<1>3. PICK k \in 0 .. F : Taken(k)
  BY <1>1, <1>2 DEF Aligned
<1>4. /\ i = k + 1 /\ messages = [j \in 1 .. k |-> j] /\ consumed = End(k)
      /\ (\A j \in 1 .. k : frames[j].kind = "message") /\ frames[i].end <= arrived
  BY <1>1, <1>2, <1>3, FrontIsNext
<1>5. F \in Nat /\ k \in Nat /\ F = Len(frames) /\ frames[i].end \in Nat
  BY <1>2, EndsGrow DEF F
<1>6. Types' /\ Framed' /\ Aligned'
  <2>1. result' \in Results /\ result' # "running"
    BY <1>1 DEF Results
  <2>2. consumed' \in Nat /\ consumed' <= arrived /\ messages' \in Seq(1 .. MaxFrames)
    BY <1>1, <1>2, <1>4, <1>5 DEF Types
  <2> QED
    BY <2>1, <2>2, <1>1, EndedSafe
<1>7. Len(messages) = k
  BY <1>4, <1>5
<1>8. i \in WholeOf("compressed")
  BY <1>1, <1>4, <1>5 DEF WholeOf, Whole
<1>9. ASSUME NEW j \in 1 .. k PROVE j \in 1 .. F /\ frames[j].kind = "message" /\ Whole(j)
  <2>1. j \in 1 .. F /\ j <= k /\ k \in 0 .. F
    BY <1>5
  <2>2. frames[j].end <= End(k) /\ End(k) \in Nat /\ frames[j].end \in Nat
    BY <2>1, <1>2, EndsGrow
  <2>3. consumed <= arrived /\ arrived \in Nat
    BY <1>2 DEF Types
  <2>4. Whole(j)
    BY <2>2, <2>3, <1>4 DEF Whole
  <2> QED
    BY <2>1, <2>4, <1>4
<1>10. Readable = 1 .. k
  <2>1. ASSUME NEW j \in Readable PROVE j \in 1 .. k
    <3>1. j \in 1 .. F /\ j < i
      BY <1>5, <1>8 DEF Readable, WholeOf
    <3> QED
      BY <3>1, <1>4, <1>5
  <2>2. ASSUME NEW j \in 1 .. k PROVE j \in Readable
    <3>1. j \in WholeOf("message")
      BY <1>9, <1>5 DEF WholeOf
    <3>2. ASSUME NEW c \in WholeOf("compressed") PROVE j < c
      <4>1. c \in 1 .. F /\ frames[c].kind = "compressed"
        BY <1>5 DEF WholeOf
      <4>2. ~(c \in 1 .. k)
        BY <4>1, <1>4
      <4> QED
        BY <4>1, <4>2, <1>5
    <3> QED
      BY <3>1, <3>2 DEF Readable
  <2> QED
    BY <2>1, <2>2
<1>11. Readable' = Readable /\ WholeOf("compressed")' = WholeOf("compressed")
  BY <1>1, SameBytes
<1>12. ChunkingIrrelevant'
  BY <1>1, <1>4, <1>7, <1>8, <1>10, <1>11 DEF ChunkingIrrelevant, Ended
<1>13. StopIsJustified' /\ ReturnIsJustified'
  BY <1>1 DEF StopIsJustified, ReturnIsJustified
<1> QED
  BY <1>6, <1>12, <1>13 DEF Ends

LEMMA CloseSafe ==
  ASSUME IInv, Close
  PROVE  Types' /\ Framed' /\ Aligned' /\ Ends'
<1>1. /\ UNCHANGED <<method, frames, header, arrived, consumed, messages, trailer>>
      /\ result' = "closed"
  BY DEF Close, server
<1>2. Types' /\ Framed' /\ Aligned'
  BY <1>1, EndedSafe DEF IInv, Types, Results
<1>3. Ends'
  BY <1>1 DEF Ends, ChunkingIrrelevant, Ended, StopIsJustified, ReturnIsJustified
<1> QED
  BY <1>2, <1>3

-----------------------------------------------------------------------------
(* The unary stub.                                                         *)

\* A trailer arrived whole exactly if the whole of a response with one arrived.
LEMMA TrailerIsLast ==
  ASSUME Types, Framed
  PROVE  WholeOf("trailer") # {} <=> HasTrailer /\ arrived = Sent
<1>1. F \in Nat /\ F = Len(frames) /\ arrived \in Nat /\ arrived <= Sent
  BY EndsGrow DEF Types, F
<1>2. ASSUME WholeOf("trailer") # {} PROVE HasTrailer /\ arrived = Sent
  <2>1. PICK t \in 1 .. F : Whole(t) /\ frames[t].kind = "trailer"
    BY <1>1, <1>2 DEF WholeOf
  <2>2. t = F /\ F \in 1 .. F /\ F # 0 /\ frames # <<>>
    BY <1>1, <2>1 DEF Framed
  <2>3. HasTrailer
    BY <1>1, <2>1, <2>2 DEF HasTrailer
  <2>4. frames[F].end <= arrived /\ Sent = frames[F].end /\ frames[F].end \in Nat
    BY <1>1, <2>1, <2>2, EndsGrow DEF Whole, Sent, End
  <2> QED
    BY <1>1, <2>3, <2>4
<1>3. ASSUME HasTrailer, arrived = Sent PROVE WholeOf("trailer") # {}
  <2>1. F \in 1 .. F /\ F # 0 /\ frames[F].kind = "trailer"
    BY <1>1, <1>3 DEF HasTrailer, Types
  <2>2. frames[F].end = arrived
    BY <1>1, <1>3, <2>1 DEF Sent, End
  <2>3. Whole(F)
    BY <1>1, <2>2 DEF Whole
  <2> QED
    BY <1>1, <2>1, <2>3 DEF WholeOf
<1> QED
  BY <1>2, <1>3

\* What is known of a body of which a message arrived, if _decode_body and
\* _raise_for_trailers let it pass.
LEMMA PassIsJustified ==
  ASSUME Types, Framed, ~CutMidFrame, WholeOf("compressed") = {}, WholeOf("message") # {},
         UnaryStatus = "ok"
  PROVE  /\ frames[1].kind = "message" /\ Whole(1) /\ 1 \in 1 .. MaxFrames
         /\ \E i \in 1 .. Len(frames) : frames[i].end = arrived
         /\ IF HasTrailer /\ arrived = Sent THEN frames[Len(frames)].status = "ok"
            ELSE header = "ok"
<1>1. F \in Nat /\ F = Len(frames) /\ F <= MaxFrames /\ arrived \in Nat
  BY EndsGrow DEF Types, F
<1>2. PICK m \in 1 .. F : Whole(m) /\ frames[m].kind = "message"
  BY <1>1 DEF WholeOf
<1>3. frames[m].end \in Nat /\ frames[m].end >= HEADER_LEN /\ frames[m].end <= arrived
  BY <1>2, EndsGrow DEF Framed, Whole
<1>4. 1 \in 1 .. F /\ 1 \in 1 .. MaxFrames /\ (m = 1 \/ 1 < m)
  BY <1>1, <1>2, FrameBounds
<1>5. \E i \in 1 .. Len(frames) : frames[i].end = arrived
  <2>1. arrived > 0
    BY <1>1, <1>3 DEF HEADER_LEN
  <2> QED
    BY <2>1 DEF CutMidFrame
<1>6. Whole(1)
  <2>1. CASE m = 1
    BY <1>2, <2>1
  <2>2. CASE 1 < m
    <3>1. frames[1].end + HEADER_LEN <= frames[m].end /\ frames[1].end \in Nat
      BY <1>4, <2>2, EndsGrow DEF Framed
    <3> QED
      BY <1>1, <1>3, <3>1 DEF Whole, HEADER_LEN
  <2> QED
    BY <1>4, <2>1, <2>2
<1>7. frames[1].kind = "message"
  <2>1. frames[1] \in Frame
    BY <1>4, EndsGrow
  <2>2. frames[1].kind # "compressed"
    BY <1>1, <1>4, <1>6 DEF WholeOf
  <2>3. frames[1].kind # "trailer"
    <3> SUFFICES ASSUME frames[1].kind = "trailer" PROVE FALSE
      OBVIOUS
    <3>1. 1 = F
      BY <1>4 DEF Framed
    <3> QED
      BY <1>2, <3>1
  <2> QED
    BY <2>1, <2>2, <2>3 DEF Frame
<1>8. IF HasTrailer /\ arrived = Sent THEN frames[Len(frames)].status = "ok" ELSE header = "ok"
  BY TrailerIsLast DEF UnaryStatus
<1> QED
  BY <1>4, <1>5, <1>6, <1>7, <1>8

LEMMA UnaryReturnsSafe ==
  ASSUME IInv, UnaryReturns
  PROVE  Types' /\ Framed' /\ Aligned' /\ Ends'
<1>1. /\ UNCHANGED <<method, frames, header, arrived, consumed, trailer>> /\ method = "unary"
      /\ \/ result' \in {"grpc_error", "value_error"} /\ UNCHANGED messages
         \/ /\ WholeOf("compressed") = {} /\ ~CutMidFrame /\ UnaryStatus = "ok"
            /\ WholeOf("message") # {} /\ result' = "ok" /\ messages' = <<1>>
  BY DEF UnaryReturns, server
<1>2. Types /\ Framed
  BY DEF IInv
<1>3. result' = "ok" =>
         /\ frames[1].kind = "message" /\ Whole(1) /\ 1 \in 1 .. MaxFrames
         /\ \E i \in 1 .. Len(frames) : frames[i].end = arrived
         /\ IF HasTrailer /\ arrived = Sent THEN frames[Len(frames)].status = "ok"
            ELSE header = "ok"
  BY <1>1, <1>2, PassIsJustified
<1>4. Types' /\ Framed' /\ Aligned'
  <2>1. result' \in Results /\ result' # "running"
    BY <1>1 DEF Results
  <2>2. consumed' \in Nat /\ consumed' <= arrived
    BY <1>1, <1>2 DEF Types
  <2>3. messages' \in Seq(1 .. MaxFrames)
    <3>1. CASE UNCHANGED messages
      BY <3>1, <1>2 DEF Types
    <3>2. CASE result' = "ok" /\ messages' = <<1>>
      BY <3>2, <1>3
    <3> QED
      BY <3>1, <3>2, <1>1
  <2> QED
    BY <2>1, <2>2, <2>3, <1>1, EndedSafe
<1>5. HasTrailer' = HasTrailer /\ Sent' = Sent /\ (Whole(1)' <=> Whole(1))
  BY <1>1, SameBytes DEF Whole
<1>6. ReturnIsJustified'
  <2> SUFFICES ASSUME result' = "ok" PROVE ReturnIsJustified'
    BY DEF ReturnIsJustified
  <2>1. messages' = <<1>>
    BY <1>1
  <2> QED
    BY <2>1, <1>1, <1>3, <1>5 DEF ReturnIsJustified
<1>7. ChunkingIrrelevant' /\ StopIsJustified'
  BY <1>1 DEF ChunkingIrrelevant, Ended, StopIsJustified
<1> QED
  BY <1>4, <1>6, <1>7 DEF Ends

LEMMA UnaryFailsSafe ==
  ASSUME IInv, UnaryFails
  PROVE  Types' /\ Framed' /\ Aligned' /\ Ends'
<1>1. /\ UNCHANGED <<method, frames, header, arrived, consumed, messages, trailer>>
      /\ result' = "transport_error" /\ method = "unary"
  BY DEF UnaryFails, server
<1>2. Types' /\ Framed' /\ Aligned'
  BY <1>1, EndedSafe DEF IInv, Types, Results
<1>3. Ends'
  BY <1>1 DEF Ends, ChunkingIrrelevant, Ended, StopIsJustified, ReturnIsJustified
<1> QED
  BY <1>2, <1>3

-----------------------------------------------------------------------------
\* A call that runs has no end to account for.
LEMMA RunningEnds == ASSUME result' = "running" PROVE Ends'
BY DEF Ends, ChunkingIrrelevant, Ended, StopIsJustified, ReturnIsJustified

LEMMA NextInv == IInv /\ [Next]_vars => IInv'
<1> SUFFICES ASSUME IInv, [Next]_vars PROVE Types' /\ Framed' /\ Aligned' /\ Ends'
  BY DEF IInv
<1>1. ASSUME NEW k \in {"message", "compressed", "trailer"}, NEW st \in Status,
             NEW len \in 0 .. MaxPayload, SendFrame(k, st, len)
      PROVE  Types' /\ Framed' /\ Aligned' /\ Ends'
  BY <1>1, SendFrameSafe, RunningEnds DEF SendFrame, stub
<1>2. ASSUME NEW st \in {"ok", "error"}, SendHeader(st)
      PROVE  Types' /\ Framed' /\ Aligned' /\ Ends'
  BY <1>2, SendHeaderSafe, RunningEnds DEF SendHeader, stub
<1>3. ASSUME NEW n \in 1 .. MaxFrames * (HEADER_LEN + MaxPayload), NextChunk(n)
      PROVE  Types' /\ Framed' /\ Aligned' /\ Ends'
  <2>1. n \in Nat
    BY <1>3
  <2> QED
    BY <1>3, <2>1, NextChunkSafe, RunningEnds DEF NextChunk
<1>4. ASSUME NEW i \in 1 .. Len(frames), TakeMessage(i) \/ TakeTrailer(i) \/ RejectCompressed(i)
      PROVE  Types' /\ Framed' /\ Aligned' /\ Ends'
  <2>1. i \in 1 .. F
    BY DEF F
  <2>2. CASE TakeMessage(i)
    BY <2>1, <2>2, TakeMessageSafe, RunningEnds DEF TakeMessage, Streaming
  <2>3. CASE TakeTrailer(i)
    BY <2>1, <2>3, TakeTrailerSafe, RunningEnds DEF TakeTrailer, Streaming
  <2>4. CASE RejectCompressed(i)
    BY <2>1, <2>4, RejectCompressedSafe
  <2> QED
    BY <1>4, <2>2, <2>3, <2>4
<1>5. CASE StreamEnds \/ StreamFails \/ Close
  BY <1>5, StreamEndsSafe, StreamFailsSafe, CloseSafe
<1>6. CASE UnaryReturns \/ UnaryFails
  BY <1>6, UnaryReturnsSafe, UnaryFailsSafe
<1>7. CASE UNCHANGED vars
  <2>1. UNCHANGED <<method, frames, header, arrived, consumed, messages, trailer, result>>
    BY <1>7 DEF vars, server, stub
  <2>2. Framed' /\ F' = F /\ Sent' = Sent /\ \A k \in 0 .. F : End(k)' = End(k)
    BY <2>1, ResponseStays DEF IInv, server
  <2>3. Types'
    BY <2>1, <2>2 DEF IInv, Types
  <2>4. Aligned'
    BY <2>1, <2>2 DEF IInv, Aligned, Taken
  <2>5. /\ Readable' = Readable /\ BadTrailers' = BadTrailers
        /\ WholeOf("compressed")' = WholeOf("compressed")
        /\ HasTrailer' = HasTrailer /\ Sent' = Sent
    BY <2>1, SameBytes
  <2>6. ChunkingIrrelevant'
    BY <2>1, <2>5 DEF IInv, Ends, ChunkingIrrelevant, Ended
  <2>7. StopIsJustified' /\ ReturnIsJustified'
    BY <2>1, <2>5 DEF IInv, Ends, StopIsJustified, ReturnIsJustified, Whole
  <2> QED
    BY <2>2, <2>3, <2>4, <2>6, <2>7 DEF Ends
<1> QED
  BY <1>1, <1>2, <1>3, <1>4, <1>5, <1>6, <1>7 DEF Next

LEMMA Invariance == Spec => []IInv
BY InitInv, NextInv, PTL DEF Spec

\* Every variable keeps its type, and the buffer lies within the body.
THEOREM TypeCorrect == Spec => []TypeOK
<1>1. IInv => TypeOK
  BY DEF IInv, Types, TypeOK, F
<1> QED
  BY <1>1, Invariance, PTL

\* However a response is cut into chunks, and however many frames it has, a
\* stream gives its caller exactly the messages that arrived whole, once and
\* in order, and ends as the bytes that arrived say.
THEOREM ChunksDoNotMatter == Spec => []ChunkingIrrelevant
<1>1. IInv => ChunkingIrrelevant
  BY DEF IInv, Ends
<1> QED
  BY <1>1, Invariance, PTL

\* A stream that stops is whole with an OK in its trailer, or no whole response
\* with a trailer has arrived.
THEOREM StopsAreJustified == Spec => []StopIsJustified
<1>1. IInv => StopIsJustified
  BY DEF IInv, Ends
<1> QED
  BY <1>1, Invariance, PTL

\* A unary call returns only a first message that is whole, from a body that is
\* not cut inside a frame, and only if the server said OK: in the trailer of a
\* whole body, or in the headers if no trailer arrived.
THEOREM UnaryReturnsAreJustified == Spec => []ReturnIsJustified
<1>1. IInv => ReturnIsJustified
  BY DEF IInv, Ends
<1> QED
  BY <1>1, Invariance, PTL
=============================================================================
