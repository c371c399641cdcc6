----------------------- MODULE ArrowReassemblyProofs -----------------------
(***************************************************************************)
(* ArrowReassembly for every size of a result and every number of faults:  *)
(* its types, and that a batch that is decoded is at its row.  With one    *)
(* fault at most, chunks of two batches are never joined: the decoder is   *)
(* in step with the server (InStep), or misses a response and will refuse  *)
(* the next (Gap).  Without a fault it is in step to the end.              *)
(***************************************************************************)
EXTENDS ArrowReassembly, TLAPS

\* The chunks the server has cut so far.
IsChunk(c) ==
  /\ c \in Chunk /\ c.batch <= Len(batches)
  /\ c.index < batches[c.batch].chunks

\* What the server keeps: a chunk that is still to be sent exists, and so does
\* the response that arrived last.
ServerInv ==
  /\ batches \in Seq(Cut) /\ Len(batches) <= MaxBatches
  /\ offsets \in BOOLEAN /\ next \in 0 .. MaxChunks
  /\ batches # <<>> => next <= batches[Len(batches)].chunks
  /\ last \in Seq(Chunk) /\ Len(last) <= 1
  /\ \A i \in 1 .. Len(last) : IsChunk(last[i])
  /\ faults \in 0 .. MaxFaults

\* A row of the decoded part of the result is where the server has it.
AtItsRow(d) == d.batch # Mixed =>
  d.batch <= Len(batches) /\ (offsets => d.at = batches[d.batch].offset)

\* The decoder: a batch that is being joined starts at the row reached.
DecoderInv ==
  /\ pending \in Seq(Chunk) /\ Len(pending) < MaxChunks
  /\ \A i \in 1 .. Len(pending) : IsChunk(pending[i])
  /\ offsets /\ pending # <<>> => OffsetOf(pending[1]) = numRecords
  /\ numRecords \in Nat /\ decoded \in Seq(Decoded)
  /\ \A i \in 1 .. Len(decoded) : AtItsRow(decoded[i])
  /\ outcome \in {"reading", "ok", "order_error", "offset_error", "count_error",
                  "decode_error", "truncated"}

Inv == ServerInv /\ DecoderInv

\* What is known of a batch that was cut.
LEMMA CutFacts ==
  ASSUME ServerInv, NEW i \in 1 .. Len(batches)
  PROVE  /\ batches[i] \in Cut /\ batches[i].chunks \in 1 .. MaxChunks
         /\ batches[i].rows \in 0 .. MaxRows /\ batches[i].offset \in Nat
<1>1. batches[i] \in Cut
  BY DEF ServerInv
<1> QED
  BY <1>1 DEF Cut

\* What is known of a chunk that was cut, and of its batch.
LEMMA ChunkFacts ==
  ASSUME ServerInv, NEW c, IsChunk(c)
  PROVE  /\ c \in Chunk /\ c.batch \in 1 .. Len(batches) /\ c.batch \in Batch
         /\ c.index \in Nat /\ c.index < ChunksOf(c)
         /\ ChunksOf(c) \in 1 .. MaxChunks /\ RowsOf(c) \in 0 .. MaxRows
         /\ OffsetOf(c) \in Nat
<1>1. c \in [batch : 1 .. MaxBatches, index : 0 .. MaxChunks - 1]
  BY DEF IsChunk, Chunk, Batch
<1>2. c.batch \in 1 .. MaxBatches /\ c.index \in 0 .. MaxChunks - 1
  BY <1>1
<1>3. Len(batches) \in Nat /\ c.batch \in 1 .. Len(batches)
  BY <1>2, ResultBounds DEF ServerInv, IsChunk
<1>4. /\ batches[c.batch].chunks \in 1 .. MaxChunks /\ batches[c.batch].rows \in 0 .. MaxRows
      /\ batches[c.batch].offset \in Nat
  BY <1>3, CutFacts
<1> QED
  BY <1>1, <1>2, <1>3, <1>4, ResultBounds DEF IsChunk, Chunk, Batch, ChunksOf, RowsOf, OffsetOf

\* Whatever pyarrow reads from joined chunks of the result is a batch of it, at
\* most as long as a batch is.
LEMMA ReadsTypes ==
  ASSUME ServerInv, NEW joined \in Seq(Chunk), IsChunk(joined[1]),
         NEW read \in Reads(joined)
  PROVE  /\ read.batch \in Batch \cup {Mixed} /\ read.rows \in 0 .. MaxRows
         /\ read.batch # Mixed => read.batch = joined[1].batch
<1>1. CASE IsBatch(joined)
  <2>1. read = [batch |-> joined[1].batch, rows |-> RowsOf(joined[1])]
    BY <1>1 DEF Reads, RowsOf
  <2> QED
    BY <2>1, ChunkFacts
<1>2. CASE ~IsBatch(joined)
  <2>1. PICK r \in 0 .. MaxRows : read = [batch |-> Mixed, rows |-> r]
    BY <1>2 DEF Reads
  <2> QED
    BY <2>1
<1> QED
  BY <1>1, <1>2

\* One response, whichever it is: the loop body keeps the decoder's invariant.
LEMMA DecodeKeeps ==
  ASSUME Inv, NEW c, IsChunk(c), NEW declared \in 0 .. MaxRows,
         Decode(Response(c, declared)), UNCHANGED <<batches, offsets>>
  PROVE  DecoderInv'
<1> DEFINE joined == Append(pending, c)
<1> USE DEF Inv
<1>0. /\ joined \in Seq(Chunk) /\ joined # <<>>
      /\ Len(joined) = Len(pending) + 1
      /\ \A i \in 1 .. Len(joined) : IsChunk(joined[i])
      /\ pending # <<>> => joined[1] = pending[1]
      /\ pending = <<>> => joined[1] = c
      /\ IsChunk(joined[1])
  <2>1. c \in Chunk
    BY DEF IsChunk
  <2>2. /\ joined \in Seq(Chunk) /\ Len(joined) = Len(pending) + 1
        /\ joined[Len(joined)] = c
        /\ \A i \in 1 .. Len(pending) : joined[i] = pending[i]
    BY <2>1 DEF DecoderInv
  <2>3. Len(pending) \in Nat /\ (pending # <<>> <=> Len(pending) > 0)
    BY DEF DecoderInv
  <2>4. \A i \in 1 .. Len(joined) : IsChunk(joined[i])
    BY <2>2, <2>3 DEF DecoderInv
  <2>5. joined # <<>> /\ 1 \in 1 .. Len(joined)
    BY <2>2, <2>3
  <2>6. (pending # <<>> => joined[1] = pending[1]) /\ (pending = <<>> => joined[1] = c)
    BY <2>2, <2>3
  <2> QED
    BY <2>2, <2>4, <2>5, <2>6
<1>1. ASSUME NEW e \in {"order_error", "offset_error", "count_error", "decode_error"}, Raise(e)
      PROVE  DecoderInv'
  BY <1>1 DEF Raise, DecoderInv, AtItsRow, IsChunk, OffsetOf
<1>2. CASE ~InSequence(c) \/ ~InPlace(c)
  BY <1>1, <1>2 DEF Decode, Response
<1>3. CASE InSequence(c) /\ InPlace(c)
  <2>1. offsets => OffsetOf(joined[1]) = numRecords
    BY <1>0, <1>3 DEF InPlace, DecoderInv
  <2>2. CASE ~Completes(c) /\ pending' = joined /\ UNCHANGED <<numRecords, decoded, outcome>>
    <3>1. Len(joined) < MaxChunks
      <4>1. ChunksOf(c) \in 1 .. MaxChunks /\ c.index < ChunksOf(c)
        BY ChunkFacts
      <4>2. c.index = Len(pending) /\ Len(pending) + 1 # ChunksOf(c)
        BY <1>3, <2>2, <4>1 DEF InSequence, Completes, NumChunks
      <4> QED
        BY <1>0, <4>1, <4>2, ResultBounds
    <3> QED
      BY <1>0, <2>1, <2>2, <3>1 DEF DecoderInv, AtItsRow, IsChunk, OffsetOf
  <2>3. CASE Accept(joined, declared)
    <3>1. CASE \E e \in {"count_error", "decode_error"} : Raise(e)
      BY <1>1, <3>1
    <3>2. ASSUME NEW read \in Reads(joined),
                 pending' = <<>>, numRecords' = numRecords + read.rows,
                 decoded' = Append(decoded, [batch |-> read.batch, rows |-> read.rows,
                                             at |-> numRecords]),
                 UNCHANGED outcome
          PROVE  DecoderInv'
      <4> DEFINE d == [batch |-> read.batch, rows |-> read.rows, at |-> numRecords]
      <4>1. /\ read.batch \in Batch \cup {Mixed} /\ read.rows \in 0 .. MaxRows
            /\ read.batch # Mixed => read.batch = joined[1].batch
        BY <1>0, ReadsTypes
      <4>2. d \in Decoded /\ numRecords' \in Nat
        BY <3>2, <4>1 DEF Decoded, DecoderInv
      <4>3. AtItsRow(d)
        <5>1. read.batch # Mixed =>
                joined[1].batch <= Len(batches) /\ OffsetOf(joined[1]) = batches[read.batch].offset
          BY <1>0, <4>1, ChunkFacts DEF OffsetOf
        <5> QED
          BY <2>1, <4>1, <5>1 DEF AtItsRow
      <4>4. pending' \in Seq(Chunk) /\ Len(pending') = 0 /\ 0 < MaxChunks
        BY <3>2, ResultBounds
      <4>5. decoded' \in Seq(Decoded) /\ \A i \in 1 .. Len(decoded') : AtItsRow(decoded'[i])
        BY <3>2, <4>2, <4>3 DEF DecoderInv
      <4>6. \A i \in 1 .. Len(decoded') : AtItsRow(decoded[i])'
        BY <4>5 DEF AtItsRow
      <4> QED
        BY <3>2, <4>2, <4>4, <4>5, <4>6 DEF DecoderInv
    <3> QED
      BY <2>3, <3>1, <3>2 DEF Accept
  <2> QED
    BY <1>3, <2>2, <2>3 DEF Decode, Response
<1> QED
  BY <1>2, <1>3

\* The chunk that is to be sent next is one of the result.
LEMMA PendingIsChunk ==
  ASSUME ServerInv, ~AllSent
  PROVE  /\ IsChunk(Pending) /\ batches # <<>>
         /\ next + 1 <= batches[Len(batches)].chunks /\ next + 1 \in 0 .. MaxChunks
<1>1. batches # <<>> /\ next # batches[Len(batches)].chunks
  BY DEF AllSent
<1>2. Len(batches) \in 1 .. MaxBatches
  BY <1>1, ResultBounds DEF ServerInv
<1>3. Len(batches) \in 1 .. Len(batches) /\ batches[Len(batches)].chunks \in 1 .. MaxChunks
  BY <1>2, CutFacts
<1>4. next \in Nat /\ next < batches[Len(batches)].chunks /\ batches[Len(batches)].chunks \in 1 .. MaxChunks
  BY <1>1, <1>3, ResultBounds DEF ServerInv
<1> QED
  BY <1>1, <1>2, <1>4, ResultBounds DEF Pending, IsChunk, Chunk, Batch

\* A chunk is sent: the server's side of the invariant holds after it.
LEMMA Sent ==
  ASSUME ServerInv, ~AllSent, NEW c, c = Pending, next' = next + 1, last' = <<c>>,
         faults' = faults \/ (faults < MaxFaults /\ faults' = faults + 1),
         UNCHANGED <<batches, offsets>>
  PROVE  ServerInv'
<1>1. IsChunk(c) /\ next + 1 <= batches[Len(batches)].chunks /\ next + 1 \in 0 .. MaxChunks
  BY PendingIsChunk
<1>2. IsChunk(c)' /\ c \in Chunk
  BY <1>1 DEF IsChunk
<1>3. last' \in Seq(Chunk) /\ Len(last') = 1 /\ \A i \in 1 .. Len(last') : last'[i] = c
  BY <1>2
<1>4. \A i \in 1 .. Len(last') : IsChunk(last[i])'
  BY <1>2, <1>3 DEF IsChunk
<1>5. faults' \in 0 .. MaxFaults
  BY ResultBounds DEF ServerInv
<1> QED
  BY <1>1, <1>3, <1>4, <1>5 DEF ServerInv

LEMMA InvInit == Init => Inv
BY ResultBounds DEF Init, Inv, ServerInv, DecoderInv

LEMMA InvNext == Inv /\ [Next]_vars => Inv'
<1> SUFFICES ASSUME Inv, [Next]_vars PROVE Inv'
  OBVIOUS
<1> USE ResultBounds
<1>1. CASE UNCHANGED vars
  BY <1>1 DEF Inv, ServerInv, DecoderInv, AtItsRow, IsChunk, OffsetOf, vars, server, decoder
<1>2. ASSUME NEW chunks \in 1 .. MaxChunks, NEW rows \in 0 .. MaxRows, CutBatch(chunks, rows)
      PROVE  Inv'
  <2> DEFINE b == [chunks |-> chunks, rows |-> rows, offset |-> TotalRows]
  <2>1. TotalRows \in Nat
    <3>1. CASE batches = <<>>
      BY <3>1 DEF TotalRows
    <3>2. CASE batches # <<>>
      <4>1. Len(batches) \in 1 .. Len(batches)
        BY <3>2 DEF Inv, ServerInv
      <4> QED
        BY <3>2, <4>1, CutFacts DEF TotalRows, Inv
    <3> QED
      BY <3>1, <3>2
  <2>0. b \in Cut
    BY <2>1 DEF Cut
  <2>2. /\ batches' \in Seq(Cut)
        /\ Len(batches') = Len(batches) + 1 /\ Len(batches') <= MaxBatches
        /\ \A i \in 1 .. Len(batches) : batches'[i] = batches[i]
    BY <1>2, <2>0 DEF CutBatch, Inv, ServerInv
  <2>3. \A c : IsChunk(c) => IsChunk(c)' /\ OffsetOf(c)' = OffsetOf(c)
    <3> SUFFICES ASSUME NEW c, IsChunk(c) PROVE IsChunk(c)' /\ OffsetOf(c)' = OffsetOf(c)
      OBVIOUS
    <3>1. c.batch \in 1 .. Len(batches) /\ c \in Chunk
      BY ChunkFacts DEF Inv
    <3>2. Len(batches) \in Nat
      BY DEF Inv, ServerInv
    <3> QED
      BY <2>2, <3>1, <3>2 DEF IsChunk, OffsetOf
  <2>4. ServerInv'
    BY <1>2, <2>2, <2>3 DEF CutBatch, Inv, ServerInv
  <2>5. \A i \in 1 .. Len(decoded) : AtItsRow(decoded[i])'
    <3> SUFFICES ASSUME NEW i \in 1 .. Len(decoded) PROVE AtItsRow(decoded[i])'
      OBVIOUS
    <3>1. AtItsRow(decoded[i]) /\ decoded[i] \in Decoded /\ Len(batches) \in Nat
      BY DEF Inv, DecoderInv, ServerInv
    <3>2. decoded[i].batch \in 0 .. MaxBatches
      BY <3>1 DEF Decoded, Batch, Mixed
    <3> QED
      BY <1>2, <2>2, <3>1, <3>2 DEF CutBatch, decoder, AtItsRow, Mixed
  <2>6. DecoderInv'
    BY <1>2, <2>3, <2>5 DEF CutBatch, Inv, DecoderInv, decoder
  <2> QED
    BY <2>4, <2>6 DEF Inv
<1>3. CASE Deliver
  <2>1. ~AllSent /\ next' = next + 1 /\ last' = <<Pending>> /\ UNCHANGED <<batches, offsets, faults>>
    BY <1>3 DEF Deliver, Sending
  <2>2. PICK c : c = Pending
    OBVIOUS
  <2>3. PICK r \in Declares(Pending) : Decode(Response(Pending, r))
    BY <1>3 DEF Deliver
  <2>4. IsChunk(c) /\ r \in 0 .. MaxRows
    BY <2>1, <2>2, <2>3, PendingIsChunk, ChunkFacts, ResultBounds DEF Inv, Declares
  <2>5. Decode(Response(c, r))
    BY <2>2, <2>3
  <2>6. DecoderInv'
    BY <2>1, <2>4, <2>5, DecodeKeeps
  <2> QED
    BY <2>1, <2>2, <2>4, <2>6, Sent DEF Inv
<1>4. CASE Lose
  <2>1. /\ ~AllSent /\ next' = next + 1 /\ faults < MaxFaults /\ faults' = faults + 1
        /\ UNCHANGED <<batches, offsets, last, decoder>>
    BY <1>4 DEF Lose, Sending, Fault
  <2>2. ServerInv'
    BY <2>1, PendingIsChunk DEF Inv, ServerInv, IsChunk
  <2>3. DecoderInv'
    BY <2>1 DEF Inv, DecoderInv, AtItsRow, IsChunk, OffsetOf, decoder
  <2> QED
    BY <2>2, <2>3 DEF Inv
<1>5. CASE Repeat
  <2>1. /\ last # <<>> /\ faults < MaxFaults /\ faults' = faults + 1
        /\ UNCHANGED <<batches, offsets, next, last>>
    BY <1>5 DEF Repeat, Fault
  <2>2. PICK c : c = last[1]
    OBVIOUS
  <2>3. PICK r \in Declares(last[1]) : Decode(Response(last[1], r))
    BY <1>5 DEF Repeat
  <2>4. IsChunk(c) /\ r \in 0 .. MaxRows
    BY <2>1, <2>2, <2>3, ChunkFacts, ResultBounds DEF Inv, ServerInv, Declares
  <2>5. Decode(Response(c, r))
    BY <2>2, <2>3
  <2>6. DecoderInv'
    BY <2>1, <2>4, <2>5, DecodeKeeps
  <2>7. ServerInv'
    BY <2>1 DEF Inv, ServerInv, IsChunk
  <2> QED
    BY <2>6, <2>7 DEF Inv
<1>6. ASSUME NEW rows \in 0 .. MaxRows, Misdeclare(rows)
      PROVE  Inv'
  <2>1. /\ ~AllSent /\ next' = next + 1 /\ faults < MaxFaults /\ faults' = faults + 1
        /\ last' = <<Pending>> /\ UNCHANGED <<batches, offsets>>
    BY <1>6 DEF Misdeclare, Sending, Fault
  <2>2. PICK c : c = Pending
    OBVIOUS
  <2>3. IsChunk(c)
    BY <2>1, <2>2, PendingIsChunk DEF Inv
  <2>4. Decode(Response(c, rows))
    BY <1>6, <2>2 DEF Misdeclare
  <2>5. DecoderInv'
    BY <2>1, <2>3, <2>4, DecodeKeeps
  <2> QED
    BY <2>1, <2>2, <2>3, <2>5, Sent DEF Inv
<1>7. CASE Finish
  BY <1>7 DEF Finish, server, Inv, ServerInv, DecoderInv, AtItsRow, IsChunk, OffsetOf
<1> QED
  BY <1>1, <1>2, <1>3, <1>4, <1>5, <1>6, <1>7 DEF Next

LEMMA Invariance == Spec => []Inv
BY InvInit, InvNext, PTL DEF Spec

\* Type correctness of the decoder and of what lies before it (_reassemble).
THEOREM TypesOfReassembly == Spec => []TypeOK
<1>1. Inv => TypeOK
  BY DEF Inv, ServerInv, DecoderInv, TypeOK
<1> QED
  BY <1>1, Invariance, PTL

\* However many responses are lost, repeated or misdeclared, a batch of the
\* result that _reassemble decodes is at the row the result has it at, when the
\* server reports start_offset.
THEOREM BatchesAreAtTheirRows == Spec => []RowExact
<1>1. Inv => RowExact
  BY DEF Inv, DecoderInv, AtItsRow, RowExact
<1> QED
  BY <1>1, Invariance, PTL
-----------------------------------------------------------------------------
(* A stream with one fault at most.                                        *)

Prefix(b, n) == [i \in 1 .. n |-> [batch |-> b, index |-> i - 1]]

\* The decoder has joined what was sent of the last batch.
Position == IF AllSent THEN 0 ELSE next
InStep == pending = Prefix(Len(batches), Position)

\* The row reached, and the response that arrived last, when nothing went wrong.
RowReached == IF AllSent THEN TotalRows ELSE batches[Len(batches)].offset
LastCounts == last # <<>> =>
  last[1].index + 1 = IF pending = <<>> THEN ChunksOf(last[1]) ELSE Len(pending)

\* A response is missing, and the next one to arrive will not be in sequence.
Coherent == \E b \in Nat : pending = Prefix(b, Len(pending))
Gap == Coherent /\ next \in {0, Len(pending) + 1} /\ next # Len(pending)

Undisturbed == faults = 0 =>
  /\ outcome = "reading" => InStep /\ numRecords = RowReached /\ LastCounts
  /\ GoodResultAccepted

OneFault == faults <= 1 =>
  /\ outcome = "reading" => InStep \/ (faults = 1 /\ Gap)
  /\ \A i \in 1 .. Len(decoded) : decoded[i].batch # Mixed

LEMMA PrefixFacts ==
  ASSUME NEW b, NEW n \in Nat
  PROVE  /\ Len(Prefix(b, n)) = n /\ (Prefix(b, n) = <<>> <=> n = 0)
         /\ Append(Prefix(b, n), [batch |-> b, index |-> n]) = Prefix(b, n + 1)
<1>1. Len(Prefix(b, n)) = n
  BY DEF Prefix
<1>2. Prefix(b, n) \in Seq([batch : {b}, index : Nat])
  BY DEF Prefix
<1>3. Prefix(b, n) = <<>> <=> n = 0
  BY <1>1, <1>2
<1>4. Append(Prefix(b, n), [batch |-> b, index |-> n]) = Prefix(b, n + 1)
  BY DEF Prefix
<1> QED
  BY <1>1, <1>3, <1>4

\* The next chunk of the batch that is being joined: it is joined too, or
\* completes the batch, which is decoded as it is, or is refused because of its
\* offset or its row count.
Joins(c) == /\ c.index + 1 # ChunksOf(c) /\ pending' = Prefix(c.batch, c.index + 1)
            /\ UNCHANGED <<numRecords, decoded, outcome>>

Decodes(c) == /\ c.index + 1 = ChunksOf(c) /\ pending' = <<>>
              /\ numRecords' = numRecords + RowsOf(c)
              /\ decoded' = Append(decoded, [batch |-> c.batch, rows |-> RowsOf(c), at |-> numRecords])
              /\ UNCHANGED outcome

Refuses(c, declared) ==
  /\ ~InPlace(c) \/ ~RowCountAgrees(declared, RowsOf(c))
  /\ \E e \in {"offset_error", "count_error"} : Raise(e)

LEMMA DecodeInStep ==
  ASSUME Inv, NEW c, IsChunk(c), NEW declared, pending = Prefix(c.batch, c.index),
         Decode(Response(c, declared))
  PROVE  Joins(c) \/ Decodes(c) \/ Refuses(c, declared)
<1>1. /\ c \in Chunk /\ c.index \in Nat /\ ChunksOf(c) \in 1 .. MaxChunks
      /\ c = [batch |-> c.batch, index |-> c.index]
  <2>1. c \in Chunk /\ c.index \in Nat /\ ChunksOf(c) \in 1 .. MaxChunks
    BY ChunkFacts DEF Inv
  <2> QED
    BY <2>1 DEF Chunk
<1>2. Len(pending) = c.index /\ Append(pending, c) = Prefix(c.batch, c.index + 1)
  BY <1>1, PrefixFacts
<1>3. InSequence(c) /\ Response(c, declared).chunk = c /\ Response(c, declared).rows = declared
  BY <1>2 DEF InSequence, Response
<1>4. Completes(c) <=> c.index + 1 = ChunksOf(c)
  BY <1>1, <1>2, ResultBounds, ChunkFacts DEF Completes, NumChunks, Inv
<1>5. CASE ~InPlace(c)
  BY <1>3, <1>5 DEF Decode, Refuses
<1>6. CASE InPlace(c) /\ ~Completes(c)
  BY <1>2, <1>3, <1>4, <1>6 DEF Decode, Joins
<1>7. CASE InPlace(c) /\ Completes(c)
  <2>1. PICK j : j = Append(pending, c)
    OBVIOUS
  <2>2. Accept(j, declared)
    BY <1>3, <1>7, <2>1 DEF Decode
  <2>3. /\ j = Prefix(c.batch, c.index + 1) /\ Len(j) = ChunksOf(c) /\ c.index + 1 \in Nat
        /\ Len(j) \in Nat /\ 1 \in 1 .. Len(j)
    BY <1>1, <1>2, <1>4, <1>7, <2>1, PrefixFacts, ResultBounds
  <2>4. \A i \in 1 .. Len(j) : j[i] = [batch |-> c.batch, index |-> i - 1]
    BY <2>3, PrefixFacts DEF Prefix
  <2>5. j[1].batch = c.batch
    <3>1. j[1] = [batch |-> c.batch, index |-> 1 - 1]
      BY <2>3, <2>4
    <3> QED
      BY <3>1
  <2>6. IsBatch(j)
    BY <2>3, <2>4, <2>5 DEF IsBatch, ChunksOf
  <2>7. Reads(j) = {[batch |-> c.batch, rows |-> RowsOf(c)]}
    BY <2>5, <2>6 DEF Reads, RowsOf
  <2>8. PICK read : read = [batch |-> c.batch, rows |-> RowsOf(c)]
    OBVIOUS
  <2>9. \/ /\ pending' = <<>> /\ numRecords' = numRecords + read.rows
           /\ decoded' = Append(decoded, [batch |-> read.batch, rows |-> read.rows, at |-> numRecords])
           /\ UNCHANGED outcome
        \/ ~RowCountAgrees(declared, read.rows) /\ Raise("count_error")
    BY <2>2, <2>6, <2>7, <2>8 DEF Accept
  <2>10. CASE ~RowCountAgrees(declared, read.rows) /\ Raise("count_error")
    BY <2>8, <2>10 DEF Refuses
  <2>11. CASE /\ pending' = <<>> /\ numRecords' = numRecords + read.rows
              /\ decoded' = Append(decoded, [batch |-> read.batch, rows |-> read.rows, at |-> numRecords])
              /\ UNCHANGED outcome
    <3>1. read.batch = c.batch /\ read.rows = RowsOf(c)
      BY <2>8
    <3> QED
      BY <1>4, <1>7, <2>11, <3>1 DEF Decodes
  <2> QED
    BY <2>9, <2>10, <2>11
<1> QED
  BY <1>5, <1>6, <1>7

\* Any other chunk is refused.
LEMMA OutOfSequence ==
  ASSUME NEW c, NEW declared, c.index # Len(pending), Decode(Response(c, declared))
  PROVE  Raise("order_error")
BY DEF Decode, Response, InSequence
NoneMixed == \A i \in 1 .. Len(decoded) : decoded[i].batch # Mixed

\* A batch that was decoded in step is one of the result.
LEMMA DecodesUnmixed ==
  ASSUME Inv, NEW c, IsChunk(c), Decodes(c), NoneMixed
  PROVE  NoneMixed'
<1>1. PICK d : d = [batch |-> c.batch, rows |-> RowsOf(c), at |-> numRecords]
  OBVIOUS
<1>2. c.batch \in Batch /\ RowsOf(c) \in 0 .. MaxRows /\ numRecords \in Nat
  BY ChunkFacts DEF Inv, DecoderInv
<1>3. d \in Decoded /\ d.batch # Mixed
  BY <1>1, <1>2, ResultBounds DEF Decoded, Batch, Mixed
<1>4. decoded \in Seq(Decoded) /\ decoded' = Append(decoded, d)
  BY <1>1 DEF Decodes, Inv, DecoderInv
<1> HIDE DEF NoneMixed
<1>5. \A i \in 1 .. Len(decoded') : \/ i \in 1 .. Len(decoded) /\ decoded'[i] = decoded[i]
                                    \/ decoded'[i] = d
  BY <1>3, <1>4
<1> QED
  BY <1>3, <1>5 DEF NoneMixed

\* The next response, of a decoder that is in step, leaves it in step or ends it.
LEMMA NextInStep ==
  ASSUME Inv, outcome = "reading", ~AllSent, InStep, NEW c, c = Pending, NEW declared,
         Decode(Response(c, declared)), next' = next + 1, last' = <<c>>,
         UNCHANGED <<batches, offsets>>
  PROVE  \/ Refuses(c, declared)
         \/ /\ outcome' = "reading" /\ InStep' /\ LastCounts' /\ (NoneMixed => NoneMixed')
            /\ numRecords = RowReached => numRecords' = RowReached'
<1>1. /\ IsChunk(c) /\ batches # <<>> /\ c.batch = Len(batches) /\ c.index = next
      /\ ChunksOf(c) = batches[Len(batches)].chunks /\ next \in Nat
  BY PendingIsChunk DEF Inv, ServerInv, Pending, ChunksOf
<1>2. pending = Prefix(c.batch, c.index)
  BY <1>1 DEF InStep, Position
<1>3. Joins(c) \/ Decodes(c) \/ Refuses(c, declared)
  BY <1>1, <1>2, DecodeInStep
<1>4. last' # <<>> /\ last'[1] = c /\ ChunksOf(c)' = ChunksOf(c) /\ Len(batches)' = Len(batches)
  BY DEF ChunksOf
<1>5. AllSent' <=> c.index + 1 = ChunksOf(c)
  BY <1>1 DEF AllSent
<1>6. CASE Joins(c)
  <2>1. ~AllSent' /\ Position' = c.index + 1 /\ pending' = Prefix(c.batch, c.index + 1)
    BY <1>1, <1>5, <1>6 DEF Joins, Position
  <2>2. InStep'
    BY <2>1, <1>1, <1>4 DEF InStep
  <2>3. Len(pending') = c.index + 1 /\ pending' # <<>>
    <3>1. PICK n : n = c.index + 1
      OBVIOUS
    <3>2. n \in Nat /\ n # 0
      BY <3>1, <1>1
    <3>3. Len(Prefix(c.batch, n)) = n /\ Prefix(c.batch, n) # <<>>
      BY <3>2, PrefixFacts
    <3> QED
      BY <2>1, <3>1, <3>3
  <2>4. LastCounts'
    BY <2>3, <1>4 DEF LastCounts
  <2>5. RowReached' = RowReached
    BY <2>1 DEF RowReached
  <2> QED
    BY <2>2, <2>4, <2>5, <1>6 DEF Joins, NoneMixed
<1>7. CASE Decodes(c)
  <2>1. AllSent' /\ Position' = 0 /\ pending' = <<>>
    BY <1>5, <1>7 DEF Decodes, Position
  <2>2. InStep'
    BY <2>1, PrefixFacts DEF InStep
  <2>3. LastCounts'
    BY <2>1, <1>4, <1>7 DEF LastCounts, Decodes
  <2>4. RowReached' = batches[Len(batches)].offset + batches[Len(batches)].rows
    BY <2>1, <1>1 DEF RowReached, TotalRows
  <2>5. RowReached = batches[Len(batches)].offset /\ RowsOf(c) = batches[Len(batches)].rows
    BY <1>1 DEF RowReached, RowsOf
  <2>6. numRecords = RowReached => numRecords' = RowReached'
    BY <2>4, <2>5, <1>7 DEF Decodes
  <2>7. NoneMixed => NoneMixed'
    BY <1>1, <1>7, DecodesUnmixed
  <2> QED
    BY <2>2, <2>3, <2>6, <2>7, <1>7 DEF Decodes
<1> QED
  BY <1>3, <1>6, <1>7

\* What holds of the decoder, the stream and its faults together.
FaultInv == Undisturbed /\ OneFault

LEMMA FaultInit == Init => FaultInv
<1> SUFFICES ASSUME Init PROVE FaultInv
  OBVIOUS
<1>1. AllSent /\ Len(batches) = 0 /\ pending = <<>> /\ TotalRows = 0 /\ decoded = <<>>
  BY DEF Init, AllSent, TotalRows
<1>2. InStep
  BY <1>1, PrefixFacts DEF InStep, Position
<1>3. numRecords = RowReached /\ LastCounts
  BY <1>1 DEF Init, RowReached, LastCounts
<1>4. GoodResultAccepted
  BY <1>1 DEF Init, GoodResultAccepted
<1> QED
  BY <1>1, <1>2, <1>3, <1>4 DEF FaultInv, Undisturbed, OneFault

\* The server cuts a batch when it has sent the one before.
LEMMA CutKeeps ==
  ASSUME Inv, Inv', FaultInv, NEW chunks \in 1 .. MaxChunks, NEW rows \in 0 .. MaxRows,
         CutBatch(chunks, rows)
  PROVE  FaultInv'
<1>1. /\ outcome = "reading" /\ AllSent /\ next' = 0
      /\ batches' = Append(batches, [chunks |-> chunks, rows |-> rows, offset |-> TotalRows])
      /\ UNCHANGED <<offsets, last, faults, pending, numRecords, decoded, outcome>>
  BY DEF CutBatch, decoder
<1>2. /\ Len(batches)' = Len(batches) + 1 /\ Len(batches) \in Nat /\ batches' # <<>>
      /\ batches'[Len(batches) + 1].chunks = chunks
      /\ batches'[Len(batches) + 1].offset = TotalRows
      /\ \A i \in 1 .. Len(batches) : batches'[i] = batches[i]
  <2>1. PICK b : b = [chunks |-> chunks, rows |-> rows, offset |-> TotalRows]
    OBVIOUS
  <2>2. batches \in Seq(Cut) /\ batches' \in Seq(Cut) /\ batches' = Append(batches, b)
    BY <1>1, <2>1 DEF Inv, ServerInv
  <2>3. batches'[Len(batches) + 1] = b /\ Len(batches') = Len(batches) + 1 /\ Len(batches) \in Nat
    BY <2>2
  <2>4. \A i \in 1 .. Len(batches) : batches'[i] = batches[i]
    BY <2>2
  <2>5. batches' # <<>>
    BY <2>2, <2>3
  <2> QED
    BY <2>1, <2>3, <2>4, <2>5
<1>3. ~AllSent' /\ Position' = 0
  <2>1. ~AllSent'
    BY <1>1, <1>2, ResultBounds DEF AllSent
  <2> QED
    BY <2>1, <1>1 DEF Position
<1>4. InStep => InStep'
  <2>1. \A b : Prefix(b, 0) = <<>>
    BY PrefixFacts
  <2> QED
    BY <2>1, <1>1, <1>3 DEF InStep, Position
<1>5. numRecords = RowReached => numRecords' = RowReached'
  BY <1>1, <1>2, <1>3 DEF RowReached
<1>6. LastCounts => LastCounts'
  <2>1. last # <<>> => ChunksOf(last[1])' = ChunksOf(last[1])
    <3> SUFFICES ASSUME last # <<>> PROVE ChunksOf(last[1])' = ChunksOf(last[1])
      OBVIOUS
    <3>1. IsChunk(last[1])
      BY DEF Inv, ServerInv
    <3>2. last[1].batch \in 1 .. Len(batches)
      BY <3>1, ChunkFacts DEF Inv
    <3> QED
      BY <3>2, <1>1, <1>2 DEF ChunksOf
  <2> QED
    BY <2>1, <1>1 DEF LastCounts
<1>7. Undisturbed'
  BY <1>1, <1>3, <1>4, <1>5, <1>6 DEF FaultInv, Undisturbed, GoodResultAccepted
<1>8. Gap => InStep' \/ Gap'
  <2> SUFFICES ASSUME Gap PROVE InStep' \/ Gap'
    OBVIOUS
  <2>1. CASE Len(pending) = 0
    <3>1. pending' = <<>>
      BY <2>1, <1>1 DEF Inv, DecoderInv
    <3> QED
      BY <3>1, <1>3, PrefixFacts DEF InStep
  <2>2. CASE Len(pending) # 0
    BY <2>2, <1>1 DEF Gap, Coherent
  <2> QED
    BY <2>1, <2>2
<1>9. OneFault'
  BY <1>1, <1>4, <1>8 DEF FaultInv, OneFault
<1> QED
  BY <1>7, <1>9 DEF FaultInv

\* The next response arrives, with its row count or a wrong one.
LEMMA ArrivalKeeps ==
  ASSUME Inv, FaultInv, outcome = "reading", ~AllSent, NEW c, c = Pending, NEW declared,
         Decode(Response(c, declared)), next' = next + 1, last' = <<c>>,
         UNCHANGED <<batches, offsets>>,
         \/ faults' = faults /\ declared \in Declares(c)
         \/ faults' = faults + 1
  PROVE  FaultInv'
<1>1. faults \in Nat /\ ((faults' = 0 \/ faults' = 1) <=> (faults' <= 1))
  BY ResultBounds DEF Inv, ServerInv
<1>2. InStep => \/ Refuses(c, declared)
                \/ /\ outcome' = "reading" /\ InStep' /\ LastCounts' /\ (NoneMixed => NoneMixed')
                   /\ numRecords = RowReached => numRecords' = RowReached'
  BY NextInStep
<1>3. c.index = next
  BY DEF Pending
<1>4. ASSUME Gap PROVE Raise("order_error")
  BY <1>3, <1>4, OutOfSequence DEF Gap
<1>5. ASSUME faults' = 0
      PROVE  outcome' = "reading" /\ InStep' /\ numRecords' = RowReached' /\ LastCounts'
  <2>1. faults = 0 /\ RowCountAgrees(declared, RowsOf(c))
    BY <1>1, <1>5 DEF Declares, RowCountAgrees
  <2>2. InStep /\ numRecords = RowReached
    BY <2>1 DEF FaultInv, Undisturbed
  <2>3. IsChunk(c) /\ c.batch = Len(batches)
    BY PendingIsChunk DEF Inv, Pending
  <2>4. InPlace(c)
    BY <2>2, <2>3 DEF InPlace, OffsetOf, RowReached
  <2> QED
    BY <1>2, <2>1, <2>2, <2>4 DEF Refuses
<1>6. Undisturbed'
  <2>1. ASSUME faults' = 0 PROVE GoodResultAccepted'
    BY <1>5, <2>1 DEF GoodResultAccepted, RowReached
  <2> QED
    BY <1>5, <2>1 DEF Undisturbed
<1>7. OneFault'
  <2> SUFFICES ASSUME faults' <= 1
               PROVE  (outcome' = "reading" => InStep') /\ NoneMixed'
    BY DEF OneFault, NoneMixed
  <2>1. faults <= 1
    BY <1>1
  <2>2. NoneMixed /\ (InStep \/ Gap)
    BY <2>1 DEF FaultInv, OneFault, NoneMixed
  <2>3. ASSUME NEW e, Raise(e), e # "reading" PROVE outcome' # "reading" /\ NoneMixed'
    BY <2>2, <2>3 DEF Raise, NoneMixed
  <2>4. CASE Gap
    BY <1>4, <2>3, <2>4
  <2>5. CASE InStep
    BY <1>2, <2>2, <2>3, <2>5 DEF Refuses
  <2> QED
    BY <2>2, <2>4, <2>5
<1> QED
  BY <1>6, <1>7 DEF FaultInv
\* A response is lost: the next one will not fit.
LEMMA LossKeeps ==
  ASSUME Inv, FaultInv, Lose
  PROVE  FaultInv'
<1>1. /\ outcome = "reading" /\ ~AllSent /\ next' = next + 1 /\ faults' = faults + 1
      /\ UNCHANGED <<batches, offsets, last, pending, numRecords, decoded, outcome>>
  BY DEF Lose, Sending, Fault, decoder
<1>2. faults \in Nat /\ next \in Nat /\ Len(batches) \in Nat
  BY <1>1, ResultBounds DEF Inv, ServerInv
<1>3. Undisturbed'
  BY <1>1, <1>2 DEF Undisturbed
<1>4. OneFault'
  <2> SUFFICES ASSUME faults' <= 1 PROVE Gap' /\ faults' = 1 /\ NoneMixed'
    BY DEF OneFault, NoneMixed
  <2>1. faults = 0 /\ faults' = 1
    BY <1>1, <1>2
  <2>2. pending = Prefix(Len(batches), next) /\ NoneMixed
    BY <1>1, <2>1 DEF FaultInv, Undisturbed, OneFault, NoneMixed, InStep, Position
  <2>3. Len(pending) = next
    BY <1>2, <2>2, PrefixFacts
  <2>4. Coherent'
    BY <1>1, <1>2, <2>2, <2>3 DEF Coherent
  <2>5. Gap'
    BY <1>1, <1>2, <2>3, <2>4 DEF Gap
  <2> QED
    BY <1>1, <2>1, <2>2, <2>5 DEF NoneMixed
<1> QED
  BY <1>3, <1>4 DEF FaultInv

\* A response arrives again: it is refused, or was a batch on its own.
LEMMA RepetitionKeeps ==
  ASSUME Inv, FaultInv, Repeat
  PROVE  FaultInv'
<1>1. /\ outcome = "reading" /\ last # <<>> /\ faults' = faults + 1
      /\ UNCHANGED <<batches, offsets, next, last>>
  BY DEF Repeat, Fault
<1>2. PICK c : c = last[1]
  OBVIOUS
<1>3. PICK r \in Declares(last[1]) : Decode(Response(last[1], r))
  BY DEF Repeat
<1>4. Decode(Response(c, r))
  BY <1>2, <1>3
<1>5. IsChunk(c) /\ faults \in Nat /\ Len(pending) \in Nat
  BY <1>1, <1>2, ResultBounds DEF Inv, ServerInv, DecoderInv
<1>6. c.index \in Nat /\ ChunksOf(c) \in Nat
  BY <1>5, ChunkFacts, ResultBounds DEF Inv
<1>7. Undisturbed'
  BY <1>1, <1>5 DEF Undisturbed
<1>8. OneFault'
  <2> SUFFICES ASSUME faults' <= 1 PROVE (outcome' = "reading" => InStep') /\ NoneMixed'
    BY DEF OneFault, NoneMixed
  <2>1. faults = 0
    BY <1>1, <1>5
  <2>2. InStep /\ LastCounts /\ NoneMixed
    BY <1>1, <2>1 DEF FaultInv, Undisturbed, OneFault, NoneMixed
  <2>3. ASSUME NEW e, Raise(e), e # "reading" PROVE outcome' # "reading" /\ NoneMixed'
    BY <2>2, <2>3 DEF Raise, NoneMixed
  <2>4. CASE c.index # Len(pending)
    BY <1>4, <2>3, <2>4, OutOfSequence
  <2>5. CASE c.index = Len(pending)
    <3>1. pending = <<>> /\ c.index + 1 = ChunksOf(c)
      BY <1>1, <1>2, <1>5, <2>2, <2>5 DEF LastCounts
    <3>2. c.index = 0
      BY <2>5, <3>1
    <3>3. pending = Prefix(c.batch, c.index)
      BY <3>1, <3>2, PrefixFacts
    <3>4. Joins(c) \/ Decodes(c) \/ Refuses(c, r)
      BY <1>4, <1>5, <3>3, DecodeInStep
    <3>5. CASE Decodes(c)
      <4>1. pending' = pending
        BY <3>1, <3>5 DEF Decodes
      <4>2. InStep'
        BY <1>1, <2>2, <4>1 DEF InStep, Position, AllSent
      <4> QED
        BY <4>2, <1>5, <2>2, <3>5, DecodesUnmixed
    <3>6. CASE Refuses(c, r)
      BY <2>3, <3>6 DEF Refuses
    <3> QED
      BY <3>1, <3>4, <3>5, <3>6 DEF Joins
  <2> QED
    BY <2>4, <2>5
<1> QED
  BY <1>7, <1>8 DEF FaultInv

\* The stream ends where the decoder is.
LEMMA FinishKeeps ==
  ASSUME Inv, FaultInv, Finish
  PROVE  FaultInv'
<1>1. /\ outcome = "reading" /\ outcome' = IF pending = <<>> THEN "ok" ELSE "truncated"
      /\ UNCHANGED <<batches, offsets, next, last, faults, pending, numRecords, decoded>>
  BY DEF Finish, server
<1>2. ASSUME faults = 0, AllSent PROVE pending = <<>> /\ numRecords = TotalRows
  <2>1. InStep /\ numRecords = RowReached
    BY <1>1, <1>2 DEF FaultInv, Undisturbed
  <2> QED
    BY <1>2, <2>1, PrefixFacts DEF InStep, Position, RowReached
<1>3. AllSent' = AllSent /\ TotalRows' = TotalRows
  BY <1>1 DEF AllSent, TotalRows
<1>4. Undisturbed'
  BY <1>1, <1>2, <1>3 DEF Undisturbed, GoodResultAccepted
<1>5. OneFault'
  BY <1>1 DEF FaultInv, OneFault
<1> QED
  BY <1>4, <1>5 DEF FaultInv

LEMMA FaultNext == Inv /\ Inv' /\ FaultInv /\ [Next]_vars => FaultInv'
<1> SUFFICES ASSUME Inv, Inv', FaultInv, [Next]_vars PROVE FaultInv'
  OBVIOUS
<1>1. CASE UNCHANGED vars
  <2>1. /\ AllSent' = AllSent /\ TotalRows' = TotalRows /\ InStep' = InStep
        /\ RowReached' = RowReached /\ LastCounts' = LastCounts /\ Gap' = Gap
        /\ UNCHANGED <<faults, outcome, numRecords, decoded>>
    BY <1>1 DEF vars, server, decoder, AllSent, TotalRows, InStep, Position, RowReached,
       LastCounts, ChunksOf, Gap, Coherent
  <2> QED
    BY <2>1 DEF FaultInv, Undisturbed, OneFault, GoodResultAccepted
<1>2. ASSUME NEW chunks \in 1 .. MaxChunks, NEW rows \in 0 .. MaxRows, CutBatch(chunks, rows)
      PROVE  FaultInv'
  BY <1>2, CutKeeps
<1>3. CASE Deliver
  <2>1. PICK c : c = Pending
    OBVIOUS
  <2>2. PICK r \in Declares(Pending) : Decode(Response(Pending, r))
    BY <1>3 DEF Deliver
  <2>3. /\ Decode(Response(c, r)) /\ outcome = "reading" /\ ~AllSent /\ next' = next + 1
        /\ last' = <<c>> /\ r \in Declares(c) /\ UNCHANGED <<batches, offsets, faults>>
    BY <1>3, <2>1, <2>2 DEF Deliver, Sending
  <2> QED
    BY <2>1, <2>3, ArrivalKeeps
<1>4. CASE Lose
  BY <1>4, LossKeeps
<1>5. CASE Repeat
  BY <1>5, RepetitionKeeps
<1>6. ASSUME NEW rows \in 0 .. MaxRows, Misdeclare(rows) PROVE FaultInv'
  <2>1. PICK c : c = Pending
    OBVIOUS
  <2>2. /\ Decode(Response(c, rows)) /\ outcome = "reading" /\ ~AllSent /\ next' = next + 1
        /\ last' = <<c>> /\ faults' = faults + 1 /\ UNCHANGED <<batches, offsets>>
    BY <1>6, <2>1 DEF Misdeclare, Sending, Fault
  <2> QED
    BY <2>1, <2>2, ArrivalKeeps
<1>7. CASE Finish
  BY <1>7, FinishKeeps
<1> QED
  BY <1>1, <1>2, <1>3, <1>4, <1>5, <1>6, <1>7 DEF Next

\* One lost, repeated or misdeclared response never makes _reassemble join
\* chunks of two batches, with or without start_offset.
THEOREM BatchesAreNeverMixed == Spec => []NeverMixed
<1>1. FaultInv => NeverMixed
  BY DEF FaultInv, OneFault, NeverMixed
<1> QED
  BY <1>1, FaultInit, FaultNext, Invariance, PTL DEF Spec

\* No check of _reassemble refuses a stream without a fault, and what it
\* decodes of it has all its rows.
THEOREM GoodResultsAreAccepted == Spec => []GoodResultAccepted
<1>1. FaultInv => GoodResultAccepted
  BY DEF FaultInv, Undisturbed, GoodResultAccepted
<1> QED
  BY <1>1, FaultInit, FaultNext, Invariance, PTL DEF Spec
=============================================================================
