-------------------------- MODULE ArrowReassembly --------------------------
(***************************************************************************)
(* Reassembling a query result from the ExecutePlan responses              *)
(* (arrow/results.py, _reassemble).  The server cuts the result into arrow *)
(* batches, each a run of rows, and each batch into chunks, one response   *)
(* each.  The stream the decoder reads may differ from what the server     *)
(* meant to send: a response may be missing, repeated or wrong about its   *)
(* row count, as after a recovery that resumes one response off.  The      *)
(* decoder takes one response at a time, joins the chunks of a batch,      *)
(* decodes them, and raises when it sees a fault.                          *)
(*                                                                         *)
(* A chunk is the pair of its batch and its index.  Bytes that are not the *)
(* chunks of one batch are decoded by pyarrow to anything: an error, or    *)
(* any number of rows.                                                     *)
(***************************************************************************)
EXTENDS Naturals, Sequences

CONSTANTS
  MaxBatches,  \* bound: batches of one result
  MaxChunks,   \* bound: chunks of one batch
  MaxRows,     \* bound: rows of one batch
  MaxFaults    \* bound: faults of one stream

ASSUME ResultBounds ==
  MaxBatches \in Nat /\ MaxChunks \in Nat \ {0} /\ MaxRows \in Nat /\ MaxFaults \in Nat

VARIABLES
  batches,     \* the batches the server has cut so far: chunks, rows, first row
  offsets,     \* does this server report start_offset?
  next,        \* index of the next chunk of the last batch
  last,        \* the response that arrived last
  faults,      \* faults so far
  pending,     \* chunks of the batch being joined
  numRecords,  \* rows of the batches decoded so far
  decoded,     \* the batches decoded: which one, its rows, the row it was put at
  outcome      \* "reading", "ok", or what was raised

server  == <<batches, offsets, next, last, faults>>
decoder == <<pending, numRecords, decoded, outcome>>
vars    == <<server, decoder>>

Batch   == 1 .. MaxBatches
Mixed   == 0    \* the decoded bytes were not those of one batch
Chunk   == [batch : Batch, index : 0 .. MaxChunks - 1]
Cut     == [chunks : 1 .. MaxChunks, rows : 0 .. MaxRows, offset : Nat]

Init ==
  /\ batches = <<>> /\ offsets \in BOOLEAN /\ next = 0
  /\ last = <<>> /\ faults = 0
  /\ pending = <<>> /\ numRecords = 0 /\ decoded = <<>> /\ outcome = "reading"

-----------------------------------------------------------------------------
(* The decoder: the body of the loop, for the response resp, which carries *)
(* a chunk, the number of chunks of its batch (0: the field is absent) and *)
(* the rows and the first row of the batch.                                *)

Response(c, rows) == [chunk |-> c, rows |-> rows]
ChunksOf(c) == batches[c.batch].chunks
OffsetOf(c) == batches[c.batch].offset

\* A server that does not chunk leaves num_chunks_in_batch out.
NumChunks(c) == IF ChunksOf(c) = 1 THEN 0 ELSE ChunksOf(c)

Raise(error) ==
  /\ outcome' = error
  /\ UNCHANGED <<pending, numRecords, decoded>>

\* MUTANT of InSequence: a chunk is only checked when it starts a batch.
FirstChunkOnly(c) == pending = <<>> => c.index = 0

\* Mid-batch the next chunk continues the sequence, else it is chunk 0.
InSequence(c) == c.index = Len(pending)

\* MUTANT of InPlace: the offset must not be behind the rows read.
NotBehind(c) == pending = <<>> /\ offsets => OffsetOf(c) >= numRecords

\* The first chunk of a batch starts at the row reached, if the server says.
InPlace(c) == pending = <<>> /\ offsets => OffsetOf(c) = numRecords

Completes(c) == NumChunks(c) = 0 \/ Len(pending) + 1 = NumChunks(c)

IsBatch(chunks) ==
  /\ \A i \in 1 .. Len(chunks) :
       chunks[i] = [batch |-> chunks[1].batch, index |-> i - 1]
  /\ Len(chunks) = ChunksOf(chunks[1])

\* What pyarrow may read from the joined bytes.
Reads(chunks) ==
  IF IsBatch(chunks)
  THEN {[batch |-> chunks[1].batch, rows |-> batches[chunks[1].batch].rows]}
  ELSE {[batch |-> Mixed, rows |-> r] : r \in 0 .. MaxRows}

\* MUTANT of RowCountAgrees: a count of 0 is compared like any other.
ZeroIsACount(declared, rows) == declared = rows

\* row_count: `declared or rows_in_batch`, so that 0 agrees with any count.
RowCountAgrees(declared, rows) == declared = 0 \/ declared = rows

Accept(joined, declared) ==
  \/ \E read \in Reads(joined) :
       \/ /\ RowCountAgrees(declared, read.rows)
          /\ pending' = <<>>
          /\ numRecords' = numRecords + read.rows
          /\ decoded' = Append(decoded, [batch |-> read.batch, rows |-> read.rows,
                                         at |-> numRecords])
          /\ UNCHANGED outcome
       \/ ~RowCountAgrees(declared, read.rows) /\ Raise("count_error")
  \/ ~IsBatch(joined) /\ Raise("decode_error")

Decode(resp) ==
  \/ ~InSequence(resp.chunk) /\ Raise("order_error")
  \/ InSequence(resp.chunk) /\ ~InPlace(resp.chunk) /\ Raise("offset_error")
  \/ /\ InSequence(resp.chunk) /\ InPlace(resp.chunk)
     /\ \/ /\ ~Completes(resp.chunk)
           /\ pending' = Append(pending, resp.chunk)
           /\ UNCHANGED <<numRecords, decoded, outcome>>
        \/ /\ Completes(resp.chunk)
           /\ Accept(Append(pending, resp.chunk), resp.rows)

\* The stream ends: ok, unless it ends inside a batch.
Finish ==
  /\ outcome = "reading"
  /\ outcome' = IF pending = <<>> THEN "ok" ELSE "truncated"
  /\ UNCHANGED <<server, pending, numRecords, decoded>>

-----------------------------------------------------------------------------
(* The server and what lies between it and the decoder.                    *)

TotalRows == IF batches = <<>> THEN 0
             ELSE batches[Len(batches)].offset + batches[Len(batches)].rows

AllSent == batches # <<>> => next = batches[Len(batches)].chunks

CutBatch(chunks, rows) ==
  /\ outcome = "reading" /\ AllSent /\ Len(batches) < MaxBatches
  /\ batches' = Append(batches, [chunks |-> chunks, rows |-> rows, offset |-> TotalRows])
  /\ next' = 0
  /\ UNCHANGED <<offsets, last, faults, decoder>>

Pending == [batch |-> Len(batches), index |-> next]

Sending ==
  /\ outcome = "reading" /\ ~AllSent
  /\ next' = next + 1

Fault == faults < MaxFaults /\ faults' = faults + 1

RowsOf(c) == batches[c.batch].rows

\* The row_count of a response; a server that declares none leaves it 0.
Declares(c) == {0, RowsOf(c)}

\* The next response arrives.
Deliver ==
  /\ Sending
  /\ \E declared \in Declares(Pending) : Decode(Response(Pending, declared))
  /\ last' = <<Pending>>
  /\ UNCHANGED <<batches, offsets, faults>>

\* It never arrives.
Lose ==
  /\ Sending /\ Fault
  /\ UNCHANGED <<batches, offsets, last, decoder>>

\* The response that arrived last arrives again.
Repeat ==
  /\ outcome = "reading" /\ last # <<>> /\ Fault
  /\ \E declared \in Declares(last[1]) : Decode(Response(last[1], declared))
  /\ UNCHANGED <<batches, offsets, next, last>>

\* Its row_count is wrong.
Misdeclare(rows) ==
  /\ Sending /\ Fault /\ rows \notin Declares(Pending)
  /\ Decode(Response(Pending, rows))
  /\ last' = <<Pending>>
  /\ UNCHANGED <<batches, offsets>>

Next ==
  \/ \E chunks \in 1 .. MaxChunks, rows \in 0 .. MaxRows : CutBatch(chunks, rows)
  \/ Deliver \/ Lose \/ Repeat
  \/ \E rows \in 0 .. MaxRows : Misdeclare(rows)
  \/ Finish

Spec == Init /\ [][Next]_vars
-----------------------------------------------------------------------------
Decoded == [batch : Batch \cup {Mixed}, rows : 0 .. MaxRows, at : Nat]

\* Every variable has its type.
TypeOK ==
  /\ batches \in Seq(Cut) /\ Len(batches) <= MaxBatches
  /\ offsets \in BOOLEAN /\ next \in 0 .. MaxChunks
  /\ last \in Seq(Chunk) /\ Len(last) <= 1
  /\ faults \in 0 .. MaxFaults
  /\ pending \in Seq(Chunk) /\ Len(pending) < MaxChunks
  /\ numRecords \in Nat /\ decoded \in Seq(Decoded)
  /\ outcome \in {"reading", "ok", "order_error", "offset_error", "count_error",
                  "decode_error", "truncated"}

\* With one fault at most, whatever is decoded is a whole batch of the result:
\* chunks of two batches are never joined, with or without start_offset.
NeverMixed == faults <= 1 => \A i \in 1 .. Len(decoded) : decoded[i].batch # Mixed

\* With a server that reports start_offset, every batch of the result that is
\* decoded is put at the row it has there, whatever was lost or repeated before
\* it ("byte/row-exact", arrow/results.py:171).
RowExact == offsets => \A i \in 1 .. Len(decoded) :
  decoded[i].batch # Mixed => decoded[i].at = batches[decoded[i].batch].offset

\* No check rejects a good stream: without a fault, a stream cut between two
\* batches is decoded whole, and one cut inside a batch is truncated.  A batch
\* whose row_count is 0 is no fault, and later batches are placed by the rows
\* it was decoded to, not by the 0 (arrow/results.py:139-145).
GoodResultAccepted == faults = 0 =>
  /\ outcome \in {"reading", "ok", "truncated"}
  /\ AllSent => outcome # "truncated" /\ numRecords = TotalRows
=============================================================================
