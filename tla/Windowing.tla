------------------------------ MODULE Windowing ------------------------------
(***************************************************************************)
(* The bytes in the data SAB: how the worker lays out a request            *)
(* (_write_request, growing the SAB if it must), how the bridge parses it  *)
(* (_readRequest), cuts a message into windows (_emitMessage,              *)
(* _writeWindow), and how the worker joins them (_read_window,             *)
(* _reassemble_windows).  Whose turn it is, is SabTransport's concern:     *)
(* here the two alternate, and the bridge is attached to the SAB that the  *)
(* worker uses.                                                            *)
(*                                                                         *)
(* A byte is a digit of a length, or it is byte number "at" of a document  *)
(* "of": the JSON of a header or of a window's meta, or a body.  The SAB   *)
(* keeps what earlier exchanges left in it.                                *)
(***************************************************************************)
EXTENDS Integers, Sequences, FiniteSetsExt

CONSTANTS
  Base,        \* values of a byte: 256 in the code
  MetaZone,    \* META_ZONE: 4096 in the code
  InitSize,    \* the first SAB: 16 MiB in the code
  RestMeta,    \* length of the meta {"more": ..} of a later window
  ErrorMeta,   \* length of the meta of an error
  HeaderLens, BodyLens,   \* lengths of requests
  MetaLens, PayloadLens,  \* lengths of a first meta and of a message
  MaxRounds,   \* bound: exchanges
  MaxMessages  \* bound: messages of an exchange

ASSUME WindowBounds ==
  /\ Base \in Nat \ {0, 1} /\ MetaZone \in Nat
  /\ MaxRounds \in Nat /\ MaxMessages \in Nat \ {0}
  /\ HeaderLens \subseteq Nat \ {0} /\ MetaLens \subseteq Nat \ {0}
  /\ BodyLens \subseteq Nat /\ PayloadLens \subseteq Nat
  /\ RestMeta \in 1 .. MetaZone /\ ErrorMeta \in 1 .. MetaZone
  /\ InitSize \in Nat /\ InitSize > MetaZone + 4

\* Bound: a SAB is doubled four times at most.
Doubled == {1, 2, 4, 8, 16}

\* The largest request fits then, and every length is a 32-bit number.
ASSUME LengthBounds ==
  /\ \A h \in HeaderLens, b \in BodyLens : 8 + h + b <= 16 * InitSize
  /\ \A n \in HeaderLens \cup BodyLens \cup MetaLens \cup {RestMeta, ErrorMeta} :
       n < Base * (Base * (Base * Base))

VARIABLES
  pc,       \* "user", "read" (main parses), "emit" (main writes), "window" (worker reads)
  sab,      \* the data SAB, a sequence of bytes
  length,   \* C_LENGTH
  round,    \* exchanges so far
  asked,    \* the request the worker was given
  parsed,   \* the request main parsed
  message,  \* the message main emits: meta base and payload
  count,    \* messages of this exchange so far
  sent,     \* bytes of it that are in windows already
  first,    \* main: the next window is the first
  parts,    \* worker: the first meta and the payloads read so far, joined
  result    \* worker: what the last call or next() returned

vars == <<pc, sab, length, round, asked, parsed, message, count, sent, first, parts, result>>

-----------------------------------------------------------------------------
(* Bytes.                                                                  *)

Doc(what, of, more, len) == [what |-> what, round |-> of, more |-> more, len |-> len]
Number   == Doc("number", 0, FALSE, 4)
Nothing  == Doc("nothing", 0, FALSE, 0)
Garbage  == Doc("garbage", 0, FALSE, 0)
Digit(d) == [of |-> Number, at |-> d]
Bytes(doc) == [k \in 1 .. doc.len |-> [of |-> doc, at |-> k]]

Shift(v) == v \div Base
PutU32(v) == <<Digit(v % Base), Digit(Shift(v) % Base), Digit(Shift(Shift(v)) % Base),
               Digit(Shift(Shift(Shift(v))) % Base)>>

\* Off the end of a typed array JavaScript reads undefined, which shifts to 0.
At(i) == IF i <= Len(sab) THEN sab[i].at ELSE 0

\* MUTANT of GetU32: the most significant byte is taken for the first.
BigEndian(off) == At(off + 4) + Base * (At(off + 3) + Base * (At(off + 2) + Base * At(off + 1)))

\* Some number comes out of bytes that are no digits, too.
GetU32(off) == At(off + 1) + Base * (At(off + 2) + Base * (At(off + 3) + Base * At(off + 4)))

\* Bytes off + 1 .. off + n, as far as there are that many.
Slice(off, n) == SubSeq(sab, off + 1, Min({off + n, Len(sab)}))

Put(old, bytes) == bytes \o SubSeq(old, Len(bytes) + 1, Len(old))

\* JSON.parse and json.loads take exactly one document.
Parse(b) == IF b # <<>> /\ b = Bytes(b[1].of) THEN b[1].of ELSE Garbage

Blank(n) == [k \in 1 .. n |-> Digit(0)]

Init ==
  /\ pc = "user" /\ sab = Blank(InitSize) /\ length = 0 /\ round = 0 /\ count = 0
  /\ asked = <<Nothing, Nothing>> /\ parsed = asked /\ message = asked
  /\ sent = 0 /\ first = TRUE /\ parts = <<>> /\ result = <<Nothing, <<>>>>

-----------------------------------------------------------------------------
(* The request.                                                            *)

\* MUTANT of Grown: the SAB becomes as large as this request, and no larger.
GrownToFit(size, needed) == Max({size, needed})

\* MUTANT of Grown: the SAB is doubled once.
GrownOnce(size, needed) == IF needed > size THEN 2 * size ELSE size

\* Doubled until it is large enough.
Grown(size, needed) == Min({n \in {size * d : d \in Doubled} : n >= needed})

\* Setting bytes past the end of a typed array raises a RangeError.
WriteRequest(h, b) ==
  LET needed == 4 + h + 4 + b
      size   == Grown(Len(sab), needed)
      blank  == IF size = Len(sab) THEN sab ELSE Blank(size)
      header == Doc("header", round + 1, FALSE, h)
      body   == Doc("body", round + 1, FALSE, b)
  IN  /\ pc = "user" /\ round < MaxRounds
      /\ round' = round + 1 /\ asked' = <<header, body>>
      /\ count' = 0 /\ parts' = <<>>
      /\ IF needed <= size
           THEN /\ sab' = Put(blank, PutU32(h) \o Bytes(header) \o PutU32(b) \o Bytes(body))
                /\ length' = needed
                /\ pc' = "read"
                /\ result' = <<Nothing, <<>>>>
           ELSE result' = <<Doc("raised", round', FALSE, 0), <<>>>> /\ UNCHANGED <<sab, length, pc>>
      /\ UNCHANGED <<parsed, message, sent, first>>

\* A message of the response: m is the length of the meta of its first window.
StartMessage(what, m, p) ==
  /\ message' = <<Doc(what, round, FALSE, m), Doc("payload", round * 10 + count, FALSE, p)>>
  /\ count' = count + 1
  /\ sent' = 0 /\ first' = TRUE
  /\ pc' = "emit"

ReadRequest(m, p) ==
  LET h == GetU32(0)
      b == GetU32(4 + h)
  IN  /\ pc = "read"
      /\ parsed' = <<Parse(Slice(4, h)), IF b = 0 THEN Doc("body", round, FALSE, 0)
                                           ELSE Parse(Slice(8 + h, b))>>
      /\ StartMessage("first", m, p)
      /\ UNCHANGED <<sab, length, round, asked, parts, result>>

-----------------------------------------------------------------------------
(* A message, in windows.                                                  *)

\* MUTANT of Capacity: the four bytes of meta_len are forgotten.
CapacityOnly == Len(sab) - MetaZone

Capacity == Len(sab) - MetaZone - 4

\* MUTANT of More: one window more than there is.
MoreAtEnd(end, total) == end <= total

More(end, total) == end < total

\* handleRpc's catch turns a RangeError into an error for the worker.
Window(state, meta, payload) ==
  LET whole == PutU32(meta.len) \o Bytes(meta) \o payload
      error == Doc("error", round, FALSE, ErrorMeta)
      bytes == IF Len(whole) <= Len(sab) THEN whole ELSE PutU32(ErrorMeta) \o Bytes(error)
  IN  /\ sab' = Put(sab, bytes) /\ length' = Len(bytes)
      /\ pc' = IF Len(whole) <= Len(sab) THEN state ELSE "error"

EmitWindow ==
  LET total == message[2].len
      end   == Min({sent + Capacity, total})
      more  == More(end, total)
      base  == message[1]
      meta  == IF first THEN [base EXCEPT !.more = more] ELSE Doc("rest", round, more, RestMeta)
  IN  /\ pc = "emit" /\ (first \/ sent < total)
      /\ Window("window", meta, SubSeq(Bytes(message[2]), sent + 1, end))
      /\ sent' = end /\ first' = FALSE
      /\ UNCHANGED <<round, asked, parsed, message, count, parts, result>>

\* MUTANT of PayloadEnd: the payload is taken to end with the SAB.
ToTheEnd == Len(sab)

PayloadEnd == length

ReadWindow ==
  LET n    == GetU32(0)
      meta == Parse(Slice(4, n))
      new  == SubSeq(sab, 5 + n, PayloadEnd)
      got  == IF parts = <<>> THEN <<meta, new>> ELSE <<parts[1], parts[2] \o new>>
  IN  /\ pc = "window"
      /\ IF meta.more
           THEN pc' = "emit" /\ parts' = got /\ UNCHANGED result
           ELSE /\ pc' = "user" /\ parts' = <<>>
                /\ result' = got
      /\ UNCHANGED <<sab, length, round, asked, parsed, message, count, sent, first>>

SeeError ==
  /\ pc = "error" /\ pc' = "user" /\ parts' = <<>>
  /\ result' = <<Parse(Slice(4, GetU32(0))), <<>>>>
  /\ UNCHANGED <<sab, length, round, asked, parsed, message, count, sent, first>>

\* The next chunk of a stream, never empty; its meta has no headers.
NextChunk(p) ==
  /\ pc = "user" /\ count \in 1 .. MaxMessages - 1 /\ p > 0 /\ result[1].what # "error"
  /\ StartMessage("rest", RestMeta, p)
  /\ UNCHANGED <<sab, length, round, asked, parsed, parts, result>>

Step ==
  \/ \E m \in MetaLens, p \in PayloadLens : ReadRequest(m, p)
  \/ EmitWindow \/ ReadWindow \/ SeeError

Next ==
  \/ \E h \in HeaderLens, b \in BodyLens : WriteRequest(h, b)
  \/ \E p \in PayloadLens : NextChunk(p)
  \/ Step

Spec == Init /\ [][Next]_vars

\* The two sides take their turns.
FairSpec == Spec /\ WF_vars(Step)
-----------------------------------------------------------------------------
\* The control state, and counters that stay in range: a window is never
\* longer than the SAB, and the SAB is the first one doubled some times.
TypeOK ==
  /\ pc \in {"user", "read", "emit", "window", "error"}
  /\ round \in 0 .. MaxRounds /\ count \in 0 .. MaxMessages
  /\ length \in 0 .. Len(sab) /\ sent \in 0 .. message[2].len /\ first \in BOOLEAN
  /\ \E d \in Doubled : Len(sab) = InitSize * d

\* Main fetches with the header and the body the worker was given, for every
\* pair of lengths, whatever earlier exchanges left in the SAB and however
\* often it grew, and no request is too large.
RequestIntact ==
  /\ pc \in {"emit", "window"} => parsed = asked
  /\ result[1].what # "raised"

\* A message is returned byte for byte and with the meta of its first window,
\* however many windows it took.
MessageIntact ==
  pc = "user" /\ count > 0 /\ result[1].what # "error" =>
    /\ result[2] = Bytes(message[2])
    /\ [result[1] EXCEPT !.more = FALSE] = message[1]

\* Only a first meta that outgrows META_ZONE can fail to fit, so headers below
\* that size never turn a large result into an error (sab_channel.py:253-256).
OnlyBigMetaFails ==
  pc = "error" \/ (pc = "user" /\ result[1].what = "error") => message[1].len > MetaZone

\* Liveness.  Every message arrives, in however many windows, or is an error.
MessageArrives == pc # "user" ~> pc = "user"
=============================================================================
