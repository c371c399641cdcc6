-------------------------- MODULE WindowingProofs --------------------------
(***************************************************************************)
(* The data SAB for every width of a byte, every META_ZONE and first size, *)
(* and all lengths of four digits: requests and messages arrive byte for   *)
(* byte, and only metadata beyond META_ZONE makes a message fail.          *)
(*                                                                         *)
(* The properties say what was read; IInv says what the SAB holds from the *)
(* moment one side has written until the other has read (Holds), whatever  *)
(* earlier exchanges left behind it.                                       *)
(***************************************************************************)
EXTENDS Windowing, TLAPS

Names == {"nothing", "garbage", "number", "header", "body", "first", "rest", "payload",
          "error", "raised"}
Docs == [what : Names, round : Nat, more : BOOLEAN, len : Nat]
Byte == [of : Docs, at : Nat]
Sizes == {InitSize * d : d \in Doubled}

\* The bytes of s after the first off start with these.
Holds(s, off, bytes) ==
  /\ off + Len(bytes) <= Len(s)
  /\ \A k \in 1 .. Len(bytes) : s[off + k] = bytes[k]

-----------------------------------------------------------------------------
(* Numbers.                                                                *)

\* Division by a base.
LEMMA DivMod ==
  ASSUME NEW b \in Nat, b > 0, NEW a \in Nat
  PROVE  a \div b \in Nat /\ a % b \in Nat /\ a % b < b /\ a % b = a - b * (a \div b)
<1>1. a % b = a - b * (a \div b)
  OBVIOUS
<1>2. a \div b \in Nat
  OBVIOUS
<1>3. a % b \in 0 .. b - 1
  OBVIOUS
<1> QED
  BY <1>1, <1>2, <1>3

LEMMA Grows ==
  ASSUME NEW b \in Nat, b > 0, NEW m \in Nat, NEW n \in Nat, m >= n
  PROVE  b * m >= b * n
OBVIOUS

\* A digit and what is left of the number without it.
LEMMA Shifts ==
  ASSUME NEW v \in Nat, NEW n \in Nat, v < Base * n
  PROVE  /\ Shift(v) \in Nat /\ Shift(v) < n
         /\ v % Base \in Nat /\ v % Base < Base /\ v = (v % Base) + Base * Shift(v)
<1>1. Base \in Nat /\ Base > 0
  BY WindowBounds
<1>2. Shift(v) \in Nat /\ v % Base \in Nat /\ v % Base < Base /\ v % Base = v - Base * Shift(v)
  BY <1>1, DivMod DEF Shift
<1> DEFINE q == Shift(v)
           r == v % Base
<1>3. q \in Nat /\ r \in Nat /\ r = v - Base * q
  BY <1>2
<1> HIDE DEF q, r
<1>4. v = r + Base * q
  BY <1>1, <1>3
<1>5. q < n
  <2> SUFFICES ASSUME q >= n PROVE FALSE
    BY <1>3
  <2>1. Base * q >= Base * n
    BY <1>1, <1>3, Grows
  <2> DEFINE bq == Base * q
             bn == Base * n
  <2>2. bq \in Nat /\ bn \in Nat
    BY <1>1, <1>3
  <2> HIDE DEF bq, bn
  <2>3. bq >= bn /\ v < bn /\ v = r + bq
    BY <1>4, <2>1 DEF bq, bn
  <2> QED
    BY <1>3, <2>2, <2>3
<1> QED
  BY <1>2, <1>4, <1>5 DEF q, r

\* Four digits make up every number of four digits.
LEMMA Digits ==
  ASSUME NEW v \in Nat, v < Base * (Base * (Base * Base))
  PROVE  v = (v % Base) + Base * ((Shift(v) % Base) + Base *
               ((Shift(Shift(v)) % Base) + Base * (Shift(Shift(Shift(v))) % Base)))
<1> DEFINE b2 == Base * Base
           b3 == Base * b2
<1>1. Base \in Nat /\ Base > 0 /\ b2 \in Nat /\ b3 \in Nat
  BY WindowBounds
<1>2. Shift(v) \in Nat /\ Shift(v) < b3 /\ v = (v % Base) + Base * Shift(v)
  BY <1>1, Shifts
<1>3. /\ Shift(Shift(v)) \in Nat /\ Shift(Shift(v)) < b2
      /\ Shift(v) = (Shift(v) % Base) + Base * Shift(Shift(v))
  BY <1>1, <1>2, Shifts
<1>4. /\ Shift(Shift(Shift(v))) \in Nat /\ Shift(Shift(Shift(v))) < Base
      /\ Shift(Shift(v)) = (Shift(Shift(v)) % Base) + Base * Shift(Shift(Shift(v)))
  BY <1>1, <1>3, Shifts
<1>5. Shift(Shift(Shift(v))) % Base = Shift(Shift(Shift(v)))
  BY <1>1, <1>4
<1> QED
  BY <1>2, <1>3, <1>4, <1>5, Zenon

-----------------------------------------------------------------------------
(* Bytes.                                                                  *)

\* n of something in a row.
LEMMA Sequence ==
  ASSUME NEW S, NEW n \in Nat, NEW s, s = [k \in 1 .. n |-> s[k]], \A k \in 1 .. n : s[k] \in S
  PROVE  s \in Seq(S) /\ Len(s) = n
OBVIOUS

\* The fixed documents, and that a window's flag changes nothing else of its meta.
LEMMA DocTypes ==
  /\ Number \in Docs /\ Nothing \in Docs
  /\ \A doc \in Docs, m \in BOOLEAN :
       LET other == [doc EXCEPT !.more = m] IN
         other \in Docs /\ other.len = doc.len /\ other.what = doc.what /\ other.more = m
BY DEF Number, Nothing, Docs, Doc, Names

LEMMA DocOf ==
  ASSUME NEW w \in Names, NEW n \in Nat, NEW l \in Nat
  PROVE  /\ Doc(w, n, FALSE, l) \in Docs /\ Doc(w, n, FALSE, l).what = w
         /\ Doc(w, n, FALSE, l).more = FALSE /\ Doc(w, n, FALSE, l).len = l
BY DEF Docs, Doc

\* The two halves of a request or a message.
LEMMA PairOf ==
  ASSUME NEW x \in Docs \X Docs
  PROVE  x = <<x[1], x[2]>> /\ x[1] \in Docs /\ x[2] \in Docs
OBVIOUS

\* The bytes of a document, and of a new SAB.
LEMMA BytesOf ==
  ASSUME NEW doc \in Docs
  PROVE  /\ Bytes(doc) \in Seq(Byte) /\ Len(Bytes(doc)) = doc.len /\ doc.len \in Nat
         /\ \A k \in 1 .. doc.len : Bytes(doc)[k] = [of |-> doc, at |-> k]
<1> DEFINE s == Bytes(doc)
<1>1. doc.len \in Nat
  BY DEF Docs
<1>2. s = [k \in 1 .. doc.len |-> [of |-> doc, at |-> k]]
  BY DEF Bytes
<1>3. \A k \in 1 .. doc.len : s[k] = [of |-> doc, at |-> k] /\ s[k] \in Byte
  BY <1>1, <1>2 DEF Byte
<1> QED
  BY <1>1, <1>2, <1>3, Sequence

LEMMA BlankOf ==
  ASSUME NEW n \in Nat
  PROVE  Blank(n) \in Seq(Byte) /\ Len(Blank(n)) = n
<1> DEFINE s == Blank(n)
<1>1. s = [k \in 1 .. n |-> Digit(0)] /\ Digit(0) \in Byte
  BY DocTypes DEF Blank, Digit, Byte
<1> QED
  BY <1>1, Sequence

\* A length is written as four digits.
LEMMA DigitsOf ==
  ASSUME NEW v \in Nat
  PROVE  /\ PutU32(v) \in Seq(Byte) /\ Len(PutU32(v)) = 4
         /\ PutU32(v)[1].at = v % Base /\ PutU32(v)[2].at = Shift(v) % Base
         /\ PutU32(v)[3].at = Shift(Shift(v)) % Base
         /\ PutU32(v)[4].at = Shift(Shift(Shift(v))) % Base
<1>1. \A n \in Nat : Shift(n) \in Nat /\ n % Base \in Nat
  BY WindowBounds, DivMod DEF Shift
<1>2. \A n \in Nat : Digit(n) \in Byte /\ Digit(n).at = n
  BY DocTypes DEF Digit, Byte
<1> QED
  BY <1>1, <1>2 DEF PutU32

LEMMA Concat ==
  ASSUME NEW a \in Seq(Byte), NEW b \in Seq(Byte)
  PROVE  a \o b \in Seq(Byte) /\ Len(a \o b) = Len(a) + Len(b) /\ Len(a) \in Nat /\ Len(b) \in Nat
OBVIOUS

\* What holds a text holds its parts, each at its place.
LEMMA HoldsBoth ==
  ASSUME NEW s \in Seq(Byte), NEW off \in Nat, NEW a \in Seq(Byte), NEW b \in Seq(Byte),
         Holds(s, off, a \o b), NEW mid \in Nat, mid = off + Len(a)
  PROVE  Holds(s, off, a) /\ Holds(s, mid, b)
<1>1. /\ Len(a \o b) = Len(a) + Len(b) /\ Len(a) \in Nat /\ Len(b) \in Nat /\ Len(s) \in Nat
      /\ \A k \in 1 .. Len(a) : (a \o b)[k] = a[k]
      /\ \A k \in 1 .. Len(b) : (a \o b)[Len(a) + k] = b[k]
  OBVIOUS
<1>2. Holds(s, off, a)
  BY <1>1 DEF Holds
<1>3. \A k \in 1 .. Len(b) : s[(off + Len(a)) + k] = b[k]
  <2> SUFFICES ASSUME NEW k \in 1 .. Len(b) PROVE s[(off + Len(a)) + k] = b[k]
    OBVIOUS
  <2>1. Len(a) + k \in 1 .. Len(a \o b) /\ off + (Len(a) + k) = (off + Len(a)) + k
    BY <1>1
  <2>2. s[off + (Len(a) + k)] = (a \o b)[Len(a) + k]
    BY <2>1 DEF Holds
  <2> QED
    BY <1>1, <2>1, <2>2
<1>4. (off + Len(a)) + Len(b) <= Len(s)
  BY <1>1 DEF Holds
<1> QED
  BY <1>2, <1>3, <1>4 DEF Holds

\* Writing over what was there: the rest is left as it was.
LEMMA PutHolds ==
  ASSUME NEW old \in Seq(Byte), NEW bytes \in Seq(Byte), Len(bytes) <= Len(old)
  PROVE  Put(old, bytes) \in Seq(Byte) /\ Len(Put(old, bytes)) = Len(old) /\ Holds(Put(old, bytes), 0, bytes)
<1> DEFINE rest == SubSeq(old, Len(bytes) + 1, Len(old))
<1>1. rest \in Seq(Byte) /\ Len(rest) = Len(old) - Len(bytes) /\ Len(bytes) \in Nat /\ Len(old) \in Nat
  OBVIOUS
<1> HIDE DEF rest
<1>2. /\ bytes \o rest \in Seq(Byte) /\ Len(bytes \o rest) = Len(old)
      /\ \A k \in 1 .. Len(bytes) : (bytes \o rest)[0 + k] = bytes[k]
  BY <1>1
<1>3. Put(old, bytes) = bytes \o rest
  BY DEF Put, rest
<1> QED
  BY <1>1, <1>2, <1>3 DEF Holds

\* A request in the SAB, and a window.
LEMMA HoldsThree ==
  ASSUME NEW s \in Seq(Byte), NEW a \in Seq(Byte), NEW b \in Seq(Byte), NEW c \in Seq(Byte),
         NEW n \in Nat, Len(a) = 4, Len(b) = n, Holds(s, 0, (a \o b) \o c)
  PROVE  Holds(s, 0, a) /\ Holds(s, 4, b) /\ Holds(s, 4 + n, c)
<1>1. a \o b \in Seq(Byte) /\ Len(a \o b) = 4 + n
  BY Concat
<1>2. 4 + n \in Nat /\ 4 + n = 0 + Len(a \o b) /\ 4 \in Nat /\ 4 = 0 + Len(a) /\ 0 \in Nat
  BY <1>1
<1>3. Holds(s, 0, a \o b) /\ Holds(s, 4 + n, c)
  BY <1>1, <1>2, HoldsBoth, Zenon
<1>4. Holds(s, 0, a) /\ Holds(s, 4, b)
  BY <1>2, <1>3, HoldsBoth, Zenon
<1> QED
  BY <1>3, <1>4

LEMMA HoldsFour ==
  ASSUME NEW s \in Seq(Byte), NEW a \in Seq(Byte), NEW b \in Seq(Byte), NEW c \in Seq(Byte),
         NEW d \in Seq(Byte), NEW n \in Nat, Len(a) = 4, Len(b) = n, Len(c) = 4,
         Holds(s, 0, ((a \o b) \o c) \o d)
  PROVE  Holds(s, 0, a) /\ Holds(s, 4, b) /\ Holds(s, 4 + n, c) /\ Holds(s, 8 + n, d)
<1>1. (a \o b) \o c \in Seq(Byte) /\ Len((a \o b) \o c) = 8 + n
  <2>1. a \o b \in Seq(Byte) /\ Len(a \o b) = 4 + n
    BY Concat
  <2>2. (a \o b) \o c \in Seq(Byte) /\ Len((a \o b) \o c) = Len(a \o b) + Len(c)
    BY <2>1, Concat, Zenon
  <2> QED
    BY <2>1, <2>2
<1>2. 8 + n \in Nat /\ 8 + n = 0 + Len((a \o b) \o c) /\ 0 \in Nat
  BY <1>1
<1>3. Holds(s, 0, (a \o b) \o c) /\ Holds(s, 8 + n, d)
  BY <1>1, <1>2, HoldsBoth, Zenon
<1> QED
  BY <1>3, HoldsThree, Zenon

\* What is read from where it was written.
LEMMA ReadBytes ==
  ASSUME NEW s \in Seq(Byte), NEW off \in Nat, NEW bytes \in Seq(Byte), Holds(s, off, bytes)
  PROVE  SubSeq(s, off + 1, off + Len(bytes)) = bytes
<1> DEFINE part == SubSeq(s, off + 1, off + Len(bytes))
<1>1. Len(bytes) \in Nat /\ Len(s) \in Nat /\ off + Len(bytes) <= Len(s)
  BY DEF Holds
<1>2. part \in Seq(Byte) /\ Len(part) = Len(bytes)
  BY <1>1
<1>3. \A k \in 1 .. Len(bytes) : part[k] = s[off + k]
  BY <1>1
<1>4. \A k \in 1 .. Len(bytes) : part[k] = bytes[k]
  BY <1>3 DEF Holds
<1> HIDE DEF part
<1>5. part = bytes
  BY <1>1, <1>2, <1>4
<1> QED
  BY <1>5 DEF part

\* A number is read as it was written.
LEMMA ReadNumber ==
  ASSUME sab \in Seq(Byte), NEW off \in Nat, NEW v \in Nat, v < Base * (Base * (Base * Base)),
         Holds(sab, off, PutU32(v))
  PROVE  GetU32(off) = v
<1>1. off + 4 <= Len(sab) /\ Len(sab) \in Nat
  BY DigitsOf DEF Holds
<1>2. \A k \in 1 .. 4 : sab[off + k] = PutU32(v)[k]
  BY DigitsOf DEF Holds
<1>3. \A k \in 1 .. 4 : At(off + k) = PutU32(v)[k].at
  BY <1>1, <1>2 DEF At
<1>4. GetU32(off) = (v % Base) + Base * ((Shift(v) % Base) + Base *
                     ((Shift(Shift(v)) % Base) + Base * (Shift(Shift(Shift(v))) % Base)))
  BY <1>3, DigitsOf DEF GetU32
<1> QED
  BY <1>4, Digits

LEMMA SliceIs ==
  ASSUME sab \in Seq(Byte), NEW off \in Nat, NEW n \in Nat, off + n <= Len(sab)
  PROVE  Slice(off, n) = SubSeq(sab, off + 1, off + n)
<1>1. Min({off + n, Len(sab)}) = off + n
  BY DEF Min
<1> QED
  BY <1>1 DEF Slice

\* A document is parsed as it was written.
LEMMA ReadDoc ==
  ASSUME sab \in Seq(Byte), NEW off \in Nat, NEW doc \in Docs, doc.len > 0,
         Holds(sab, off, Bytes(doc))
  PROVE  Parse(Slice(off, doc.len)) = doc
<1> DEFINE bytes == Bytes(doc)
<1>1. bytes \in Seq(Byte) /\ Len(bytes) = doc.len /\ doc.len \in Nat /\ bytes[1] = [of |-> doc, at |-> 1]
  BY BytesOf
<1>2. Holds(sab, off, bytes) /\ bytes = Bytes(doc)
  OBVIOUS
<1> HIDE DEF bytes
<1>3. SubSeq(sab, off + 1, off + doc.len) = bytes
  BY <1>1, <1>2, ReadBytes
<1>4. off + doc.len <= Len(sab)
  BY <1>1, <1>2 DEF Holds
<1>5. Slice(off, doc.len) = bytes
  BY <1>1, <1>3, <1>4, SliceIs
<1>6. bytes # <<>> /\ bytes[1].of = doc
  BY <1>1
<1> QED
  BY <1>2, <1>5, <1>6 DEF Parse

\* Two parts of a payload that follow each other.
LEMMA PartOf ==
  ASSUME NEW p \in Seq(Byte), NEW k \in Nat, NEW n \in Nat, k <= n, n <= Len(p)
  PROVE  SubSeq(p, k + 1, n) \in Seq(Byte) /\ Len(SubSeq(p, k + 1, n)) = n - k
OBVIOUS

LEMMA JoinParts ==
  ASSUME NEW p \in Seq(Byte), NEW k \in Nat, NEW n \in Nat, k <= n, n <= Len(p)
  PROVE  SubSeq(p, 1, k) \o SubSeq(p, k + 1, n) = SubSeq(p, 1, n)
<1> DEFINE a == SubSeq(p, 1, k)
           b == SubSeq(p, k + 1, n)
           c == SubSeq(p, 1, n)
<1>1. /\ a \in Seq(Byte) /\ Len(a) = k /\ \A i \in 1 .. k : a[i] = p[i]
      /\ b \in Seq(Byte) /\ Len(b) = n - k /\ \A i \in 1 .. n - k : b[i] = p[k + i]
      /\ c \in Seq(Byte) /\ Len(c) = n /\ \A i \in 1 .. n : c[i] = p[i]
  OBVIOUS
<1> HIDE DEF a, b, c
<1>2. /\ a \o b \in Seq(Byte) /\ Len(a \o b) = Len(a) + Len(b)
      /\ \A i \in 1 .. Len(a) + Len(b) : (a \o b)[i] = IF i <= Len(a) THEN a[i] ELSE b[i - Len(a)]
  BY <1>1
<1>3. Len(a) + Len(b) = n
  BY <1>1
<1>4. \A i \in 1 .. n : (a \o b)[i] = c[i]
  <2> SUFFICES ASSUME NEW i \in 1 .. n PROVE (a \o b)[i] = c[i]
    OBVIOUS
  <2>1. CASE i <= k
    BY <1>1, <1>2, <1>3, <2>1
  <2>2. CASE i > k
    <3>1. i - k \in 1 .. n - k /\ k + (i - k) = i
      BY <2>2
    <3>2. (a \o b)[i] = b[i - k]
      BY <1>1, <1>2, <1>3, <2>2
    <3> QED
      BY <1>1, <3>1, <3>2
  <2>3. i <= k \/ i > k
    OBVIOUS
  <2> QED
    BY <2>1, <2>2, <2>3
<1> DEFINE ab == a \o b
<1>5. ab \in Seq(Byte) /\ Len(ab) = Len(c) /\ \A i \in 1 .. Len(c) : ab[i] = c[i]
  BY <1>1, <1>2, <1>3, <1>4
<1> HIDE DEF ab
<1>6. ab = c
  BY <1>1, <1>5
<1> QED
  BY <1>6 DEF a, b, c, ab

LEMMA WholeIs ==
  ASSUME NEW p \in Seq(Byte)
  PROVE  SubSeq(p, 1, Len(p)) = p
OBVIOUS

-----------------------------------------------------------------------------
(* The invariant.                                                          *)

\* How much of the message the worker has joined, and what.
SoFar == IF parts = <<>> THEN 0 ELSE Len(parts[2])
Payload(from, to) == SubSeq(Bytes(message[2]), from, to)

Joined ==
  parts # <<>> =>
    /\ parts = <<[message[1] EXCEPT !.more = TRUE], Payload(1, SoFar)>>
    /\ SoFar \in Nat

Types ==
  /\ pc \in {"user", "read", "emit", "window", "error"}
  /\ round \in 0 .. MaxRounds /\ count \in 0 .. MaxMessages /\ first \in BOOLEAN
  /\ sab \in Seq(Byte) /\ Len(sab) \in Sizes /\ length \in 0 .. Len(sab)
  /\ asked \in Docs \X Docs /\ message \in Docs \X Docs
  /\ sent \in 0 .. message[2].len

\* What the worker asked for, until it is parsed and after.
Request == PutU32(asked[1].len) \o Bytes(asked[1]) \o PutU32(asked[2].len) \o Bytes(asked[2])
Asked ==
  /\ pc = "read" =>
       /\ count = 0 /\ parts = <<>>
       /\ asked[1].len \in HeaderLens /\ asked[2].len \in BodyLens
       /\ asked[2] = Doc("body", round, FALSE, asked[2].len)
       /\ Holds(sab, 0, Request)
  /\ count > 0 => parsed = asked

\* The message main emits, and what of it was joined.
Emitting ==
  /\ pc \in {"emit", "window", "error"} => count > 0
  /\ count > 0 =>
       /\ message[1].len \in MetaLens \cup {RestMeta} /\ message[1].more = FALSE
       /\ message[1].what \in {"first", "rest"}
  /\ pc = "emit" => sent = SoFar /\ Joined /\ (first <=> parts = <<>>) /\ (first \/ sent < message[2].len)

\* The window that the SAB holds for the worker.
Meta ==
  IF parts = <<>> THEN [message[1] EXCEPT !.more = More(sent, message[2].len)]
                  ELSE Doc("rest", round, More(sent, message[2].len), RestMeta)
InWindow == pc = "window" =>
  /\ ~first /\ SoFar <= sent /\ Joined
  /\ Holds(sab, 0, PutU32(Meta.len) \o Bytes(Meta) \o Payload(SoFar + 1, sent))
  /\ length = 4 + Meta.len + (sent - SoFar)

Failure == Doc("error", round, FALSE, ErrorMeta)
Failed == pc = "error" =>
  /\ message[1].len > MetaZone
  /\ Holds(sab, 0, PutU32(ErrorMeta) \o Bytes(Failure))

AtUser ==
  /\ pc = "user" => parts = <<>> /\ (result[1].what = "error" => message[1].len > MetaZone)
  /\ result[1].what # "raised"
  /\ MessageIntact

IInv == Types /\ Asked /\ Emitting /\ InWindow /\ Failed /\ AtUser

-----------------------------------------------------------------------------
(* The steps.                                                              *)

\* The constants.
LEMMA Bounds ==
  /\ MetaZone \in Nat /\ InitSize \in Nat /\ InitSize > MetaZone + 4
  /\ RestMeta \in Nat /\ RestMeta > 0 /\ RestMeta <= MetaZone
  /\ ErrorMeta \in Nat /\ ErrorMeta > 0 /\ ErrorMeta <= MetaZone
  /\ MaxRounds \in Nat /\ MaxMessages \in Nat /\ MaxMessages > 0
  /\ \A n \in HeaderLens \cup MetaLens : n \in Nat /\ n > 0
  /\ \A n \in BodyLens \cup PayloadLens : n \in Nat
BY WindowBounds

\* Every size of the SAB has room for a window.
LEMMA SizeOf ==
  ASSUME NEW n \in Sizes
  PROVE  n \in Nat /\ n > MetaZone + 4
BY Bounds DEF Sizes, Doubled

\* The SAB becomes one of the sizes, and large enough.
LEMMA GrownFits ==
  ASSUME NEW size \in Sizes, NEW n \in Nat, n <= 16 * InitSize
  PROVE  Grown(size, n) \in Sizes /\ Grown(size, n) >= n
<1>1. InitSize \in Nat /\ InitSize > 0
  BY Bounds
<1>2. PICK c \in Doubled : size = InitSize * c
  BY DEF Sizes
<1> DEFINE S == {m \in {size * d : d \in Doubled} : m >= n}
<1>3. \E m \in S : \A k \in S : m <= k
  <2> DEFINE s1 == size
             s2 == 2 * size
             s4 == 4 * size
             s8 == 8 * size
             s16 == 16 * size
  <2>1. size \in Nat /\ s1 <= s2 /\ s2 <= s4 /\ s4 <= s8 /\ s8 <= s16
    BY <1>1, <1>2 DEF Doubled
  <2>2. \A m : m \in S <=> m \in {s1, s2, s4, s8, s16} /\ m >= n
    BY <2>1 DEF Doubled
  <2>3. n <= s16
    BY <1>1, <1>2 DEF Doubled
  <2> HIDE DEF S, s1, s2, s4, s8, s16
  <2>4. {s1, s2, s4, s8, s16} \subseteq Nat
    BY <2>1 DEF s1, s2, s4, s8, s16
  <2>5. CASE n <= s1
    BY <2>1, <2>2, <2>4, <2>5
  <2>6. CASE ~(n <= s1) /\ n <= s2
    BY <2>1, <2>2, <2>4, <2>6
  <2>7. CASE ~(n <= s2) /\ n <= s4
    BY <2>1, <2>2, <2>4, <2>7
  <2>8. CASE ~(n <= s4) /\ n <= s8
    BY <2>1, <2>2, <2>4, <2>8
  <2>9. CASE ~(n <= s8)
    BY <2>1, <2>2, <2>3, <2>4, <2>9
  <2> QED
    BY <2>5, <2>6, <2>7, <2>8, <2>9
<1> DEFINE g == Grown(size, n)
<1>4. g \in S /\ \A k \in S : g <= k
  <2>1. g = CHOOSE x \in S : \A y \in S : x <= y
    BY DEF Grown, Min
  <2> HIDE DEF S, g
  <2> QED
    BY <1>3, <2>1
<1>5. PICK d \in Doubled : g = size * d /\ g >= n
  BY <1>4
<1>6. 16 * InitSize \in S
  BY <1>1, <1>2 DEF Doubled
<1>7. g <= 16 * InitSize
  BY <1>4, <1>6
<1> HIDE DEF g
<1>8. \E e \in Doubled : g = InitSize * e
  BY <1>1, <1>2, <1>5, <1>7 DEF Doubled
<1> QED
  BY <1>5, <1>8 DEF g, Sizes

\* The worker writes a request, in the SAB or in a larger one.
LEMMA InvWriteRequest ==
  ASSUME IInv, NEW h \in HeaderLens, NEW b \in BodyLens, WriteRequest(h, b)
  PROVE  IInv'
<1> DEFINE needed == 4 + h + 4 + b
           size   == Grown(Len(sab), needed)
           blank  == IF size = Len(sab) THEN sab ELSE Blank(size)
           header == Doc("header", round + 1, FALSE, h)
           body   == Doc("body", round + 1, FALSE, b)
           bytes  == PutU32(h) \o Bytes(header) \o PutU32(b) \o Bytes(body)
<1>1. /\ h \in Nat /\ b \in Nat /\ needed \in Nat /\ needed <= 16 * InitSize
      /\ round \in Nat /\ round < MaxRounds
  <2>1. 8 + h + b <= 16 * InitSize /\ h \in Nat /\ b \in Nat /\ InitSize \in Nat
    BY Bounds, LengthBounds
  <2> QED
    BY <2>1, Bounds DEF WriteRequest, IInv, Types
<1>2. size \in Sizes /\ size >= needed /\ size \in Nat
  BY <1>1, GrownFits, SizeOf DEF IInv, Types
<1>3. blank \in Seq(Byte) /\ Len(blank) = size
  BY <1>2, BlankOf DEF IInv, Types
<1>4. header \in Docs /\ header.len = h /\ body \in Docs /\ body.len = b
  <2>1. "header" \in Names /\ "body" \in Names /\ round + 1 \in Nat
    BY <1>1 DEF Names
  <2> QED
    BY <1>1, <2>1 DEF Doc, Docs
<1>5. bytes \in Seq(Byte) /\ Len(bytes) = needed
  <2> HIDE DEF header, body
  <2>1. PutU32(h) \in Seq(Byte) /\ Len(PutU32(h)) = 4 /\ PutU32(b) \in Seq(Byte) /\ Len(PutU32(b)) = 4
    BY <1>1, DigitsOf
  <2>2. Bytes(header) \in Seq(Byte) /\ Len(Bytes(header)) = h /\ Bytes(body) \in Seq(Byte) /\ Len(Bytes(body)) = b
    BY <1>4, BytesOf
  <2> DEFINE nh == PutU32(h)
             dh == Bytes(header)
             nb == PutU32(b)
             db == Bytes(body)
  <2>3. bytes = ((nh \o dh) \o nb) \o db
    OBVIOUS
  <2>4. /\ nh \in Seq(Byte) /\ Len(nh) = 4 /\ nb \in Seq(Byte) /\ Len(nb) = 4
        /\ dh \in Seq(Byte) /\ Len(dh) = h /\ db \in Seq(Byte) /\ Len(db) = b
    BY <2>1, <2>2
  <2> HIDE DEF bytes, nh, dh, nb, db
  <2>5. nh \o dh \in Seq(Byte) /\ Len(nh \o dh) = 4 + h
    BY <2>4, Concat
  <2>6. (nh \o dh) \o nb \in Seq(Byte) /\ Len((nh \o dh) \o nb) = Len(nh \o dh) + 4
    BY <2>4, <2>5, Concat
  <2>7. /\ ((nh \o dh) \o nb) \o db \in Seq(Byte)
        /\ Len(((nh \o dh) \o nb) \o db) = Len((nh \o dh) \o nb) + b
    BY <2>4, <2>6, Concat
  <2>8. bytes \in Seq(Byte) /\ Len(bytes) = 8 + h + b
    BY <1>1, <2>3, <2>5, <2>6, <2>7
  <2> QED
    BY <1>1, <2>8
<1>6. /\ round' = round + 1 /\ asked' = <<header, body>> /\ count' = 0 /\ parts' = <<>>
      /\ sab' = Put(blank, bytes) /\ length' = needed /\ pc' = "read"
      /\ result' = <<Nothing, <<>>>> /\ UNCHANGED <<parsed, message, sent, first>>
  BY <1>1, <1>2 DEF WriteRequest
<1>7. sab' \in Seq(Byte) /\ Len(sab') = size /\ Holds(sab', 0, bytes)
  <2> HIDE DEF bytes, blank, size
  <2> QED
    BY <1>2, <1>3, <1>5, <1>6, PutHolds
<1>8. asked' \in Docs \X Docs /\ asked'[1] = header /\ asked'[2] = body
  BY <1>4, <1>6
<1>9. Types'
  <2> HIDE DEF size, needed, header, body
  <2> QED
    BY <1>1, <1>2, <1>6, <1>7, <1>8, Bounds DEF IInv, Types
<1>10. Asked'
  <2>1. Request' = bytes
    BY <1>4, <1>8 DEF Request
  <2>2. asked'[2] = Doc("body", round', FALSE, asked'[2].len)
    BY <1>4, <1>6, <1>8
  <2>3. asked'[1].len = h /\ asked'[2].len = b
    BY <1>4, <1>8
  <2> HIDE DEF bytes, header, body
  <2> QED
    BY <1>6, <1>7, <2>1, <2>2, <2>3 DEF Asked, Doc
<1>11. Emitting' /\ InWindow' /\ Failed'
  BY <1>6 DEF Emitting, InWindow, Failed
<1>12. AtUser'
  BY <1>6 DEF AtUser, MessageIntact, Nothing, Doc
<1> QED
  BY <1>9, <1>10, <1>11, <1>12 DEF IInv

\* A message starts: nothing of it is joined.
LEMMA Started ==
  ASSUME IInv, NEW w \in {"first", "rest"}, NEW m \in MetaLens \cup {RestMeta}, NEW p \in PayloadLens,
         StartMessage(w, m, p), count < MaxMessages, parts = <<>>,
         UNCHANGED <<sab, length, round, asked, parts, result>>, parsed' = asked
  PROVE  IInv'
<1> DEFINE meta == Doc(w, round, FALSE, m)
           payload == Doc("payload", round * 10 + count, FALSE, p)
<1>1. /\ message' = <<meta, payload>> /\ count' = count + 1 /\ sent' = 0 /\ first' = TRUE /\ pc' = "emit"
  BY DEF StartMessage
<1>2. m \in Nat /\ p \in Nat /\ round \in Nat /\ count \in Nat
  BY Bounds DEF IInv, Types
<1>3. /\ meta \in Docs /\ meta.len = m /\ meta.more = FALSE /\ meta.what = w
      /\ payload \in Docs /\ payload.len = p
  <2>1. w \in Names /\ "payload" \in Names /\ round * 10 + count \in Nat
    BY <1>2 DEF Names
  <2> QED
    BY <1>2, <2>1 DEF Doc, Docs
<1> HIDE DEF meta, payload
<1>4. message'[1] = meta /\ message'[2] = payload /\ message' \in Docs \X Docs
  BY <1>1, <1>3
<1>5. Types'
  BY <1>1, <1>2, <1>3, <1>4, Bounds DEF IInv, Types
<1>6. Asked' /\ InWindow' /\ Failed'
  BY <1>1 DEF Asked, InWindow, Failed
<1>7. Emitting'
  BY <1>1, <1>2, <1>3, <1>4 DEF Emitting, Joined, SoFar
<1>8. AtUser'
  BY <1>1 DEF IInv, AtUser, MessageIntact
<1> QED
  BY <1>5, <1>6, <1>7, <1>8 DEF IInv

\* Main parses the request the worker wrote, and starts its answer.
LEMMA InvReadRequest ==
  ASSUME IInv, NEW m \in MetaLens, NEW p \in PayloadLens, ReadRequest(m, p)
  PROVE  IInv'
<1> DEFINE h == asked[1].len
           b == asked[2].len
<1>1. /\ pc = "read" /\ count = 0 /\ parts = <<>> /\ sab \in Seq(Byte) /\ Holds(sab, 0, Request)
      /\ asked \in Docs \X Docs /\ asked[2] = Doc("body", round, FALSE, b)
      /\ h \in HeaderLens /\ b \in BodyLens
  BY DEF ReadRequest, IInv, Types, Asked
<1>2. h \in Nat /\ h > 0 /\ b \in Nat /\ asked[1] \in Docs /\ asked[2] \in Docs
  BY <1>1, Bounds
<1>3. h < Base * (Base * (Base * Base)) /\ b < Base * (Base * (Base * Base))
  BY <1>1, LengthBounds
<1> DEFINE n1 == PutU32(h)
           d1 == Bytes(asked[1])
           n2 == PutU32(b)
           d2 == Bytes(asked[2])
<1>4. /\ n1 \in Seq(Byte) /\ Len(n1) = 4 /\ n2 \in Seq(Byte) /\ Len(n2) = 4
      /\ d1 \in Seq(Byte) /\ Len(d1) = h /\ d2 \in Seq(Byte) /\ Len(d2) = b
  BY <1>2, DigitsOf, BytesOf
<1>5. Holds(sab, 0, n1) /\ Holds(sab, 4, d1) /\ Holds(sab, 4 + h, n2) /\ Holds(sab, 8 + h, d2)
  <2>1. Holds(sab, 0, ((n1 \o d1) \o n2) \o d2)
    BY <1>1 DEF Request
  <2> HIDE DEF h, b, n1, n2, d1, d2
  <2> QED
    BY <1>1, <1>2, <1>4, <2>1, HoldsFour
<1>6. GetU32(0) = h /\ GetU32(4 + h) = b
  BY <1>1, <1>2, <1>3, <1>5, ReadNumber
<1>7. Parse(Slice(4, h)) = asked[1]
  BY <1>1, <1>2, <1>5, ReadDoc
<1>8. b # 0 => Parse(Slice(8 + h, b)) = asked[2]
  BY <1>1, <1>2, <1>5, ReadDoc
<1>9. parsed' = asked /\ StartMessage("first", m, p) /\ UNCHANGED <<sab, length, round, asked, parts, result>>
  <2> HIDE DEF h, b
  <2>1. parsed' = <<asked[1], IF b = 0 THEN Doc("body", round, FALSE, 0) ELSE asked[2]>>
    BY <1>6, <1>7, <1>8 DEF ReadRequest
  <2>2. parsed' = <<asked[1], asked[2]>>
    BY <1>1, <2>1
  <2>3. StartMessage("first", m, p) /\ UNCHANGED <<sab, length, round, asked, parts, result>>
    BY DEF ReadRequest
  <2>4. asked = <<asked[1], asked[2]>>
    BY <1>1, PairOf
  <2> QED
    BY <2>2, <2>3, <2>4
<1> QED
  BY <1>1, <1>9, Bounds, Started

\* The next chunk of a stream.
LEMMA InvNextChunk ==
  ASSUME IInv, NEW p \in PayloadLens, NextChunk(p)
  PROVE  IInv'
<1>1. /\ pc = "user" /\ count \in Nat /\ count > 0 /\ count < MaxMessages
      /\ StartMessage("rest", RestMeta, p)
      /\ UNCHANGED <<sab, length, round, asked, parsed, parts, result>>
  BY Bounds DEF NextChunk
<1>2. parts = <<>> /\ parsed = asked
  BY <1>1 DEF IInv, AtUser, Asked
<1> QED
  BY <1>1, <1>2, Started

\* Main writes a window: the next part of the message, or the error that only
\* a large first meta can cause.
LEMMA InvEmitWindow ==
  ASSUME IInv, EmitWindow
  PROVE  IInv'
<1> DEFINE total == message[2].len
           end   == Min({sent + Capacity, total})
           meta  == IF first THEN [message[1] EXCEPT !.more = More(end, total)]
                    ELSE Doc("rest", round, More(end, total), RestMeta)
           chunk == SubSeq(Bytes(message[2]), sent + 1, end)
           whole == PutU32(meta.len) \o Bytes(meta) \o chunk
           failure == PutU32(ErrorMeta) \o Bytes(Failure)
<1>1. /\ pc = "emit" /\ count > 0 /\ (first \/ sent < total) /\ sent = SoFar /\ Joined
      /\ (first <=> parts = <<>>)
      /\ sab \in Seq(Byte) /\ Len(sab) \in Sizes /\ message \in Docs \X Docs
      /\ round \in Nat /\ sent \in 0 .. total
  BY DEF EmitWindow, IInv, Types, Emitting
<1>2. /\ message[1] \in Docs /\ message[2] \in Docs /\ total \in Nat
      /\ Bytes(message[2]) \in Seq(Byte) /\ Len(Bytes(message[2])) = total
  BY <1>1, PairOf, BytesOf
<1>3. Len(sab) \in Nat /\ Capacity \in Nat /\ Capacity > 0 /\ Capacity = Len(sab) - MetaZone - 4
  BY <1>1, SizeOf, Bounds DEF Capacity
<1>4. /\ end \in Nat /\ sent \in Nat /\ sent <= end /\ end <= total /\ end - sent <= Capacity
      /\ sent < total => sent < end
  <2>1. end = IF sent + Capacity <= total THEN sent + Capacity ELSE total
    BY <1>1, <1>2, <1>3 DEF Min
  <2> HIDE DEF end, total
  <2> QED
    BY <1>1, <1>2, <1>3, <2>1
<1>5. chunk \in Seq(Byte) /\ Len(chunk) = end - sent
  <2> HIDE DEF end, total
  <2> QED
    BY <1>1, <1>2, <1>4
<1>6. meta \in Docs /\ meta.len = (IF first THEN message[1].len ELSE RestMeta) /\ meta.len \in Nat
  <2>1. More(end, total) \in BOOLEAN
    BY DEF More
  <2>2. [message[1] EXCEPT !.more = More(end, total)] \in Docs
    BY <1>2, <2>1 DEF Docs
  <2>3. Doc("rest", round, More(end, total), RestMeta) \in Docs
    BY <1>1, <2>1, Bounds DEF Doc, Docs, Names
  <2>4. meta \in Docs /\ meta.len = (IF first THEN message[1].len ELSE RestMeta)
    BY <1>2, <2>2, <2>3 DEF Docs, Doc
  <2> QED
    BY <2>4 DEF Docs
<1> HIDE DEF total, end, meta, chunk
<1>7. whole \in Seq(Byte) /\ Len(whole) = 4 + meta.len + (end - sent)
  <2>1. PutU32(meta.len) \in Seq(Byte) /\ Len(PutU32(meta.len)) = 4 /\ Bytes(meta) \in Seq(Byte) /\ Len(Bytes(meta)) = meta.len
    BY <1>6, DigitsOf, BytesOf
  <2>2. PutU32(meta.len) \o Bytes(meta) \in Seq(Byte) /\ Len(PutU32(meta.len) \o Bytes(meta)) = 4 + meta.len
    BY <2>1, Concat
  <2> QED
    BY <1>4, <1>5, <1>6, <2>2, Concat
<1>8. failure \in Seq(Byte) /\ Len(failure) = 4 + ErrorMeta
  <2>1. Failure \in Docs /\ Failure.len = ErrorMeta
    BY <1>1, Bounds DEF Failure, Doc, Docs, Names
  <2>2. PutU32(ErrorMeta) \in Seq(Byte) /\ Len(PutU32(ErrorMeta)) = 4
    BY Bounds, DigitsOf
  <2>3. Bytes(Failure) \in Seq(Byte) /\ Len(Bytes(Failure)) = ErrorMeta
    BY <2>1, BytesOf
  <2> QED
    BY <2>2, <2>3, Concat
<1> DEFINE bytes == IF Len(whole) <= Len(sab) THEN whole ELSE failure
<1>9. /\ sab' = Put(sab, bytes) /\ length' = Len(bytes)
      /\ pc' = (IF Len(whole) <= Len(sab) THEN "window" ELSE "error")
      /\ sent' = end /\ first' = FALSE
      /\ UNCHANGED <<round, asked, parsed, message, count, parts, result>>
  BY DEF EmitWindow, Window, Failure, total, end, meta, chunk
<1> HIDE DEF whole, failure
<1>10. bytes \in Seq(Byte) /\ Len(bytes) <= Len(sab)
  BY <1>3, <1>1, <1>7, <1>8, SizeOf, Bounds
<1> HIDE DEF bytes
<1>11. sab' \in Seq(Byte) /\ Len(sab') = Len(sab) /\ Holds(sab', 0, bytes)
  BY <1>1, <1>9, <1>10, PutHolds
<1>12. Types'
  <2>1. sent' \in 0 .. message'[2].len /\ length' \in 0 .. Len(sab')
    BY <1>2, <1>3, <1>4, <1>9, <1>10, <1>11 DEF total
  <2> QED
    BY <1>9, <1>11, <2>1 DEF IInv, Types
<1>13. Asked' /\ Emitting'
  BY <1>1, <1>9 DEF IInv, Asked, Emitting
<1>14. AtUser'
  BY <1>9 DEF IInv, AtUser, MessageIntact
<1>15. InWindow'
  <2> SUFFICES ASSUME pc' = "window" PROVE InWindow'
    BY DEF InWindow
  <2>1. bytes = whole
    BY <1>9 DEF bytes
  <2>2. Meta' = meta
    BY <1>1, <1>9 DEF Meta, meta, total
  <2>3. SoFar' = sent /\ Joined'
    BY <1>1, <1>9 DEF SoFar, Joined, Payload
  <2>4. Payload(SoFar + 1, sent)' = chunk
    BY <1>9, <2>3 DEF Payload, chunk
  <2>5. Holds(sab', 0, PutU32(Meta'.len) \o Bytes(Meta') \o Payload(SoFar + 1, sent)')
    BY <1>11, <2>1, <2>2, <2>4 DEF whole
  <2>6. length' = 4 + Meta'.len + (sent' - SoFar')
    BY <1>7, <1>9, <2>1, <2>2, <2>3
  <2> QED
    BY <1>4, <1>9, <2>3, <2>5, <2>6 DEF InWindow
<1>16. Failed'
  <2> SUFFICES ASSUME pc' = "error" PROVE Failed'
    BY DEF Failed
  <2>1. bytes = failure /\ ~(Len(whole) <= Len(sab))
    BY <1>9 DEF bytes
  <2>2. meta.len > MetaZone
    <3>1. 4 + meta.len + (end - sent) > Len(sab) /\ end - sent <= Len(sab) - MetaZone - 4
      BY <1>3, <1>4, <1>6, <1>7, <2>1
    <3>2. /\ end \in Nat /\ sent \in Nat /\ meta.len \in Nat /\ Len(sab) \in Nat /\ MetaZone \in Nat
      BY <1>3, <1>4, <1>6, Bounds
    <3> QED
      BY <3>1, <3>2
  <2>3. message[1].len > MetaZone
    BY <1>6, <2>2, Bounds
  <2>4. Holds(sab', 0, (PutU32(ErrorMeta) \o Bytes(Failure))')
    BY <1>9, <1>11, <2>1 DEF failure, Failure
  <2> QED
    BY <1>9, <2>3, <2>4 DEF Failed, Failure
<1> QED
  BY <1>12, <1>13, <1>14, <1>15, <1>16 DEF IInv

\* The first meta differs from the base of its message in the flag only.
LEMMA MoreApart ==
  ASSUME NEW d \in Docs, d.more = FALSE, NEW b
  PROVE  /\ [d EXCEPT !.more = b].what = d.what
         /\ [[d EXCEPT !.more = b] EXCEPT !.more = FALSE] = d
BY DEF Docs

\* The worker reads a window: it joins its payload, and asks for the next one
\* or returns.
LEMMA InvReadWindow ==
  ASSUME IInv, ReadWindow
  PROVE  IInv'
<1> DEFINE n == Meta.len
           p == Bytes(message[2])
           total == message[2].len
           chunk == Payload(SoFar + 1, sent)
           got == IF parts = <<>> THEN <<Meta, chunk>> ELSE <<parts[1], parts[2] \o chunk>>
<1>1. /\ pc = "window" /\ count > 0 /\ ~first /\ SoFar <= sent /\ Joined
      /\ Holds(sab, 0, PutU32(n) \o Bytes(Meta) \o chunk)
      /\ length = 4 + n + (sent - SoFar)
      /\ sab \in Seq(Byte) /\ message \in Docs \X Docs /\ round \in Nat /\ sent \in 0 .. total
      /\ message[1].len \in MetaLens \cup {RestMeta} /\ message[1].more = FALSE
      /\ message[1].what \in {"first", "rest"}
  BY DEF ReadWindow, IInv, Types, Emitting, InWindow
<1>2. /\ message[1] \in Docs /\ message[2] \in Docs /\ total \in Nat /\ sent \in Nat /\ sent <= total
      /\ p \in Seq(Byte) /\ Len(p) = total /\ SoFar \in Nat
  <2>1. message[1] \in Docs /\ message[2] \in Docs
    BY <1>1, PairOf
  <2>2. total \in Nat /\ p \in Seq(Byte) /\ Len(p) = total
    BY <2>1, BytesOf
  <2>3. SoFar \in Nat
    BY <1>1 DEF Joined, SoFar
  <2> QED
    BY <1>1, <2>1, <2>2, <2>3
<1>3. /\ Meta \in Docs /\ n \in MetaLens \cup {RestMeta} /\ Meta.more = More(sent, total)
      /\ More(sent, total) \in BOOLEAN
  <2>1. More(sent, total) \in BOOLEAN
    BY DEF More
  <2>2. CASE parts = <<>>
    BY <1>1, <1>2, <2>1, <2>2 DEF Meta, Docs
  <2>3. CASE parts # <<>>
    BY <1>1, <2>1, <2>3, Bounds DEF Meta, Doc, Docs, Names
  <2> QED
    BY <2>1, <2>2, <2>3
<1>4. n \in Nat /\ n > 0 /\ n < Base * (Base * (Base * Base))
  BY <1>3, Bounds, LengthBounds
<1>5. chunk \in Seq(Byte) /\ Len(chunk) = sent - SoFar
  <2> HIDE DEF p, total
  <2>1. chunk = SubSeq(p, SoFar + 1, sent)
    BY DEF Payload, p
  <2>2. SubSeq(p, SoFar + 1, sent) \in Seq(Byte) /\ Len(SubSeq(p, SoFar + 1, sent)) = sent - SoFar
    BY <1>1, <1>2, PartOf
  <2> QED
    BY <2>1, <2>2
<1> HIDE DEF n, chunk
<1>6. Holds(sab, 0, PutU32(n)) /\ Holds(sab, 4, Bytes(Meta)) /\ Holds(sab, 4 + n, chunk)
  <2>1. PutU32(n) \in Seq(Byte) /\ Len(PutU32(n)) = 4
    BY <1>4, DigitsOf
  <2>2. Bytes(Meta) \in Seq(Byte) /\ Len(Bytes(Meta)) = n
    BY <1>3, BytesOf DEF n
  <2> QED
    BY <1>1, <1>4, <1>5, <2>1, <2>2, HoldsThree
<1>7. GetU32(0) = n
  BY <1>1, <1>4, <1>6, ReadNumber
<1>8. Parse(Slice(4, n)) = Meta
  BY <1>1, <1>3, <1>4, <1>6, ReadDoc DEF n
<1>9. SubSeq(sab, 5 + n, length) = chunk
  <2>1. SubSeq(sab, (4 + n) + 1, (4 + n) + Len(chunk)) = chunk
    BY <1>1, <1>4, <1>5, <1>6, ReadBytes
  <2>2. (4 + n) + 1 = 5 + n /\ (4 + n) + Len(chunk) = length
    BY <1>1, <1>2, <1>4, <1>5
  <2> QED
    BY <2>1, <2>2
<1>10. /\ IF More(sent, total)
            THEN pc' = "emit" /\ parts' = got /\ UNCHANGED result
            ELSE pc' = "user" /\ parts' = <<>> /\ result' = got
       /\ UNCHANGED <<sab, length, round, asked, parsed, message, count, sent, first>>
  BY <1>3, <1>7, <1>8, <1>9 DEF ReadWindow, PayloadEnd, chunk
<1>11. got = <<[message[1] EXCEPT !.more = More(sent, total) \/ parts # <<>>], Payload(1, sent)>>
  <2>1. CASE parts = <<>>
    <3>1. SoFar = 0
      BY <2>1 DEF SoFar
    <3>2. chunk = Payload(1, sent)
      BY <3>1 DEF chunk
    <3>3. Meta = [message[1] EXCEPT !.more = More(sent, total)]
      BY <2>1 DEF Meta
    <3>4. (More(sent, total) \/ parts # <<>>) = More(sent, total)
      BY <1>3, <2>1
    <3>5. got = <<Meta, chunk>>
      BY <2>1
    <3> HIDE DEF got, total
    <3> QED
      BY <3>2, <3>3, <3>4, <3>5
  <2>2. CASE parts # <<>>
    <3>1. parts[1] = [message[1] EXCEPT !.more = TRUE] /\ parts[2] = Payload(1, SoFar)
      BY <1>1, <2>2 DEF Joined
    <3>2. Payload(1, SoFar) \o chunk = Payload(1, sent)
      BY <1>1, <1>2, JoinParts DEF Payload, chunk
    <3>3. (More(sent, total) \/ parts # <<>>) = TRUE
      BY <2>2
    <3>4. got = <<parts[1], parts[2] \o chunk>>
      BY <2>2
    <3> HIDE DEF got, total
    <3> QED
      BY <3>1, <3>2, <3>3, <3>4
  <2> QED
    BY <2>1, <2>2
<1> HIDE DEF got
<1>12. Types'
  BY <1>10 DEF IInv, Types
<1>13. Asked' /\ InWindow' /\ Failed'
  BY <1>10 DEF IInv, Asked, InWindow, Failed
<1>14. CASE More(sent, total)
  <2>1. pc' = "emit" /\ parts' = <<[message[1] EXCEPT !.more = TRUE], Payload(1, sent)>> /\ result' = result
    BY <1>10, <1>11, <1>14
  <2>2. parts'[2] = Payload(1, sent) /\ Len(Payload(1, sent)) = sent
    BY <1>2, <2>1 DEF Payload
  <2>3. parts' # <<>> /\ SoFar' = sent
    BY <2>1, <2>2 DEF SoFar
  <2>4. Joined' /\ sent' = SoFar'
    BY <1>2, <1>10, <2>1, <2>3 DEF Joined, Payload
  <2>5. sent' < message'[2].len
    BY <1>10, <1>14 DEF More
  <2>6. Emitting'
    BY <1>1, <1>10, <2>1, <2>3, <2>4, <2>5 DEF IInv, Emitting
  <2>7. AtUser'
    BY <1>10, <2>1 DEF IInv, AtUser, MessageIntact
  <2> QED
    BY <1>12, <1>13, <2>6, <2>7 DEF IInv
<1>15. CASE ~More(sent, total)
  <2>1. pc' = "user" /\ parts' = <<>> /\ result' = got
    BY <1>10, <1>15
  <2>2. sent = total
    BY <1>2, <1>15 DEF More
  <2>3. result'[2] = Bytes(message[2])
    <3>1. result'[2] = Payload(1, total)
      BY <1>11, <2>1, <2>2
    <3>2. Payload(1, total) = p
      BY <1>2, WholeIs DEF Payload
    <3> QED
      BY <3>1, <3>2
  <2>4. result'[1] = [message[1] EXCEPT !.more = parts # <<>>]
    BY <1>11, <1>15, <2>1
  <2>5. /\ result'[1].what = message[1].what
        /\ [result'[1] EXCEPT !.more = FALSE] = message[1]
    <3> DEFINE b == parts # <<>>
    <3>1. result'[1] = [message[1] EXCEPT !.more = b]
      BY <2>4
    <3> HIDE DEF b
    <3>2. message[1] \in Docs /\ message[1].more = FALSE
      BY <1>1, <1>2
    <3>3. /\ [message[1] EXCEPT !.more = b].what = message[1].what
          /\ [[message[1] EXCEPT !.more = b] EXCEPT !.more = FALSE] = message[1]
      BY <3>2, MoreApart
    <3> QED
      BY <3>1, <3>3
  <2>6. AtUser'
    BY <1>1, <1>10, <2>1, <2>3, <2>5 DEF AtUser, MessageIntact
  <2>7. Emitting'
    BY <1>10, <2>1 DEF IInv, Emitting
  <2> QED
    BY <1>12, <1>13, <2>6, <2>7 DEF IInv
<1> QED
  BY <1>14, <1>15

\* The worker reads the error.
LEMMA InvSeeError ==
  ASSUME IInv, SeeError
  PROVE  IInv'
<1>1. /\ pc = "error" /\ pc' = "user" /\ parts' = <<>>
      /\ result' = <<Parse(Slice(4, GetU32(0))), <<>>>>
      /\ UNCHANGED <<sab, length, round, asked, parsed, message, count, sent, first>>
  BY DEF SeeError
<1>2. /\ sab \in Seq(Byte) /\ message[1].len > MetaZone /\ round \in Nat
      /\ Holds(sab, 0, PutU32(ErrorMeta) \o Bytes(Failure))
  BY <1>1 DEF IInv, Types, Failed
<1>3. Failure \in Docs /\ Failure.len = ErrorMeta /\ Failure.what = "error"
  BY <1>2, Bounds DEF Failure, Doc, Docs, Names
<1>4. Holds(sab, 0, PutU32(ErrorMeta)) /\ Holds(sab, 4, Bytes(Failure))
  <2>1. PutU32(ErrorMeta) \in Seq(Byte) /\ Len(PutU32(ErrorMeta)) = 4 /\ 4 = 0 + Len(PutU32(ErrorMeta))
    BY Bounds, DigitsOf
  <2>2. Bytes(Failure) \in Seq(Byte)
    BY <1>3, BytesOf
  <2>3. 0 \in Nat /\ 4 \in Nat
    OBVIOUS
  <2> QED
    BY <1>2, <2>1, <2>2, <2>3, HoldsBoth, Zenon
<1>5. ErrorMeta < Base * (Base * (Base * Base))
  BY LengthBounds
<1>6. GetU32(0) = ErrorMeta
  BY <1>2, <1>4, <1>5, Bounds, ReadNumber
<1>7. Parse(Slice(4, ErrorMeta)) = Failure
  BY <1>2, <1>3, <1>4, Bounds, ReadDoc
<1>8. result'[1] = Failure
  BY <1>1, <1>6, <1>7
<1>9. Types' /\ Asked' /\ Emitting' /\ InWindow' /\ Failed'
  BY <1>1 DEF IInv, Types, Asked, Emitting, InWindow, Failed
<1>10. AtUser'
  BY <1>1, <1>2, <1>3, <1>8 DEF AtUser, MessageIntact
<1> QED
  BY <1>9, <1>10 DEF IInv

LEMMA InvInit == Init => IInv
<1> SUFFICES ASSUME Init PROVE IInv
  OBVIOUS
<1>1. Blank(InitSize) \in Seq(Byte) /\ Len(Blank(InitSize)) = InitSize
  BY Bounds, BlankOf
<1>2. InitSize \in Sizes
  BY Bounds DEF Sizes, Doubled
<1>3. Nothing \in Docs /\ Nothing.len = 0 /\ Nothing.what = "nothing"
  BY DEF Nothing, Doc, Docs, Names
<1>4. Types
  BY <1>1, <1>2, <1>3, Bounds DEF Init, Types
<1>5. Asked /\ Emitting /\ InWindow /\ Failed
  BY DEF Init, Asked, Emitting, InWindow, Failed
<1>6. AtUser
  BY <1>3 DEF Init, AtUser, MessageIntact
<1> QED
  BY <1>4, <1>5, <1>6 DEF IInv

LEMMA InvStep == IInv /\ [Next]_vars => IInv'
<1> SUFFICES ASSUME IInv, [Next]_vars PROVE IInv'
  OBVIOUS
<1>1. CASE UNCHANGED vars
  <2>1. Types' /\ Asked' /\ AtUser'
    BY <1>1 DEF vars, IInv, Types, Asked, Request, AtUser, MessageIntact
  <2>2. Emitting'
    BY <1>1 DEF vars, IInv, Emitting, Joined, SoFar, Payload
  <2>3. InWindow'
    BY <1>1 DEF vars, IInv, InWindow, Joined, SoFar, Payload, Meta, More
  <2>4. Failed'
    BY <1>1 DEF vars, IInv, Failed, Failure
  <2> QED
    BY <2>1, <2>2, <2>3, <2>4 DEF IInv
<1> QED
  BY <1>1, InvWriteRequest, InvReadRequest, InvEmitWindow, InvReadWindow, InvSeeError,
     InvNextChunk DEF Next, Step

LEMMA Invariance == Spec => []IInv
BY InvInit, InvStep, PTL DEF Spec

\* Windows fit the SAB, which is the first one or a doubled one, and the
\* counters stay in range.
THEOREM TypeCorrect == Spec => []TypeOK
<1>1. IInv => TypeOK
  BY DEF IInv, Types, TypeOK, Sizes
<1> QED
  BY <1>1, Invariance, PTL

\* Main fetches with the header and the body the worker was given, whatever
\* earlier exchanges left in the SAB and however often it grew.
THEOREM RequestsAreIntact == Spec => []RequestIntact
<1>1. IInv => RequestIntact
  BY DEF IInv, Asked, Emitting, AtUser, RequestIntact
<1> QED
  BY <1>1, Invariance, PTL

\* However many windows a message took, the worker returns it byte for byte.
THEOREM MessagesAreIntact == Spec => []MessageIntact
<1>1. IInv => MessageIntact
  BY DEF IInv, AtUser
<1> QED
  BY <1>1, Invariance, PTL

\* Metadata up to META_ZONE never turns a message into an error.
THEOREM SmallMetaFits == Spec => []OnlyBigMetaFails
<1>1. IInv => OnlyBigMetaFails
  BY DEF IInv, Failed, AtUser, OnlyBigMetaFails
<1> QED
  BY <1>1, Invariance, PTL
=============================================================================
