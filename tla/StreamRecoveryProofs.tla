------------------------ MODULE StreamRecoveryProofs ------------------------
(***************************************************************************)
(* For any queries, results of any length, any number of faults and any    *)
(* budget of retries: StreamRecovery keeps its types, hands out the        *)
(* responses of each query once and in order, fails a query only for what  *)
(* excuses it, and implements ResultStream.                                *)
(*                                                                         *)
(* OnceInOrder is not inductive: what a query will be handed next is in    *)
(* the stub's buffer, and what comes after that is decided by the request  *)
(* that the channel's newest call carried.  IInv adds that delivered and   *)
(* buffered responses are consecutive, and that the call which owns the    *)
(* channel continues them.                                                 *)
(***************************************************************************)
EXTENDS StreamRecovery, TLAPS

Types ==
  /\ ask \in Op \cup {None} /\ attempts \in 0 .. Budget
  /\ request \in [Op -> {"execute", "reattach"}]
  /\ stream \in [Op -> {"lazy", "open", "over"}]
  /\ buffer \in [Op -> Seq(Responses)] /\ delivered \in [Op -> Seq(Responses)]
  /\ outcome \in [Op -> {"running", "complete", "failed", "dropped"}]
  /\ owner \in Op \cup {None} /\ sending \in 0 .. MaxResponses + 1
  /\ length \in [Op -> 0 .. MaxResponses]
  /\ faults \in 0 .. MaxFaults
  /\ blame \in [Op -> SUBSET {"retried", "budget", "not started", "server"}]

\* Delivered and buffered responses are consecutive, and the server has them.
Consecutive(o) ==
  /\ \A i \in 1 .. Len(delivered[o]) : delivered[o][i] = Response(o, i)
  /\ \A i \in 1 .. Len(buffer[o]) : buffer[o][i] = Response(o, Len(delivered[o]) + i)
  /\ Len(delivered[o]) + Len(buffer[o]) <= length[o]

\* A call that is still to be sent starts from scratch or from what was
\* delivered; the call that owns the channel continues what was received.
CallContinues(o) ==
  /\ stream[o] = "lazy" => buffer[o] = <<>>
  /\ stream[o] = "lazy" /\ request[o] = "execute" => length[o] = 0
  /\ stream[o] = "open" /\ owner = o => sending = Len(delivered[o]) + Len(buffer[o]) + 1

OutcomeIsRight(o) ==
  /\ ask = o => outcome[o] = "running"
  /\ outcome[o] = "complete" => length[o] > 0 /\ Len(delivered[o]) = length[o]

Excuses == {"server", "not started", "budget"}

\* A call to a server that does not know the query: its first one was lost.
FailureIsExcused(o) ==
  /\ length[o] = 0 /\ (request[o] = "reattach" \/ stream[o] = "open") => "not started" \in blame[o]
  /\ outcome[o] = "failed" => blame[o] \cap Excuses # {}

Query(o) == Consecutive(o) /\ CallContinues(o) /\ OutcomeIsRight(o) /\ FailureIsExcused(o)

IInv == Types /\ \A p \in Op : Query(p)

-----------------------------------------------------------------------------
\* A step that leaves query p alone, and at most takes the channel from it,
\* keeps what is known of p.
LEMMA OthersUntouched ==
  ASSUME NEW p \in Op, Query(p),
         request'[p] = request[p], stream'[p] = stream[p], buffer'[p] = buffer[p],
         delivered'[p] = delivered[p], outcome'[p] = outcome[p], length'[p] = length[p],
         blame'[p] = blame[p], ask' = p => ask = p,
         owner' = p => owner = p /\ sending' = sending
  PROVE  Query(p)'
BY DEF Query, Consecutive, CallContinues, OutcomeIsRight, FailureIsExcused, Response

LEMMA InitInv == Init => IInv
<1> SUFFICES ASSUME Init PROVE IInv
  OBVIOUS
<1>1. Types
  BY RecoveryBounds DEF Init, Types
<1>2. ASSUME NEW o \in Op PROVE Query(o)
  BY RecoveryBounds DEF Init, Query, Consecutive, CallContinues, OutcomeIsRight, FailureIsExcused
<1> QED
  BY <1>1, <1>2 DEF IInv

LEMMA KeepsTypes == IInv => Types
BY DEF IInv

LEMMA Each == ASSUME IInv, NEW p \in Op PROVE Query(p) /\ p # None
BY RecoveryBounds DEF IInv

-----------------------------------------------------------------------------
(* The program.                                                            *)

LEMMA AskStep == ASSUME IInv, NEW o \in Op, Ask(o) PROVE IInv'
<1>0. Types /\ 0 \in 0 .. Budget
  BY KeepsTypes, RecoveryBounds
<1>1. Types'
  BY <1>0 DEF Types, Ask, calls, channel
<1>2. ASSUME NEW p \in Op PROVE Query(p)'
  <2>1. Query(p)
    BY Each
  <2> QED
    BY <2>1 DEF Query, Consecutive, CallContinues, OutcomeIsRight, FailureIsExcused, Ask, calls, channel, Response
<1> QED
  BY <1>1, <1>2 DEF IInv

LEMMA UnaryStep == ASSUME IInv, UnaryCall PROVE IInv'
<1>0. Types
  BY KeepsTypes
<1>1. Types'
  BY <1>0 DEF Types, UnaryCall, program, calls
<1>2. ASSUME NEW p \in Op PROVE Query(p)'
  <2>1. Query(p) /\ p # None
    BY Each
  <2> QED
    BY <2>1, OthersUntouched DEF UnaryCall, program, calls
<1> QED
  BY <1>1, <1>2 DEF IInv

LEMMA DropStep == ASSUME IInv, NEW o \in Op, Drop(o) PROVE IInv'
<1>0. Types
  BY KeepsTypes
<1>1. Types'
  BY <1>0 DEF Types, Drop, Settle, channel
<1>2. ASSUME NEW p \in Op, p # o PROVE Query(p)'
  <2>1. Query(p) /\ p # None
    BY Each
  <2>2. outcome'[p] = outcome[p] /\ stream'[p] = stream[p] /\ ask' # p
    BY <1>0, <1>2, <2>1 DEF Types, Drop, Settle
  <2> QED
    BY <2>1, <2>2, OthersUntouched DEF Drop, channel
<1>3. Query(o)'
  <2>1. Query(o) /\ o # None
    BY Each
  <2>2. outcome'[o] = "dropped" /\ stream'[o] = "over" /\ ask' # o
    BY <1>0, <2>1 DEF Types, Drop, Settle
  <2> QED
    BY <2>1, <2>2 DEF Query, Consecutive, CallContinues, OutcomeIsRight, FailureIsExcused, Drop, channel, Response
<1> QED
  BY <1>1, <1>2, <1>3 DEF IInv

-----------------------------------------------------------------------------
(* One call.                                                               *)

\* What is known of the numbers of a query's responses.
LEMMA Numbers ==
  ASSUME IInv, NEW o \in Op
  PROVE  /\ Len(delivered[o]) \in Nat /\ Len(buffer[o]) \in Nat
         /\ Len(delivered[o]) + Len(buffer[o]) <= length[o]
         /\ length[o] \in Nat /\ length[o] <= MaxResponses
<1>1. Types
  BY KeepsTypes
<1>2. Consecutive(o)
  BY Each DEF Query
<1>3. Len(delivered[o]) + Len(buffer[o]) <= length[o]
  BY <1>2 DEF Consecutive
<1>4. length[o] \in 0 .. MaxResponses
  BY <1>1 DEF Types
<1>5. delivered[o] \in Seq(Responses) /\ buffer[o] \in Seq(Responses)
  BY <1>1 DEF Types
<1>6. Len(delivered[o]) \in Nat /\ Len(buffer[o]) \in Nat
  BY <1>5
<1>7. length[o] \in Nat /\ length[o] <= MaxResponses
  BY <1>4, RecoveryBounds
<1> QED
  BY <1>3, <1>6, <1>7

\* What ReattachExecute resumes after is the last response delivered.
LEMMA LastIdIsLength ==
  ASSUME IInv, NEW o \in Op PROVE LastId(o) = Len(delivered[o])
<1>0. Types
  BY KeepsTypes
<1>1. delivered[o] \in Seq(Responses) /\ Consecutive(o)
  BY <1>0, Each DEF Types, Query
<1>2. CASE delivered[o] = <<>>
  BY <1>2 DEF LastId
<1>3. CASE delivered[o] # <<>>
  <2>1. Len(delivered[o]) \in 1 .. Len(delivered[o])
    BY <1>1, <1>3
  <2>2. delivered[o][Len(delivered[o])] = Response(o, Len(delivered[o]))
    BY <1>1, <2>1 DEF Consecutive
  <2> QED
    BY <1>3, <2>2 DEF LastId, Response
<1> QED
  BY <1>2, <1>3

LEMMA ExecuteStep ==
  ASSUME IInv, NEW o \in Op, NEW n \in 1 .. MaxResponses, Execute(o, n) PROVE IInv'
<1>0. Types /\ 1 \in 0 .. MaxResponses + 1 /\ n \in 0 .. MaxResponses /\ n > 0
  BY KeepsTypes, RecoveryBounds
<1>1. Types'
  BY <1>0 DEF Types, Execute, Sends, program
<1>2. ASSUME NEW p \in Op, p # o PROVE Query(p)'
  <2>1. stream'[p] = stream[p] /\ length'[p] = length[p] /\ owner' # p
    BY <1>0, <1>2 DEF Types, Execute, Sends
  <2> QED
    BY <2>1, Each, OthersUntouched DEF Execute, program
<1>3. Query(o) /\ ask = o /\ stream[o] = "lazy" /\ request[o] = "execute"
  BY Each DEF Execute, Sends
<1>4. length[o] = 0 /\ buffer[o] = <<>> /\ Len(buffer[o]) = 0
  BY <1>3 DEF Query, CallContinues
<1>5. Len(delivered[o]) = 0
  <2>1. Len(delivered[o]) \in Nat /\ Len(delivered[o]) + Len(buffer[o]) <= length[o]
    BY Numbers
  <2> QED
    BY <1>4, <2>1
<1>6. stream'[o] = "open" /\ length'[o] = n /\ owner' = o /\ sending' = 1
  BY <1>0 DEF Types, Execute, Sends
<1>7. buffer' = buffer /\ delivered' = delivered /\ ask' = ask /\ outcome' = outcome /\ blame' = blame
  BY DEF Execute, program
<1>8. Consecutive(o)'
  <2>1. Len(delivered'[o]) = 0 /\ Len(buffer'[o]) = 0 /\ length'[o] = n
    BY <1>4, <1>5, <1>6, <1>7
  <2>2. Len(delivered'[o]) + Len(buffer'[o]) <= length'[o] /\ 1 .. 0 = {}
    BY <1>0, <2>1
  <2> QED
    BY <2>1, <2>2, Zenon DEF Consecutive
<1>9. CallContinues(o)'
  <2>1. Len(delivered'[o]) = 0 /\ Len(buffer'[o]) = 0 /\ stream'[o] # "lazy"
    BY <1>4, <1>5, <1>6, <1>7
  <2> QED
    BY <2>1, <1>6 DEF CallContinues
<1>10. OutcomeIsRight(o)'
  BY <1>3, <1>7 DEF Query, OutcomeIsRight
<1>11. FailureIsExcused(o)'
  <2>1. FailureIsExcused(o) /\ length'[o] # 0
    BY <1>0, <1>3, <1>6 DEF Query
  <2> QED
    BY <2>1, <1>7 DEF FailureIsExcused
<1> QED
  BY <1>1, <1>2, <1>8, <1>9, <1>10, <1>11 DEF IInv, Query

LEMMA ReattachStep == ASSUME IInv, NEW o \in Op, Reattach(o) PROVE IInv'
<1>0. Types
  BY KeepsTypes
<1>1. Query(o) /\ stream[o] = "lazy" /\ request[o] = "reattach"
  BY Each DEF Reattach, Sends
<1>2. buffer[o] = <<>> /\ Len(buffer[o]) = 0
  BY <1>1 DEF Query, CallContinues
<1>3. sending' = Len(delivered[o]) + 1
  BY LastIdIsLength DEF Reattach
<1>4. sending' \in 0 .. MaxResponses + 1
  <2>1. /\ Len(delivered[o]) \in Nat /\ length[o] \in Nat /\ length[o] <= MaxResponses
        /\ Len(delivered[o]) + Len(buffer[o]) <= length[o]
    BY Numbers
  <2> QED
    BY <1>2, <1>3, <2>1, RecoveryBounds
<1>5. Types'
  BY <1>0, <1>4 DEF Types, Reattach, Sends, program
<1>6. ASSUME NEW p \in Op, p # o PROVE Query(p)'
  <2>1. stream'[p] = stream[p] /\ owner' # p
    BY <1>0, <1>6 DEF Types, Reattach, Sends
  <2> QED
    BY <2>1, Each, OthersUntouched DEF Reattach, program
<1>7. stream'[o] = "open" /\ owner' = o
  BY <1>0 DEF Types, Reattach, Sends
<1>8. /\ buffer' = buffer /\ delivered' = delivered /\ ask' = ask /\ outcome' = outcome
      /\ blame' = blame /\ length' = length /\ request' = request
  BY DEF Reattach, program
<1>9. Consecutive(o)' /\ OutcomeIsRight(o)'
  BY <1>1, <1>8 DEF Query, Consecutive, OutcomeIsRight
<1>10. CallContinues(o)'
  <2>1. Len(buffer'[o]) = 0 /\ Len(delivered'[o]) \in Nat /\ sending' = Len(delivered'[o]) + 1 /\ stream'[o] # "lazy"
    BY <1>2, <1>3, <1>7, <1>8, Numbers
  <2> QED
    BY <2>1 DEF CallContinues
<1>11. FailureIsExcused(o)'
  BY <1>1, <1>8 DEF Query, FailureIsExcused
<1> QED
  BY <1>5, <1>6, <1>9, <1>10, <1>11 DEF IInv, Query

\* The chunk continues what was delivered: the call is the channel's newest.
LEMMA ReceiveStep ==
  ASSUME IInv, NEW o \in Op, NEW n \in 1 .. MaxResponses, Receive(o, n) PROVE IInv'
<1>0. Types
  BY KeepsTypes
<1>1. /\ ask = o /\ stream[o] = "open" /\ buffer[o] = <<>> /\ owner = o
      /\ sending + n <= length[o] + 1
  BY DEF Receive, Wants, Superseded
<1>2. /\ buffer' = [buffer EXCEPT ![o] = [i \in 1 .. n |-> Response(o, sending + i - 1)]]
      /\ sending' = sending + n
      /\ UNCHANGED <<ask, attempts, delivered, outcome, request, stream, owner, length, faults, blame>>
  BY <1>1 DEF Receive, program
<1>3. n \in Nat /\ n >= 1
  BY RecoveryBounds
<1>4. sending = Len(delivered[o]) + 1 /\ Len(delivered[o]) \in Nat
  <2>1. Query(o) /\ Len(buffer[o]) = 0 /\ Len(delivered[o]) \in Nat
    BY <1>1, Each, Numbers
  <2> QED
    BY <1>1, <2>1 DEF Query, CallContinues
<1>5. length[o] \in Nat /\ length[o] <= MaxResponses
  BY Numbers
<1> DEFINE chunk == [i \in 1 .. n |-> Response(o, sending + i - 1)]
<1>6. chunk \in Seq(Responses)
  <2>1. ASSUME NEW i \in 1 .. n PROVE Response(o, sending + i - 1) \in Responses
    <3>1. sending + i - 1 \in 1 .. MaxResponses
      BY <1>1, <1>3, <1>4, <1>5, RecoveryBounds
    <3> QED
      BY <3>1 DEF Response, Responses
  <2> QED
    BY <1>3, <2>1
<1>7. Len(chunk) = n /\ \A i \in 1 .. n : chunk[i] = Response(o, Len(delivered[o]) + i)
  <2>1. Len(chunk) = n
    BY <1>3
  <2>2. ASSUME NEW i \in 1 .. n PROVE chunk[i] = Response(o, Len(delivered[o]) + i)
    <3>1. sending + i - 1 = Len(delivered[o]) + i
      BY <1>3, <1>4
    <3> QED
      BY <3>1
  <2> QED
    BY <2>1, <2>2
<1>8. buffer'[o] = chunk /\ \A p \in Op : p # o => buffer'[p] = buffer[p]
  BY <1>0, <1>2 DEF Types
<1> HIDE DEF chunk
<1>9. Types'
  <2>1. buffer' \in [Op -> Seq(Responses)]
    BY <1>0, <1>2, <1>6 DEF Types, chunk
  <2>2. sending' \in 0 .. MaxResponses + 1
    BY <1>1, <1>2, <1>3, <1>4, <1>5, RecoveryBounds
  <2> QED
    BY <1>0, <1>2, <2>1, <2>2 DEF Types
<1>10. ASSUME NEW p \in Op, p # o PROVE Query(p)'
  BY <1>1, <1>2, <1>8, <1>10, Each, OthersUntouched
<1>11. Len(buffer'[o]) = n /\ Len(delivered'[o]) = Len(delivered[o])
  BY <1>2, <1>7, <1>8
<1>12. Consecutive(o)'
  <2>1. Consecutive(o)
    BY Each DEF Query
  <2>2. \A i \in 1 .. Len(buffer'[o]) : buffer'[o][i] = Response(o, Len(delivered'[o]) + i)
    BY <1>7, <1>8, <1>11
  <2>3. Len(delivered'[o]) + Len(buffer'[o]) <= length'[o]
    <3>1. Len(delivered[o]) + n <= length[o] /\ length'[o] = length[o]
      BY <1>1, <1>2, <1>3, <1>4, <1>5
    <3> QED
      BY <3>1, <1>11
  <2>4. \A i \in 1 .. Len(delivered'[o]) : delivered'[o][i] = Response(o, i)
    BY <2>1, <1>2 DEF Consecutive
  <2> QED
    BY <2>2, <2>3, <2>4 DEF Consecutive
<1>13. CallContinues(o)'
  <2>1. sending' = Len(delivered'[o]) + Len(buffer'[o]) + 1
    <3>1. sending' = sending + n
      BY <1>2
    <3> QED
      BY <3>1, <1>3, <1>4, <1>11
  <2> QED
    BY <1>1, <1>2, <2>1 DEF CallContinues
<1>14. OutcomeIsRight(o)' /\ FailureIsExcused(o)'
  <2>1. OutcomeIsRight(o) /\ FailureIsExcused(o)
    BY Each DEF Query
  <2> QED
    BY <2>1, <1>2 DEF OutcomeIsRight, FailureIsExcused
<1> QED
  BY <1>9, <1>10, <1>12, <1>13, <1>14 DEF IInv, Query

LEMMA NextIndex ==
  ASSUME NEW k \in Nat, NEW n \in Nat, NEW i \in 1 .. n - 1
  PROVE  i + 1 \in 1 .. n /\ k + (i + 1) = k + 1 + i
OBVIOUS

\* The front of the buffer is the response after those delivered.
LEMMA TakeStep == ASSUME IInv, NEW o \in Op, Take(o) PROVE IInv'
<1>0. Types
  BY KeepsTypes
<1> DEFINE d == delivered[o]
           b == buffer[o]
           r == Response(o, Len(d) + 1)
<1>1. /\ ask = o /\ stream[o] = "open" /\ b # <<>> /\ o # None
      /\ d \in Seq(Responses) /\ b \in Seq(Responses)
  BY <1>0, Each DEF Types, Take
<1>2. Len(d) \in Nat /\ Len(b) \in Nat /\ Len(b) >= 1 /\ length[o] \in Nat /\ Len(d) + Len(b) <= length[o]
  <2>1. Len(b) # 0
    BY <1>1
  <2>2. Len(d) \in Nat /\ Len(b) \in Nat /\ length[o] \in Nat /\ Len(d) + Len(b) <= length[o]
    BY Numbers
  <2>3. Len(b) >= 1
    BY <2>1, <2>2
  <2> QED
    BY <2>2, <2>3
<1>3. Consecutive(o)
  BY Each DEF Query
<1>4. Head(b) = r /\ r \in Responses /\ r.id = Len(d) + 1
  <2>1. Head(b) = b[1] /\ b[1] \in Responses
    BY <1>1, <1>2
  <2>2. b[1] = Response(o, Len(d) + 1)
    BY <1>2, <1>3 DEF Consecutive
  <2> QED
    BY <2>1, <2>2 DEF Response
<1>5. Len(Append(d, r)) = Len(d) + 1 /\ Append(d, r) \in Seq(Responses)
  BY <1>1, <1>4
<1>6. \A i \in 1 .. Len(d) + 1 : Append(d, r)[i] = Response(o, i)
  <2>1. ASSUME NEW i \in 1 .. Len(d) + 1 PROVE Append(d, r)[i] = Response(o, i)
    <3>1. CASE i = Len(d) + 1
      BY <3>1, <1>1, <1>4
    <3>2. CASE i # Len(d) + 1
      <4>1. i \in 1 .. Len(d)
        BY <3>2, <1>2
      <4>2. Append(d, r)[i] = d[i]
        BY <4>1, <1>1, <1>4
      <4> QED
        BY <4>1, <4>2, <1>3 DEF Consecutive
    <3> QED
      BY <3>1, <3>2
  <2> QED
    BY <2>1
<1>7. Len(Tail(b)) = Len(b) - 1 /\ Tail(b) \in Seq(Responses)
  BY <1>1, <1>2
<1>8. \A i \in 1 .. Len(b) - 1 : Tail(b)[i] = Response(o, Len(d) + 1 + i)
  <2>1. ASSUME NEW i \in 1 .. Len(b) - 1 PROVE Tail(b)[i] = Response(o, Len(d) + 1 + i)
    <3>0. i + 1 \in 1 .. Len(b) /\ Len(d) + (i + 1) = Len(d) + 1 + i
      BY <1>2, NextIndex
    <3>1. Tail(b)[i] = b[i + 1]
      BY <1>1, <1>7
    <3>2. b[i + 1] = Response(o, Len(d) + (i + 1))
      BY <3>0, <1>3 DEF Consecutive
    <3> QED
      BY <3>0, <3>1, <3>2
  <2> QED
    BY <2>1
<1>9. /\ delivered' = [delivered EXCEPT ![o] = Append(d, r)]
      /\ buffer' = [buffer EXCEPT ![o] = Tail(b)]
      /\ UNCHANGED <<attempts, request, owner, sending, length, faults, blame>>
      /\ ask' = None
      /\ IF Len(d) + 1 = length[o]
           THEN outcome' = [outcome EXCEPT ![o] = "complete"] /\ stream' = [stream EXCEPT ![o] = "over"]
           ELSE UNCHANGED <<outcome, stream>>
  BY <1>4 DEF Take, Rest, Settle, channel
<1>10. /\ delivered'[o] = Append(d, r) /\ \A p \in Op : p # o => delivered'[p] = delivered[p]
       /\ buffer'[o] = Tail(b) /\ \A p \in Op : p # o => buffer'[p] = buffer[p]
  BY <1>0, <1>9 DEF Types
<1>11. /\ Len(d) + 1 = length[o] => outcome'[o] = "complete" /\ stream'[o] = "over"
       /\ Len(d) + 1 # length[o] => outcome'[o] = outcome[o] /\ stream'[o] = stream[o]
       /\ \A p \in Op : p # o => outcome'[p] = outcome[p] /\ stream'[p] = stream[p]
  BY <1>0, <1>9 DEF Types
<1> HIDE DEF d, b, r
<1>12. Types'
  <2>1. delivered' \in [Op -> Seq(Responses)] /\ buffer' \in [Op -> Seq(Responses)]
    BY <1>0, <1>5, <1>7, <1>9 DEF Types
  <2>2. outcome' \in [Op -> {"running", "complete", "failed", "dropped"}] /\ stream' \in [Op -> {"lazy", "open", "over"}]
    BY <1>0, <1>9 DEF Types
  <2> QED
    BY <1>0, <1>9, <2>1, <2>2 DEF Types
<1>13. ASSUME NEW p \in Op, p # o PROVE Query(p)'
  <2>1. Query(p) /\ p # None
    BY Each
  <2> QED
    BY <1>9, <1>10, <1>11, <1>13, <2>1, OthersUntouched
<1>14. Len(delivered'[o]) = Len(d) + 1 /\ Len(buffer'[o]) = Len(b) - 1 /\ length'[o] = length[o]
  BY <1>5, <1>7, <1>9, <1>10
<1>15. Consecutive(o)'
  <2>1. \A i \in 1 .. Len(delivered'[o]) : delivered'[o][i] = Response(o, i)
    BY <1>6, <1>10, <1>14
  <2>2. \A i \in 1 .. Len(buffer'[o]) : buffer'[o][i] = Response(o, Len(delivered'[o]) + i)
    BY <1>8, <1>10, <1>14
  <2>3. Len(delivered'[o]) + Len(buffer'[o]) <= length'[o]
    BY <1>2, <1>14
  <2> QED
    BY <2>1, <2>2, <2>3 DEF Consecutive
<1>16. CallContinues(o)'
  <2>1. CallContinues(o) /\ stream'[o] # "lazy"
    BY <1>1, <1>11, Each DEF Query
  <2>2. stream[o] = "open" /\ owner = o => sending = Len(d) + Len(b) + 1
    BY <2>1 DEF CallContinues, d, b
  <2>3. sending = Len(d) + Len(b) + 1 => sending = Len(delivered'[o]) + Len(buffer'[o]) + 1
    BY <1>2, <1>14
  <2>4. owner' = owner /\ sending' = sending /\ stream[o] = "open"
    BY <1>1, <1>9
  <2> QED
    BY <2>1, <2>2, <2>3, <2>4 DEF CallContinues
<1>17. OutcomeIsRight(o)'
  <2>1. OutcomeIsRight(o) /\ outcome[o] = "running"
    BY <1>1, Each DEF Query, OutcomeIsRight
  <2>2. CASE Len(d) + 1 = length[o]
    BY <2>2, <1>1, <1>2, <1>9, <1>14 DEF OutcomeIsRight
  <2>3. CASE Len(d) + 1 # length[o]
    BY <2>1, <2>3, <1>1, <1>9, <1>11 DEF OutcomeIsRight
  <2> QED
    BY <2>2, <2>3
<1>18. FailureIsExcused(o)'
  <2>1. length'[o] # 0
    BY <1>2, <1>14
  <2>2. outcome'[o] # "failed"
    <3>1. outcome[o] = "running"
      BY <1>1, Each DEF Query, OutcomeIsRight
    <3> QED
      BY <3>1, <1>11
  <2> QED
    BY <2>1, <2>2 DEF FailureIsExcused
<1> QED
  BY <1>12, <1>13, <1>15, <1>16, <1>17, <1>18 DEF IInv, Query

-----------------------------------------------------------------------------
(* How a call ends otherwise.                                              *)

LEMMA Counters ==
  ASSUME IInv
  PROVE  /\ attempts \in Nat /\ attempts <= Budget /\ Budget \in Nat
         /\ faults \in Nat /\ faults <= MaxFaults /\ MaxFaults \in Nat
<1>1. attempts \in 0 .. Budget /\ faults \in 0 .. MaxFaults
  BY KeepsTypes DEF Types
<1> QED
  BY <1>1, RecoveryBounds

LEMMA FaultCounts == ASSUME IInv, Fault PROVE faults' \in 0 .. MaxFaults
BY Counters DEF Fault

LEMMA AttemptCounts == ASSUME IInv, attempts < Budget PROVE attempts + 1 \in 0 .. Budget
BY Counters

\* What the ends of a call have in common: they happen to the query that is
\* asked, leave the responses alone, and take the channel at most for it.
Ends(o) ==
  /\ ask = o /\ buffer[o] = <<>>
  /\ UNCHANGED <<delivered, buffer, length>>
  /\ (owner' = owner /\ sending' = sending) \/ owner' = o
  /\ blame[o] \subseteq blame'[o]
  /\ \A p \in Op : p # o => blame'[p] = blame[p]

\* The next call reattaches.  That the server may not know the query is
\* excused by the loss of its first request.
LEMMA CallAgain ==
  ASSUME IInv, NEW o \in Op, Ends(o), Types',
         UNCHANGED <<ask, outcome>>,
         stream' = [stream EXCEPT ![o] = "lazy"], request' = [request EXCEPT ![o] = "reattach"],
         length[o] = 0 => "not started" \in blame'[o]
  PROVE  IInv'
<1>0. Types
  BY KeepsTypes
<1>1. ASSUME NEW p \in Op, p # o PROVE Query(p)'
  <2>1. stream'[p] = stream[p] /\ request'[p] = request[p]
    BY <1>0, <1>1 DEF Types
  <2> QED
    BY <1>1, <2>1, Each, OthersUntouched DEF Ends
<1>2. stream'[o] = "lazy" /\ request'[o] = "reattach"
  BY <1>0 DEF Types
<1>3. Consecutive(o)' /\ CallContinues(o)'
  <2>1. Consecutive(o)
    BY Each DEF Query
  <2> QED
    BY <2>1, <1>2 DEF Ends, Consecutive, CallContinues
<1>4. OutcomeIsRight(o)'
  BY Each DEF Query, OutcomeIsRight, Ends
<1>5. FailureIsExcused(o)'
  <2>1. outcome'[o] = "running"
    BY Each DEF Ends, Query, OutcomeIsRight
  <2> QED
    BY <2>1 DEF Ends, FailureIsExcused
<1> QED
  BY <1>1, <1>3, <1>4, <1>5 DEF IInv, Query

\* The query fails, and there is an excuse.
LEMMA CallFails ==
  ASSUME IInv, NEW o \in Op, Ends(o), Types', Settle(o, "failed"), UNCHANGED request,
         \E e \in Excuses : e \in blame'[o]
  PROVE  IInv'
<1>0. Types
  BY KeepsTypes
<1>1. ASSUME NEW p \in Op, p # o PROVE Query(p)'
  <2>1. stream'[p] = stream[p] /\ outcome'[p] = outcome[p] /\ ask' # p
    BY <1>0, <1>1, Each DEF Types, Settle
  <2> QED
    BY <1>1, <2>1, Each, OthersUntouched DEF Ends
<1>2. stream'[o] = "over" /\ outcome'[o] = "failed" /\ ask' # o
  BY <1>0, Each DEF Types, Settle
<1>3. Consecutive(o)' /\ CallContinues(o)'
  <2>1. Consecutive(o)
    BY Each DEF Query
  <2> QED
    BY <2>1, <1>2 DEF Ends, Consecutive, CallContinues
<1>4. OutcomeIsRight(o)'
  BY <1>2 DEF OutcomeIsRight
<1>5. FailureIsExcused(o)'
  <2>1. length[o] = 0 /\ request[o] = "reattach" => "not started" \in blame[o]
    BY Each DEF Query, FailureIsExcused
  <2>2. "not started" \in blame[o] => "not started" \in blame'[o]
    BY DEF Ends
  <2>3. blame'[o] \cap Excuses # {}
    OBVIOUS
  <2> QED
    BY <1>2, <2>1, <2>2, <2>3 DEF Ends, FailureIsExcused
<1> QED
  BY <1>1, <1>3, <1>4, <1>5 DEF IInv, Query

LEMMA StopStep ==
  ASSUME IInv, NEW o \in Op, StopSuperseded(o) \/ StopCut(o) PROVE IInv'
<1>0. Types
  BY KeepsTypes
<1>1. /\ ask = o /\ stream[o] = "open" /\ buffer[o] = <<>>
      /\ stream' = [stream EXCEPT ![o] = "lazy"] /\ request' = [request EXCEPT ![o] = "reattach"]
      /\ UNCHANGED <<ask, attempts, delivered, outcome, buffer, owner, sending, length, blame>>
  BY DEF StopSuperseded, StopCut, Wants, AfterStop, NewCall, program, channel
<1>2. faults' \in 0 .. MaxFaults
  <2>1. CASE Fault
    BY <2>1, FaultCounts
  <2>2. CASE faults' = faults
    BY <2>2, <1>0 DEF Types
  <2> QED
    BY <2>1, <2>2 DEF StopSuperseded, StopCut
<1>3. Types'
  BY <1>0, <1>1, <1>2 DEF Types
<1>4. length[o] = 0 => "not started" \in blame'[o]
  BY <1>1, Each DEF Query, FailureIsExcused
<1>5. Ends(o)
  BY <1>1 DEF Ends
<1> QED
  BY <1>1, <1>3, <1>4, <1>5, CallAgain

\* UNAVAILABLE: retried, or too often by now.
LEMMA RetryStep ==
  ASSUME IInv, NEW o \in Op, ask = o, buffer[o] = <<>>, stream[o] \in {"lazy", "open"},
         Retry(o), UNCHANGED length, (owner' = owner /\ sending' = sending) \/ owner' = o,
         owner' \in Op \cup {None}, sending' \in 0 .. MaxResponses + 1, Fault,
         NEW e \in {"retried", "budget", "not started"}, Blame(o, e),
         attempts >= Budget => e \in Excuses,
         stream[o] = "lazy" /\ request[o] = "execute" => e = "not started"
  PROVE  IInv'
<1>0. Types
  BY KeepsTypes
<1>1. blame'[o] = blame[o] \cup {e} /\ \A p \in Op : p # o => blame'[p] = blame[p]
  BY <1>0 DEF Types, Blame
<1>2. delivered' = delivered /\ buffer' = buffer
  BY DEF Retry, UserError
<1>3. Ends(o)
  BY <1>1, <1>2 DEF Ends
<1>4. faults' \in 0 .. MaxFaults
  BY FaultCounts
<1>5. blame' \in [Op -> SUBSET {"retried", "budget", "not started", "server"}]
  BY <1>0 DEF Types, Blame
<1>6. CASE /\ attempts < Budget /\ attempts' = attempts + 1
           /\ stream' = [stream EXCEPT ![o] = "lazy"] /\ request' = [request EXCEPT ![o] = "reattach"]
           /\ UNCHANGED <<ask, delivered, outcome, buffer>>
  <2>1. attempts' \in 0 .. Budget
    BY <1>6, AttemptCounts
  <2>2. Types'
    BY <1>0, <1>4, <1>5, <1>6, <2>1 DEF Types
  <2>3. length[o] = 0 => "not started" \in blame'[o]
    <3>1. length[o] = 0 /\ (request[o] = "reattach" \/ stream[o] = "open") => "not started" \in blame[o]
      BY Each DEF Query, FailureIsExcused
    <3>2. request[o] \in {"execute", "reattach"}
      BY <1>0 DEF Types
    <3> QED
      BY <3>1, <3>2, <1>1
  <2> QED
    BY <1>3, <1>6, <2>2, <2>3, CallAgain
<1>7. CASE attempts >= Budget /\ UserError(o)
  <2>1. /\ ask' = None /\ outcome' = [outcome EXCEPT ![o] = "failed"] /\ stream' = [stream EXCEPT ![o] = "over"]
        /\ UNCHANGED <<attempts, delivered, request, buffer>>
    BY <1>7 DEF UserError, Settle
  <2>2. Types'
    BY <1>0, <1>4, <1>5, <2>1 DEF Types
  <2>3. \E x \in Excuses : x \in blame'[o]
    BY <1>1, <1>7
  <2>4. Settle(o, "failed")
    BY <1>7 DEF UserError
  <2> QED
    BY <1>3, <2>1, <2>2, <2>3, <2>4, CallFails
<1> QED
  BY <1>6, <1>7 DEF Retry

LEMMA FailsStep ==
  ASSUME IInv, NEW o \in Op, TransportFails(o) \/ RequestFails(o) PROVE IInv'
<1>0. Types
  BY KeepsTypes
<1>1. attempts < Budget <=> ~(attempts >= Budget)
  BY Counters
<1>2. CASE TransportFails(o)
  <2>1. /\ ask = o /\ stream[o] = "open" /\ buffer[o] = <<>> /\ Retry(o) /\ Fault
        /\ owner' = owner /\ sending' = sending /\ length' = length
    BY <1>2 DEF TransportFails, Wants, channel
  <2>2. owner' \in Op \cup {None} /\ sending' \in 0 .. MaxResponses + 1
    BY <1>0, <2>1 DEF Types
  <2> DEFINE e == IF attempts < Budget THEN "retried" ELSE "budget"
  <2>3. Blame(o, e) /\ e \in {"retried", "budget", "not started"} /\ (attempts >= Budget => e \in Excuses)
    BY <1>1, <1>2 DEF TransportFails, Excuses
  <2> HIDE DEF e
  <2> QED
    BY <2>1, <2>2, <2>3, RetryStep
<1>3. CASE RequestFails(o)
  <2>1. /\ ask = o /\ stream[o] = "lazy" /\ Retry(o) /\ Fault
        /\ owner' = o /\ sending' = sending /\ length' = length
    BY <1>3 DEF RequestFails
  <2>2. owner' \in Op \cup {None} /\ sending' \in 0 .. MaxResponses + 1
    BY <1>0, <2>1 DEF Types
  <2>3. buffer[o] = <<>>
    BY <2>1, Each DEF Query, CallContinues
  <2> DEFINE e == IF request[o] = "execute" THEN "not started"
                  ELSE IF attempts < Budget THEN "retried" ELSE "budget"
  <2>4. /\ Blame(o, e) /\ e \in {"retried", "budget", "not started"} /\ (attempts >= Budget => e \in Excuses)
        /\ (request[o] = "execute" => e = "not started")
    BY <1>1, <1>3 DEF RequestFails, Excuses
  <2> HIDE DEF e
  <2> QED
    BY <2>1, <2>2, <2>3, <2>4, RetryStep
<1> QED
  BY <1>2, <1>3

LEMMA ErrorStep ==
  ASSUME IInv, NEW o \in Op, Refuse(o) \/ ServerFails(o) PROVE IInv'
<1>0. Types
  BY KeepsTypes
<1>1. /\ ask = o /\ stream[o] = "open" /\ buffer[o] = <<>> /\ Settle(o, "failed")
      /\ UNCHANGED <<attempts, delivered, request, buffer, owner, sending, length>>
  BY DEF Refuse, ServerFails, Wants, UserError, channel
<1>2. \/ length[o] = 0 /\ blame' = blame /\ faults' = faults
      \/ Fault /\ blame' = [blame EXCEPT ![o] = @ \cup {"server"}]
  BY DEF Refuse, ServerFails, Blame
<1>3. faults' \in 0 .. MaxFaults
  <2>1. CASE Fault
    BY <2>1, FaultCounts
  <2>2. CASE faults' = faults
    BY <2>2, <1>0 DEF Types
  <2> QED
    BY <1>2, <2>1, <2>2
<1>4. blame' \in [Op -> SUBSET {"retried", "budget", "not started", "server"}]
  <2>1. blame \in [Op -> SUBSET {"retried", "budget", "not started", "server"}]
    BY <1>0 DEF Types
  <2> QED
    BY <1>2, <2>1
<1>5. Types'
  BY <1>0, <1>1, <1>3, <1>4 DEF Types, Settle
<1>6. blame[o] \subseteq blame'[o] /\ \A p \in Op : p # o => blame'[p] = blame[p]
  <2>1. blame \in [Op -> SUBSET {"retried", "budget", "not started", "server"}]
    BY <1>0 DEF Types
  <2>2. CASE blame' = blame
    BY <2>2
  <2>3. CASE blame' = [blame EXCEPT ![o] = @ \cup {"server"}]
    BY <2>1, <2>3
  <2> QED
    BY <1>2, <2>2, <2>3
<1>7. Ends(o)
  BY <1>1, <1>6 DEF Ends
<1>8. \E e \in Excuses : e \in blame'[o]
  <2>1. CASE length[o] = 0 /\ blame' = blame
    <3>1. "not started" \in blame[o]
      BY <1>1, <2>1, Each DEF Query, FailureIsExcused
    <3> QED
      BY <2>1, <3>1 DEF Excuses
  <2>2. CASE blame' = [blame EXCEPT ![o] = @ \cup {"server"}]
    <3>1. "server" \in blame'[o]
      BY <1>0, <2>2 DEF Types
    <3> QED
      BY <3>1 DEF Excuses
  <2> QED
    BY <1>2, <2>1, <2>2
<1> QED
  BY <1>1, <1>5, <1>7, <1>8, CallFails

-----------------------------------------------------------------------------
LEMMA NextInv == IInv /\ [Next]_vars => IInv'
<1> SUFFICES ASSUME IInv, [Next]_vars PROVE IInv'
  OBVIOUS
<1>1. CASE UnaryCall
  BY <1>1, UnaryStep
<1>2. ASSUME NEW o \in Op, Ask(o) PROVE IInv'
  BY <1>2, AskStep
<1>3. ASSUME NEW o \in Op, Drop(o) PROVE IInv'
  BY <1>3, DropStep
<1>4. ASSUME NEW o \in Op, Start(o) PROVE IInv'
  BY <1>4, ReattachStep, ExecuteStep DEF Start
<1>5. ASSUME NEW o \in Op, Progress(o) PROVE IInv'
  BY <1>5, TakeStep, StopStep, ErrorStep, ReceiveStep DEF Progress
<1>6. ASSUME NEW o \in Op, Breaks(o) PROVE IInv'
  BY <1>6, StopStep, FailsStep, ErrorStep DEF Breaks
<1>7. CASE UNCHANGED vars
  <2>1. Types'
    BY <1>7, KeepsTypes DEF Types, vars, program, calls, channel
  <2>2. ASSUME NEW p \in Op PROVE Query(p)'
    BY <1>7, Each, OthersUntouched DEF vars, program, calls, channel
  <2> QED
    BY <2>1, <2>2 DEF IInv
<1> QED
  BY <1>1, <1>2, <1>3, <1>4, <1>5, <1>6, <1>7 DEF Next

LEMMA Invariance == Spec => []IInv
BY InitInv, NextInv, PTL DEF Spec

\* Every variable has its type, and no query hands out more than it has.
THEOREM TypeCorrect == Spec => []TypeOK
<1>1. ASSUME IInv PROVE TypeOK
  <2>1. ASSUME NEW o \in Op PROVE Len(delivered[o]) <= MaxResponses
    <3>1. Len(delivered[o]) \in Nat /\ Len(buffer[o]) \in Nat /\ length[o] \in Nat /\ MaxResponses \in Nat
      BY <1>1, Numbers, RecoveryBounds
    <3>2. Len(delivered[o]) + Len(buffer[o]) <= length[o] /\ length[o] <= MaxResponses
      BY <1>1, Numbers
    <3>3. \A i, j, k, m \in Nat : i + j <= k /\ k <= m => i <= m
      OBVIOUS
    <3> QED
      BY <3>1, <3>2, <3>3
  <2> QED
    BY <1>1, <2>1, KeepsTypes DEF Types, TypeOK
<1> QED
  BY <1>1, Invariance, PTL

\* For any number of queries read in any interleaving over the one channel,
\* and any cuts, lost requests and retries, the program gets the responses of
\* each query once and in order, and all of them when it is complete.
THEOREM ResponsesComeOnceInOrder == Spec => []OnceInOrder
<1>1. ASSUME IInv PROVE OnceInOrder
  <2>1. ASSUME NEW o \in Op
        PROVE  /\ \A i \in 1 .. Len(delivered[o]) : delivered[o][i] = Response(o, i)
               /\ outcome[o] = "complete" => length[o] > 0 /\ Len(delivered[o]) = length[o]
    <3>1. Consecutive(o) /\ OutcomeIsRight(o)
      BY <1>1, Each DEF Query
    <3> QED
      BY <3>1 DEF Consecutive, OutcomeIsRight
  <2> QED
    BY <2>1 DEF OnceInOrder
<1> QED
  BY <1>1, Invariance, PTL

\* A query fails only for what the user must see: neither a cut nor a query
\* that takes the channel is enough (grpcweb.py:380-398).
THEOREM CutsStayInvisible == Spec => []CutsAreInvisible
<1>1. ASSUME IInv PROVE CutsAreInvisible
  <2>1. ASSUME NEW o \in Op PROVE FailureIsExcused(o)
    BY <1>1, Each DEF Query
  <2> QED
    BY <2>1 DEF CutsAreInvisible, FailureIsExcused, Excuses
<1> QED
  BY <1>1, Invariance, PTL

-----------------------------------------------------------------------------
(* Refinement.  A query is planned when the server executes it, delivers    *)
(* when a response is taken from the buffer, and gives up when it is        *)
(* dropped or an error reaches the user; every other step is a stutter.     *)

Visible == <<length, delivered, outcome>>

LEMMA GivesUp ==
  ASSUME IInv, NEW o \in Op, NEW how \in {"failed", "dropped"}, outcome[o] = "running",
         outcome' = [outcome EXCEPT ![o] = how], UNCHANGED <<length, delivered>>
  PROVE  Result!Next
BY DEF Result!Next, Result!GiveUp, Result!Running

LEMMA TakeDelivers == ASSUME IInv, NEW o \in Op, Take(o) PROVE Result!Next
<1>0. Types
  BY KeepsTypes
<1>1. /\ Query(o) /\ ask = o /\ buffer[o] # <<>> /\ UNCHANGED length
      /\ delivered' = [delivered EXCEPT ![o] = Append(@, Head(buffer[o]))]
      /\ IF Head(buffer[o]).id = length[o] THEN outcome' = [outcome EXCEPT ![o] = "complete"] ELSE UNCHANGED outcome
  BY Each DEF Take, Settle
<1>2. Len(delivered[o]) \in Nat /\ Len(buffer[o]) \in Nat /\ length[o] \in Nat
  BY Numbers
<1>3. Len(delivered[o]) + Len(buffer[o]) <= length[o]
  BY Numbers
<1>4. buffer[o] \in Seq(Responses) /\ Len(buffer[o]) # 0
  <2>1. buffer[o] \in Seq(Responses)
    BY <1>0 DEF Types
  <2> QED
    BY <1>1, <2>1
<1>5. Len(buffer[o]) >= 1 /\ 1 \in 1 .. Len(buffer[o])
  BY <1>2, <1>4
<1>6. Head(buffer[o]) = Response(o, Len(delivered[o]) + 1)
  <2>1. Head(buffer[o]) = buffer[o][1]
    BY <1>4
  <2> QED
    BY <1>1, <1>5, <2>1 DEF Query, Consecutive
<1>7. Head(buffer[o]).id = Len(delivered[o]) + 1
  BY <1>6 DEF Response
<1>8. Len(delivered[o]) + 1 <= length[o]
  <2>1. \A i, j, k \in Nat : i + j <= k /\ j >= 1 => i + 1 <= k
    OBVIOUS
  <2> QED
    BY <1>2, <1>3, <1>5, <2>1
<1>9. outcome[o] = "running"
  BY <1>1 DEF Query, OutcomeIsRight
<1>10. Result!Deliver(o)
  BY <1>1, <1>6, <1>7, <1>8, <1>9 DEF Result!Deliver, Result!Running, Result!Response, Response
<1> QED
  BY <1>10 DEF Result!Next

LEMMA EndRefines ==
  ASSUME IInv, NEW o \in Op, Breaks(o) \/ StopSuperseded(o) \/ Refuse(o)
  PROVE  Result!Next \/ UNCHANGED Visible
<1>1. ask = o /\ outcome[o] = "running"
  <2>1. ask = o
    BY DEF Breaks, StopCut, TransportFails, RequestFails, ServerFails, StopSuperseded, Refuse, Wants
  <2> QED
    BY <2>1, Each DEF Query, OutcomeIsRight
<1>2. UNCHANGED <<length, delivered>>
  BY DEF Breaks, StopCut, TransportFails, RequestFails, ServerFails, StopSuperseded, Refuse,
     AfterStop, NewCall, Retry, UserError, program
<1>3. outcome' = outcome \/ outcome' = [outcome EXCEPT ![o] = "failed"]
  BY DEF Breaks, StopCut, TransportFails, RequestFails, ServerFails, StopSuperseded, Refuse,
     AfterStop, NewCall, Retry, UserError, Settle, program
<1> QED
  BY <1>1, <1>2, <1>3, GivesUp DEF Visible

LEMMA NextRefines == IInv /\ [Next]_vars => Result!Next \/ UNCHANGED Visible
<1> SUFFICES ASSUME IInv, [Next]_vars PROVE Result!Next \/ UNCHANGED Visible
  OBVIOUS
<1>1. CASE UnaryCall
  BY <1>1 DEF UnaryCall, program, Visible
<1>2. ASSUME NEW o \in Op, Ask(o) PROVE UNCHANGED Visible
  BY <1>2 DEF Ask, Visible
<1>3. ASSUME NEW o \in Op, Drop(o) PROVE Result!Next
  BY <1>3, GivesUp DEF Drop, Settle
<1>4. ASSUME NEW o \in Op, Reattach(o) PROVE UNCHANGED Visible
  BY <1>4 DEF Reattach, program, Visible
<1>5. ASSUME NEW o \in Op, NEW n \in 1 .. MaxResponses, Execute(o, n) PROVE Result!Next
  <2>1. length[o] = 0 /\ outcome[o] = "running"
    BY <1>5, Each DEF Execute, Sends, Query, CallContinues, OutcomeIsRight
  <2>2. Result!Plan(o, n)
    BY <1>5, <2>1 DEF Execute, program, Result!Plan, Result!Running
  <2> QED
    BY <2>2 DEF Result!Next
<1>6. ASSUME NEW o \in Op, Take(o) PROVE Result!Next
  BY <1>6, TakeDelivers
<1>7. ASSUME NEW o \in Op, NEW n \in 1 .. MaxResponses, Receive(o, n) PROVE UNCHANGED Visible
  BY <1>7 DEF Receive, program, Visible
<1>8. ASSUME NEW o \in Op, Breaks(o) \/ StopSuperseded(o) \/ Refuse(o)
      PROVE  Result!Next \/ UNCHANGED Visible
  BY <1>8, EndRefines
<1>9. CASE UNCHANGED vars
  BY <1>9 DEF vars, program, Visible
<1> QED
  BY <1>1, <1>2, <1>3, <1>4, <1>5, <1>6, <1>7, <1>8, <1>9 DEF Next, Start, Progress

\* Whatever the connections do, the program sees queries that hand out their
\* responses once and in order, and end once.
THEOREM RecoveryImplementsResult == Spec => ImplementsResult
<1>1. Init => Result!Init
  BY DEF Init, Result!Init
<1>2. IInv /\ [Next]_vars => [Result!Next]_Visible
  BY NextRefines
<1> QED
  BY <1>1, <1>2, Invariance, PTL DEF Spec, ImplementsResult, Result!Spec, Result!vars, Visible
=============================================================================
