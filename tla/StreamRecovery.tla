--------------------------- MODULE StreamRecovery ---------------------------
(***************************************************************************)
(* Queries of one Python program over one blocking channel, while their    *)
(* streams break.  The channel carries one call at a time: a call that     *)
(* starts supersedes the stream that was open (worker/sab_channel.py), and *)
(* that stream, when it is resumed, ends.  The stub (transport/grpcweb.py) *)
(* ends without an error when a stream ends without a trailer, and raises  *)
(* a retryable UNAVAILABLE when the transport fails.  PySpark's            *)
(* ExecutePlanResponseReattachableIterator, external, is the one whose     *)
(* rules the stub's documentation states (grpcweb.py:380-398, 430-438): it *)
(* reattaches from the last response it returned after a stop, retries     *)
(* after UNAVAILABLE, a bounded number of times for each next(), and gives *)
(* every other error to the user.                                          *)
(*                                                                         *)
(* A response is its query and its number; the last one of a query is      *)
(* ResultComplete.  Bytes that are not yet a whole frame are left out:     *)
(* GrpcWebStub shows that they make no difference.                         *)
(***************************************************************************)
EXTENDS Naturals, Sequences

CONSTANTS
  Op,            \* the queries of the program
  None,          \* not a query
  MaxResponses,  \* bound: responses of one query
  MaxFaults,     \* bound: faults of the network and of the server
  Budget         \* PySpark's retries within one next()

ASSUME RecoveryBounds ==
  /\ None \notin Op /\ MaxResponses \in Nat /\ MaxFaults \in Nat /\ Budget \in Nat

VARIABLES
  ask,        \* the query whose next() blocks the program, or None
  attempts,   \* retries made within that next()
  request,    \* what the call of each query asks: "execute" or "reattach"
  stream,     \* that call: "lazy" (request not sent), "open" or "over"
  buffer,     \* responses in the stub's buffer that were not yet taken
  delivered,  \* responses handed to the program
  outcome,    \* "running", "complete", "failed" or "dropped"
  owner,      \* the query whose call is the channel's newest, or None
  sending,    \* the number of the next response the owner's call will carry
  length,     \* responses the server has for each query (0: unknown to it)
  faults,     \* history: faults so far
  blame       \* history: faults of each query that excuse its failure

program == <<ask, attempts, delivered, outcome>>
calls   == <<request, stream, buffer>>
channel == <<owner, sending>>
vars    == <<program, calls, channel, length, faults, blame>>

Response(o, i) == [op |-> o, id |-> i]

Init ==
  /\ ask = None /\ attempts = 0
  /\ request = [o \in Op |-> "execute"] /\ stream = [o \in Op |-> "lazy"]
  /\ buffer = [o \in Op |-> <<>>] /\ delivered = [o \in Op |-> <<>>]
  /\ outcome = [o \in Op |-> "running"]
  /\ owner = None /\ sending = 0
  /\ length = [o \in Op |-> 0]
  /\ faults = 0 /\ blame = [o \in Op |-> {}]

Fault == faults < MaxFaults /\ faults' = faults + 1
Blame(o, what) == blame' = [blame EXCEPT ![o] = @ \cup {what}]

-----------------------------------------------------------------------------
(* The program.                                                            *)

Ask(o) ==
  /\ ask = None /\ outcome[o] = "running"
  /\ ask' = o /\ attempts' = 0
  /\ UNCHANGED <<delivered, outcome, calls, channel, length, faults, blame>>

\* A unary call of the program (Config, AnalyzePlan, ...) takes the channel.
UnaryCall ==
  /\ ask = None /\ owner # None
  /\ owner' = None
  /\ UNCHANGED <<program, calls, sending, length, faults, blame>>

\* The call of query o is over, and the program goes on.
Settle(o, how) ==
  /\ ask' = None
  /\ outcome' = [outcome EXCEPT ![o] = how]
  /\ stream' = [stream EXCEPT ![o] = "over"]

\* The program drops the iterator; the generators under it are finalised.
Drop(o) ==
  /\ ask = None /\ outcome[o] = "running"
  /\ Settle(o, "dropped")
  /\ UNCHANGED <<attempts, delivered, request, buffer, channel, length, faults, blame>>

-----------------------------------------------------------------------------
(* One call: the stub's generator over the channel's.                      *)

\* Both generators are lazy: next() sends the request, which takes the
\* channel.  The buffer of the call before it was drained before it ended.
Sends(o) ==
  /\ ask = o /\ stream[o] = "lazy"
  /\ stream' = [stream EXCEPT ![o] = "open"]
  /\ owner' = o

LastId(o) == IF delivered[o] = <<>> THEN 0 ELSE delivered[o][Len(delivered[o])].id

\* ExecutePlan reaches the server, which plans n responses.
Execute(o, n) ==
  /\ Sends(o) /\ request[o] = "execute"
  /\ length' = [length EXCEPT ![o] = n]
  /\ sending' = 1
  /\ UNCHANGED <<program, request, buffer, faults, blame>>

\* ReattachExecute reaches the server: it resumes after the last response.
Reattach(o) ==
  /\ Sends(o) /\ request[o] = "reattach"
  /\ sending' = LastId(o) + 1
  /\ UNCHANGED <<program, request, buffer, length, faults, blame>>

\* MUTANT of Superseded: a resumed stream does not look at the generation.
NeverSuperseded(o) == FALSE

\* MUTANT of Superseded: a unary call makes no new generation.
UnaryUnnoticed(o) == owner \notin {o, None}

\* C_GEN is no longer the generation of o's stream.
Superseded(o) == owner # o

\* The stub has no whole frame left and asks the channel for more.
Wants(o) == ask = o /\ stream[o] = "open" /\ buffer[o] = <<>>

\* A chunk with n whole responses of the exchange that is on the channel.
Receive(o, n) ==
  /\ Wants(o) /\ ~Superseded(o)
  /\ owner \in Op /\ sending + n <= length[owner] + 1
  /\ buffer' = [buffer EXCEPT ![o] = [i \in 1 .. n |-> Response(owner, sending + i - 1)]]
  /\ sending' = sending + n
  /\ UNCHANGED <<program, request, stream, owner, length, faults, blame>>

\* MUTANT of Rest: the frame that was taken stays in the buffer.
KeepFrame(frames) == frames

\* What _take_frame leaves.
Rest(frames) == Tail(frames)

\* The next whole frame is decoded and handed out.  After ResultComplete the
\* iterator is done and its call is dropped.
Take(o) ==
  /\ ask = o /\ stream[o] = "open" /\ buffer[o] # <<>>
  /\ delivered' = [delivered EXCEPT ![o] = Append(@, Head(buffer[o]))]
  /\ buffer' = [buffer EXCEPT ![o] = Rest(@)]
  /\ IF Head(buffer[o]).id = length[o]
       THEN Settle(o, "complete")
       ELSE ask' = None /\ UNCHANGED <<outcome, stream>>
  /\ UNCHANGED <<attempts, request, channel, length, faults, blame>>

-----------------------------------------------------------------------------
(* How a call ends otherwise, and what PySpark does then.                  *)

NewCall(o) ==
  /\ stream' = [stream EXCEPT ![o] = "lazy"]
  /\ request' = [request EXCEPT ![o] = "reattach"]
  /\ UNCHANGED <<program, buffer>>

UserError(o) == Settle(o, "failed") /\ UNCHANGED <<attempts, delivered, request, buffer>>

\* MUTANT of AfterStop: no trailer is raised as SparkConnectGrpcException.
RaiseOnStop(o) == UserError(o)

\* A stream that ends without a trailer stops: the iterator reattaches.
AfterStop(o) == NewCall(o)

\* UNAVAILABLE is retried, and the retry finds no iterator and reattaches.
Retry(o) ==
  \/ /\ attempts < Budget /\ attempts' = attempts + 1
     /\ stream' = [stream EXCEPT ![o] = "lazy"]
     /\ request' = [request EXCEPT ![o] = "reattach"]
     /\ UNCHANGED <<ask, delivered, outcome, buffer>>
  \/ attempts >= Budget /\ UserError(o)

\* A newer call owns the channel: the channel's generator returns.
StopSuperseded(o) ==
  /\ Wants(o) /\ Superseded(o)
  /\ AfterStop(o)
  /\ UNCHANGED <<channel, length, faults, blame>>

\* The connection is cut, or the server ends the stream early.
StopCut(o) ==
  /\ Wants(o) /\ ~Superseded(o) /\ Fault
  /\ AfterStop(o)
  /\ UNCHANGED <<channel, length, blame>>

\* The fetch or a read fails: TransportError, raised as UNAVAILABLE.
TransportFails(o) ==
  /\ Wants(o) /\ ~Superseded(o) /\ Fault
  /\ Retry(o) /\ Blame(o, IF attempts < Budget THEN "retried" ELSE "budget")
  /\ UNCHANGED <<channel, length>>

\* The request does not reach the server.
RequestFails(o) ==
  /\ ask = o /\ stream[o] = "lazy" /\ Fault
  /\ owner' = o
  /\ Retry(o)
  /\ Blame(o, IF request[o] = "execute" THEN "not started"
              ELSE IF attempts < Budget THEN "retried" ELSE "budget")
  /\ UNCHANGED <<sending, length>>

\* The server does not know the operation: OPERATION_NOT_FOUND in a trailer,
\* which is no grpc.RpcError, and of which from_call has no details.
Refuse(o) ==
  /\ Wants(o) /\ ~Superseded(o) /\ length[o] = 0
  /\ UserError(o)
  /\ UNCHANGED <<channel, length, faults, blame>>

\* The query fails on the server: a trailer with its status.
ServerFails(o) ==
  /\ Wants(o) /\ ~Superseded(o) /\ length[o] > 0 /\ Fault
  /\ UserError(o) /\ Blame(o, "server")
  /\ UNCHANGED <<channel, length>>

-----------------------------------------------------------------------------
Start(o)    == Reattach(o) \/ \E n \in 1 .. MaxResponses : Execute(o, n)
Progress(o) == \/ Take(o) \/ StopSuperseded(o) \/ Refuse(o)
               \/ \E n \in 1 .. MaxResponses : Receive(o, n)
Breaks(o)   == StopCut(o) \/ TransportFails(o) \/ RequestFails(o) \/ ServerFails(o)

Next == UnaryCall \/ \E o \in Op : Ask(o) \/ Drop(o) \/ Start(o) \/ Progress(o) \/ Breaks(o)

Spec == Init /\ [][Next]_vars

\* A call that was made runs, and the network answers; the program is free.
Fairness == \A o \in Op : WF_vars(Start(o) \/ Progress(o))

FairSpec == Spec /\ Fairness
-----------------------------------------------------------------------------
Responses == [op : Op, id : 1 .. MaxResponses]

\* Every variable has its type.
TypeOK ==
  /\ ask \in Op \cup {None} /\ attempts \in 0 .. Budget
  /\ request \in [Op -> {"execute", "reattach"}]
  /\ stream \in [Op -> {"lazy", "open", "over"}]
  /\ buffer \in [Op -> Seq(Responses)] /\ delivered \in [Op -> Seq(Responses)]
  /\ \A o \in Op : Len(delivered[o]) <= MaxResponses
  /\ outcome \in [Op -> {"running", "complete", "failed", "dropped"}]
  /\ owner \in Op \cup {None} /\ sending \in 0 .. MaxResponses + 1
  /\ length \in [Op -> 0 .. MaxResponses]
  /\ faults \in 0 .. MaxFaults
  /\ blame \in [Op -> SUBSET {"retried", "budget", "not started", "server"}]

\* Whatever breaks, and however queries are interleaved on the one channel,
\* the program gets the responses of each query once, in order, and all of
\* them when the iterator says the result is complete.
OnceInOrder == \A o \in Op :
  /\ \A i \in 1 .. Len(delivered[o]) : delivered[o][i] = Response(o, i)
  /\ outcome[o] = "complete" => length[o] > 0 /\ Len(delivered[o]) = length[o]

\* A query fails only when the server failed it, when its first request never
\* got there, or when more calls in a row failed than the budget allows: a cut
\* stream, and a stream superseded by another query, are never seen by the
\* user (grpcweb.py:380-398).
CutsAreInvisible == \A o \in Op :
  outcome[o] = "failed" => blame[o] \cap {"server", "not started", "budget"} # {}

\* Refinement: the queries behave as if no stream ever broke.
Result == INSTANCE ResultStream
ImplementsResult == Result!Spec

\* Liveness.  Every next() returns, also when each of two queries that are
\* read in turn takes the channel from the other.
NextReturns == \A o \in Op : ask = o ~> ask = None
=============================================================================
