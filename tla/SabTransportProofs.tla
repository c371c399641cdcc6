------------------------- MODULE SabTransportProofs -------------------------
(***************************************************************************)
(* Safety of the blocking transport for every number of RPCs, chunks,      *)
(* windows and sizes.  The types, the wake-up and the silence of stale     *)
(* streams hold with timeouts and with growing buffers; what main does     *)
(* with the shared buffers, and that the transport implements RpcChannel,  *)
(* when no request outgrows the data SAB and no call carries a timeout     *)
(* (Quiet).                                                                *)
(***************************************************************************)
EXTENDS SabTransportInv, TLAPS

-----------------------------------------------------------------------------
(* Types.                                                                  *)

\* What MainTypes needs to be inductive: main is attached when it is busy, and
\* a window acknowledged before the last one has a successor.
MainInv ==
  /\ MainTypes
  /\ mpc # "idle" => mbuf \in Bufs
  /\ mpc = "ackWindow" => win < nwin

TypeInv == SharedTypes /\ WorkerTypes /\ MainInv

\* The contents that are written are contents.
LEMMA ContentTypes ==
  /\ Empty \in Contents
  /\ \A g \in 0 .. MaxRpc : Request(g) \in Contents /\ ErrorMeta(g) \in Contents
  /\ \A g \in 0 .. MaxRpc, m \in 0 .. MaxMsg, w, n \in 0 .. MaxWin : Window(g, m, w, n) \in Contents
BY BoundsAssumption DEF Contents, Content, Empty, Request, ErrorMeta, Window

LEMMA TypeInit == Init => TypeInv
<1> SUFFICES ASSUME Init PROVE TypeInv
  OBVIOUS
<1> USE BoundsAssumption DEF Bufs, Rpc
<1>1. SharedTypes
  <2>1. queue \in Seq(Messages)
    BY DEF Init, Messages, Sab
  <2>2. data \in [Bufs -> Contents]
    BY ContentTypes DEF Init
  <2>3. state \in States
    BY DEF Init, States
  <2>4. genWord \in 0 .. MaxRpc
    BY DEF Init
  <2> QED
    BY <2>1, <2>2, <2>3, <2>4 DEF SharedTypes
<1>2. WorkerTypes
  BY DEF Init, WorkerTypes, States, Statuses
<1>3. MainInv
  BY DEF Init, MainInv, MainTypes
<1> QED
  BY <1>1, <1>2, <1>3 DEF TypeInv

\* An RPC leaves its call, or a stream is finalised.
LEMMA ResetTypes ==
  ASSUME SharedTypes, NEW g, ResetIfCurrent(g)
  PROVE  state' \in States
BY DEF SharedTypes, ResetIfCurrent, States

LEMMA LeaveTypes ==
  ASSUME SharedTypes, WorkerTypes, NEW s \in Statuses, Leave(s)
  PROVE  /\ state' \in States /\ status' \in [Rpc -> Statuses]
         /\ wpc' = "user" /\ parts' = <<>>
BY ResetTypes DEF WorkerTypes, Leave

\* The worker's steps keep the types.
LEMMA TypeWorker ==
  ASSUME TypeInv, User \/ Backend \/ TimeOut
  PROVE  SharedTypes' /\ WorkerTypes'
<1> USE BoundsAssumption DEF TypeInv
<1>1. ASSUME NEW k \in {"unary", "stream"}, WriteRequest(k) PROVE SharedTypes' /\ WorkerTypes'
  <2>1. PICK b \in GrowTo :
          /\ wbuf' = b
          /\ queue' = IF b = wbuf THEN queue ELSE Append(queue, Sab(b))
          /\ data' = [data EXCEPT ![b] = Request(call + 1)]
    BY <1>1 DEF WriteRequest
  <2>2. b \in Bufs
    BY DEF GrowTo, WorkerTypes
  <2>3. call + 1 \in 0 .. MaxRpc
    BY <1>1 DEF WriteRequest, WorkerTypes
  <2>4. data' \in [Bufs -> Contents]
    BY <2>1, <2>3, ContentTypes DEF SharedTypes
  <2>5. Sab(b) \in Messages
    BY <2>2 DEF Messages, Sab
  <2>6. queue' \in Seq(Messages)
    BY <2>1, <2>5 DEF SharedTypes
  <2>7. SharedTypes'
    BY <1>1, <2>4, <2>6 DEF WriteRequest, SharedTypes
  <2>8. status' \in [Rpc -> Statuses] /\ kind' \in [Rpc -> {"unary", "stream"}]
    BY <1>1 DEF WriteRequest, WorkerTypes, Statuses
  <2>9. WorkerTypes'
    BY <1>1, <2>1, <2>2, <2>3, <2>8 DEF WriteRequest, WorkerTypes
  <2> QED
    BY <2>7, <2>9
<1>2. ASSUME NEW g \in Rpc, Resume(g) PROVE SharedTypes' /\ WorkerTypes'
  <2>1. state' \in States
    BY <1>2, ResetTypes DEF Resume, States
  <2>2. status' \in [Rpc -> Statuses]
    BY <1>2 DEF Resume, WorkerTypes, Statuses
  <2> QED
    BY <1>2, <2>1, <2>2 DEF Resume, SharedTypes, WorkerTypes, States
<1>3. ASSUME NEW g \in Rpc, Close(g) PROVE SharedTypes' /\ WorkerTypes'
  <2>1. status' \in [Rpc -> Statuses]
    BY <1>3 DEF Close, WorkerTypes, Statuses
  <2> QED
    BY <1>3, <2>1, ResetTypes DEF Close, SharedTypes, WorkerTypes
<1>4. CASE StampGen
  BY <1>4 DEF StampGen, SharedTypes, WorkerTypes
<1>5. CASE Publish
  BY <1>5 DEF Publish, SharedTypes, WorkerTypes, States
<1>6. CASE PostNudge
  <2>1. queue' \in Seq(Messages)
    BY <1>6 DEF PostNudge, SharedTypes, Messages
  <2> QED
    BY <1>6, <2>1 DEF PostNudge, SharedTypes, WorkerTypes
<1>7. Reassembled \in Seq(Contents)
  BY DEF Reassembled, SharedTypes, WorkerTypes
<1>8. CASE AckWindow
  BY <1>8, <1>7 DEF AckWindow, SharedTypes, WorkerTypes, States
<1>9. CASE FinishMessage
  <2>1. got' \in [Rpc -> Seq(Seq(Contents))]
    <3>1. got' = [got EXCEPT ![call] = Append(got[call], Reassembled)]
      BY <1>9 DEF FinishMessage
    <3>2. CASE call \in Rpc
      <4>1. Append(got[call], Reassembled) \in Seq(Seq(Contents))
        BY <3>2, <1>7 DEF WorkerTypes
      <4> QED
        BY <3>1, <4>1 DEF WorkerTypes
    <3>3. CASE call \notin Rpc
      BY <3>1, <3>3 DEF WorkerTypes
    <3> QED
      BY <3>2, <3>3
  <2>2. "ok" \in Statuses /\ "suspended" \in Statuses
    BY DEF Statuses
  <2>3. /\ state' \in States /\ status' \in [Rpc -> Statuses]
        /\ wpc' = "user" /\ parts' = <<>>
    <3>1. CASE kind[call] = "unary"
      BY <1>9, <3>1, <2>2, LeaveTypes DEF FinishMessage
    <3>2. CASE kind[call] # "unary"
      BY <1>9, <3>2, <2>2 DEF FinishMessage, SharedTypes, WorkerTypes
    <3> QED
      BY <3>1, <3>2
  <2> QED
    BY <1>9, <2>1, <2>3 DEF FinishMessage, SharedTypes, WorkerTypes
<1>10. CASE SeeEnd
  <2>1. \A a, b \in BOOLEAN : (IF a THEN "error" ELSE IF b THEN "ok" ELSE "ended") \in Statuses
    BY DEF Statuses
  <2>2. /\ state' \in States /\ status' \in [Rpc -> Statuses]
        /\ wpc' = "user" /\ parts' = <<>>
    BY <1>10, <2>1, LeaveTypes DEF SeeEnd
  <2> QED
    BY <1>10, <2>2 DEF SeeEnd, SharedTypes, WorkerTypes
<1>11. CASE SeeError
  <2>1. /\ state' \in States /\ status' \in [Rpc -> Statuses]
        /\ wpc' = "user" /\ parts' = <<>>
    BY <1>11, LeaveTypes DEF SeeError, Statuses
  <2> QED
    BY <1>11, <2>1 DEF SeeError, SharedTypes, WorkerTypes
<1>12. CASE TimeOut
  <2>1. state' \in States
    BY <1>12, ResetTypes DEF TimeOut, SharedTypes
  <2>2. status' \in [Rpc -> Statuses]
    BY <1>12 DEF TimeOut, WorkerTypes, Statuses
  <2> QED
    BY <1>12, <2>1, <2>2 DEF TimeOut, SharedTypes, WorkerTypes
<1> QED
  BY <1>1, <1>2, <1>3, <1>4, <1>5, <1>6, <1>8, <1>9, <1>10, <1>11, <1>12 DEF User, Backend

\* The worker does not touch main's variables, nor main the worker's.
LEMMA WorkerFrame == User \/ Backend \/ TimeOut => UNCHANGED main
BY DEF User, Backend, TimeOut, WriteRequest, Resume, Close, StampGen, Publish, PostNudge,
       AckWindow, FinishMessage, SeeEnd, SeeError

LEMMA MainFrame == Network \/ Page => UNCHANGED <<genWord, worker>>
BY DEF Network, Page, NetworkFail, FetchOk, ReadDone, BodyOk, ReadChunk, HandleSab, HandleNudge,
       WindowAcked, MessageAcked, Abandoned, Finally

\* A request is read from a buffer main is attached to.
LEMMA BeginTypes ==
  ASSUME SharedTypes, MainTypes, mbuf \in Bufs, Begin, mbuf' = mbuf, total' = total
  PROVE  MainInv'
<1> DEFINE g == IF data[mbuf].tag = "req" THEN data[mbuf].gen ELSE 0
<1>1. g \in 0 .. MaxRpc
  BY BoundsAssumption DEF SharedTypes, Contents
<1>2. cur' \in 0 .. MaxRpc /\ fetches' \in [0 .. MaxRpc -> Nat]
  <2>1. cur' = g /\ fetches' = [fetches EXCEPT ![g] = fetches[g] + 1]
    BY DEF Begin
  <2>2. fetches[g] + 1 \in Nat
    BY <1>1 DEF MainTypes
  <2> HIDE DEF g
  <2> QED
    BY <1>1, <2>1, <2>2 DEF MainTypes
<1> QED
  BY <1>2, BoundsAssumption DEF Begin, MainTypes, MainInv

\* A window that is written fits the bounds.
LEMMA EmitTypes ==
  ASSUME SharedTypes, MainInv, mpc # "idle",
         NEW m \in 0 .. MaxMsg, NEW w \in 1 .. MaxWin, NEW n \in 1 .. MaxWin, Emit(m, w, n),
         UNCHANGED <<genWord, queue, mbuf, cur, fetches, total>>
  PROVE  SharedTypes' /\ MainInv'
<1>1. data' \in [Bufs -> Contents]
  <2>1. cur \in 0 .. MaxRpc /\ w \in 0 .. MaxWin /\ n \in 0 .. MaxWin
    BY BoundsAssumption DEF MainTypes, MainInv
  <2>2. Window(cur, m, w, n) \in Contents
    BY <2>1, ContentTypes
  <2> QED
    BY <2>2 DEF Emit, SharedTypes
<1>2. SharedTypes'
  BY <1>1 DEF Emit, SharedTypes, States
<1>3. MainInv'
  BY BoundsAssumption DEF Emit, MainTypes, MainInv
<1> QED
  BY <1>2, <1>3

\* The main thread's steps keep the types.
LEMMA TypeMain ==
  ASSUME TypeInv, Network \/ Page
  PROVE  SharedTypes' /\ MainInv'
<1> USE BoundsAssumption DEF TypeInv
<1>1. CASE HandleSab
  <2>1. Head(queue) \in Messages /\ queue' \in Seq(Messages)
    BY <1>1 DEF HandleSab, SharedTypes
  <2>2. mbuf' \in Bufs
    BY <1>1, <2>1 DEF HandleSab, Messages, Nudge
  <2> QED
    <3>1. SharedTypes'
      BY <1>1, <2>1 DEF HandleSab, SharedTypes
    <3>2. mbuf' \in 0 .. MaxGrow + 1
      BY <2>2 DEF Bufs
    <3>3. MainInv'
      BY <1>1, <2>2, <3>2 DEF HandleSab, MainInv, MainTypes
    <3> QED
      BY <3>1, <3>3
<1>2. CASE HandleNudge
  <2>1. queue' \in Seq(Messages)
    BY <1>2 DEF HandleNudge, SharedTypes
  <2>2. SharedTypes'
    BY <1>2, <2>1 DEF HandleNudge, SharedTypes
  <2>3. CASE MayDispatch
    <3>1. mbuf \in Bufs
      BY <2>3 DEF MayDispatch, MainInv, MainTypes, Bufs
    <3> QED
      BY <1>2, <2>2, <2>3, <3>1, BeginTypes DEF HandleNudge, MainInv
  <2>4. CASE ~MayDispatch
    BY <1>2, <2>2, <2>4 DEF HandleNudge, MainInv, MainTypes
  <2> QED
    BY <2>3, <2>4
<1>3. CASE NetworkFail
  <2>1. data' \in [Bufs -> Contents]
    BY <1>3, ContentTypes DEF NetworkFail, WriteError, SharedTypes, MainInv, MainTypes
  <2> QED
    BY <1>3, <2>1 DEF NetworkFail, WriteError, SharedTypes, MainInv, MainTypes, States
<1>4. CASE FetchOk
  BY <1>4 DEF FetchOk, SharedTypes, MainInv, MainTypes
<1>5. CASE ReadDone
  BY <1>5 DEF ReadDone, SharedTypes, MainInv, MainTypes, States
<1>6. ASSUME NEW n \in 1 .. MaxWin, BodyOk(n) PROVE SharedTypes' /\ MainInv'
  BY <1>6, EmitTypes DEF BodyOk
<1>7. ASSUME NEW n \in 1 .. MaxWin, ReadChunk(n) PROVE SharedTypes' /\ MainInv'
  <2>1. msg + 1 \in 0 .. MaxMsg
    BY <1>7 DEF ReadChunk, MainInv, MainTypes
  <2> QED
    BY <1>7, <2>1, EmitTypes DEF ReadChunk
<1>8. CASE WindowAcked
  <2>1. msg \in 0 .. MaxMsg /\ win + 1 \in 1 .. MaxWin /\ nwin \in 1 .. MaxWin
    BY <1>8 DEF WindowAcked, MainInv, MainTypes
  <2> QED
    BY <1>8, <2>1, EmitTypes DEF WindowAcked
<1>9. CASE MessageAcked
  BY <1>9 DEF MessageAcked, SharedTypes, MainInv, MainTypes
<1>10. CASE Abandoned
  BY <1>10 DEF Abandoned, SharedTypes, MainInv, MainTypes
<1>11. CASE Finally
  <2>1. SharedTypes' /\ mbuf \in Bufs
    BY <1>11 DEF Finally, SharedTypes, MainInv
  <2>2. CASE NextIsWaiting
    BY <1>11, <2>1, <2>2, BeginTypes DEF Finally, MainInv
  <2>3. CASE ~NextIsWaiting
    BY <1>11, <2>1, <2>3 DEF Finally, MainInv, MainTypes
  <2> QED
    BY <2>2, <2>3
<1> QED
  BY <1>1, <1>2, <1>3, <1>4, <1>5, <1>6, <1>7, <1>8, <1>9, <1>10, <1>11 DEF Network, Page

LEMMA TypeStep == TypeInv /\ [Next]_vars => TypeInv'
<1> SUFFICES ASSUME TypeInv, [Next]_vars PROVE TypeInv'
  OBVIOUS
<1>1. CASE User \/ Backend \/ TimeOut
  <2>1. MainInv'
    BY <1>1, WorkerFrame DEF main, TypeInv, MainInv, MainTypes
  <2> QED
    BY <1>1, <2>1, TypeWorker DEF TypeInv
<1>2. CASE Network \/ Page
  <2>1. WorkerTypes'
    BY <1>2, MainFrame DEF worker, TypeInv, WorkerTypes
  <2> QED
    BY <1>2, <2>1, TypeMain DEF TypeInv
<1>3. CASE UNCHANGED vars
  BY <1>3 DEF vars, worker, main, TypeInv, SharedTypes, WorkerTypes, MainInv, MainTypes
<1> QED
  BY <1>1, <1>2, <1>3 DEF Next, Finished

LEMMA TypeInvariant == Spec => []TypeInv
BY TypeInit, TypeStep, PTL DEF Spec

\* Every variable keeps its type, with or without timeouts and growth.
THEOREM TypeCorrect == Spec => []TypeOK
<1>1. TypeInv => TypeOK
  BY DEF TypeInv, MainInv, TypeOK
<1> QED
  BY <1>1, TypeInvariant, PTL

-----------------------------------------------------------------------------
(* No lost wake-up: a request the worker is parked on is always one main   *)
(* will look at again.                                                     *)

NudgeQueued == \E i \in 1 .. Len(queue) : queue[i] = Nudge

\* Before main is attached, the announcement of a buffer is first in line, so
\* no nudge is handled without one; and an idle main with a request to take
\* has a nudge to come.
WakeInv ==
  /\ mbuf = 0 => queue # <<>> /\ Head(queue).type = "sab"
  /\ state = "REQ_READY" /\ mpc = "idle" /\ wpc = "wait" => NudgeQueued

\* The worker's steps: the queue only grows, and STATE becomes REQ_READY only
\* on the way to a nudge.
LEMMA WakeWorker ==
  ASSUME TypeInv, WakeInv, User \/ Backend \/ TimeOut
  PROVE  WakeInv'
<1>1. queue \in Seq(Messages) /\ UNCHANGED main
  BY WorkerFrame DEF TypeInv, SharedTypes
<1>2. queue' = queue \/ \E m \in Messages : queue' = Append(queue, m)
  <2>1. ASSUME NEW k \in {"unary", "stream"}, WriteRequest(k)
        PROVE  queue' = queue \/ \E m \in Messages : queue' = Append(queue, m)
    <3>1. PICK b \in GrowTo : queue' = IF b = wbuf THEN queue ELSE Append(queue, Sab(b))
      BY <2>1 DEF WriteRequest
    <3>2. Sab(b) \in Messages
      BY BoundsAssumption DEF GrowTo, TypeInv, WorkerTypes, Messages, Sab
    <3> QED
      BY <3>1, <3>2
  <2>2. Nudge \in Messages
    BY DEF Messages
  <2> QED
    BY <2>1, <2>2 DEF User, Backend, TimeOut, Resume, Close, StampGen, Publish, PostNudge,
       AckWindow, FinishMessage, SeeEnd, SeeError
<1>3. mbuf' = 0 => queue' # <<>> /\ Head(queue').type = "sab"
  <2>1. ASSUME mbuf = 0, NEW m \in Messages, queue' = Append(queue, m)
        PROVE  queue' # <<>> /\ Head(queue') = Head(queue)
    BY <1>1, <2>1 DEF WakeInv
  <2> QED
    BY <1>1, <1>2, <2>1 DEF main, WakeInv
<1>4. NudgeQueued => NudgeQueued'
  <2>1. ASSUME NEW i \in 1 .. Len(queue), NEW m \in Messages, queue' = Append(queue, m)
        PROVE  i \in 1 .. Len(queue') /\ queue'[i] = queue[i]
    BY <1>1, <2>1
  <2> QED
    BY <1>2, <2>1 DEF NudgeQueued
<1>5. PostNudge => NudgeQueued'
  <2>1. ASSUME PostNudge
        PROVE  Len(queue') \in 1 .. Len(queue') /\ queue'[Len(queue')] = Nudge
    BY <1>1, <2>1 DEF PostNudge
  <2> QED
    BY <2>1 DEF NudgeQueued
<1>6. state' = "REQ_READY" /\ wpc' = "wait" => PostNudge \/ (state = "REQ_READY" /\ wpc = "wait")
  BY DEF User, Backend, TimeOut, WriteRequest, Resume, Close, StampGen, Publish, PostNudge,
     AckWindow, FinishMessage, SeeEnd, SeeError, Leave, ResetIfCurrent, Woken, TypeInv, WorkerTypes
<1> QED
  BY <1>1, <1>3, <1>4, <1>5, <1>6 DEF main, WakeInv

\* Main's steps: a nudge it drops while busy is made up for by the finally.
LEMMA WakeMain ==
  ASSUME TypeInv, WakeInv, Network \/ Page
  PROVE  WakeInv'
<1>1. queue \in Seq(Messages) /\ wpc' = wpc
  BY MainFrame DEF TypeInv, SharedTypes, worker
<1>2. CASE HandleSab
  <2>1. Head(queue) \in Messages /\ Head(queue) # Nudge
    BY <1>1, <1>2 DEF HandleSab, Nudge
  <2>2. mbuf' # 0
    BY <1>2, <2>1, BoundsAssumption DEF HandleSab, Messages, Bufs
  <2>3. ASSUME NudgeQueued PROVE NudgeQueued'
    <3>1. PICK i \in 1 .. Len(queue) : queue[i] = Nudge
      BY <2>3 DEF NudgeQueued
    <3>2. i - 1 \in 1 .. Len(Tail(queue)) /\ Tail(queue)[i - 1] = queue[i]
      BY <1>1, <1>2, <2>1, <3>1 DEF HandleSab
    <3> QED
      BY <1>2, <3>1, <3>2 DEF HandleSab, NudgeQueued
  <2> QED
    BY <1>1, <1>2, <2>2, <2>3 DEF HandleSab, WakeInv
<1>3. CASE HandleNudge
  <2>1. mbuf # 0 /\ mbuf' = mbuf /\ state' = state
    BY <1>3 DEF HandleNudge, WakeInv
  <2>2. ~(state' = "REQ_READY" /\ mpc' = "idle")
    BY <1>3, <2>1 DEF HandleNudge, MayDispatch, Begin
  <2> QED
    BY <2>1, <2>2 DEF WakeInv
<1>4. ASSUME ~HandleSab, ~HandleNudge
      PROVE  queue' = queue /\ mbuf' = mbuf /\ ~(state' = "REQ_READY" /\ mpc' = "idle")
  BY <1>4 DEF Network, Page, NetworkFail, WriteError, FetchOk, ReadDone, BodyOk, ReadChunk, Emit,
     WindowAcked, MessageAcked, Abandoned, Finally, NextIsWaiting, Begin
<1> QED
  BY <1>2, <1>3, <1>4 DEF WakeInv

\* A published request is never stranded: the re-dispatch in handleRpc's
\* finally makes up for the nudges its busy guard dropped.
THEOREM NoRequestIsLost == Spec => []RequestNotLost
<1>1. Init => WakeInv
  BY DEF Init, WakeInv, Sab
<1>2. TypeInv /\ WakeInv /\ [Next]_vars => WakeInv'
  <2> SUFFICES ASSUME TypeInv, WakeInv, [Next]_vars PROVE WakeInv'
    OBVIOUS
  <2>1. CASE UNCHANGED vars
    BY <2>1 DEF vars, worker, main, WakeInv, NudgeQueued
  <2> QED
    BY <2>1, WakeWorker, WakeMain DEF Next, Finished
<1>3. WakeInv => RequestNotLost
  BY DEF WakeInv, NudgeQueued, RequestNotLost
<1> QED
  BY <1>1, <1>2, <1>3, TypeInvariant, PTL DEF Spec

-----------------------------------------------------------------------------
(* Stale streams end in silence.                                           *)

\* The generation word trails the number of the last RPC started.
GenerationTrails == genWord <= call

LEMMA TrailsStep ==
  ASSUME TypeInv, GenerationTrails, [Next]_vars
  PROVE  GenerationTrails'
<1>1. genWord \in Nat /\ call \in Nat
  BY BoundsAssumption DEF TypeInv, SharedTypes, WorkerTypes
<1>2. CASE User \/ Backend \/ TimeOut
  BY <1>1, <1>2 DEF GenerationTrails, User, Backend, TimeOut, WriteRequest, Resume, Close,
     StampGen, Publish, PostNudge, AckWindow, FinishMessage, SeeEnd, SeeError
<1>3. CASE Network \/ Page
  BY <1>3, MainFrame DEF GenerationTrails, worker
<1>4. CASE UNCHANGED vars
  BY <1>4 DEF GenerationTrails, vars, worker
<1> QED
  BY <1>2, <1>3, <1>4 DEF Next, Finished

\* A step that ends a superseded stream is its own next() or its close().
LEMMA StaleStep ==
  ASSUME TypeInv, GenerationTrails, Next, NEW g \in Rpc,
         status[g] = "suspended", status'[g] # "suspended", g < genWord
  PROVE  UNCHANGED <<state, genWord, data, queue>>
<1>1. g < call /\ genWord # g
  BY BoundsAssumption DEF GenerationTrails, TypeInv, SharedTypes, WorkerTypes, Rpc
<1>2. status \in [Rpc -> Statuses]
  BY DEF TypeInv, WorkerTypes
<1>3. ASSUME NEW h \in Rpc, Resume(h) PROVE UNCHANGED <<state, genWord, data, queue>>
  <2>1. h = g
    BY <1>2, <1>3 DEF Resume
  <2> QED
    BY <1>1, <1>3, <2>1 DEF Resume, Superseded, ResetIfCurrent
<1>4. ASSUME NEW h \in Rpc, Close(h) PROVE UNCHANGED <<state, genWord, data, queue>>
  <2>1. h = g
    BY <1>2, <1>4 DEF Close
  <2> QED
    BY <1>1, <1>4, <2>1 DEF Close, ResetIfCurrent
<1>5. ASSUME NEW k \in {"unary", "stream"}, WriteRequest(k) PROVE FALSE
  <2>1. g # call + 1
    BY <1>1, BoundsAssumption DEF TypeInv, WorkerTypes, Rpc
  <2> QED
    BY <1>2, <1>5, <2>1 DEF WriteRequest
<1>6. CASE Backend \/ TimeOut
  <2>1. g # call
    BY <1>1, BoundsAssumption DEF TypeInv, WorkerTypes, Rpc
  <2>2. status'[g] = status[g]
    BY <1>2, <1>6, <2>1 DEF Backend, StampGen, Publish, PostNudge, AckWindow, FinishMessage,
       SeeEnd, SeeError, Leave, TimeOut
  <2> QED
    BY <2>2
<1>7. CASE Network \/ Page \/ Finished
  BY <1>7, MainFrame DEF worker, Finished, vars
<1> QED
  BY <1>3, <1>4, <1>5, <1>6, <1>7 DEF Next, User

\* A stream that a newer RPC has superseded ends without touching STATE, C_GEN,
\* the buffers or the message queue, also after timeouts and on a buffer that
\* has grown (the guard in _reset_idle_if_current).
THEOREM StaleStreamsAreSilent == Spec => StaleStreamSilent
<1>1. Init => GenerationTrails
  BY DEF Init, GenerationTrails
<1>2. TypeInv /\ GenerationTrails /\ [Next]_vars => GenerationTrails'
  BY TrailsStep
<1>3. TypeInv /\ GenerationTrails /\ [Next]_vars =>
        [\A g \in Rpc :
           status[g] = "suspended" /\ status'[g] # "suspended" /\ g < genWord
             => UNCHANGED <<state, genWord, data, queue>>]_vars
  BY StaleStep
<1> QED
  BY <1>1, <1>2, <1>3, TypeInvariant, PTL DEF Spec, StaleStreamSilent

-----------------------------------------------------------------------------
(* The quiet transport: IInv.  One lemma per action; one step per conjunct. *)

\* The fields of a response window.
LEMMA WindowFields ==
  \A g, m, w, n : LET c == Window(g, m, w, n) IN
    c.tag = "win" /\ c.gen = g /\ c.msg = m /\ c.win = w /\ (c.more <=> w < n)
BY DEF Window, Content

\* The invariant holds initially.
LEMMA InvInit == Quiet /\ Init => IInv
<1> SUFFICES ASSUME Quiet, Init PROVE IInv
  OBVIOUS
<1> USE BoundsAssumption DEF Quiet, Init, Rpc, InCall, Untaken, Unsent
<1>1. OneBuffer
  BY DEF OneBuffer
<1>2. Generations /\ WorkerState /\ MainState
  BY DEF Generations, WorkerState, MainState
<1>3. RequestThere /\ WindowThere /\ AckThere /\ EndThere
  BY DEF RequestThere, WindowThere, AckThere, EndThere
<1>4. SentOnce /\ PartsOK
  BY DEF SentOnce, PartsOK
<1>5. OwnResponse /\ CompleteOnReturn
  BY DEF OwnResponse, CompleteOnReturn
<1> QED
  BY <1>1, <1>2, <1>3, <1>4, <1>5 DEF IInv

-----------------------------------------------------------------------------
\* The worker writes a request: the buffer is its own, main only waits.
LEMMA InvWriteRequest ==
  ASSUME Quiet, TypeInv, IInv, NEW k \in {"unary", "stream"}, WriteRequest(k)
  PROVE  IInv'
<1> USE BoundsAssumption DEF Quiet, IInv, InCall, worker, main
<1>1. /\ wpc = "user" /\ call < MaxRpc /\ call' = call + 1 /\ call + 1 \in Rpc /\ wpc' = "stamp"
  BY DEF WriteRequest, TypeInv, WorkerTypes, Rpc
<1>2. wbuf' = 1 /\ queue' = queue /\ data' = [data EXCEPT ![1] = Request(call + 1)]
  <2>1. GrowTo = {1} /\ wbuf = 1
    BY DEF GrowTo, OneBuffer, Bufs
  <2> QED
    BY <2>1 DEF WriteRequest
<1>3. \A g \in Rpc : status'[g] = IF g = call + 1 THEN "waiting" ELSE status[g]
  <2>1. status' = [status EXCEPT ![call + 1] = "waiting"]
    BY DEF WriteRequest
  <2> QED
    BY <2>1 DEF TypeInv, WorkerTypes
<1>4. \A g \in Rpc : kind'[g] = IF g = call + 1 THEN k ELSE kind[g]
  <2>1. kind' = [kind EXCEPT ![call + 1] = k]
    BY DEF WriteRequest
  <2> QED
    BY <2>1 DEF TypeInv, WorkerTypes
<1>5. OneBuffer'
  BY DEF WriteRequest, GrowTo, OneBuffer, TypeInv, MainInv, MainTypes, SharedTypes, WorkerTypes,
     Rpc, Bufs
<1>6. Generations'
  <2>1. got' = got /\ genWord' = genWord
    BY DEF WriteRequest
  <2>2. genWord = call /\ call \in Nat
    BY <1>1 DEF Generations, TypeInv, WorkerTypes
  <2>3. \A g \in Rpc : status[g] = "suspended" => kind'[g] = "stream"
    BY <1>4, <2>2 DEF Generations, Rpc
  <2> QED
    BY <1>1, <1>3, <2>1, <2>2, <2>3 DEF Generations, Rpc
<1>7. WorkerState'
  BY DEF WriteRequest, GrowTo, WorkerState, NextMsg, TypeInv, MainInv, MainTypes, SharedTypes,
     WorkerTypes, Rpc, Bufs
<1>8. MainState'
  BY DEF WriteRequest, GrowTo, MainState, TypeInv, MainInv, MainTypes, SharedTypes, WorkerTypes,
     Rpc, Bufs
<1>9. RequestThere'
  BY DEF WriteRequest, GrowTo, RequestThere, Untaken
<1>10. WindowThere'
  BY DEF WriteRequest, GrowTo, WindowThere, NextMsg
<1>11. AckThere'
  BY DEF WriteRequest, GrowTo, AckThere, NextMsg
<1>12. EndThere'
  BY DEF WriteRequest, GrowTo, EndThere
<1>13. SentOnce'
  <2>1. ~Unsent /\ Unsent' /\ ~InCall'
    BY <1>1 DEF Unsent, Untaken
  <2> QED
    BY <1>1, <2>1 DEF WriteRequest, SentOnce, TypeInv, WorkerTypes, Rpc
<1>14. PartsOK'
  BY DEF WriteRequest, GrowTo, PartsOK, WindowsOf, NextMsg
<1>15. OwnResponse'
  <2>1. got' = got
    BY DEF WriteRequest
  <2> QED
    BY <2>1 DEF OwnResponse
<1>16. CompleteOnReturn'
  BY DEF WriteRequest, GrowTo, CompleteOnReturn
<1> QED
  BY <1>5, <1>6, <1>7, <1>8, <1>9, <1>10, <1>11, <1>12, <1>13, <1>14, <1>15, <1>16

\* The generation is stamped before the request is visible.
LEMMA InvStampGen ==
  ASSUME Quiet, TypeInv, IInv, StampGen
  PROVE  IInv'
<1> USE BoundsAssumption DEF Quiet, IInv, InCall, worker, main
<1>1. OneBuffer'
  BY DEF StampGen, OneBuffer
<1>2. Generations'
  BY DEF StampGen, Generations, TypeInv, WorkerTypes, Rpc
<1>3. WorkerState'
  BY DEF StampGen, WorkerState, NextMsg
<1>4. MainState'
  BY DEF StampGen, MainState
<1>5. RequestThere'
  BY DEF StampGen, RequestThere, Untaken
<1>6. WindowThere'
  BY DEF StampGen, WindowThere, NextMsg
<1>7. AckThere'
  BY DEF StampGen, AckThere, NextMsg
<1>8. EndThere'
  BY DEF StampGen, EndThere
<1>9. SentOnce'
  BY DEF StampGen, SentOnce, Unsent, Untaken
<1>10. PartsOK'
  BY DEF StampGen, PartsOK, WindowsOf, NextMsg
<1>11. OwnResponse'
  <2>1. got' = got
    BY DEF StampGen
  <2> QED
    BY <2>1 DEF OwnResponse
<1>12. CompleteOnReturn'
  BY DEF StampGen, CompleteOnReturn
<1> QED
  BY <1>1, <1>2, <1>3, <1>4, <1>5, <1>6, <1>7, <1>8, <1>9, <1>10, <1>11, <1>12

\* The request is published.
LEMMA InvPublish ==
  ASSUME Quiet, TypeInv, IInv, Publish
  PROVE  IInv'
<1> USE BoundsAssumption DEF Quiet, IInv, InCall, worker, main
<1>1. OneBuffer'
  BY DEF Publish, OneBuffer
<1>2. Generations'
  BY DEF Publish, Generations
<1>3. WorkerState'
  <2>1. got[call] = <<>> /\ parts = <<>>
    BY DEF Publish, Generations, PartsOK, TypeInv, WorkerTypes, Rpc
  <2> QED
    BY <2>1 DEF Publish, WorkerState
<1>4. MainState'
  BY DEF Publish, MainState
<1>5. RequestThere'
  BY DEF Publish, RequestThere, Untaken, WorkerState
<1>6. WindowThere'
  BY DEF Publish, WindowThere, NextMsg
<1>7. AckThere'
  BY DEF Publish, AckThere, NextMsg
<1>8. EndThere'
  BY DEF Publish, EndThere
<1>9. SentOnce'
  BY DEF Publish, SentOnce, Unsent, Untaken, MainState, Generations, TypeInv, WorkerTypes, Rpc
<1>10. PartsOK'
  BY DEF Publish, PartsOK, WindowsOf, NextMsg
<1>11. OwnResponse'
  <2>1. got' = got
    BY DEF Publish
  <2> QED
    BY <2>1 DEF OwnResponse
<1>12. CompleteOnReturn'
  BY DEF Publish, CompleteOnReturn
<1> QED
  BY <1>1, <1>2, <1>3, <1>4, <1>5, <1>6, <1>7, <1>8, <1>9, <1>10, <1>11, <1>12

\* The nudge is queued.
LEMMA InvPostNudge ==
  ASSUME Quiet, TypeInv, IInv, PostNudge
  PROVE  IInv'
<1> USE BoundsAssumption DEF Quiet, IInv, InCall, worker, main
<1>1. OneBuffer'
  <2>1. \A i \in 1 .. Len(queue') : queue'[i] = Nudge \/ (i \in 1 .. Len(queue) /\ queue'[i] = queue[i])
    BY DEF PostNudge, TypeInv, SharedTypes, Messages
  <2> QED
    BY <2>1 DEF PostNudge, OneBuffer
<1>2. Generations'
  BY DEF PostNudge, Generations
<1>3. WorkerState'
  BY DEF PostNudge, WorkerState, NextMsg
<1>4. MainState'
  BY DEF PostNudge, MainState
<1>5. RequestThere'
  BY DEF PostNudge, RequestThere, Untaken
<1>6. WindowThere'
  BY DEF PostNudge, WindowThere, NextMsg
<1>7. AckThere'
  BY DEF PostNudge, AckThere, NextMsg
<1>8. EndThere'
  BY DEF PostNudge, EndThere
<1>9. SentOnce'
  BY DEF PostNudge, SentOnce, Unsent, Untaken
<1>10. PartsOK'
  BY DEF PostNudge, PartsOK, WindowsOf, NextMsg
<1>11. OwnResponse'
  <2>1. got' = got
    BY DEF PostNudge
  <2> QED
    BY <2>1 DEF OwnResponse
<1>12. CompleteOnReturn'
  BY DEF PostNudge, CompleteOnReturn
<1> QED
  BY <1>1, <1>2, <1>3, <1>4, <1>5, <1>6, <1>7, <1>8, <1>9, <1>10, <1>11, <1>12

\* A stream is resumed: the current one acks, a stale one only ends.
LEMMA InvResume ==
  ASSUME Quiet, TypeInv, IInv, NEW g \in Rpc, Resume(g)
  PROVE  IInv'
<1> USE BoundsAssumption DEF Quiet, IInv, InCall, worker, main
<1>1. /\ wpc = "user" /\ genWord = call /\ g \in Rpc /\ g <= call /\ kind[g] = "stream" /\ parts = <<>>
  BY DEF Resume, Generations, PartsOK, TypeInv, WorkerTypes, Rpc
<1>2. \A h \in Rpc : status'[h] = IF h = g THEN IF g = call THEN "waiting" ELSE "stale" ELSE status[h]
  BY <1>1 DEF Resume, Superseded, TypeInv, WorkerTypes
<1>3. ASSUME g = call PROVE /\ state' = "CHUNK_ACK" /\ waitOn' = "CHUNK_ACK" /\ wpc' = "wait"
                             /\ mpc = "ackMsg" /\ cur = call /\ msg = Len(got[call])
  BY <1>1, <1>3 DEF Resume, Superseded, WorkerState, Rpc
<1>4. ASSUME g # call PROVE UNCHANGED <<state, waitOn, wpc>>
  BY <1>1, <1>4 DEF Resume, Superseded, ResetIfCurrent
<1>5. OneBuffer'
  BY DEF Resume, Superseded, ResetIfCurrent, OneBuffer
<1>6. Generations'
  BY <1>1, <1>2, <1>3, <1>4 DEF Resume, Generations, Rpc
<1>7. WorkerState'
  <2>1. CASE g = call
    BY <1>1, <1>3, <2>1 DEF Resume, WorkerState
  <2>2. CASE g # call
    BY <1>1, <1>2, <1>4, <2>2 DEF Resume, WorkerState, TypeInv, WorkerTypes, Rpc
  <2> QED
    BY <2>1, <2>2
<1>8. MainState'
  BY DEF Resume, Superseded, ResetIfCurrent, MainState
<1>9. RequestThere'
  BY DEF Resume, Superseded, ResetIfCurrent, RequestThere, Untaken
<1>10. WindowThere'
  BY DEF Resume, Superseded, ResetIfCurrent, WindowThere, NextMsg
<1>11. AckThere'
  <2>1. CASE g = call
    BY <1>1, <1>3, <2>1 DEF Resume, AckThere
  <2>2. CASE g # call
    BY <1>1, <1>4, <2>2 DEF AckThere
  <2> QED
    BY <2>1, <2>2
<1>12. EndThere'
  BY DEF Resume, Superseded, ResetIfCurrent, EndThere
<1>13. SentOnce'
  BY DEF Resume, Superseded, ResetIfCurrent, SentOnce, Unsent, Untaken, Generations
<1>14. PartsOK'
  BY DEF Resume, Superseded, ResetIfCurrent, PartsOK, WindowsOf, NextMsg
<1>15. OwnResponse'
  <2>1. got' = got
    BY DEF Resume
  <2> QED
    BY <2>1 DEF OwnResponse
<1>16. CompleteOnReturn'
  BY <1>2 DEF Resume, CompleteOnReturn
<1> QED
  BY <1>5, <1>6, <1>7, <1>8, <1>9, <1>10, <1>11, <1>12, <1>13, <1>14, <1>15, <1>16

\* A stream is finalised: only the current one resets STATE.
LEMMA InvClose ==
  ASSUME Quiet, TypeInv, IInv, NEW g \in Rpc, Close(g)
  PROVE  IInv'
<1> USE BoundsAssumption DEF Quiet, IInv, InCall, worker, main
<1>1. OneBuffer'
  BY DEF Close, ResetIfCurrent, OneBuffer
<1>2. Generations'
  <2>1. \A h \in Rpc : status'[h] = IF h = g THEN "closed" ELSE status[h]
    BY DEF Close, TypeInv, WorkerTypes
  <2>2. g <= call /\ (g = call => wpc = "user")
    BY DEF Close, Generations, TypeInv, WorkerTypes, Rpc
  <2> QED
    BY <2>1, <2>2 DEF Close, Generations, TypeInv, WorkerTypes, Rpc
<1>3. WorkerState'
  <2>1. g = call => wpc = "user"
    BY DEF Close, Generations
  <2>2. status'[call] = IF call = g THEN "closed" ELSE status[call]
    BY DEF Close, TypeInv, WorkerTypes
  <2>3. state' = IF genWord = g THEN "IDLE" ELSE state
    BY DEF Close, ResetIfCurrent
  <2>4. CASE genWord = g
    BY <2>1, <2>2, <2>3, <2>4 DEF Close, WorkerState, Generations, NextMsg
  <2>5. CASE genWord # g
    BY <2>1, <2>2, <2>3, <2>5 DEF Close, WorkerState, Generations, NextMsg
  <2> QED
    BY <2>4, <2>5
<1>4. MainState'
  BY DEF Close, ResetIfCurrent, MainState, Generations
<1>5. RequestThere'
  BY DEF Close, ResetIfCurrent, RequestThere, Untaken
<1>6. WindowThere'
  BY DEF Close, ResetIfCurrent, WindowThere, NextMsg
<1>7. AckThere'
  BY DEF Close, ResetIfCurrent, AckThere, NextMsg
<1>8. EndThere'
  BY DEF Close, ResetIfCurrent, EndThere
<1>9. SentOnce'
  BY DEF Close, ResetIfCurrent, SentOnce, Unsent, Untaken, Generations
<1>10. PartsOK'
  BY DEF Close, ResetIfCurrent, PartsOK, WindowsOf, NextMsg
<1>11. OwnResponse'
  <2>1. got' = got
    BY DEF Close
  <2> QED
    BY <2>1 DEF OwnResponse
<1>12. CompleteOnReturn'
  BY DEF Close, ResetIfCurrent, CompleteOnReturn
<1> QED
  BY <1>1, <1>2, <1>3, <1>4, <1>5, <1>6, <1>7, <1>8, <1>9, <1>10, <1>11, <1>12

\* The worker takes a window that has a successor.
LEMMA InvAckWindow ==
  ASSUME Quiet, TypeInv, IInv, AckWindow
  PROVE  IInv'
<1> USE BoundsAssumption DEF Quiet, IInv, InCall, worker, main
<1>1. /\ wpc = "wait" /\ cur = call /\ msg = NextMsg /\ win = Len(parts) + 1 /\ win < nwin
      /\ data[1] = Window(call, msg, win, nwin) /\ mpc = "ackWindow"
  <2>1. wpc = "wait" /\ wbuf = 1 /\ state = "RESP_CHUNK"
    BY DEF AckWindow, Woken, OneBuffer
  <2>2. /\ cur = call /\ msg = NextMsg /\ win = Len(parts) + 1 /\ win <= nwin
      /\ data[1] = Window(call, msg, win, nwin)
    BY <2>1 DEF WindowThere
  <2>3. data[1].more <=> win < nwin
    BY <2>2, WindowFields
  <2> QED
    BY <2>1, <2>2, <2>3 DEF AckWindow, WindowThere
<1>2. /\ Len(parts') = Len(parts) + 1 /\ parts' # <<>>
      /\ \A i \in 1 .. Len(parts') : parts'[i] = IF i = Len(parts') THEN data[1] ELSE parts[i]
  <2>1. parts \in Seq(Contents) /\ parts' = Append(parts, data[1])
    BY DEF AckWindow, Reassembled, OneBuffer, TypeInv, WorkerTypes
  <2>2. data[1] \in Contents
    BY DEF OneBuffer, TypeInv, SharedTypes, Bufs
  <2> QED
    BY <2>1, <2>2
<1>3. OneBuffer'
  BY DEF AckWindow, Woken, Reassembled, Window, OneBuffer
<1>4. Generations'
  BY DEF AckWindow, Woken, Reassembled, Window, Generations
<1>5. WorkerState'
  BY DEF AckWindow, Woken, Reassembled, Window, WorkerState, NextMsg
<1>6. MainState'
  BY DEF AckWindow, Woken, Reassembled, Window, MainState
<1>7. RequestThere'
  BY DEF AckWindow, Woken, Reassembled, Window, RequestThere, Untaken
<1>8. WindowThere'
  BY DEF AckWindow, Woken, Reassembled, Window, WindowThere, NextMsg
<1>9. AckThere'
  BY <1>1, <1>2 DEF AckWindow, AckThere, NextMsg, TypeInv, WorkerTypes
<1>10. EndThere'
  BY DEF AckWindow, Woken, Reassembled, Window, EndThere
<1>11. SentOnce'
  BY DEF AckWindow, Woken, Reassembled, Window, SentOnce, Unsent, Untaken
<1>12. PartsOK'
  <2>1. \A i \in 1 .. Len(parts') :
          /\ parts'[i].tag = "win" /\ parts'[i].gen = call /\ parts'[i].msg = NextMsg
          /\ parts'[i].win = i /\ parts'[i].more
    <3> SUFFICES ASSUME NEW i \in 1 .. Len(parts')
                 PROVE  /\ parts'[i].tag = "win" /\ parts'[i].gen = call /\ parts'[i].msg = NextMsg
                        /\ parts'[i].win = i /\ parts'[i].more
      OBVIOUS
    <3>1. CASE i = Len(parts')
      BY <1>1, <1>2, <3>1, WindowFields
    <3>2. CASE i # Len(parts')
      <4>1. i \in 1 .. Len(parts) /\ parts # <<>>
        BY <1>2, <3>2 DEF TypeInv, WorkerTypes
      <4> QED
        BY <1>2, <3>2, <4>1 DEF PartsOK, WindowsOf
    <3> QED
      BY <3>1, <3>2
  <2>2. NextMsg' = NextMsg /\ call' = call /\ wpc' = "wait"
    BY <1>1 DEF AckWindow, NextMsg
  <2> QED
    BY <2>1, <2>2 DEF PartsOK, WindowsOf
<1>13. OwnResponse'
  <2>1. got' = got
    BY DEF AckWindow
  <2> QED
    BY <2>1 DEF OwnResponse
<1>14. CompleteOnReturn'
  BY DEF AckWindow, Woken, Reassembled, Window, CompleteOnReturn
<1> QED
  BY <1>3, <1>4, <1>5, <1>6, <1>7, <1>8, <1>9, <1>10, <1>11, <1>12, <1>13, <1>14

\* The worker takes the last window: the message is whole.
LEMMA InvFinishMessage ==
  ASSUME Quiet, TypeInv, IInv, FinishMessage
  PROVE  IInv'
<1> USE BoundsAssumption DEF Quiet, IInv, InCall, worker, main
<1>1. /\ wpc = "wait" /\ call \in Rpc /\ cur = call /\ msg = NextMsg /\ win = Len(parts) + 1
      /\ win = nwin /\ data[1] = Window(call, msg, win, nwin) /\ genWord = call /\ state = "RESP_CHUNK"
      /\ mpc \in {"ackMsg", "fin", "idle"} /\ (kind[call] = "stream" => mpc = "ackMsg")
  <2>1. wpc = "wait" /\ wbuf = 1 /\ state = "RESP_CHUNK"
    BY DEF FinishMessage, Woken, OneBuffer
  <2>2. /\ cur = call /\ msg = NextMsg /\ win = Len(parts) + 1 /\ win <= nwin
      /\ data[1] = Window(call, msg, win, nwin)
    BY <2>1 DEF WindowThere
  <2>3. data[1].more <=> win < nwin
    BY <2>2, WindowFields
  <2>4. win = nwin
    BY <2>1, <2>2, <2>3 DEF FinishMessage, TypeInv, MainInv, MainTypes
  <2>5. call \in Rpc /\ genWord = call
    BY <2>1 DEF Generations, TypeInv, WorkerTypes, Rpc
  <2> QED
    BY <2>1, <2>2, <2>4, <2>5 DEF WindowThere
<1>2. Whole(Reassembled, call, NextMsg) /\ Reassembled \in Seq(Contents)
  <2>1. data[1] \in Contents /\ wbuf = 1
    BY DEF OneBuffer, TypeInv, SharedTypes, Bufs
  <2>2. parts \in Seq(Contents)
    BY DEF TypeInv, WorkerTypes
  <2>3. /\ Reassembled \in Seq(Contents) /\ Len(Reassembled) = Len(parts) + 1 /\ Reassembled # <<>>
        /\ \A i \in 1 .. Len(Reassembled) :
             Reassembled[i] = IF i = Len(Reassembled) THEN data[1] ELSE parts[i]
    BY <2>1, <2>2 DEF Reassembled
  <2>4. Len(parts) \in Nat /\ (parts = <<>> <=> Len(parts) = 0)
    BY <2>2
  <2>5. ASSUME NEW i \in 1 .. Len(Reassembled)
        PROVE  /\ Reassembled[i].tag = "win" /\ Reassembled[i].gen = call
               /\ Reassembled[i].msg = NextMsg /\ Reassembled[i].win = i
               /\ Reassembled[i].more <=> i < Len(Reassembled)
    <3>1. CASE i = Len(Reassembled)
      BY <1>1, <2>3, <2>4, <3>1, WindowFields
    <3>2. CASE i # Len(Reassembled)
      <4>1. i \in 1 .. Len(parts) /\ parts # <<>> /\ i < Len(Reassembled)
        BY <2>3, <2>4, <3>2
      <4> QED
        BY <2>3, <3>2, <4>1 DEF PartsOK, WindowsOf
    <3> QED
      BY <3>1, <3>2
  <2> QED
    BY <2>3, <2>5 DEF Whole, WindowsOf
<1>3. /\ \A g \in Rpc : g # call => got'[g] = got[g]
      /\ Len(got'[call]) = Len(got[call]) + 1 /\ Len(got[call]) \in Nat
      /\ \A k \in 1 .. Len(got'[call]) :
             got'[call][k] = IF k = Len(got'[call]) THEN Reassembled ELSE got[call][k]
  <2>1. got' = [got EXCEPT ![call] = Append(got[call], Reassembled)]
    BY DEF FinishMessage
  <2>2. got[call] \in Seq(Seq(Contents))
    BY <1>1 DEF TypeInv, WorkerTypes
  <2>3. got'[call] = Append(got[call], Reassembled) /\ \A g \in Rpc : g # call => got'[g] = got[g]
    BY <1>1, <2>1 DEF TypeInv, WorkerTypes
  <2> QED
    BY <1>2, <2>2, <2>3
<1>4. status' = [status EXCEPT ![call] = IF kind[call] = "unary" THEN "ok" ELSE "suspended"]
  BY DEF FinishMessage, Leave
<1>5. OneBuffer'
  BY DEF FinishMessage, Woken, Reassembled, Leave, ResetIfCurrent, OneBuffer
<1>6. Generations'
  <2>1. \A g \in Rpc : status'[g] = IF g = call THEN IF kind[call] = "unary" THEN "ok" ELSE "suspended" ELSE status[g]
    BY <1>4 DEF TypeInv, WorkerTypes
  <2>2. genWord' = genWord /\ call' = call /\ kind' = kind /\ wpc' = "user"
    BY DEF FinishMessage, Leave
  <2>3. kind[call] \in {"unary", "stream"}
    BY <1>1 DEF TypeInv, WorkerTypes
  <2> QED
    BY <1>1, <1>3, <2>1, <2>2, <2>3 DEF Generations, Rpc
<1>7. WorkerState'
  <2>1. status'[call] = IF kind[call] = "unary" THEN "ok" ELSE "suspended"
    BY <1>1, <1>4 DEF TypeInv, WorkerTypes
  <2>2. kind[call] \in {"unary", "stream"}
    BY <1>1 DEF TypeInv, WorkerTypes
  <2>3. wpc' = "user" /\ call' = call /\ cur' = cur /\ msg' = msg /\ mpc' = mpc
    BY DEF FinishMessage, Leave
  <2>4. state' = IF kind[call] = "unary" THEN "IDLE" ELSE "RESP_CHUNK"
    BY <1>1 DEF FinishMessage, Leave, ResetIfCurrent
  <2> QED
    BY <1>1, <1>3, <2>1, <2>2, <2>3, <2>4 DEF WorkerState, NextMsg
<1>8. MainState'
  <2>1. wpc' = "user" /\ call' = call /\ UNCHANGED main /\ kind' = kind
    BY DEF FinishMessage, Leave
  <2> QED
    BY <1>1, <2>1 DEF MainState
<1>9. RequestThere'
  BY DEF FinishMessage, Woken, Reassembled, Leave, ResetIfCurrent, RequestThere, Untaken
<1>10. WindowThere'
  BY DEF FinishMessage, Woken, Reassembled, Leave, ResetIfCurrent, WindowThere, NextMsg
<1>11. AckThere'
  BY DEF FinishMessage, Woken, Reassembled, Leave, ResetIfCurrent, AckThere, NextMsg
<1>12. EndThere'
  BY DEF FinishMessage, Woken, Reassembled, Leave, ResetIfCurrent, EndThere
<1>13. SentOnce'
  BY DEF FinishMessage, Woken, Reassembled, Leave, ResetIfCurrent, SentOnce, Unsent, Untaken
<1>14. PartsOK'
  BY DEF FinishMessage, Woken, Reassembled, Leave, ResetIfCurrent, PartsOK, WindowsOf, NextMsg
<1>15. OwnResponse'
  <2> SUFFICES ASSUME NEW g \in Rpc, NEW k \in 1 .. Len(got'[g]) PROVE Whole(got'[g][k], g, k)
    BY DEF OwnResponse
  <2>1. CASE g # call
    BY <1>3, <2>1 DEF OwnResponse
  <2>2. CASE g = call /\ k = Len(got'[g])
    <3>1. k = NextMsg /\ got'[g][k] = Reassembled
      BY <1>3, <2>2 DEF NextMsg
    <3> QED
      BY <1>2, <2>2, <3>1
  <2>3. CASE g = call /\ k # Len(got'[g])
    <3>1. Len(got[call]) \in Nat
      BY <1>1 DEF TypeInv, WorkerTypes
    <3>2. k \in 1 .. Len(got[call])
      BY <1>3, <2>3, <3>1
    <3> QED
      BY <1>3, <2>3, <3>2 DEF OwnResponse
  <2> QED
    BY <2>1, <2>2, <2>3
<1>16. CompleteOnReturn'
  <2>1. \A g \in Rpc : g # call => status'[g] = status[g]
    BY <1>4 DEF TypeInv, WorkerTypes
  <2>2. status'[call] = IF kind[call] = "unary" THEN "ok" ELSE "suspended"
    BY <1>1, <1>4 DEF TypeInv, WorkerTypes
  <2>3. fetches' = fetches /\ total' = total
    BY DEF FinishMessage
  <2>4. kind[call] = "unary" => fetches[call] = 1 /\ Len(got'[call]) = 1
    <3>1. ~Unsent
      BY <1>1 DEF Unsent, Untaken
    <3>2. fetches[call] = 1
      BY <1>1, <3>1 DEF SentOnce, Rpc
    <3>3. kind[call] = "unary" => Len(got[call]) = 0
      BY <1>1 DEF SentOnce
    <3> QED
      BY <1>3, <3>2, <3>3
  <2> QED
    BY <1>1, <1>3, <2>1, <2>2, <2>3, <2>4 DEF CompleteOnReturn
<1> QED
  BY <1>5, <1>6, <1>7, <1>8, <1>9, <1>10, <1>11, <1>12, <1>13, <1>14, <1>15, <1>16

\* The worker sees the end of a stream.
LEMMA InvSeeEnd ==
  ASSUME Quiet, TypeInv, IInv, SeeEnd
  PROVE  IInv'
<1> USE BoundsAssumption DEF Quiet, IInv, InCall, worker, main
<1>1. call \in Rpc /\ wpc = "wait" /\ genWord = call
  BY DEF SeeEnd, Woken, Generations, TypeInv, WorkerTypes, Rpc
<1>2. kind[call] = "stream" /\ total[call] = Len(got[call]) /\ parts = <<>> /\ mpc \in {"fin", "idle"}
  BY <1>1 DEF SeeEnd, Woken, EndThere, WorkerState, TypeInv, SharedTypes, States
<1>3. \A g \in Rpc : status'[g] = IF g = call THEN "ended" ELSE status[g]
  <2>1. status' = [status EXCEPT ![call] = "ended"]
    BY <1>2 DEF SeeEnd, Leave
  <2> QED
    BY <2>1 DEF TypeInv, WorkerTypes
<1>4. OneBuffer'
  BY DEF SeeEnd, Woken, Leave, ResetIfCurrent, OneBuffer
<1>5. Generations'
  BY <1>1, <1>2, <1>3 DEF SeeEnd, Leave, Generations
<1>6. WorkerState'
  BY DEF SeeEnd, Woken, Leave, ResetIfCurrent, WorkerState, NextMsg, Generations, EndThere
<1>7. MainState'
  BY DEF SeeEnd, Woken, Leave, ResetIfCurrent, MainState
<1>8. RequestThere'
  BY DEF SeeEnd, Woken, Leave, ResetIfCurrent, RequestThere, Untaken
<1>9. WindowThere'
  BY DEF SeeEnd, Woken, Leave, ResetIfCurrent, WindowThere, NextMsg
<1>10. AckThere'
  BY DEF SeeEnd, Woken, Leave, ResetIfCurrent, AckThere, NextMsg
<1>11. EndThere'
  BY DEF SeeEnd, Woken, Leave, ResetIfCurrent, EndThere
<1>12. SentOnce'
  BY DEF SeeEnd, Woken, Leave, ResetIfCurrent, SentOnce, Unsent, Untaken
<1>13. PartsOK'
  BY DEF SeeEnd, Woken, Leave, ResetIfCurrent, PartsOK, WindowsOf, NextMsg
<1>14. OwnResponse'
  <2>1. got' = got
    BY DEF SeeEnd, Leave
  <2> QED
    BY <2>1 DEF OwnResponse
<1>15. CompleteOnReturn'
  <2>1. fetches[call] = 1
    BY <1>1 DEF SeeEnd, SentOnce, Unsent, Untaken, Rpc
  <2> QED
    BY <1>1, <1>2, <1>3, <2>1 DEF SeeEnd, CompleteOnReturn
<1> QED
  BY <1>4, <1>5, <1>6, <1>7, <1>8, <1>9, <1>10, <1>11, <1>12, <1>13, <1>14, <1>15

\* The worker sees an error.
LEMMA InvSeeError ==
  ASSUME Quiet, TypeInv, IInv, SeeError
  PROVE  IInv'
<1> USE BoundsAssumption DEF Quiet, IInv, InCall, worker, main
<1>1. call \in Rpc /\ wpc = "wait" /\ genWord = call
  BY DEF SeeError, Woken, Generations, TypeInv, WorkerTypes, Rpc
<1>2. state = "RESP_ERROR" /\ parts = <<>> /\ mpc \in {"fin", "idle"}
  BY <1>1 DEF SeeError, Woken, EndThere, WorkerState, TypeInv, SharedTypes, States
<1>3. \A g \in Rpc : status'[g] = IF g = call THEN "error" ELSE status[g]
  <2>1. status' = [status EXCEPT ![call] = "error"]
    BY <1>2 DEF SeeError, Leave
  <2> QED
    BY <2>1 DEF TypeInv, WorkerTypes
<1>4. OneBuffer'
  BY DEF SeeError, Woken, Leave, ResetIfCurrent, OneBuffer
<1>5. Generations'
  BY <1>1, <1>2, <1>3 DEF SeeError, Leave, Generations
<1>6. WorkerState'
  BY DEF SeeError, Woken, Leave, ResetIfCurrent, WorkerState, NextMsg, TypeInv, MainInv,
     MainTypes, Generations, MainState
<1>7. MainState'
  BY DEF SeeError, Woken, Leave, ResetIfCurrent, MainState, WorkerState
<1>8. RequestThere'
  BY DEF SeeError, Woken, Leave, ResetIfCurrent, RequestThere, Untaken
<1>9. WindowThere'
  BY DEF SeeError, Woken, Leave, ResetIfCurrent, WindowThere, NextMsg
<1>10. AckThere'
  BY DEF SeeError, Woken, Leave, ResetIfCurrent, AckThere, NextMsg
<1>11. EndThere'
  BY DEF SeeError, Woken, Leave, ResetIfCurrent, EndThere
<1>12. SentOnce'
  BY DEF SeeError, Woken, Leave, ResetIfCurrent, SentOnce, Unsent, Untaken, WorkerState
<1>13. PartsOK'
  BY DEF SeeError, Woken, Leave, ResetIfCurrent, PartsOK, WindowsOf, NextMsg
<1>14. OwnResponse'
  <2>1. got' = got
    BY DEF SeeError, Leave
  <2> QED
    BY <2>1 DEF OwnResponse
<1>15. CompleteOnReturn'
  BY DEF SeeError, Woken, Leave, ResetIfCurrent, CompleteOnReturn
<1> QED
  BY <1>4, <1>5, <1>6, <1>7, <1>8, <1>9, <1>10, <1>11, <1>12, <1>13, <1>14, <1>15

\* Main attaches the buffer it is attached to.
LEMMA InvHandleSab ==
  ASSUME Quiet, TypeInv, IInv, HandleSab
  PROVE  IInv'
<1> USE BoundsAssumption DEF Quiet, IInv, InCall, worker, main
<1>1. OneBuffer'
  <2>1. queue[1] = Sab(1) /\ Head(queue) = queue[1]
    BY DEF HandleSab, OneBuffer, Nudge, TypeInv, SharedTypes
  <2>2. \A i \in 1 .. Len(Tail(queue)) : Tail(queue)[i] = queue[i + 1] /\ i + 1 \in 1 .. Len(queue)
    BY DEF HandleSab, TypeInv, SharedTypes
  <2>3. mbuf' = 1
    BY <2>1 DEF HandleSab, Sab
  <2> QED
    BY <2>1, <2>2, <2>3 DEF HandleSab, OneBuffer
<1>2. Generations'
  BY DEF HandleSab, Sab, Nudge, Generations
<1>3. WorkerState'
  BY DEF HandleSab, Sab, Nudge, WorkerState, NextMsg
<1>4. MainState'
  BY DEF HandleSab, Sab, Nudge, MainState
<1>5. RequestThere'
  BY DEF HandleSab, Sab, Nudge, RequestThere, Untaken
<1>6. WindowThere'
  BY DEF HandleSab, Sab, Nudge, WindowThere, NextMsg
<1>7. AckThere'
  BY DEF HandleSab, Sab, Nudge, AckThere, NextMsg
<1>8. EndThere'
  BY DEF HandleSab, Sab, Nudge, EndThere
<1>9. SentOnce'
  BY DEF HandleSab, Sab, Nudge, SentOnce, Unsent, Untaken
<1>10. PartsOK'
  BY DEF HandleSab, Sab, Nudge, PartsOK, WindowsOf, NextMsg
<1>11. OwnResponse'
  <2>1. got' = got
    BY DEF HandleSab
  <2> QED
    BY <2>1 DEF OwnResponse
<1>12. CompleteOnReturn'
  BY DEF HandleSab, Sab, Nudge, CompleteOnReturn
<1> QED
  BY <1>1, <1>2, <1>3, <1>4, <1>5, <1>6, <1>7, <1>8, <1>9, <1>10, <1>11, <1>12

\* Main handles a nudge: it takes the request or drops the nudge.
LEMMA InvHandleNudge ==
  ASSUME Quiet, TypeInv, IInv, HandleNudge
  PROVE  IInv'
<1> USE BoundsAssumption DEF Quiet, IInv, InCall, worker, main
<1>1. ASSUME MayDispatch
      PROVE  /\ Untaken /\ InCall /\ call \in Rpc /\ state = waitOn
             /\ got[call] = <<>> /\ parts = <<>> /\ fetches[call] = 0
             /\ mbuf = 1 /\ data[1] = Request(call)
  BY <1>1 DEF HandleNudge, MayDispatch, OneBuffer, RequestThere, SentOnce, Unsent, Generations,
     Untaken, TypeInv, SharedTypes, WorkerTypes, MainInv, MainTypes, States, Rpc, WorkerState
<1>2. ASSUME MayDispatch
      PROVE  /\ cur' = call /\ msg' = 0 /\ mpc' = "fetch"
             /\ fetches' = [fetches EXCEPT ![call] = 1]
  BY <1>2, <1>1 DEF HandleNudge, MayDispatch, Begin, Request, Content
<1>3. OneBuffer'
  BY DEF HandleNudge, MayDispatch, Begin, Request, OneBuffer
<1>4. Generations'
  BY DEF HandleNudge, MayDispatch, Begin, Request, Generations
<1>5. WorkerState'
  <2>1. CASE MayDispatch
    BY <1>1, <1>2, <2>1 DEF HandleNudge, MayDispatch, WorkerState, NextMsg
  <2>2. CASE ~MayDispatch
    BY <2>2 DEF HandleNudge, MayDispatch, WorkerState, NextMsg
  <2> QED
    BY <2>1, <2>2
<1>6. MainState'
  <2>1. CASE MayDispatch
    BY <1>1, <1>2, <2>1 DEF HandleNudge, MayDispatch, MainState
  <2>2. CASE ~MayDispatch
    BY <2>2 DEF HandleNudge, MayDispatch, MainState
  <2> QED
    BY <2>1, <2>2
<1>7. RequestThere'
  <2>1. CASE MayDispatch
    BY <1>1, <1>2, <2>1 DEF HandleNudge, MayDispatch, RequestThere, Untaken, NextMsg
  <2>2. CASE ~MayDispatch
    BY <2>2 DEF HandleNudge, MayDispatch, RequestThere, Untaken, NextMsg
  <2> QED
    BY <2>1, <2>2
<1>8. WindowThere'
  BY DEF HandleNudge, MayDispatch, Begin, Request, WindowThere, NextMsg
<1>9. AckThere'
  BY DEF HandleNudge, MayDispatch, Begin, Request, AckThere, NextMsg
<1>10. EndThere'
  BY DEF HandleNudge, MayDispatch, Begin, Request, EndThere
<1>11. SentOnce'
  <2>1. CASE MayDispatch
    <3>1. /\ ~Unsent' /\ fetches \in [0 .. MaxRpc -> Nat] /\ call \in Rpc /\ call \in Nat
          /\ UNCHANGED <<call, kind, got, wpc>>
      <4>1. UNCHANGED <<call, kind, got, wpc>>
        BY DEF HandleNudge
      <4>2. ~Unsent'
        BY <1>1, <1>2, <2>1, <4>1 DEF Unsent, Untaken
      <4>3. fetches \in [0 .. MaxRpc -> Nat]
        BY DEF TypeInv, MainInv, MainTypes
      <4> QED
        BY <1>1, <2>1, <4>1, <4>2, <4>3 DEF Rpc
    <3>2. \A g \in Rpc : g # call => fetches'[g] = fetches[g]
      BY <1>2, <2>1, <3>1 DEF Rpc
    <3>3. fetches'[0] = 0 /\ fetches'[call] = 1
      BY <1>2, <2>1, <3>1 DEF SentOnce, Rpc
    <3> QED
      BY <3>1, <3>2, <3>3 DEF SentOnce
  <2>2. CASE ~MayDispatch
    BY <2>2 DEF HandleNudge, MayDispatch, SentOnce, Unsent, Untaken, WorkerState, MainState
  <2> QED
    BY <2>1, <2>2
<1>12. PartsOK'
  BY DEF HandleNudge, MayDispatch, Begin, Request, PartsOK, WindowsOf, NextMsg
<1>13. OwnResponse'
  <2>1. got' = got
    BY DEF HandleNudge
  <2> QED
    BY <2>1 DEF OwnResponse
<1>14. CompleteOnReturn'
  <2>1. CASE MayDispatch
    <3>1. \A g \in Rpc : status[g] \in {"ended", "ok"} => g # call
      BY <1>1, <2>1 DEF Generations
    <3>2. \A g \in Rpc : g # call => fetches'[g] = fetches[g]
      BY <1>2, <2>1 DEF TypeInv, MainInv, MainTypes, Rpc
    <3> QED
      BY <3>1, <3>2 DEF HandleNudge, MayDispatch, CompleteOnReturn
  <2>2. CASE ~MayDispatch
    BY <2>2 DEF HandleNudge, MayDispatch, CompleteOnReturn
  <2> QED
    BY <2>1, <2>2
<1> QED
  BY <1>3, <1>4, <1>5, <1>6, <1>7, <1>8, <1>9, <1>10, <1>11, <1>12, <1>13, <1>14

\* A fetch or a read rejects.
LEMMA InvNetworkFail ==
  ASSUME Quiet, TypeInv, IInv, NetworkFail
  PROVE  IInv'
<1> USE BoundsAssumption DEF Quiet, IInv, InCall, worker, main
<1>1. OneBuffer'
  BY DEF NetworkFail, WriteError, OneBuffer
<1>2. Generations'
  BY DEF NetworkFail, WriteError, Generations
<1>3. WorkerState'
  BY DEF NetworkFail, WriteError, WorkerState, NextMsg
<1>4. MainState'
  BY DEF NetworkFail, WriteError, MainState
<1>5. RequestThere'
  BY DEF NetworkFail, WriteError, RequestThere, Untaken
<1>6. WindowThere'
  BY DEF NetworkFail, WriteError, WindowThere, NextMsg
<1>7. AckThere'
  BY DEF NetworkFail, WriteError, AckThere, NextMsg
<1>8. EndThere'
  BY DEF NetworkFail, WriteError, EndThere, MainState
<1>9. SentOnce'
  BY DEF NetworkFail, WriteError, SentOnce, Unsent, Untaken
<1>10. PartsOK'
  BY DEF NetworkFail, WriteError, PartsOK, WindowsOf, NextMsg
<1>11. OwnResponse'
  <2>1. got' = got
    BY DEF NetworkFail
  <2> QED
    BY <2>1 DEF OwnResponse
<1>12. CompleteOnReturn'
  BY DEF NetworkFail, WriteError, CompleteOnReturn
<1> QED
  BY <1>1, <1>2, <1>3, <1>4, <1>5, <1>6, <1>7, <1>8, <1>9, <1>10, <1>11, <1>12

\* A fetch resolves.
LEMMA InvFetchOk ==
  ASSUME Quiet, TypeInv, IInv, FetchOk
  PROVE  IInv'
<1> USE BoundsAssumption DEF Quiet, IInv, InCall, worker, main
<1>1. OneBuffer'
  BY DEF FetchOk, CurKind, OneBuffer
<1>2. Generations'
  BY DEF FetchOk, CurKind, Generations
<1>3. WorkerState'
  BY DEF FetchOk, CurKind, WorkerState, NextMsg
<1>4. MainState'
  <2>1. /\ InCall /\ cur = call /\ call \in Rpc /\ state = waitOn /\ waitOn = "REQ_READY"
        /\ parts = <<>> /\ msg = Len(got[call])
    BY DEF FetchOk, MainState, Generations, TypeInv, WorkerTypes, Rpc
  <2>2. CurKind = kind[call]
    BY <2>1 DEF CurKind, Rpc
  <2> QED
    BY <2>1, <2>2 DEF FetchOk, MainState, TypeInv, WorkerTypes
<1>5. RequestThere'
  BY DEF FetchOk, CurKind, RequestThere, Untaken
<1>6. WindowThere'
  BY DEF FetchOk, CurKind, WindowThere, NextMsg
<1>7. AckThere'
  BY DEF FetchOk, CurKind, AckThere, NextMsg
<1>8. EndThere'
  BY DEF FetchOk, CurKind, EndThere
<1>9. SentOnce'
  BY DEF FetchOk, CurKind, SentOnce, Unsent, Untaken
<1>10. PartsOK'
  BY DEF FetchOk, CurKind, PartsOK, WindowsOf, NextMsg
<1>11. OwnResponse'
  <2>1. got' = got
    BY DEF FetchOk
  <2> QED
    BY <2>1 DEF OwnResponse
<1>12. CompleteOnReturn'
  BY DEF FetchOk, CurKind, CompleteOnReturn
<1> QED
  BY <1>1, <1>2, <1>3, <1>4, <1>5, <1>6, <1>7, <1>8, <1>9, <1>10, <1>11, <1>12

\* A unary body arrives.
LEMMA InvBodyOk ==
  ASSUME Quiet, TypeInv, IInv, NEW n \in 1 .. MaxWin, BodyOk(n)
  PROVE  IInv'
<1> USE BoundsAssumption DEF Quiet, IInv, InCall, worker, main
<1>1. /\ InCall /\ cur = call /\ call \in Rpc /\ kind[call] = "unary" /\ parts = <<>>
      /\ msg = 0 /\ Len(got[call]) = 0 /\ mbuf = 1
  BY DEF BodyOk, MainState, WorkerState, OneBuffer, Generations, TypeInv, WorkerTypes, MainInv,
     MainTypes, Rpc
<1>2. OneBuffer'
  BY DEF BodyOk, Emit, CurKind, OneBuffer
<1>3. Generations'
  BY DEF BodyOk, Emit, CurKind, Generations
<1>4. WorkerState'
  BY DEF BodyOk, Emit, CurKind, WorkerState, NextMsg
<1>5. MainState'
  BY DEF BodyOk, Emit, CurKind, MainState, Generations
<1>6. RequestThere'
  BY DEF BodyOk, Emit, CurKind, RequestThere, Untaken
<1>7. WindowThere'
  <2>1. data'[1] = Window(call, 1, 1, n)
    BY <1>1 DEF BodyOk, Emit, TypeInv, SharedTypes, Bufs
  <2> QED
    BY <1>1, <2>1 DEF BodyOk, Emit, CurKind, WindowThere, NextMsg, Rpc
<1>8. AckThere'
  BY DEF BodyOk, Emit, CurKind, AckThere, NextMsg
<1>9. EndThere'
  BY DEF BodyOk, Emit, CurKind, EndThere
<1>10. SentOnce'
  BY DEF BodyOk, Emit, CurKind, SentOnce, Unsent, Untaken
<1>11. PartsOK'
  BY DEF BodyOk, Emit, CurKind, PartsOK, WindowsOf, NextMsg
<1>12. OwnResponse'
  <2>1. got' = got
    BY DEF BodyOk
  <2> QED
    BY <2>1 DEF OwnResponse
<1>13. CompleteOnReturn'
  BY DEF BodyOk, Emit, CurKind, CompleteOnReturn
<1> QED
  BY <1>2, <1>3, <1>4, <1>5, <1>6, <1>7, <1>8, <1>9, <1>10, <1>11, <1>12, <1>13

\* A chunk arrives.
LEMMA InvReadChunk ==
  ASSUME Quiet, TypeInv, IInv, NEW n \in 1 .. MaxWin, ReadChunk(n)
  PROVE  IInv'
<1> USE BoundsAssumption DEF Quiet, IInv, InCall, worker, main
<1>1. /\ InCall /\ cur = call /\ call \in Rpc /\ kind[call] = "stream" /\ parts = <<>>
      /\ msg = Len(got[call]) /\ mbuf = 1
  BY DEF ReadChunk, MainState, OneBuffer, Generations, TypeInv, WorkerTypes, Rpc
<1>2. OneBuffer'
  BY DEF ReadChunk, Emit, CurKind, OneBuffer
<1>3. Generations'
  BY DEF ReadChunk, Emit, CurKind, Generations
<1>4. WorkerState'
  BY DEF ReadChunk, Emit, CurKind, WorkerState, NextMsg
<1>5. MainState'
  BY DEF ReadChunk, Emit, CurKind, MainState, Generations
<1>6. RequestThere'
  BY DEF ReadChunk, Emit, CurKind, RequestThere, Untaken
<1>7. WindowThere'
  <2>1. data'[1] = Window(call, msg + 1, 1, n)
    BY <1>1 DEF ReadChunk, Emit, TypeInv, SharedTypes, Bufs
  <2> QED
    BY <1>1, <2>1 DEF ReadChunk, Emit, CurKind, WindowThere, NextMsg, Rpc
<1>8. AckThere'
  BY DEF ReadChunk, Emit, CurKind, AckThere, NextMsg
<1>9. EndThere'
  BY DEF ReadChunk, Emit, CurKind, EndThere
<1>10. SentOnce'
  BY DEF ReadChunk, Emit, CurKind, SentOnce, Unsent, Untaken
<1>11. PartsOK'
  BY DEF ReadChunk, Emit, CurKind, PartsOK, WindowsOf, NextMsg
<1>12. OwnResponse'
  <2>1. got' = got
    BY DEF ReadChunk
  <2> QED
    BY <2>1 DEF OwnResponse
<1>13. CompleteOnReturn'
  BY DEF ReadChunk, Emit, CurKind, CompleteOnReturn
<1> QED
  BY <1>2, <1>3, <1>4, <1>5, <1>6, <1>7, <1>8, <1>9, <1>10, <1>11, <1>12, <1>13

\* A stream ends.
LEMMA InvReadDone ==
  ASSUME Quiet, TypeInv, IInv, ReadDone
  PROVE  IInv'
<1> USE BoundsAssumption DEF Quiet, IInv, InCall, worker, main
<1>1. OneBuffer'
  BY DEF ReadDone, OneBuffer
<1>2. Generations'
  BY DEF ReadDone, Generations
<1>3. WorkerState'
  BY DEF ReadDone, WorkerState, NextMsg
<1>4. MainState'
  BY DEF ReadDone, MainState
<1>5. RequestThere'
  BY DEF ReadDone, RequestThere, Untaken
<1>6. WindowThere'
  BY DEF ReadDone, WindowThere, NextMsg
<1>7. AckThere'
  BY DEF ReadDone, AckThere, NextMsg
<1>8. EndThere'
  BY DEF ReadDone, EndThere, TypeInv, MainInv, MainTypes, MainState
<1>9. SentOnce'
  BY DEF ReadDone, SentOnce, Unsent, Untaken
<1>10. PartsOK'
  BY DEF ReadDone, PartsOK, WindowsOf, NextMsg
<1>11. OwnResponse'
  <2>1. got' = got
    BY DEF ReadDone
  <2> QED
    BY <2>1 DEF OwnResponse
<1>12. CompleteOnReturn'
  BY DEF ReadDone, CompleteOnReturn, MainState
<1> QED
  BY <1>1, <1>2, <1>3, <1>4, <1>5, <1>6, <1>7, <1>8, <1>9, <1>10, <1>11, <1>12

\* Main writes the next window.
LEMMA InvWindowAcked ==
  ASSUME Quiet, TypeInv, IInv, WindowAcked
  PROVE  IInv'
<1> USE BoundsAssumption DEF Quiet, IInv, InCall, worker, main
<1>1. OneBuffer'
  BY DEF WindowAcked, WorkerAcked, Emit, CurKind, OneBuffer
<1>2. Generations'
  BY DEF WindowAcked, WorkerAcked, Emit, CurKind, Generations
<1>3. WorkerState'
  BY DEF WindowAcked, WorkerAcked, Emit, CurKind, WorkerState, NextMsg
<1>4. MainState'
  BY DEF WindowAcked, WorkerAcked, Emit, CurKind, MainState, TypeInv, WorkerTypes, Rpc
<1>5. RequestThere'
  BY DEF WindowAcked, WorkerAcked, Emit, CurKind, RequestThere, Untaken
<1>6. WindowThere'
  <2>1. /\ InCall /\ cur = call /\ call \in Rpc /\ mbuf = 1 /\ win = Len(parts) /\ win < nwin
        /\ msg = NextMsg
    BY DEF WindowAcked, WorkerAcked, MainState, OneBuffer, AckThere, Generations, TypeInv,
       WorkerTypes, Rpc
  <2>2. data'[1] = Window(call, msg, win + 1, nwin)
    BY <2>1 DEF WindowAcked, Emit, TypeInv, SharedTypes, Bufs
  <2>3. /\ win + 1 <= nwin /\ msg' = msg /\ win' = win + 1 /\ nwin' = nwin
        /\ win' < nwin' => mpc' = "ackWindow"
        /\ ~(win' < nwin') => mpc' = IF kind[call] = "unary" THEN "fin" ELSE "ackMsg"
    BY <2>1 DEF WindowAcked, Emit, CurKind, Rpc, TypeInv, MainInv, MainTypes
  <2>4. UNCHANGED <<wpc, call, cur, parts, kind, got>>
    BY DEF WindowAcked
  <2>5. kind[call] \in {"unary", "stream"}
    BY <2>1 DEF TypeInv, WorkerTypes
  <2> QED
    BY <2>1, <2>2, <2>3, <2>4, <2>5 DEF WindowThere, NextMsg
<1>7. AckThere'
  BY DEF WindowAcked, WorkerAcked, Emit, CurKind, AckThere, NextMsg
<1>8. EndThere'
  BY DEF WindowAcked, WorkerAcked, Emit, CurKind, EndThere
<1>9. SentOnce'
  BY DEF WindowAcked, WorkerAcked, Emit, CurKind, SentOnce, Unsent, Untaken
<1>10. PartsOK'
  BY DEF WindowAcked, WorkerAcked, Emit, CurKind, PartsOK, WindowsOf, NextMsg
<1>11. OwnResponse'
  <2>1. got' = got
    BY DEF WindowAcked
  <2> QED
    BY <2>1 DEF OwnResponse
<1>12. CompleteOnReturn'
  BY DEF WindowAcked, WorkerAcked, Emit, CurKind, CompleteOnReturn
<1> QED
  BY <1>1, <1>2, <1>3, <1>4, <1>5, <1>6, <1>7, <1>8, <1>9, <1>10, <1>11, <1>12

\* Main goes on to the next chunk.
LEMMA InvMessageAcked ==
  ASSUME Quiet, TypeInv, IInv, MessageAcked
  PROVE  IInv'
<1> USE BoundsAssumption DEF Quiet, IInv, InCall, worker, main
<1>1. OneBuffer'
  BY DEF MessageAcked, WorkerAcked, OneBuffer
<1>2. Generations'
  BY DEF MessageAcked, WorkerAcked, Generations
<1>3. WorkerState'
  BY DEF MessageAcked, WorkerAcked, WorkerState, NextMsg
<1>4. MainState'
  BY DEF MessageAcked, WorkerAcked, MainState, TypeInv, WorkerTypes, WorkerState, AckThere
<1>5. RequestThere'
  BY DEF MessageAcked, WorkerAcked, RequestThere, Untaken
<1>6. WindowThere'
  BY DEF MessageAcked, WorkerAcked, WindowThere, NextMsg
<1>7. AckThere'
  BY DEF MessageAcked, WorkerAcked, AckThere, NextMsg
<1>8. EndThere'
  BY DEF MessageAcked, WorkerAcked, EndThere
<1>9. SentOnce'
  BY DEF MessageAcked, WorkerAcked, SentOnce, Unsent, Untaken
<1>10. PartsOK'
  BY DEF MessageAcked, WorkerAcked, PartsOK, WindowsOf, NextMsg
<1>11. OwnResponse'
  <2>1. got' = got
    BY DEF MessageAcked
  <2> QED
    BY <2>1 DEF OwnResponse
<1>12. CompleteOnReturn'
  BY DEF MessageAcked, WorkerAcked, CompleteOnReturn
<1> QED
  BY <1>1, <1>2, <1>3, <1>4, <1>5, <1>6, <1>7, <1>8, <1>9, <1>10, <1>11, <1>12

\* Main sees that its exchange was given up.
LEMMA InvAbandoned ==
  ASSUME Quiet, TypeInv, IInv, Abandoned
  PROVE  IInv'
<1> USE BoundsAssumption DEF Quiet, IInv, InCall, worker, main
<1>1. OneBuffer'
  BY DEF Abandoned, GaveUp, OneBuffer
<1>2. Generations'
  BY DEF Abandoned, GaveUp, Generations
<1>3. WorkerState'
  BY DEF Abandoned, GaveUp, WorkerState, NextMsg
<1>4. MainState'
  BY DEF Abandoned, GaveUp, MainState
<1>5. RequestThere'
  BY DEF Abandoned, GaveUp, RequestThere, Untaken
<1>6. WindowThere'
  BY DEF Abandoned, GaveUp, WindowThere, NextMsg
<1>7. AckThere'
  BY DEF Abandoned, GaveUp, AckThere, NextMsg
<1>8. EndThere'
  BY DEF Abandoned, GaveUp, EndThere
<1>9. SentOnce'
  BY DEF Abandoned, GaveUp, SentOnce, Unsent, Untaken
<1>10. PartsOK'
  BY DEF Abandoned, GaveUp, PartsOK, WindowsOf, NextMsg
<1>11. OwnResponse'
  <2>1. got' = got
    BY DEF Abandoned
  <2> QED
    BY <2>1 DEF OwnResponse
<1>12. CompleteOnReturn'
  BY DEF Abandoned, GaveUp, CompleteOnReturn
<1> QED
  BY <1>1, <1>2, <1>3, <1>4, <1>5, <1>6, <1>7, <1>8, <1>9, <1>10, <1>11, <1>12

\* Main is free: it takes a request that waits, or idles.
LEMMA InvFinally ==
  ASSUME Quiet, TypeInv, IInv, Finally
  PROVE  IInv'
<1> USE BoundsAssumption DEF Quiet, IInv, InCall, worker, main
<1>1. ASSUME NextIsWaiting
      PROVE  /\ Untaken /\ InCall /\ call \in Rpc /\ state = waitOn
             /\ got[call] = <<>> /\ parts = <<>> /\ fetches[call] = 0
             /\ mbuf = 1 /\ data[1] = Request(call)
  BY <1>1 DEF Finally, NextIsWaiting, OneBuffer, RequestThere, SentOnce, Unsent, Generations,
     Untaken, TypeInv, SharedTypes, WorkerTypes, MainInv, MainTypes, States, Rpc, WorkerState
<1>2. ASSUME NextIsWaiting
      PROVE  /\ cur' = call /\ msg' = 0 /\ mpc' = "fetch"
             /\ fetches' = [fetches EXCEPT ![call] = 1]
  BY <1>2, <1>1 DEF Finally, NextIsWaiting, Begin, Request, Content
<1>3. OneBuffer'
  BY DEF Finally, NextIsWaiting, Begin, Request, OneBuffer
<1>4. Generations'
  BY DEF Finally, NextIsWaiting, Begin, Request, Generations
<1>5. WorkerState'
  <2>1. CASE NextIsWaiting
    BY <1>1, <1>2, <2>1 DEF Finally, NextIsWaiting, WorkerState, NextMsg
  <2>2. CASE ~NextIsWaiting
    BY <2>2 DEF Finally, NextIsWaiting, WorkerState, NextMsg
  <2> QED
    BY <2>1, <2>2
<1>6. MainState'
  <2>1. CASE NextIsWaiting
    BY <1>1, <1>2, <2>1 DEF Finally, NextIsWaiting, MainState
  <2>2. CASE ~NextIsWaiting
    BY <2>2 DEF Finally, NextIsWaiting, MainState
  <2> QED
    BY <2>1, <2>2
<1>7. RequestThere'
  <2>1. CASE NextIsWaiting
    BY <1>1, <1>2, <2>1 DEF Finally, NextIsWaiting, RequestThere, Untaken, NextMsg
  <2>2. CASE ~NextIsWaiting
    BY <2>2 DEF Finally, NextIsWaiting, RequestThere, Untaken, NextMsg
  <2> QED
    BY <2>1, <2>2
<1>8. WindowThere'
  BY DEF Finally, NextIsWaiting, Begin, Request, WindowThere, NextMsg
<1>9. AckThere'
  BY DEF Finally, NextIsWaiting, Begin, Request, AckThere, NextMsg
<1>10. EndThere'
  BY DEF Finally, NextIsWaiting, Begin, Request, EndThere
<1>11. SentOnce'
  <2>1. CASE NextIsWaiting
    BY <1>1, <1>2, <2>1 DEF Finally, NextIsWaiting, SentOnce, Unsent, Untaken, TypeInv, MainInv,
       MainTypes, Rpc
  <2>2. CASE ~NextIsWaiting
    BY <2>2 DEF Finally, NextIsWaiting, SentOnce, Unsent, Untaken, WorkerState, MainState
  <2> QED
    BY <2>1, <2>2
<1>12. PartsOK'
  BY DEF Finally, NextIsWaiting, Begin, Request, PartsOK, WindowsOf, NextMsg
<1>13. OwnResponse'
  <2>1. got' = got
    BY DEF Finally
  <2> QED
    BY <2>1 DEF OwnResponse
<1>14. CompleteOnReturn'
  <2>1. CASE NextIsWaiting
    <3>1. \A g \in Rpc : status[g] \in {"ended", "ok"} => g # call
      BY <1>1, <2>1 DEF Generations
    <3>2. \A g \in Rpc : g # call => fetches'[g] = fetches[g]
      BY <1>2, <2>1 DEF TypeInv, MainInv, MainTypes, Rpc
    <3> QED
      BY <3>1, <3>2 DEF Finally, NextIsWaiting, CompleteOnReturn
  <2>2. CASE ~NextIsWaiting
    BY <2>2 DEF Finally, NextIsWaiting, CompleteOnReturn
  <2> QED
    BY <2>1, <2>2
<1> QED
  BY <1>3, <1>4, <1>5, <1>6, <1>7, <1>8, <1>9, <1>10, <1>11, <1>12, <1>13, <1>14

-----------------------------------------------------------------------------
\* No call carries a timeout, so none times out.
LEMMA NoTimeOut == Quiet => ~TimeOut
BY DEF Quiet, TimeOut

\* A step that changes nothing.
LEMMA InvStutter == IInv /\ UNCHANGED vars => IInv'
<1> SUFFICES ASSUME IInv, UNCHANGED vars PROVE IInv'
  OBVIOUS
<1> USE DEF vars, worker, main, InCall, Untaken, Unsent, NextMsg
<1>1. OneBuffer' /\ Generations' /\ WorkerState' /\ MainState'
  BY DEF IInv, OneBuffer, Generations, WorkerState, MainState
<1>2. RequestThere' /\ WindowThere' /\ AckThere' /\ EndThere' /\ SentOnce' /\ PartsOK'
  BY DEF IInv, RequestThere, WindowThere, AckThere, EndThere, SentOnce, PartsOK
<1>3. OwnResponse' /\ CompleteOnReturn'
  BY DEF IInv, OwnResponse, CompleteOnReturn
<1> QED
  BY <1>1, <1>2, <1>3 DEF IInv

LEMMA InvStep == Quiet /\ TypeInv /\ IInv /\ [Next]_vars => IInv'
<1> SUFFICES ASSUME Quiet, TypeInv, IInv, [Next]_vars PROVE IInv'
  OBVIOUS
<1>1. CASE User
  BY <1>1, InvWriteRequest, InvResume, InvClose DEF User
<1>2. CASE Backend
  BY <1>2, InvStampGen, InvPublish, InvPostNudge, InvAckWindow, InvFinishMessage, InvSeeEnd,
     InvSeeError DEF Backend
<1>3. CASE Network
  BY <1>3, InvNetworkFail, InvFetchOk, InvReadDone, InvBodyOk, InvReadChunk DEF Network
<1>4. CASE Page
  BY <1>4, InvHandleSab, InvHandleNudge, InvWindowAcked, InvMessageAcked, InvAbandoned,
     InvFinally DEF Page
<1>5. CASE UNCHANGED vars
  BY <1>5, InvStutter
<1> QED
  BY <1>1, <1>2, <1>3, <1>4, <1>5, NoTimeOut DEF Next, Finished

LEMMA Invariance ==
  ASSUME Quiet
  PROVE  Spec => [](TypeInv /\ IInv)
<1>1. Init => TypeInv /\ IInv
  BY InvInit, TypeInit
<1>2. TypeInv /\ IInv /\ [Next]_vars => (TypeInv /\ IInv)'
  BY InvStep, TypeStep
<1> QED
  BY <1>1, <1>2, PTL DEF Spec

\* Every RPC hands its caller its own messages, whole and in order, whatever
\* streams were abandoned, resumed or finalised in between (sab_channel.py
\* _reassemble_windows against bridge.js _emitMessage).
THEOREM RpcsGetTheirOwnResponses ==
  ASSUME Quiet
  PROVE  Spec => []OwnResponse
<1>1. IInv => OwnResponse
  BY DEF IInv
<1> QED
  BY <1>1, Invariance, PTL

\* A stream that returns has yielded every chunk main read, and a unary call
\* that returns has its body; each was sent exactly once.
THEOREM ReturnsAreComplete ==
  ASSUME Quiet
  PROVE  Spec => []CompleteOnReturn
<1>1. IInv => CompleteOnReturn
  BY DEF IInv
<1> QED
  BY <1>1, Invariance, PTL

\* No request is sent twice, by a late nudge or by the re-dispatch in
\* handleRpc's finally, and nothing else is ever sent.
THEOREM RequestsAreSentAtMostOnce ==
  ASSUME Quiet
  PROVE  Spec => []SentAtMostOnce
<1>1. TypeInv /\ IInv => SentAtMostOnce
  BY DEF TypeInv, WorkerTypes, Rpc, IInv, SentOnce, SentAtMostOnce
<1> QED
  BY <1>1, Invariance, PTL

\* While main is in a fetch or a read, it is for the RPC the worker waits for.
THEOREM MainServesTheCaller ==
  ASSUME Quiet
  PROVE  Spec => []ServesTheCaller
<1>1. IInv => ServesTheCaller
  BY DEF IInv, MainState, InCall, ServesTheCaller
<1> QED
  BY <1>1, Invariance, PTL

\* The two threads never have the data SAB at the same time.
THEOREM BufferIsExclusive ==
  ASSUME Quiet
  PROVE  Spec => []BufferExclusion
<1>1. TypeInv /\ IInv => BufferExclusion
  <2> SUFFICES ASSUME TypeInv, IInv, WorkerOwnsBuffer, MainOwnsBuffer PROVE FALSE
    BY DEF BufferExclusion
  <2>1. CASE wpc \in {"user", "stamp", "publish"}
    BY <2>1 DEF MainOwnsBuffer, IInv, WorkerState, MainState, InCall
  <2>2. CASE wpc = "wait" /\ state # waitOn
    BY <2>2 DEF MainOwnsBuffer, IInv, WorkerState, MainState, InCall
  <2> QED
    BY <2>1, <2>2 DEF WorkerOwnsBuffer
<1> QED
  BY <1>1, Invariance, PTL

-----------------------------------------------------------------------------
(* The quiet transport implements the abstract channel.                    *)

\* What the abstract channel sees of the transport.
Sent == {g \in Rpc : fetches[g] > 0}
Yielded == [g \in Rpc |-> Len(got[g])]
Length == [g \in Rpc |-> total[g]]
Visible == <<call, status, Sent, Yielded, Length>>

\* The abstract actions, over the state of the transport.
LEMMA ChannelRpc == Channel!Rpc = Rpc
BY DEF Channel!Rpc, Rpc

\* Python runs only when no call blocks it.
LEMMA NotBlocked == IInv /\ wpc = "user" => ~Channel!Blocked
BY ChannelRpc DEF IInv, Generations, Channel!Blocked

\* A call that was parked and woken has been sent.
LEMMA WokenIsSent ==
  ASSUME Quiet, TypeInv, IInv, Woken
  PROVE  /\ call \in Rpc /\ status[call] = "waiting" /\ call \in Sent
         /\ state \in {"RESP_CHUNK", "RESP_END", "RESP_ERROR"}
<1>1. call \in Rpc /\ status[call] = "waiting"
  BY DEF Woken, IInv, Generations, TypeInv, WorkerTypes, Rpc
<1>2. state \in {"RESP_CHUNK", "RESP_END", "RESP_ERROR"}
  BY DEF Woken, IInv, WorkerState, InCall, TypeInv, SharedTypes, States
<1>3. fetches[call] = 1
  BY <1>1, <1>2, BoundsAssumption DEF IInv, SentOnce, Unsent, Untaken, Woken, Rpc, TypeInv, WorkerTypes
<1> QED
  BY <1>1, <1>2, <1>3 DEF Sent

\* PySpark starts an RPC.
LEMMA RefineWriteRequest ==
  ASSUME TypeInv, IInv, NEW k \in {"unary", "stream"}, WriteRequest(k)
  PROVE  Channel!Next
<1>1. call + 1 \in Rpc /\ ~Channel!Blocked
  BY NotBlocked, BoundsAssumption DEF WriteRequest, TypeInv, WorkerTypes, Rpc
<1>2. UNCHANGED <<Sent, Yielded, Length>>
  BY DEF WriteRequest, main, Sent, Yielded, Length
<1>3. Channel!Start(call + 1)
  BY <1>1, <1>2 DEF WriteRequest, Channel!Start, Channel!Becomes, Sent, Yielded, Length
<1> QED
  BY <1>1, <1>3, ChannelRpc DEF Channel!Next

\* next() on a suspended stream: it blocks again, or is found superseded.
LEMMA RefineResume ==
  ASSUME TypeInv, IInv, NEW g \in Rpc, Resume(g)
  PROVE  Channel!Next
<1>1. UNCHANGED <<call, Sent, Yielded, Length>>
  BY DEF Resume, main, Sent, Yielded, Length
<1>2. genWord = call /\ g <= call /\ status[g] = "suspended" /\ ~Channel!Blocked
  BY NotBlocked DEF Resume, IInv, Generations, TypeInv, WorkerTypes, Rpc
<1>3. CASE Superseded(g)
  <2>1. Channel!Drop(g, "stale")
    BY <1>1, <1>2, <1>3 DEF Resume, Superseded, Channel!Drop, Channel!Becomes, Sent, Yielded,
       Length, TypeInv, WorkerTypes, Rpc
  <2> QED
    BY <2>1, ChannelRpc DEF Channel!Next
<1>4. CASE ~Superseded(g)
  <2>1. Channel!Continue(g)
    BY <1>1, <1>2, <1>4 DEF Resume, Superseded, Channel!Continue, Channel!Current,
       Channel!Becomes, Sent, Yielded, Length
  <2> QED
    BY <2>1, ChannelRpc DEF Channel!Next
<1> QED
  BY <1>3, <1>4

\* A suspended stream is finalised.
LEMMA RefineClose ==
  ASSUME NEW g \in Rpc, Close(g)
  PROVE  Channel!Next
<1>1. UNCHANGED <<call, Sent, Yielded, Length>>
  BY DEF Close, main, Sent, Yielded, Length
<1>2. Channel!Drop(g, "closed")
  BY <1>1 DEF Close, Channel!Drop, Channel!Becomes, Sent, Yielded, Length
<1> QED
  BY <1>2, ChannelRpc DEF Channel!Next

\* The blocked call gets the last window of its next message.
LEMMA RefineFinishMessage ==
  ASSUME Quiet, TypeInv, IInv, FinishMessage
  PROVE  Channel!Next
<1> DEFINE s == IF kind[call] = "unary" THEN "ok" ELSE "suspended"
<1>1. Woken /\ state = "RESP_CHUNK" /\ UNCHANGED <<call, Sent, Length>>
  BY DEF FinishMessage, main, Sent, Length
<1>2. call \in Rpc /\ status[call] = "waiting" /\ call \in Sent
  BY <1>1, WokenIsSent
<1>3. got[call] \in Seq(Seq(Contents)) /\ msg = Len(got[call]) + 1 /\ msg <= MaxMsg
  BY <1>1, <1>2, BoundsAssumption DEF IInv, WindowThere, InCall, Woken, NextMsg, TypeInv, WorkerTypes, MainInv, MainTypes
<1>4. Yielded[call] < MaxMsg /\ Yielded[call] \in Nat
  BY <1>2, <1>3, BoundsAssumption DEF Yielded
<1>5. s = "ok" => Yielded[call] = 0
  BY <1>1, <1>2 DEF IInv, SentOnce, InCall, Woken, Yielded
<1>6. status' = [status EXCEPT ![call] = s]
  BY DEF FinishMessage, Leave
<1>7. Yielded' = [Yielded EXCEPT ![call] = Yielded[call] + 1]
  <2>1. got' = [got EXCEPT ![call] = Append(got[call], Reassembled)]
    BY DEF FinishMessage
  <2>2. Len(got'[call]) = Len(got[call]) + 1
    BY <1>2, <1>3, <2>1 DEF TypeInv, WorkerTypes
  <2> QED
    BY <1>2, <2>1, <2>2 DEF Yielded, TypeInv, WorkerTypes
<1> HIDE DEF s
<1>8. PICK g \in Rpc : g = call
  BY <1>2
<1>9. PICK t \in {"ok", "suspended"} : t = s
  BY DEF s
<1>10. Channel!Return(g, t)
  BY <1>8, <1>9, <1>1, <1>2, <1>4, <1>5, <1>6, <1>7 DEF Channel!Return, Channel!Current, Channel!Becomes,
     Sent, Yielded, Length
<1> QED
  BY <1>9, <1>10, ChannelRpc DEF Channel!Next

\* The blocked call sees the end of its response, or an error.
LEMMA RefineEnd ==
  ASSUME Quiet, TypeInv, IInv, SeeEnd \/ SeeError
  PROVE  Channel!Next
<1>1. Woken /\ UNCHANGED <<call, Sent, Yielded, Length>>
  BY DEF SeeEnd, SeeError, main, Sent, Yielded, Length
<1>2. call \in Rpc /\ status[call] = "waiting" /\ call \in Sent
  BY <1>1, WokenIsSent
<1>3. CASE SeeEnd
  <2>1. parts = <<>> /\ kind[call] = "stream" /\ total[call] = Len(got[call])
    BY <1>1, <1>3 DEF SeeEnd, IInv, EndThere, InCall, Woken
  <2>2. status' = [status EXCEPT ![call] = "ended"]
    BY <1>3, <2>1 DEF SeeEnd, Leave
  <2>3. Channel!End(call)
    BY <1>1, <1>2, <2>1, <2>2 DEF Channel!End, Channel!Current, Channel!Becomes, Sent, Yielded,
       Length
  <2> QED
    BY <1>2, <2>3, ChannelRpc DEF Channel!Next
<1>4. CASE SeeError
  <2>1. Channel!Fail(call)
    BY <1>1, <1>2, <1>4 DEF SeeError, Leave, Channel!Fail, Channel!Current, Channel!Becomes,
       Sent, Yielded, Length
  <2> QED
    BY <1>2, <2>1, ChannelRpc DEF Channel!Next
<1> QED
  BY <1>3, <1>4

\* Main takes the request of the blocked call, at its nudge or in its finally.
LEMMA RefineBegin ==
  ASSUME TypeInv, IInv, mpc \in {"idle", "fin"}, mbuf # 0, state = "REQ_READY", Begin,
         UNCHANGED <<worker, total>>
  PROVE  Channel!Next
<1>1. Untaken /\ InCall /\ mbuf = 1 /\ data[1] = Request(call)
  BY DEF IInv, WorkerState, RequestThere, OneBuffer, Untaken, InCall, TypeInv, WorkerTypes
<1>2. call \in Rpc /\ status[call] = "waiting" /\ fetches[call] = 0
  BY <1>1 DEF IInv, Generations, SentOnce, Unsent, InCall, TypeInv, WorkerTypes, Rpc
<1>3. fetches' = [fetches EXCEPT ![call] = 1]
  <2>1. data[mbuf].tag = "req" /\ data[mbuf].gen = call
    BY <1>1 DEF Request, Content
  <2>2. fetches' = [fetches EXCEPT ![call] = fetches[call] + 1]
    BY <2>1 DEF Begin
  <2> QED
    BY <1>2, <2>2
<1>4. Sent' = Sent \cup {call} /\ call \notin Sent
  BY <1>2, <1>3 DEF Sent, TypeInv, MainInv, MainTypes, Rpc
<1>5. UNCHANGED <<call, status, Yielded, Length>>
  BY DEF worker, Yielded, Length
<1>6. PICK g \in Rpc : g = call
  BY <1>2
<1>7. Channel!Send(g)
  BY <1>2, <1>4, <1>5, <1>6 DEF Channel!Send, Channel!Current, Sent, Yielded, Length
<1> QED
  BY <1>7, ChannelRpc DEF Channel!Next

\* Main has read the last chunk of the response.
LEMMA RefineReadDone ==
  ASSUME TypeInv, IInv, ReadDone
  PROVE  Channel!Next
<1>1. InCall /\ cur = call /\ state = waitOn /\ msg = Len(got[call])
  BY DEF ReadDone, IInv, MainState
<1>2. call \in Rpc /\ status[call] = "waiting" /\ fetches[call] = 1
  BY <1>1 DEF ReadDone, IInv, Generations, SentOnce, Unsent, Untaken, InCall, TypeInv, WorkerTypes,
     Rpc
<1>3. UNCHANGED <<call, status, Sent, Yielded>>
  BY DEF ReadDone, worker, Sent, Yielded
<1>4. Length' = [Length EXCEPT ![call] = msg] /\ Yielded[call] = msg
  <2>1. total' = [total EXCEPT ![call] = msg]
    BY <1>1 DEF ReadDone
  <2>2. total \in [0 .. MaxRpc -> 0 .. MaxMsg] /\ Rpc \subseteq 0 .. MaxRpc
    BY BoundsAssumption DEF TypeInv, MainInv, MainTypes, Rpc
  <2> QED
    BY <1>1, <1>2, <2>1, <2>2 DEF Length, Yielded
<1>5. PICK g \in Rpc : g = call
  BY <1>2
<1>6. PICK n \in 0 .. MaxMsg : n = msg
  BY DEF TypeInv, MainInv, MainTypes
<1>7. Channel!Complete(g, n)
  BY <1>2, <1>3, <1>4, <1>5, <1>6 DEF Channel!Complete, Channel!Current, Sent, Yielded, Length
<1> QED
  BY <1>7, ChannelRpc DEF Channel!Next

\* The rest of the handshake is invisible.
LEMMA RefineStutter ==
  ASSUME \/ StampGen \/ Publish \/ PostNudge \/ AckWindow
         \/ HandleSab \/ NetworkFail \/ FetchOk \/ WindowAcked \/ MessageAcked \/ Abandoned
         \/ \E n \in 1 .. MaxWin : BodyOk(n) \/ ReadChunk(n)
         \/ UNCHANGED vars
  PROVE  UNCHANGED Visible
<1>1. UNCHANGED <<call, status, fetches, got, total>>
  BY DEF StampGen, Publish, PostNudge, AckWindow, HandleSab, NetworkFail, FetchOk, WindowAcked,
     MessageAcked, Abandoned, BodyOk, ReadChunk, vars, worker, main
<1> QED
  BY <1>1 DEF Visible, Sent, Yielded, Length

LEMMA NextRefines ==
  Quiet /\ TypeInv /\ IInv /\ [Next]_vars => Channel!Next \/ UNCHANGED Visible
<1> SUFFICES ASSUME Quiet, TypeInv, IInv, [Next]_vars PROVE Channel!Next \/ UNCHANGED Visible
  OBVIOUS
<1>1. CASE User
  BY <1>1, RefineWriteRequest, RefineResume, RefineClose DEF User
<1>2. CASE Backend
  BY <1>2, RefineFinishMessage, RefineEnd, RefineStutter DEF Backend
<1>3. CASE Network
  BY <1>3, RefineReadDone, RefineStutter DEF Network
<1>4. CASE HandleNudge
  <2>1. CASE MayDispatch
    BY <1>4, <2>1, RefineBegin DEF HandleNudge, MayDispatch
  <2>2. CASE ~MayDispatch
    BY <1>4, <2>2 DEF HandleNudge, worker, Visible, Sent, Yielded, Length
  <2> QED
    BY <2>1, <2>2
<1>5. CASE Finally
  <2>1. mpc = "fin" /\ mbuf # 0
    BY <1>5 DEF Finally, IInv, OneBuffer
  <2>2. CASE NextIsWaiting
    BY <1>5, <2>1, <2>2, RefineBegin DEF Finally, NextIsWaiting
  <2>3. CASE ~NextIsWaiting
    BY <1>5, <2>3 DEF Finally, worker, Visible, Sent, Yielded, Length
  <2> QED
    BY <2>2, <2>3
<1>6. CASE HandleSab \/ WindowAcked \/ MessageAcked \/ Abandoned \/ UNCHANGED vars
  BY <1>6, RefineStutter
<1> QED
  BY <1>1, <1>2, <1>3, <1>4, <1>5, <1>6, NoTimeOut DEF Next, Page, Finished

\* The two threads, the buffer and the nudges together behave as the blocking
\* channel PySpark is written against.
THEOREM TransportImplementsChannel ==
  ASSUME Quiet
  PROVE  Spec => ImplementsChannel
<1>1. Init => Channel!Init
  BY BoundsAssumption DEF Init, Channel!Init, Rpc, Channel!Rpc
<1>2. TypeInv /\ IInv /\ [Next]_vars => [Channel!Next]_Visible
  BY NextRefines
<1>3. Spec => [](TypeInv /\ IInv)
  BY Invariance
<1> QED
  BY <1>1, <1>2, <1>3, PTL DEF Spec, ImplementsChannel, Channel!Spec, Channel!rpcVars, Visible,
     Sent, Yielded, Length
=============================================================================
