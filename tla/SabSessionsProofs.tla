------------------------- MODULE SabSessionsProofs -------------------------
(***************************************************************************)
(* For any number of sessions, calls and chunks: SabSessions keeps its     *)
(* types, main does network work only for the session the worker is        *)
(* blocked on, and a program that uses one session at a time is heard.     *)
(*                                                                         *)
(* Neither property is inductive.  Whom main serves follows from which     *)
(* values of STATE only the blocked session can have (Requests) and from   *)
(* what a suspended stream pins main to (Suspension).  That a request is   *)
(* heard follows from the last message the worker posted (NudgeIsLast).    *)
(***************************************************************************)
EXTENDS SabSessions, TLAPS

Message == {Sab(c) : c \in Channels \cup {Boot}} \cup {Nudge}

\* What can have been posted when n sessions are open.
Posted(n) == {Sab(c) : c \in 0 .. n} \cup {Nudge}

QueueTypes == queue \in Seq(Message) /\ \A i \in 1 .. Len(queue) : queue[i] \in Posted(newest)

StateTypes ==
  /\ control \in [Channels \cup {Boot} -> States]
  /\ stream \in [Channels -> BOOLEAN] /\ suspended \subseteq 1 .. newest
  /\ newest \in 0 .. MaxChannels /\ waiting \in 0 .. newest /\ waitOn \in States
  /\ calls \in 0 .. MaxCalls /\ inTurn \in BOOLEAN
  /\ view \in 0 .. newest /\ parked \in 0 .. newest
  /\ mpc \in {"idle", "fetch", "read", "await"} /\ unary \in BOOLEAN
  /\ serving \in 0 .. newest
  /\ chunks \in 0 .. MaxChunks

\* TypeOK, and that the queue is a sequence.
TypeInv == StateTypes /\ QueueTypes

LEMMA SabNames ==
  /\ \A c : Sab(c).type = "sab" /\ Sab(c).channel = c /\ Sab(c) # Nudge
  /\ Nudge.type = "rpc"
BY DEF Sab, Nudge

LEMMA ChannelNames ==
  /\ Channels \subseteq Nat \ {0} /\ Boot = 0 /\ MaxChannels \in Nat
  /\ \A n \in 0 .. MaxChannels : 1 .. n \subseteq Channels /\ 0 .. n \subseteq Channels \cup {Boot}
BY SessionBounds DEF Channels, Boot

-----------------------------------------------------------------------------
(* Types.                                                                  *)

LEMMA TypeInit == Init => TypeInv
<1> SUFFICES ASSUME Init PROVE TypeInv
  OBVIOUS
<1>1. QueueTypes
  BY DEF Init, QueueTypes, Message, Posted, Boot
<1>2. control \in [Channels \cup {Boot} -> States] /\ stream \in [Channels -> BOOLEAN]
  BY DEF Init, States
<1>3. /\ suspended \subseteq 1 .. newest /\ newest \in 0 .. MaxChannels /\ waiting \in 0 .. newest
      /\ calls \in 0 .. MaxCalls /\ view \in 0 .. newest /\ parked \in 0 .. newest
      /\ serving \in 0 .. newest /\ chunks \in 0 .. MaxChunks
  BY SessionBounds DEF Init, Boot
<1>4. StateTypes
  BY <1>2, <1>3 DEF Init, StateTypes, States
<1> QED
  BY <1>1, <1>4 DEF TypeInv

LEMMA PostedGrows ==
  \A n \in 0 .. MaxChannels :
    /\ Posted(n) \subseteq Posted(n + 1) /\ Posted(n) \subseteq Message
    /\ Nudge \in Posted(n)
BY ChannelNames DEF Posted, Message

\* The worker posts a message last, and main takes one from the front.
LEMMA PostTypes ==
  ASSUME QueueTypes, newest \in 0 .. MaxChannels, newest' \in {newest, newest + 1} \cap (0 .. MaxChannels),
         NEW m \in Posted(newest'), queue' = Append(queue, m)
  PROVE  QueueTypes'
<1>1. Posted(newest) \subseteq Posted(newest') /\ Posted(newest') \subseteq Message
  BY PostedGrows
<1>2. queue' \in Seq(Message)
  BY <1>1 DEF QueueTypes
<1>3. \A i \in 1 .. Len(queue') : queue'[i] \in Posted(newest')
  BY <1>1 DEF QueueTypes
<1> QED
  BY <1>2, <1>3 DEF QueueTypes

LEMMA TakeTypes ==
  ASSUME QueueTypes, queue # <<>>, newest' = newest, queue' = Tail(queue)
  PROVE  QueueTypes' /\ Head(queue) \in Posted(newest)
BY DEF QueueTypes

LEMMA WorkerTypes ==
  ASSUME StateTypes, QueueTypes,
         \/ Open \/ \E c \in Channels : Wake(c) \/ Resume(c) \/ Close(c)
         \/ \E c \in Channels, s \in BOOLEAN : Call(c, s)
  PROVE  StateTypes' /\ QueueTypes'
<1> USE SessionBounds, ChannelNames DEF StateTypes
<1>1. CASE Open
  <2>1. newest' = newest + 1 /\ newest' \in 0 .. MaxChannels
    BY <1>1 DEF Open
  <2>2. StateTypes'
    BY <1>1, <2>1 DEF Open, main
  <2>3. Sab(newest + 1) \in Posted(newest')
    BY <2>1 DEF Posted
  <2> QED
    BY <1>1, <2>1, <2>2, <2>3, PostTypes DEF Open
<1>2. ASSUME NEW c \in Channels, NEW s \in BOOLEAN, Call(c, s) PROVE StateTypes' /\ QueueTypes'
  <2>1. control' \in [Channels \cup {Boot} -> States]
    BY <1>2 DEF Call, Store, States
  <2>2. StateTypes'
    BY <1>2, <2>1 DEF Call, main, Use, Usable, States, Channels
  <2> QED
    BY <1>2, <2>2, PostedGrows, PostTypes DEF Call
<1>3. ASSUME NEW c \in Channels, Wake(c) \/ Resume(c) \/ Close(c)
      PROVE  StateTypes' /\ QueueTypes'
  <2>1. control' \in [Channels \cup {Boot} -> States]
    BY <1>3 DEF Wake, Yield, Return, Resume, Close, Store, States
  <2>2. suspended' \subseteq 1 .. newest /\ waiting' \in 0 .. newest
    <3>1. Wake(c) => c \in 1 .. newest
      BY DEF Wake, Yield, Return, Woken
    <3>2. Resume(c) => c \in 1 .. newest
      BY DEF Resume, Usable, Channels
    <3>3. ASSUME Wake(c) PROVE suspended' \subseteq 1 .. newest /\ waiting' = 0
      BY <3>1, <3>3 DEF Wake, Yield, Return
    <3>4. ASSUME Resume(c) PROVE suspended' \subseteq 1 .. newest /\ waiting' \in 1 .. newest
      BY <3>2, <3>4 DEF Resume
    <3>5. ASSUME Close(c) PROVE suspended' \subseteq 1 .. newest /\ waiting' = waiting
      BY <3>5 DEF Close
    <3> QED
      BY <1>3, <3>3, <3>4, <3>5
  <2>3. waitOn' \in States /\ inTurn' \in BOOLEAN
    BY <1>3 DEF Wake, Yield, Return, Resume, Close, Use, States
  <2>4. UNCHANGED <<stream, newest, calls, queue, main>>
    BY <1>3 DEF Wake, Yield, Return, Resume, Close
  <2> QED
    BY <2>1, <2>2, <2>3, <2>4 DEF main, QueueTypes
<1> QED
  BY <1>1, <1>2, <1>3

\* Main starts to serve the attached channel.
LEMMA DispatchTypes ==
  ASSUME StateTypes, Dispatch
  PROVE  mpc' = "fetch" /\ unary' \in BOOLEAN /\ serving' \in 0 .. newest /\ chunks' \in 0 .. MaxChunks
<1>1. unary' \in BOOLEAN
  BY Zenon DEF Dispatch
<1> QED
  BY <1>1, SessionBounds DEF Dispatch, StateTypes

LEMMA MainTypes ==
  ASSUME StateTypes, QueueTypes, EventLoop \/ Network \/ Awaken
  PROVE  StateTypes' /\ QueueTypes'
<1> USE SessionBounds, ChannelNames DEF StateTypes
<1>1. UNCHANGED worker
  BY DEF EventLoop, HandleSab, HandleNudge, Network, WriteError, UnaryBody, Headers, ReadChunk,
     ReadDone, Awaken
<1>2. CASE HandleSab
  <2>1. QueueTypes' /\ Head(queue) \in Posted(newest)
    BY <1>1, <1>2, TakeTypes DEF HandleSab, worker
  <2>2. view' \in 0 .. newest
    BY <1>2, <2>1, SabNames DEF HandleSab, Attach, Posted
  <2> QED
    BY <1>1, <1>2, <2>1, <2>2 DEF HandleSab, worker
<1>3. CASE HandleNudge
  <2>1. QueueTypes'
    BY <1>1, <1>3, TakeTypes DEF HandleNudge, worker
  <2>2. StateTypes'
    BY <1>1, <1>3, DispatchTypes DEF HandleNudge, worker
  <2> QED
    BY <2>1, <2>2
<1>4. CASE Network \/ Awaken
  <2>1. QueueTypes'
    BY <1>1, <1>4 DEF QueueTypes, Network, WriteError, UnaryBody, Headers, ReadChunk, ReadDone,
       Awaken, worker
  <2>2. control' \in [Channels \cup {Boot} -> States]
    BY <1>4 DEF Network, WriteError, UnaryBody, Headers, ReadChunk, ReadDone, Awaken, Store, States
  <2>3. ASSUME NEW s, Leave(s)
        PROVE  /\ mpc' \in {"idle", "fetch", "read", "await"} /\ unary' \in BOOLEAN
               /\ serving' \in 0 .. newest /\ chunks' \in 0 .. MaxChunks
    BY <2>3, DispatchTypes DEF Leave
  <2>4. /\ mpc' \in {"idle", "fetch", "read", "await"} /\ unary' \in BOOLEAN
        /\ serving' \in 0 .. newest /\ chunks' \in 0 .. MaxChunks
        /\ view' \in 0 .. newest /\ parked' \in 0 .. newest
    BY <1>4, <2>3 DEF Network, WriteError, UnaryBody, Headers, ReadChunk, ReadDone, Awaken
  <2> QED
    BY <1>1, <2>1, <2>2, <2>4 DEF worker
<1> QED
  BY <1>2, <1>3, <1>4 DEF EventLoop

LEMMA TypeStep == TypeInv /\ [Next]_vars => TypeInv'
<1>1. TypeInv /\ UNCHANGED vars => TypeInv'
  BY DEF TypeInv, StateTypes, QueueTypes, vars, worker, main
<1> QED
  BY <1>1, WorkerTypes, MainTypes DEF Next, TypeInv

LEMMA TypeInvariant == Spec => []TypeInv
BY TypeInit, TypeStep, PTL DEF Spec

\* Every variable of the worker, its channels and the Bridge keeps its type.
THEOREM TypeCorrect == Spec => []TypeOK
<1>1. TypeInv => TypeOK
  BY DEF TypeInv, StateTypes, QueueTypes, Posted, TypeOK
<1> QED
  BY <1>1, TypeInvariant, PTL

-----------------------------------------------------------------------------
(* Whom main serves.                                                       *)

\* Only the channel the worker is blocked on can hold a request or an ack,
\* and an ack only in a stream.
Requests ==
  /\ waiting # 0 => waitOn \in {"REQ_READY", "CHUNK_ACK"}
  /\ control[Boot] \notin {"REQ_READY", "CHUNK_ACK"}
  /\ \A c \in Channels : control[c] \in {"REQ_READY", "CHUNK_ACK"} =>
       waiting = c /\ waitOn = control[c] /\ (control[c] = "CHUNK_ACK" => stream[c])

\* A stream that is suspended, or is about to be, has main parked on it.
Suspends(c) == c \in suspended \/ (waiting = c /\ control[c] = "RESP_CHUNK" /\ stream[c])
Suspension ==
  \A c \in Channels : Suspends(c) =>
    stream[c] /\ control[c] = "RESP_CHUNK" /\ mpc = "await" /\ parked = c /\ serving = c

\* Main fetches and reads for a worker that is parked on that channel, and an
\* ack finds main at the stream it is for.
Serving ==
  /\ mpc \in {"fetch", "read"} =>
       serving \in Channels /\ waiting = serving /\ control[serving] = waitOn
  /\ mpc = "fetch" => (unary <=> ~stream[serving])
  /\ mpc = "read" => stream[serving]
  /\ waiting # 0 /\ mpc = "await" /\ control[waiting] = "CHUNK_ACK" => serving = waiting

ServeInv == Requests /\ Suspension /\ Serving

LEMMA ServeInit == Init => ServeInv
BY DEF Init, ServeInv, Requests, Suspension, Suspends, Serving

\* While no call blocks the worker, no channel holds a request or an ack, and
\* main works for none.
LEMMA NobodyWaits ==
  ASSUME ServeInv, waiting = 0
  PROVE  /\ \A c \in Channels : control[c] \notin {"REQ_READY", "CHUNK_ACK"}
         /\ mpc \notin {"fetch", "read"}
BY ChannelNames DEF ServeInv, Requests, Serving

LEMMA ServeOpen ==
  ASSUME StateTypes, ServeInv, Open
  PROVE  ServeInv'
BY DEF Open, main, ServeInv, Requests, Suspension, Suspends, Serving

LEMMA ServeCall ==
  ASSUME StateTypes, ServeInv, NEW c \in Channels, NEW s \in BOOLEAN, Call(c, s)
  PROVE  ServeInv'
<1>1. /\ control' = [control EXCEPT ![c] = "REQ_READY"] /\ stream' = [stream EXCEPT ![c] = s]
      /\ suspended' = suspended \ {c} /\ waiting' = c /\ waitOn' = "REQ_READY"
      /\ waiting = 0 /\ UNCHANGED main
  BY DEF Call, Store
<1>2. \A d \in Channels : control[d] \notin {"REQ_READY", "CHUNK_ACK"}
  BY <1>1, NobodyWaits
<1>3. Requests'
  BY <1>1, <1>2, ChannelNames DEF ServeInv, Requests, StateTypes
<1>4. Suspension'
  BY <1>1, ChannelNames DEF ServeInv, Suspension, Suspends, main, StateTypes
<1>5. Serving'
  BY <1>1, NobodyWaits DEF Serving, main, StateTypes
<1> QED
  BY <1>3, <1>4, <1>5 DEF ServeInv

LEMMA ServeYield ==
  ASSUME StateTypes, ServeInv, NEW c \in Channels, Yield(c)
  PROVE  ServeInv'
<1>1. /\ waiting = c /\ control[c] = "RESP_CHUNK" /\ stream[c] /\ Suspends(c)
      /\ suspended' = suspended \cup {c} /\ waiting' = 0
      /\ UNCHANGED <<control, stream, waitOn, main>>
  BY DEF Yield, Woken, Suspends
<1>2. mpc = "await"
  BY <1>1 DEF ServeInv, Suspension
<1>3. Requests'
  BY <1>1 DEF ServeInv, Requests
<1>4. Suspension'
  BY <1>1, ChannelNames DEF ServeInv, Suspension, Suspends, main
<1>5. Serving'
  BY <1>1, <1>2 DEF Serving, main
<1> QED
  BY <1>3, <1>4, <1>5 DEF ServeInv

LEMMA ServeReturn ==
  ASSUME StateTypes, ServeInv, NEW c \in Channels, Return(c)
  PROVE  ServeInv'
<1>1. /\ waiting = c /\ control[c] # waitOn /\ control' = [control EXCEPT ![c] = "IDLE"]
      /\ ~Suspends(c) \/ c \in suspended
      /\ waiting' = 0 /\ UNCHANGED <<stream, suspended, waitOn, main>>
  BY DEF Return, Woken, Suspends, Store
<1>2. mpc \notin {"fetch", "read"}
  BY <1>1 DEF ServeInv, Serving
<1>3. Requests'
  BY <1>1, ChannelNames DEF ServeInv, Requests, StateTypes
<1>4. c \notin suspended
  BY <1>1 DEF Return, ServeInv, Suspension, Suspends
<1>5. Suspension'
  BY <1>1, <1>4, ChannelNames DEF ServeInv, Suspension, Suspends, main, StateTypes
<1>6. Serving'
  BY <1>1, <1>2 DEF Serving, main
<1> QED
  BY <1>3, <1>5, <1>6 DEF ServeInv

LEMMA ServeResume ==
  ASSUME StateTypes, ServeInv, NEW c \in Channels, Resume(c)
  PROVE  ServeInv'
<1>1. /\ control' = [control EXCEPT ![c] = "CHUNK_ACK"] /\ c \in suspended
      /\ suspended' = suspended \ {c} /\ waiting' = c /\ waitOn' = "CHUNK_ACK"
      /\ waiting = 0 /\ UNCHANGED <<stream, main>>
  BY DEF Resume, Store
<1>2. stream[c] /\ mpc = "await" /\ serving = c
  BY <1>1 DEF ServeInv, Suspension, Suspends
<1>3. \A d \in Channels : control[d] \notin {"REQ_READY", "CHUNK_ACK"}
  BY <1>1, NobodyWaits
<1>4. Requests'
  BY <1>1, <1>2, <1>3, ChannelNames DEF ServeInv, Requests, StateTypes
<1>5. Suspension'
  BY <1>1, ChannelNames DEF ServeInv, Suspension, Suspends, main, StateTypes
<1>6. Serving'
  BY <1>1, <1>2 DEF Serving, main
<1> QED
  BY <1>4, <1>5, <1>6 DEF ServeInv

LEMMA ServeClose ==
  ASSUME StateTypes, ServeInv, NEW c \in Channels, Close(c)
  PROVE  ServeInv'
<1>1. /\ control' = [control EXCEPT ![c] = "IDLE"] /\ suspended' = suspended \ {c}
      /\ waiting = 0 /\ UNCHANGED <<stream, waiting, waitOn, main>>
  BY DEF Close, Store
<1>2. mpc \notin {"fetch", "read"}
  BY <1>1, NobodyWaits
<1>3. Requests'
  BY <1>1, ChannelNames DEF ServeInv, Requests, StateTypes
<1>4. Suspension'
  BY <1>1, ChannelNames DEF ServeInv, Suspension, Suspends, main, StateTypes
<1>5. Serving'
  BY <1>1, <1>2 DEF Serving, main
<1> QED
  BY <1>3, <1>4, <1>5 DEF ServeInv

-----------------------------------------------------------------------------
\* Main takes the request of the channel it is attached to.
LEMMA ServeDispatch ==
  ASSUME StateTypes, ServeInv, mpc \in {"idle", "await"}, control[view] = "REQ_READY",
         ~(mpc = "await" /\ control[parked] = "RESP_CHUNK"),
         Dispatch, UNCHANGED <<control, worker>>
  PROVE  ServeInv'
<1>1. view \in Channels
  BY ChannelNames DEF ServeInv, Requests, StateTypes
<1>2. waiting = view /\ waitOn = "REQ_READY"
  BY <1>1 DEF ServeInv, Requests
<1>3. mpc' = "fetch" /\ serving' = view
  BY DEF Dispatch
<1>4. unary' <=> ~stream[view]
  BY Zenon DEF Dispatch
<1>5. Requests'
  BY DEF ServeInv, Requests, worker
<1>6. \A c \in Channels : ~Suspends(c)
  BY DEF ServeInv, Suspension
<1>7. Suspension'
  BY <1>6 DEF Suspension, Suspends, worker
<1>8. Serving'
  BY <1>1, <1>2, <1>3, <1>4 DEF Serving, worker
<1> QED
  BY <1>5, <1>7, <1>8 DEF ServeInv

\* A message from the worker.
LEMMA ServeEventLoop ==
  ASSUME StateTypes, ServeInv, EventLoop
  PROVE  ServeInv'
<1>1. CASE HandleNudge /\ MayDispatch
  BY <1>1, ServeDispatch DEF HandleNudge, MayDispatch
<1>2. CASE HandleSab \/ (HandleNudge /\ ~MayDispatch)
  <2>1. UNCHANGED <<control, worker, mpc, parked, unary, serving>>
    BY <1>2 DEF HandleSab, HandleNudge
  <2> QED
    BY <2>1 DEF worker, ServeInv, Requests, Suspension, Suspends, Serving
<1> QED
  BY <1>1, <1>2 DEF EventLoop

\* Main stores a response state where it is attached, and gets off its work.
LEMMA ServeStore ==
  ASSUME StateTypes, ServeInv, mpc \in {"fetch", "read"},
         NEW s \in {"RESP_CHUNK", "RESP_END", "RESP_ERROR"}, Store(view, s),
         UNCHANGED <<serving, worker>>,
         \/ mpc' = "idle" /\ (s = "RESP_CHUNK" => mpc = "fetch" /\ unary)
         \/ mpc' = "await" /\ mpc = "read" /\ parked' = view /\ s = "RESP_CHUNK"
  PROVE  ServeInv'
<1>1. /\ serving \in Channels /\ waiting = serving /\ control[serving] = waitOn
      /\ waitOn \in {"REQ_READY", "CHUNK_ACK"} /\ serving # 0
  BY ChannelNames DEF ServeInv, Serving, Requests
<1>2. view \in Channels \cup {Boot}
  BY ChannelNames DEF StateTypes
<1>3. control' = [control EXCEPT ![view] = s]
  BY DEF Store
<1>4. \A c \in Channels : ~Suspends(c)
  BY DEF ServeInv, Suspension
<1>5. Requests'
  BY <1>2, <1>3 DEF ServeInv, Requests, StateTypes, worker
<1>6. Suspension'
  <2> SUFFICES ASSUME NEW c \in Channels, Suspends(c)'
               PROVE  (stream[c] /\ control[c] = "RESP_CHUNK" /\ mpc = "await" /\ parked = c
                       /\ serving = c)'
    BY DEF Suspension
  <2>1. c = serving /\ control'[c] = "RESP_CHUNK" /\ stream[c]
    BY <1>1, <1>4 DEF Suspends, worker
  <2>2. view = c /\ s = "RESP_CHUNK"
    BY <1>1, <1>2, <1>3, <2>1 DEF StateTypes
  <2>3. mpc' = "await" /\ parked' = c
    BY <2>1, <2>2 DEF ServeInv, Serving
  <2> QED
    BY <2>1, <2>3 DEF worker
<1>7. Serving'
  BY <1>1 DEF Serving, worker
<1> QED
  BY <1>5, <1>6, <1>7 DEF ServeInv

LEMMA ServeNetwork ==
  ASSUME StateTypes, ServeInv, Network
  PROVE  ServeInv'
<1>1. CASE WriteError
  <2>1. mpc' = "idle" /\ UNCHANGED serving
    BY <1>1 DEF WriteError, Leave, NextIsWaiting
  <2> QED
    BY <1>1, <2>1, ServeStore DEF WriteError
<1>2. CASE UnaryBody
  <2>1. mpc' = "idle" /\ UNCHANGED serving
    BY <1>2 DEF UnaryBody, Leave, NextIsWaiting
  <2> QED
    BY <1>2, <2>1, ServeStore DEF UnaryBody
<1>3. CASE Headers
  BY <1>3 DEF Headers, worker, ServeInv, Requests, Suspension, Suspends, Serving
<1>4. CASE ReadChunk
  BY <1>4, ServeStore DEF ReadChunk
<1>5. CASE ReadDone
  <2>1. mpc' = "idle" /\ UNCHANGED serving
    BY <1>5 DEF ReadDone, Leave, NextIsWaiting
  <2> QED
    BY <1>5, <2>1, ServeStore DEF ReadDone
<1> QED
  BY <1>1, <1>2, <1>3, <1>4, <1>5 DEF Network

\* The park ends: main reads on for the worker that acks, takes the request of
\* the attached channel, idles, or parks on the attached channel.
LEMMA ServeAwaken ==
  ASSUME StateTypes, ServeInv, Awaken
  PROVE  ServeInv'
<1>1. /\ mpc = "await" /\ control[parked] # "RESP_CHUNK" /\ UNCHANGED <<control, worker>>
  BY DEF Awaken
<1>2. \A c \in Channels : ~Suspends(c)
  BY <1>1 DEF ServeInv, Suspension
<1>3. Requests' /\ Suspension'
  BY <1>1, <1>2 DEF ServeInv, Requests, Suspension, Suspends, worker
<1>4. CASE control[view] = "CHUNK_ACK"
  <2>1. view \in Channels /\ view # 0
    BY <1>4, ChannelNames DEF ServeInv, Requests, StateTypes
  <2>2. waiting = view /\ waitOn = "CHUNK_ACK" /\ stream[view] /\ serving = view
    BY <1>1, <1>4, <2>1 DEF ServeInv, Requests, Serving
  <2>3. mpc' = "read" /\ serving' = serving
    BY <1>4 DEF Awaken
  <2>4. Serving'
    BY <1>1, <1>4, <2>1, <2>2, <2>3 DEF Serving, worker
  <2> QED
    BY <1>3, <2>4 DEF ServeInv
<1>5. CASE control[view] = "REQ_READY"
  BY <1>1, <1>5, ServeDispatch DEF Awaken, Leave, NextIsWaiting
<1>6. CASE control[view] = "IDLE"
  <2>1. mpc' = "idle"
    BY <1>6 DEF Awaken, Leave, NextIsWaiting
  <2>2. Serving'
    BY <2>1 DEF Serving
  <2> QED
    BY <1>3, <2>2 DEF ServeInv
<1>7. CASE control[view] \notin {"CHUNK_ACK", "IDLE", "REQ_READY"}
  <2>1. mpc' = "await" /\ serving' = serving
    BY <1>1, <1>7 DEF Awaken
  <2>2. Serving'
    BY <1>1, <2>1 DEF ServeInv, Serving, worker
  <2> QED
    BY <1>3, <2>2 DEF ServeInv
<1> QED
  BY <1>4, <1>5, <1>6, <1>7

LEMMA ServeStep == TypeInv /\ ServeInv /\ [Next]_vars => ServeInv'
<1>1. ServeInv /\ UNCHANGED vars => ServeInv'
  BY DEF vars, worker, main, ServeInv, Requests, Suspension, Suspends, Serving
<1> QED
  BY <1>1, ServeOpen, ServeCall, ServeYield, ServeReturn, ServeResume, ServeClose, ServeEventLoop,
     ServeNetwork, ServeAwaken DEF Next, Wake, TypeInv

LEMMA ServeInvariant == Spec => []ServeInv
BY TypeInvariant, ServeInit, ServeStep, PTL DEF Spec

\* However the program mixes its sessions, main has network work to do only
\* for the channel the worker is blocked on: a call may wait for ever, but it
\* never gets the response of another session.
THEOREM OnlyTheBlockedIsServed == Spec => []ServesTheBlockedSession
<1>1. ServeInv => ServesTheBlockedSession
  BY DEF ServeInv, Serving, ServesTheBlockedSession
<1> QED
  BY <1>1, ServeInvariant, PTL

-----------------------------------------------------------------------------
(* Whom main hears.                                                        *)

\* The last announcement is that of the newest channel: main is attached to it
\* or will be, and only nudges follow.
NewestIsLast ==
  \/ view = newest /\ \A i \in 1 .. Len(queue) : queue[i] = Nudge
  \/ \E i \in 1 .. Len(queue) :
       queue[i] = Sab(newest) /\ \A j \in i + 1 .. Len(queue) : queue[j] = Nudge

\* A program that uses one session at a time is in the newest one.
InNewest == inTurn => suspended \subseteq {newest} /\ waiting \in {0, newest}

\* While the worker waits on a request, its nudge is the last message, until
\* main has handled all of them.
NudgeIsLast ==
  waiting # 0 /\ waitOn = "REQ_READY" /\ queue # <<>> => queue[Len(queue)] = Nudge

\* Then main has taken the request of the newest session, or is about to look.
NewestIsTaken ==
  newest # 0 /\ waiting = newest /\ control[newest] = "REQ_READY" /\ queue = <<>> => mpc # "idle"

HearInv == NewestIsLast /\ InNewest /\ NudgeIsLast /\ NewestIsTaken

LEMMA HearInit == Init => HearInv
<1> SUFFICES ASSUME Init PROVE HearInv
  OBVIOUS
<1>1. queue = <<Sab(0)>> /\ newest = 0 /\ waiting = 0 /\ suspended = {}
  BY DEF Init, Boot
<1> QED
  BY <1>1 DEF HearInv, NewestIsLast, InNewest, NudgeIsLast, NewestIsTaken

\* A message from the worker leaves the newest channel the last announced.
LEMMA PostNewest ==
  ASSUME QueueTypes, NewestIsLast, newest \in Nat, UNCHANGED view,
         \/ queue' = Append(queue, Nudge) /\ newest' = newest
         \/ queue' = Append(queue, Sab(newest + 1)) /\ newest' = newest + 1
  PROVE  NewestIsLast'
<1>1. queue \in Seq(Message) /\ Len(queue) \in Nat
  BY DEF QueueTypes
<1>2. CASE queue' = Append(queue, Sab(newest + 1)) /\ newest' = newest + 1
  <2>1. Len(queue') \in 1 .. Len(queue') /\ queue'[Len(queue')] = Sab(newest')
    BY <1>1, <1>2
  <2> QED
    BY <2>1 DEF NewestIsLast
<1>3. CASE queue' = Append(queue, Nudge) /\ newest' = newest
  <2>1. /\ Len(queue') = Len(queue) + 1 /\ queue'[Len(queue) + 1] = Nudge
        /\ \A i \in 1 .. Len(queue) : queue'[i] = queue[i]
    BY <1>1, <1>3
  <2>2. CASE view = newest /\ \A i \in 1 .. Len(queue) : queue[i] = Nudge
    BY <1>1, <1>3, <2>1, <2>2 DEF NewestIsLast
  <2>3. ASSUME NEW i \in 1 .. Len(queue), queue[i] = Sab(newest),
               \A j \in i + 1 .. Len(queue) : queue[j] = Nudge
        PROVE  NewestIsLast'
    <3>1. i \in 1 .. Len(queue') /\ queue'[i] = Sab(newest')
      BY <1>1, <1>3, <2>1, <2>3
    <3>2. \A j \in i + 1 .. Len(queue') : queue'[j] = Nudge
      BY <1>1, <2>1, <2>3
    <3> QED
      BY <3>1, <3>2 DEF NewestIsLast
  <2> QED
    BY <2>2, <2>3 DEF NewestIsLast
<1> QED
  BY <1>2, <1>3

LEMMA HearWorker ==
  ASSUME TypeInv, HearInv,
         \/ Open \/ \E c \in Channels : Wake(c) \/ Resume(c) \/ Close(c)
         \/ \E c \in Channels, s \in BOOLEAN : Call(c, s)
  PROVE  HearInv'
<1> USE DEF HearInv
<1>1. newest \in 0 .. MaxChannels /\ suspended \subseteq 1 .. newest /\ QueueTypes
      /\ queue \in Seq(Message) /\ newest \in Nat
  BY SessionBounds DEF TypeInv, StateTypes, QueueTypes
<1>2. CASE Open
  <2>1. NewestIsLast'
    BY <1>1, <1>2, PostNewest DEF Open, main
  <2>2. InNewest' /\ NudgeIsLast' /\ NewestIsTaken'
    BY <1>1, <1>2 DEF Open, InNewest, NudgeIsLast, NewestIsTaken
  <2> QED
    BY <2>1, <2>2
<1>3. ASSUME NEW c \in Channels, NEW s \in BOOLEAN, Call(c, s) PROVE HearInv'
  <2>1. NewestIsLast'
    BY <1>1, <1>3, PostNewest DEF Call, main
  <2>2. queue' # <<>> /\ queue'[Len(queue')] = Nudge
    BY <1>1, <1>3 DEF Call
  <2>3. InNewest'
    BY <1>3 DEF Call, Use, InNewest
  <2> QED
    BY <2>1, <2>2, <2>3 DEF NudgeIsLast, NewestIsTaken
<1>4. ASSUME NEW c \in Channels, Wake(c) \/ Close(c) PROVE HearInv'
  <2>1. waiting' = 0 /\ UNCHANGED <<queue, view, newest, inTurn>>
    BY <1>4 DEF Wake, Yield, Return, Close, main
  <2>2. suspended' \subseteq suspended \cup ({c} \cap {waiting})
    BY <1>4 DEF Wake, Yield, Return, Woken, Close
  <2>3. waiting = c => c # 0
    BY ChannelNames
  <2> QED
    BY <2>1, <2>2, <2>3 DEF NewestIsLast, InNewest, NudgeIsLast, NewestIsTaken
<1>5. ASSUME NEW c \in Channels, Resume(c) PROVE HearInv'
  <2>1. /\ waiting' = c /\ waitOn' = "CHUNK_ACK" /\ control' = [control EXCEPT ![c] = "CHUNK_ACK"]
        /\ suspended' \subseteq suspended /\ inTurn' = (inTurn /\ c = newest)
        /\ UNCHANGED <<queue, view, newest>>
    BY <1>5 DEF Resume, Store, Use, main
  <2>2. control'[c] = "CHUNK_ACK"
    BY <2>1 DEF TypeInv, StateTypes
  <2> QED
    BY <2>1, <2>2 DEF NewestIsLast, InNewest, NudgeIsLast, NewestIsTaken
<1> QED
  BY <1>2, <1>3, <1>4, <1>5

\* Taking a message from the front keeps the newest channel the last announced,
\* and a nudge that is last stays last.
LEMMA TakeNewest ==
  ASSUME QueueTypes, NewestIsLast, queue # <<>>, queue' = Tail(queue), newest' = newest,
         \/ Head(queue) = Nudge /\ view' = view
         \/ Head(queue) # Nudge /\ view' = Head(queue).channel
  PROVE  /\ NewestIsLast'
         /\ queue' # <<>> => queue'[Len(queue')] = queue[Len(queue)]
<1>1. /\ queue \in Seq(Message) /\ Len(queue) \in Nat /\ Len(queue) >= 1
      /\ Len(queue') = Len(queue) - 1 /\ Head(queue) = queue[1]
      /\ \A i \in 1 .. Len(queue') : queue'[i] = queue[i + 1]
  BY DEF QueueTypes
<1>2. CASE view = newest /\ \A i \in 1 .. Len(queue) : queue[i] = Nudge
  BY <1>1, <1>2 DEF NewestIsLast
<1>3. ASSUME NEW i \in 1 .. Len(queue), queue[i] = Sab(newest),
             \A j \in i + 1 .. Len(queue) : queue[j] = Nudge
      PROVE  NewestIsLast'
  <2>1. CASE i = 1
    <3>1. view' = newest'
      BY <1>1, <1>3, <2>1, SabNames
    <3>2. \A j \in 1 .. Len(queue') : queue'[j] = Nudge
      BY <1>1, <1>3, <2>1
    <3> QED
      BY <3>1, <3>2 DEF NewestIsLast
  <2>2. CASE i > 1
    <3>1. i - 1 \in 1 .. Len(queue') /\ queue'[i - 1] = Sab(newest')
      BY <1>1, <1>3, <2>2
    <3>2. \A j \in (i - 1) + 1 .. Len(queue') : queue'[j] = Nudge
      BY <1>1, <1>3, <2>2
    <3> QED
      BY <3>1, <3>2 DEF NewestIsLast
  <2> QED
    BY <2>1, <2>2
<1>4. queue' # <<>> => queue'[Len(queue')] = queue[Len(queue)]
  BY <1>1
<1> QED
  BY <1>2, <1>3, <1>4 DEF NewestIsLast

LEMMA HearEventLoop ==
  ASSUME TypeInv, ServeInv, HearInv, EventLoop
  PROVE  HearInv'
<1> USE DEF HearInv
<1>1. QueueTypes /\ queue # <<>> /\ queue' = Tail(queue) /\ UNCHANGED <<control, worker>>
  BY DEF TypeInv, EventLoop, HandleSab, HandleNudge
<1>2. Head(queue) \in Message /\ queue \in Seq(Message)
  BY <1>1 DEF QueueTypes
<1>3. \/ Head(queue) = Nudge /\ view' = view
      \/ Head(queue) # Nudge /\ view' = Head(queue).channel
  BY <1>2, SabNames DEF EventLoop, HandleSab, HandleNudge, Attach, Message
<1>4. NewestIsLast' /\ (queue' # <<>> => queue'[Len(queue')] = queue[Len(queue)])
  BY <1>1, <1>3, TakeNewest DEF worker
<1>5. InNewest' /\ NudgeIsLast'
  BY <1>1, <1>4 DEF InNewest, NudgeIsLast, worker
<1>6. NewestIsTaken'
  <2> SUFFICES ASSUME newest # 0, waiting = newest, control[newest] = "REQ_READY",
                      queue' = <<>>, mpc' = "idle"
               PROVE  FALSE
    BY <1>1 DEF NewestIsTaken, worker
  <2>1. newest \in Channels /\ queue \in Seq(Message) /\ QueueTypes
    BY SessionBounds DEF TypeInv, StateTypes, QueueTypes, Channels
  <2>2. waitOn = "REQ_READY"
    BY <2>1 DEF ServeInv, Requests
  <2>3. Len(queue) = 1 /\ Head(queue) = queue[1] /\ queue[1] = Nudge
    <3>1. waiting # 0 /\ queue # <<>>
      BY <1>1, <2>1, ChannelNames
    <3>2. Len(queue) = 1 /\ Head(queue) = queue[1]
      <4>1. Tail(queue) = <<>>
        BY <1>1
      <4>2. Len(queue) >= 1 /\ Len(Tail(queue)) = Len(queue) - 1 /\ Head(queue) = queue[1]
        BY <2>1, <3>1
      <4> QED
        BY <2>1, <3>1, <4>1, <4>2
    <3> QED
      BY <2>2, <3>1, <3>2 DEF NudgeIsLast
  <2>4. view = newest
    BY <2>3, SabNames DEF NewestIsLast
  <2>5. HandleNudge
    BY <2>3, SabNames DEF EventLoop, HandleSab
  <2> QED
    BY <2>4, <2>5 DEF HandleNudge, MayDispatch, Dispatch
<1> QED
  BY <1>4, <1>5, <1>6

\* Main's other steps: it idles only when the attached channel has no request.
LEMMA HearMain ==
  ASSUME TypeInv, HearInv, Network \/ Awaken
  PROVE  HearInv'
<1> USE DEF HearInv
<1>1. UNCHANGED <<queue, view, worker>>
  BY DEF Network, WriteError, UnaryBody, Headers, ReadChunk, ReadDone, Awaken
<1>2. NewestIsLast' /\ InNewest' /\ NudgeIsLast'
  BY <1>1 DEF NewestIsLast, InNewest, NudgeIsLast, worker
<1>3. view \in Channels \cup {Boot} /\ control \in [Channels \cup {Boot} -> States]
  BY ChannelNames DEF TypeInv, StateTypes
<1>4. mpc' = "idle" => control'[view] # "REQ_READY"
  <2>1. CASE Network
    BY <1>3, <2>1 DEF Network, WriteError, UnaryBody, Headers, ReadChunk, ReadDone, Store, Leave,
       NextIsWaiting, Dispatch
  <2>2. CASE Awaken
    BY <2>2 DEF Awaken, Leave, NextIsWaiting, Dispatch
  <2> QED
    BY <2>1, <2>2
<1>5. queue = <<>> => view = newest
  BY DEF NewestIsLast
<1>6. NewestIsTaken'
  BY <1>1, <1>4, <1>5 DEF NewestIsTaken, worker
<1> QED
  BY <1>2, <1>6

LEMMA HearStep == TypeInv /\ ServeInv /\ HearInv /\ [Next]_vars => HearInv'
<1>1. HearInv /\ UNCHANGED vars => HearInv'
  BY DEF vars, worker, main, HearInv, NewestIsLast, InNewest, NudgeIsLast, NewestIsTaken
<1> QED
  BY <1>1, HearWorker, HearEventLoop, HearMain DEF Next

\* The channel of the last announcement is the one main will be attached to.
LEMMA LastViewIsNewest ==
  ASSUME QueueTypes, NewestIsLast
  PROVE  LastView = newest
<1>1. queue \in Seq(Message)
  BY DEF QueueTypes
<1>2. CASE view = newest /\ \A i \in 1 .. Len(queue) : queue[i] = Nudge
  <2>1. Announced = {}
    BY <1>2, SabNames DEF Announced
  <2> QED
    BY <1>2, <2>1 DEF LastView
<1>3. ASSUME NEW i \in 1 .. Len(queue), queue[i] = Sab(newest),
             \A j \in i + 1 .. Len(queue) : queue[j] = Nudge
      PROVE  LastView = newest
  <2> DEFINE last == CHOOSE k \in Announced : \A j \in Announced : j <= k
  <2>1. i \in Announced
    BY <1>3, SabNames DEF Announced
  <2>2. \A j \in Announced : j \in Nat /\ j <= i
    BY <1>1, <1>3, SabNames DEF Announced
  <2>3. last \in Announced /\ \A j \in Announced : j <= last
    BY <2>1, <2>2
  <2> HIDE DEF last
  <2>4. last = i
    <3>1. last \in Nat /\ last <= i /\ i <= last
      BY <2>1, <2>2, <2>3
    <3> QED
      BY <3>1, <1>3
  <2>5. LastView = queue[last].channel
    BY <2>1 DEF LastView, last
  <2> QED
    BY <1>3, <2>4, <2>5, SabNames
<1> QED
  BY <1>2, <1>3 DEF NewestIsLast

\* A program that uses one session at a time is always heard: while its request
\* waits to be taken up, main is or will be attached to that channel, and a
\* nudge is still to come after that or main will look again in its finally.
THEOREM OneSessionIsHeard == Spec => []WaitingIsHeard
<1>1. TypeInv /\ ServeInv /\ HearInv => WaitingIsHeard
  <2> SUFFICES ASSUME TypeInv, ServeInv, HearInv, inTurn, waiting # 0,
                      control[waiting] = "REQ_READY"
               PROVE  /\ LastView = waiting
                      /\ \/ Nudge \in {queue[i] : i \in 1 .. Len(queue)}
                         \/ mpc # "idle"
    BY DEF WaitingIsHeard
  <2>1. waiting = newest /\ newest # 0 /\ waiting \in Channels /\ queue \in Seq(Message)
    BY SessionBounds DEF HearInv, InNewest, TypeInv, StateTypes, QueueTypes, Channels
  <2>2. LastView = waiting
    BY <2>1, LastViewIsNewest DEF TypeInv, HearInv
  <2>3. waitOn = "REQ_READY"
    BY <2>1 DEF ServeInv, Requests
  <2>4. CASE queue = <<>>
    BY <2>1, <2>2, <2>4 DEF HearInv, NewestIsTaken
  <2>5. CASE queue # <<>>
    <3>1. Len(queue) \in 1 .. Len(queue) /\ queue[Len(queue)] = Nudge
      BY <2>1, <2>3, <2>5 DEF HearInv, NudgeIsLast
    <3> QED
      BY <2>2, <3>1
  <2> QED
    BY <2>4, <2>5
<1> QED
  BY <1>1, TypeInvariant, ServeInvariant, HearInit, HearStep, PTL DEF Spec
=============================================================================
