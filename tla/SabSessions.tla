---------------------------- MODULE SabSessions ----------------------------
(***************************************************************************)
(* Several Spark sessions in one worker.  Every session has a channel of   *)
(* its own (patch.py, _default_channel_factory), and every channel         *)
(* allocates its own control word (worker/sab_channel.py, _AtomicsBackend) *)
(* and announces it; but the page has one Bridge per worker                *)
(* (worker/bridge.js), which is attached to the control word announced     *)
(* last, looks only there when it is nudged, and may be parked on the one  *)
(* it was attached to before.                                              *)
(*                                                                         *)
(* SabTransport has the handshake of one channel in full; here an RPC is a *)
(* request and whole chunks, without windows, payloads or timeouts.        *)
(***************************************************************************)
EXTENDS Naturals, Sequences

CONSTANTS
  MaxChannels,  \* bound: sessions the program opens
  MaxCalls,     \* bound: RPCs it starts
  MaxChunks     \* bound: chunks of one response

ASSUME SessionBounds ==
  MaxChannels \in Nat \ {0} /\ MaxCalls \in Nat /\ MaxChunks \in Nat

VARIABLES
  control,   \* STATE of each channel
  stream,    \* is the last RPC of each channel a stream?
  suspended, \* the channels whose last stream is suspended in a yield
  newest,    \* the last channel opened (0: only the SABs of the bootstrap)
  waiting,   \* the channel the worker is blocked on (0: none)
  waitOn,    \* the value of its STATE it waits to change
  calls,     \* RPCs started
  inTurn,    \* history: the program has left each session for good, with no
             \* stream suspended, before it opened the next one
  queue,     \* postMessages main has not handled
  view,      \* main: the channel the Bridge is attached to
  mpc,       \* main: "idle", "fetch", "read" or "await"
  parked,    \* main: the channel its waitAsync is on
  unary,     \* main: header.kind = "unary"
  serving,   \* history: the channel whose request main read last
  chunks     \* main: chunks of this response so far

worker == <<stream, suspended, newest, waiting, waitOn, calls, inTurn>>
main   == <<view, mpc, parked, unary, serving, chunks>>
vars   == <<control, queue, worker, main>>

Boot == 0
Channels == 1 .. MaxChannels
States == {"IDLE", "REQ_READY", "RESP_CHUNK", "RESP_END", "RESP_ERROR", "CHUNK_ACK"}
Sab(c) == [type |-> "sab", channel |-> c]
Nudge  == [type |-> "rpc", channel |-> Boot]

\* worker_bootstrap.js has announced SABs that no channel uses.
Init ==
  /\ control = [c \in Channels \cup {Boot} |-> "IDLE"]
  /\ stream = [c \in Channels |-> FALSE]
  /\ suspended = {} /\ newest = 0 /\ waiting = 0 /\ waitOn = "IDLE" /\ calls = 0
  /\ inTurn = TRUE
  /\ queue = <<Sab(Boot)>>
  /\ view = Boot /\ mpc = "idle" /\ parked = Boot /\ unary = FALSE /\ serving = 0 /\ chunks = 0

-----------------------------------------------------------------------------
(* The worker.                                                             *)

Store(c, s) == control' = [control EXCEPT ![c] = s]

\* MUTANT of Usable: a channel is used before it is announced.
UsableEarly(c) == c \in Channels

\* The sessions the program may use now.
Usable(c) == c \in Channels /\ c <= newest
Use(c) == inTurn' = (inTurn /\ c = newest)

Open ==
  /\ waiting = 0 /\ newest < MaxChannels
  /\ inTurn' = (inTurn /\ suspended = {})
  /\ newest' = newest + 1
  /\ queue' = Append(queue, Sab(newest + 1))
  /\ UNCHANGED <<control, stream, suspended, waiting, waitOn, calls, main>>

\* unary or server_stream: an RPC supersedes its channel's suspended stream.
Call(c, s) ==
  /\ waiting = 0 /\ Usable(c) /\ calls < MaxCalls
  /\ Use(c)
  /\ Store(c, "REQ_READY")
  /\ stream' = [stream EXCEPT ![c] = s]
  /\ suspended' = suspended \ {c}
  /\ waiting' = c /\ waitOn' = "REQ_READY" /\ calls' = calls + 1
  /\ queue' = Append(queue, Nudge)
  /\ UNCHANGED <<newest, main>>

Woken(c) == waiting = c /\ c # 0 /\ control[c] # waitOn

\* A stream yields its chunk and leaves RESP_CHUNK standing.
Yield(c) ==
  /\ Woken(c) /\ stream[c] /\ control[c] = "RESP_CHUNK"
  /\ suspended' = suspended \cup {c}
  /\ waiting' = 0
  /\ UNCHANGED <<control, stream, newest, waitOn, calls, inTurn, queue, main>>

\* A unary body, the end of a stream or an error: the call returns.
Return(c) ==
  /\ Woken(c) /\ ~(stream[c] /\ control[c] = "RESP_CHUNK")
  /\ Store(c, "IDLE")
  /\ waiting' = 0
  /\ UNCHANGED <<stream, suspended, newest, waitOn, calls, inTurn, queue, main>>

Resume(c) ==
  /\ waiting = 0 /\ Usable(c) /\ c \in suspended
  /\ Use(c)
  /\ Store(c, "CHUNK_ACK")
  /\ suspended' = suspended \ {c}
  /\ waiting' = c /\ waitOn' = "CHUNK_ACK"
  /\ UNCHANGED <<stream, newest, calls, queue, main>>

\* The generator is finalised.
Close(c) ==
  /\ waiting = 0 /\ c \in suspended
  /\ Store(c, "IDLE")
  /\ suspended' = suspended \ {c}
  /\ UNCHANGED <<stream, newest, waiting, waitOn, calls, inTurn, queue, main>>

-----------------------------------------------------------------------------
(* Main: one Bridge.                                                       *)

\* MUTANT of Attach: a Bridge that is busy keeps the views it has.
AttachIfIdle(c) == IF mpc = "idle" THEN c ELSE view

\* attach: the views are replaced, whatever handleRpc is doing.
Attach(c) == c

HandleSab ==
  /\ queue # <<>> /\ Head(queue).type = "sab"
  /\ view' = Attach(Head(queue).channel)
  /\ queue' = Tail(queue)
  /\ UNCHANGED <<control, worker, mpc, parked, unary, serving, chunks>>

\* handleRpc from the top: it serves the request of the attached channel.
Dispatch ==
  /\ mpc' = "fetch" /\ unary' = ~stream[view] /\ serving' = view /\ chunks' = 0

\* MUTANT of MayDispatch: any nudge is served when main is idle.
DispatchAnyNudge == mpc = "idle" /\ view # Boot

MayDispatch == mpc = "idle" /\ control[view] = "REQ_READY"

HandleNudge ==
  /\ queue # <<>> /\ Head(queue).type = "rpc"
  /\ queue' = Tail(queue)
  /\ IF MayDispatch THEN Dispatch ELSE UNCHANGED <<mpc, unary, serving, chunks>>
  /\ UNCHANGED <<control, worker, view, parked>>

\* MUTANT of NextIsWaiting: no re-dispatch in the finally.
NoRedispatch(s) == FALSE

NextIsWaiting(s) == s = "REQ_READY"

\* return and the finally, with s the attached STATE.
Leave(s) ==
  IF NextIsWaiting(s) THEN Dispatch ELSE mpc' = "idle" /\ UNCHANGED <<unary, serving, chunks>>

\* fetch or the body fails.
WriteError ==
  /\ mpc \in {"fetch", "read"}
  /\ Store(view, "RESP_ERROR")
  /\ Leave("RESP_ERROR")
  /\ UNCHANGED <<queue, worker, view, parked>>

UnaryBody ==
  /\ mpc = "fetch" /\ unary
  /\ Store(view, "RESP_CHUNK")
  /\ Leave("RESP_CHUNK")
  /\ UNCHANGED <<queue, worker, view, parked>>

Headers ==
  /\ mpc = "fetch" /\ ~unary
  /\ mpc' = "read"
  /\ UNCHANGED <<control, queue, worker, view, parked, unary, serving, chunks>>

ReadChunk ==
  /\ mpc = "read" /\ chunks < MaxChunks
  /\ Store(view, "RESP_CHUNK")
  /\ chunks' = chunks + 1
  /\ mpc' = "await" /\ parked' = view
  /\ UNCHANGED <<queue, worker, view, unary, serving>>

ReadDone ==
  /\ mpc = "read"
  /\ Store(view, "RESP_END")
  /\ Leave("RESP_END")
  /\ UNCHANGED <<queue, worker, view, parked>>

\* The waitAsync on the parked control word resolves; the loop looks at the
\* attached one.
Awaken ==
  /\ mpc = "await" /\ control[parked] # "RESP_CHUNK"
  /\ \/ /\ control[view] = "CHUNK_ACK"
        /\ mpc' = "read" /\ UNCHANGED <<parked, unary, serving, chunks>>
     \/ /\ control[view] \in {"IDLE", "REQ_READY"}
        /\ Leave(control[view]) /\ UNCHANGED parked
     \/ /\ control[view] \notin {"CHUNK_ACK", "IDLE", "REQ_READY"}
        /\ parked' = view /\ UNCHANGED <<mpc, unary, serving, chunks>>
  /\ UNCHANGED <<control, queue, worker, view>>

EventLoop == HandleSab \/ HandleNudge
Network   == WriteError \/ UnaryBody \/ Headers \/ ReadChunk \/ ReadDone
Wake(c)   == Yield(c) \/ Return(c)

Next ==
  \/ Open
  \/ \E c \in Channels :
       Wake(c) \/ Resume(c) \/ Close(c) \/ \E s \in BOOLEAN : Call(c, s)
  \/ EventLoop \/ Network \/ Awaken

Fairness ==
  /\ WF_vars(EventLoop) /\ WF_vars(Network) /\ WF_vars(Awaken)
  /\ \A c \in Channels : WF_vars(Wake(c))

Spec == Init /\ [][Next]_vars
FairSpec == Spec /\ Fairness
-----------------------------------------------------------------------------
\* Every variable has its type.
TypeOK ==
  /\ control \in [Channels \cup {Boot} -> States]
  /\ stream \in [Channels -> BOOLEAN] /\ suspended \subseteq 1 .. newest
  /\ newest \in 0 .. MaxChannels /\ waiting \in 0 .. newest /\ waitOn \in States
  /\ calls \in 0 .. MaxCalls /\ inTurn \in BOOLEAN
  /\ \A i \in 1 .. Len(queue) : queue[i] \in {Sab(c) : c \in 0 .. newest} \cup {Nudge}
  /\ view \in 0 .. newest /\ parked \in 0 .. newest
  /\ mpc \in {"idle", "fetch", "read", "await"} /\ unary \in BOOLEAN
  /\ serving \in 0 .. newest
  /\ chunks \in 0 .. MaxChunks

\* The channel main will be attached to when it handles the last message.
Announced == {i \in 1 .. Len(queue) : queue[i].type = "sab"}
LastView == IF Announced = {} THEN view
            ELSE queue[CHOOSE i \in Announced : \A j \in Announced : j <= i].channel

\* A program that uses one session at a time is always heard: while the worker
\* waits for its request to be taken up, main is or will be attached to that
\* channel, and either a nudge is still to come after that or main is busy and
\* will look again in its finally.
WaitingIsHeard == inTurn /\ waiting # 0 /\ control[waiting] = "REQ_READY" =>
  /\ LastView = waiting
  /\ \/ Nudge \in {queue[i] : i \in 1 .. Len(queue)}
     \/ mpc # "idle"

\* However the program mixes its sessions, main has network work to do only
\* for the channel the worker is blocked on: a call may wait for ever, but it
\* never gets the response of another session.
ServesTheBlockedSession == mpc \in {"fetch", "read"} => waiting = serving

\* Every call of a program that uses one session at a time returns.
CallReturnsInTurn == \A c \in Channels : (waiting = c /\ inTurn) ~> (waiting # c)

\* Every call that blocks the worker returns.
CallReturns == \A c \in Channels : (waiting = c) ~> (waiting # c)
=============================================================================
