---------------------------- MODULE SabTransport ----------------------------
(***************************************************************************)
(* The blocking transport of the library: Python in a Web Worker           *)
(* (worker/sab_channel.py, _AtomicsBackend) and the page's main thread     *)
(* (worker/bridge.js, Bridge) exchange one RPC at a time through two       *)
(* SharedArrayBuffers.  The worker blocks in Atomics.wait on the control   *)
(* word STATE; the main thread, which may not block, runs an event loop    *)
(* that takes postMessage nudges in order and awaits promises.             *)
(*                                                                         *)
(* One action is one stretch of code a thread runs between two points at   *)
(* which the other thread can see or change something: a store to STATE, a *)
(* load of STATE, an await.  Reading or writing a whole buffer is one      *)
(* step.  Bytes are abstracted to what they are: a request of RPC g, the   *)
(* w-th window of the m-th message main read for g, or an error.           *)
(***************************************************************************)
EXTENDS Naturals, Sequences

CONSTANTS
  MaxRpc,    \* bound: RPCs the Python program starts
  MaxMsg,    \* bound: non-empty chunks one response body is read in
  MaxWin,    \* bound: windows one chunk is split into
  MaxGrow,   \* bound: requests that outgrow the data SAB (0: none does)
  Timeouts   \* the RPCs that carry a timeout

ASSUME BoundsAssumption ==
  /\ MaxRpc \in Nat \ {0}
  /\ MaxMsg \in Nat \ {0}
  /\ MaxWin \in Nat \ {0}
  /\ MaxGrow \in Nat
  /\ Timeouts \subseteq 1 .. MaxRpc

VARIABLES
  state,    \* control word STATE
  genWord,  \* control word C_GEN
  data,     \* contents of each data SAB allocated so far
  queue,    \* postMessages from the worker main has not handled
  wbuf,     \* worker: the data SAB _data views
  wpc,      \* worker: where its Python thread is
  call,     \* worker: _gen, the number of the last RPC started
  waitOn,   \* worker: the value of STATE it is parked on
  parts,    \* worker: windows of the message being reassembled
  kind,     \* worker: request["kind"] of each RPC
  status,   \* worker: what became of each RPC
  got,      \* worker: the messages each RPC handed to its caller
  mbuf,     \* main: the data SAB the Bridge is attached to (0: none yet)
  mpc,      \* main: where handleRpc is ("idle": not _busy)
  cur,      \* main: the RPC whose request handleRpc read (0: no request)
  msg,      \* main: how many chunks it has read of cur's body
  win,      \* main: the last window of that chunk it wrote
  nwin,     \* main: the number of windows of that chunk
  fetches,  \* history: how often the request of each RPC was sent
  total     \* history: chunks in each response body main read to its end

worker == <<wbuf, wpc, call, waitOn, parts, kind, status, got>>
main   == <<mbuf, mpc, cur, msg, win, nwin, fetches, total>>
vars   == <<state, genWord, data, queue, worker, main>>

Rpc  == 1 .. MaxRpc
Bufs == 1 .. MaxGrow + 1

\* STATE values; S_REALLOC_REQ is declared in the code and never stored.
States == {"IDLE", "REQ_READY", "RESP_CHUNK", "RESP_END", "RESP_ERROR", "CHUNK_ACK"}

Statuses == {"new", "waiting", "suspended",                 \* live
             "ok", "ended", "error", "timedout", "stale", "closed"}

\* What a data SAB holds.
Content(t, g, m, w, more) == [tag |-> t, gen |-> g, msg |-> m, win |-> w, more |-> more]
Empty             == Content("none", 0, 0, 0, FALSE)
Request(g)        == Content("req", g, 0, 0, FALSE)
Window(g, m, w, n) == Content("win", g, m, w, w < n)
ErrorMeta(g)      == Content("err", g, 0, 0, FALSE)
Contents == [tag : {"none", "req", "win", "err"}, gen : 0 .. MaxRpc,
             msg : 0 .. MaxMsg, win : 0 .. MaxWin, more : BOOLEAN]

Sab(b)   == [type |-> "sab", buf |-> b]
Nudge    == [type |-> "rpc", buf |-> 0]
Messages == [type : {"sab"}, buf : Bufs] \cup {Nudge}

\* __init__ allocates the first data SAB and announces it.
Init ==
  /\ state = "IDLE" /\ genWord = 0
  /\ data = [b \in Bufs |-> Empty]
  /\ queue = <<Sab(1)>>
  /\ wbuf = 1 /\ wpc = "user" /\ call = 0 /\ waitOn = "IDLE" /\ parts = <<>>
  /\ kind = [g \in Rpc |-> "unary"]
  /\ status = [g \in Rpc |-> "new"]
  /\ got = [g \in Rpc |-> <<>>]
  /\ mbuf = 0 /\ mpc = "idle" /\ cur = 0 /\ msg = 0 /\ win = 0 /\ nwin = 0
  /\ fetches = [g \in 0 .. MaxRpc |-> 0]
  /\ total = [g \in 0 .. MaxRpc |-> 0]

-----------------------------------------------------------------------------
(* The worker: _AtomicsBackend.  wpc = "user" is PySpark and the user's    *)
(* program, "stamp", "publish" and "nudge" are the rest of _write_request, *)
(* and "wait" is Atomics.wait.                                             *)

\* The buffer a request goes to: a new, larger SAB when it does not fit.
GrowTo == {wbuf} \cup {b \in Bufs : b = wbuf + 1}

\* unary / server_stream begin: _gen is bumped and _write_request puts the
\* request into the data SAB, growing and announcing it first if needed.
WriteRequest(k) ==
  /\ wpc = "user" /\ call < MaxRpc
  /\ \E b \in GrowTo :
       /\ wbuf' = b
       /\ queue' = IF b = wbuf THEN queue ELSE Append(queue, Sab(b))
       /\ data' = [data EXCEPT ![b] = Request(call + 1)]
  /\ call' = call + 1
  /\ kind' = [kind EXCEPT ![call + 1] = k]
  /\ status' = [status EXCEPT ![call + 1] = "waiting"]
  /\ parts' = <<>>
  /\ wpc' = "stamp"
  /\ UNCHANGED <<state, genWord, waitOn, got, main>>

\* _write_request: C_GEN is stored before STATE.
StampGen ==
  /\ wpc = "stamp"
  /\ genWord' = call
  /\ wpc' = "publish"
  /\ UNCHANGED <<state, data, queue, wbuf, call, waitOn, parts, kind, status, got, main>>

\* _write_request: STATE = REQ_READY.
Publish ==
  /\ wpc = "publish"
  /\ state' = "REQ_READY"
  /\ waitOn' = "REQ_READY"
  /\ wpc' = "nudge"
  /\ UNCHANGED <<genWord, data, queue, wbuf, call, parts, kind, status, got, main>>

\* _write_request: the nudge is posted, and the caller's _wait begins.
PostNudge ==
  /\ wpc = "nudge"
  /\ queue' = Append(queue, Nudge)
  /\ wpc' = "wait"
  /\ UNCHANGED <<state, genWord, data, wbuf, call, waitOn, parts, kind, status, got, main>>

\* MUTANT of ResetIfCurrent: the generation is not looked at.
ResetAlways(g) == state' = "IDLE"

\* _reset_idle_if_current, in the finally of every RPC.
ResetIfCurrent(g) == state' = IF genWord = g THEN "IDLE" ELSE state

\* An RPC leaves its call with outcome s; its finally runs.
Leave(s) ==
  /\ status' = [status EXCEPT ![call] = s]
  /\ wpc' = "user"
  /\ parts' = <<>>
  /\ ResetIfCurrent(call)

\* _wait has seen STATE move away from the value the worker parked on.
Woken == wpc = "wait" /\ state # waitOn

\* MUTANT of Reassembled: only the last window is kept.
LastWindowOnly == <<data[wbuf]>>

\* The windows of the message so far, with the one in the buffer.
Reassembled == Append(parts, data[wbuf])

\* _reassemble_windows: more windows follow, so ack this one and wait.
AckWindow ==
  /\ Woken /\ state = "RESP_CHUNK" /\ data[wbuf].more
  /\ parts' = Reassembled
  /\ state' = "CHUNK_ACK"
  /\ waitOn' = "CHUNK_ACK"
  /\ UNCHANGED <<genWord, data, queue, wbuf, wpc, call, kind, status, got, main>>

\* _reassemble_windows: the last window.  unary returns the body, a stream
\* yields the chunk and stays suspended at the yield.
FinishMessage ==
  /\ Woken /\ state = "RESP_CHUNK" /\ ~data[wbuf].more
  /\ got' = [got EXCEPT ![call] = Append(@, Reassembled)]
  /\ IF kind[call] = "unary"
       THEN Leave("ok")
       ELSE /\ status' = [status EXCEPT ![call] = "suspended"]
            /\ wpc' = "user"
            /\ parts' = <<>>
            /\ UNCHANGED state
  /\ UNCHANGED <<genWord, data, queue, wbuf, call, waitOn, kind, main>>

\* RESP_END: the stream returns, a unary has an empty body; in the middle
\* of a message it is an unexpected state.
SeeEnd ==
  /\ Woken /\ state = "RESP_END"
  /\ Leave(IF parts # <<>> THEN "error" ELSE IF kind[call] = "unary" THEN "ok" ELSE "ended")
  /\ UNCHANGED <<genWord, data, queue, wbuf, call, waitOn, kind, got, main>>

\* RESP_ERROR, or a state the protocol does not expect: an exception.
SeeError ==
  /\ Woken /\ state \notin {"RESP_CHUNK", "RESP_END"}
  /\ Leave("error")
  /\ UNCHANGED <<genWord, data, queue, wbuf, call, waitOn, kind, got, main>>

\* _wait raises TransportTimeout.  unary's first wait is outside its try, so
\* there STATE is left as it is; every other wait unwinds through a finally.
TimeOut ==
  /\ wpc = "wait" /\ call \in Timeouts
  /\ status' = [status EXCEPT ![call] = "timedout"]
  /\ wpc' = "user"
  /\ parts' = <<>>
  /\ IF kind[call] = "unary" /\ waitOn = "REQ_READY"
       THEN UNCHANGED state
       ELSE ResetIfCurrent(call)
  /\ UNCHANGED <<genWord, data, queue, wbuf, call, waitOn, kind, got, main>>

\* MUTANT of Superseded: a resumed stream does not look at the generation.
NeverSuperseded(g) == FALSE

\* A newer RPC has stamped C_GEN since stream g yielded.
Superseded(g) == genWord # g

\* next() on a suspended stream: a newer RPC makes it return at once,
\* otherwise it acks the chunk and waits for the next.
Resume(g) ==
  /\ wpc = "user" /\ status[g] = "suspended"
  /\ IF Superseded(g)
       THEN /\ status' = [status EXCEPT ![g] = "stale"]
            /\ ResetIfCurrent(g)
            /\ UNCHANGED <<wpc, waitOn>>
       ELSE /\ status' = [status EXCEPT ![g] = "waiting"]
            /\ state' = "CHUNK_ACK"
            /\ waitOn' = "CHUNK_ACK"
            /\ wpc' = "wait"
  /\ UNCHANGED <<genWord, data, queue, wbuf, call, parts, kind, got, main>>

\* close() on a suspended stream, or the garbage collector finalising it,
\* which may happen wherever the worker runs Python: only the finally runs.
Close(g) ==
  /\ wpc # "wait" /\ status[g] = "suspended"
  /\ status' = [status EXCEPT ![g] = "closed"]
  /\ ResetIfCurrent(g)
  /\ UNCHANGED <<genWord, data, queue, wbuf, wpc, call, waitOn, parts, kind, got, main>>

-----------------------------------------------------------------------------
(* The main thread: Bridge.  mpc is the await handleRpc is at: "fetch",    *)
(* "body" (arrayBuffer), "read" (reader.read), "ackWindow", "ackMsg"       *)
(* (_awaitWorker); "fin" is its finally and "idle" is ~_busy.              *)

\* Event-loop messages are handled only when no handler is running.
EventLoop == mpc # "fin"

\* A read that finds something else than a request parses it as a header
\* without url and kind: fetch of a wrong resource, then the stream branch.
CurKind == IF cur = 0 THEN "stream" ELSE kind[cur]

\* handleRpc past its guards: _busy is set, the request is read, fetch starts.
Begin ==
  LET c == data[mbuf]
      g == IF c.tag = "req" THEN c.gen ELSE 0
  IN  /\ cur' = g
      /\ fetches' = [fetches EXCEPT ![g] = @ + 1]
      /\ msg' = 0 /\ win' = 0 /\ nwin' = 0
      /\ mpc' = "fetch"

\* A "pcw_sab" message: attach.
HandleSab ==
  /\ EventLoop /\ queue # <<>> /\ Head(queue).type = "sab"
  /\ mbuf' = Head(queue).buf
  /\ queue' = Tail(queue)
  /\ UNCHANGED <<state, genWord, data, worker, mpc, cur, msg, win, nwin, fetches, total>>

\* MUTANT of MayDispatch: any nudge is taken for a new request.
DispatchAnyNudge == mpc = "idle" /\ mbuf # 0

\* The guards of handleRpc.
MayDispatch == mpc = "idle" /\ mbuf # 0 /\ state = "REQ_READY"

\* A "pcw_rpc" message: dropped while busy or when STATE is not REQ_READY.
HandleNudge ==
  /\ EventLoop /\ queue # <<>> /\ Head(queue).type = "rpc"
  /\ queue' = Tail(queue)
  /\ IF MayDispatch
       THEN Begin
       ELSE UNCHANGED <<mpc, cur, msg, win, nwin, fetches>>
  /\ UNCHANGED <<state, genWord, data, worker, mbuf, total>>

\* _writeError, after which every caller of it runs into the finally.
WriteError ==
  /\ data' = [data EXCEPT ![mbuf] = ErrorMeta(cur)]
  /\ state' = "RESP_ERROR"
  /\ mpc' = "fin"

\* fetch rejects (network, abort, timer), arrayBuffer rejects, or read does.
NetworkFail ==
  /\ mpc \in {"fetch", "body", "read"}
  /\ WriteError
  /\ UNCHANGED <<genWord, queue, worker, mbuf, cur, msg, win, nwin, fetches, total>>

\* fetch resolves with the response headers.
FetchOk ==
  /\ mpc = "fetch"
  /\ mpc' = IF CurKind = "unary" THEN "body" ELSE "read"
  /\ UNCHANGED <<state, genWord, data, queue, worker, mbuf, cur, msg, win, nwin, fetches, total>>

\* Window w of n of message m goes into the data SAB.  After the last one
\* handleRpc returns (unary) or waits for the worker to want the next chunk.
Emit(m, w, n) ==
  /\ data' = [data EXCEPT ![mbuf] = Window(cur, m, w, n)]
  /\ state' = "RESP_CHUNK"
  /\ msg' = m /\ win' = w /\ nwin' = n
  /\ mpc' = IF w < n THEN "ackWindow"
            ELSE IF CurKind = "unary" THEN "fin" ELSE "ackMsg"

\* arrayBuffer resolves: the whole unary body is one message.
BodyOk(n) ==
  /\ mpc = "body"
  /\ Emit(1, 1, n)
  /\ UNCHANGED <<genWord, queue, worker, mbuf, cur, fetches, total>>

\* reader.read resolves with a chunk (empty ones are skipped in the code).
ReadChunk(n) ==
  /\ mpc = "read" /\ msg < MaxMsg
  /\ Emit(msg + 1, 1, n)
  /\ UNCHANGED <<genWord, queue, worker, mbuf, cur, fetches, total>>

\* reader.read resolves with done.
ReadDone ==
  /\ mpc = "read"
  /\ state' = "RESP_END"
  /\ mpc' = "fin"
  /\ total' = [total EXCEPT ![cur] = msg]
  /\ UNCHANGED <<genWord, data, queue, worker, mbuf, cur, msg, win, nwin, fetches>>

\* MUTANT of WorkerAcked: the bridge does not wait for acks.
AckAssumed == TRUE

\* _awaitWorker sees the ack it expects.
WorkerAcked == state = "CHUNK_ACK"

WindowAcked ==
  /\ mpc = "ackWindow" /\ WorkerAcked
  /\ Emit(msg, win + 1, nwin)
  /\ UNCHANGED <<genWord, queue, worker, mbuf, cur, fetches, total>>

MessageAcked ==
  /\ mpc = "ackMsg" /\ WorkerAcked
  /\ mpc' = "read"
  /\ UNCHANGED <<state, genWord, data, queue, worker, mbuf, cur, msg, win, nwin, fetches, total>>

\* MUTANT of GaveUp: the next request is not taken as giving up this one.
GaveUpOnIdle == state = "IDLE"

\* _awaitWorker sees that the worker gave the exchange up.
GaveUp == state \in {"IDLE", "REQ_READY"}

Abandoned ==
  /\ mpc \in {"ackWindow", "ackMsg"} /\ GaveUp
  /\ mpc' = "fin"
  /\ UNCHANGED <<state, genWord, data, queue, worker, mbuf, cur, msg, win, nwin, fetches, total>>

\* MUTANT of NextIsWaiting: the finally does not look for a request.
NoRedispatch == FALSE
\* MUTANT of NextIsWaiting: any STATE but IDLE is taken for a request.
RedispatchAny == state # "IDLE"

\* A request was published while _busy.
NextIsWaiting == state = "REQ_READY"

\* handleRpc's finally: _busy is cleared, and a request that is waiting is
\* taken at once (its nudge may have been dropped).
Finally ==
  /\ mpc = "fin"
  /\ IF NextIsWaiting
       THEN Begin
       ELSE mpc' = "idle" /\ UNCHANGED <<cur, msg, win, nwin, fetches>>
  /\ UNCHANGED <<state, genWord, data, queue, worker, mbuf, total>>

-----------------------------------------------------------------------------
\* The Python program has ended: it is in no call and keeps no stream.
Finished ==
  /\ wpc = "user" /\ call = MaxRpc
  /\ \A g \in Rpc : status[g] # "suspended"
  /\ UNCHANGED vars

User == \/ \E k \in {"unary", "stream"} : WriteRequest(k)
        \/ \E g \in Rpc : Resume(g) \/ Close(g)

Backend == StampGen \/ Publish \/ PostNudge \/ AckWindow \/ FinishMessage \/ SeeEnd \/ SeeError

Network == \/ NetworkFail \/ FetchOk \/ ReadDone
           \/ \E n \in 1 .. MaxWin : BodyOk(n) \/ ReadChunk(n)

Page == HandleSab \/ HandleNudge \/ WindowAcked \/ MessageAcked \/ Abandoned \/ Finally

Next == User \/ Backend \/ TimeOut \/ Network \/ Page \/ Finished

Spec == Init /\ [][Next]_vars

(* Fairness.  Each thread keeps running while it can (the worker's Python, *)
(* the page's event loop and its microtasks), and the network settles every *)
(* fetch and read.  The user's program is not fair: it may hold a stream.  *)
Fairness ==
  /\ WF_vars(Backend)
  /\ WF_vars(HandleSab) /\ WF_vars(HandleNudge)
  /\ WF_vars(WindowAcked \/ MessageAcked \/ Abandoned \/ Finally)
  /\ WF_vars(Network)

FairSpec == Spec /\ Fairness

-----------------------------------------------------------------------------
SharedTypes ==
  /\ state \in States /\ genWord \in 0 .. MaxRpc
  /\ data \in [Bufs -> Contents]
  /\ queue \in Seq(Messages)

WorkerTypes ==
  /\ wbuf \in Bufs /\ wpc \in {"user", "stamp", "publish", "nudge", "wait"}
  /\ call \in 0 .. MaxRpc /\ waitOn \in States
  /\ parts \in Seq(Contents)
  /\ kind \in [Rpc -> {"unary", "stream"}]
  /\ status \in [Rpc -> Statuses]
  /\ got \in [Rpc -> Seq(Seq(Contents))]

MainTypes ==
  /\ mbuf \in 0 .. MaxGrow + 1
  /\ mpc \in {"idle", "fetch", "body", "read", "ackWindow", "ackMsg", "fin"}
  /\ cur \in 0 .. MaxRpc /\ msg \in 0 .. MaxMsg
  /\ win \in 0 .. MaxWin /\ nwin \in 0 .. MaxWin
  /\ fetches \in [0 .. MaxRpc -> Nat] /\ total \in [0 .. MaxRpc -> 0 .. MaxMsg]

\* Type invariant: the control words, the buffers, the queue and both threads.
TypeOK == SharedTypes /\ WorkerTypes /\ MainTypes

\* s is windows 1, 2, ... of message m of RPC g, in order.
WindowsOf(s, g, m) ==
  \A i \in 1 .. Len(s) :
    s[i].tag = "win" /\ s[i].gen = g /\ s[i].msg = m /\ s[i].win = i

\* s is message m of RPC g, whole: only its last window says no more follow.
Whole(s, g, m) ==
  /\ s # <<>> /\ WindowsOf(s, g, m)
  /\ \A i \in 1 .. Len(s) : s[i].more <=> i < Len(s)

\* Safety.  Every RPC hands its caller its own response and no other: the
\* k-th message it delivers is message k main read for it, with every window,
\* in order (_reassemble_windows against _emitMessage).
OwnResponse ==
  \A g \in Rpc : \A k \in 1 .. Len(got[g]) : Whole(got[g][k], g, k)

\* Safety.  A stream that returns normally has yielded every chunk main read,
\* and a unary call that returns has one body; both were sent exactly once.
\* (A stream made stale by a newer RPC returns early by design.)
CompleteOnReturn ==
  \A g \in Rpc :
    /\ status[g] = "ended" => fetches[g] = 1 /\ Len(got[g]) = total[g]
    /\ status[g] = "ok" => fetches[g] = 1 /\ Len(got[g]) = 1

\* Safety.  No request is sent twice, whatever nudges are dropped, late or
\* overtaken by the re-dispatch in the finally, and none that was never made.
SentAtMostOnce ==
  fetches[0] = 0 /\ \A g \in Rpc : fetches[g] <= (IF g <= call THEN 1 ELSE 0)

\* Safety.  While the worker is parked on a request or on an ack, the main
\* thread, when it is inside fetch, a body read or a write, works for that RPC.
ServesTheCaller ==
  mpc \in {"fetch", "body", "read"} => cur = call /\ wpc \in {"nudge", "wait"}

\* Safety (no lost wake-up).  A published request always has someone who will
\* take it: the nudge is still to come or queued, or main is busy and its
\* finally will look at STATE again.
RequestNotLost ==
  state = "REQ_READY" =>
    \/ mpc # "idle"
    \/ wpc = "nudge"
    \/ Nudge \in {queue[i] : i \in 1 .. Len(queue)}
    \/ wpc # "wait"

\* Safety (mutual exclusion on the data SAB, which no lock protects).  While
\* the worker may read or write the buffer, main may do neither.
WorkerOwnsBuffer == wpc \in {"user", "stamp", "publish"} \/ (wpc = "wait" /\ state # waitOn)
MainOwnsBuffer ==
  \/ mpc \in {"fetch", "body", "read"}
  \/ mpc \in {"ackWindow", "ackMsg"} /\ state = "CHUNK_ACK"
  \/ mpc \in {"idle", "fin"} /\ state = "REQ_READY"
BufferExclusion == ~(WorkerOwnsBuffer /\ MainOwnsBuffer)

\* Action property.  A stream that a newer RPC has superseded ends without
\* touching STATE, C_GEN or the buffers (the guard in _reset_idle_if_current).
StaleStreamSilent ==
  [][\A g \in Rpc :
       status[g] = "suspended" /\ status'[g] # "suspended" /\ g < genWord
         => UNCHANGED <<state, genWord, data, queue>>]_vars

\* Refinement.  The two threads, the buffers and the nudges together behave as
\* the blocking RPC channel PySpark is written against (SyncBackend).
Channel == INSTANCE RpcChannel WITH
  started <- call,
  sent <- {g \in Rpc : fetches[g] > 0},
  yielded <- [g \in Rpc |-> Len(got[g])],
  length <- [g \in Rpc |-> total[g]]
ImplementsChannel == Channel!Spec

\* Liveness.  Until the first call times out, every call that blocks the worker
\* returns, also when main is still on the buffer the worker has outgrown.
TimedOut == \E g \in Rpc : status[g] = "timedout"
CallReturnsUntilTimeout == (wpc = "wait" /\ ~TimedOut) ~> (wpc = "user")
=============================================================================
