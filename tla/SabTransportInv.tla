-------------------------- MODULE SabTransportInv --------------------------
(***************************************************************************)
(* The inductive invariant of SabTransport when no request outgrows the    *)
(* data SAB and no call carries a timeout.  TLC checks it on the bounded   *)
(* instance; SabTransportProofs proves it for every bound.                 *)
(***************************************************************************)
EXTENDS SabTransport

\* The scope of the invariant: no larger buffer, no timeout.
Quiet == MaxGrow = 0 /\ Timeouts = {}

\* Where the worker has published request `call` and is not done with it.
InCall == wpc \in {"nudge", "wait"}

\* The message the blocked call is receiving.
NextMsg == Len(got[call]) + 1

\* One data SAB; main attaches it before it takes a request.
OneBuffer ==
  /\ wbuf = 1 /\ mbuf \in {0, 1}
  /\ mpc # "idle" => mbuf = 1
  /\ \A i \in 1 .. Len(queue) : queue[i] = Sab(1) \/ queue[i] = Nudge

\* The generation word follows _gen, and the statuses follow both.
Generations ==
  /\ genWord <= call
  /\ wpc # "stamp" => genWord = call
  /\ wpc = "stamp" => genWord < call
  /\ wpc # "user" => call > 0 /\ status[call] = "waiting"
  /\ \A g \in Rpc :
       /\ status[g] = "new" <=> g > call
       /\ status[g] = "waiting" => g = call /\ wpc # "user"
       /\ status[g] = "suspended" => kind[g] = "stream"
       /\ g > call => got[g] = <<>>
       /\ g = call /\ wpc \in {"stamp", "publish"} => got[g] = <<>>

\* What STATE can be while the worker runs Python, and while it is parked.
WorkerState ==
  /\ wpc \in {"user", "stamp", "publish"} => state \in {"IDLE", "RESP_CHUNK"}
  /\ wpc \in {"user", "stamp", "publish"} => mpc \in {"idle", "fin", "ackMsg"}
  /\ wpc \in {"stamp", "publish"} => data[1] = Request(call)
  /\ InCall => waitOn \in {"REQ_READY", "CHUNK_ACK"} /\ state # "IDLE"
  /\ InCall /\ state \in {"REQ_READY", "CHUNK_ACK"} => state = waitOn
  /\ InCall /\ waitOn = "REQ_READY" => got[call] = <<>> /\ parts = <<>>
  /\ InCall /\ waitOn = "CHUNK_ACK" => wpc = "wait"
  /\ wpc = "user" /\ call > 0 =>
       (status[call] = "suspended" =>
          /\ state = "RESP_CHUNK" /\ mpc = "ackMsg"
          /\ cur = call /\ msg = Len(got[call]))

\* Who main works for, and what it has read.
MainState ==
  /\ mpc \in {"fetch", "body", "read"} =>
       /\ InCall /\ cur = call /\ state = waitOn
       /\ parts = <<>> /\ msg = Len(got[call])
  /\ mpc \in {"fetch", "body"} => waitOn = "REQ_READY"
  /\ mpc \in {"ackWindow", "ackMsg"} => cur > 0 /\ cur <= call
  /\ mpc = "ackWindow" =>
       InCall /\ cur = call /\ win < nwin /\ state \in {"RESP_CHUNK", "CHUNK_ACK"}
  /\ mpc = "ackMsg" => kind[cur] = "stream"
  /\ mpc = "body" => kind[cur] = "unary"
  /\ mpc = "read" => kind[cur] = "stream"

\* A request nobody has taken.
Untaken == InCall /\ state = "REQ_READY" /\ mpc \notin {"fetch", "body", "read"}
Unsent == wpc \in {"stamp", "publish"} \/ Untaken
RequestThere == Untaken => data[1] = Request(call)

\* A response window the worker has not taken is the one it needs next.
WindowThere ==
  InCall /\ state = "RESP_CHUNK" =>
    /\ cur = call /\ msg = NextMsg /\ win = Len(parts) + 1 /\ win <= nwin
    /\ data[1] = Window(call, msg, win, nwin)
    /\ win < nwin => mpc = "ackWindow"
    /\ win = nwin => mpc \in {"ackMsg", "fin", "idle"}
                     /\ (kind[call] = "stream" => mpc = "ackMsg")

\* An ack main has not taken is for the window or the chunk it wrote last.
AckThere ==
  InCall /\ state = "CHUNK_ACK" =>
    /\ cur = call /\ mpc \in {"ackWindow", "ackMsg", "read"}
    /\ mpc = "ackWindow" => win = Len(parts) /\ msg = NextMsg
    /\ mpc # "ackWindow" => parts = <<>> /\ msg = Len(got[call])

\* An end or an error comes only between messages.
EndThere ==
  InCall /\ state \in {"RESP_END", "RESP_ERROR"} =>
    /\ mpc \in {"fin", "idle"} /\ parts = <<>>
    /\ state = "RESP_END" => kind[call] = "stream" /\ total[call] = Len(got[call])

\* Which requests have been sent, and that a unary call has no body yet.
SentOnce ==
  /\ fetches[0] = 0
  /\ \A g \in Rpc : fetches[g] = IF g > call \/ (g = call /\ Unsent) THEN 0 ELSE 1
  /\ InCall /\ kind[call] = "unary" => got[call] = <<>>

\* What the worker has of the message it is receiving.
PartsOK ==
  /\ wpc # "wait" => parts = <<>>
  /\ parts # <<>> =>
       WindowsOf(parts, call, NextMsg) /\ \A i \in 1 .. Len(parts) : parts[i].more

\* The inductive invariant.
IInv ==
  /\ OneBuffer /\ Generations /\ WorkerState /\ MainState
  /\ RequestThere /\ WindowThere /\ AckThere /\ EndThere /\ SentOnce /\ PartsOK
  /\ OwnResponse /\ CompleteOnReturn
=============================================================================
