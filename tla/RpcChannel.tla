----------------------------- MODULE RpcChannel -----------------------------
(***************************************************************************)
(* What the blocking transport promises PySpark, with no buffer, thread or *)
(* message in it (the SyncBackend protocol, worker/sab_channel.py): a call *)
(* blocks the only Python thread until it has something to return; every   *)
(* request reaches the server at most once and before anything of its      *)
(* response is returned; a stream yields its own chunks 1, 2, 3, ... in    *)
(* order and returns after the last; an exchange abandoned for a newer one *)
(* never yields again.                                                     *)
(***************************************************************************)
EXTENDS Naturals

CONSTANTS
  MaxRpc,   \* bound: RPCs the program starts
  MaxMsg    \* bound: chunks of one response

VARIABLES
  started,   \* RPCs started so far; the latest is the current one
  status,    \* what became of each RPC
  sent,      \* the RPCs whose request the server got
  yielded,   \* how many messages each RPC has returned
  length     \* how many messages each finished response has

rpcVars == <<started, status, sent, yielded, length>>
Rpc == 1 .. MaxRpc

Init ==
  /\ started = 0
  /\ status = [g \in Rpc |-> "new"]
  /\ sent = {}
  /\ yielded = [g \in Rpc |-> 0]
  /\ length = [g \in Rpc |-> 0]

Blocked == \E g \in Rpc : status[g] = "waiting"

\* The current RPC g, in the state s.
Current(g, s) == g = started /\ status[g] = s
Becomes(g, s) == status' = [status EXCEPT ![g] = s]

\* PySpark starts an RPC; the Python thread blocks.
Start(g) ==
  /\ ~Blocked /\ g = started + 1
  /\ started' = g
  /\ Becomes(g, "waiting")
  /\ UNCHANGED <<sent, yielded, length>>

\* The server gets the request of the blocked call, once.
Send(g) ==
  /\ Current(g, "waiting") /\ g \notin sent
  /\ sent' = sent \cup {g}
  /\ UNCHANGED <<started, status, yielded, length>>

\* The last chunk of a response has arrived.
Complete(g, n) ==
  /\ Current(g, "waiting") /\ g \in sent
  /\ n = yielded[g]
  /\ length' = [length EXCEPT ![g] = n]
  /\ UNCHANGED <<started, status, sent, yielded>>

\* A call returns its next message: a unary body, or a chunk a stream yields.
Return(g, s) ==
  /\ Current(g, "waiting") /\ g \in sent
  /\ yielded[g] < MaxMsg
  /\ s = "ok" => yielded[g] = 0
  /\ Becomes(g, s)
  /\ yielded' = [yielded EXCEPT ![g] = @ + 1]
  /\ UNCHANGED <<started, sent, length>>

\* A stream returns: everything it had was yielded.
End(g) ==
  /\ Current(g, "waiting") /\ g \in sent /\ yielded[g] = length[g]
  /\ Becomes(g, "ended")
  /\ UNCHANGED <<started, sent, yielded, length>>

\* A call raises.  Only a call whose request was sent can fail.
Fail(g) ==
  /\ Current(g, "waiting") /\ g \in sent
  /\ Becomes(g, "error")
  /\ UNCHANGED <<started, sent, yielded, length>>

\* next() on a suspended stream blocks again only if it is the current RPC.
Continue(g) ==
  /\ ~Blocked /\ Current(g, "suspended")
  /\ Becomes(g, "waiting")
  /\ UNCHANGED <<started, sent, yielded, length>>

\* A stream is finalised, or resumed after a newer RPC has taken the channel.
Drop(g, s) ==
  /\ status[g] = "suspended" /\ (s = "stale" => g < started)
  /\ Becomes(g, s)
  /\ UNCHANGED <<started, sent, yielded, length>>

Next == \E g \in Rpc :
  \/ Start(g) \/ Send(g) \/ End(g) \/ Fail(g) \/ Continue(g)
  \/ \E n \in 0 .. MaxMsg : Complete(g, n)
  \/ \E s \in {"ok", "suspended"} : Return(g, s)
  \/ \E s \in {"stale", "closed"} : Drop(g, s)

Spec == Init /\ [][Next]_rpcVars
=============================================================================
