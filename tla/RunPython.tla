----------------------------- MODULE RunPython -----------------------------
(***************************************************************************)
(* Running snippets of Python from the page: __pcwRunPython                *)
(* (jupyterlite/run_python_bridge.js, installRunPython) posts the snippet  *)
(* to the worker, whose message handler (worker/worker_bootstrap.js)       *)
(* captures the interpreter's stdout while it runs and posts it back.      *)
(* The handler is async: while Pyodide's event loop runs one snippet, the  *)
(* worker may take the next message.  There is one interpreter, and one    *)
(* stdout, for all of them.                                                *)
(*                                                                         *)
(* A snippet runs in stretches between awaits; a stretch prints one line   *)
(* or none.  The n-th line of snippet id is the pair <<id, n>>.            *)
(***************************************************************************)
EXTENDS Naturals, Sequences

CONSTANTS
  MaxRuns,     \* bound: snippets the page runs
  MaxLines     \* bound: lines one snippet prints

ASSUME RunBounds == MaxRuns \in Nat \ {0} /\ MaxLines \in Nat

VARIABLES
  seq,       \* page: the id of the last snippet
  pending,   \* page: the ids whose promise is not settled
  settled,   \* page: what each promise was settled with
  inbox,     \* messages from the page the worker has not handled
  outbox,    \* messages from the worker the page has not handled
  pyodide,   \* worker: "null", "loaded" or "failed" to load
  running,   \* worker: the snippets whose coroutine has not finished
  sink,      \* worker: the run whose buffer stdout goes to (0: the console)
  out,       \* worker: the buffer of each run
  printed,   \* history: lines each snippet has printed
  shared     \* history: the snippets that ran while another did

page   == <<seq, pending, settled>>
worker == <<pyodide, running, sink, out, printed, shared>>
vars   == <<page, inbox, outbox, worker>>

Runs     == 1 .. MaxRuns
Console  == 0
Unsettled == [type |-> "none", text |-> <<>>]
Result(text) == [type |-> "result", text |-> text]
Error    == [type |-> "error", text |-> <<>>]

Init ==
  /\ seq = 0 /\ pending = {} /\ settled = [id \in Runs |-> Unsettled]
  /\ inbox = <<>> /\ outbox = <<>>
  /\ pyodide = "null" /\ running = {} /\ sink = Console
  /\ out = [id \in Runs |-> <<>>]
  /\ printed = [id \in Runs |-> 0] /\ shared = {}

-----------------------------------------------------------------------------
(* The page.                                                               *)

\* The page need not await one promise before it calls again.
RunPython ==
  /\ seq < MaxRuns
  /\ seq' = seq + 1
  /\ pending' = pending \cup {seq + 1}
  /\ inbox' = Append(inbox, seq + 1)
  /\ UNCHANGED <<settled, outbox, worker>>

\* MUTANT of Forget: settling one promise clears the map.
ForgetAll(id) == {}

Forget(id) == pending \ {id}

\* The listener settles the promise the message names and forgets it.
Settle ==
  /\ outbox # <<>>
  /\ LET id == Head(outbox).id IN
       IF id \in pending
       THEN /\ settled' = [settled EXCEPT ![id] = Head(outbox).reply]
            /\ pending' = Forget(id)
       ELSE UNCHANGED <<settled, pending>>
  /\ outbox' = Tail(outbox)
  /\ UNCHANGED <<seq, inbox, worker>>

-----------------------------------------------------------------------------
(* The worker.                                                             *)

\* boot() loads Pyodide, or fails (pcw_error) and leaves it null.
Boot(outcome) ==
  /\ pyodide = "null"
  /\ pyodide' = outcome
  /\ UNCHANGED <<page, inbox, outbox, running, sink, out, printed, shared>>

\* MUTANT of Buffer: `out` is one variable of the worker.
SharedBuffer(id) == 1

\* The buffer a run captures to: `out` is local to its handler.
Buffer(id) == id

\* MUTANT of Reply: an error is not posted back.
ReplyResult(id, reply) ==
  IF reply = Error THEN outbox ELSE Append(outbox, [id |-> id, reply |-> reply])

Reply(id, reply) == Append(outbox, [id |-> id, reply |-> reply])

\* A pcw_run message: stdout is captured, and the snippet becomes a coroutine
\* on the event loop.
StartRun ==
  /\ inbox # <<>> /\ pyodide = "loaded"
  /\ sink' = Buffer(Head(inbox))
  /\ running' = running \cup {Head(inbox)}
  /\ shared' = IF running = {} THEN shared ELSE shared \cup running'
  /\ inbox' = Tail(inbox)
  /\ UNCHANGED <<page, outbox, pyodide, out, printed>>

\* Without an interpreter setStdout throws, in the try and in the finally.
RefuseRun ==
  /\ inbox # <<>> /\ pyodide # "loaded"
  /\ outbox' = Reply(Head(inbox), Error)
  /\ inbox' = Tail(inbox)
  /\ UNCHANGED <<page, worker>>

\* A stretch of the snippet prints a line to where stdout goes now.
PrintLine(id) ==
  /\ id \in running /\ printed[id] < MaxLines
  /\ printed' = [printed EXCEPT ![id] = @ + 1]
  /\ out' = IF sink = Console THEN out
            ELSE [out EXCEPT ![sink] = Append(@, <<id, printed[id] + 1>>)]
  /\ UNCHANGED <<page, inbox, outbox, pyodide, running, sink, shared>>

\* The snippet ends or raises: the reply is posted, then stdout is reset.
Finish(id, reply) ==
  /\ id \in running
  /\ outbox' = Reply(id, reply)
  /\ running' = running \ {id}
  /\ sink' = Console
  /\ UNCHANGED <<page, inbox, pyodide, out, printed, shared>>

FinishRun(id) == Finish(id, Result(out[Buffer(id)]))
FailRun(id) == Finish(id, Error)

Next ==
  \/ RunPython \/ Settle
  \/ \E o \in {"loaded", "failed"} : Boot(o)
  \/ StartRun \/ RefuseRun
  \/ \E id \in Runs : PrintLine(id) \/ FinishRun(id) \/ FailRun(id)

\* Both event loops run, and every snippet comes to an end.
Fairness ==
  /\ WF_vars(Settle) /\ WF_vars(StartRun \/ RefuseRun)
  /\ \A id \in Runs : WF_vars(FinishRun(id) \/ FailRun(id))

Spec == Init /\ [][Next]_vars
FairSpec == Spec /\ Fairness
-----------------------------------------------------------------------------
Line == Runs \X (1 .. MaxLines)
Text == Seq(Line)

\* Every variable has its type, and every id in transit is pending.
TypeOK ==
  /\ seq \in 0 .. MaxRuns /\ pending \subseteq 1 .. seq
  /\ \A id \in Runs : settled[id].type \in {"none", "result", "error"} /\ settled[id].text \in Text
  /\ \A i \in 1 .. Len(inbox) : inbox[i] \in pending
  /\ \A i \in 1 .. Len(outbox) : outbox[i].id \in pending
  /\ pyodide \in {"null", "loaded", "failed"}
  /\ running \subseteq pending
  /\ sink \in Runs \cup {Console}
  /\ out \in [Runs -> Text]
  /\ printed \in [Runs -> 0 .. MaxLines] /\ shared \subseteq 1 .. seq

GetsOwnOutput(id) == settled[id].type = "result" =>
  settled[id].text = [n \in 1 .. printed[id] |-> <<id, n>>]

\* A snippet that had the interpreter to itself gets back what it printed and
\* nothing else, also after snippets that failed or that overlapped each other
\* ("return its CAPTURED STDOUT", worker/worker_bootstrap.js:134).  A snippet
\* that overlapped another may get the other's.
OwnOutputAlone == \A id \in Runs \ shared : GetsOwnOutput(id)

\* Every call of __pcwRunPython settles its promise, also when Pyodide is not
\* loaded yet or never will be.
EveryRunSettles == \A id \in Runs : (id \in pending) ~> (settled[id].type # "none")
=============================================================================
