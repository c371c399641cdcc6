---------------------------- MODULE PythonProofs ----------------------------
(***************************************************************************)
(* The Python that a page runs: its snippets (RunPython), and install()    *)
(* and uninstall() of the library (PatchInstall).                          *)
(*                                                                         *)
(* For any number of snippets that print any number of lines: RunPython    *)
(* keeps its types, and a snippet that had the interpreter to itself gets  *)
(* back its own output.  OwnOutputAlone is not inductive: a promise is     *)
(* settled with what was in a buffer when the reply was posted, and the    *)
(* buffer is what stdout was redirected to while the snippet ran.  IInv    *)
(* follows an id from the inbox to its promise (Stages), and says what     *)
(* stdout and the buffers hold on the way (Output).                        *)
(*                                                                         *)
(* For any builders and any number of calls of install(): pyspark is       *)
(* restored, Pyodide gets no pool of threads, and web and native channels  *)
(* never mix.  PatchInv says what is patched and saved in each of the two  *)
(* states, and that only URLs for grpc-web are marked so.                  *)
(***************************************************************************)
EXTENDS RunPython, PatchInstall, TLAPS

Replies == [type : {"none", "result", "error"}, text : Text]

Types ==
  /\ seq \in 0 .. MaxRuns /\ pending \subseteq 1 .. seq
  /\ settled \in [Runs -> Replies]
  /\ inbox \in Seq(Nat) /\ outbox \in Seq([id : Runs, reply : Replies])
  /\ pyodide \in {"null", "loaded", "failed"}
  /\ running \subseteq pending
  /\ sink \in Runs \cup {Console}
  /\ out \in [Runs -> Text]
  /\ printed \in [Runs -> 0 .. MaxLines] /\ shared \subseteq 1 .. seq

\* Ids leave the inbox in the order the page gave them out.
Handled == seq - Len(inbox)

\* An id waits in the inbox, runs, has a reply on the way, or is settled.
Stages ==
  /\ Len(inbox) <= seq
  /\ \A i \in 1 .. Len(inbox) : inbox[i] = Handled + i /\ inbox[i] \in pending
  /\ running \subseteq 1 .. Handled /\ shared \subseteq 1 .. Handled
  /\ \A i \in 1 .. Len(outbox) :
       /\ outbox[i].id \in pending /\ outbox[i].id <= Handled /\ outbox[i].id \notin running
       /\ \A j \in 1 .. Len(outbox) : outbox[i].id = outbox[j].id => i = j
  /\ \A id \in pending : settled[id].type = "none"
  /\ \A id \in Runs : id > Handled => settled[id].type = "none" /\ out[id] = <<>> /\ printed[id] = 0

\* What snippet id has printed.
Lines(id) == [n \in 1 .. printed[id] |-> <<id, n>>]

\* stdout goes to a snippet that runs; one that runs alone has it to itself,
\* and its buffer and its reply hold what it printed.
Output ==
  /\ sink # Console => sink \in running
  /\ \A id \in running \ shared : running = {id} /\ sink = id
  /\ \A id \in Runs \ shared : out[id] = Lines(id)
  /\ \A i \in 1 .. Len(outbox) :
       outbox[i].id \notin shared /\ outbox[i].reply.type = "result"
         => outbox[i].reply.text = Lines(outbox[i].id)
  /\ OwnOutputAlone

IInv == Types /\ Stages /\ Output

-----------------------------------------------------------------------------
LEMMA Constants ==
  /\ MaxRuns \in Nat /\ Runs \subseteq Nat /\ \A id \in Runs : id # Console
  /\ \A id : id \in Runs <=> id \in Nat /\ 1 <= id /\ id <= MaxRuns
BY RunBounds DEF Runs, Console

LEMMA ReplyTypes ==
  /\ <<>> \in Text /\ Unsettled \in Replies /\ Error \in Replies
  /\ Unsettled.type = "none" /\ Error.type = "error"
  /\ \A t \in Text : Result(t) \in Replies /\ Result(t).type = "result" /\ Result(t).text = t
BY DEF Text, Replies, Unsettled, Error, Result

\* The types of the numbers and of the elements.
LEMMA Basics ==
  ASSUME IInv
  PROVE  /\ seq \in Nat /\ seq <= MaxRuns /\ Len(inbox) \in Nat /\ Len(outbox) \in Nat
         /\ Handled \in Nat /\ Handled <= seq
         /\ pending \subseteq Runs /\ running \subseteq pending /\ shared \subseteq Runs
         /\ \A i \in 1 .. Len(outbox) : /\ outbox[i] \in [id : Runs, reply : Replies]
                                         /\ outbox[i].id \in Runs /\ outbox[i].reply \in Replies
         /\ \A id \in Runs : settled[id] \in Replies /\ out[id] \in Text /\ printed[id] \in Nat
<1>1. seq \in Nat /\ seq <= MaxRuns /\ pending \subseteq Runs /\ shared \subseteq Runs
  <2>1. seq \in 0 .. MaxRuns /\ pending \subseteq 1 .. seq /\ shared \subseteq 1 .. seq
    BY DEF IInv, Types
  <2>2. seq \in Nat /\ seq <= MaxRuns
    BY <2>1, Constants
  <2>3. 1 .. seq \subseteq Runs
    BY <2>2, Constants
  <2> QED
    BY <2>1, <2>2, <2>3
<1>2. Len(inbox) \in Nat /\ Len(outbox) \in Nat
  BY DEF IInv, Types
<1>3. Handled \in Nat /\ Handled <= seq
  BY <1>1, <1>2 DEF Handled, IInv, Stages
<1>4. \A i \in 1 .. Len(outbox) : outbox[i] \in [id : Runs, reply : Replies]
  <2> DEFINE Messages == [id : Runs, reply : Replies]
  <2>1. outbox \in Seq(Messages)
    BY DEF IInv, Types
  <2> HIDE DEF Messages
  <2>2. \A i \in 1 .. Len(outbox) : outbox[i] \in Messages
    BY <2>1
  <2> QED
    BY <2>2 DEF Messages
<1>5. \A id \in Runs : settled[id] \in Replies /\ out[id] \in Text /\ printed[id] \in 0 .. MaxLines
  BY DEF IInv, Types
<1> QED
  BY <1>1, <1>2, <1>3, <1>4, <1>5 DEF IInv, Types

LEMMA InvInit == Init => IInv
<1> SUFFICES ASSUME Init PROVE IInv
  OBVIOUS
<1>1. /\ seq = 0 /\ pending = {} /\ inbox = <<>> /\ outbox = <<>> /\ running = {}
      /\ sink = Console /\ shared = {} /\ pyodide = "null"
      /\ settled = [id \in Runs |-> Unsettled] /\ out = [id \in Runs |-> <<>>]
      /\ printed = [id \in Runs |-> 0]
  BY DEF Init
<1>2. Types
  BY <1>1, RunBounds, ReplyTypes DEF Types
<1>3. Stages
  BY <1>1, ReplyTypes DEF Stages, Handled
<1>4. Output
  BY <1>1, ReplyTypes DEF Output, Lines, OwnOutputAlone, GetsOwnOutput
<1> QED
  BY <1>2, <1>3, <1>4 DEF IInv

\* The page asks for a new snippet.
LEMMA InvRunPython ==
  ASSUME IInv, RunPython
  PROVE  IInv'
<1>1. /\ seq < MaxRuns /\ seq' = seq + 1 /\ pending' = pending \cup {seq + 1}
      /\ inbox' = Append(inbox, seq + 1)
      /\ UNCHANGED <<settled, outbox, pyodide, running, sink, out, printed, shared>>
  BY DEF RunPython, worker
<1>2. inbox \in Seq(Nat) /\ seq \in Nat /\ Len(inbox) \in Nat
  BY Constants DEF IInv, Types
<1>3. Types'
  <2>1. seq' \in 0 .. MaxRuns /\ pending' \subseteq 1 .. seq' /\ shared \subseteq 1 .. seq'
    BY <1>1, <1>2, Constants DEF IInv, Types
  <2>2. inbox' \in Seq(Nat) /\ running' \subseteq pending'
    BY <1>1, <1>2 DEF IInv, Types
  <2> QED
    BY <1>1, <2>1, <2>2 DEF IInv, Types
<1>4. Handled' = Handled /\ Handled \in Nat /\ Handled <= seq
  BY <1>1, <1>2 DEF Handled, IInv, Stages
<1>5. Stages'
  <2>1. Len(inbox') <= seq' /\ \A i \in 1 .. Len(inbox') : inbox'[i] = Handled + i /\ inbox'[i] \in pending'
    <3>1. Len(inbox') = Len(inbox) + 1 /\ inbox'[Len(inbox) + 1] = seq + 1
      BY <1>1, <1>2
    <3>2. \A i \in 1 .. Len(inbox) : inbox'[i] = inbox[i]
      BY <1>1, <1>2
    <3>3. seq + 1 = Handled + Len(inbox) + 1
      BY <1>2 DEF Handled
    <3>4. \A i \in 1 .. Len(inbox') : i \in 1 .. Len(inbox) \/ i = Len(inbox) + 1
      BY <1>2, <3>1
    <3>5. \A i \in 1 .. Len(inbox) : inbox[i] = Handled + i /\ inbox[i] \in pending
      BY DEF IInv, Stages
    <3>6. Len(inbox) <= seq
      BY DEF IInv, Stages
    <3>7. Len(inbox') <= seq'
      BY <1>1, <1>2, <3>1, <3>6
    <3>8. \A i \in 1 .. Len(inbox') : inbox'[i] = Handled + i /\ inbox'[i] \in pending'
      <4>1. seq + 1 \in pending' /\ pending \subseteq pending' /\ inbox'[Len(inbox) + 1] = Handled + (Len(inbox) + 1)
        BY <1>1, <1>2, <1>4, <3>1, <3>3
      <4> QED
        BY <3>1, <3>2, <3>4, <3>5, <4>1
    <3> QED
      BY <3>7, <3>8
  <2>2. settled[seq + 1].type = "none"
    <3>1. seq + 1 \in Runs /\ seq + 1 > Handled
      BY <1>1, <1>2, <1>4, Constants
    <3> QED
      BY <3>1 DEF IInv, Stages
  <2> QED
    BY <1>1, <1>4, <2>1, <2>2 DEF IInv, Stages
<1>6. Output'
  BY <1>1 DEF IInv, Output, Lines, OwnOutputAlone, GetsOwnOutput
<1> QED
  BY <1>3, <1>5, <1>6 DEF IInv

\* The page settles the promise a reply names.
LEMMA InvSettle ==
  ASSUME IInv, Settle
  PROVE  IInv'
<1> DEFINE m == outbox[1]
<1>1. /\ outbox \in Seq([id : Runs, reply : Replies]) /\ outbox # <<>> /\ Len(outbox) >= 1
      /\ m \in [id : Runs, reply : Replies] /\ Head(outbox) = m /\ m.id \in pending
      /\ m.id \in Runs /\ m.reply \in Replies
  <2>1. outbox \in Seq([id : Runs, reply : Replies]) /\ outbox # <<>>
    BY DEF Settle, IInv, Types
  <2>2. Len(outbox) \in Nat /\ Len(outbox) >= 1 /\ Head(outbox) = m
    BY <2>1
  <2>3. m \in [id : Runs, reply : Replies] /\ m.id \in Runs /\ m.reply \in Replies
    BY <2>2, Basics
  <2>4. m.id \in pending
    BY <2>2 DEF IInv, Stages
  <2> QED
    BY <2>1, <2>2, <2>3, <2>4
<1>2. /\ settled' = [settled EXCEPT ![m.id] = m.reply] /\ pending' = pending \ {m.id}
      /\ outbox' = Tail(outbox)
      /\ UNCHANGED <<seq, inbox, pyodide, running, sink, out, printed, shared>>
  BY <1>1 DEF Settle, Forget, worker
<1> HIDE DEF m
<1>3. /\ Len(outbox') = Len(outbox) - 1 /\ outbox' \in Seq([id : Runs, reply : Replies])
      /\ \A i \in 1 .. Len(outbox') : i + 1 \in 1 .. Len(outbox) /\ outbox'[i] = outbox[i + 1]
  BY <1>1, <1>2
<1>4. m.id \notin running /\ m.id <= Handled /\ \A i \in 1 .. Len(outbox') : outbox'[i].id # m.id
  BY <1>1, <1>3 DEF IInv, Stages, m
<1>5. Types'
  BY <1>1, <1>2, <1>3, <1>4 DEF IInv, Types
<1>6. Stages'
  <2>1. Handled' = Handled
    BY <1>2 DEF Handled
  <2>2. \A i \in 1 .. Len(inbox) : inbox[i] # m.id
    <3>1. \A i \in 1 .. Len(inbox) : inbox[i] = Handled + i
      BY DEF IInv, Stages
    <3>2. m.id \in Nat /\ Handled \in Nat
      BY <1>1, Constants, Basics
    <3> QED
      BY <1>4, <3>1, <3>2
  <2>3. \A id \in Runs : id > Handled => settled'[id] = settled[id]
    BY <1>1, <1>2, <1>4, Constants DEF IInv, Types, Handled
  <2>4. \A i \in 1 .. Len(outbox') :
          /\ outbox'[i].id \in pending' /\ outbox'[i].id <= Handled' /\ outbox'[i].id \notin running'
          /\ \A j \in 1 .. Len(outbox') : outbox'[i].id = outbox'[j].id => i = j
    BY <1>2, <1>3, <1>4, <2>1 DEF IInv, Stages
  <2>5. \A id \in pending' : settled'[id].type = "none"
    BY <1>2 DEF IInv, Stages, Types
  <2> QED
    BY <1>2, <2>1, <2>2, <2>3, <2>4, <2>5 DEF IInv, Stages
<1>7. Output'
  <2>1. m.id \notin shared /\ m.reply.type = "result" => m.reply.text = Lines(m.id)
    BY <1>1 DEF IInv, Output, m
  <2>2. \A id \in Runs \ shared : GetsOwnOutput(id)'
    BY <1>1, <1>2, <2>1 DEF IInv, Output, OwnOutputAlone, GetsOwnOutput, Types, Lines
  <2> QED
    BY <1>2, <1>3, <2>2 DEF IInv, Output, OwnOutputAlone, Lines
<1> QED
  BY <1>5, <1>6, <1>7 DEF IInv

\* Pyodide has loaded, or has not.
LEMMA InvBoot ==
  ASSUME IInv, NEW o \in {"loaded", "failed"}, Boot(o)
  PROVE  IInv'
BY DEF Boot, page, IInv, Types, Stages, Handled, Output, Lines, OwnOutputAlone, GetsOwnOutput

\* The first snippet of the inbox, which is new to the worker.
LEMMA FirstOfInbox ==
  ASSUME IInv, inbox # <<>>, inbox' = Tail(inbox), seq' = seq, pending' = pending
  PROVE  /\ Head(inbox) = Handled + 1 /\ Head(inbox) \in Runs /\ Head(inbox) \in pending
         /\ Head(inbox) \notin running /\ Head(inbox) \notin shared
         /\ settled[Head(inbox)].type = "none"
         /\ Handled' = Handled + 1 /\ Handled \in Nat /\ inbox' \in Seq(Nat)
         /\ Len(inbox') <= seq
         /\ \A i \in 1 .. Len(inbox') : inbox'[i] = Handled' + i /\ inbox'[i] \in pending
<1>1. /\ inbox \in Seq(Nat) /\ Len(inbox) \in Nat /\ Len(inbox) >= 1 /\ Head(inbox) = inbox[1]
      /\ Len(inbox') = Len(inbox) - 1 /\ inbox' \in Seq(Nat) /\ seq \in Nat
      /\ \A i \in 1 .. Len(inbox') : i + 1 \in 1 .. Len(inbox) /\ inbox'[i] = inbox[i + 1]
  BY Constants DEF IInv, Types
<1>2. Handled' = Handled + 1 /\ Handled \in Nat /\ Handled + 1 <= seq
  BY <1>1 DEF Handled, IInv, Stages
<1>3. Head(inbox) = Handled + 1 /\ Head(inbox) \in pending
  BY <1>1 DEF IInv, Stages
<1>4. Head(inbox) \in Runs
  BY <1>3, Basics
<1>5. Head(inbox) \notin running /\ Head(inbox) \notin shared /\ settled[Head(inbox)].type = "none"
  BY <1>2, <1>3 DEF IInv, Stages
<1>6. \A i \in 1 .. Len(inbox') : inbox'[i] = Handled' + i /\ inbox'[i] \in pending
  BY <1>1, <1>2 DEF IInv, Stages
<1>7. Len(inbox') <= seq
  BY <1>1 DEF IInv, Stages
<1> QED
  BY <1>1, <1>2, <1>3, <1>4, <1>5, <1>6, <1>7

\* A snippet starts: its buffer is empty, and it is alone or shares stdout.
LEMMA InvStartRun ==
  ASSUME IInv, StartRun
  PROVE  IInv'
<1> DEFINE h == Head(inbox)
<1>1. /\ inbox # <<>> /\ inbox' = Tail(inbox) /\ sink' = h /\ running' = running \cup {h}
      /\ shared' = IF running = {} THEN shared ELSE shared \cup running'
      /\ UNCHANGED <<seq, pending, settled, outbox, pyodide, out, printed>>
  BY DEF StartRun, Buffer, page
<1>2. /\ h = Handled + 1 /\ h \in Runs /\ h \in pending /\ h \notin running /\ h \notin shared
      /\ Handled' = Handled + 1 /\ Handled \in Nat /\ inbox' \in Seq(Nat) /\ Len(inbox') <= seq
      /\ \A i \in 1 .. Len(inbox') : inbox'[i] = Handled' + i /\ inbox'[i] \in pending
  BY <1>1, FirstOfInbox
<1> HIDE DEF h
<1>3. Types'
  BY <1>1, <1>2 DEF IInv, Types
<1>4. Stages'
  <2>1. running' \subseteq 1 .. Handled' /\ shared' \subseteq 1 .. Handled'
    BY <1>1, <1>2 DEF IInv, Stages
  <2>2. \A i \in 1 .. Len(outbox) : outbox[i].id # h
    BY <1>2 DEF IInv, Stages
  <2>3. \A id \in Runs : id > Handled' => id > Handled
    BY <1>2, Constants
  <2>4. \A i \in 1 .. Len(outbox) : outbox[i].id <= Handled'
    <3>1. \A i \in 1 .. Len(outbox) : outbox[i].id \in Nat /\ outbox[i].id <= Handled
      BY Basics, Constants DEF IInv, Stages
    <3> QED
      BY <1>2, <3>1
  <2> QED
    BY <1>1, <1>2, <2>1, <2>2, <2>3, <2>4 DEF IInv, Stages
<1>5. Output'
  <2>1. \A id \in running' \ shared' : running' = {id} /\ sink' = id
    BY <1>1, <1>2
  <2>2. shared \subseteq shared'
    BY <1>1
  <2>3. OwnOutputAlone'
    BY <1>1, <2>2 DEF IInv, Output, OwnOutputAlone, GetsOwnOutput
  <2>4. sink' \in running'
    BY <1>1
  <2>5. (\A id \in Runs \ shared : out[id] = Lines(id))'
    BY <1>1, <2>2 DEF IInv, Output, Lines
  <2>6. (\A i \in 1 .. Len(outbox) :
           outbox[i].id \notin shared /\ outbox[i].reply.type = "result"
             => outbox[i].reply.text = Lines(outbox[i].id))'
    BY <1>1, <2>2 DEF IInv, Output, Lines
  <2> QED
    BY <2>1, <2>3, <2>4, <2>5, <2>6 DEF Output
<1> QED
  BY <1>3, <1>4, <1>5 DEF IInv

\* A reply to a snippet that has been handled and had none.
LEMMA PostReply ==
  ASSUME IInv, NEW id \in Runs, NEW reply \in Replies, outbox' = Reply(id, reply),
         \A i \in 1 .. Len(outbox) : outbox[i].id # id
  PROVE  /\ outbox' \in Seq([id : Runs, reply : Replies]) /\ Len(outbox') = Len(outbox) + 1
         /\ \A i \in 1 .. Len(outbox) : outbox'[i] = outbox[i]
         /\ outbox'[Len(outbox')].id = id /\ outbox'[Len(outbox')].reply = reply
         /\ \A i, j \in 1 .. Len(outbox') : outbox'[i].id = outbox'[j].id => i = j
<1> DEFINE m == [id |-> id, reply |-> reply]
<1>1. m \in [id : Runs, reply : Replies] /\ m.id = id /\ m.reply = reply
  OBVIOUS
<1>2. outbox \in Seq([id : Runs, reply : Replies]) /\ outbox' = Append(outbox, m)
  BY DEF IInv, Types, Reply
<1> HIDE DEF m
<1>3. /\ outbox' \in Seq([id : Runs, reply : Replies]) /\ Len(outbox') = Len(outbox) + 1
      /\ \A i \in 1 .. Len(outbox) : outbox'[i] = outbox[i]
      /\ outbox'[Len(outbox')] = m /\ Len(outbox) \in Nat
  BY <1>1, <1>2
<1>4. \A i, j \in 1 .. Len(outbox') : outbox'[i].id = outbox'[j].id => i = j
  <2> SUFFICES ASSUME NEW i \in 1 .. Len(outbox'), NEW j \in 1 .. Len(outbox'),
                      outbox'[i].id = outbox'[j].id
               PROVE  i = j
    OBVIOUS
  <2>1. CASE i \in 1 .. Len(outbox) /\ j \in 1 .. Len(outbox)
    BY <1>3, <2>1 DEF IInv, Stages
  <2>2. CASE i \notin 1 .. Len(outbox)
    BY <1>1, <1>3, <2>2
  <2>3. CASE j \notin 1 .. Len(outbox)
    BY <1>1, <1>3, <2>3
  <2> QED
    BY <2>1, <2>2, <2>3
<1> QED
  BY <1>1, <1>3, <1>4

\* Without an interpreter the snippet is refused.
LEMMA InvRefuseRun ==
  ASSUME IInv, RefuseRun
  PROVE  IInv'
<1> DEFINE h == Head(inbox)
<1>1. /\ inbox # <<>> /\ inbox' = Tail(inbox) /\ outbox' = Reply(h, Error)
      /\ UNCHANGED <<seq, pending, settled, pyodide, running, sink, out, printed, shared>>
  BY DEF RefuseRun, page, worker
<1>2. /\ h = Handled + 1 /\ h \in Runs /\ h \in pending /\ h \notin running /\ h \notin shared
      /\ Handled' = Handled + 1 /\ Handled \in Nat /\ inbox' \in Seq(Nat) /\ Len(inbox') <= seq
      /\ \A i \in 1 .. Len(inbox') : inbox'[i] = Handled' + i /\ inbox'[i] \in pending
  BY <1>1, FirstOfInbox
<1> HIDE DEF h
<1>3. \A i \in 1 .. Len(outbox) : outbox[i].id # h
  BY <1>2 DEF IInv, Stages
<1>4. /\ outbox' \in Seq([id : Runs, reply : Replies]) /\ Len(outbox') = Len(outbox) + 1
      /\ \A i \in 1 .. Len(outbox) : outbox'[i] = outbox[i]
      /\ outbox'[Len(outbox')].id = h /\ outbox'[Len(outbox')].reply = Error
      /\ \A i, j \in 1 .. Len(outbox') : outbox'[i].id = outbox'[j].id => i = j
  BY <1>1, <1>2, <1>3, ReplyTypes, PostReply
<1>5. Types'
  BY <1>1, <1>2, <1>4 DEF IInv, Types
<1>6. Stages'
  <2>1. \A i \in 1 .. Len(outbox') :
          outbox'[i].id \in pending /\ outbox'[i].id <= Handled' /\ outbox'[i].id \notin running
    <3> SUFFICES ASSUME NEW i \in 1 .. Len(outbox')
                 PROVE  outbox'[i].id \in pending /\ outbox'[i].id <= Handled' /\ outbox'[i].id \notin running
      OBVIOUS
    <3>1. CASE i = Len(outbox')
      BY <1>2, <1>4, <3>1
    <3>2. CASE i # Len(outbox')
      <4>1. i \in 1 .. Len(outbox) /\ outbox'[i] = outbox[i]
        BY <1>4, <3>2 DEF IInv, Types
      <4> QED
        <5>1. outbox[i].id \in Nat /\ outbox[i].id \in pending /\ outbox[i].id <= Handled
              /\ outbox[i].id \notin running
          BY <4>1, Basics, Constants DEF IInv, Stages
        <5> QED
          BY <1>2, <4>1, <5>1
    <3> QED
      BY <3>1, <3>2
  <2>2. \A id \in Runs : id > Handled' => id > Handled
    BY <1>2, Constants
  <2>3. running \subseteq 1 .. Handled' /\ shared \subseteq 1 .. Handled'
    BY <1>2 DEF IInv, Stages
  <2> QED
    BY <1>1, <1>2, <1>4, <2>1, <2>2, <2>3 DEF IInv, Stages
<1>7. Output'
  <2>1. \A i \in 1 .. Len(outbox') :
          outbox'[i].id \notin shared /\ outbox'[i].reply.type = "result"
            => outbox'[i].reply.text = Lines(outbox'[i].id)
    <3>1. \A i \in 1 .. Len(outbox') : i \in 1 .. Len(outbox) \/ i = Len(outbox')
      BY <1>4, Basics
    <3> QED
      BY <1>4, <3>1, ReplyTypes DEF IInv, Output
  <2> QED
    BY <1>1, <2>1 DEF IInv, Output, Lines, OwnOutputAlone, GetsOwnOutput
<1> QED
  BY <1>5, <1>6, <1>7 DEF IInv

\* A line is printed to the buffer of the run stdout goes to.
LEMMA InvPrintLine ==
  ASSUME IInv, NEW id \in Runs, PrintLine(id)
  PROVE  IInv'
<1> DEFINE line == <<id, printed[id] + 1>>
<1>1. /\ id \in running /\ printed[id] < MaxLines
      /\ printed' = [printed EXCEPT ![id] = printed[id] + 1]
      /\ out' = IF sink = Console THEN out ELSE [out EXCEPT ![sink] = Append(out[sink], line)]
      /\ UNCHANGED <<seq, pending, settled, inbox, outbox, pyodide, running, sink, shared>>
  BY DEF PrintLine, page
<1>2. printed[id] + 1 \in 1 .. MaxLines /\ line \in Line /\ printed[id] \in Nat
  BY <1>1, RunBounds DEF IInv, Types, Line
<1> HIDE DEF line
<1>3. Types'
  <2>1. sink # Console => out[sink] \in Text /\ Append(out[sink], line) \in Text
    BY <1>2 DEF IInv, Types, Text
  <2>2. out' \in [Runs -> Text]
    BY <1>1, <2>1 DEF IInv, Types
  <2>3. printed' \in [Runs -> 0 .. MaxLines]
    BY <1>1, <1>2 DEF IInv, Types
  <2> QED
    BY <1>1, <2>2, <2>3 DEF IInv, Types
<1>4. Stages'
  <2>1. Handled' = Handled
    BY <1>1 DEF Handled
  <2>2. \A n \in Runs : n > Handled => n \notin running /\ n # id
    BY <1>1, Constants DEF IInv, Stages, Types, Handled
  <2>3. \A n \in Runs : n > Handled => out'[n] = out[n] /\ printed'[n] = printed[n]
    BY <1>1, <2>2 DEF IInv, Output, Types
  <2> QED
    BY <1>1, <2>1, <2>3 DEF IInv, Stages
<1>5. \A n \in Runs : n # id => Lines(n)' = Lines(n)
  BY <1>1 DEF Lines, IInv, Types
<1>6. \A n \in Runs \ shared : n # id => out'[n] = out[n]
  BY <1>1 DEF IInv, Output, Types
<1>7. id \notin shared => out'[id] = Lines(id)'
  <2> SUFFICES ASSUME id \notin shared PROVE out'[id] = Lines(id)'
    OBVIOUS
  <2>1. sink = id /\ out[id] = Lines(id)
    BY <1>1 DEF IInv, Output
  <2>2. out'[id] = Append(Lines(id), line)
    BY <1>1, <2>1, Constants DEF IInv, Types
  <2>3. Append(Lines(id), line) = [n \in 1 .. printed[id] + 1 |-> <<id, n>>]
    BY <1>2 DEF Lines, line
  <2>4. printed'[id] = printed[id] + 1
    BY <1>1 DEF IInv, Types
  <2> QED
    BY <2>2, <2>3, <2>4 DEF Lines
<1>8. Output'
  <2>1. \A i \in 1 .. Len(outbox) : outbox[i].id \in Runs /\ outbox[i].id # id
    BY <1>1, Basics DEF IInv, Stages
  <2>2. settled[id].type = "none"
    BY <1>1 DEF IInv, Types, Stages
  <2>3. OwnOutputAlone'
    BY <1>1, <1>5, <2>2 DEF IInv, Output, OwnOutputAlone, GetsOwnOutput, Lines
  <2> QED
    BY <1>1, <1>5, <1>6, <1>7, <2>1, <2>3 DEF IInv, Output
<1> QED
  BY <1>3, <1>4, <1>8 DEF IInv

\* A snippet ends, with what its buffer holds or with an error.
LEMMA InvFinish ==
  ASSUME IInv, NEW id \in Runs, NEW reply \in Replies, Finish(id, reply),
         reply.type = "result" => reply.text = out[id]
  PROVE  IInv'
<1>1. /\ id \in running /\ outbox' = Reply(id, reply) /\ running' = running \ {id}
      /\ sink' = Console
      /\ UNCHANGED <<seq, pending, settled, inbox, pyodide, out, printed, shared>>
  BY DEF Finish, page
<1>2. \A i \in 1 .. Len(outbox) : outbox[i].id # id
  BY <1>1 DEF IInv, Stages
<1>3. /\ outbox' \in Seq([id : Runs, reply : Replies]) /\ Len(outbox') = Len(outbox) + 1
      /\ \A i \in 1 .. Len(outbox) : outbox'[i] = outbox[i]
      /\ outbox'[Len(outbox')].id = id /\ outbox'[Len(outbox')].reply = reply
      /\ \A i, j \in 1 .. Len(outbox') : outbox'[i].id = outbox'[j].id => i = j
  BY <1>1, <1>2, PostReply
<1>4. Types'
  BY <1>1, <1>3 DEF IInv, Types
<1>5. Stages'
  <2>1. id \in pending /\ id <= Handled
    BY <1>1 DEF IInv, Types, Stages
  <2>2. \A i \in 1 .. Len(outbox') :
          outbox'[i].id \in pending /\ outbox'[i].id <= Handled /\ outbox'[i].id \notin running'
    <3>1. \A i \in 1 .. Len(outbox') : i \in 1 .. Len(outbox) \/ i = Len(outbox')
      BY <1>3, Basics
    <3> QED
      BY <1>1, <1>3, <2>1, <3>1 DEF IInv, Stages
  <2> QED
    BY <1>1, <1>3, <2>2 DEF IInv, Stages, Handled
<1>6. Output'
  <2>1. id \notin shared /\ reply.type = "result" => reply.text = Lines(id)
    BY DEF IInv, Output
  <2>2. \A i \in 1 .. Len(outbox') :
          outbox'[i].id \notin shared /\ outbox'[i].reply.type = "result"
            => outbox'[i].reply.text = Lines(outbox'[i].id)
    <3>1. \A i \in 1 .. Len(outbox') : i \in 1 .. Len(outbox) \/ i = Len(outbox')
      BY <1>3, Basics
    <3> QED
      BY <1>3, <2>1, <3>1 DEF IInv, Output
  <2>3. running' \subseteq shared
    BY <1>1 DEF IInv, Output
  <2> QED
    BY <1>1, <2>2, <2>3 DEF IInv, Output, Lines, OwnOutputAlone, GetsOwnOutput
<1> QED
  BY <1>4, <1>5, <1>6 DEF IInv

LEMMA InvStep == IInv /\ [Next]_vars => IInv'
<1> SUFFICES ASSUME IInv, [Next]_vars PROVE IInv'
  OBVIOUS
<1>1. ASSUME NEW id \in Runs, FinishRun(id) \/ FailRun(id) PROVE IInv'
  <2>1. out[id] \in Text
    BY DEF IInv, Types
  <2> QED
    BY <1>1, <2>1, ReplyTypes, InvFinish DEF FinishRun, FailRun, Buffer
<1>2. CASE UNCHANGED vars
  <2>1. Types' /\ Stages'
    BY <1>2 DEF vars, page, worker, IInv, Types, Stages, Handled
  <2>2. OwnOutputAlone'
    BY <1>2 DEF vars, page, worker, IInv, Output, OwnOutputAlone, GetsOwnOutput
  <2>3. Output'
    BY <1>2, <2>2 DEF vars, page, worker, IInv, Output, Lines
  <2> QED
    BY <2>1, <2>3 DEF IInv
<1> QED
  BY <1>1, <1>2, InvRunPython, InvSettle, InvBoot, InvStartRun, InvRefuseRun, InvPrintLine DEF Next

LEMMA Invariance == Spec => []IInv
BY InvInit, InvStep, PTL DEF Spec

\* Every variable has its type, and every id on its way is one the page still
\* waits for.
THEOREM TypeCorrect == Spec => []TypeOK
<1>1. IInv => TypeOK
  BY DEF IInv, Types, Stages, Replies, TypeOK
<1> QED
  BY <1>1, Invariance, PTL

\* However many snippets run, fail and overlap: one that had the interpreter to
\* itself gets back what it printed and nothing else.
THEOREM AloneGetsOwnOutput == Spec => []OwnOutputAlone
<1>1. IInv => OwnOutputAlone
  BY DEF IInv, Output
<1> QED
  BY <1>1, Invariance, PTL
-----------------------------------------------------------------------------
(* install() and uninstall().                                              *)

AllPatched == [a \in Attrs |-> 1]

Builder == [url : Urls \cup {"none"}, mark : {"absent", "no", "web"}, link : Links]

\* What is patched and saved, when the library is installed and when not.
States ==
  \/ /\ installed /\ attr = AllPatched /\ poolAttr = (IF emscripten THEN 1 ELSE 0)
     /\ orig = {[attr |-> Native, poolAttr |-> 0]}
     /\ emscripten => pool # "threads"
  \/ /\ ~installed /\ attr = Native /\ poolAttr = 0 /\ orig = {}

NoopIsOurs == pool = "noop" => installed /\ emscripten

Marked(b) ==
  /\ builder[b].mark = "web" => builder[b].url # "native"
  /\ builder[b].link = "web" => builder[b].mark = "web"
  /\ builder[b].link # "mixed"

PatchTypes ==
  /\ supported \in BOOLEAN /\ emscripten \in BOOLEAN /\ installed \in BOOLEAN
  /\ pool \in {"none", "threads", "noop"} /\ installs \in 0 .. MaxInstalls
  /\ builder \in [Builders -> Builder]

PatchInv == PatchTypes /\ States /\ NoopIsOurs /\ \A b \in Builders : Marked(b)

LEMMA PatchInitInv == PatchInit => PatchInv
<1> SUFFICES ASSUME PatchInit PROVE PatchInv
  OBVIOUS
<1>1. PatchTypes
  <2>1. NoBuilder \in Builder
    BY DEF NoBuilder, Builder, Links
  <2>2. 0 \in 0 .. MaxInstalls
    BY InstallBound
  <2> QED
    BY <2>1, <2>2 DEF PatchInit, PatchTypes
<1>2. States /\ NoopIsOurs
  BY DEF PatchInit, States, NoopIsOurs
<1>3. ASSUME NEW b \in Builders PROVE Marked(b)
  BY DEF PatchInit, NoBuilder, Marked
<1> QED
  BY <1>1, <1>2, <1>3 DEF PatchInv

\* What the two calls leave alone.
LEMMA KeepsBuilders ==
  ASSUME \A b \in Builders : Marked(b), UNCHANGED builder PROVE \A b \in Builders : Marked(b)'
BY DEF Marked

LEMMA InstallInv == PatchInv /\ Install => PatchInv'
<1> SUFFICES ASSUME PatchInv, Install PROVE PatchInv'
  OBVIOUS
<1>1. PatchTypes /\ States /\ NoopIsOurs /\ \A b \in Builders : Marked(b)
  BY DEF PatchInv
<1>2. installs' \in 0 .. MaxInstalls
  BY <1>1, InstallBound DEF PatchTypes, Install
<1>3. PatchTypes'
  BY <1>1, <1>2 DEF PatchTypes, Install, PoolAfterInstall
<1>4. States' /\ NoopIsOurs'
  <2>1. CASE MayInstall
    <3>1. /\ orig' = {[attr |-> attr, poolAttr |-> poolAttr]} /\ attr' = [a \in Attrs |-> attr[a] + 1]
          /\ poolAttr' = (IF emscripten THEN poolAttr + 1 ELSE poolAttr)
          /\ pool' = (IF emscripten THEN "none" ELSE pool) /\ installed' = TRUE /\ emscripten' = emscripten
      BY <2>1 DEF Install, PoolAfterInstall
    <3>2. attr = Native /\ poolAttr = 0
      BY <1>1, <2>1 DEF States, MayInstall
    <3>3. attr' = AllPatched
      <4>1. \A a \in Attrs : attr[a] + 1 = 1
        BY <3>2 DEF Native
      <4> QED
        BY <3>1, <4>1 DEF AllPatched
    <3> QED
      BY <1>1, <3>1, <3>2, <3>3 DEF States, NoopIsOurs
  <2>2. CASE ~MayInstall
    BY <1>1, <2>2 DEF Install, States, NoopIsOurs
  <2> QED
    BY <2>1, <2>2
<1> QED
  BY <1>1, <1>3, <1>4, KeepsBuilders DEF PatchInv, Install

LEMMA UninstallInv == PatchInv /\ Uninstall => PatchInv'
<1> SUFFICES ASSUME PatchInv, Uninstall PROVE PatchInv'
  OBVIOUS
<1>1. PatchTypes /\ States /\ NoopIsOurs /\ \A b \in Builders : Marked(b)
  BY DEF PatchInv
<1>2. /\ installed /\ installed' = FALSE /\ orig' = {} /\ pool' = (IF emscripten THEN "none" ELSE pool)
      /\ \E saved \in orig : attr' = saved.attr /\ poolAttr' = saved.poolAttr
      /\ UNCHANGED <<supported, emscripten, installs, builder>>
  BY DEF Uninstall, PoolAfterUninstall
<1>3. attr' = Native /\ poolAttr' = 0
  BY <1>1, <1>2 DEF States
<1>4. PatchTypes'
  BY <1>1, <1>2 DEF PatchTypes
<1>5. States' /\ NoopIsOurs'
  BY <1>1, <1>2, <1>3 DEF States, NoopIsOurs
<1> QED
  BY <1>1, <1>2, <1>4, <1>5, KeepsBuilders DEF PatchInv

\* A builder that changes: the others do not.
LEMMA BuilderInv ==
  ASSUME PatchInv, NEW b \in Builders, NEW new \in Builder, builder' = [builder EXCEPT ![b] = new],
         UNCHANGED <<supported, emscripten, attr, poolAttr, pool, installed, orig, installs>>,
         new.mark = "web" => new.url # "native", new.link = "web" => new.mark = "web", new.link # "mixed"
  PROVE  PatchInv'
<1>1. PatchTypes'
  BY DEF PatchInv, PatchTypes
<1>2. States' /\ NoopIsOurs'
  BY DEF PatchInv, States, NoopIsOurs
<1>3. ASSUME NEW c \in Builders PROVE Marked(c)'
  <2>1. builder'[c] = IF c = b THEN new ELSE builder[c]
    BY DEF PatchInv, PatchTypes
  <2> QED
    BY <2>1 DEF PatchInv, Marked
<1> QED
  BY <1>1, <1>2, <1>3 DEF PatchInv

LEMMA NewBuilderInv ==
  ASSUME PatchInv, NEW b \in Builders, NEW u \in Urls, NewBuilder(b, u) PROVE PatchInv'
<1>1. PICK new : new = [url  |-> u,
                        mark |-> IF ~Patched("init") THEN "absent" ELSE IF u = "native" THEN "no" ELSE "web",
                        link |-> IF ~Patched("init") /\ u = "shorthand" THEN "refused" ELSE "none"]
  OBVIOUS
<1>2. /\ new \in Builder /\ (new.mark = "web" => new.url # "native")
      /\ (new.link = "web" => new.mark = "web") /\ new.link # "mixed"
  BY <1>1 DEF Builder, Links
<1>3. /\ builder' = [builder EXCEPT ![b] = new]
      /\ UNCHANGED <<supported, emscripten, attr, poolAttr, pool, installed, orig, installs>>
  BY <1>1 DEF NewBuilder
<1> QED
  BY <1>2, <1>3, BuilderInv

\* The channel and the stub are patched together or not at all.
LEMMA ConnectInv == ASSUME PatchInv, NEW b \in Builders, Connect(b) PROVE PatchInv'
<1>1. PICK how : how = IF Channel(b) = Stub(Channel(b)) THEN Channel(b) ELSE "mixed"
  OBVIOUS
<1>2. PICK new : new = [builder[b] EXCEPT !.link = how]
  OBVIOUS
<1>3. builder[b] \in Builder /\ Marked(b)
  BY DEF PatchInv, PatchTypes
<1>4. how \in {"native", "web"} /\ (how = "web" => IsWeb(b))
  <2>1. Patched("toChannel") <=> Patched("stub")
    BY DEF PatchInv, States, Patched, AllPatched, Native, Attrs
  <2> QED
    BY <1>1, <2>1 DEF Channel, Stub
<1>5. /\ new \in Builder /\ new.mark = builder[b].mark /\ new.url = builder[b].url /\ new.link = how
  BY <1>2, <1>3, <1>4 DEF Builder, Links
<1>6. /\ builder' = [builder EXCEPT ![b] = new]
      /\ UNCHANGED <<supported, emscripten, attr, poolAttr, pool, installed, orig, installs>>
  BY <1>1, <1>2 DEF Connect
<1>7. /\ new.mark = "web" => new.url # "native"
      /\ new.link = "web" => new.mark = "web"
      /\ new.link # "mixed"
  BY <1>3, <1>4, <1>5 DEF Marked, IsWeb
<1> QED
  BY <1>5, <1>6, <1>7, BuilderInv

LEMMA UsePoolInv == PatchInv /\ UsePool => PatchInv'
<1> SUFFICES ASSUME PatchInv, UsePool PROVE PatchInv'
  OBVIOUS
<1>1. PatchTypes'
  BY DEF PatchInv, PatchTypes, UsePool
<1>2. States' /\ NoopIsOurs'
  BY DEF PatchInv, PatchTypes, States, NoopIsOurs, UsePool
<1> QED
  BY <1>1, <1>2, KeepsBuilders DEF PatchInv, UsePool

LEMMA PatchNextInv == PatchInv /\ [PatchNext]_patch => PatchInv'
<1> SUFFICES ASSUME PatchInv, [PatchNext]_patch PROVE PatchInv'
  OBVIOUS
<1>1. CASE UNCHANGED patch
  BY <1>1 DEF patch, PatchInv, PatchTypes, States, NoopIsOurs, Marked
<1> QED
  BY <1>1, InstallInv, UninstallInv, UsePoolInv, ConnectInv, NewBuilderInv DEF PatchNext

LEMMA PatchInvariance == PatchSpec => []PatchInv
BY PatchInitInv, PatchNextInv, PTL DEF PatchSpec

\* What pyspark, the builders and the pool can be, after any of these calls.
THEOREM PatchTypeCorrect == PatchSpec => []PatchTypeOK
<1>1. ASSUME PatchInv PROVE PatchTypeOK
  <2>1. attr \in [Attrs -> 0 .. 1] /\ poolAttr \in 0 .. 1
    BY <1>1 DEF PatchInv, States, AllPatched, Native
  <2>2. orig \subseteq [attr : [Attrs -> 0 .. 1], poolAttr : 0 .. 1]
    BY <1>1 DEF PatchInv, States, Native
  <2> QED
    BY <1>1, <2>1, <2>2 DEF PatchInv, PatchTypes, Builder, PatchTypeOK
<1> QED
  BY <1>1, PatchInvariance, PTL

\* After any calls of install() and uninstall(), refused and repeated ones
\* included, pyspark is as it came once the library is not installed.
THEOREM PysparkIsRestored == PatchSpec => []Restored
<1>1. PatchInv => Restored
  BY DEF PatchInv, States, NoopIsOurs, Restored
<1> QED
  BY <1>1, PatchInvariance, PTL

\* In Pyodide no iterator gets a pool of threads while the library is in place.
THEOREM NoThreads == PatchSpec => []NoThreadsInPyodide
<1>1. PatchInv => NoThreadsInPyodide
  BY DEF PatchInv, States, NoThreadsInPyodide
<1> QED
  BY <1>1, PatchInvariance, PTL

\* No builder, whenever it was made, gets a channel and a stub that differ, or
\* grpc-web for a URL that did not ask for it.
THEOREM ChannelsNeverMix == PatchSpec => []NeverMixed
<1>1. PatchInv => NeverMixed
  BY DEF PatchInv, Marked, NeverMixed
<1> QED
  BY <1>1, PatchInvariance, PTL
=============================================================================
