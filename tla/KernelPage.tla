----------------------------- MODULE KernelPage -----------------------------
(***************************************************************************)
(* The JupyterLite page over coi-serviceworker.js: each page may start     *)
(* kernels, one after the other.  pcw_kernel_bridge.js wraps Worker, so    *)
(* every kernel worker gets a Bridge of its own; the kernel's Python side  *)
(* (_AtomicsBackend with transport "kernel", kernel_bootstrap.py) refuses  *)
(* to connect on a page that is not isolated, and otherwise announces its  *)
(* SAB once, posts "rpc" for each call and parks.  A load of the page, by  *)
(* the user or by the script, ends its kernel.  The exchange itself is     *)
(* SabTransport's: here a call is parked and is answered.                  *)
(***************************************************************************)
EXTENDS CoiServiceWorker, Sequences

CONSTANT MaxKernels   \* bound: kernels that one page starts

ASSUME KernelBounds == MaxKernels \in Nat \ {0}

VARIABLES
  kernel,   \* the kernel of each page: "none", "ready", "parked"
  count,    \* kernels the page has started; the last is the one that runs
  known,    \* that kernel has announced its SAB
  box,      \* messages from the workers to the page
  bridge    \* the Bridge of each worker: whose SAB it has, whose RPC it serves

kernels == <<kernel, count, known, box, bridge>>
vars    == <<coi, kernels>>

NewBridge == [sab |-> 0, busy |-> 0]
NoBridges == [k \in 1 .. MaxKernels |-> NewBridge]

KernelInit ==
  /\ Init
  /\ kernel = All("none") /\ count = All(0) /\ known = All(FALSE)
  /\ box = All(<<>>) /\ bridge = All(NoBridges)

\* What is left of the kernels of a page that is loaded anew: nothing.
Loaded(t) == page[t] # "loading" /\ page'[t] = "loading"
Fresh(v, empty) == [t \in Tab |-> IF Loaded(t) THEN empty ELSE v[t]]

PageStep ==
  /\ CoiNext
  /\ kernel' = Fresh(kernel, "none") /\ count' = Fresh(count, 0) /\ known' = Fresh(known, FALSE)
  /\ box' = Fresh(box, <<>>) /\ bridge' = Fresh(bridge, NoBridges)

-----------------------------------------------------------------------------
\* A kernel starts, or restarts while it runs: new Worker, new Bridge.  A
\* worker that is terminated says nothing more, but what it said is queued.
StartKernel(t) ==
  /\ page[t] \notin {"closed", "loading"} /\ count[t] < MaxKernels
  /\ kernel' = [kernel EXCEPT ![t] = "ready"]
  /\ count' = [count EXCEPT ![t] = @ + 1]
  /\ known' = [known EXCEPT ![t] = FALSE]
  /\ UNCHANGED <<coi, box, bridge>>

\* MUTANT of MayPark: nobody looks at crossOriginIsolated.
ParkAnyway(t) == TRUE

\* crossOriginIsolated, which a worker has from its page.
MayPark(t) == isolated[t]

Post(k, type) == [from |-> k, type |-> type]

\* An RPC of PySpark: sab before the first rpc, and Atomics.wait.
Call(t) ==
  /\ kernel[t] = "ready" /\ MayPark(t)
  /\ box' = [box EXCEPT ![t] = @ \o (IF known[t] THEN <<>> ELSE <<Post(count[t], "sab")>>)
                                  \o <<Post(count[t], "rpc")>>]
  /\ known' = [known EXCEPT ![t] = TRUE]
  /\ kernel' = [kernel EXCEPT ![t] = "parked"]
  /\ UNCHANGED <<coi, count, bridge>>

\* MUTANT of BridgeOf: one Bridge for the workers of a page.
SharedBridge(k) == 1

BridgeOf(k) == k

\* The wrapper's listener.  handleRpc drops a nudge while it is busy.
Listen(t) ==
  LET m == Head(box[t])
      b == BridgeOf(m.from)
      has == bridge[t][b]
  IN  /\ box[t] # <<>>
      /\ box' = [box EXCEPT ![t] = Tail(@)]
      /\ bridge' = [bridge EXCEPT ![t][b] =
           CASE m.type = "sab" -> [has EXCEPT !.sab = m.from]
             [] m.type = "rpc" /\ has.busy = 0 /\ has.sab # 0 -> [has EXCEPT !.busy = has.sab]
             [] OTHER -> has]
      /\ UNCHANGED <<coi, kernel, count, known>>

\* The response reaches the worker, if it still runs.  For a worker that was
\* terminated, _awaitWorker may wait for an ack for ever.
Answer(t, b) ==
  LET k == bridge[t][b].busy
  IN  /\ k # 0 /\ k = count[t] /\ kernel[t] = "parked"
      /\ kernel' = [kernel EXCEPT ![t] = "ready"]
      /\ bridge' = [bridge EXCEPT ![t][b].busy = 0]
      /\ UNCHANGED <<coi, count, known, box>>

KernelStep(t) == Listen(t) \/ \E b \in 1 .. MaxKernels : Answer(t, b)

KernelNext == PageStep \/ \E t \in Tab : StartKernel(t) \/ Call(t) \/ KernelStep(t)

Spec == KernelInit /\ [][KernelNext]_vars

\* The event loop of each page runs, and the network answers.
FairSpec == Spec /\ CoiFairness /\ \A t \in Tab : WF_vars(KernelStep(t))
-----------------------------------------------------------------------------
Message == [from : 1 .. MaxKernels, type : {"sab", "rpc"}]

\* Every variable has its type: a Bridge only knows its own worker, and only
\* kernels that were started have sent anything.
TypeOK ==
  /\ headers \in BOOLEAN /\ capable \in BOOLEAN
  /\ worker \in {"none", "installing", "activating", "active", "updating"}
  /\ page \in [Tab -> {"closed", "loading", "registering", "listening", "settled"}]
  /\ isolated \in [Tab -> BOOLEAN] /\ controlled \in [Tab -> BOOLEAN]
  /\ changed \in [Tab -> BOOLEAN] /\ flag \in [Tab -> BOOLEAN]
  /\ loads \in 0 .. MaxLoads /\ updates \in 0 .. MaxUpdates /\ reloads \in [Tab -> Nat]
  /\ kernel \in [Tab -> {"none", "ready", "parked"}] /\ count \in [Tab -> 0 .. MaxKernels]
  /\ known \in [Tab -> BOOLEAN]
  /\ bridge \in [Tab -> [1 .. MaxKernels -> [sab : Nat, busy : Nat]]]
  /\ \A t \in Tab, b \in 1 .. MaxKernels : bridge[t][b].sab \in {0, b} /\ bridge[t][b].busy \in {0, b}
  /\ box \in [Tab -> Seq(Message)]
  /\ \A t \in Tab : \A i \in 1 .. Len(box[t]) : box[t][i].from <= count[t]

\* An automatic reload takes no page away under an RPC, and it is not in vain:
\* the page that comes is isolated, unless this browser isolates none
\* (coi-serviceworker.js:29-53).
AutoReloadIsSafe == [][\A t \in Tab :
  reloads'[t] # reloads[t] => kernel[t] # "parked" /\ (capable => isolated'[t])]_vars

\* A parked kernel has a Bridge that serves it, or its "rpc" is yet to be
\* handled and finds that Bridge free and with its SAB: restarts of the kernel
\* included.
ParkedIsServed == \A t \in Tab :
  LET k == count[t]
      b == BridgeOf(k)
      has(i, type) == box[t][i] = Post(k, type)
  IN  kernel[t] = "parked" =>
        \/ bridge[t][b].busy = k
        \/ /\ bridge[t][b].busy = 0
           /\ \E i \in 1 .. Len(box[t]) : has(i, "rpc") /\
                (bridge[t][b].sab = k \/ \E j \in 1 .. i - 1 : has(j, "sab"))

\* Liveness.  Every RPC of a kernel returns, or its kernel or page is ended.
RpcReturns == \A t \in Tab : kernel[t] = "parked" ~> kernel[t] # "parked"
=============================================================================
