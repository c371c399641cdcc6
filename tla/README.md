# A TLA+ model of pyspark-connect-web

`pyspark-connect-web` runs an unmodified PySpark Spark Connect client inside the
browser: Python runs in Pyodide in a Web Worker, and every gRPC call leaves through
the page's `fetch` as grpc-web. PySpark is synchronous, the browser is not; most of
what can go wrong lies in the code that joins the two. This directory models that
code in TLA+, checks small instances of it with TLC, and proves with TLAPS, for
every value of the bounds, the safety properties of the transport, of its buffer and
its sessions, of the stub, of the recovery of streams, of the page with its kernels and
its snippets, and of the patch, and that the transport implements the channel PySpark
expects.

Paths below are relative to `src/pyspark_connect_web/` unless they say otherwise.

## 1. Inventory

### The parts and how they interact

```
 user's page ── __pcwRunPython ──postMessage──> worker_bootstrap.js ── Pyodide
                                                                          │ PySpark Connect client
                                                                          │   patched by patch.py
                                                                          ▼
                                             WebChannel / GrpcWebStub (transport/grpcweb.py, framing.py)
                                                                          │ SyncBackend: unary, server_stream
                                                                          ▼
                                             _AtomicsBackend (worker/sab_channel.py)
                                                │ Atomics.wait on STATE   ▲ STATE, data SAB
                                   "pcw_sab", "pcw_rpc" messages          │
                                                ▼                         │
                                             Bridge (worker/bridge.js, page main thread) ── fetch ──> Envoy ── Spark
 JupyterLite: coi-serviceworker.js reloads the page once to isolate it; pcw_kernel_bridge.js
              wraps Worker, and gives each kernel a Bridge of its own
 query results: ExecutePlan responses ──> PySpark's reattaching iterator ──> _reassemble
              (arrow/results.py) ──> Arrow batches
```

| Component | State it keeps | Operations | Hard behaviour |
|---|---|---|---|
| Worker backend, `worker/sab_channel.py` `_AtomicsBackend` | control word (STATE, C_GEN), data SAB, `_gen`, a suspended generator for each unfinished stream | `unary`, `server_stream`, `_write_request`, `_wait`, `_reassemble_windows`, growing the SAB, the `finally` of each call | blocks a whole thread on memory another thread writes; generators abandoned and finalised late; timeouts; a buffer replaced under way |
| Page bridge, `worker/bridge.js` `Bridge` | attached views, `_busy`, the body reader | `attach`, `handleRpc`, `_emitMessage`, `_awaitWorker`, `_writeError` | runs between awaits; drops nudges while busy; must notice that the worker gave up |
| grpc-web stub, `transport/grpcweb.py`, `transport/framing.py` | a byte buffer, the trailer seen | the RPCs of the Spark Connect service, framing and its inverse, the status logic | chunk boundaries anywhere; truncation; which end of a stream it reports |
| Result reassembly, `arrow/results.py` | chunks of the current batch, rows so far | `reassemble_record_batches`, conversion to pandas | responses lost or repeated by a recovery |
| Patch, `patch.py` | `_INSTALLED`, `_ORIG`, patched attributes of pyspark, the release pool | `install`, `uninstall`, patched builder, channel and stub factory | repeated and mixed calls; objects made before or outliving the patch |
| Snippet bridge, `jupyterlite/run_python_bridge.js` + message handler of `worker/worker_bootstrap.js` | ids and promises; the interpreter's stdout | `__pcwRunPython`, `pcw_run` | async handlers interleave over one interpreter |
| Kernel page: `jupyterlite/pcw_kernel_bridge.js`, `worker/kernel_bootstrap.py`, the kernel half of `_AtomicsBackend` | the wrapped `Worker`, a `Bridge` for each worker, a SAB announced or not | start and restart a kernel, the isolation check, announce, nudge, listen | a kernel restarted under an RPC; a page reloaded under it |
| `jupyterlite/coi-serviceworker.js` | registration, controller, the flag in `sessionStorage` | register, install, activate, fetch, reload | control, events and the one reload race, in several tabs |
| Reattachable execution: `transport/grpcweb.py`, `worker/sab_channel.py`, `_grpc_shim.py` under PySpark's iterator | the stub's buffer, the generation of the channel | how each call ends; what is asked next | streams superseded by other queries, cut, failed, retried |
| Booting Pyodide in `worker/worker_bootstrap.js` | what is loaded | boot, announce SABs | sequential I/O |
| `_contract.py`, `deploy/`, `scripts/`, `examples/` | none of their own | | static |

**What makes each correct.** *Transport:* every call returns its own response, whole;
no request is sent twice or lost; at no time do both threads have the unlocked buffer;
a stream that was abandoned has no effect later; no call blocks for ever. *Stub:* what
the caller gets does not depend on chunking, and the end that is reported is the one
the bytes justify, because PySpark reattaches after a stop, retries `UNAVAILABLE`
and gives everything else to the user. *Reassembly:* chunks of two batches are never
joined, rows are at their place, a good result is never refused. *Patch:* pyspark is
as it came after `uninstall`, and no thread pool is reachable in Pyodide. *Snippets:*
each promise settles, with the output of its own snippet. *Recovery:* the responses of
each query come once and in order, whatever breaks and whoever takes the channel, and a
cut is never the user's error. *Buffer layout:* requests and messages of every size arrive
byte for byte. *Page:* the script reloads a tab once at most, never under an RPC, and a
kernel that waits has a `Bridge` that will answer it.

The hazards, each at its line and with the properties that guard against it, are
listed in `PROJECT.json`.

## 2. Modules

| Module | Models |
|---|---|
| `SabTransport` | one channel: `_AtomicsBackend` and `Bridge`, step by step |
| `RpcChannel` | the abstract channel (`SyncBackend`) PySpark is written against |
| `MCSabTransport` | `SabTransport` and its invariant, for TLC |
| `SabTransportInv` | the inductive invariant of `SabTransport` |
| `SabTransportProofs` | its proofs, and that it implements `RpcChannel` |
| `Windowing` | the bytes in the data SAB: requests, growth, windows |
| `SabSessions` | several channels in one worker sharing the page's one `Bridge` |
| `GrpcWebStub` | one call of the stub over a chunked, truncated or failing body |
| `ArrowReassembly` | `_reassemble` over a stream with faults |
| `PatchInstall` | `install`, `uninstall` and the patched attributes |
| `RunPython` | the page's snippets and the worker's capture of stdout |
| `StreamRecovery` | queries over one channel whose streams break and supersede each other |
| `ResultStream` | what PySpark promises of a query's result; `StreamRecovery` implements it |
| `CoiServiceWorker` | the script and its service worker in the tabs of a browser |
| `KernelPage` | composes it with the kernels of each page and their bridges |
| `SabSessionsProofs`, `WindowingProofs`, `GrpcWebStubProofs`, `ArrowReassemblyProofs`, `StreamRecoveryProofs`, `KernelPageProofs` | the proofs about the module each is named after |
| `PythonProofs` | the proofs about `RunPython` and `PatchInstall` |

### SabTransport

*State.* `state` and `genWord` are the two control words; `data[b]` is what data SAB
`b` holds; `queue` the posted messages in order. The worker's program counter `wpc`
tells PySpark's code (`"user"`) from the three stores of `_write_request` (`"stamp"`,
`"publish"`, `"nudge"`) and from `Atomics.wait` (`"wait"`). The bridge's `mpc` is the
`await` that `handleRpc` is at: `fetch`, `body` (`arrayBuffer`), `read`
(`reader.read`), the two uses of `_awaitWorker`, and its `finally` (`"fin"`).
`fetches` and `total` are history.

*Actions.* One action is one stretch between two points at which the other thread can
see or change something. The order of stores is the code's: request bytes, `C_GEN`,
`STATE`, nudge. `AckWindow`, `FinishMessage`, `SeeEnd`, `SeeError` are the branches after
`_wait`; `Resume` and `Close` are `next()` and the finalisation of a suspended
generator, with the generation guard; `TimeOut` is `_wait` raising, which leaves STATE
alone in `unary`'s first wait, because that is outside the `try`. On the page, `HandleSab` and
`HandleNudge` are the message handler, `Begin` is `handleRpc` past its guards, `Emit`
writes one window, `Abandoned` is `_awaitWorker` returning false, and `Finally` clears
`_busy` and re-dispatches. `Finally` is a step of its own but the handlers are guarded by
`EventLoop`, since no other handler runs between a `return` and the `finally`; the worker
may.

*Abstractions.* Reading or writing a whole buffer is one step (mutual exclusion,
`BufferExclusion`, says that this loses nothing in the quiet instances). Bytes are
replaced by what they are: request of RPC g, window w of message m of RPC g, or an error.
Empty chunks, which both sides skip, are left out. The kinds of error are one. The size
of windows is a number of windows. `WindowAcked` sees the ack and writes the next window in
one step; a worker that waits for the window does nothing between the two, and what one that
times out there could do is the late store of finding 1. `S_REALLOC_REQ` is declared in the code and never
stored, and is left out.

### RpcChannel

The promise: an RPC is started by the program, sent at most once, yields messages one at
a time in order and then ends, fails, or is dropped; only the newest RPC makes progress.
`ImplementsChannel` in `SabTransport` instantiates it with a refinement mapping: started
is `call`, sent is `fetches > 0`, yielded is the length of `got`.

### SabSessions

`patch.py` gives every session a channel, every channel allocates a control word
(`sab_channel.py:309-320`), and the page has one `Bridge` per worker, which `attach`
moves to the control word that was announced last. The module keeps a STATE for each
channel, and for the bridge the difference between the word it reads (`view`) and the
word its `waitAsync` is `parked` on. `inTurn` is a history variable: the program has not
gone back to a session after it opened the next. `Leave` joins the last store of
`handleRpc` with the load of its `finally`: a request that the worker publishes between the
two is dispatched by its nudge instead, with the same outcome. The start state has the SABs that
`worker_bootstrap.js` announces and that no channel ever uses.

### GrpcWebStub

A frame is known by the offset of its last byte, so that the stub's buffer is the
interval `consumed + 1 .. arrived` and `_take_frame`'s length tests are comparisons of
offsets. `NextChunk(n)` hands over any number of bytes; a stream's generator asks for
more only when no whole frame is left (`Partial`). The channel's end, at any offset, is
`StreamEnds`; a `TransportError` is `StreamFails`. For a unary call the body arrives
before any of it is decoded. `UnaryReturns` follows the order of the code: compressed
frame, partial frame, status, missing message. `SendHeader` puts a `grpc-status` into the
HTTP headers, which come before the body; message frames and a trailer may follow it,
and it need not agree with the trailer. A unary call falls back on it when no trailer
frame arrived (`UnaryStatus`), a stream never sees it. A server may stop sending after any
frame, so that a body without a trailer is either all there is or cut; `ReturnIsJustified`
and `StopIsJustified` say what is known without telling the two apart. Metadata, HTTP
headers other than `grpc-status`, and protobuf are left out.

### ArrowReassembly

The server cuts rows into batches and batches into chunks; `Deliver`, `Lose`, `Repeat`
and `Misdeclare` are what the decoder sees of that. `Decode` is the loop body with its checks in
the code's order. Bytes that are not exactly one batch may be decoded by pyarrow to an
error or to any number of rows. `NumChunks` is 0 when a server leaves out
`num_chunks_in_batch`, and a response declares the rows of its batch or none
(`Declares`); `RowCountAgrees` has the code's `or`.

### PatchInstall

An attribute has a level: 0 as pyspark made it, n + 1 for a replacement that closed over
level n. A builder's `mark` is `_pcw_web`, written by the `__init__` of the time it was
made; `Connect` uses the `toChannel` and the stub of the time it connects. The release
pool, a class attribute of the iterator, is dropped by `_patch_reattach_pool` and by
`uninstall` in Pyodide. The `RLock` makes both operations atomic. The iterator class has
the pool factory itself, as in the supported versions, so that `orig_attr` is never `None`
(`patch.py:457-459`).

### RunPython

`inbox` and `outbox` are the two message queues; `sink` is where `pyodide.setStdout`
points now; `out[id]` is the `out` that is local to one handler. A snippet is a
coroutine: between two of its awaits other handlers run. The page may start a snippet
before the last one has settled; the demo page does (`src/demo/index.html:484` runs one
on each click on a table). `shared` is the set of snippets that ran while another did.

### StreamRecovery and ResultStream

One Python program reads queries (`Op`) in any interleaving, with unary calls between, over
one blocking channel. `stream[o]` is the call of query o: `"lazy"`, since both generators
send their request at the first `next()`; `"open"`; or `"over"`. `owner` is the query whose
call is the channel's newest, which is what `C_GEN` says, and `Superseded` is the
generation guard of a resumed stream. `buffer` is what the stub has received and not
yet handed out. An open call receives whole responses, ends without a trailer
(`StopCut`, `StopSuperseded`), fails (`TransportFails`, `RequestFails`) or gets a trailer
with an error (`Refuse`, `ServerFails`). What PySpark does next is external and follows what
the stub's documentation says of it (`transport/grpcweb.py:380-398`, `430-438`): reattach from
the last response returned after a stop, retry `UNAVAILABLE` up to `Budget` times within
one `next()`, give the rest to the user. Bytes of partial frames are left out, since
`ChunkingIrrelevant` shows that they make no difference.

`ResultStream` knows only the length of each result, what was handed out and the outcome.
`ImplementsResult` is the refinement; its mapping is the identity on these three variables, so
that retries, cuts and reattaching are stutters.

### Windowing

A byte is a digit of a length, or byte number `at` of a document. The data SAB is a
sequence of bytes that keeps what earlier exchanges left in it, so that a byte read
from beyond the message is told from one that belongs to it. `WriteRequest` and
`ReadRequest` are the layout of a request, with the doubling of the buffer; `EmitWindow` is
one iteration of `_emitMessage` with `_writeWindow`, including the `RangeError` that
`handleRpc` turns into an error; `ReadWindow` is `_read_window` and `_reassemble_windows`,
with `parts` the first meta and the payloads joined so far.
Whose turn it is belongs to `SabTransport`; here the sides alternate, and main has the
buffer the worker uses. The constants are scaled: a byte has `Base` values and `META_ZONE`
and the first SAB are a few bytes, so that lengths that need two digits, requests that need
two doublings and messages of three windows are within reach. A SAB is doubled four times
at most (`Doubled`), which is enough for the largest request (`LengthBounds`), and every
length is below `Base` to the fourth, as the four bytes of a length demand.

### CoiServiceWorker and KernelPage

`CoiServiceWorker` has the script in each tab, step by step: the early returns,
`register()` and its resolution, the listener for `controllerchange`, and the reload.
The life cycle of the service worker is the browser's and external: `Install`, `Update`,
`Activate` (`skipWaiting` lets a new version take over at once) and `Claim`
(`clients.claim()`). Whether the host sets the headers itself and whether this browser
isolates a page that has them are chosen in `Init`. A forced reload bypasses the worker.
A change of controller is a queued event, and is lost on a page that has no listener.

`KernelPage` adds the kernels that each page starts, one after the other: `StartKernel`
is the wrapped constructor, which gives every worker its `Bridge`; `Call` is an RPC of
PySpark, with the isolation check, the SAB announced before the first nudge and
`Atomics.wait`; `Listen` is the wrapper's listener with the busy guard of `handleRpc`;
`Answer` the response. A kernel that is terminated in an RPC leaves its bridge busy.
Loading a page ends its kernel, its bridges and its messages. That is the composition:
`AutoReloadIsSafe` is about a step of the script and the state of the kernel.

## 3. Runs

Deadlock is checked in the passing runs of `SabTransport`, where a program that is over
stutters (`Finished`) and nothing else may stop. The other modules model one call, one
stream, one installation history, or a bounded number of snippets, sessions, queries,
exchanges or loads, after which they do stop; `CHECK_DEADLOCK FALSE` is for that end, and
the liveness properties look for stops that should not be.

| Run | Bounds | Question and answer |
|---|---|---|
| `sab_quiet` | 3 RPCs, 2 chunks, 2 windows, no growth, no timeouts | Does every call get its own whole response (`OwnResponse`, `CompleteOnReturn`), is a request sent once (`SentAtMostOnce`), is the buffer exclusive (`BufferExclusion`), does main work only for the blocked call (`ServesTheCaller`), does every call return (`CallReturnsUntilTimeout`), and is `RpcChannel` implemented (`ImplementsChannel`)? Yes. |
| `sab_faults` | 3 RPCs, 1 chunk, 1 window, one growth, each call may time out | Is a published request still one that main will look at (`RequestNotLost`), are superseded streams silent (`StaleStreamSilent`), and does every call return until the first timeout (`CallReturnsUntilTimeout`)? Yes, although the response may be wrong, see findings 1 and 3. |
| `sab_timeout_misdelivery` | 2 RPCs, one may time out | Does `OwnResponse` survive a timeout? No: finding 1. |
| `sessions` | 3 sessions, 4 calls, 2 chunks | Does main do network work only for the session that is blocked, however they are mixed (`ServesTheBlockedSession`)? Is a program that leaves each session for good always heard (`WaitingIsHeard`, `CallReturnsInTurn`)? Yes. |
| `sessions_hang` | 2 sessions, 1 call | Does every call return when sessions are mixed (`CallReturns`)? No: finding 2. |
| `windowing` | 2 exchanges of up to 2 messages; requests from well below the SAB to two doublings; messages of none to three windows; metas below, at and above `META_ZONE` | Do requests and messages arrive byte for byte (`RequestIntact`, `MessageIntact`), can only metadata beyond `META_ZONE` make a message fail (`OnlyBigMetaFails`), and does each message arrive (`MessageArrives`)? Yes. |
| `grpcweb_stub` | 3 frames, payloads of 0 to 2 bytes | For every cut into chunks, truncation and failure: does the caller get what arrived whole, and the end those bytes say (`ChunkingIrrelevant`), is a stop justified (`StopIsJustified`), does a unary call return only a whole message and on the server's word (`ReturnIsJustified`)? Yes; whose word that is, and what it leaves open, is in findings 4 and 12. |
| `stream_recovery` | 2 queries, 3 responses, 3 faults, 1 retry | Do responses come once and in order (`OnceInOrder`), does a query fail only for a reason (`CutsAreInvisible`), does every `next()` return, also when two queries take the channel from each other (`NextReturns`), and is `ResultStream` implemented (`ImplementsResult`)? Yes. |
| `arrow_faults` | 3 batches of 1 or 2 chunks, 0 to 2 rows, 3 faults | Are chunks of two batches never joined after one fault (`NeverMixed`), are decoded batches at their row when the server reports `start_offset` (`RowExact`), and is no good result refused or displaced, also where row counts are left at 0 (`GoodResultAccepted`)? Yes. |
| `patch_install` | 2 builders, 3 installs | Is pyspark restored (`Restored`), is no thread pool reachable (`NoThreadsInPyodide`), do channels and stubs never mix (`NeverMixed`)? Yes. |
| `run_python` | 3 snippets of up to 1 line, overlapping or not | Does each promise settle, also when Pyodide never loads (`EveryRunSettles`), and does a snippet that ran alone get its own output (`OwnOutputAlone`)? Yes. |
| `page_boot` | 2 tabs, 3 loads by the user, 1 update, 2 kernels to a page | Does the script reload a tab once at most (`OneAutoReload`), never under an RPC and only into isolation (`AutoReloadIsSafe`)? Is a page that listens while a worker has yet to take over, or that has a controller already, reloaded (`ListeningEnds`)? Is a parked kernel served (`ParkedIsServed`) and answered (`RpcReturns`)? Yes. A page that listens with a worker that has already claimed its pages is not covered, and may listen for ever: finding 11. |

The type invariants of `SabTransport`, `GrpcWebStub`, `ArrowReassembly`, `PatchInstall`,
`StreamRecovery` and `KernelPage`, and `IInv` of the transport, are proved and no longer
part of a run.

`NeverMixed` stops at one fault because two adjacent responses lost can join chunk 0 of
one batch with chunk 1 of the next: the indices fit, and only pyarrow or the row count can tell.

**Why these bounds are enough.** Three RPCs let one stream be suspended, a second be
abandoned and a third be under way, which is the worst the generation guard has to tell
apart; two chunks and two windows give a first, a following and a last of each, and an
abandonment between them. For the safety of the quiet transport the bounds do not matter
at all, since those properties are proved. Three frames give a frame before, at and
after a cut, and payloads of 0 to 2 bytes give an empty one and one that can itself be
cut; the header of five bytes keeps its true length. Two batches are enough to mix
chunks and a third shows the row offset after that. Three sessions are one more than
finding 2 needs. A snippet that prints one line can already have it stolen, or steal
another's. Two builders allow one made before and one after `install`. Two queries take
the channel from each other, and three responses leave one in the buffer and one on the
server when that happens; three faults use up the one retry and leave one for the other
query. Two tabs let one tab's worker claim the other's page, two kernels are a restart.
The bounds of the sessions, the windows, the stub, the reassembly, the recovery, the page, the
snippets and the patch do not matter for their safety, which is proved.

**Fairness.** `SabTransport!Fairness` and `SabSessions!Fairness`: a thread that can take
a step takes it (the browser schedules a worker that `Atomics.notify` has woken, and
runs the page's event loop and its promise reactions), and every fetch, body and read
settles in the end. The last is an assumption on the network: the bridge clears its
abort timer when the headers have come (`worker/bridge.js:227`), so a body that stays
silent does hang a call. The user's program is not fair: it may keep a stream suspended
for ever. `RunPython!Fairness`: both event loops run and each snippet ends. Boot is not
fair, since Pyodide may never load. `StreamRecovery!Fairness`: a call that was made is
sent, and the network answers it; faults are bounded and not fair. `Windowing`: both
sides take their turns. `KernelPage!FairSpec`: a worker that is being installed
activates and claims, events and messages are handled, and the network answers; users
and registrations are not fair.

## 4. Proofs

| Theorem (module) | Scope |
|---|---|
| `TypeCorrect`, `NoRequestIsLost`: `Spec => []RequestNotLost`, `StaleStreamsAreSilent`: `Spec => StaleStreamSilent` (`SabTransportProofs`) | every value of the constants, with timeouts and growth |
| `RpcsGetTheirOwnResponses`, `ReturnsAreComplete`, `RequestsAreSentAtMostOnce`, `MainServesTheCaller`, `BufferIsExclusive` (`SabTransportProofs`) | all numbers of RPCs, chunks and windows, under `Quiet` |
| `TransportImplementsChannel`: `Spec => ImplementsChannel` (`SabTransportProofs`) | the same |
| `TypeCorrect`, `OnlyTheBlockedIsServed`: `Spec => []ServesTheBlockedSession`, `OneSessionIsHeard`: `Spec => []WaitingIsHeard` (`SabSessionsProofs`) | any number of sessions, calls and chunks |
| `TypeCorrect`, `RequestsAreIntact`: `Spec => []RequestIntact`, `MessagesAreIntact`: `Spec => []MessageIntact`, `SmallMetaFits`: `Spec => []OnlyBigMetaFails` (`WindowingProofs`) | every base and size, all lengths of four digits, up to four doublings |
| `TypeCorrect`, `AloneGetsOwnOutput`: `Spec => []OwnOutputAlone` (`PythonProofs`) | any number of snippets and lines |
| `TypeCorrect`, `ChunksDoNotMatter`, `StopsAreJustified`, `UnaryReturnsAreJustified` (`GrpcWebStubProofs`) | responses of any number of frames of any size, cut into chunks anywhere |
| `TypeCorrect`, `ResponsesComeOnceInOrder`, `CutsStayInvisible`, `RecoveryImplementsResult` (`StreamRecoveryProofs`) | any queries, results of any length, any number of faults and retries |
| `TypeCorrect`, `ReloadsOnce`, `ParkedKernelsAreServed`, `ReloadsAreSafe` (`KernelPageProofs`) | any tabs, loads, updates and kernels |
| `PatchTypeCorrect`, `PysparkIsRestored`, `NoThreads`, `ChannelsNeverMix` (`PythonProofs`) | any builders, any number of installs |
| `TypesOfReassembly`: `Spec => []TypeOK`, `BatchesAreAtTheirRows`: `Spec => []RowExact` (`ArrowReassemblyProofs`) | results of any size, any number of faults |
| `BatchesAreNeverMixed`: `Spec => []NeverMixed`, `GoodResultsAreAccepted`: `Spec => []GoodResultAccepted` (`ArrowReassemblyProofs`) | results of any size; one fault at most, and none (conditions the properties state) |

`Quiet` is `MaxGrow = 0 /\ Timeouts = {}`. It is a hypothesis of the theorems and not an
assumption of the module, and it is needed: findings 1 and 3 are counterexamples without
it. The assumptions on the constants (`BoundsAssumption`, `FrameBounds`,
`RecoveryBounds`, `TabBounds`, `KernelBounds`, `InstallBound`, `ResultBounds`,
`SessionBounds`, `RunBounds`, `WindowBounds`) say that
they are what their comments say: numbers, and `None` no query; `LengthBounds`, that
lengths are 32-bit numbers and that four doublings hold the largest request.

*Types.* `TypeInv` is `TypeOK` with the few facts about counters that make it inductive,
as that main has a window to write when it waits for a window's ack.

*The inductive invariant* `IInv` (`SabTransportInv`). None of the safety properties is
inductive alone: that a message is whole depends on whose request the buffer held when
main read it, that depends on when main may be idle, and this on what an abandoned
stream can still store. `IInv` is a conjunction of named parts: `OneBuffer` (no growth,
so one SAB); `Generations` (`C_GEN` trails `_gen` by at most the stamp, and the status
of an RPC follows both, so that only the newest can be waiting); `WorkerState` (which
STATE is possible at each `wpc`: while Python runs, STATE is IDLE or an unclaimed
chunk); `MainState` (whom main works for, and how many chunks it has read against how
many the caller got); the content of the buffer at each STATE; the windows joined so
far; the pending nudge; and the history variables. `Init => IInv` and one lemma for each
action give `IInv` as an invariant, and each theorem then is a consequence of a few
parts.

*No lost wake-up* needs none of this: `WakeInv` relates STATE, the queue and `mpc` only,
and so holds with timeouts and growth. Neither do *stale streams*: `C_GEN` never passes
the number of the last RPC (`GenerationTrails`), so a stream older than `C_GEN` can
neither be the newest call nor pass the guard of `_reset_idle_if_current`.

*The refinement of the channel.* One lemma for each action of `RpcChannel`:
`WriteRequest` is a start, past `NotBlocked`; the two ways to `Begin` a request are the
send; `FinishMessage` a yield, or the return of a unary call; `SeeEnd` and `SeeError`
the ends; `Resume` goes on with a stream, or drops one that is superseded; `Close` is a
drop; `ReadDone` fixes the length of the response. Everything else, the buffer, the windows, the acks and
the nudges, leaves `Visible` alone. `IInv` gives the guards of the abstract step:
a call that was woken has been sent (`WokenIsSent`), and what it takes next is in
order.

*Sessions* (`SabSessionsProofs`). `ServesTheBlockedSession` follows from which STATE
values only the blocked session's channel can have (`Requests`), from what a suspended
stream pins `main` to (`Suspension`), and from the session that a fetch or read is for
(`Serving`). For `WaitingIsHeard` the order of the messages is what matters: the newest
announcement comes after all the others (`NewestIsLast`), of sessions used in
turn only the newest is suspended or waits (`InNewest`), and while it waits its nudge is the last message
(`NudgeIsLast`) or main has it already (`NewestIsTaken`).

*Buffer* (`WindowingProofs`). The properties say what was read, so `IInv` says what the SAB
holds from the moment one side has written until the other has read: `Holds(s, off,
bytes)`, which `Put` makes true whatever `s` held before (`PutHolds`), also in a SAB that has
just grown. Reading back a number is `ReadNumber`: four
digits make up every number below the fourth power of the base (`Digits`), and reading
back a document is `ReadDoc`: its bytes name it and their positions, so `Parse` takes it
and nothing shorter or longer. `Joined` says that what the worker has is a prefix of the
payload; a window adds the next part (`JoinParts`). The capacity leaves `META_ZONE` bytes
for the meta, so a window that does not fit has a larger one (`Failed`).

*Snippets* (`PythonProofs`). A promise is settled with what was in a buffer when the
reply was posted. `Stages` follows an id from the inbox through its run and its reply
to the promise, and is in one place at a time; `Output` says that stdout goes to a
snippet that runs, and that the buffer, the reply and the promise of one that never
shared the interpreter hold what it printed.

*Rows* (`ArrowReassemblyProofs`). `RowExact` is not inductive: the batch is decoded with the
last of its chunks, but its offset was compared with the first. `DecoderInv` adds that the
first chunk of a batch being joined starts at the row reached, and that each joined chunk is one
the server has cut; the chunk's index then bounds `pending`.
`FaultInv` follows the stream up to its first fault and past it. Without a fault
(`Undisturbed`) the decoder is `InStep`: it has joined exactly what was sent of the last
batch, at the row reached. After one fault (`OneFault`) it is in step again, or holds the
first chunks of one batch while the next response has another index (`Gap`), so that
the response is refused and never joined.

*The stub* (`GrpcWebStubProofs`). While a stream runs, what was consumed ends with some
frame k and what was handed out are the messages among the frames 1 .. k (`Taken`);
`Framed` says that ends of frames grow by a header at least and that a trailer is last.
So the frame at the front of the buffer is k + 1 (`FrontIsNext`), and once no whole
frame is left, the whole frames are exactly 1 .. k (`WholeIsTaken`, `NothingIsLeft`),
which is what the ends are justified by. A unary call decodes what arrived at once:
a trailer among it means that all of it arrived (`TrailerIsLast`), and since ends grow the first frame
is whole if any message is (`PassIsJustified`).

*Recovery* (`StreamRecoveryProofs`). `OnceInOrder` is not inductive: what a query will
be handed is in the buffer, and what follows that is decided by the request the
channel's newest call carried. `Query` adds that delivered and buffered responses are
consecutive, that the owner of the channel continues them (`CallContinues`), and that a
call to a server that does not know the query was preceded by the loss of its first one
(`FailureIsExcused`). For the refinement, every step of `Next` is a step of
`ResultStream` or leaves its variables alone (`NextRefines`).

*Page* (`KernelPageProofs`). A page registers only without the flag and without
isolation, and listens only with the flag (`Script`); so the script's reload needs a
page in which no kernel could park, and leaves a flag behind that makes every later page
return early. A change of controller is queued only when a worker serves (`Changes`), so
the reload goes through it. `Kernel` orders the SAB before the first `rpc` in the
messages of each worker.

*Patch* (`PythonProofs`). There are two states, patched with the originals saved,
and original with nothing saved (`States`); a builder is marked for grpc-web only if its
URL is not a native one (`Marked`).

*Only model-checked:* liveness (`CallReturnsUntilTimeout`, `CallReturnsInTurn`,
`EveryRunSettles`, `NextReturns`, `MessageArrives`, `ListeningEnds`, `RpcReturns`),
which is out of this prover's reach.

## 5. Findings

With a run that shows them; `PROJECT.json` has each at its line, with the sentence of
the code that says otherwise:

1. `OwnResponse` after a timeout: the bridge does not compare the request's `gen` with
   `C_GEN`, so the late response of a timed-out call is delivered to the next one. The
   same late response can replace the next request's `REQ_READY`, after which the
   `finally` finds nothing to dispatch and a later stream without a timeout waits for
   ever; this is why `CallReturnsUntilTimeout` stops at the first timeout.
2. `CallReturns` with two sessions: the bridge looks only at the control word that was
   announced last, so a call on the first session waits for ever.

Met while modelling, without a run of their own:

3. With growth (`MaxGrow = 1`) `ServesTheCaller` fails: main, parked on a suspended
   stream, is woken by STATE before it has handled the announcement of the new SAB, and
   parses the old one (`worker/bridge.js:300`).
4. A streaming response that is all headers ends as a broken connection, and its status
   is lost: `server_stream` drops the headers (`worker/sab_channel.py:553`,
   `transport/grpcweb.py:443`). So does one that has messages and its status in the
   headers: `StopIsJustified` allows a stop whenever no trailer arrived.
5. Two snippets under way at once share one stdout (`worker/worker_bootstrap.js:140`);
   the demo page starts one on each click (`src/demo/index.html:484`). `OwnOutputAlone`
   is about a snippet that ran alone.
6. A declared `row_count` of 0 is taken for "not declared", and its check is skipped
   (`arrow/results.py:139`, `RowCountAgrees`). `GoodResultAccepted` shows that the rows
   of later batches are not displaced by it: they follow what was decoded.
7. An `ExecutePlan` whose request never arrived is retried as a reattach, which the
   server answers with `OPERATION_NOT_FOUND`; `from_call` of the stand-in has no details
   to give, so PySpark does not execute again, and the user sees the error (`Refuse`),
   although `transport/grpcweb.py:430-438` calls the failure retryable.
   `CutsAreInvisible` counts it as an excuse, `"not started"`.
8. Metadata of a first window larger than `META_ZONE`, with a payload that fills the
   window, does not fit and becomes an error (`worker/sab_channel.py:253-257`);
   `OnlyBigMetaFails` shows that nothing smaller does.
9. A worker registered by another tab may claim a page before its own `register()`
   resolves; the script then takes the page for one it cannot help, and it stays without
   isolation until the user reloads it (`jupyterlite/coi-serviceworker.js:43`).
10. The reader of an abandoned stream is not cancelled (`worker/bridge.js:281`), so its
    connection is freed only when it is collected.
11. A page that is loaded past an active worker, by a forced reload, has no controller,
    sets the flag and listens for a `controllerchange` that has been: it listens until a new
    version of the worker comes or the user loads it again
    (`jupyterlite/coi-serviceworker.js:43-53`). `ListeningEnds` does not promise more.
12. A `grpc-status: 0` among the headers vouches for a body without a trailer frame
    (`transport/grpcweb.py:290-293`, `340-341`), so a unary response cut between two frames
    is returned, although the check that follows says of a missing trailer that "its
    absence means the stream was cut" (`transport/grpcweb.py:131-133`); were a trailer
    with an error lost this way, the call would return all the same. The message returned is
    whole, and without that header nothing cut is returned (`ReturnIsJustified`).

## 6. Not modelled, and why

- *Booting Pyodide and its packages* (`worker/worker_bootstrap.js` up to the message
  handler, most of `worker/kernel_bootstrap.py`, the search for the JupyterLite app in
  `jupyterlite/run_python_bridge.js`): sequential I/O. What it announces is in the
  initial states.
- *`__pcwRunPython` in JupyterLite*: it hands snippets to the kernel, which runs one
  execute request at a time; the order is the kernel's.
- *Conversion of Arrow data* (`arrow/results.py` after reassembly, types, time zones,
  `encode_local_relation`): pure functions over pyarrow and pandas, which are external.
- *The static part of `_grpc_shim.py`, `_contract.py`, `deploy/`, `scripts/`,
  `examples/`, workflows*: declarations and configuration of other programs.
- *External, modelled from how the code uses it*: PySpark's reattaching iterator and its
  retries, the Spark server, and the browser's service workers, navigation and events.
- *A body that stays silent* (`worker/bridge.js:227`): the liveness runs assume it away,
  see Fairness.
- *A kernel created before its page wrapped `Worker`* (`worker/kernel_bootstrap.py:62`):
  the order of the scripts is fixed when the site is built.

## 7. Plan

Done: the transport with its abstract channel and proofs; sessions; stub; reassembly;
patch; snippets; the recovery of streams with its abstract specification; the layout of
the buffer; the service worker and the kernels of a page; and proofs of the safety of
all of these.

Left: the composition of `StreamRecovery` with `ArrowReassembly`, the chunks of a batch
over a recovery.
