---------------------------- MODULE PatchInstall ----------------------------
(***************************************************************************)
(* install() and uninstall() (patch.py): the library replaces three        *)
(* attributes of pyspark, and under Pyodide the release pool of its        *)
(* reattachable iterator, and puts them back.  Builders outlive both: a    *)
(* program may make a channel builder, install or uninstall, and connect   *)
(* with it later.                                                          *)
(*                                                                         *)
(* Every attribute pyspark had is level 0; a replacement made while the    *)
(* attribute was at level n closes over it and is level n + 1, so that     *)
(* patching what is patched shows.                                         *)
(***************************************************************************)
EXTENDS Naturals

CONSTANTS
  Builders,    \* the channel builders the program makes
  MaxInstalls  \* bound: calls of install()

ASSUME InstallBound == MaxInstalls \in Nat

VARIABLES
  supported,   \* is the running pyspark in range?
  emscripten,  \* sys.platform == "emscripten"
  attr,        \* DefaultChannelBuilder.__init__, .toChannel, SparkConnectServiceStub
  poolAttr,    \* _get_or_create_release_thread_pool of the iterator class
  pool,        \* _release_thread_pool_instance: "none", "threads" or "noop"
  installed,   \* _INSTALLED
  orig,        \* _ORIG: attr and poolAttr as they were saved; {} when cleared
  installs,    \* calls of install() so far
  builder      \* what became of each builder

patch == <<supported, emscripten, attr, poolAttr, pool, installed, orig, installs, builder>>

Attrs == {"init", "toChannel", "stub"}
Urls  == {"native",     \* sc:// without transport=grpcweb
          "canonical",  \* sc:// with it
          "shorthand"}  \* http:// or https://
Native == [a \in Attrs |-> 0]
Patched(a) == attr[a] > 0

\* mark is _pcw_web: absent on a builder the native __init__ made.
NoBuilder == [url |-> "none", mark |-> "absent", link |-> "none"]
Links == {"none", "native", "web", "mixed", "refused"}

PatchInit ==
  /\ supported \in BOOLEAN /\ emscripten \in BOOLEAN
  /\ attr = Native /\ poolAttr = 0 /\ pool = "none"
  /\ installed = FALSE /\ orig = {} /\ installs = 0
  /\ builder = [b \in Builders |-> NoBuilder]

-----------------------------------------------------------------------------
\* MUTANT of MayInstall: install() does not look at _INSTALLED.
InstallAgain == supported

\* The version guard comes before the first change.
MayInstall == ~installed /\ supported

\* MUTANT of PoolAfterInstall: a pool that exists is kept.
KeepPool == pool

\* _patch_reattach_pool drops the pool the iterators had.
PoolAfterInstall == IF emscripten THEN "none" ELSE pool

Install ==
  /\ installs < MaxInstalls
  /\ installs' = installs + 1
  /\ IF MayInstall
     THEN /\ orig' = {[attr |-> attr, poolAttr |-> poolAttr]}
          /\ attr' = [a \in Attrs |-> attr[a] + 1]
          /\ poolAttr' = IF emscripten THEN poolAttr + 1 ELSE poolAttr
          /\ pool' = PoolAfterInstall
          /\ installed' = TRUE
     ELSE UNCHANGED <<attr, poolAttr, pool, installed, orig>>
  /\ UNCHANGED <<supported, emscripten, builder>>

PoolAfterUninstall == IF emscripten THEN "none" ELSE pool

Uninstall ==
  /\ installed
  /\ \E saved \in orig : attr' = saved.attr /\ poolAttr' = saved.poolAttr
  /\ pool' = PoolAfterUninstall
  /\ orig' = {} /\ installed' = FALSE
  /\ UNCHANGED <<supported, emscripten, installs, builder>>

-----------------------------------------------------------------------------
(* pyspark, through the attributes as they are now.                        *)

\* A native __init__ refuses a URL that is not sc://; the patched one
\* rewrites it and marks the builder either way.
NewBuilder(b, u) ==
  /\ builder[b] = NoBuilder
  /\ builder' = [builder EXCEPT ![b] =
       [url  |-> u,
        mark |-> IF ~Patched("init") THEN "absent"
                 ELSE IF u = "native" THEN "no" ELSE "web",
        link |-> IF ~Patched("init") /\ u = "shorthand" THEN "refused" ELSE "none"]]
  /\ UNCHANGED <<supported, emscripten, attr, poolAttr, pool, installed, orig, installs>>

\* MUTANT of IsWeb: a builder without a mark is taken for a web one.
WebUnlessMarked(b) == builder[b].mark # "no"

\* patched_to_channel: getattr(self, "_pcw_web", False).
IsWeb(b) == builder[b].mark = "web"

Channel(b) == IF Patched("toChannel") /\ IsWeb(b) THEN "web" ELSE "native"

\* patched_stub_factory tells a WebChannel from a grpc.Channel.
Stub(channel) == IF Patched("stub") THEN channel ELSE "native"

\* SparkConnectClient: toChannel() and the stub of that channel.
Connect(b) ==
  /\ builder[b] # NoBuilder /\ builder[b].link # "refused"
  /\ builder' = [builder EXCEPT ![b].link =
       IF Channel(b) = Stub(Channel(b)) THEN Channel(b) ELSE "mixed"]
  /\ UNCHANGED <<supported, emscripten, attr, poolAttr, pool, installed, orig, installs>>

\* An iterator of a finished query asks for the release pool.
UsePool ==
  /\ pool = "none"
  /\ pool' = IF poolAttr > 0 THEN "noop" ELSE "threads"
  /\ UNCHANGED <<supported, emscripten, attr, poolAttr, installed, orig, installs, builder>>

PatchNext ==
  \/ Install \/ Uninstall \/ UsePool
  \/ \E b \in Builders : Connect(b) \/ \E u \in Urls : NewBuilder(b, u)

PatchSpec == PatchInit /\ [][PatchNext]_patch
-----------------------------------------------------------------------------
\* Every variable has its type.
PatchTypeOK ==
  /\ supported \in BOOLEAN /\ emscripten \in BOOLEAN /\ installed \in BOOLEAN
  /\ attr \in [Attrs -> 0 .. 1] /\ poolAttr \in 0 .. 1
  /\ pool \in {"none", "threads", "noop"}
  /\ installs \in 0 .. MaxInstalls
  /\ orig \subseteq [attr : [Attrs -> 0 .. 1], poolAttr : 0 .. 1]
  /\ builder \in [Builders -> [url : Urls \cup {"none"}, mark : {"absent", "no", "web"},
                               link : Links]]

\* After any sequence of install() and uninstall(), also repeated and refused
\* ones, pyspark is as it came when the library is not installed, and the
\* no-op pool is gone ("Restore pyspark to its un-patched state", patch.py:452).
Restored == ~installed => attr = Native /\ poolAttr = 0 /\ pool # "noop"

\* While the library is installed in Pyodide no iterator can get a pool of
\* threads, not even one that was made before install(): a ReleaseExecute run
\* from the pool would re-enter the blocked channel (patch.py:309-319).
NoThreadsInPyodide == emscripten /\ installed => pool # "threads"

\* A WebChannel never reaches the native stub, and a connection is over
\* grpc-web only if its URL asked for it and its builder was made after
\* install(): install() changes no builder that was there before.
NeverMixed == \A b \in Builders :
  /\ builder[b].link # "mixed"
  /\ builder[b].link = "web" => builder[b].url # "native" /\ builder[b].mark = "web"
=============================================================================
