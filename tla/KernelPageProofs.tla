-------------------------- MODULE KernelPageProofs --------------------------
(***************************************************************************)
(* For any number of tabs, loads, updates and kernels: the page and the    *)
(* service worker keep their types, a tab is reloaded by the script at     *)
(* most once and never under an RPC, and a parked kernel is served.        *)
(*                                                                         *)
(* What makes these inductive: a page registers or listens only where the  *)
(* flag of an earlier reload is not set and isolation is missing (Script); *)
(* a change of controller is queued only once a worker serves (Changes);   *)
(* a kernel parks only in an isolated page, and its Bridge has its SAB or  *)
(* will have it before its "rpc" (Kernel).                                 *)
(***************************************************************************)
EXTENDS KernelPage, TLAPS

Pages == {"closed", "loading", "registering", "listening", "settled"}
Workers == {"none", "installing", "activating", "active", "updating"}

CoiTypes ==
  /\ headers \in BOOLEAN /\ capable \in BOOLEAN /\ worker \in Workers
  /\ page \in [Tab -> Pages]
  /\ isolated \in [Tab -> BOOLEAN] /\ controlled \in [Tab -> BOOLEAN]
  /\ changed \in [Tab -> BOOLEAN] /\ flag \in [Tab -> BOOLEAN]
  /\ loads \in 0 .. MaxLoads /\ updates \in 0 .. MaxUpdates /\ reloads \in [Tab -> Nat]

Script(t) ==
  /\ page[t] = "registering" => ~flag[t] /\ ~isolated[t]
  /\ page[t] = "listening" => flag[t] /\ ~isolated[t]
  /\ reloads[t] <= 1
  /\ reloads[t] # 0 => flag[t] /\ page[t] \notin {"registering", "listening"}

Changes(t) == changed[t] => Serves

CoiInv == CoiTypes /\ \A t \in Tab : Script(t) /\ Changes(t)

\* What a step of the browser or of the script does to tab t.
CoiEffect(t) ==
  /\ isolated'[t] = isolated[t] \/ page'[t] = "loading"
  /\ page'[t] \in {"closed", "loading"} => page'[t] = "loading" \/ page[t] = "closed"
  /\ reloads'[t] # reloads[t] => page[t] = "listening" /\ (capable => isolated'[t])

-----------------------------------------------------------------------------
(* The service worker and the script.                                      *)

LEMMA OneMore == \A m \in Nat : \A n \in 0 .. m : n < m => n + 1 \in 0 .. m
OBVIOUS

LEMMA CoiKeepsTypes == CoiTypes /\ CoiNext => CoiTypes'
<1> SUFFICES ASSUME CoiTypes, CoiNext PROVE CoiTypes'
  OBVIOUS
<1> USE DEF CoiTypes, Pages, Workers
<1>1. CASE Install
  BY <1>1 DEF Install, browser, tabs
<1>2. CASE Update
  <2>1. updates' \in 0 .. MaxUpdates
    BY <1>2, OneMore, TabBounds DEF Update
  <2> QED
    BY <1>2, <2>1 DEF Update, browser, tabs
<1>3. CASE Activate
  BY <1>3 DEF Activate, browser
<1>4. CASE Claim
  BY <1>4 DEF Claim, browser
<1>5. ASSUME NEW t \in Tab, ControllerChange(t) PROVE CoiTypes'
  <2>1. CASE page[t] # "listening"
    BY <1>5, <2>1 DEF ControllerChange, browser
  <2>2. CASE page[t] = "listening"
    <3>1. Load(t, FALSE) /\ reloads' = [reloads EXCEPT ![t] = @ + 1] /\ UNCHANGED <<browser, worker, flag, loads, updates>>
      BY <1>5, <2>2 DEF ControllerChange, Reload
    <3>2. reloads' \in [Tab -> Nat]
      BY <3>1
    <3> QED
      BY <3>1, <3>2 DEF Load, browser
  <2> QED
    BY <2>1, <2>2
<1>6. ASSUME NEW t \in Tab, RunScript(t) PROVE CoiTypes'
  BY <1>6 DEF RunScript, browser
<1>7. ASSUME NEW t \in Tab, Registered(t) PROVE CoiTypes'
  BY <1>7 DEF Registered, HasController, AwaitControl, browser
<1>8. ASSUME NEW t \in Tab, RegisterFails(t) PROVE CoiTypes'
  BY <1>8 DEF RegisterFails, browser
<1>9. ASSUME NEW t \in Tab, NEW bypass \in BOOLEAN, UserLoad(t, bypass) PROVE CoiTypes'
  BY <1>9, TabBounds DEF UserLoad, Load, browser
<1> QED
  BY <1>1, <1>2, <1>3, <1>4, <1>5, <1>6, <1>7, <1>8, <1>9 DEF CoiNext, Takeover

LEMMA CoiStep ==
  ASSUME CoiInv, CoiNext, NEW t \in Tab PROVE Script(t)' /\ Changes(t)' /\ CoiEffect(t)
<1>0. CoiTypes /\ Script(t) /\ Changes(t)
  BY DEF CoiInv
<1> USE DEF CoiTypes, Script, Changes, CoiEffect, Serves, Pages, Workers
<1>1. CASE Install
  BY <1>0, <1>1 DEF Install, browser, tabs
<1>2. CASE Update
  BY <1>0, <1>2 DEF Update, browser, tabs
<1>3. CASE Activate
  BY <1>0, <1>3 DEF Activate, browser
<1>4. CASE Claim
  BY <1>0, <1>4 DEF Claim, browser
<1>5. ASSUME NEW u \in Tab, ControllerChange(u) PROVE Script(t)' /\ Changes(t)' /\ CoiEffect(t)
  BY <1>0, <1>5 DEF ControllerChange, Reload, Load, browser
<1>6. ASSUME NEW u \in Tab, RunScript(u) PROVE Script(t)' /\ Changes(t)' /\ CoiEffect(t)
  BY <1>0, <1>6 DEF RunScript, Leaves, browser
<1>7. ASSUME NEW u \in Tab, Registered(u) PROVE Script(t)' /\ Changes(t)' /\ CoiEffect(t)
  BY <1>0, <1>7 DEF Registered, HasController, AwaitControl, browser
<1>8. ASSUME NEW u \in Tab, RegisterFails(u) PROVE Script(t)' /\ Changes(t)' /\ CoiEffect(t)
  BY <1>0, <1>8 DEF RegisterFails, browser
<1>9. ASSUME NEW u \in Tab, NEW bypass \in BOOLEAN, UserLoad(u, bypass)
      PROVE  Script(t)' /\ Changes(t)' /\ CoiEffect(t)
  BY <1>0, <1>9 DEF UserLoad, Load, browser
<1> QED
  BY <1>1, <1>2, <1>3, <1>4, <1>5, <1>6, <1>7, <1>8, <1>9 DEF CoiNext, Takeover

-----------------------------------------------------------------------------
(* The kernels.                                                            *)

Bridges == [1 .. MaxKernels -> [sab : Nat, busy : Nat]]

KernelTypes ==
  /\ kernel \in [Tab -> {"none", "ready", "parked"}] /\ count \in [Tab -> 0 .. MaxKernels]
  /\ known \in [Tab -> BOOLEAN]
  /\ bridge \in [Tab -> Bridges] /\ box \in [Tab -> Seq(Message)]

\* A Bridge knows its own worker only, and only kernels that started speak.
Own(t) ==
  /\ \A b \in 1 .. MaxKernels : bridge[t][b].sab \in {0, b} /\ bridge[t][b].busy \in {0, b}
  /\ \A i \in 1 .. Len(box[t]) : box[t][i].from <= count[t]

\* The "sab" of kernel k has been handled, or is among the first n messages.
Announced(t, k, n) == bridge[t][k].sab = k \/ \E j \in 1 .. n : box[t][j] = Post(k, "sab")

Waiting(t, k) ==
  /\ bridge[t][k].busy = 0
  /\ \E i \in 1 .. Len(box[t]) : box[t][i] = Post(k, "rpc") /\ Announced(t, k, i - 1)

Kernel(t) ==
  /\ kernel[t] # "none" => count[t] \in 1 .. MaxKernels
  /\ kernel[t] # "none" /\ known[t] => Announced(t, count[t], Len(box[t]))
  /\ kernel[t] = "parked" => isolated[t] /\ (bridge[t][count[t]].busy = count[t] \/ Waiting(t, count[t]))
  /\ page[t] \in {"closed", "loading"} => kernel[t] = "none"

IInv == CoiInv /\ KernelTypes /\ \A t \in Tab : Own(t) /\ Kernel(t)

LEMMA InitInv == KernelInit => IInv
<1> SUFFICES ASSUME KernelInit PROVE IInv
  OBVIOUS
<1>1. CoiTypes
  BY TabBounds DEF KernelInit, Init, All, CoiTypes, Pages, Workers
<1>2. ASSUME NEW t \in Tab PROVE Script(t) /\ Changes(t)
  BY DEF KernelInit, Init, All, Script, Changes
<1>3. KernelTypes
  BY KernelBounds DEF KernelInit, All, KernelTypes, Bridges, NoBridges, NewBridge
<1>4. ASSUME NEW t \in Tab PROVE Own(t) /\ Kernel(t)
  BY DEF KernelInit, Init, All, Own, Kernel, NoBridges, NewBridge
<1> QED
  BY <1>1, <1>2, <1>3, <1>4 DEF IInv, CoiInv

\* A page that is loaded anew has no kernel, and no other page has changed.
LEMMA PageStepInv == ASSUME IInv, PageStep PROVE IInv'
<1>0. CoiInv /\ CoiTypes /\ CoiNext /\ KernelTypes
  BY DEF IInv, CoiInv, PageStep
<1>1. CoiInv'
  <2>1. CoiTypes'
    BY <1>0, CoiKeepsTypes
  <2>2. ASSUME NEW t \in Tab PROVE Script(t)' /\ Changes(t)'
    BY <1>0, CoiStep
  <2> QED
    BY <2>1, <2>2 DEF CoiInv
<1>2. KernelTypes'
  <2>1. NoBridges \in Bridges /\ <<>> \in Seq(Message) /\ 0 \in 0 .. MaxKernels
    BY KernelBounds DEF NoBridges, NewBridge, Bridges
  <2> QED
    BY <1>0, <2>1 DEF KernelTypes, PageStep, Fresh
<1>3. ASSUME NEW t \in Tab PROVE Own(t)' /\ Kernel(t)'
  <2>1. Own(t) /\ Kernel(t) /\ CoiEffect(t)
    BY <1>0, CoiStep DEF IInv
  <2>2. CASE Loaded(t)
    <3>1. /\ kernel'[t] = "none" /\ count'[t] = 0 /\ known'[t] = FALSE /\ box'[t] = <<>>
          /\ bridge'[t] = NoBridges
      BY <2>2 DEF PageStep, Fresh
    <3> QED
      BY <3>1 DEF Own, Kernel, NoBridges, NewBridge
  <2>3. CASE ~Loaded(t)
    <3>1. /\ kernel'[t] = kernel[t] /\ count'[t] = count[t] /\ known'[t] = known[t] /\ box'[t] = box[t]
          /\ bridge'[t] = bridge[t]
      BY <2>3 DEF PageStep, Fresh
    <3>2. Own(t)'
      BY <2>1, <3>1 DEF Own
    <3>3. page'[t] \in {"closed", "loading"} => page[t] \in {"closed", "loading"}
      BY <2>1, <2>3 DEF Loaded, CoiEffect
    <3>4. isolated'[t] = isolated[t] \/ kernel[t] = "none"
      BY <2>1, <2>3 DEF CoiEffect, Loaded, Kernel
    <3> QED
      BY <2>1, <3>1, <3>2, <3>3, <3>4 DEF Kernel, Announced, Waiting
  <2> QED
    BY <2>2, <2>3
<1> QED
  BY <1>1, <1>2, <1>3 DEF IInv

\* What the steps of a kernel keep: the page, and every other page's kernel.
Elsewhere(t) ==
  /\ UNCHANGED coi
  /\ \A u \in Tab : u # t => /\ kernel'[u] = kernel[u] /\ count'[u] = count[u] /\ known'[u] = known[u]
                             /\ bridge'[u] = bridge[u] /\ box'[u] = box[u]

LEMMA KernelStepInv ==
  ASSUME IInv, NEW t \in Tab, Elsewhere(t), KernelTypes', Own(t)', Kernel(t)'
  PROVE  IInv'
<1>1. CoiInv'
  <2>1. CoiTypes'
    BY DEF IInv, CoiInv, Elsewhere, coi, browser, tabs, CoiTypes
  <2>2. ASSUME NEW u \in Tab PROVE Script(u)' /\ Changes(u)'
    BY DEF IInv, CoiInv, Elsewhere, coi, browser, tabs, Script, Changes, Serves
  <2> QED
    BY <2>1, <2>2 DEF CoiInv
<1>2. ASSUME NEW u \in Tab, u # t PROVE Own(u)' /\ Kernel(u)'
  <2>1. Own(u) /\ Kernel(u)
    BY DEF IInv
  <2>2. /\ kernel'[u] = kernel[u] /\ count'[u] = count[u] /\ known'[u] = known[u]
        /\ bridge'[u] = bridge[u] /\ box'[u] = box[u] /\ isolated' = isolated /\ page' = page
    BY <1>2 DEF Elsewhere, coi, tabs
  <2> QED
    BY <2>1, <2>2 DEF Own, Kernel, Announced, Waiting
<1> QED
  BY <1>1, <1>2 DEF IInv

LEMMA StartInv == ASSUME IInv, NEW t \in Tab, StartKernel(t) PROVE IInv'
<1>0. KernelTypes /\ Own(t) /\ Kernel(t)
  BY DEF IInv
<1>1. count[t] \in 0 .. MaxKernels /\ count[t] < MaxKernels /\ MaxKernels \in Nat
  BY <1>0, KernelBounds DEF KernelTypes, StartKernel
<1>2. count[t] + 1 \in 1 .. MaxKernels /\ count[t] + 1 \in 0 .. MaxKernels
  BY <1>1
<1>3. /\ kernel' = [kernel EXCEPT ![t] = "ready"] /\ count' = [count EXCEPT ![t] = count[t] + 1]
      /\ known' = [known EXCEPT ![t] = FALSE]
      /\ UNCHANGED <<coi, box, bridge>> /\ page[t] \notin {"closed", "loading"}
  BY DEF StartKernel
<1>4. KernelTypes'
  BY <1>0, <1>2, <1>3 DEF KernelTypes
<1>5. Elsewhere(t)
  BY <1>0, <1>3 DEF KernelTypes, Elsewhere
<1>6. kernel'[t] = "ready" /\ count'[t] = count[t] + 1 /\ known'[t] = FALSE
  BY <1>0, <1>3 DEF KernelTypes
<1>7. Own(t)'
  <2>1. ASSUME NEW i \in 1 .. Len(box[t]) PROVE box[t][i].from <= count[t] + 1
    <3>1. box[t][i] \in Message
      BY <1>0 DEF KernelTypes
    <3>2. box[t][i].from \in 1 .. MaxKernels /\ box[t][i].from <= count[t]
      BY <1>0, <3>1 DEF Message, Own
    <3> QED
      BY <1>1, <3>2
  <2> QED
    BY <1>0, <1>3, <1>6, <2>1 DEF Own
<1>8. Kernel(t)'
  BY <1>2, <1>3, <1>6 DEF Kernel, coi, tabs
<1> QED
  BY <1>4, <1>5, <1>7, <1>8, KernelStepInv

LEMMA OneElement ==
  ASSUME NEW q \in Seq(Message), NEW a \in Message
  PROVE  /\ q \o <<a>> \in Seq(Message) /\ Len(q \o <<a>>) = Len(q) + 1
         /\ \A i \in 1 .. Len(q) : (q \o <<a>>)[i] = q[i]
         /\ (q \o <<a>>)[Len(q) + 1] = a
<1>1. q \o <<a>> = Append(q, a)
  OBVIOUS
<1> QED
  BY <1>1

LEMMA TwoElements ==
  ASSUME NEW q \in Seq(Message), NEW a \in Message, NEW c \in Message, NEW w, w = q \o <<a>> \o <<c>>
  PROVE  /\ w \in Seq(Message) /\ Len(w) = Len(q) + 2
         /\ \A i \in 1 .. Len(q) : w[i] = q[i]
         /\ w[Len(q) + 1] = a /\ w[Len(q) + 2] = c
<1>1. PICK v : v = q \o <<a>>
  OBVIOUS
<1>2. v \in Seq(Message) /\ Len(v) = Len(q) + 1 /\ (\A i \in 1 .. Len(q) : v[i] = q[i]) /\ v[Len(q) + 1] = a
  BY <1>1, OneElement
<1>3. w = v \o <<c>>
  BY <1>1
<1>4. w \in Seq(Message) /\ Len(w) = Len(v) + 1 /\ (\A i \in 1 .. Len(v) : w[i] = v[i]) /\ w[Len(v) + 1] = c
  BY <1>2, <1>3, OneElement
<1>5. Len(q) \in Nat
  OBVIOUS
<1>6. Len(v) + 1 = Len(q) + 2 /\ Len(q) + 1 \in 1 .. Len(v) /\ \A i \in 1 .. Len(q) : i \in 1 .. Len(v)
  BY <1>2, <1>5
<1> QED
  BY <1>2, <1>4, <1>6

\* The messages that a call posts come after those that were there, the "rpc"
\* last, and the "sab" before it if it is still to be announced.
AfterPost(k, old, new, told) ==
  /\ new \in Seq(Message) /\ Len(new) \in Nat /\ Len(new) >= 1 /\ Len(new) - 1 >= Len(old)
  /\ \A i \in 1 .. Len(old) : new[i] = old[i]
  /\ new[Len(new)] = Post(k, "rpc")
  /\ ~told => Len(new) - 1 >= 1 /\ new[Len(new) - 1] = Post(k, "sab")
  /\ \A i \in 1 .. Len(new) : i \in 1 .. Len(old) \/ new[i].from = k

LEMMA Posted ==
  ASSUME NEW k \in 1 .. MaxKernels, NEW old \in Seq(Message), NEW new, NEW told \in BOOLEAN,
         \/ told /\ new = old \o <<Post(k, "rpc")>>
         \/ ~told /\ new = old \o <<Post(k, "sab")>> \o <<Post(k, "rpc")>>
  PROVE  AfterPost(k, old, new, told)
<1>1. /\ Post(k, "sab") \in Message /\ Post(k, "rpc") \in Message
      /\ Post(k, "sab").from = k /\ Post(k, "rpc").from = k
  BY DEF Post, Message
<1>2. PICK m \in Nat : m = Len(old)
  OBVIOUS
<1>3. CASE told
  <2>2. new = old \o <<Post(k, "rpc")>>
    BY <1>3
  <2>3. /\ new \in Seq(Message) /\ Len(new) = m + 1 /\ new[m + 1] = Post(k, "rpc")
        /\ \A i \in 1 .. m : new[i] = old[i]
    <3>1. PICK rpc : rpc = Post(k, "rpc")
      OBVIOUS
    <3>2. new = old \o <<rpc>> /\ rpc \in Message
      BY <1>1, <2>2, <3>1
    <3>3. /\ old \o <<rpc>> \in Seq(Message) /\ Len(old \o <<rpc>>) = Len(old) + 1
          /\ \A i \in 1 .. Len(old) : (old \o <<rpc>>)[i] = old[i]
          /\ (old \o <<rpc>>)[Len(old) + 1] = rpc
      BY <3>2, OneElement
    <3> QED
      BY <1>2, <3>1, <3>2, <3>3
  <2>4. \A i \in 1 .. m + 1 : i \in 1 .. m \/ i = m + 1
    OBVIOUS
  <2> QED
    BY <1>1, <1>2, <1>3, <2>3, <2>4 DEF AfterPost
<1>4. CASE ~told
  <2>1. new = old \o <<Post(k, "sab")>> \o <<Post(k, "rpc")>>
    BY <1>4
  <2>2. /\ new \in Seq(Message) /\ Len(new) = m + 2 /\ new[m + 1] = Post(k, "sab") /\ new[m + 2] = Post(k, "rpc")
        /\ \A i \in 1 .. m : new[i] = old[i]
    <3>1. PICK sab, rpc : sab = Post(k, "sab") /\ rpc = Post(k, "rpc")
      OBVIOUS
    <3>2. new = old \o <<sab>> \o <<rpc>> /\ sab \in Message /\ rpc \in Message
      BY <1>1, <2>1, <3>1
    <3>3. /\ new \in Seq(Message) /\ Len(new) = Len(old) + 2
          /\ \A i \in 1 .. Len(old) : new[i] = old[i]
          /\ new[Len(old) + 1] = sab /\ new[Len(old) + 2] = rpc
      BY <3>2, TwoElements
    <3> QED
      BY <1>2, <3>1, <3>3, Zenon
  <2>3. \A i \in 1 .. m + 2 : i \in 1 .. m \/ i = m + 1 \/ i = m + 2
    OBVIOUS
  <2>4. (m + 2) - 1 = m + 1
    OBVIOUS
  <2> QED
    BY <1>1, <1>2, <1>4, <2>2, <2>3, <2>4 DEF AfterPost
<1> QED
  BY <1>3, <1>4

LEMMA CallInv == ASSUME IInv, NEW t \in Tab, Call(t) PROVE IInv'
<1>0. KernelTypes /\ Own(t) /\ Kernel(t)
  BY DEF IInv
<1>1. PICK k : k = count[t]
  OBVIOUS
<1>2. PICK old : old = box[t]
  OBVIOUS
<1>3. PICK told \in BOOLEAN : told = known[t]
  BY <1>0 DEF KernelTypes
<1>4. PICK new : new = old \o (IF told THEN <<>> ELSE <<Post(k, "sab")>>) \o <<Post(k, "rpc")>>
  OBVIOUS
<1>5. /\ kernel[t] = "ready" /\ isolated[t] /\ box' = [box EXCEPT ![t] = new]
      /\ known' = [known EXCEPT ![t] = TRUE] /\ kernel' = [kernel EXCEPT ![t] = "parked"]
      /\ UNCHANGED <<coi, count, bridge>>
  BY <1>1, <1>2, <1>3, <1>4 DEF Call, MayPark
<1>6. k \in 1 .. MaxKernels /\ old \in Seq(Message)
  BY <1>0, <1>1, <1>2, <1>5 DEF Kernel, KernelTypes
<1>7. PICK n \in Nat : /\ n = Len(new) /\ n >= 1 /\ n - 1 >= Len(old) /\ new \in Seq(Message)
                       /\ \A i \in 1 .. Len(old) : new[i] = old[i]
                       /\ new[n] = Post(k, "rpc")
                       /\ ~told => n - 1 >= 1 /\ new[n - 1] = Post(k, "sab")
                       /\ \A i \in 1 .. n : i \in 1 .. Len(old) \/ new[i].from = k
  <2>1. AfterPost(k, old, new, told)
    <3>1. \/ told /\ new = old \o <<Post(k, "rpc")>>
          \/ ~told /\ new = old \o <<Post(k, "sab")>> \o <<Post(k, "rpc")>>
      <4>1. old \o <<>> = old
        BY <1>6
      <4> QED
        BY <1>4, <4>1
    <3> QED
      BY <1>6, <3>1, Posted
  <2>2. PICK n \in Nat : n = Len(new)
    BY <2>1 DEF AfterPost
  <2> QED
    BY <2>1, <2>2 DEF AfterPost
<1>8. box'[t] = new /\ known'[t] = TRUE /\ kernel'[t] = "parked" /\ count'[t] = k /\ bridge'[t] = bridge[t]
  BY <1>0, <1>1, <1>5 DEF KernelTypes
<1>9. KernelTypes'
  BY <1>0, <1>5, <1>7 DEF KernelTypes
<1>10. Elsewhere(t)
  BY <1>0, <1>5 DEF KernelTypes, Elsewhere
<1>11. Own(t)'
  <2>1. ASSUME NEW i \in 1 .. n PROVE new[i].from <= k
    <3>1. CASE new[i].from = k
      BY <3>1, <1>6
    <3>2. CASE i \in 1 .. Len(old)
      BY <3>2, <1>0, <1>1, <1>2, <1>7 DEF Own
    <3> QED
      BY <3>1, <3>2, <1>7
  <2> QED
    BY <1>0, <1>7, <1>8, <2>1 DEF Own
<1>12. bridge[t][k].sab = k \/ \E j \in 1 .. n - 1 : new[j] = Post(k, "sab")
  <2>1. CASE told
    <3>1. Announced(t, k, Len(old))
      BY <1>0, <1>1, <1>2, <1>3, <1>5, <2>1 DEF Kernel
    <3>2. Len(old) \in Nat /\ \A j \in 1 .. Len(old) : j \in 1 .. n - 1
      BY <1>6, <1>7
    <3> QED
      BY <3>1, <3>2, <1>2, <1>7 DEF Announced
  <2>2. CASE ~told
    <3>1. n - 1 \in 1 .. n - 1
      BY <2>2, <1>7
    <3> QED
      BY <2>2, <3>1, <1>7
  <2> QED
    BY <2>1, <2>2
<1>13. Announced(t, k, n)' /\ Announced(t, k, n - 1)'
  <2>1. \A j \in 1 .. n - 1 : j \in 1 .. n
    BY <1>7
  <2> QED
    BY <1>8, <1>12, <2>1 DEF Announced
<1>14. bridge[t][k].busy \in {0, k}
  BY <1>0, <1>6 DEF Own
<1>15. bridge'[t][k].busy = k \/ Waiting(t, k)'
  <2>1. n \in 1 .. n
    BY <1>7
  <2> QED
    BY <1>7, <1>8, <1>13, <1>14, <2>1 DEF Waiting
<1>16. Kernel(t)'
  <2>1. page[t] \notin {"closed", "loading"} /\ UNCHANGED <<page, isolated>>
    BY <1>0, <1>5 DEF Kernel, coi, tabs
  <2> QED
    BY <1>5, <1>6, <1>7, <1>8, <1>13, <1>15, <2>1 DEF Kernel
<1> QED
  BY <1>9, <1>10, <1>11, <1>16, KernelStepInv

\* A message handled by its Bridge: what was announced stays announced, and an
\* "rpc" that was waiting is served or waits on.
LEMMA ListenInv == ASSUME IInv, NEW t \in Tab, Listen(t) PROVE IInv'
<1>0. KernelTypes /\ Own(t) /\ Kernel(t)
  BY DEF IInv
<1>1. PICK k : k = count[t]
  OBVIOUS
<1>2. PICK q : q = box[t]
  OBVIOUS
<1>3. PICK m : m = Head(q)
  OBVIOUS
<1>4. q \in Seq(Message) /\ q # <<>> /\ m = q[1] /\ 1 \in 1 .. Len(q) /\ Len(q) \in Nat
  <2>1. q \in Seq(Message) /\ q # <<>>
    BY <1>0, <1>2 DEF KernelTypes, Listen
  <2> QED
    BY <2>1, <1>3
<1>5. m \in Message /\ m.from \in 1 .. MaxKernels /\ m.type \in {"sab", "rpc"}
  <2>1. m \in Message
    BY <1>4
  <2> QED
    BY <2>1 DEF Message
<1>6. PICK b : b = m.from
  OBVIOUS
<1>7. PICK has : has = bridge[t][b]
  OBVIOUS
<1>8. PICK now : now = CASE m.type = "sab" -> [has EXCEPT !.sab = b]
                         [] m.type = "rpc" /\ has.busy = 0 /\ has.sab # 0 -> [has EXCEPT !.busy = has.sab]
                         [] OTHER -> has
  OBVIOUS
<1>9. /\ box' = [box EXCEPT ![t] = Tail(q)] /\ bridge' = [bridge EXCEPT ![t][b] = now]
      /\ UNCHANGED <<coi, kernel, count, known>>
  BY <1>2, <1>3, <1>6, <1>7, <1>8 DEF Listen, BridgeOf
<1>10. /\ has \in [sab : Nat, busy : Nat] /\ has.sab \in {0, b} /\ has.busy \in {0, b} /\ b \in 1 .. MaxKernels
       /\ b # 0 /\ b \in Nat
  BY <1>0, <1>5, <1>6, <1>7, KernelBounds DEF KernelTypes, Bridges, Own
<1>11. /\ now \in [sab : Nat, busy : Nat] /\ now.sab \in {0, b} /\ now.busy \in {0, b}
       /\ has.sab = b => now.sab = b
       /\ m.type = "sab" => now.sab = b /\ now.busy = has.busy
       /\ m.type = "rpc" /\ has.sab = b => now.busy = b
       /\ now.busy = b \/ now.busy = has.busy
  BY <1>5, <1>8, <1>10
<1>12. /\ bridge'[t] = [bridge[t] EXCEPT ![b] = now] /\ bridge[t] \in Bridges
       /\ box'[t] = Tail(q) /\ Tail(q) \in Seq(Message) /\ Len(Tail(q)) = Len(q) - 1
       /\ \A i \in 1 .. Len(q) - 1 : Tail(q)[i] = q[i + 1]
  BY <1>0, <1>4, <1>9 DEF KernelTypes
<1>13. bridge'[t][b] = now /\ \A c \in 1 .. MaxKernels : c # b => bridge'[t][c] = bridge[t][c]
  BY <1>10, <1>12 DEF Bridges
<1>14. KernelTypes'
  <2>1. bridge' \in [Tab -> Bridges]
    <3>1. bridge'[t] \in Bridges
      BY <1>11, <1>12 DEF Bridges
    <3> QED
      BY <1>0, <1>9, <1>12, <3>1 DEF KernelTypes
  <2>2. box' \in [Tab -> Seq(Message)]
    BY <1>0, <1>9, <1>12 DEF KernelTypes
  <2> QED
    BY <1>0, <1>9, <2>1, <2>2 DEF KernelTypes
<1>15. Elsewhere(t)
  BY <1>0, <1>9 DEF KernelTypes, Elsewhere
<1>16. PICK n \in Nat : n = Len(q)
  BY <1>4
<1>17. \A i \in 1 .. n - 1 : i + 1 \in 1 .. n /\ (i + 1) - 1 = i
  OBVIOUS
<1>18. Own(t)'
  <2>1. ASSUME NEW c \in 1 .. MaxKernels PROVE bridge'[t][c].sab \in {0, c} /\ bridge'[t][c].busy \in {0, c}
    BY <1>0, <1>11, <1>13 DEF Own
  <2>2. ASSUME NEW i \in 1 .. n - 1 PROVE Tail(q)[i].from <= count[t]
    BY <1>0, <1>2, <1>12, <1>16, <1>17 DEF Own
  <2> QED
    BY <1>9, <1>12, <1>16, <2>1, <2>2 DEF Own
<1>19. bridge[t][k].sab = k => bridge'[t][k].sab = k
  <2>1. CASE k = b
    BY <2>1, <1>7, <1>11, <1>13
  <2>2. CASE k # b /\ k \in 1 .. MaxKernels
    BY <2>2, <1>13
  <2>3. CASE k \notin 1 .. MaxKernels
    BY <2>3, <1>10, <1>12 DEF Bridges
  <2> QED
    BY <2>1, <2>2, <2>3
<1>20. ASSUME NEW i \in 0 .. n, Announced(t, k, i)
       PROVE  bridge'[t][k].sab = k \/ \E j \in 1 .. i - 1 : Tail(q)[j] = Post(k, "sab")
  <2>1. CASE bridge[t][k].sab = k
    BY <2>1, <1>19
  <2>2. ASSUME NEW j \in 1 .. i, q[j] = Post(k, "sab"), j = 1 PROVE bridge'[t][k].sab = k
    <3>1. m.from = k /\ m.type = "sab"
      BY <1>4, <2>2 DEF Post
    <3> QED
      BY <3>1, <1>6, <1>11, <1>13
  <2>3. ASSUME NEW j \in 1 .. i, q[j] = Post(k, "sab"), j # 1
        PROVE  \E x \in 1 .. i - 1 : Tail(q)[x] = Post(k, "sab")
    <3>1. j - 1 \in 1 .. i - 1 /\ j - 1 \in 1 .. n - 1 /\ (j - 1) + 1 = j
      BY <2>3
    <3> QED
      BY <3>1, <2>3, <1>12, <1>16
  <2> QED
    BY <1>2, <1>20, <2>1, <2>2, <2>3 DEF Announced
<1>21. kernel[t] # "none" /\ known[t] => Announced(t, k, n - 1)'
  <2>1. CASE kernel[t] # "none" /\ known[t]
    <3>1. Announced(t, k, n) /\ n \in 0 .. n
      BY <2>1, <1>0, <1>1, <1>2, <1>16 DEF Kernel
    <3> QED
      BY <3>1, <1>12, <1>20 DEF Announced
  <2> QED
    BY <2>1
<1>22. ASSUME k \in 1 .. MaxKernels, bridge[t][k].busy = k PROVE bridge'[t][k].busy = k
  BY <1>7, <1>11, <1>13, <1>22
<1>23. ASSUME k \in 1 .. MaxKernels, Waiting(t, k) PROVE bridge'[t][k].busy = k \/ Waiting(t, k)'
  <2>1. PICK i \in 1 .. n : q[i] = Post(k, "rpc") /\ Announced(t, k, i - 1) /\ bridge[t][k].busy = 0
    BY <1>2, <1>16, <1>23 DEF Waiting
  <2>2. CASE i = 1
    <3>1. m.from = k /\ m.type = "rpc" /\ b = k
      BY <1>4, <1>6, <2>1, <2>2 DEF Post
    <3>2. bridge[t][k].sab = k
      BY <2>1, <2>2 DEF Announced
    <3> QED
      BY <3>1, <3>2, <1>7, <1>11, <1>13
  <2>3. CASE i # 1
    <3>1. i - 1 \in 0 .. n /\ i - 1 \in 1 .. n - 1 /\ (i - 1) + 1 = i
      BY <2>3
    <3>2. bridge'[t][k].sab = k \/ \E j \in 1 .. (i - 1) - 1 : Tail(q)[j] = Post(k, "sab")
      BY <2>1, <3>1, <1>20
    <3>3. Announced(t, k, (i - 1) - 1)'
      BY <3>2, <1>12 DEF Announced
    <3>4. box'[t][i - 1] = Post(k, "rpc") /\ i - 1 \in 1 .. Len(box'[t])
      BY <2>1, <3>1, <1>12, <1>16
    <3>5. bridge'[t][k].busy = k \/ bridge'[t][k].busy = 0
      BY <2>1, <1>7, <1>11, <1>13, <1>23
    <3> QED
      BY <3>3, <3>4, <3>5 DEF Waiting
  <2> QED
    BY <2>2, <2>3
<1>24. Kernel(t)'
  <2>1. UNCHANGED <<page, isolated>> /\ kernel' = kernel /\ count'[t] = k /\ known' = known
    BY <1>1, <1>9 DEF coi, tabs
  <2>2. Len(box'[t]) = n - 1
    BY <1>12, <1>16
  <2>3. kernel[t] # "none" => k \in 1 .. MaxKernels
    BY <1>0, <1>1 DEF Kernel
  <2>4. kernel[t] = "parked" => isolated[t] /\ (bridge[t][k].busy = k \/ Waiting(t, k))
    BY <1>0, <1>1 DEF Kernel
  <2>5. kernel[t] = "parked" => bridge'[t][k].busy = k \/ Waiting(t, k)'
    BY <2>3, <2>4, <1>22, <1>23
  <2>6. page[t] \in {"closed", "loading"} => kernel[t] = "none"
    BY <1>0 DEF Kernel
  <2> QED
    BY <2>1, <2>2, <2>3, <2>4, <2>5, <2>6, <1>21 DEF Kernel
<1> QED
  BY <1>14, <1>15, <1>18, <1>24, KernelStepInv

LEMMA AnswerInv ==
  ASSUME IInv, NEW t \in Tab, NEW b \in 1 .. MaxKernels, Answer(t, b) PROVE IInv'
<1>0. KernelTypes /\ Own(t) /\ Kernel(t)
  BY DEF IInv
<1>1. /\ kernel[t] = "parked" /\ kernel' = [kernel EXCEPT ![t] = "ready"]
      /\ bridge' = [bridge EXCEPT ![t][b].busy = 0]
      /\ UNCHANGED <<coi, count, known, box>>
  BY DEF Answer
<1>2. bridge[t] \in Bridges /\ bridge[t][b] \in [sab : Nat, busy : Nat]
  BY <1>0 DEF KernelTypes, Bridges
<1>3. PICK now : now = [bridge[t][b] EXCEPT !.busy = 0]
  OBVIOUS
<1>4. now \in [sab : Nat, busy : Nat] /\ now.sab = bridge[t][b].sab /\ now.busy = 0
  BY <1>2, <1>3
<1>5. bridge'[t] = [bridge[t] EXCEPT ![b] = now]
  BY <1>0, <1>1, <1>3 DEF KernelTypes
<1>6. \A c \in 1 .. MaxKernels : bridge'[t][c] = IF c = b THEN now ELSE bridge[t][c]
  BY <1>2, <1>5 DEF Bridges
<1>7. KernelTypes'
  <2>1. bridge'[t] \in Bridges
    BY <1>2, <1>4, <1>5 DEF Bridges
  <2>2. bridge' \in [Tab -> Bridges]
    BY <1>0, <1>1, <2>1 DEF KernelTypes
  <2> QED
    BY <1>0, <1>1, <2>2 DEF KernelTypes
<1>8. Elsewhere(t)
  BY <1>0, <1>1 DEF KernelTypes, Elsewhere
<1>9. Own(t)'
  BY <1>0, <1>1, <1>4, <1>6 DEF Own
<1>10. Kernel(t)'
  <2>1. kernel'[t] = "ready" /\ UNCHANGED <<page, isolated>>
    BY <1>0, <1>1 DEF KernelTypes, coi, tabs
  <2>2. count[t] \in 1 .. MaxKernels
    BY <1>0, <1>1 DEF Kernel
  <2>3. bridge'[t][count[t]].sab = bridge[t][count[t]].sab
    BY <2>2, <1>4, <1>6
  <2> QED
    BY <1>0, <1>1, <2>1, <2>2, <2>3 DEF Kernel, Announced
<1> QED
  BY <1>7, <1>8, <1>9, <1>10, KernelStepInv

-----------------------------------------------------------------------------
LEMMA NextInv == IInv /\ [KernelNext]_vars => IInv'
<1> SUFFICES ASSUME IInv, [KernelNext]_vars PROVE IInv'
  OBVIOUS
<1>1. CASE PageStep
  BY <1>1, PageStepInv
<1>2. ASSUME NEW t \in Tab, StartKernel(t) PROVE IInv'
  BY <1>2, StartInv
<1>3. ASSUME NEW t \in Tab, Call(t) PROVE IInv'
  BY <1>3, CallInv
<1>4. ASSUME NEW t \in Tab, KernelStep(t) PROVE IInv'
  BY <1>4, ListenInv, AnswerInv DEF KernelStep
<1>5. CASE UNCHANGED vars
  <2>1. UNCHANGED <<coi, kernels>>
    BY <1>5 DEF vars
  <2>2. CoiInv'
    BY <2>1 DEF IInv, CoiInv, CoiTypes, Script, Changes, Serves, coi, browser, tabs
  <2>3. KernelTypes'
    BY <2>1 DEF IInv, KernelTypes, kernels
  <2>4. ASSUME NEW t \in Tab PROVE Own(t)' /\ Kernel(t)'
    BY <2>1 DEF IInv, Own, Kernel, Announced, Waiting, kernels, coi, tabs
  <2> QED
    BY <2>2, <2>3, <2>4 DEF IInv
<1> QED
  BY <1>1, <1>2, <1>3, <1>4, <1>5 DEF KernelNext

LEMMA Invariance == Spec => []IInv
BY InitInv, NextInv, PTL DEF Spec

\* Every variable has its type, and no Bridge ever has another worker's SAB.
THEOREM TypeCorrect == Spec => []TypeOK
<1>1. IInv => TypeOK
  BY DEF IInv, CoiInv, CoiTypes, KernelTypes, Own, Bridges, Pages, Workers, TypeOK
<1> QED
  BY <1>1, Invariance, PTL

\* However many tabs, forced reloads and updates there are, the script reloads
\* a tab at most once (coi-serviceworker.js:31-36).
THEOREM ReloadsOnce == Spec => []OneAutoReload
<1>1. IInv => OneAutoReload
  BY DEF IInv, CoiInv, Script, OneAutoReload
<1> QED
  BY <1>1, Invariance, PTL

\* A parked kernel is served by its own Bridge, or its "rpc" is on the way and
\* its SAB before it, however often kernels are restarted.
THEOREM ParkedKernelsAreServed == Spec => []ParkedIsServed
<1>1. ASSUME IInv PROVE ParkedIsServed
  <2>1. ASSUME NEW t \in Tab, kernel[t] = "parked"
        PROVE  \/ bridge[t][count[t]].busy = count[t]
               \/ Waiting(t, count[t])
    BY <1>1, <2>1 DEF IInv, Kernel
  <2> QED
    BY <2>1 DEF ParkedIsServed, BridgeOf, Waiting, Announced
<1> QED
  BY <1>1, Invariance, PTL

\* The script never reloads a page under an RPC, and not in vain
\* (coi-serviceworker.js:29-53).
THEOREM ReloadsAreSafe == Spec => AutoReloadIsSafe
<1>1. ASSUME IInv, [KernelNext]_vars, NEW t \in Tab, reloads'[t] # reloads[t]
      PROVE  kernel[t] # "parked" /\ (capable => isolated'[t])
  <2>1. PageStep
    BY <1>1 DEF KernelNext, StartKernel, Call, KernelStep, Listen, Answer, vars, coi
  <2>2. CoiEffect(t)
    BY <1>1, <2>1, CoiStep DEF IInv, PageStep
  <2> QED
    BY <1>1, <2>2 DEF CoiEffect, IInv, CoiInv, Script, Kernel
<1>2. IInv /\ [KernelNext]_vars =>
        [\A t \in Tab : reloads'[t] # reloads[t] => kernel[t] # "parked" /\ (capable => isolated'[t])]_vars
  BY <1>1
<1> QED
  BY <1>2, Invariance, PTL DEF Spec, AutoReloadIsSafe
=============================================================================
