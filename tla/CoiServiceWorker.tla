-------------------------- MODULE CoiServiceWorker --------------------------
(***************************************************************************)
(* jupyterlite/coi-serviceworker.js in the tabs of one browser, on a host  *)
(* that cannot set headers (or that does): the page registers the worker,  *)
(* waits for it to take control, and reloads once, so that its headers     *)
(* make the page cross-origin isolated.  The life of a service worker is   *)
(* the browser's, external: install, activate, claim and update.           *)
(***************************************************************************)
EXTENDS Naturals

CONSTANTS
  Tab,
  MaxLoads,   \* bound: loads that the user makes
  MaxUpdates  \* bound: new versions of the worker

ASSUME TabBounds == MaxLoads \in Nat /\ MaxUpdates \in Nat

VARIABLES
  headers,    \* the host sets COOP and COEP itself
  capable,    \* with those headers this browser isolates the page
  worker,     \* "none", "installing", "activating", "active", "updating"
  page,       \* "closed", "loading", "registering", "listening" or "settled"
  isolated,   \* crossOriginIsolated of each page
  controlled, \* navigator.serviceWorker.controller is set
  changed,    \* a controllerchange event is queued
  flag,       \* sessionStorage pcwCoiReloaded
  loads, updates,  \* history
  reloads     \* history: loads of each tab that the script made

browser == <<headers, capable>>
tabs    == <<page, isolated, controlled, changed, flag>>
coi     == <<browser, worker, tabs, loads, updates, reloads>>

All(v) == [t \in Tab |-> v]

Init ==
  /\ headers \in BOOLEAN /\ capable \in BOOLEAN
  /\ worker = "none" /\ page = All("closed")
  /\ isolated = All(FALSE) /\ controlled = All(FALSE) /\ changed = All(FALSE) /\ flag = All(FALSE)
  /\ loads = 0 /\ updates = 0 /\ reloads = All(0)

-----------------------------------------------------------------------------
(* The browser.                                                            *)

\* Responses of this worker carry the headers (its fetch handler).
Serves == worker \in {"activating", "active", "updating"}

\* A navigation, through the worker if there is one, unless it is a forced
\* reload, which bypasses it.
Load(t, bypass) ==
  LET through == Serves /\ ~bypass
  IN  /\ page' = [page EXCEPT ![t] = "loading"]
      /\ controlled' = [controlled EXCEPT ![t] = through]
      /\ isolated' = [isolated EXCEPT ![t] = capable /\ (headers \/ through)]
      /\ changed' = [changed EXCEPT ![t] = FALSE]

UserLoad(t, bypass) ==
  /\ loads < MaxLoads /\ loads' = loads + 1
  /\ Load(t, bypass)
  /\ UNCHANGED <<browser, worker, flag, updates, reloads>>

Install ==
  /\ worker = "none" /\ \E t \in Tab : page[t] = "registering"
  /\ worker' = "installing"
  /\ UNCHANGED <<browser, tabs, loads, updates, reloads>>

Update ==
  /\ worker = "active" /\ updates < MaxUpdates
  /\ worker' = "updating" /\ updates' = updates + 1
  /\ UNCHANGED <<browser, tabs, loads, reloads>>

\* skipWaiting: a new worker does not wait for the pages of the old one, and
\* they all change controller.
Activate ==
  /\ worker \in {"installing", "updating"}
  /\ worker' = "activating"
  /\ changed' = [t \in Tab |-> changed[t] \/ (controlled[t] /\ worker = "updating")]
  /\ UNCHANGED <<browser, page, isolated, controlled, flag, loads, updates, reloads>>

\* clients.claim(): the pages that no worker controls.
Claimed == {t \in Tab : page[t] # "closed" /\ ~controlled[t]}

Claim ==
  /\ worker = "activating"
  /\ worker' = "active"
  /\ controlled' = [t \in Tab |-> controlled[t] \/ t \in Claimed]
  /\ changed' = [t \in Tab |-> changed[t] \/ t \in Claimed]
  /\ UNCHANGED <<browser, page, isolated, flag, loads, updates, reloads>>

-----------------------------------------------------------------------------
(* The script in the page.                                                 *)

\* MUTANT of Leaves: a page that is isolated registers all the same.
LeavesOnFlag(t) == flag[t]

\* MUTANT of Leaves: the flag of an earlier reload is not looked at.
LeavesIsolated(t) == isolated[t]

\* The early returns.
Leaves(t) == isolated[t] \/ flag[t]

RunScript(t) ==
  /\ page[t] = "loading"
  /\ page' = [page EXCEPT ![t] = IF Leaves(t) THEN "settled" ELSE "registering"]
  /\ UNCHANGED <<browser, worker, isolated, controlled, changed, flag, loads, updates, reloads>>

Reload(t) == Load(t, FALSE) /\ reloads' = [reloads EXCEPT ![t] = @ + 1]

\* The listener for controllerchange is added.
AwaitControl(t) ==
  /\ page' = [page EXCEPT ![t] = "listening"]
  /\ UNCHANGED <<isolated, controlled, changed, reloads>>

\* MUTANT of HasController: the script listens without looking first.
NeverLooks(t) == FALSE

HasController(t) == controlled[t]

\* register() resolves, perhaps after the worker has taken control already.
Registered(t) ==
  /\ page[t] = "registering" /\ worker # "none"
  /\ IF HasController(t)
       THEN page' = [page EXCEPT ![t] = "settled"] /\ UNCHANGED <<isolated, controlled, changed, flag, reloads>>
       ELSE AwaitControl(t) /\ flag' = [flag EXCEPT ![t] = TRUE]
  /\ UNCHANGED <<browser, worker, loads, updates>>

\* The worker's script cannot be fetched: the catch logs it.
RegisterFails(t) ==
  /\ page[t] = "registering" /\ worker = "none"
  /\ page' = [page EXCEPT ![t] = "settled"]
  /\ UNCHANGED <<browser, worker, isolated, controlled, changed, flag, loads, updates, reloads>>

\* The event is lost on a page that has no listener (yet).
ControllerChange(t) ==
  /\ changed[t]
  /\ IF page[t] = "listening"
       THEN Reload(t)
       ELSE changed' = [changed EXCEPT ![t] = FALSE] /\ UNCHANGED <<page, isolated, controlled, reloads>>
  /\ UNCHANGED <<browser, worker, flag, loads, updates>>

-----------------------------------------------------------------------------
Takeover == Activate \/ Claim \/ \E t \in Tab : ControllerChange(t)

CoiNext ==
  \/ Install \/ Update \/ Takeover
  \/ \E t \in Tab : \/ RunScript(t) \/ Registered(t) \/ RegisterFails(t)
                    \/ UserLoad(t, FALSE) \/ UserLoad(t, TRUE)

\* Workers that are being installed take over, and events are delivered.
CoiFairness == WF_coi(Activate) /\ WF_coi(Claim) /\ \A t \in Tab : WF_coi(ControllerChange(t))

\* The script reloads a tab once and never again, whatever the user reloads
\* and however often the worker is updated, also where isolation never comes
\* (coi-serviceworker.js:31-36, "reloads once").
OneAutoReload == \A t \in Tab : reloads[t] <= 1

\* Liveness.  A page that listens while a worker has yet to take over, or that
\* has a controller already, does not listen for ever: a controllerchange that
\* came before the listener is noticed by looking at the controller
\* (coi-serviceworker.js:43-53).  A page that begins to listen with a worker
\* active and claims made, as after a forced reload, is not promised anything:
\* the event may never come.
ListeningEnds == \A t \in Tab :
  page[t] = "listening" /\ (worker # "active" \/ controlled[t]) ~> page[t] # "listening"
=============================================================================
