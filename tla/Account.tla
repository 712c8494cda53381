------------------------------- MODULE Account -------------------------------
(***************************************************************************)
(* The binding of this device to an account: the credential store, the     *)
(* threads that renew the access token under SESSION_MUTEX                 *)
(* (src/session/client.rs), the threads that poll a pairing request, which *)
(* save without it (src/app/mod.rs), and the account panel                 *)
(* (src/app/actions/account.rs, src/app/actions/poll/account.rs).          *)
(*                                                                         *)
(* A binding is the credential of one pairing.  0 is no binding, 1 the one *)
(* an earlier run left, the others are the pairing requests of this run.   *)
(***************************************************************************)
EXTENDS Naturals, Sequences, FiniteSets

CONSTANTS
    Loads,        \* jobs that load the account session, at once
    MaxRequests,  \* bound: tokens asked for by voice, sync and device control
    MaxPairings   \* bound: pairing requests

NoOwner == "none"

ASSUME AccountAssumption ==
    /\ IsFiniteSet(Loads) /\ Loads # {} /\ Loads \cap {"control", "ui", NoOwner} = {}
    /\ MaxRequests \in Nat /\ MaxPairings \in Nat

VARIABLES
    store,          \* the binding of the credential store
    revoked,        \* the bindings the server has revoked
    owner,          \* the thread that holds SESSION_MUTEX
    pc,             \* where each thread is
    cur,            \* the credential it renews
    again,          \* it has renewed it once after a refused token
    result,         \* what a load ends with
    target,         \* the binding a logout deletes
    state,          \* account_state
    request,        \* the request of AccountUiState::Waiting
    loadStarted,    \* account_load_started; account_refreshing is set only with it
    creating,       \* requests whose creation has not been answered
    created,        \* requests made so far
    poll,           \* the poll thread of each request
    cancelled,      \* requests whose flag is set
    pairingCancel,  \* the request whose flag pairing_cancel is
    inbox,          \* ui_tx
    requests        \* tokens asked for

sessionVars == <<owner, pc, cur, again, result, target, requests>>
panelVars   == <<state, request, loadStarted>>
pairingVars == <<creating, created, poll, cancelled, pairingCancel>>
vars == <<store, revoked, sessionVars, panelVars, pairingVars, inbox>>

Threads  == Loads \cup {"control", "ui"}
Requests == 2..(MaxPairings + 1)
Bindings == {1} \cup Requests

Results == {"ok", "none", "unauthorized", "unavailable", "storage"}
Active  == {"connected", "first"}  \* account_session_active

\* The steps that hold the mutex.
Locked == {"load", "issue", "post", "save", "wipe", "use", "retry"}

Message(kind, r, res) == [kind |-> kind, request |-> r, result |-> res]
Send(m) == inbox' = Append(inbox, m)

\* Everything bound before this run, and the account load of the start.
Init ==
    /\ store \in {0, 1} /\ revoked = {}
    /\ owner = NoOwner /\ target = 0 /\ requests = 0
    /\ pc = [[t \in Threads |-> "idle"] EXCEPT ![CHOOSE l \in Loads : TRUE] = "lock"]
    /\ cur = [t \in Threads |-> 0] /\ again = [t \in Threads |-> FALSE]
    /\ result = [l \in Loads |-> "ok"]
    /\ state = "disconnected" /\ request = 0 /\ loadStarted = TRUE
    /\ creating = {} /\ created = 0 /\ poll = [r \in Requests |-> "off"]
    /\ cancelled = {} /\ pairingCancel = 0 /\ inbox = <<>>

-----------------------------------------------------------------------------
(***************************************************************************)
(* Threads under SESSION_MUTEX.                                            *)
(***************************************************************************)

Goto(t, p) == pc' = [pc EXCEPT ![t] = p]

\* A thread returns: the guard is dropped.  A load still has to tell the panel.
End(t, res) ==
    /\ owner' = IF owner = t THEN NoOwner ELSE owner
    /\ result' = IF t \in Loads THEN [result EXCEPT ![t] = res] ELSE result
    /\ again' = [again EXCEPT ![t] = FALSE] /\ cur' = [cur EXCEPT ![t] = 0]
    /\ Goto(t, IF t \in Loads THEN "ended" ELSE IF t = "ui" THEN "closing" ELSE "idle")

\* voice_access_token, device_control_access_token.
AskForToken ==
    /\ pc["control"] = "idle" /\ requests < MaxRequests
    /\ requests' = requests + 1 /\ Goto("control", "lock")
    /\ UNCHANGED <<store, revoked, owner, cur, again, result, target, panelVars, pairingVars,
                   inbox>>

NoLock(t) == TRUE
Free(t) == owner = NoOwner

\* A logout comes here only to renew a refused token.
Acquire(t) ==
    /\ pc[t] = "lock" /\ Free(t)
    /\ owner' = t /\ Goto(t, IF t = "ui" THEN "issue" ELSE "load")
    /\ UNCHANGED <<store, revoked, cur, again, result, target, requests, panelVars, pairingVars,
                   inbox>>

\* has_credentials, and ensure_fresh_access_token_without_lock or a forced renewal.
LoadCredentials(t) ==
    /\ pc[t] = "load"
    /\ \/ store = 0 /\ End(t, "none")
       \/ End(t, "storage")
       \/ /\ store # 0 /\ \E p \in {"use", "issue"} : Goto(t, p)
          /\ UNCHANGED <<owner, cur, again, result>>
    /\ UNCHANGED <<store, revoked, target, requests, panelVars, pairingVars, inbox>>

\* issue_device_session_without_lock reads the store once more.
Issue(t) ==
    /\ pc[t] = "issue"
    /\ \/ store = 0 /\ End(t, "unavailable")
       \/ End(t, "storage")
       \/ /\ store # 0 /\ cur' = [cur EXCEPT ![t] = store] /\ Goto(t, "post")
          /\ UNCHANGED <<owner, again, result>>
    /\ UNCHANGED <<store, revoked, target, requests, panelVars, pairingVars, inbox>>

\* Only device_credential_invalid says that the binding is gone.
ForgetsOnAny401(b) == TRUE
Forgets(b) == b \in revoked

\* The answer: the binding is good, it is gone, or anything else.
Post(t) ==
    /\ pc[t] = "post"
    /\ \/ /\ cur[t] \notin revoked /\ Goto(t, "save") /\ UNCHANGED <<owner, cur, again, result>>
       \/ /\ Forgets(cur[t]) /\ Goto(t, "wipe") /\ UNCHANGED <<owner, cur, again, result>>
       \/ End(t, "unavailable")
    /\ UNCHANGED <<store, revoked, target, requests, panelVars, pairingVars, inbox>>

\* The renewed token is saved with the binding that was sent.
Save(t) ==
    /\ pc[t] = "save"
    /\ \/ End(t, "storage") /\ UNCHANGED store
       \/ /\ store' = cur[t] /\ Goto(t, IF t = "ui" THEN "retry" ELSE "use")
          /\ UNCHANGED <<owner, cur, again, result>>
    /\ UNCHANGED <<revoked, target, requests, panelVars, pairingVars, inbox>>

\* The error of store.clear is ignored.
Wipe(t) ==
    /\ pc[t] = "wipe" /\ store' \in {0, store} /\ End(t, "unauthorized")
    /\ UNCHANGED <<revoked, target, requests, panelVars, pairingVars, inbox>>

\* The token of the store as it is now.  For a load: profile and devices, with
\* one renewal after a refused token.
UseToken(t) ==
    /\ pc[t] = "use"
    /\ \/ store # 0 /\ End(t, "ok")
       \/ store = 0 /\ End(t, "unavailable")
       \/ /\ t \in Loads /\ store # 0
          /\ \/ /\ ~again[t] /\ again' = [again EXCEPT ![t] = TRUE] /\ Goto(t, "issue")
                /\ UNCHANGED <<owner, cur, result>>
             \/ again[t] /\ End(t, "unauthorized")
             \/ End(t, "unavailable")
    /\ UNCHANGED <<store, revoked, target, requests, panelVars, pairingVars, inbox>>

\* The job tells the panel after the guard is dropped.
SendLoaded(l) ==
    /\ pc[l] = "ended" /\ Send(Message("loaded", 0, result[l])) /\ Goto(l, "idle")
    /\ result' = [result EXCEPT ![l] = "ok"]
    /\ UNCHANGED <<store, revoked, owner, cur, again, target, requests, panelVars, pairingVars>>

-----------------------------------------------------------------------------
(***************************************************************************)
(* logout, on the UI thread, which waits for it.                           *)
(***************************************************************************)

UiFree == pc["ui"] = "idle"

\* The user's events come after poll_pairing in a frame.
Settled == UiFree /\ ~(state = "waiting" /\ pairingCancel = 0)

\* The device to delete is read without the mutex.
Logout ==
    /\ Settled /\ state = "connected"
    /\ \/ store # 0 /\ target' = store /\ Goto("ui", "delete")
       \/ Goto("ui", "closing") /\ UNCHANGED target
    /\ UNCHANGED <<store, revoked, owner, cur, again, result, requests, panelVars, pairingVars,
                   inbox>>

\* revoke_device: with the token of the store as it is now, then once more under
\* the mutex with a renewed one.
Delete ==
    /\ pc["ui"] \in {"delete", "retry"}
    /\ \/ /\ store # 0 /\ revoked' = revoked \cup {target}
          /\ owner' = (IF owner = "ui" THEN NoOwner ELSE owner) /\ Goto("ui", "clear")
          /\ UNCHANGED <<cur, again, result>>
       \/ /\ pc["ui"] = "delete" /\ store # 0 /\ Goto("ui", "lock")
          /\ UNCHANGED <<revoked, owner, cur, again, result>>
       \/ End("ui", "unavailable") /\ UNCHANGED revoked
    /\ UNCHANGED <<store, target, requests, panelVars, pairingVars, inbox>>

Clear ==
    /\ pc["ui"] = "clear" /\ store' \in {0, store} /\ Goto("ui", "closing")
    /\ UNCHANGED <<revoked, owner, cur, again, result, target, requests, panelVars, pairingVars,
                   inbox>>

\* Its error is ignored: the panel shows no account either way.
LogoutEnds ==
    /\ pc["ui"] = "closing" /\ Goto("ui", "idle") /\ state' = "disconnected" /\ target' = 0
    /\ UNCHANGED <<store, revoked, owner, cur, again, result, requests, request,
                   loadStarted, pairingVars, inbox>>

-----------------------------------------------------------------------------
(***************************************************************************)
(* The poll thread of a pairing request.  It never takes the mutex.        *)
(***************************************************************************)

PollTo(r, p) == poll' = [poll EXCEPT ![r] = p]
Report(r, res) == PollTo(r, "off") /\ Send(Message("paired", r, res))
\* pairing_poll_control, then the answer of the server; a 202 changes nothing.
\* "ended" is the deadline, an expired or refused request or the device limit.
Poll(r) ==
    /\ poll[r] = "poll"
    /\ \/ r \in cancelled /\ PollTo(r, "off") /\ UNCHANGED inbox
       \/ r \notin cancelled /\ Report(r, "ended")
       \/ Report(r, "unavailable")
       \/ PollTo(r, "got") /\ UNCHANGED inbox
    /\ UNCHANGED <<store, revoked, sessionVars, panelVars, creating, created, cancelled,
                   pairingCancel>>

\* The last look at the flag.
PollChecks(r) ==
    /\ poll[r] = "got" /\ PollTo(r, IF r \in cancelled THEN "off" ELSE "save")
    /\ UNCHANGED <<store, revoked, sessionVars, panelVars, creating, created, cancelled,
                   pairingCancel, inbox>>

PollSaves(r) ==
    /\ poll[r] = "save"
    /\ \/ store' = r /\ PollTo(r, "saved") /\ UNCHANGED inbox
       \/ Report(r, "storage") /\ UNCHANGED store
    /\ UNCHANGED <<revoked, sessionVars, panelVars, creating, created, cancelled, pairingCancel>>

\* has_credentials: any binding will do.
PollReports(r) ==
    /\ poll[r] = "saved" /\ Report(r, IF store = 0 THEN "storage" ELSE "ok")
    /\ UNCHANGED <<store, revoked, sessionVars, panelVars, creating, created, cancelled,
                   pairingCancel>>

\* The job of start_pairing.
Create(r) ==
    /\ r \in creating /\ creating' = creating \ {r}
    /\ \E res \in {"ok", "unavailable"} : Send(Message("started", r, res))
    /\ UNCHANGED <<store, revoked, sessionVars, panelVars, created, poll, cancelled,
                   pairingCancel>>

-----------------------------------------------------------------------------
(***************************************************************************)
(* The account panel.                                                      *)
(***************************************************************************)

\* spawn_account_load; the executor may refuse it.
SpawnLoad(otherwise) ==
    \/ /\ \E l \in Loads : pc[l] = "idle"
       /\ Goto(CHOOSE l \in Loads : pc[l] = "idle", "lock")
       /\ loadStarted' = TRUE /\ state' = otherwise
    \/ loadStarted' = FALSE /\ state' = "error" /\ UNCHANGED pc

\* begin_account_load, in every frame of the open window.
BeginLoad ==
    /\ UiFree /\ loadStarted /\ state \in {"disconnected", "error"}
    /\ state' = "loading"
    /\ UNCHANGED <<store, revoked, sessionVars, request, loadStarted, pairingVars, inbox>>

Refresh ==
    /\ Settled /\ state = "connected" /\ ~loadStarted
    /\ SpawnLoad("connected")
    /\ UNCHANGED <<store, revoked, owner, cur, again, result, target, requests, request,
                   pairingVars, inbox>>

\* start_pairing; the executor may refuse it.
StartPairing ==
    /\ Settled /\ state = "disconnected" /\ ~loadStarted /\ created < MaxPairings
    /\ \/ /\ state' = "starting" /\ created' = created + 1
          /\ creating' = creating \cup {created + 2}
       \/ state' = "disconnected" /\ UNCHANGED <<created, creating>>
    /\ UNCHANGED <<store, revoked, sessionVars, request, loadStarted, poll, cancelled,
                   pairingCancel, inbox>>

\* poll_pairing, in every frame: it starts a thread only if it holds no flag.
PollPairing ==
    /\ UiFree /\ state = "waiting" /\ pairingCancel = 0
    /\ \/ pairingCancel' = request /\ PollTo(request, "poll") /\ UNCHANGED state
       \/ state' = "error" /\ UNCHANGED <<poll, pairingCancel>>
    /\ UNCHANGED <<store, revoked, sessionVars, request, loadStarted, creating, created,
                   cancelled, inbox>>

\* cancel_pairing: by its button or by closing the window.
CancelPairing ==
    /\ cancelled' = cancelled \cup ({pairingCancel} \ {0}) /\ pairingCancel' = 0
    /\ state' = "disconnected"

\* Closing the window cancels a pairing and stops waiting for a load.  It may be
\* opened again at once; a closed one only offers the user less.
CloseWindow ==
    /\ Settled
    /\ \/ state = "waiting" /\ CancelPairing /\ UNCHANGED loadStarted
       \/ /\ state = "loading" /\ state' = "disconnected" /\ loadStarted' = FALSE
          /\ UNCHANGED <<cancelled, pairingCancel>>
    /\ UNCHANGED <<store, revoked, sessionVars, request, creating, created, poll, inbox>>

\* The devices of a new pairing are shown.
OpenDevices ==
    /\ Settled /\ state = "first" /\ state' = "connected"
    /\ UNCHANGED <<store, revoked, sessionVars, request, loadStarted, pairingVars, inbox>>

Receive == UiFree /\ inbox # <<>> /\ inbox' = Tail(inbox)

\* What handle_account_loaded makes of a result.
Loaded(s, res) ==
    CASE s = "waiting"                             -> s
      [] res = "ok"                                -> IF s = "first" THEN s ELSE "connected"
      [] res \in {"none", "unauthorized"}          -> IF s = "first" THEN s ELSE "disconnected"
      [] res = "unavailable" /\ s \in Active       -> "connected"
      [] OTHER                                     -> "error"

\* account_load_started after a load, whatever the panel shows.
StartedUnlessWaiting(s) == s = "waiting" /\ loadStarted
StillStarted(s) == FALSE

HandleLoaded ==
    /\ Receive /\ Head(inbox).kind = "loaded"
    /\ loadStarted' = StillStarted(state) /\ state' = Loaded(state, Head(inbox).result)
    /\ UNCHANGED <<store, revoked, sessionVars, request, pairingVars>>

\* handle_pairing_started, whatever the panel shows.
HandleStarted ==
    /\ Receive /\ Head(inbox).kind = "started"
    /\ \/ Head(inbox).result = "ok" /\ state' = "waiting" /\ request' = Head(inbox).request
       \/ Head(inbox).result # "ok" /\ state' = "disconnected" /\ UNCHANGED request
    /\ UNCHANGED <<store, revoked, sessionVars, loadStarted, pairingVars>>

\* handle_pairing_result: only for the request that is waited for.
HandlePaired ==
    /\ Receive /\ Head(inbox).kind = "paired"
    /\ IF state = "waiting" /\ request = Head(inbox).request
       THEN /\ pairingCancel' = 0
            /\ \/ Head(inbox).result = "ok" /\ SpawnLoad("first")
               \/ /\ Head(inbox).result # "ok" /\ UNCHANGED <<loadStarted, pc>>
                  /\ state' = IF Head(inbox).result = "ended" THEN "disconnected" ELSE "error"
       ELSE UNCHANGED <<pairingCancel, state, loadStarted, pc>>
    /\ UNCHANGED <<store, revoked, owner, cur, again, result, target, requests, request,
                   creating, created, poll, cancelled>>

\* The account page of another device removes this one.
RevokeElsewhere ==
    /\ \E b \in {store} \ {0} : revoked' = revoked \cup {b}
    /\ UNCHANGED <<store, sessionVars, panelVars, pairingVars, inbox>>

-----------------------------------------------------------------------------
ThreadStep(t) ==
    \/ Acquire(t) \/ LoadCredentials(t) \/ Issue(t) \/ Post(t) \/ Save(t) \/ Wipe(t)
    \/ UseToken(t)
LogoutStep == ThreadStep("ui") \/ Delete \/ Clear \/ LogoutEnds
PollStep(r) == Poll(r) \/ PollChecks(r) \/ PollSaves(r) \/ PollReports(r)
Handle == HandleLoaded \/ HandleStarted \/ HandlePaired
User ==
    \/ Logout \/ Refresh \/ StartPairing \/ CloseWindow \/ OpenDevices

Next ==
    \/ \E t \in Loads \cup {"control"} : ThreadStep(t)
    \/ \E l \in Loads : SendLoaded(l)
    \/ \E r \in Requests : Create(r) \/ PollStep(r)
    \/ LogoutStep \/ Handle \/ PollPairing \/ BeginLoad
    \/ AskForToken \/ User \/ RevokeElsewhere

\* The jobs run, every request has a timeout, and the frames go on.  The user,
\* the server and the other callers of the token promise nothing.
Fairness ==
    /\ WF_vars(ThreadStep("control")) /\ WF_vars(LogoutStep)
    /\ \A l \in Loads : WF_vars(ThreadStep(l) \/ SendLoaded(l))
    /\ \A r \in Requests : WF_vars(Create(r)) /\ WF_vars(PollStep(r))
    /\ WF_vars(Handle) /\ WF_vars(PollPairing)

Spec == Init /\ [][Next]_vars
FairSpec == Spec /\ Fairness

-----------------------------------------------------------------------------
(***************************************************************************)
(* Properties.                                                             *)
(***************************************************************************)

\* Types.  A thread that reads or renews the credential holds SESSION_MUTEX
\* (client.rs:18), so no two of them renew at once.
AccountTypeOK ==
    /\ store \in {0} \cup Bindings /\ revoked \subseteq Bindings
    /\ \A t \in Threads : pc[t] \in Locked => owner = t
    /\ owner \in Threads \cup {NoOwner}
    /\ pc \in [Threads -> Locked \cup {"idle", "lock", "ended", "delete", "clear", "closing"}]
    /\ cur \in [Threads -> {0} \cup Bindings] /\ again \in [Threads -> BOOLEAN]
    /\ result \in [Loads -> Results] /\ target \in {0} \cup Bindings
    /\ state \in Active \cup {"disconnected", "loading", "starting", "waiting", "error"}
    /\ request \in {0} \cup Requests /\ loadStarted \in BOOLEAN
    /\ creating \subseteq Requests /\ created \in 0..MaxPairings
    /\ poll \in [Requests -> {"off", "poll", "got", "save", "saved"}]
    /\ cancelled \subseteq Requests /\ pairingCancel \in {0} \cup Requests
    /\ requests \in 0..MaxRequests /\ Len(inbox) <= Cardinality(Loads) + 2 * MaxPairings

\* The binding is forgotten only after the server has revoked one of this
\* device's bindings: a failed, refused or late answer, a storage error or an
\* interrupted logout leaves it (issue_device_session_without_lock).
OnlyRevokedIsForgotten == [][store # 0 /\ store' = 0 => revoked # {}]_vars

\* The panel says "checking" or "connecting", or waits for a request whose thread polls.
Busy == \/ state \in {"loading", "starting"}
        \/ state = "waiting" /\ poll[request] # "off"

\* The panel is never busy for ever: the job behind it always answers, no answer is
\* lost to another state of the panel, and waiting ends, by the answer, the
\* deadline of ten minutes or the user (handle_account_loaded, poll_pairing).
PanelSettles == []<>~Busy

\* docs/status.md:480-483: "RockCast now treats pairing as a durable device
\* binding", which only 401 device_credential_invalid clears.  A binding the
\* server has not revoked gives way to a newer one only.
PairingIsDurable == [][store # 0 /\ store \notin revoked => store' >= store]_vars
=============================================================================
