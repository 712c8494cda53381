---------------------------- MODULE AccountProofs ----------------------------
(***************************************************************************)
(* Theorems about Account, for any number of loads, requests and pairings: *)
(* every variable keeps its type, a thread that reads or renews the        *)
(* credential holds SESSION_MUTEX, the panel is never sent more messages   *)
(* than its loads and pairings account for, and the binding is forgotten   *)
(* only after the server has revoked one.                                  *)
(***************************************************************************)
EXTENDS Account, FiniteSetTheorems, SequenceTheorems, TLAPS

-----------------------------------------------------------------------------
(***************************************************************************)
(* The inductive invariant.                                                *)
(***************************************************************************)

Places == Locked \cup {"idle", "lock", "ended", "delete", "clear", "closing"}

\* The threads and what they hold, apart from what is counted.
ThreadTypes ==
    /\ store \in {0} \cup Bindings /\ revoked \subseteq Bindings
    /\ owner \in Threads \cup {NoOwner} /\ pc \in [Threads -> Places]
    /\ cur \in [Threads -> {0} \cup Bindings] /\ again \in [Threads -> BOOLEAN]
    /\ result \in [Loads -> Results] /\ target \in {0} \cup Bindings

\* SESSION_MUTEX.
MutexInv == \A t \in Threads : pc[t] \in Locked => owner = t

\* A thread renews a binding, and clears the store only after the server revoked one; a
\* logout that is on its way has a binding to delete.
CredentialInv ==
    /\ \A t \in Threads : pc[t] \in {"post", "save"} => cur[t] \in Bindings
    /\ \A t \in Threads : pc[t] = "wipe" => cur[t] \in revoked
    /\ pc["ui"] \in Locked \cup {"lock", "delete"} => target # 0
    /\ pc["ui"] = "clear" => revoked # {}

ThreadInv == ThreadTypes /\ MutexInv /\ CredentialInv

\* The panel, the requests and the messages between them.
Messages == [kind : {"loaded", "started", "paired"}, request : {0} \cup Requests,
             result : Results \cup {"ended"}]

\* Reports about a pairing name its request.
InboxOK(q) ==
    /\ q \in Seq(Messages)
    /\ \A i \in 1..Len(q) : q[i].kind # "loaded" => q[i].request \in Requests

PanelTypes ==
    /\ state \in Active \cup {"disconnected", "loading", "starting", "waiting", "error"}
    /\ request \in {0} \cup Requests /\ loadStarted \in BOOLEAN
    /\ creating \subseteq Requests
    /\ poll \in [Requests -> {"off", "poll", "got", "save", "saved"}]
    /\ cancelled \subseteq Requests /\ pairingCancel \in {0} \cup Requests
    /\ state = "waiting" => request \in Requests
    /\ InboxOK(inbox)

Counts == created \in 0..MaxPairings /\ requests \in 0..MaxRequests

\* A request goes through its stages once: it is not made yet or is being made (New); its
\* creation is reported, it is shown, and a thread polls it (Open); then it is over.
StartedIn(q, r) == \E i \in 1..Len(q) : q[i].kind = "started" /\ q[i].request = r
OnceEach(q) ==
    \A i, j \in 1..Len(q) :
        q[i].kind = "started" /\ q[j].kind = "started" /\ q[i].request = q[j].request => i = j

IsStarted(r) == StartedIn(inbox, r)
Awaited(r)   == state = "waiting" /\ pairingCancel = 0 /\ request = r
IsPolled(r)  == poll[r] # "off"
Made         == 2..(created + 1)
New          == creating \cup (Requests \ Made)
Open         == {r \in Requests : IsStarted(r) \/ Awaited(r) \/ IsPolled(r)}

StagesInv ==
    /\ creating \subseteq Made
    /\ New \cap Open = {}
    /\ \A r \in Requests : IsPolled(r) => ~IsStarted(r) /\ ~Awaited(r)
    /\ \A r \in Requests : Awaited(r) => ~IsStarted(r)
    /\ OnceEach(inbox)

\* The messages in the channel and the ones that can still come: one of each load that
\* runs, two of a request that is new, one of an open one.  The panel starts another load
\* only when it has heard of the last one or when a pairing was answered.
Running == {l \in Loads : pc[l] # "idle"}
Toll    == Len(inbox) + Cardinality(Running) + 2 * Cardinality(New) + Cardinality(Open)
Settles == ~loadStarted /\ state \in Active

TollInv ==
    /\ Toll <= 2 * MaxPairings + 1
    /\ Settles => Toll <= 2 * MaxPairings

PanelInv == PanelTypes /\ Counts /\ StagesInv /\ TollInv

IInv == ThreadInv /\ PanelInv

-----------------------------------------------------------------------------
(***************************************************************************)
(* The threads.                                                            *)
(***************************************************************************)

LEMMA NumbersOfBindings == 0 \notin Bindings /\ 0 \notin Requests /\ Requests \subseteq Bindings
  BY AccountAssumption DEF Bindings, Requests

LEMMA Names ==
  /\ "ui" \in Threads /\ "control" \in Threads /\ Loads \subseteq Threads
  /\ "ui" \notin Loads /\ "control" \notin Loads /\ NoOwner \notin Threads
  BY AccountAssumption DEF Threads, NoOwner

\* The step of one thread: what the others hold is left alone.
LEMMA OneThread ==
  ASSUME ThreadInv, NEW t \in Threads, ThreadTypes', revoked \subseteq revoked',
         \A u \in Threads \ {t} : pc'[u] = pc[u] /\ cur'[u] = cur[u],
         \A u \in Threads \ {t} : owner = u => owner' = u,
         pc'[t] \in Locked => owner' = t,
         pc'[t] \in {"post", "save"} => cur'[t] \in Bindings,
         pc'[t] = "wipe" => cur'[t] \in revoked',
         t # "ui" => target' = target,
         t = "ui" => (pc'[t] \in Locked \cup {"lock", "delete"} => target' # 0),
         t = "ui" => (pc'[t] = "clear" => revoked' # {})
  PROVE  ThreadInv'
<1>1. MutexInv'
  BY DEF MutexInv, ThreadInv
<1>2. CredentialInv'
  <2>1. \A u \in Threads : pc'[u] \in {"post", "save"} => cur'[u] \in Bindings
    BY DEF CredentialInv, ThreadInv
  <2>2. \A u \in Threads : pc'[u] = "wipe" => cur'[u] \in revoked'
    BY DEF CredentialInv, ThreadInv
  <2>3. pc'["ui"] \in Locked \cup {"lock", "delete"} => target' # 0
    BY Names DEF CredentialInv, ThreadInv
  <2>4. pc'["ui"] = "clear" => revoked' # {}
    BY Names DEF CredentialInv, ThreadInv
  <2> QED BY <2>1, <2>2, <2>3, <2>4 DEF CredentialInv
<1> QED BY <1>1, <1>2 DEF ThreadInv

\* A thread returns.
LEMMA EndStep ==
  ASSUME ThreadInv, NEW t \in Threads, NEW res \in Results, End(t, res),
         store' \in {0} \cup Bindings, revoked' \subseteq Bindings, revoked \subseteq revoked',
         target' = target
  PROVE  ThreadInv'
<1>1. ThreadTypes'
  BY Names DEF ThreadTypes, ThreadInv, End, Goto, Places
<1>2. /\ \A u \in Threads \ {t} : pc'[u] = pc[u] /\ cur'[u] = cur[u]
      /\ \A u \in Threads \ {t} : owner = u => owner' = u
  BY DEF ThreadTypes, ThreadInv, End, Goto
<1>3. pc'[t] \in {"ended", "closing", "idle"}
  BY DEF ThreadTypes, ThreadInv, End, Goto
<1> QED BY <1>1, <1>2, <1>3, OneThread DEF Locked

\* A thread goes on to another place with what it holds.
LEMMA GotoStep ==
  ASSUME ThreadInv, NEW t \in Threads, NEW p \in Places, Goto(t, p),
         UNCHANGED <<owner, cur, again, result, target>>,
         store' \in {0} \cup Bindings, revoked' \subseteq Bindings, revoked \subseteq revoked',
         p \in Locked => owner = t,
         p \in {"post", "save"} => cur[t] \in Bindings,
         p = "wipe" => cur[t] \in revoked,
         t = "ui" => (p \in Locked \cup {"lock", "delete"} => target # 0),
         t = "ui" => (p = "clear" => revoked' # {})
  PROVE  ThreadInv'
<1>1. ThreadTypes'
  BY DEF ThreadTypes, ThreadInv, Goto
<1>2. pc'[t] = p /\ \A u \in Threads \ {t} : pc'[u] = pc[u] /\ cur'[u] = cur[u]
  BY DEF ThreadTypes, ThreadInv, Goto
<1> QED BY <1>1, <1>2, OneThread

\* A step under the mutex.
LEMMA ThreadStepKeeps ==
  ASSUME ThreadInv, NEW t \in Threads, ThreadStep(t) PROVE ThreadInv'
<1> USE DEF Places, Locked
<1>0. store \in {0} \cup Bindings /\ revoked \subseteq Bindings
  BY DEF ThreadInv, ThreadTypes
<1>1. CASE Acquire(t)
  <2>1. ThreadTypes'
    BY <1>1 DEF Acquire, Goto, ThreadInv, ThreadTypes
  <2>2. pc'[t] \in {"issue", "load"} /\ owner' = t /\ owner \notin Threads
        /\ \A u \in Threads \ {t} : pc'[u] = pc[u] /\ cur'[u] = cur[u]
    BY <1>1, Names DEF Acquire, Free, Goto, ThreadInv, ThreadTypes
  <2>3. t = "ui" => target # 0
    BY <1>1 DEF Acquire, ThreadInv, CredentialInv
  <2> QED BY <1>1, <2>1, <2>2, <2>3, OneThread DEF Acquire
<1>2. CASE LoadCredentials(t)
  <2>1. owner = t /\ (t = "ui" => target # 0)
    BY <1>2 DEF LoadCredentials, ThreadInv, MutexInv, CredentialInv
  <2>2. CASE \E res \in Results : End(t, res)
    BY <1>0, <1>2, <2>2, EndStep DEF LoadCredentials
  <2>3. CASE \E p \in {"use", "issue"} : Goto(t, p) /\ UNCHANGED <<owner, cur, again, result>>
    BY <1>0, <1>2, <2>1, <2>3, GotoStep DEF LoadCredentials
  <2> QED BY <1>2, <2>2, <2>3 DEF LoadCredentials, Results
<1>3. CASE Issue(t)
  <2>1. owner = t /\ (t = "ui" => target # 0)
    BY <1>3 DEF Issue, ThreadInv, MutexInv, CredentialInv
  <2>2. CASE \E res \in Results : End(t, res)
    BY <1>0, <1>3, <2>2, EndStep DEF Issue
  <2>3. CASE store # 0 /\ cur' = [cur EXCEPT ![t] = store] /\ Goto(t, "post")
             /\ UNCHANGED <<owner, again, result>>
    <3>1. ThreadTypes'
      BY <1>3, <2>3 DEF Issue, Goto, ThreadInv, ThreadTypes
    <3>2. pc'[t] = "post" /\ cur'[t] \in Bindings
          /\ \A u \in Threads \ {t} : pc'[u] = pc[u] /\ cur'[u] = cur[u]
      BY <2>3 DEF Goto, ThreadInv, ThreadTypes
    <3> QED BY <1>3, <2>1, <2>3, <3>1, <3>2, OneThread DEF Issue
  <2> QED BY <1>3, <2>2, <2>3 DEF Issue, Results
<1>4. CASE Post(t)
  <2>1. owner = t /\ (t = "ui" => target # 0) /\ cur[t] \in Bindings
    BY <1>4 DEF Post, ThreadInv, MutexInv, CredentialInv
  <2>2. CASE \E res \in Results : End(t, res)
    BY <1>0, <1>4, <2>2, EndStep DEF Post
  <2>3. CASE Goto(t, "save") /\ UNCHANGED <<owner, cur, again, result>>
    BY <1>0, <1>4, <2>1, <2>3, GotoStep DEF Post
  <2>4. CASE Forgets(cur[t]) /\ Goto(t, "wipe") /\ UNCHANGED <<owner, cur, again, result>>
    BY <1>0, <1>4, <2>1, <2>4, GotoStep DEF Post, Forgets
  <2> QED BY <1>4, <2>2, <2>3, <2>4 DEF Post, Results
<1>5. CASE Save(t)
  <2>1. owner = t /\ (t = "ui" => target # 0) /\ cur[t] \in Bindings
    BY <1>5 DEF Save, ThreadInv, MutexInv, CredentialInv
  <2>2. CASE End(t, "storage") /\ UNCHANGED store
    BY <1>0, <1>5, <2>2, EndStep DEF Save, Results
  <2>3. CASE store' = cur[t] /\ Goto(t, IF t = "ui" THEN "retry" ELSE "use")
             /\ UNCHANGED <<owner, cur, again, result>>
    <3>1. CASE t = "ui"
      BY <1>0, <1>5, <2>1, <2>3, <3>1, GotoStep DEF Save
    <3>2. CASE t # "ui"
      BY <1>0, <1>5, <2>1, <2>3, <3>2, GotoStep DEF Save
    <3> QED BY <3>1, <3>2
  <2> QED BY <1>5, <2>2, <2>3 DEF Save
<1>6. CASE Wipe(t)
  BY <1>0, <1>6, EndStep DEF Wipe, Results
<1>7. CASE UseToken(t)
  <2>1. owner = t /\ (t = "ui" => target # 0)
    BY <1>7 DEF UseToken, ThreadInv, MutexInv, CredentialInv
  <2>2. CASE \E res \in Results : End(t, res)
    BY <1>0, <1>7, <2>2, EndStep DEF UseToken
  <2>3. CASE t \in Loads /\ again' = [again EXCEPT ![t] = TRUE] /\ Goto(t, "issue")
             /\ UNCHANGED <<owner, cur, result>>
    <3>1. ThreadTypes'
      BY <1>7, <2>3 DEF UseToken, Goto, ThreadInv, ThreadTypes
    <3>2. pc'[t] = "issue" /\ \A u \in Threads \ {t} : pc'[u] = pc[u] /\ cur'[u] = cur[u]
      BY <2>3 DEF Goto, ThreadInv, ThreadTypes
    <3> QED BY <1>7, <2>1, <2>3, <3>1, <3>2, OneThread DEF UseToken
  <2> QED BY <1>7, <2>2, <2>3 DEF UseToken, Results
<1> QED BY <1>1, <1>2, <1>3, <1>4, <1>5, <1>6, <1>7 DEF ThreadStep

\* A logout outside the mutex.
LEMMA LogoutKeeps ==
  ASSUME ThreadInv, Logout \/ Delete \/ Clear \/ LogoutEnds PROVE ThreadInv'
<1> USE DEF Places, Locked
<1>0. store \in {0} \cup Bindings /\ revoked \subseteq Bindings /\ target \in {0} \cup Bindings
  BY DEF ThreadInv, ThreadTypes
<1>1. CASE Logout
  <2>1. CASE store # 0 /\ target' = store /\ Goto("ui", "delete")
    <3>1. ThreadTypes'
      BY <1>1, <2>1 DEF Logout, Goto, ThreadInv, ThreadTypes
    <3>2. pc'["ui"] = "delete" /\ \A u \in Threads \ {"ui"} : pc'[u] = pc[u] /\ cur'[u] = cur[u]
      BY <1>1, <2>1, Names DEF Logout, Goto, ThreadInv, ThreadTypes
    <3> QED BY <1>1, <2>1, <3>1, <3>2, OneThread, Names DEF Logout
  <2>2. CASE Goto("ui", "closing") /\ UNCHANGED target
    BY <1>0, <1>1, <2>2, GotoStep, Names DEF Logout
  <2> QED BY <1>1, <2>1, <2>2 DEF Logout
<1>2. CASE Delete
  <2>0. target \in Bindings
    BY <1>0, <1>2 DEF Delete, ThreadInv, CredentialInv
  <2>1. CASE /\ store # 0 /\ revoked' = revoked \cup {target}
             /\ owner' = (IF owner = "ui" THEN NoOwner ELSE owner) /\ Goto("ui", "clear")
             /\ UNCHANGED <<cur, again, result>>
    <3>1. ThreadTypes'
      BY <1>2, <2>0, <2>1 DEF Delete, Goto, ThreadInv, ThreadTypes
    <3>2. pc'["ui"] = "clear" /\ \A u \in Threads \ {"ui"} : pc'[u] = pc[u] /\ cur'[u] = cur[u]
      BY <2>1, Names DEF Goto, ThreadInv, ThreadTypes
    <3> QED BY <1>2, <2>1, <3>1, <3>2, OneThread, Names DEF Delete
  <2>2. CASE Goto("ui", "lock") /\ UNCHANGED <<revoked, owner, cur, again, result>>
    BY <1>0, <1>2, <2>0, <2>2, GotoStep, Names, NumbersOfBindings DEF Delete
  <2>3. CASE End("ui", "unavailable") /\ UNCHANGED revoked
    BY <1>0, <1>2, <2>3, EndStep, Names DEF Delete, Results
  <2> QED BY <1>2, <2>1, <2>2, <2>3 DEF Delete
<1>3. CASE Clear
  BY <1>0, <1>3, GotoStep, Names DEF Clear
<1>4. CASE LogoutEnds
  <2>1. ThreadTypes'
    BY <1>4 DEF LogoutEnds, Goto, ThreadInv, ThreadTypes
  <2>2. pc'["ui"] = "idle" /\ \A u \in Threads \ {"ui"} : pc'[u] = pc[u] /\ cur'[u] = cur[u]
    BY <1>4, Names DEF LogoutEnds, Goto, ThreadInv, ThreadTypes
  <2> QED BY <1>4, <2>1, <2>2, OneThread, Names DEF LogoutEnds
<1> QED BY <1>1, <1>2, <1>3, <1>4

\* A load is started, which waits for the mutex.
LEMMA SpawnKeeps ==
  ASSUME ThreadInv, NEW s, SpawnLoad(s),
         UNCHANGED <<store, revoked, owner, cur, again, result, target>>
  PROVE  ThreadInv'
<1>0. store \in {0} \cup Bindings /\ revoked \subseteq Bindings
  BY DEF ThreadInv, ThreadTypes
<1>1. CASE (\E l \in Loads : pc[l] = "idle") /\ Goto(CHOOSE l \in Loads : pc[l] = "idle", "lock")
  <2> DEFINE chosen == CHOOSE l \in Loads : pc[l] = "idle"
  <2>1. chosen \in Threads /\ chosen # "ui"
    BY <1>1, Names
  <2> HIDE DEF chosen
  <2> QED BY <1>0, <1>1, <2>1, GotoStep DEF chosen, Places, Locked
<1>2. CASE UNCHANGED pc
  BY <1>2 DEF ThreadInv, ThreadTypes, MutexInv, CredentialInv
<1> QED BY <1>1, <1>2 DEF SpawnLoad

\* Every other step leaves the threads where they are.
LEMMA ThreadsStart == Init => ThreadInv
<1> SUFFICES ASSUME Init PROVE ThreadInv
  OBVIOUS
<1>1. ThreadTypes
  BY DEF Init, ThreadTypes, Places, Locked, Bindings, Results
<1>2. \A t \in Threads : pc[t] \in {"idle", "lock"}
  BY DEF Init
<1>3. pc["ui"] = "idle"
  BY Names, AccountAssumption DEF Init
<1> QED BY <1>1, <1>2, <1>3 DEF ThreadInv, MutexInv, CredentialInv, Locked

LEMMA ThreadsKept == ThreadInv /\ [Next]_vars => ThreadInv'
<1> SUFFICES ASSUME ThreadInv, [Next]_vars PROVE ThreadInv'
  OBVIOUS
<1> USE DEF vars, sessionVars, panelVars, pairingVars
<1>0. store \in {0} \cup Bindings /\ revoked \subseteq Bindings
  BY DEF ThreadInv, ThreadTypes
<1> DEFINE Left == UNCHANGED <<owner, pc, cur, again, result, target>>
<1>1. ASSUME Left, store' \in {0} \cup Bindings, revoked' \subseteq Bindings,
             revoked \subseteq revoked'
      PROVE  ThreadInv'
  BY <1>1 DEF ThreadInv, ThreadTypes, MutexInv, CredentialInv
<1>2. ASSUME NEW t \in Threads, ThreadStep(t) PROVE ThreadInv'
  BY <1>2, ThreadStepKeeps
<1>3. ASSUME NEW l \in Loads, SendLoaded(l) PROVE ThreadInv'
  <2>1. ThreadTypes'
    BY <1>3, Names DEF SendLoaded, Goto, ThreadInv, ThreadTypes, Places, Results
  <2>2. pc'[l] = "idle" /\ \A u \in Threads \ {l} : pc'[u] = pc[u] /\ cur'[u] = cur[u]
    BY <1>3, Names DEF SendLoaded, Goto, ThreadInv, ThreadTypes
  <2> QED BY <1>3, <2>1, <2>2, OneThread, Names DEF SendLoaded, Locked
<1>4. ASSUME NEW r \in Requests, Create(r) \/ PollStep(r) PROVE ThreadInv'
  <2>1. Left /\ store' \in {0} \cup Bindings /\ revoked' = revoked
    BY <1>0, <1>4, NumbersOfBindings DEF Create, PollStep, Poll, PollChecks, PollSaves, PollReports
  <2> QED BY <1>0, <1>1, <2>1
<1>5. CASE Logout \/ Delete \/ Clear \/ LogoutEnds
  BY <1>5, LogoutKeeps
<1>6. CASE HandleLoaded \/ HandleStarted \/ PollPairing \/ BeginLoad \/ StartPairing
           \/ CloseWindow \/ OpenDevices \/ RevokeElsewhere
  <2>1. Left /\ store' = store /\ revoked \subseteq revoked' /\ revoked' \subseteq Bindings
    BY <1>0, <1>6 DEF HandleLoaded, HandleStarted, PollPairing, BeginLoad, StartPairing,
                      CloseWindow, OpenDevices, RevokeElsewhere
  <2> QED BY <1>0, <1>1, <2>1
<1>7. CASE Refresh
  BY <1>7, SpawnKeeps DEF Refresh
<1>8. CASE HandlePaired
  <2>1. UNCHANGED <<store, revoked, owner, cur, again, result, target>>
        /\ (SpawnLoad("first") \/ UNCHANGED pc)
    BY <1>8 DEF HandlePaired
  <2> QED BY <1>0, <1>1, <2>1, SpawnKeeps
<1>9. CASE AskForToken
  BY <1>0, <1>9, GotoStep, Names DEF AskForToken, Places, Locked
<1>10. CASE UNCHANGED vars
  BY <1>0, <1>1, <1>10
<1> QED BY <1>2, <1>3, <1>4, <1>5, <1>6, <1>7, <1>8, <1>9, <1>10, Names
        DEF Next, LogoutStep, Handle, User

-----------------------------------------------------------------------------
(***************************************************************************)
(* The binding is forgotten only after a revocation.                       *)
(***************************************************************************)

LEMMA ForgetsTheRevoked ==
  ASSUME ThreadInv, [Next]_vars, store # 0, store' = 0 PROVE revoked # {}
<1> USE DEF vars, sessionVars, panelVars, pairingVars
<1>1. store' # store
  OBVIOUS
<1>2. ASSUME NEW t \in Threads, ThreadStep(t) PROVE revoked # {}
  <2>1. Save(t) \/ Wipe(t)
    BY <1>1, <1>2 DEF ThreadStep, Acquire, LoadCredentials, Issue, Post, UseToken
  <2>2. ~Save(t)
    BY <1>1, NumbersOfBindings DEF Save, ThreadInv, CredentialInv
  <2> QED BY <2>1, <2>2 DEF Wipe, ThreadInv, CredentialInv
<1>3. ASSUME NEW r \in Requests, Create(r) \/ PollStep(r) PROVE FALSE
  BY <1>1, <1>3, NumbersOfBindings DEF Create, PollStep, Poll, PollChecks, PollSaves, PollReports
<1>4. CASE Clear
  BY <1>4 DEF Clear, ThreadInv, CredentialInv
<1>5. ASSUME NEW l \in Loads, SendLoaded(l) PROVE FALSE
  BY <1>1, <1>5 DEF SendLoaded
<1>6. ~(Logout \/ Delete \/ LogoutEnds \/ AskForToken \/ Refresh \/ UNCHANGED vars)
  BY <1>1 DEF Logout, Delete, LogoutEnds, AskForToken, Refresh
<1>7. ~(HandleLoaded \/ HandleStarted \/ HandlePaired \/ PollPairing \/ BeginLoad
        \/ StartPairing \/ CloseWindow \/ OpenDevices \/ RevokeElsewhere)
  BY <1>1 DEF HandleLoaded, HandleStarted, HandlePaired, PollPairing, BeginLoad, StartPairing,
              CloseWindow, OpenDevices, RevokeElsewhere
<1> QED BY <1>2, <1>3, <1>4, <1>5, <1>6, <1>7, Names DEF Next, LogoutStep, Handle, User

LEMMA ThreadsHold == Spec => []ThreadInv
<1>1. ThreadInv /\ [Next]_vars => ThreadInv'
  BY ThreadsKept
<1> QED BY <1>1, ThreadsStart, PTL DEF Spec

\* No failed, refused or late answer, no storage error and no interrupted logout forgets the
\* binding: it is forgotten only after the server revoked one of this device's
\* (issue_device_session_without_lock, revoke_device).
THEOREM ForgettingIsEarned == Spec => OnlyRevokedIsForgotten
<1>1. ThreadInv /\ [Next]_vars => [store # 0 /\ store' = 0 => revoked # {}]_vars
  BY ForgetsTheRevoked
<1> QED BY <1>1, ThreadsHold, PTL DEF Spec, OnlyRevokedIsForgotten

-----------------------------------------------------------------------------
(***************************************************************************)
(* The channel to the panel.                                               *)
(***************************************************************************)

LEMMA TailFacts ==
  ASSUME NEW S, NEW q \in Seq(S), q # <<>>
  PROVE  /\ Tail(q) \in Seq(S) /\ Len(q) \in Nat /\ Len(Tail(q)) = Len(q) - 1
         /\ Head(q) = q[1] /\ Head(q) \in S /\ 1 \in 1..Len(q)
         /\ \A i \in 1..Len(Tail(q)) : Tail(q)[i] = q[i + 1] /\ i + 1 \in 1..Len(q) /\ i + 1 # 1
         /\ \A i \in 1..Len(q) : i # 1 => i - 1 \in 1..Len(Tail(q)) /\ Tail(q)[i - 1] = q[i]
  OBVIOUS

LEMMA AppendFacts ==
  ASSUME NEW S, NEW q \in Seq(S), NEW m \in S
  PROVE  /\ Append(q, m) \in Seq(S) /\ Len(q) \in Nat /\ Len(Append(q, m)) = Len(q) + 1
         /\ \A i \in 1..Len(q) : Append(q, m)[i] = q[i] /\ i \in 1..Len(Append(q, m))
         /\ Append(q, m)[Len(q) + 1] = m /\ Len(q) + 1 \in 1..Len(Append(q, m))
         /\ \A i \in 1..Len(Append(q, m)) : i \in 1..Len(q) \/ i = Len(q) + 1
  OBVIOUS

LEMMA InboxTail ==
  ASSUME NEW q, InboxOK(q), q # <<>>
  PROVE  /\ InboxOK(Tail(q)) /\ Head(q) \in Messages
         /\ Head(q).kind # "loaded" => Head(q).request \in Requests
<1>0. q \in Seq(Messages)
  BY DEF InboxOK
<1>1. InboxOK(Tail(q))
  BY <1>0, TailFacts DEF InboxOK
<1> QED BY <1>0, <1>1, TailFacts DEF InboxOK

LEMMA InboxAppend ==
  ASSUME NEW q, InboxOK(q), NEW m \in Messages, m.kind # "loaded" => m.request \in Requests
  PROVE  InboxOK(Append(q, m))
<1>0. q \in Seq(Messages)
  BY DEF InboxOK
<1>1. SUFFICES ASSUME NEW i \in 1..Len(Append(q, m)), Append(q, m)[i].kind # "loaded"
               PROVE  Append(q, m)[i].request \in Requests
  BY <1>0, AppendFacts DEF InboxOK
<1>2. CASE i \in 1..Len(q)
  BY <1>0, <1>1, <1>2, AppendFacts DEF InboxOK
<1>3. CASE i = Len(q) + 1
  BY <1>0, <1>1, <1>3, AppendFacts
<1> QED BY <1>0, <1>2, <1>3, AppendFacts

LEMMA StartedTail ==
  ASSUME NEW q, InboxOK(q), q # <<>>, OnceEach(q)
  PROVE  /\ OnceEach(Tail(q))
         /\ \A r : StartedIn(Tail(q), r) => StartedIn(q, r)
         /\ Head(q).kind = "started" =>
               StartedIn(q, Head(q).request) /\ ~StartedIn(Tail(q), Head(q).request)
<1>0. q \in Seq(Messages)
  BY DEF InboxOK
<1>1. OnceEach(Tail(q))
  <2> SUFFICES ASSUME NEW i \in 1..Len(Tail(q)), NEW j \in 1..Len(Tail(q)),
                      Tail(q)[i].kind = "started", Tail(q)[j].kind = "started",
                      Tail(q)[i].request = Tail(q)[j].request
               PROVE  i = j
    BY DEF OnceEach
  <2>1. i + 1 = j + 1
    BY <1>0, TailFacts DEF OnceEach
  <2> QED BY <1>0, <2>1, TailFacts
<1>2. \A r : StartedIn(Tail(q), r) => StartedIn(q, r)
  BY <1>0, TailFacts DEF StartedIn
<1>3. ASSUME Head(q).kind = "started"
      PROVE  StartedIn(q, Head(q).request) /\ ~StartedIn(Tail(q), Head(q).request)
  <2>1. StartedIn(q, Head(q).request)
    BY <1>0, <1>3, TailFacts DEF StartedIn
  <2>2. ASSUME NEW i \in 1..Len(Tail(q)), Tail(q)[i].kind = "started",
               Tail(q)[i].request = Head(q).request
        PROVE  FALSE
    BY <1>0, <1>3, <2>2, TailFacts DEF OnceEach
  <2> QED BY <2>1, <2>2 DEF StartedIn
<1> QED BY <1>1, <1>2, <1>3

LEMMA StartedAppend ==
  ASSUME NEW q, InboxOK(q), NEW m \in Messages
  PROVE  /\ \A r : StartedIn(Append(q, m), r)
                     => StartedIn(q, r) \/ (m.kind = "started" /\ m.request = r)
         /\ OnceEach(q) /\ (m.kind = "started" => ~StartedIn(q, m.request))
              => OnceEach(Append(q, m))
<1>0. q \in Seq(Messages)
  BY DEF InboxOK
<1>1. ASSUME NEW r, NEW i \in 1..Len(Append(q, m)),
             Append(q, m)[i].kind = "started", Append(q, m)[i].request = r
      PROVE  StartedIn(q, r) \/ (m.kind = "started" /\ m.request = r)
  <2>1. CASE i \in 1..Len(q)
    BY <1>0, <1>1, <2>1, AppendFacts DEF StartedIn
  <2>2. CASE i = Len(q) + 1
    BY <1>0, <1>1, <2>2, AppendFacts
  <2> QED BY <1>0, <2>1, <2>2, AppendFacts
<1>2. ASSUME OnceEach(q), m.kind = "started" => ~StartedIn(q, m.request),
             NEW i \in 1..Len(Append(q, m)), NEW j \in 1..Len(Append(q, m)),
             Append(q, m)[i].kind = "started", Append(q, m)[j].kind = "started",
             Append(q, m)[i].request = Append(q, m)[j].request
      PROVE  i = j
  <2>1. CASE i \in 1..Len(q) /\ j \in 1..Len(q)
    BY <1>0, <1>2, <2>1, AppendFacts DEF OnceEach
  <2>2. CASE i = Len(q) + 1 /\ j \in 1..Len(q)
    BY <1>0, <1>2, <2>2, AppendFacts DEF StartedIn
  <2>3. CASE i \in 1..Len(q) /\ j = Len(q) + 1
    BY <1>0, <1>2, <2>3, AppendFacts DEF StartedIn
  <2>4. CASE i = Len(q) + 1 /\ j = Len(q) + 1
    BY <2>4
  <2> QED BY <1>0, <2>1, <2>2, <2>3, <2>4, AppendFacts
<1>3. \A r : StartedIn(Append(q, m), r)
               => StartedIn(q, r) \/ (m.kind = "started" /\ m.request = r)
  BY <1>1 DEF StartedIn
<1>4. OnceEach(q) /\ (m.kind = "started" => ~StartedIn(q, m.request)) => OnceEach(Append(q, m))
  BY <1>2 DEF OnceEach
<1> QED BY <1>3, <1>4

-----------------------------------------------------------------------------
(***************************************************************************)
(* The panel and the requests keep their types.                            *)
(***************************************************************************)

\* The steps of the threads that the panel knows nothing of.
Unseen ==
    \/ \E t \in Threads : ThreadStep(t)
    \/ Delete \/ Clear \/ AskForToken \/ RevokeElsewhere

LEMMA UnseenLeave ==
  ASSUME ThreadInv, Unseen
  PROVE  /\ UNCHANGED <<panelVars, pairingVars, inbox>>
         /\ \A l \in Loads : pc[l] = "idle" => pc'[l] = "idle"
<1> USE DEF sessionVars
<1>1. ASSUME NEW t \in Threads, ThreadStep(t)
      PROVE  /\ UNCHANGED <<panelVars, pairingVars, inbox>>
             /\ \A l \in Loads : pc[l] = "idle" => pc'[l] = "idle"
  <2>1. UNCHANGED <<panelVars, pairingVars, inbox>>
    BY <1>1 DEF ThreadStep, Acquire, LoadCredentials, Issue, Post, Save, Wipe, UseToken
  <2>2. pc[t] # "idle" /\ \A u \in Threads \ {t} : pc'[u] = pc[u]
    BY <1>1 DEF ThreadStep, Acquire, LoadCredentials, Issue, Post, Save, Wipe, UseToken, End, Goto,
                ThreadInv, ThreadTypes
  <2> QED BY <2>1, <2>2, Names
<1>2. CASE Delete \/ Clear \/ AskForToken \/ RevokeElsewhere
  <2>1. UNCHANGED <<panelVars, pairingVars, inbox>>
    BY <1>2 DEF Delete, Clear, AskForToken, RevokeElsewhere
  <2>2. \A u \in Threads \ {"ui", "control"} : pc'[u] = pc[u]
    BY <1>2 DEF Delete, Clear, AskForToken, RevokeElsewhere, End, Goto, ThreadInv, ThreadTypes
  <2> QED BY <2>1, <2>2, Names
<1> QED BY <1>1, <1>2 DEF Unseen

LEMMA PanelStarts == Init => PanelTypes
<1> SUFFICES ASSUME Init PROVE PanelTypes
  OBVIOUS
<1>1. InboxOK(inbox)
  BY DEF Init, InboxOK
<1> QED BY <1>1 DEF Init, PanelTypes

LEMMA SpawnTypes ==
  ASSUME NEW s \in Active, SpawnLoad(s)
  PROVE  state' \in Active \cup {"error"} /\ loadStarted' \in BOOLEAN
BY DEF SpawnLoad

\* The number of the next request.
LEMMA NextRequest ==
  ASSUME Counts, created < MaxPairings
  PROVE  created + 2 \in Requests /\ created + 2 \notin Made
         /\ 2..(created + 1 + 1) = Made \cup {created + 2}
BY AccountAssumption DEF Counts, Requests, Made

LEMMA PanelTypesKept == ThreadInv /\ PanelTypes /\ Counts /\ [Next]_vars => PanelTypes'
<1> SUFFICES ASSUME ThreadInv, PanelTypes, Counts, [Next]_vars PROVE PanelTypes'
  OBVIOUS
<1> USE DEF vars, sessionVars, panelVars, pairingVars, Active
<1>1. CASE Unseen
  <2>1. UNCHANGED <<panelVars, pairingVars, inbox>>
    BY <1>1, UnseenLeave
  <2> QED BY <2>1 DEF PanelTypes
<1>2. CASE Logout \/ LogoutEnds \/ BeginLoad \/ CloseWindow \/ OpenDevices
  <2>1. UNCHANGED <<request, creating, poll, inbox>>
    BY <1>2 DEF Logout, LogoutEnds, BeginLoad, CloseWindow, OpenDevices
  <2>2. /\ state' \in {state, "disconnected", "loading", "connected"}
        /\ loadStarted' \in BOOLEAN
        /\ cancelled' \subseteq Requests /\ pairingCancel' \in {0} \cup Requests
    BY <1>2 DEF Logout, LogoutEnds, BeginLoad, CloseWindow, OpenDevices, CancelPairing, PanelTypes
  <2> QED BY <2>1, <2>2 DEF PanelTypes
<1>3. CASE Refresh
  BY <1>3, SpawnTypes DEF Refresh, PanelTypes
<1>4. CASE StartPairing
  <2>1. UNCHANGED <<request, loadStarted, poll, cancelled, pairingCancel, inbox>>
        /\ state' \in {"starting", "disconnected"}
    BY <1>4 DEF StartPairing
  <2>2. created + 2 \in Requests
    BY <1>4, NextRequest DEF StartPairing
  <2>3. creating' \subseteq Requests
    BY <1>4, <2>2, Zenon DEF StartPairing, PanelTypes
  <2> QED BY <2>1, <2>3 DEF PanelTypes
<1>5. CASE PollPairing
  BY <1>5 DEF PollPairing, PollTo, PanelTypes
<1>6. ASSUME NEW l \in Loads, SendLoaded(l) PROVE PanelTypes'
  <2>1. UNCHANGED <<panelVars, pairingVars>>
    BY <1>6 DEF SendLoaded
  <2>2. Message("loaded", 0, result[l]) \in Messages
    BY DEF Message, Messages, ThreadInv, ThreadTypes
  <2>3. InboxOK(inbox')
    BY <1>6, <2>2, InboxAppend DEF SendLoaded, Send, PanelTypes, Message
  <2> QED BY <2>1, <2>3 DEF PanelTypes
<1>7. ASSUME NEW r \in Requests, Create(r) PROVE PanelTypes'
  <2>1. UNCHANGED <<panelVars, poll, cancelled, pairingCancel>> /\ creating' \subseteq creating
    BY <1>7 DEF Create
  <2>2. \A res \in {"ok", "unavailable"} : Message("started", r, res) \in Messages
    BY DEF Message, Messages, Results
  <2>3. InboxOK(inbox')
    BY <1>7, <2>2, InboxAppend DEF Create, Send, PanelTypes, Message
  <2> QED BY <2>1, <2>3 DEF PanelTypes
<1>8. ASSUME NEW r \in Requests, PollStep(r) PROVE PanelTypes'
  <2>1. UNCHANGED <<panelVars, creating, cancelled, pairingCancel>>
    BY <1>8 DEF PollStep, Poll, PollChecks, PollSaves, PollReports
  <2>2. poll' \in [Requests -> {"off", "poll", "got", "save", "saved"}]
    BY <1>8 DEF PollStep, Poll, PollChecks, PollSaves, PollReports, Report, PollTo, PanelTypes
  <2>3. \A res \in {"ended", "unavailable", "storage", "ok"} : Message("paired", r, res) \in Messages
    BY DEF Message, Messages, Results
  <2>4. UNCHANGED inbox \/ \E res \in {"ended", "unavailable", "storage", "ok"} :
                              Send(Message("paired", r, res))
    BY <1>8 DEF PollStep, Poll, PollChecks, PollSaves, PollReports, Report
  <2>5. InboxOK(inbox')
    BY <2>3, <2>4, InboxAppend DEF Send, PanelTypes, Message
  <2> QED BY <2>1, <2>2, <2>5 DEF PanelTypes
<1>9. CASE HandleLoaded \/ HandleStarted \/ HandlePaired
  <2>0. inbox # <<>> /\ InboxOK(inbox')
    BY <1>9, InboxTail DEF HandleLoaded, HandleStarted, HandlePaired, Receive, PanelTypes
  <2>1. CASE HandleLoaded
    <3>1. UNCHANGED <<request, pairingVars>> /\ loadStarted' \in BOOLEAN
      BY <2>1 DEF HandleLoaded, StillStarted
    <3>2. state' = Loaded(state, Head(inbox).result)
      BY <2>1 DEF HandleLoaded
    <3>3. state' \in {state, "connected", "disconnected", "error"}
      BY <3>2 DEF Loaded
    <3> QED BY <2>0, <3>1, <3>3 DEF PanelTypes
  <2>2. CASE HandleStarted
    <3>1. UNCHANGED <<loadStarted, pairingVars>>
          /\ \/ state' = "waiting" /\ request' = Head(inbox).request
             \/ state' = "disconnected" /\ request' = request
      BY <2>2 DEF HandleStarted
    <3>2. Head(inbox).request \in Requests
      BY <2>0, <2>2, InboxTail DEF HandleStarted, PanelTypes
    <3> QED BY <2>0, <3>1, <3>2 DEF PanelTypes
  <2>3. CASE HandlePaired
    <3>1. UNCHANGED <<request, creating, poll, cancelled>>
          /\ pairingCancel' \in {0, pairingCancel}
      BY <2>3 DEF HandlePaired
    <3>2. /\ state' \in {state, "first", "error", "disconnected"}
          /\ loadStarted' \in {TRUE, FALSE, loadStarted}
      <4>1. CASE SpawnLoad("first")
        BY <4>1 DEF SpawnLoad
      <4>2. CASE loadStarted' = loadStarted /\ state' \in {state, "error", "disconnected"}
        BY <4>2
      <4> QED BY <2>3, <4>1, <4>2 DEF HandlePaired
    <3> QED BY <2>0, <3>1, <3>2 DEF PanelTypes
  <2> QED BY <1>9, <2>1, <2>2, <2>3 DEF Receive
<1>10. CASE UNCHANGED vars
  BY <1>10 DEF PanelTypes
<1> QED BY <1>1, <1>2, <1>3, <1>4, <1>5, <1>6, <1>7, <1>8, <1>9, <1>10, Names
        DEF Next, LogoutStep, Handle, User, Unseen

LEMMA CountsStart == Init => Counts
  BY AccountAssumption DEF Init, Counts

LEMMA CountsKept == Counts /\ [Next]_vars => Counts'
<1> SUFFICES ASSUME Counts, [Next]_vars PROVE Counts'
  OBVIOUS
<1> USE DEF vars, sessionVars, panelVars, pairingVars
<1>1. CASE AskForToken
  BY <1>1, AccountAssumption DEF AskForToken, Counts
<1>2. CASE StartPairing
  BY <1>2, AccountAssumption DEF StartPairing, Counts
<1>3. CASE UNCHANGED <<requests, created>>
  BY <1>3 DEF Counts
<1>4. ASSUME NEW t \in Threads, ThreadStep(t) PROVE UNCHANGED <<requests, created>>
  BY <1>4 DEF ThreadStep, Acquire, LoadCredentials, Issue, Post, Save, Wipe, UseToken
<1>5. ASSUME NEW r \in Requests, Create(r) \/ PollStep(r) PROVE UNCHANGED <<requests, created>>
  BY <1>5 DEF Create, PollStep, Poll, PollChecks, PollSaves, PollReports
<1>6. ASSUME NEW l \in Loads, SendLoaded(l) PROVE UNCHANGED <<requests, created>>
  BY <1>6 DEF SendLoaded
<1>7. CASE Logout \/ Delete \/ Clear \/ LogoutEnds \/ Refresh \/ CloseWindow \/ OpenDevices
  BY <1>3, <1>7 DEF Logout, Delete, Clear, LogoutEnds, Refresh, CloseWindow, OpenDevices
<1>8. CASE HandleLoaded \/ HandleStarted \/ HandlePaired \/ PollPairing \/ BeginLoad
           \/ RevokeElsewhere
  BY <1>3, <1>8 DEF HandleLoaded, HandleStarted, HandlePaired, PollPairing, BeginLoad,
                    RevokeElsewhere
<1> QED BY <1>1, <1>2, <1>3, <1>4, <1>5, <1>6, <1>7, <1>8, Names
        DEF Next, LogoutStep, Handle, User

-----------------------------------------------------------------------------
(***************************************************************************)
(* What is counted.                                                        *)
(***************************************************************************)

LEMMA Finite ==
  ASSUME NEW S, S \subseteq Loads \/ S \subseteq Requests
  PROVE  IsFiniteSet(S) /\ Cardinality(S) \in Nat
<1>1. IsFiniteSet(Loads)
  BY AccountAssumption
<1>2. IsFiniteSet(Requests)
  BY AccountAssumption, FS_Interval DEF Requests
<1> QED BY <1>1, <1>2, FS_Subset, FS_CardinalityType

LEMMA Fewer ==
  ASSUME NEW S, IsFiniteSet(S), NEW T
  PROVE  /\ T \subseteq S => Cardinality(T) <= Cardinality(S)
         /\ \A x \in S : T \subseteq S \ {x} => Cardinality(T) <= Cardinality(S) - 1
         /\ \A x : T \subseteq S \cup {x} => Cardinality(T) <= Cardinality(S) + 1
<1>0. Cardinality(S) \in Nat
  BY FS_CardinalityType
<1>1. T \subseteq S => Cardinality(T) <= Cardinality(S)
  BY FS_Subset
<1>2. ASSUME NEW x \in S, T \subseteq S \ {x} PROVE Cardinality(T) <= Cardinality(S) - 1
  <2>1. IsFiniteSet(S \ {x}) /\ Cardinality(S \ {x}) = Cardinality(S) - 1
    BY <1>2, FS_RemoveElement
  <2> QED BY <1>2, <2>1, FS_Subset
<1>3. ASSUME NEW x, T \subseteq S \cup {x} PROVE Cardinality(T) <= Cardinality(S) + 1
  <2>1. /\ IsFiniteSet(S \cup {x}) /\ Cardinality(S \cup {x}) \in Nat
        /\ Cardinality(S \cup {x}) <= Cardinality(S) + 1
    <3>1. /\ IsFiniteSet(S \cup {x})
          /\ Cardinality(S \cup {x}) = IF x \in S THEN Cardinality(S) ELSE Cardinality(S) + 1
      BY FS_AddElement
    <3> QED BY <1>0, <3>1
  <2>2. Cardinality(T) <= Cardinality(S \cup {x}) /\ Cardinality(T) \in Nat
    BY <1>3, <2>1, FS_Subset, FS_CardinalityType
  <2> QED BY <1>0, <2>1, <2>2
<1> QED BY <1>1, <1>2, <1>3

LEMMA Parts ==
  /\ Running \subseteq Loads /\ Running' \subseteq Loads
  /\ Open \subseteq Requests /\ Open' \subseteq Requests
  /\ PanelTypes => New \subseteq Requests
  /\ PanelTypes' => New' \subseteq Requests
BY DEF Running, Open, New, PanelTypes

\* The numbers of a step: the sets, before and after it.
LEMMA Sizes ==
  ASSUME PanelTypes, PanelTypes'
  PROVE  /\ Len(inbox) \in Nat /\ Len(inbox') \in Nat
         /\ IsFiniteSet(Running) /\ Cardinality(Running) \in Nat /\ Cardinality(Running') \in Nat
         /\ IsFiniteSet(New) /\ Cardinality(New) \in Nat /\ Cardinality(New') \in Nat
         /\ IsFiniteSet(Open) /\ Cardinality(Open) \in Nat /\ Cardinality(Open') \in Nat
<1>1. Len(inbox) \in Nat /\ Len(inbox') \in Nat
  BY DEF PanelTypes, InboxOK
<1> QED BY <1>1, Parts, Finite

LEMMA TollType ==
  ASSUME PanelTypes, PanelTypes' PROVE Toll \in Nat /\ Toll' \in Nat
<1>1. Toll \in Nat
  BY Sizes DEF Toll
<1>2. Toll' \in Nat
  BY Sizes DEF Toll
<1> QED BY <1>1, <1>2

\* How the panel's debts may change.
LEMMA TollMoves ==
  ASSUME PanelTypes, PanelTypes', TollInv,
         \/ Toll' <= Toll /\ (Settles' => Settles)
         \/ Toll' <= Toll - 1
         \/ Toll' <= Toll + 1 /\ Settles /\ ~Settles'
  PROVE  TollInv'
<1> USE AccountAssumption, TollType DEF TollInv
<1>1. CASE Toll' <= Toll /\ (Settles' => Settles)
  BY <1>1
<1>2. CASE Toll' <= Toll - 1
  BY <1>2
<1>3. CASE Toll' <= Toll + 1 /\ Settles /\ ~Settles'
  BY <1>3
<1> QED BY <1>1, <1>2, <1>3

\* A step after which nothing more can come than before.
LEMMA TollFalls ==
  ASSUME PanelTypes, PanelTypes', Running' \subseteq Running, New' \subseteq New,
         Open' \subseteq Open
  PROVE  Toll' - Len(inbox') <= Toll - Len(inbox)
<1>1. /\ Cardinality(Running') <= Cardinality(Running)
      /\ Cardinality(New') <= Cardinality(New)
      /\ Cardinality(Open') <= Cardinality(Open)
  BY Sizes, Fewer
<1> QED BY <1>1, Sizes DEF Toll

\* A step that takes no request to another stage.
LEMMA StagesStay ==
  ASSUME StagesInv, New' = New, creating' \subseteq Made',
         \A r \in Requests : IsStarted(r)' => IsStarted(r),
         \A r \in Requests : IsPolled(r)' => IsPolled(r),
         \A r \in Requests : Awaited(r)' => Awaited(r),
         OnceEach(inbox')
  PROVE  StagesInv' /\ Open' \subseteq Open
<1>1. Open' \subseteq Open
  BY DEF Open
<1> QED BY <1>1 DEF StagesInv

-----------------------------------------------------------------------------
(***************************************************************************)
(* Every step keeps the stages of the requests and what is still to come.  *)
(***************************************************************************)

Kept == StagesInv' /\ TollInv'

\* A step that neither sends nor receives and makes no request.
LEMMA QuietStep ==
  ASSUME PanelInv, PanelTypes', UNCHANGED <<creating, created, inbox>>,
         \A r \in Requests : IsPolled(r)' => IsPolled(r),
         \A r \in Requests : Awaited(r)' => Awaited(r),
         Running' \subseteq Running, Settles' => Settles
  PROVE  Kept
<1>1. New' = New /\ creating' \subseteq Made' /\ OnceEach(inbox')
      /\ \A r : IsStarted(r)' => IsStarted(r)
  BY DEF New, Made, PanelInv, StagesInv, IsStarted
<1>2. StagesInv' /\ Open' \subseteq Open
  BY <1>1, StagesStay DEF PanelInv
<1>3. Toll' <= Toll
  BY <1>1, <1>2, TollFalls, TollType, Sizes DEF PanelInv
<1> QED BY <1>2, <1>3, TollMoves DEF PanelInv, Kept

LEMMA QuietSteps ==
  ASSUME ThreadInv, PanelInv, PanelTypes',
         \/ Unseen \/ Logout \/ LogoutEnds \/ BeginLoad \/ CloseWindow \/ OpenDevices
         \/ UNCHANGED vars
  PROVE  Kept
<1> USE DEF vars, sessionVars, panelVars, pairingVars
<1>1. CASE Unseen
  BY <1>1, UnseenLeave, QuietStep DEF IsPolled, Awaited, Running, Settles
<1>2. CASE Logout \/ LogoutEnds \/ BeginLoad \/ CloseWindow \/ OpenDevices \/ UNCHANGED vars
  <2>1. UNCHANGED <<creating, created, inbox, poll, request>>
    BY <1>2 DEF Logout, LogoutEnds, BeginLoad, CloseWindow, OpenDevices
  <2>2. state' = "waiting" => state = "waiting" /\ pairingCancel' = pairingCancel
    BY <1>2 DEF Logout, LogoutEnds, BeginLoad, CloseWindow, OpenDevices, CancelPairing
  <2>3. Settles' => Settles
    BY <1>2 DEF Logout, LogoutEnds, BeginLoad, CloseWindow, OpenDevices, CancelPairing, Settles,
                Active
  <2>4. \A l \in Loads : pc'[l] = pc[l]
    BY <1>2, Names DEF Logout, LogoutEnds, BeginLoad, CloseWindow, OpenDevices, Goto, ThreadInv,
                       ThreadTypes
  <2> QED BY <2>1, <2>2, <2>3, <2>4, QuietStep DEF IsPolled, Awaited, Running
<1> QED BY <1>1, <1>2

LEMMA StartPairingStep ==
  ASSUME PanelInv, PanelTypes', StartPairing PROVE Kept
<1> USE DEF sessionVars, panelVars, pairingVars
<1>0. /\ UNCHANGED <<poll, request, pairingCancel, inbox, pc>>
      /\ state' # "waiting" /\ ~Settles'
  BY DEF StartPairing, Settles, Active
<1>1. CASE UNCHANGED <<created, creating>>
  BY <1>0, <1>1, QuietStep DEF IsPolled, Awaited, Running
<1>2. CASE created' = created + 1 /\ creating' = creating \cup {created + 2}
  <2>1. created + 2 \in Requests /\ created + 2 \notin Made /\ Made' = Made \cup {created + 2}
    BY <1>2, NextRequest DEF StartPairing, Made, PanelInv
  <2>2. New' = New /\ creating' \subseteq Made'
    BY <1>2, <2>1 DEF New, PanelInv, StagesInv
  <2>3. StagesInv' /\ Open' \subseteq Open
    BY <1>0, <2>2, StagesStay DEF PanelInv, StagesInv, IsStarted, IsPolled, Awaited
  <2>4. Toll' <= Toll
    BY <1>0, <2>2, <2>3, TollFalls, TollType, Sizes DEF PanelInv, Running
  <2> QED BY <1>0, <2>3, <2>4, TollMoves DEF PanelInv, Kept
<1> QED BY <1>1, <1>2 DEF StartPairing

\* The creation of a request is reported: of two messages to come one is sent.
LEMMA CreateStep ==
  ASSUME PanelInv, PanelTypes', NEW r \in Requests, Create(r) PROVE Kept
<1> USE DEF sessionVars, panelVars, pairingVars
<1>1. PICK res \in {"ok", "unavailable"} : Send(Message("started", r, res))
  BY DEF Create
<1> DEFINE m == Message("started", r, res)
<1>2. m \in Messages /\ m.kind = "started" /\ m.request = r
  BY DEF Message, Messages, Results
<1>3. inbox' = Append(inbox, m)
  BY <1>1 DEF Send
<1>4. /\ UNCHANGED <<state, request, loadStarted, pairingCancel, poll, created, pc>>
      /\ r \in creating /\ creating' = creating \ {r}
  BY DEF Create
<1> HIDE DEF m
<1>5. r \in New /\ New' = New \ {r}
  BY <1>4 DEF New, Made, PanelInv, StagesInv
<1>6. ~IsStarted(r) /\ ~Awaited(r) /\ ~IsPolled(r)
  BY <1>5 DEF PanelInv, StagesInv, Open
<1>7. OnceEach(inbox') /\ \A q : IsStarted(q)' => IsStarted(q) \/ q = r
  BY <1>2, <1>3, <1>6, StartedAppend DEF PanelInv, PanelTypes, StagesInv, IsStarted
<1>8. Open' \subseteq Open \cup {r}
  BY <1>4, <1>7 DEF Open, Awaited, IsPolled
<1>9. StagesInv'
  <2>1. creating' \subseteq Made' /\ New' \cap Open' = {}
    BY <1>4, <1>5, <1>8 DEF PanelInv, StagesInv, Made
  <2>2. \A q \in Requests : (IsPolled(q)' => IsPolled(q)) /\ (Awaited(q)' => Awaited(q))
    BY <1>4 DEF IsPolled, Awaited
  <2>3. \A q \in Requests : IsPolled(q)' => ~IsStarted(q)' /\ ~Awaited(q)'
    BY <1>6, <1>7, <2>2 DEF PanelInv, StagesInv
  <2>4. \A q \in Requests : Awaited(q)' => ~IsStarted(q)'
    BY <1>6, <1>7, <2>2 DEF PanelInv, StagesInv
  <2> QED BY <1>7, <2>1, <2>3, <2>4 DEF StagesInv
<1>10. Toll' <= Toll
  <2>1. /\ Cardinality(Running') = Cardinality(Running)
        /\ Cardinality(New') <= Cardinality(New) - 1
        /\ Cardinality(Open') <= Cardinality(Open) + 1
    BY <1>4, <1>5, <1>8, Sizes, Fewer DEF PanelInv, Running
  <2>2. Len(inbox') = Len(inbox) + 1
    BY <1>2, <1>3, AppendFacts DEF PanelInv, PanelTypes, InboxOK
  <2> QED BY <2>1, <2>2, Sizes DEF PanelInv, Toll
<1> QED BY <1>4, <1>9, <1>10, TollMoves DEF PanelInv, Settles, Kept

\* The poll of a request ends with at most one report.
LEMMA PollStepKeeps ==
  ASSUME PanelInv, PanelTypes', NEW r \in Requests, PollStep(r) PROVE Kept
<1> USE DEF sessionVars, panelVars, pairingVars
<1>0. /\ UNCHANGED <<state, request, loadStarted, pairingCancel, creating, created, pc>>
      /\ IsPolled(r)
  BY DEF PollStep, Poll, PollChecks, PollSaves, PollReports, IsPolled
<1>1. \A q \in Requests : IsPolled(q)' => IsPolled(q)
  BY DEF PollStep, Poll, PollChecks, PollSaves, PollReports, IsPolled, Report, PollTo, PanelInv,
         PanelTypes
<1>2. CASE UNCHANGED inbox
  BY <1>0, <1>1, <1>2, QuietStep DEF Awaited, Running, Settles
<1>3. CASE \E res \in Results \cup {"ended"} : Report(r, res)
  <2>1. PICK res \in Results \cup {"ended"} : Report(r, res)
    BY <1>3
  <2> DEFINE m == Message("paired", r, res)
  <2>2. m \in Messages /\ m.kind = "paired"
    BY DEF Message, Messages
  <2>3. inbox' = Append(inbox, m) /\ ~IsPolled(r)'
    BY <2>1 DEF Report, Send, PollTo, IsPolled, PanelInv, PanelTypes
  <2> HIDE DEF m
  <2>4. OnceEach(inbox') /\ \A q : IsStarted(q)' => IsStarted(q)
    BY <2>2, <2>3, StartedAppend DEF PanelInv, PanelTypes, StagesInv, IsStarted
  <2>5. New' = New /\ creating' \subseteq Made' /\ \A q : Awaited(q)' => Awaited(q)
    BY <1>0 DEF New, Made, PanelInv, StagesInv, Awaited
  <2>6. StagesInv' /\ Open' \subseteq Open
    BY <1>1, <2>4, <2>5, StagesStay DEF PanelInv
  <2>7. r \in Open /\ Open' \subseteq Open \ {r}
    BY <1>0, <2>3, <2>4, <2>5, <2>6 DEF Open, PanelInv, StagesInv
  <2>8. Toll' <= Toll
    <3>1. /\ Cardinality(Running') = Cardinality(Running)
          /\ Cardinality(New') = Cardinality(New)
          /\ Cardinality(Open') <= Cardinality(Open) - 1
      BY <1>0, <2>5, <2>7, Sizes, Fewer DEF PanelInv, Running
    <3>2. Len(inbox') = Len(inbox) + 1
      BY <2>2, <2>3, AppendFacts DEF PanelInv, PanelTypes, InboxOK
    <3> QED BY <3>1, <3>2, Sizes DEF PanelInv, Toll
  <2> QED BY <1>0, <2>6, <2>8, TollMoves DEF PanelInv, Settles, Kept
<1> QED BY <1>2, <1>3 DEF PollStep, Poll, PollChecks, PollSaves, PollReports, Report, Results

\* The thread of an awaited request starts.
LEMMA PollPairingStep ==
  ASSUME PanelInv, PanelTypes', PollPairing PROVE Kept
<1> USE DEF sessionVars, panelVars, pairingVars
<1>0. /\ UNCHANGED <<request, loadStarted, creating, created, inbox, pc>>
      /\ request \in Requests /\ Awaited(request)
  BY DEF PollPairing, PanelInv, PanelTypes, Awaited
<1>1. CASE pairingCancel' = request /\ PollTo(request, "poll") /\ state' = state
  <2>1. \A r \in Requests : ~Awaited(r)' /\ (IsPolled(r)' => IsPolled(r) \/ r = request)
    BY <1>0, <1>1, NumbersOfBindings DEF Awaited, IsPolled, PollTo, PanelInv, PanelTypes
  <2>2. New' = New /\ creating' \subseteq Made' /\ \A r : IsStarted(r)' <=> IsStarted(r)
    BY <1>0 DEF New, Made, PanelInv, StagesInv, IsStarted
  <2>3. ~IsStarted(request) /\ request \in Open
    BY <1>0 DEF PanelInv, StagesInv, Open
  <2>4. Open' \subseteq Open
    BY <2>1, <2>2, <2>3 DEF Open
  <2>5. StagesInv'
    BY <1>0, <2>1, <2>2, <2>3, <2>4 DEF PanelInv, StagesInv
  <2>6. Toll' <= Toll
    BY <1>0, <2>2, <2>4, TollFalls, TollType, Sizes DEF PanelInv, Running
  <2> QED BY <1>0, <1>1, <2>5, <2>6, TollMoves DEF PanelInv, Settles, Kept
<1>2. CASE state' = "error" /\ UNCHANGED <<poll, pairingCancel>>
  BY <1>0, <1>2, QuietStep DEF Awaited, IsPolled, Running, Settles, Active
<1> QED BY <1>1, <1>2 DEF PollPairing

\* A load tells the panel once.
LEMMA SendLoadedStep ==
  ASSUME ThreadInv, PanelInv, PanelTypes', NEW l \in Loads, SendLoaded(l) PROVE Kept
<1> USE DEF sessionVars, panelVars, pairingVars
<1> DEFINE m == Message("loaded", 0, result[l])
<1>1. m \in Messages /\ m.kind = "loaded"
  BY DEF Message, Messages, ThreadInv, ThreadTypes
<1>2. inbox' = Append(inbox, m)
  BY DEF SendLoaded, Send
<1>3. /\ UNCHANGED <<panelVars, pairingVars>>
      /\ l \in Running /\ Running' \subseteq Running \ {l}
  BY Names DEF SendLoaded, Goto, ThreadInv, ThreadTypes, Running
<1> HIDE DEF m
<1>4. OnceEach(inbox') /\ \A q : IsStarted(q)' => IsStarted(q)
  BY <1>1, <1>2, StartedAppend DEF PanelInv, PanelTypes, StagesInv, IsStarted
<1>5. /\ New' = New /\ creating' \subseteq Made'
      /\ \A q : (Awaited(q)' => Awaited(q)) /\ (IsPolled(q)' => IsPolled(q))
  BY <1>3 DEF New, Made, PanelInv, StagesInv, Awaited, IsPolled
<1>6. StagesInv' /\ Open' \subseteq Open
  BY <1>4, <1>5, StagesStay DEF PanelInv
<1>7. Toll' <= Toll
  <2>1. /\ Cardinality(Running') <= Cardinality(Running) - 1
        /\ Cardinality(New') = Cardinality(New)
        /\ Cardinality(Open') <= Cardinality(Open)
    BY <1>3, <1>5, <1>6, Sizes, Fewer DEF PanelInv
  <2>2. Len(inbox') = Len(inbox) + 1
    BY <1>1, <1>2, AppendFacts DEF PanelInv, PanelTypes, InboxOK
  <2> QED BY <2>1, <2>2, Sizes DEF PanelInv, Toll
<1> QED BY <1>3, <1>6, <1>7, TollMoves DEF PanelInv, Settles, Kept

\* A message is taken from the channel.
LEMMA ReceiveStep ==
  ASSUME PanelInv, Receive
  PROVE  /\ Len(inbox') = Len(inbox) - 1 /\ OnceEach(inbox')
         /\ \A q : IsStarted(q)' => IsStarted(q)
         /\ \A q : Head(inbox).kind = "started" /\ q = Head(inbox).request
                     => q \in Requests /\ IsStarted(q) /\ ~IsStarted(q)'
<1>1. inbox # <<>> /\ inbox' = Tail(inbox) /\ InboxOK(inbox) /\ OnceEach(inbox)
  BY DEF Receive, PanelInv, PanelTypes, StagesInv
<1>2. Len(inbox') = Len(inbox) - 1
  BY <1>1, TailFacts DEF InboxOK
<1>3. Head(inbox).kind # "loaded" => Head(inbox).request \in Requests
  BY <1>1, InboxTail
<1>4. /\ OnceEach(inbox')
      /\ \A q : StartedIn(inbox', q) => StartedIn(inbox, q)
      /\ Head(inbox).kind = "started" =>
            StartedIn(inbox, Head(inbox).request) /\ ~StartedIn(inbox', Head(inbox).request)
  BY <1>1, StartedTail
<1>5. \A q : IsStarted(q)' <=> StartedIn(inbox', q)
  BY DEF IsStarted, StartedIn
<1>6. Head(inbox).kind = "started" => Head(inbox).kind # "loaded"
  OBVIOUS
<1> QED BY <1>2, <1>3, <1>4, <1>5, <1>6, Zenon DEF IsStarted

\* The panel starts a load.
LEMMA SpawnRuns ==
  ASSUME ThreadInv, NEW s, SpawnLoad(s)
  PROVE  \/ Running' \subseteq Running /\ state' = "error"
         \/ (\E l : Running' \subseteq Running \cup {l}) /\ loadStarted' /\ state' = s
<1>1. CASE UNCHANGED pc /\ state' = "error"
  BY <1>1 DEF Running
<1>2. CASE /\ Goto(CHOOSE l \in Loads : pc[l] = "idle", "lock")
           /\ loadStarted' = TRUE /\ state' = s
  <2> DEFINE chosen == CHOOSE l \in Loads : pc[l] = "idle"
  <2>1. pc' = [pc EXCEPT ![chosen] = "lock"]
    BY <1>2 DEF Goto
  <2> HIDE DEF chosen
  <2>2. Running' \subseteq Running \cup {chosen}
    BY <2>1, Names DEF Running, ThreadInv, ThreadTypes
  <2> QED BY <1>2, <2>2
<1> QED BY <1>1, <1>2 DEF SpawnLoad

LEMMA RefreshStep ==
  ASSUME ThreadInv, PanelInv, PanelTypes', Refresh PROVE Kept
<1> USE DEF panelVars, pairingVars
<1>0. /\ UNCHANGED <<request, pairingVars, inbox>> /\ SpawnLoad("connected")
      /\ Settles /\ state # "waiting"
  BY DEF Refresh, Settles, Active
<1>1. state' \in {"connected", "error"}
  BY <1>0 DEF SpawnLoad
<1>2. /\ New' = New /\ creating' \subseteq Made' /\ OnceEach(inbox')
      /\ \A q : (IsStarted(q)' => IsStarted(q)) /\ ~Awaited(q)' /\ (IsPolled(q)' => IsPolled(q))
  BY <1>0, <1>1 DEF New, Made, PanelInv, StagesInv, Awaited, IsPolled, IsStarted
<1>3. StagesInv' /\ Open' \subseteq Open
  BY <1>2, StagesStay DEF PanelInv
<1>4. CASE Running' \subseteq Running /\ state' = "error"
  <2>1. Toll' <= Toll
    BY <1>0, <1>2, <1>3, <1>4, TollFalls, TollType, Sizes DEF PanelInv
  <2> QED BY <1>0, <1>3, <2>1, TollMoves DEF PanelInv, Kept
<1>5. CASE (\E l : Running' \subseteq Running \cup {l}) /\ loadStarted'
  <2>1. /\ Cardinality(Running') <= Cardinality(Running) + 1
        /\ Cardinality(New') = Cardinality(New)
        /\ Cardinality(Open') <= Cardinality(Open)
    BY <1>2, <1>3, <1>5, Sizes, Fewer DEF PanelInv
  <2>2. Toll' <= Toll + 1
    BY <1>0, <2>1, Sizes DEF PanelInv, Toll
  <2>3. ~Settles'
    BY <1>5 DEF Settles
  <2> QED BY <1>0, <1>3, <2>2, <2>3, TollMoves DEF PanelInv, Kept
<1> QED BY <1>0, <1>4, <1>5, SpawnRuns

LEMMA HandleLoadedStep ==
  ASSUME PanelInv, PanelTypes', HandleLoaded PROVE Kept
<1> USE DEF sessionVars, pairingVars
<1>0. /\ UNCHANGED <<request, pairingVars, pc>> /\ Receive
      /\ state' = Loaded(state, Head(inbox).result)
  BY DEF HandleLoaded
<1>1. state' = "waiting" => state = "waiting"
  BY <1>0 DEF Loaded
<1>2. /\ New' = New /\ creating' \subseteq Made'
      /\ \A q : (Awaited(q)' => Awaited(q)) /\ (IsPolled(q)' => IsPolled(q))
  BY <1>0, <1>1 DEF New, Made, PanelInv, StagesInv, Awaited, IsPolled
<1>3. StagesInv' /\ Open' \subseteq Open
  BY <1>0, <1>2, ReceiveStep, StagesStay DEF PanelInv
<1>4. Toll' <= Toll - 1
  BY <1>0, <1>2, <1>3, ReceiveStep, TollFalls, TollType, Sizes DEF PanelInv, Running
<1> QED BY <1>3, <1>4, TollMoves DEF PanelInv, Kept

LEMMA HandleStartedStep ==
  ASSUME PanelInv, PanelTypes', HandleStarted PROVE Kept
<1> USE DEF sessionVars, pairingVars
<1> PICK r : r = Head(inbox).request
  OBVIOUS
<1>0. /\ UNCHANGED <<loadStarted, pairingVars, pc>> /\ Receive /\ Head(inbox).kind = "started"
      /\ (state' = "waiting" /\ request' = r) \/ state' = "disconnected"
  BY DEF HandleStarted
<1>1. r \in Requests /\ IsStarted(r) /\ ~IsStarted(r)'
      /\ OnceEach(inbox') /\ Len(inbox') = Len(inbox) - 1
      /\ \A q : IsStarted(q)' => IsStarted(q)
  BY <1>0, ReceiveStep
<1>2. \A q \in Requests : (Awaited(q)' => q = r) /\ (IsPolled(q)' <=> IsPolled(q))
  BY <1>0 DEF Awaited, IsPolled
<1>3. New' = New /\ creating' \subseteq Made'
  BY <1>0 DEF New, Made, PanelInv, StagesInv
<1>4. r \in Open /\ ~IsPolled(r) /\ Open' \subseteq Open
  BY <1>1, <1>2 DEF Open, PanelInv, StagesInv
<1>5. StagesInv'
  <2>1. \A q \in Requests : IsPolled(q)' => ~IsStarted(q)' /\ ~Awaited(q)'
    BY <1>1, <1>2, <1>4 DEF PanelInv, StagesInv
  <2>2. \A q \in Requests : Awaited(q)' => ~IsStarted(q)'
    BY <1>1, <1>2
  <2>3. New' \cap Open' = {}
    BY <1>3, <1>4 DEF PanelInv, StagesInv
  <2> QED BY <1>1, <1>3, <2>1, <2>2, <2>3 DEF StagesInv
<1>6. Toll' <= Toll - 1
  BY <1>0, <1>1, <1>3, <1>4, TollFalls, TollType, Sizes DEF PanelInv, Running
<1> QED BY <1>5, <1>6, TollMoves DEF PanelInv, Kept

\* A pairing that was answered may start a load: one message less, one load more.
LEMMA HandlePairedStep ==
  ASSUME ThreadInv, PanelInv, PanelTypes', HandlePaired PROVE Kept
<1> USE DEF pairingVars
<1>0. UNCHANGED <<request, creating, created, poll>> /\ Receive
  BY DEF HandlePaired
<1>1. state' = "waiting" => state = "waiting" /\ pairingCancel' = pairingCancel
  BY DEF HandlePaired, SpawnLoad
<1>2. /\ New' = New /\ creating' \subseteq Made'
      /\ \A q : (Awaited(q)' => Awaited(q)) /\ (IsPolled(q)' => IsPolled(q))
  BY <1>0, <1>1 DEF New, Made, PanelInv, StagesInv, Awaited, IsPolled
<1>3. StagesInv' /\ Open' \subseteq Open
  BY <1>0, <1>2, ReceiveStep, StagesStay DEF PanelInv
<1>4. CASE Running' \subseteq Running
  <2>1. Toll' <= Toll - 1
    BY <1>0, <1>2, <1>3, <1>4, ReceiveStep, TollFalls, TollType, Sizes DEF PanelInv
  <2> QED BY <1>3, <2>1, TollMoves DEF PanelInv, Kept
<1>5. CASE (\E l : Running' \subseteq Running \cup {l}) /\ loadStarted'
  <2>1. /\ Cardinality(Running') <= Cardinality(Running) + 1
        /\ Cardinality(New') = Cardinality(New)
        /\ Cardinality(Open') <= Cardinality(Open)
    BY <1>2, <1>3, <1>5, Sizes, Fewer DEF PanelInv
  <2>2. Len(inbox') = Len(inbox) - 1
    BY <1>0, ReceiveStep
  <2>3. Toll' <= Toll
    BY <2>1, <2>2, Sizes DEF PanelInv, Toll
  <2>4. ~Settles'
    BY <1>5 DEF Settles
  <2> QED BY <1>3, <2>3, <2>4, TollMoves DEF PanelInv, Kept
<1>6. CASE UNCHANGED pc
  BY <1>4, <1>6 DEF Running
<1> QED BY <1>4, <1>5, <1>6, SpawnRuns DEF HandlePaired

-----------------------------------------------------------------------------
(***************************************************************************)
(* The theorem.                                                            *)
(***************************************************************************)

LEMMA StagesStart == Init => StagesInv /\ TollInv
<1> SUFFICES ASSUME Init PROVE StagesInv /\ TollInv
  OBVIOUS
<1>0. inbox = <<>> /\ creating = {} /\ created = 0 /\ state = "disconnected"
      /\ poll = [r \in Requests |-> "off"] /\ loadStarted
  BY DEF Init
<1>1. Open = {} /\ OnceEach(inbox)
  BY <1>0 DEF Open, IsStarted, StartedIn, Awaited, IsPolled, OnceEach
<1>2. StagesInv
  BY <1>0, <1>1 DEF StagesInv, IsStarted, StartedIn, Awaited, IsPolled
<1>3. Cardinality(Running) <= 1 /\ Cardinality(Running) \in Nat
  <2> DEFINE first == CHOOSE l \in Loads : TRUE
  <2>1. \A l \in Loads : pc[l] # "idle" => l = first
    BY Names DEF Init
  <2> HIDE DEF first
  <2>2. Running \subseteq {first}
    BY <2>1 DEF Running
  <2>3. IsFiniteSet({first}) /\ Cardinality({first}) = 1
    BY FS_Singleton
  <2>4. Cardinality(Running) <= Cardinality({first})
    BY <2>2, <2>3, FS_Subset
  <2> QED BY <2>3, <2>4, Finite, Parts
<1>4. Cardinality(New) = MaxPairings
  <2>1. New = Requests
    BY <1>0 DEF New, Made, Requests
  <2> QED BY <2>1, AccountAssumption, FS_Interval DEF Requests
<1>5. Toll <= 2 * MaxPairings + 1
  BY <1>0, <1>1, <1>3, <1>4, FS_EmptySet, AccountAssumption DEF Toll
<1> QED BY <1>0, <1>2, <1>5 DEF TollInv, Settles

LEMMA PanelKept == ThreadInv /\ PanelInv /\ [Next]_vars => PanelInv'
<1> SUFFICES ASSUME ThreadInv, PanelInv, [Next]_vars PROVE PanelInv'
  OBVIOUS
<1>1. PanelTypes' /\ Counts'
  BY PanelTypesKept, CountsKept DEF PanelInv
<1>2. Kept
  BY <1>1, QuietSteps, StartPairingStep, CreateStep, PollStepKeeps, PollPairingStep,
     SendLoadedStep, RefreshStep, HandleLoadedStep, HandleStartedStep, HandlePairedStep, Names
     DEF Next, LogoutStep, Handle, User, Unseen
<1> QED BY <1>1, <1>2 DEF PanelInv, Kept

LEMMA ImpliesTypes == IInv => AccountTypeOK
<1> SUFFICES ASSUME IInv PROVE AccountTypeOK
  OBVIOUS
<1>1. Len(inbox) <= Cardinality(Loads) + 2 * MaxPairings
  <2>1. IsFiniteSet(Loads) /\ Cardinality(Loads) \in Nat /\ Cardinality(Loads) # 0
    BY AccountAssumption, Finite, FS_EmptySet
  <2>2. /\ Len(inbox) \in Nat /\ Cardinality(Running) \in Nat
        /\ Cardinality(New) \in Nat /\ Cardinality(Open) \in Nat
    BY Parts, Finite DEF IInv, PanelInv, PanelTypes, InboxOK
  <2>3. Toll <= 2 * MaxPairings + 1
    BY DEF IInv, PanelInv, TollInv
  <2> QED BY <2>1, <2>2, <2>3, AccountAssumption DEF Toll
<1>2. created \in 0..MaxPairings /\ requests \in 0..MaxRequests
  BY DEF IInv, PanelInv, Counts
<1> QED BY <1>1, <1>2 DEF IInv, PanelInv, PanelTypes, ThreadInv, ThreadTypes, MutexInv,
                          AccountTypeOK, Places

\* Types: no two threads renew the credential at once (SESSION_MUTEX, client.rs:18), and the
\* channel to the panel holds no more than its loads and pairings account for.
THEOREM AccountIsTyped == Spec => []AccountTypeOK
<1>1. Init => IInv
  BY ThreadsStart, PanelStarts, CountsStart, StagesStart DEF IInv, PanelInv
<1>2. IInv /\ [Next]_vars => IInv'
  BY ThreadsKept, PanelKept DEF IInv
<1>3. IInv => AccountTypeOK
  BY ImpliesTypes
<1> QED BY <1>1, <1>2, <1>3, PTL DEF Spec

=============================================================================
