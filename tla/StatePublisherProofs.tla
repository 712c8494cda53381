------------------------ MODULE StatePublisherProofs ------------------------
(***************************************************************************)
(* Theorems about StatePublisher, for any facts and any bounds: type       *)
(* correctness, that no fact is taken for sent on a connection without a   *)
(* resync, and that a revision names one fact and never falls while only   *)
(* the application numbers snapshots and no number is lost in a crash.     *)
(***************************************************************************)
EXTENDS StatePublisher, TLAPS

\* The slot's number is the one in the settings, and the disk is behind it.
SavedInv == settings = slot.revision /\ disk <= settings

\* A published fact has a number of its own, which is not the first one.
SlotInv == slot.fact # NoFact => slot.revision > 0

\* Outside the loop nothing has been sent on the connection; in it, the slot
\* holds a published fact.
ConnectionInv ==
    /\ resyncs + resyncsLeft <= MaxResyncs
    /\ pc \notin Live => sent = 0 /\ resyncs = 0
    /\ pc \in Live => slot.fact # NoFact

\* The worker's number is the server's, and once it has caught up with the slot
\* the server has the slot's fact.
CaughtUp ==
    (pc \in Live /\ resyncs = 0) =>
        /\ sent = server.revision
        /\ sent <= slot.revision
        /\ sent = slot.revision => server.fact = slot.fact

\* Nothing has gone out under a number the application has not used, and what
\* went out under its newest number is its newest fact.
LogInv ==
    ~ahead =>
        /\ sent <= slot.revision /\ server.revision <= slot.revision
        /\ \A s \in log : s.revision <= slot.revision
        /\ slot.fact # NoFact =>
              \A s \in log : s.revision = slot.revision => s.fact = slot.fact
        /\ \A s, t \in log : s.revision = t.revision => s.fact = t.fact

IndInv == TypeOK /\ SavedInv /\ SlotInv /\ ConnectionInv /\ CaughtUp /\ LogInv

-----------------------------------------------------------------------------
(***************************************************************************)
(* The slot, in the types and under the assumptions of the model.          *)
(***************************************************************************)

LEMMA SlotTyped ==
  ASSUME IndInv
  PROVE  /\ slot = [revision |-> slot.revision, fact |-> slot.fact]
         /\ slot.revision \in 0..MaxRevision
         /\ slot.fact \in Facts \cup {NoFact}
         /\ sent \in Nat /\ resyncs \in Nat /\ server.revision \in Nat
         /\ \A s \in log : s.revision \in Nat
  BY BoundsAssumption DEF IndInv, TypeOK, SavedInv, Snapshot, Revisions

LEMMA PlaceholderTyped ==
  ASSUME NEW r \in 0..MaxRevision
  PROVE  /\ Placeholder(r) \in Snapshot
         /\ Placeholder(r).revision = r /\ Placeholder(r).fact = NoFact
  BY BoundsAssumption DEF Placeholder, Snapshot, Revisions

LEMMA PointsDistinct ==
  /\ Live \subseteq Points /\ Handshake \subseteq Points
  /\ {"token", "connect"} \subseteq Points
  /\ Live \cap (Handshake \cup {"token", "connect"}) = {}
  BY DEF Points, Live, Handshake

-----------------------------------------------------------------------------
LEMMA InitInv == Init => IndInv
<1> SUFFICES ASSUME Init PROVE IndInv
  OBVIOUS
<1>1. Placeholder(0) \in Snapshot /\ Placeholder(0).revision = 0 /\ Placeholder(0).fact = NoFact
  BY PlaceholderTyped, BoundsAssumption
<1>2. TypeOK
  <2>1. renewal \in BOOLEAN /\ tokenGood \in BOOLEAN /\ ahead \in BOOLEAN
    BY Zenon DEF Init, Started
  <2> QED BY <1>1, <2>1, BoundsAssumption, PointsDistinct DEF Init, Started, TypeOK
<1> QED BY <1>1, <1>2, PointsDistinct, BoundsAssumption
  DEF Init, Started, IndInv, SavedInv, SlotInv, ConnectionInv, CaughtUp, LogInv

-----------------------------------------------------------------------------
(***************************************************************************)
(* The steps of the application.                                           *)
(***************************************************************************)

LEMMA ChangeFactInv == ASSUME IndInv, NEW f \in Facts, ChangeFact(f) PROVE IndInv'
  BY DEF IndInv, ChangeFact, TypeOK, SavedInv, SlotInv, ConnectionInv, CaughtUp,
         LogInv, worker, remote, bounds

LEMMA PersistInv == ASSUME IndInv, Persist PROVE IndInv'
  BY DEF IndInv, Persist, TypeOK, SavedInv, SlotInv, ConnectionInv, CaughtUp,
         LogInv, app, worker, remote, bounds

\* The new number is above every number in the log.
LEMMA PublishInv == ASSUME IndInv, Publish PROVE IndInv'
<1>1. /\ slot'.revision = slot.revision + 1 /\ slot'.fact = fact
      /\ slot.revision + 1 \in 1..MaxRevision
      /\ slot' = [revision |-> slot.revision + 1, fact |-> fact]
  BY SlotTyped, BoundsAssumption DEF Publish, Numbered
<1>2. slot' \in Snapshot /\ slot'.fact \in Facts /\ slot'.fact # NoFact
  BY <1>1, FactsAssumption, BoundsAssumption DEF IndInv, TypeOK, Snapshot, Revisions
<1>3. TypeOK'
  <2>1. sent' \in 0..(slot'.revision + resyncs')
    BY <1>1, SlotTyped DEF Publish, worker, IndInv, TypeOK
  <2> QED BY <1>1, <1>2, <2>1
    DEF IndInv, TypeOK, Publish, worker, remote, bounds
<1>4. SavedInv' /\ SlotInv' /\ ConnectionInv'
  BY <1>1, <1>2, SlotTyped, BoundsAssumption
  DEF IndInv, TypeOK, SavedInv, SlotInv, ConnectionInv, Publish, worker, bounds
<1>5. CaughtUp'
  BY <1>1, SlotTyped DEF IndInv, CaughtUp, Publish, worker, remote
<1>6. LogInv'
  BY <1>1, SlotTyped DEF IndInv, LogInv, Publish, worker, remote
<1> QED BY <1>3, <1>4, <1>5, <1>6 DEF IndInv

\* A new process that starts from the last number used goes on where the old
\* one ended; one that lost numbers sets `ahead`.
LEMMA ResumeInv ==
  ASSUME IndInv, NEW saved \in 0..MaxRevision, Resume(saved),
         disk' = saved, restarts' \in 0..MaxRestarts,
         ahead' \in BOOLEAN, ~ahead' => ~ahead /\ saved = settings,
         UNCHANGED <<fact, remote, faults, resyncsLeft>>
  PROVE  IndInv'
<1>1. /\ slot' \in Snapshot /\ slot'.revision = saved /\ slot'.fact = NoFact
      /\ slot' = Placeholder(saved) /\ settings' = saved
      /\ pc' = "token" /\ renewal' = FALSE /\ sent' = 0 /\ resyncs' = 0
  BY PlaceholderTyped DEF Resume
<1>2. TypeOK'
  <2>1. renewal' \in BOOLEAN /\ tokenGood' \in BOOLEAN
    BY <1>1, Zenon DEF IndInv, TypeOK, remote
  <2> QED BY <1>1, <2>1, BoundsAssumption, PointsDistinct DEF IndInv, TypeOK, remote
<1>3. SavedInv' /\ SlotInv'
  BY <1>1 DEF SavedInv, SlotInv
<1>4. ConnectionInv'
  BY <1>1, PointsDistinct, SlotTyped, BoundsAssumption DEF IndInv, TypeOK, ConnectionInv
<1>5. CaughtUp'
  BY <1>1, PointsDistinct DEF CaughtUp
<1>6. LogInv'
  BY <1>1, SlotTyped DEF IndInv, SavedInv, LogInv, remote
<1> QED BY <1>2, <1>3, <1>4, <1>5, <1>6 DEF IndInv

LEMMA QuitInv == ASSUME IndInv, Quit PROVE IndInv'
<1>1. disk' = settings /\ settings \in 0..MaxRevision
  BY DEF Quit, SavedOnExit, IndInv, TypeOK
<1>2. ahead' \in BOOLEAN /\ (~ahead' => ~ahead)
  BY Zenon DEF Quit, IndInv, TypeOK
<1>3. restarts' \in 0..MaxRestarts
  BY BoundsAssumption DEF Quit, Restart, IndInv, TypeOK
<1>4. Resume(settings)
  BY <1>1 DEF Quit, Resume
<1> QED BY <1>1, <1>2, <1>3, <1>4, ResumeInv DEF Quit

LEMMA CrashInv == ASSUME IndInv, Crash PROVE IndInv'
<1>1. disk' = disk /\ disk \in 0..MaxRevision
  BY DEF Crash, IndInv, TypeOK
<1>2. restarts' \in 0..MaxRestarts
  BY BoundsAssumption DEF Crash, Restart, IndInv, TypeOK
<1>3. ahead' \in BOOLEAN /\ (~ahead' => ~ahead /\ disk = settings)
  BY Zenon DEF Crash
<1> QED BY <1>1, <1>2, <1>3, ResumeInv DEF Crash

-----------------------------------------------------------------------------
(***************************************************************************)
(* The steps of the worker.                                                *)
(***************************************************************************)

\* Steps that stay outside the loop and send nothing.
LEMMA QuietInv ==
  ASSUME IndInv, pc' \in Points \ Live, sent' = 0, resyncs' = 0,
         renewal' \in BOOLEAN, tokenGood' \in BOOLEAN, faults' \in 0..MaxFaults,
         UNCHANGED <<app, disk, server, log, ahead, resyncsLeft, restarts>>
  PROVE  IndInv'
<1>1. TypeOK'
  BY SlotTyped, BoundsAssumption DEF IndInv, TypeOK, app
<1>2. SavedInv' /\ SlotInv' /\ CaughtUp'
  BY DEF IndInv, SavedInv, SlotInv, CaughtUp, app
<1>3. ConnectionInv'
  BY SlotTyped, BoundsAssumption DEF IndInv, TypeOK, ConnectionInv
<1>4. LogInv'
  BY SlotTyped DEF IndInv, LogInv, app
<1> QED BY <1>1, <1>2, <1>3, <1>4 DEF IndInv

LEMMA RequestTokenInv == ASSUME IndInv, RequestToken PROVE IndInv'
<1>1. pc = "token" /\ pc' \in {"token", "connect"}
  BY DEF RequestToken
<1>2. sent' = 0 /\ resyncs' = 0
  BY <1>1, PointsDistinct DEF RequestToken, IndInv, ConnectionInv
<1>3. faults' \in 0..MaxFaults
  <2>1. faults' = faults \/ Fault
    BY Zenon DEF RequestToken
  <2> QED BY <2>1, BoundsAssumption DEF Fault, IndInv, TypeOK
<1>4. renewal' \in BOOLEAN /\ tokenGood' \in BOOLEAN
  BY Zenon DEF RequestToken, IndInv, TypeOK
<1> QED BY <1>1, <1>2, <1>3, <1>4, PointsDistinct, QuietInv DEF RequestToken, remote

LEMMA OpenInv == ASSUME IndInv, Open PROVE IndInv'
<1>1. pc = "connect" /\ pc' \in {"token", "welcome"}
  BY DEF Open
<1>2. sent' = 0 /\ resyncs' = 0
  BY <1>1, PointsDistinct DEF Open, IndInv, ConnectionInv
<1>3. renewal' \in BOOLEAN /\ tokenGood' \in BOOLEAN /\ faults' \in 0..MaxFaults
  BY DEF Open, RenewNext, remote, bounds, IndInv, TypeOK
<1>4. pc' \in Points \ Live
  BY <1>1 DEF Points, Live, Handshake
<1> QED BY <1>2, <1>3, <1>4, QuietInv DEF Open, remote, bounds

LEMMA RegisterInv == ASSUME IndInv, Register PROVE IndInv'
<1>1. pc \in Points \ Live /\ pc' \in Points \ Live
  BY DEF Register, Points, Live, Handshake
<1>2. sent' = 0 /\ resyncs' = 0
  BY <1>1 DEF Register, IndInv, ConnectionInv
<1>3. renewal' \in BOOLEAN /\ tokenGood' \in BOOLEAN /\ faults' \in 0..MaxFaults
  BY DEF Register, remote, bounds, IndInv, TypeOK
<1> QED BY <1>1, <1>2, <1>3, QuietInv DEF Register, remote, bounds

LEMMA LoseInv == ASSUME IndInv, Lose PROVE IndInv'
<1>1. pc' \in Points \ Live
  BY DEF Lose, Points, Live, Handshake
<1>2. faults' \in 0..MaxFaults
  BY BoundsAssumption DEF Lose, Fault, IndInv, TypeOK
<1>3. renewal' \in BOOLEAN /\ tokenGood' \in BOOLEAN
  BY Zenon DEF Lose, RenewNext, IndInv, TypeOK
<1> QED BY <1>1, <1>2, <1>3, QuietInv DEF Lose

\* Steps that go to the loop, or go round it, and have sent the slot under its
\* own number: the slot was newer than what was sent before.
LEMMA SentOwnNumber ==
  ASSUME IndInv, NEW previous \in Nat, SendFull(previous), IsNewerThan(previous),
         slot.fact # NoFact, pc' \in Live,
         resyncs' \in 0..MaxResyncs, resyncsLeft' \in 0..MaxResyncs,
         resyncs' + resyncsLeft' <= MaxResyncs,
         ahead' = ahead,
         UNCHANGED <<app, disk, renewal, tokenGood, faults, restarts>>
  PROVE  IndInv' /\ (~ahead' => server'.revision >= server.revision)
<1> DEFINE s == [revision |-> slot.revision, fact |-> slot.fact]
<1>1. sent' = slot.revision /\ server' = s /\ log' = log \cup {s}
  BY DEF SendFull, RevisionAfter, IsNewerThan
<1>2. s \in Snapshot /\ s.revision = slot.revision /\ s.fact = slot.fact
      /\ slot.revision \in Nat
  BY SlotTyped DEF IndInv, TypeOK
<1> HIDE DEF s
<1>3. TypeOK'
  BY <1>1, <1>2, SlotTyped, PointsDistinct DEF IndInv, TypeOK, app
<1>4. SavedInv' /\ SlotInv' /\ ConnectionInv'
  BY SlotTyped DEF IndInv, SavedInv, SlotInv, ConnectionInv, app
<1>5. CaughtUp'
  BY <1>1, <1>2 DEF CaughtUp, app
<1>6. LogInv' /\ (~ahead' => server'.revision >= server.revision)
  BY <1>1, <1>2, SlotTyped DEF IndInv, LogInv, app
<1> QED BY <1>3, <1>4, <1>5, <1>6 DEF IndInv

LEMMA SendFirstInv ==
  ASSUME IndInv, SendFirst
  PROVE  IndInv' /\ (~ahead' => server'.revision >= server.revision)
<1>1. pc = "first" /\ sent = 0 /\ resyncs = 0
  BY PointsDistinct DEF SendFirst, IndInv, ConnectionInv, Handshake
<1>2. CASE slot.fact = NoFact
  <2>1. renewal' \in BOOLEAN /\ tokenGood' \in BOOLEAN /\ faults' \in 0..MaxFaults
    BY DEF SendFirst, bounds, IndInv, TypeOK
  <2>2. pc' \in Points \ Live /\ sent' = 0 /\ resyncs' = 0 /\ server' = server
    BY <1>1, <1>2, PointsDistinct DEF SendFirst
  <2>3. IndInv'
    BY <1>2, <2>1, <2>2, QuietInv DEF SendFirst, bounds
  <2> QED BY <2>2, <2>3, SlotTyped
<1>3. CASE slot.fact # NoFact
  <2>1. IsNewerThan(0) /\ SendFull(0) /\ pc' \in Live
    BY <1>3, SlotTyped DEF SendFirst, IndInv, SlotInv, IsNewerThan, Live
  <2>2. /\ resyncs' \in 0..MaxResyncs /\ resyncsLeft' \in 0..MaxResyncs
        /\ resyncs' + resyncsLeft' <= MaxResyncs
    BY <1>1 DEF SendFirst, bounds, IndInv, TypeOK, ConnectionInv
  <2> QED BY <1>3, <2>1, <2>2, SentOwnNumber DEF SendFirst, bounds
<1> QED BY <1>2, <1>3

\* Steps round the loop that send nothing.
LEMMA RoundInv ==
  ASSUME IndInv, pc \in Live, pc' \in Live,
         UNCHANGED <<app, disk, renewal, sent, resyncs, remote, ahead, bounds>>
  PROVE  IndInv'
  BY PointsDistinct DEF IndInv, TypeOK, SavedInv, SlotInv, ConnectionInv, CaughtUp,
         LogInv, app, remote, bounds

LEMMA SendNewerInv ==
  ASSUME IndInv, SendNewer
  PROVE  IndInv' /\ (~ahead' => server'.revision >= server.revision)
<1>1. pc \in Live /\ pc' \in Live /\ slot.fact # NoFact
  BY DEF SendNewer, Live, IndInv, ConnectionInv
<1>2. CASE IsNewerThan(sent)
  <2>1. /\ resyncs' \in 0..MaxResyncs /\ resyncsLeft' \in 0..MaxResyncs
        /\ resyncs' + resyncsLeft' <= MaxResyncs
    BY DEF SendNewer, bounds, IndInv, TypeOK, ConnectionInv
  <2> QED BY <1>1, <1>2, <2>1, SlotTyped, SentOwnNumber DEF SendNewer, bounds
<1>3. CASE ~IsNewerThan(sent)
  <2>1. IndInv'
    BY <1>1, <1>3, RoundInv DEF SendNewer, remote
  <2> QED BY <1>3, <2>1, SlotTyped DEF SendNewer
<1> QED BY <1>2, <1>3

LEMMA IdleReadInv == ASSUME IndInv, IdleRead PROVE IndInv'
<1>1. pc \in Live /\ pc' \in Live
  BY DEF IdleRead, Live
<1> QED BY <1>1, RoundInv DEF IdleRead

\* A resync numbers the snapshot itself when the slot is not newer; then it is
\* ahead of the slot.
LEMMA ResyncInv ==
  ASSUME IndInv, Resync
  PROVE  IndInv' /\ (~ahead' => server'.revision >= server.revision)
<1>1. pc' \in Live /\ slot.fact # NoFact
  BY DEF Resync, Live, IndInv, ConnectionInv
<1>2. /\ resyncs' \in 1..MaxResyncs /\ resyncsLeft' \in 0..MaxResyncs
      /\ resyncs' = resyncs + 1
      /\ resyncs' + resyncsLeft' <= MaxResyncs
  BY BoundsAssumption DEF Resync, IndInv, TypeOK, ConnectionInv
<1>3. CASE IsNewerThan(sent)
  <2>1. ahead' = ahead
    BY <1>3, SlotTyped DEF Resync, SendFull, RevisionAfter, IsNewerThan, IndInv, TypeOK
  <2> QED BY <1>1, <1>2, <1>3, <2>1, SlotTyped, SentOwnNumber DEF Resync
<1>4. CASE ~IsNewerThan(sent)
  <2> DEFINE s == [revision |-> sent + 1, fact |-> slot.fact]
  <2>1. sent' = sent + 1 /\ server' = s /\ log' = log \cup {s}
    BY <1>4 DEF Resync, SendFull, RevisionAfter
  <2>2. ahead' = TRUE
    <3>1. sent' > slot.revision
      BY <1>4, <2>1, SlotTyped DEF IsNewerThan
    <3> QED BY <3>1, Zenon DEF Resync
  <2>3. sent <= slot.revision + resyncs /\ sent + 1 \in 0..(slot.revision + resyncs')
    BY <1>2, SlotTyped DEF IndInv, TypeOK
  <2>4. s \in Snapshot
    BY <1>2, <2>3, SlotTyped, BoundsAssumption DEF Snapshot, Revisions
  <2> HIDE DEF s
  <2>5. TypeOK'
    BY <1>1, <1>2, <2>1, <2>2, <2>3, <2>4, PointsDistinct DEF IndInv, TypeOK, Resync, app
  <2>6. SavedInv' /\ SlotInv'
    BY DEF IndInv, SavedInv, SlotInv, Resync, app
  <2>7. ConnectionInv' /\ CaughtUp' /\ LogInv'
    BY <1>1, <1>2, <2>2 DEF ConnectionInv, CaughtUp, LogInv, Resync, app
  <2> QED BY <2>2, <2>5, <2>6, <2>7 DEF IndInv
<1> QED BY <1>3, <1>4

-----------------------------------------------------------------------------
LEMMA StutterInv == ASSUME IndInv, UNCHANGED vars PROVE IndInv'
  BY DEF vars, app, worker, remote, bounds, IndInv, TypeOK, SavedInv, SlotInv,
         ConnectionInv, CaughtUp, LogInv

LEMMA StepInv == IndInv /\ [Next]_vars => IndInv'
<1> SUFFICES ASSUME IndInv, [Next]_vars PROVE IndInv'
  OBVIOUS
<1>1. ASSUME NEW f \in Facts, ChangeFact(f) PROVE IndInv'
  BY <1>1, ChangeFactInv
<1>2. CASE Publish
  BY <1>2, PublishInv
<1>3. CASE Persist
  BY <1>3, PersistInv
<1>4. CASE Quit
  BY <1>4, QuitInv
<1>5. CASE Crash
  BY <1>5, CrashInv
<1>6. CASE PublisherStep
  BY <1>6, RequestTokenInv, OpenInv, RegisterInv, SendFirstInv, SendNewerInv,
     IdleReadInv DEF PublisherStep
<1>7. CASE Lose
  BY <1>7, LoseInv
<1>8. CASE Resync
  BY <1>8, ResyncInv
<1>9. CASE UNCHANGED vars
  BY <1>9, StutterInv
<1> QED BY <1>1, <1>2, <1>3, <1>4, <1>5, <1>6, <1>7, <1>8, <1>9 DEF Next

\* Only SendFirst, SendNewer and Resync reach the server.
LEMMA StepNeverFalls ==
  IndInv /\ [Next]_vars => [~ahead' => server'.revision >= server.revision]_vars
<1> SUFFICES ASSUME IndInv, [Next]_vars, ~ahead'
             PROVE  server'.revision >= server.revision
  OBVIOUS
<1>1. ASSUME server' = server PROVE server'.revision >= server.revision
  BY <1>1, SlotTyped
<1>2. CASE SendFirst \/ SendNewer \/ Resync
  BY <1>2, SendFirstInv, SendNewerInv, ResyncInv
<1>3. ASSUME ~(SendFirst \/ SendNewer \/ Resync) PROVE server' = server
  BY <1>3 DEF Next, vars, remote, PublisherStep, ChangeFact, Publish, Persist, Quit, Crash,
     RequestToken, Open, Register, Lose, IdleRead
<1> QED BY <1>1, <1>2, <1>3

\* Every reachable state of the publisher satisfies the inductive invariant.
THEOREM PublisherInvariance == Spec => []IndInv
  BY InitInv, StepInv, PTL DEF Spec

\* Types, for any facts and bounds: in particular the number of a connection is
\* never further from the slot's than the resyncs answered on it.
THEOREM PublisherTypeCorrect == Spec => []TypeOK
<1>1. IndInv => TypeOK
  BY DEF IndInv
<1> QED BY <1>1, PublisherInvariance, PTL

\* run_connection and advance_published_state: a worker with nothing newer to
\* send on a connection without a resync has sent what the slot holds.
THEOREM NoFactSkipped == Spec => []NothingSkipped
<1>1. IndInv => NothingSkipped
  BY SlotTyped DEF IndInv, CaughtUp, NothingSkipped
<1> QED BY <1>1, PublisherInvariance, PTL

\* advance_published_state and the saved revision: across connections and
\* orderly restarts a revision stands for one fact.
THEOREM OneFactPerRevision == Spec => []RevisionNamesFact
<1>1. IndInv => RevisionNamesFact
  BY DEF IndInv, LogInv, RevisionNamesFact
<1> QED BY <1>1, PublisherInvariance, PTL

\* send_full: the revision the server sees never goes back, under the same
\* condition.
THEOREM RevisionsNeverFall == Spec => RevisionNeverFalls
  BY PublisherInvariance, StepNeverFalls, PTL DEF Spec, RevisionNeverFalls
=============================================================================
