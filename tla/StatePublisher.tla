--------------------------- MODULE StatePublisher ---------------------------
(***************************************************************************)
(* How the player's state reaches RockServer (src/device_control.rs,       *)
(* sync_device_control_state in src/app/mod.rs, and the saved revision in  *)
(* AppSettings).                                                           *)
(*                                                                         *)
(* The egui thread publishes the newest fact into a one-value slot and     *)
(* numbers it; the connection worker (`pc`) authenticates, registers and   *)
(* sends full snapshots; the number is saved with the settings, some time  *)
(* later, and is where the next process goes on.  Commands travel over the *)
(* same connection and are the subject of CommandLedger.                   *)
(***************************************************************************)
EXTENDS Naturals, FiniteSets

CONSTANTS
    Facts,        \* player states the application can be in
    NoFact,       \* the placeholder of a new process
    MaxRevision,  \* bound: published revisions in a behaviour
    MaxFaults,    \* bound: failures of the network, the server or the account
    MaxResyncs,   \* bound: device.resync_requested frames
    MaxRestarts   \* bound: times the process ends and starts again

ASSUME FactsAssumption == Facts # {} /\ NoFact \notin Facts
ASSUME BoundsAssumption == /\ MaxRevision \in Nat /\ MaxFaults \in Nat
                           /\ MaxResyncs \in Nat /\ MaxRestarts \in Nat

VARIABLES
    fact,      \* what sync_device_control_state would publish now
    slot,      \* ClientInner.state: revision and fact
    settings,  \* AppSettings.device_control_state_revision, in memory
    disk,      \* the same, as last saved
    pc,        \* where the worker is
    renewal,   \* run_worker's forced_renewal
    tokenGood, \* the cached access token is one the server accepts
    sent,      \* run_connection's sent_revision
    resyncs,   \* resync requests answered on this connection
    server,    \* the snapshot RockServer received last
    log,       \* every revision and fact it ever received
    ahead,     \* a number went to the server that no published fact has
    faults, resyncsLeft, restarts

app    == <<fact, slot, settings>>
worker == <<pc, renewal, sent, resyncs>>
remote == <<tokenGood, server, log>>
bounds == <<faults, resyncsLeft, restarts>>
vars   == <<app, disk, worker, remote, ahead, bounds>>

Revisions == 0..(MaxRevision + MaxResyncs)
Snapshot  == [revision : Revisions, fact : Facts \cup {NoFact}]

Handshake == {"welcome", "registered", "first"}
Live      == {"top", "read"}
Points    == {"token", "connect"} \cup Handshake \cup Live

TypeOK ==
    /\ fact \in Facts /\ slot \in Snapshot
    /\ settings \in 0..MaxRevision /\ disk \in 0..MaxRevision
    /\ pc \in Points /\ renewal \in BOOLEAN /\ tokenGood \in BOOLEAN
    /\ resyncs \in 0..MaxResyncs /\ sent \in 0..(slot.revision + resyncs)
    /\ server \in Snapshot /\ log \subseteq Snapshot /\ ahead \in BOOLEAN
    /\ faults \in 0..MaxFaults /\ resyncsLeft \in 0..MaxResyncs
    /\ restarts \in 0..MaxRestarts

\* The placeholder has no observed_at; it is never sent.
Placeholder(r) == [revision |-> r, fact |-> NoFact]

\* The worker, as start() leaves it.
Started == /\ pc = "token" /\ renewal = FALSE /\ sent = 0 /\ resyncs = 0

Init ==
    /\ fact \in Facts /\ slot = Placeholder(0)
    /\ settings = 0 /\ disk = 0
    /\ Started
    /\ tokenGood \in BOOLEAN
    /\ server = Placeholder(0) /\ log = {} /\ ahead = FALSE
    /\ faults = 0 /\ resyncsLeft = MaxResyncs /\ restarts = 0

-----------------------------------------------------------------------------
(***************************************************************************)
(* The egui thread.                                                        *)
(***************************************************************************)

ChangeFact(f) ==
    /\ f # fact
    /\ fact' = f
    /\ UNCHANGED <<slot, settings, disk, worker, remote, ahead, bounds>>

\* advance_published_state: an equal fact is not published again, a new one
\* gets the next number.
Unnumbered(r) == r
Numbered(r)   == r + 1

Publish ==
    /\ slot.fact # fact
    /\ slot.revision < MaxRevision
    /\ slot' = [revision |-> Numbered(slot.revision), fact |-> fact]
    /\ settings' = slot'.revision
    /\ UNCHANGED <<fact, disk, worker, remote, ahead, bounds>>

\* persist_settings_if_needed and the settings writer.
Persist ==
    /\ disk # settings
    /\ disk' = settings
    /\ UNCHANGED <<app, worker, remote, ahead, bounds>>

\* A new process starts from the revision found on disk.
Resume(saved) ==
    /\ slot' = Placeholder(saved) /\ settings' = saved
    /\ pc' = "token" /\ renewal' = FALSE /\ sent' = 0 /\ resyncs' = 0

\* shutdown_playback saves before the process ends.
Forgotten   == disk
SavedOnExit == settings

Restart == /\ restarts < MaxRestarts /\ settings < MaxRevision
           /\ restarts' = restarts + 1

Quit ==
    /\ Restart
    /\ disk' = SavedOnExit
    /\ Resume(disk')
    /\ UNCHANGED <<fact, remote, ahead, faults, resyncsLeft>>

\* The process dies; what was not saved yet is gone.
Crash ==
    /\ Restart
    /\ Resume(disk)
    /\ ahead' = (ahead \/ disk # settings)
    /\ UNCHANGED <<fact, disk, remote, faults, resyncsLeft>>

-----------------------------------------------------------------------------
(***************************************************************************)
(* The connection worker.  Anything that goes wrong on the way ends the    *)
(* connection; after a wait the worker asks for a token again.             *)
(***************************************************************************)

Fault == faults < MaxFaults /\ faults' = faults + 1

\* The token of the account.  Only a forced renewal replaces a token that is
\* not near its end; no credentials, a refusal and an error are faults.
RequestToken ==
    /\ pc = "token"
    /\ \/ /\ tokenGood' = (tokenGood \/ renewal)
          /\ pc' = "connect" /\ renewal' = FALSE
          /\ UNCHANGED faults
       \/ /\ Fault
          /\ renewal' \in {renewal, FALSE}
          /\ UNCHANGED <<pc, tokenGood>>
    /\ UNCHANGED <<app, disk, sent, resyncs, server, log, ahead, resyncsLeft, restarts>>

\* The answer to a refused token.
KeepToken == UNCHANGED renewal
RenewNext == renewal' = TRUE

Open ==
    /\ pc = "connect"
    /\ IF tokenGood
       THEN pc' = "welcome" /\ UNCHANGED renewal
       ELSE pc' = "token" /\ RenewNext
    /\ UNCHANGED <<app, disk, sent, resyncs, remote, ahead, bounds>>

\* hello, then welcome, then register, then registered.
Register ==
    /\ pc \in {"welcome", "registered"}
    /\ pc' = IF pc = "welcome" THEN "registered" ELSE "first"
    /\ UNCHANGED <<app, disk, renewal, sent, resyncs, remote, ahead, bounds>>

\* The connection ends: refused credentials, a protocol error, a lost socket, a
\* deadline.  Only the first one renews the token.
Lose ==
    /\ pc \in {"connect"} \cup Handshake \cup Live
    /\ Fault
    /\ pc' = "token" /\ sent' = 0 /\ resyncs' = 0
    /\ \/ UNCHANGED <<tokenGood, renewal>>
       \/ tokenGood' = FALSE /\ RenewNext
    /\ UNCHANGED <<app, disk, server, log, ahead, resyncsLeft, restarts>>

IsNewerThan(previous) == slot.revision > previous

\* send_full: the number of the slot, or one more than the last one sent.
RevisionAfter(previous) ==
    IF IsNewerThan(previous) THEN slot.revision ELSE previous + 1

SendFull(previous) ==
    LET s == [revision |-> RevisionAfter(previous), fact |-> slot.fact]
    IN  /\ sent' = s.revision
        /\ server' = s
        /\ log' = log \cup {s}

\* The first snapshot of a connection; there is none before the first publish.
SendFirst ==
    /\ pc = "first"
    /\ IF slot.fact = NoFact
       THEN pc' = "token" /\ UNCHANGED <<sent, server, log>>
       ELSE pc' = "top" /\ SendFull(0)
    /\ UNCHANGED <<app, disk, renewal, resyncs, tokenGood, ahead, bounds>>

\* The head of the loop: a newer fact is sent, then the socket is read.
SendNewer ==
    /\ pc = "top"
    /\ IF IsNewerThan(sent) THEN SendFull(sent) ELSE UNCHANGED <<sent, server, log>>
    /\ pc' = "read"
    /\ UNCHANGED <<app, disk, renewal, resyncs, tokenGood, ahead, bounds>>

IdleRead ==
    /\ pc = "read"
    /\ pc' = "top"
    /\ UNCHANGED <<app, disk, renewal, sent, resyncs, remote, ahead, bounds>>

\* device.resync_requested: another snapshot, under a number of its own.
Resync ==
    /\ pc = "read" /\ resyncsLeft > 0
    /\ SendFull(sent)
    /\ ahead' = (ahead \/ sent' > slot.revision)
    /\ pc' = "top"
    /\ resyncs' = resyncs + 1
    /\ resyncsLeft' = resyncsLeft - 1
    /\ UNCHANGED <<app, disk, renewal, tokenGood, faults, restarts>>

PublisherStep == RequestToken \/ Open \/ Register \/ SendFirst \/ SendNewer \/ IdleRead

Next ==
    \/ \E f \in Facts : ChangeFact(f)
    \/ Publish \/ Persist \/ Quit \/ Crash
    \/ PublisherStep \/ Lose \/ Resync

Spec == Init /\ [][Next]_vars

\* egui publishes in every frame, a frame follows every change, and the worker
\* never stops trying: its waits are bounded (backoff, POLL, deadlines).
FairSpec == Spec /\ WF_vars(Publish) /\ WF_vars(PublisherStep)

-----------------------------------------------------------------------------
(***************************************************************************)
(* Properties.                                                             *)
(***************************************************************************)

\* On a connection without a resync, a worker that sees nothing newer to send
\* has already sent the very fact the slot holds: no fact is taken for sent.
NothingSkipped ==
    (pc \in Live /\ resyncs = 0 /\ sent >= slot.revision) => server.fact = slot.fact

\* The same on every connection: docs/status.md says that every real fact
\* change is published.
\* The code does not keep to it (README, section 3).
EveryFactIsSent ==
    (pc \in Live /\ sent >= slot.revision) => server.fact = slot.fact

\* A revision never stands for two facts, across connections and restarts, as
\* long as no resync numbered a snapshot itself and no crash lost a number.
RevisionNamesFact ==
    ~ahead => \A s, t \in log : s.revision = t.revision => s.fact = t.fact

\* advance_published_state: a restart can never replay a stale revision.
\* The code does not keep to it (README, section 3).
RestartNeverReplays ==
    resyncsLeft = MaxResyncs =>
        \A s, t \in log : s.revision = t.revision => s.fact = t.fact

\* The revision the server sees never goes back, over reconnects and restarts, as
\* long as no resync numbered a snapshot itself and no crash lost a number.
RevisionNeverFalls ==
    [][~ahead' => server'.revision >= server.revision]_vars

\* Whatever fails on the way, once failures end the server knows the fact that
\* was published last (a resync on the connection aside).
ServerLearns == <>[](resyncs > 0 \/ server.fact = slot.fact)
=============================================================================
