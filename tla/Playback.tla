------------------------------ MODULE Playback ------------------------------
(***************************************************************************)
(* PlaybackController and the jobs it runs (src/playback/mod.rs), with the *)
(* executor they run on (src/runtime.rs) and the part of the three engines *)
(* the controller drives: LocalPlayer (src/local/mod.rs), CastService      *)
(* (src/cast/client/mod.rs, one receiver) and StreamRelay (src/relay).     *)
(*                                                                         *)
(* Three kinds of process interleave: the egui thread (`ui`), the          *)
(* executor's workers (`pc`, `job`), and the decode thread of each local   *)
(* session (`decoding`).  A generation number stands for everything the    *)
(* operation that got it created: its token, its job, its sessions.        *)
(* Status and Title events change no controller state and are left out.    *)
(***************************************************************************)
EXTENDS Naturals, Sequences

CONSTANTS
    Workers,          \* threads of the playback executor (3 in the program)
    MaxGeneration,    \* bound: operations (play, stop, shutdown) in a behaviour
    MaxQueuedJobs,    \* runtime.rs MAX_QUEUED_JOBS (128 in the program)
    Levels,           \* volume percentages the slider may show
    MaxVolumeChanges  \* bound: slider moves in a behaviour

ASSUME WorkersAssumption == Workers # {}
ASSUME BoundsAssumption == /\ MaxGeneration \in Nat
                           /\ MaxQueuedJobs \in Nat \ {0}
                           /\ MaxVolumeChanges \in Nat
ASSUME LevelsAssumption == Levels \subseteq 0..100 /\ Levels # {}

VARIABLES
    generation,       \* the AtomicU64 every operation increments
    cancelled,        \* token of each generation; token 0 is born cancelled
    opToken,          \* whose token `operation_cancel` holds
    phase,            \* PlaybackPhase
    ui,               \* what the egui thread is in the middle of
    queue,            \* jobs accepted by the executor and not yet received
    runtimeCancelled, \* BackgroundRuntime.cancelled
    pc, job,          \* where each worker is, and in which job
    transition,       \* workers that hold the transition mutex
    castSession,      \* generation of CastService.current, 0 when None
    loaded,           \* generation whose LOAD the receiver obeys, 0 when none
    relay,            \* generation of StreamRelay.session, 0 when None
    sessionToken,     \* whose token LocalPlayer.session_stop holds
    stream,           \* generation of the open cpal stream, 0 when None
    decoding,         \* generations whose decode thread is alive
    events,           \* the PlaybackEvent channel
    volume,           \* the slider: RockCastApp.volume
    volumeChanges,    \* slider moves so far
    localLevel,       \* LocalPlayer.volume, in percent
    castLevel         \* last SET_VOLUME the receiver got, in percent, 0 if none

controller == <<generation, cancelled, opToken, phase, ui>>
executor   == <<queue, runtimeCancelled, pc, job, transition>>
engines    == <<castSession, loaded, relay, sessionToken, stream, decoding>>
levels     == <<volume, volumeChanges, localLevel, castLevel>>
vars       == <<controller, executor, engines, events, levels>>

Tokens      == 0..MaxGeneration
Generations == 1..MaxGeneration
None        == 0

Job   == [kind : {"play", "title", "stop", "volume"}, generation : Tokens,
          local : BOOLEAN, level : Levels]
Phase == [tag : {"Idle", "Opening", "Playing", "Stopping", "Failed"},
          generation : Tokens, local : BOOLEAN]
Event == [tag : {"PlayOk", "StopOk", "Error"}, generation : Tokens,
          local : BOOLEAN]

Waiting  == {"lockPlay", "lockStop"}
Opening  == {"check", "teardown", "resolve", "castStop", "recheckLocal", "open"}
Casting  == {"recheckCast", "relay", "relayInstall", "buffer", "recheckLoad",
             "connect", "load", "loading", "castOk", "castErr"}
Speaking == {"probe", "session", "localErr"}
Ending   == {"stopEngines", "stopCast"}
\* The program points at which a worker holds the transition mutex.
Critical == Opening \cup Casting \cup Speaking \cup Ending
Points   == Waiting \cup Critical \cup {"free", "title", "volume"}

Idle         == [tag |-> "Idle", generation |-> None, local |-> FALSE]
PhaseOf(t, g, l) == [tag |-> t, generation |-> g, local |-> l]
EventOf(t, g, l) == [tag |-> t, generation |-> g, local |-> l]
JobOf(k, g, l, v) == [kind |-> k, generation |-> g, local |-> l, level |-> v]

ControllerOK == /\ generation \in Tokens /\ opToken \in Tokens
                /\ phase \in Phase
                /\ ui \in [op : {"idle", "play", "stop", "shutdown"}, local : BOOLEAN]
QueueOK  == /\ queue \in Seq(Job) /\ Len(queue) <= MaxQueuedJobs
            /\ runtimeCancelled \in BOOLEAN
WorkerOK == /\ pc \in [Workers -> Points]
            /\ job \in [Workers -> Job]
            /\ transition \subseteq Workers
EngineOK == /\ cancelled \in [Tokens -> BOOLEAN]
            /\ castSession \in Tokens /\ loaded \in Tokens /\ relay \in Tokens
            /\ sessionToken \in Tokens /\ stream \in Tokens
            /\ decoding \subseteq Tokens
LevelOK  == /\ volume \in Levels /\ volumeChanges \in 0..MaxVolumeChanges
            /\ localLevel \in 0..100 /\ castLevel \in 0..100
EventOK  == events \in Seq(Event)

TypeOK == ControllerOK /\ QueueOK /\ WorkerOK /\ EngineOK /\ LevelOK /\ EventOK

-----------------------------------------------------------------------------
(***************************************************************************)
(* What the code asks and what it resets, one operator each.               *)
(***************************************************************************)

\* The re-check of a play job: runtime, token, generation.
Superseded(g) == runtimeCancelled \/ cancelled[g] \/ generation # g

\* BackgroundRuntime::spawn: accepted unless shutting down or full.
HasRoom(q) == ~runtimeCancelled /\ Len(q) < MaxQueuedJobs
Submit(q, j) == IF HasRoom(q) THEN Append(q, j) ELSE q

\* LocalPlayer::stop: the session's token is set and its stream dropped.
\* The threads are handed to a reaper; they end when they see the token.
LocalStop ==
    /\ cancelled' = [cancelled EXCEPT ![sessionToken] = TRUE]
    /\ stream' = None

\* StreamRelay::stop
RelayKept == UNCHANGED relay
RelayStop == relay' = None

\* The token of the operation before is set and never reset.
TokenKept       == UNCHANGED cancelled
CancelOperation == cancelled' = [cancelled EXCEPT ![opToken] = TRUE]

\* CastService::stop: an installed session is told STOP and forgotten.
CastStop ==
    /\ castSession' = None
    /\ loaded' = IF castSession # None THEN None ELSE loaded

Send(e) == events' = Append(events, e)

NoJob == JobOf("volume", None, FALSE, CHOOSE v \in Levels : TRUE)

Goto(w, p) == /\ pc' = [pc EXCEPT ![w] = p]
              /\ UNCHANGED <<job, transition>>
\* The job returns: its guard on the transition mutex is dropped with it.
Finish(w) == /\ pc' = [pc EXCEPT ![w] = "free"]
             /\ job' = [job EXCEPT ![w] = NoJob]
             /\ transition' = transition \ {w}

Init ==
    /\ generation = 0
    /\ cancelled = [g \in Tokens |-> g = 0]
    /\ opToken = 0
    /\ phase = Idle
    /\ ui = [op |-> "idle", local |-> FALSE]
    /\ queue = <<>> /\ runtimeCancelled = FALSE
    /\ pc = [w \in Workers |-> "free"] /\ job = [w \in Workers |-> NoJob]
    /\ transition = {}
    /\ castSession = None /\ loaded = None /\ relay = None
    /\ sessionToken = 0 /\ stream = None /\ decoding = {}
    /\ events = <<>>
    /\ volume \in Levels /\ volumeChanges = 0
    /\ localLevel = 50 /\ castLevel = 0

-----------------------------------------------------------------------------
(***************************************************************************)
(* The egui thread.  Every operation first increments the generation; what *)
(* the workers do between that and the rest of the call is visible.        *)
(***************************************************************************)

Begin(op, local) ==
    /\ ui.op = "idle" /\ ~runtimeCancelled
    /\ generation < MaxGeneration
    /\ generation' = generation + 1
    /\ ui' = [op |-> op, local |-> local]
    /\ UNCHANGED <<cancelled, opToken, phase, executor, engines, events, levels>>

\* PlaybackController::play after fetch_add.  A local play also submits the
\* title forwarder, ahead of the play job; its rejection is ignored.
Play ==
    /\ ui.op = "play"
    /\ CancelOperation
    /\ opToken' = generation
    /\ LET title == JobOf("title", generation, TRUE, volume)
           play  == JobOf("play", generation, ui.local, volume)
           queue1 == IF ui.local THEN Submit(queue, title) ELSE queue
       IN  /\ queue' = Submit(queue1, play)
           /\ IF HasRoom(queue1)
              THEN /\ phase' = PhaseOf("Opening", generation, ui.local)
                   /\ UNCHANGED events
              ELSE /\ phase' = PhaseOf("Failed", generation, FALSE)
                   /\ Send(EventOf("Error", generation, FALSE))
    /\ ui' = [ui EXCEPT !.op = "idle"]
    /\ UNCHANGED <<generation, runtimeCancelled, pc, job, transition, engines, levels>>

\* PlaybackController::stop after fetch_add.
Stop ==
    /\ ui.op = "stop"
    /\ CancelOperation
    /\ phase' = PhaseOf("Stopping", generation, FALSE)
    /\ LET stop == JobOf("stop", generation, FALSE, volume)
       IN  /\ queue' = Submit(queue, stop)
           /\ IF HasRoom(queue)
              THEN UNCHANGED events
              ELSE Send(EventOf("Error", generation, FALSE))
    /\ ui' = [ui EXCEPT !.op = "idle"]
    /\ UNCHANGED <<generation, opToken, runtimeCancelled, pc, job, transition,
                   engines, levels>>

\* PlaybackController::shutdown after fetch_add.  Queued jobs are received
\* and dropped; jobs already running go on until they look.
Shutdown ==
    /\ ui.op = "shutdown"
    /\ cancelled' = [cancelled EXCEPT ![opToken] = TRUE, ![sessionToken] = TRUE]
    /\ stream' = None
    /\ relay' = None
    /\ runtimeCancelled' = TRUE
    /\ phase' = Idle
    /\ ui' = [ui EXCEPT !.op = "idle"]
    /\ UNCHANGED <<generation, opToken, queue, pc, job, transition, castSession,
                   loaded, sessionToken, decoding, events, levels>>

\* set_volume: `local` is queue_volume's choice, the selected device or,
\* when a local play is on, always the local one.
SetVolume(level, local) ==
    /\ ui.op = "idle" /\ ~runtimeCancelled
    /\ volumeChanges < MaxVolumeChanges
    /\ phase.local => local
    /\ volume' = level
    /\ volumeChanges' = volumeChanges + 1
    /\ queue' = Submit(queue, JobOf("volume", None, local, level))
    /\ UNCHANGED <<controller, runtimeCancelled, pc, job, transition, engines,
                   events, localLevel, castLevel>>

AnyEvent(e)  == TRUE
IsCurrent(e) == e.generation = generation

PhaseAfter(e) ==
    CASE e.tag = "PlayOk" -> PhaseOf("Playing", e.generation, e.local)
      [] e.tag = "StopOk" -> Idle
      [] e.tag = "Error"  -> PhaseOf("Failed", e.generation, FALSE)

\* poll_messages takes one event; apply_event ignores it when it is stale.
ApplyEvent ==
    /\ ui.op = "idle" /\ ~runtimeCancelled /\ events # <<>>
    /\ events' = Tail(events)
    /\ phase' = IF IsCurrent(Head(events)) THEN PhaseAfter(Head(events)) ELSE phase
    /\ UNCHANGED <<generation, cancelled, opToken, ui, executor, engines, levels>>

-----------------------------------------------------------------------------
(***************************************************************************)
(* The executor: a free worker receives the head of the queue.             *)
(***************************************************************************)

FirstPoint(j) == CASE j.kind = "play"  -> "lockPlay"
                   [] j.kind = "stop"  -> "lockStop"
                   [] j.kind = "title" -> "title"
                   [] j.kind = "volume" -> "volume"

Receive(w) ==
    /\ pc[w] = "free" /\ queue # <<>>
    /\ queue' = Tail(queue)
    /\ IF runtimeCancelled
       THEN UNCHANGED <<pc, job>>
       ELSE /\ pc' = [pc EXCEPT ![w] = FirstPoint(Head(queue))]
            /\ job' = [job EXCEPT ![w] = Head(queue)]
    /\ UNCHANGED <<controller, runtimeCancelled, transition, engines, events, levels>>

\* The transition mutex is free.
AlwaysAvailable == TRUE
Available == transition = {}

Lock(w) ==
    /\ pc[w] \in Waiting
    /\ Available
    /\ transition' = transition \cup {w}
    /\ pc' = [pc EXCEPT ![w] = IF pc[w] = "lockPlay" THEN "check" ELSE "stopEngines"]
    /\ UNCHANGED <<controller, queue, runtimeCancelled, job, engines, events, levels>>

\* The closure that owns title_tx, or the decode thread it was moved to.
TitleSender(g) ==
    \/ \E i \in 1..Len(queue) : queue[i].kind = "play" /\ queue[i].generation = g
    \/ \E w \in Workers : /\ job[w].kind = "play" /\ job[w].generation = g
                          /\ pc[w] \in Opening \cup {"lockPlay"}
    \/ g \in decoding

\* The title forwarder leaves its loop.
TitleEnds(w) ==
    /\ pc[w] = "title"
    /\ Superseded(job[w].generation) \/ ~TitleSender(job[w].generation)
    /\ Finish(w)
    /\ UNCHANGED <<controller, queue, runtimeCancelled, engines, events, levels>>

\* The volume job: no lock, no generation; a Cast level needs a session.
ApplyVolume(w) ==
    /\ pc[w] = "volume"
    /\ localLevel' = IF job[w].local THEN job[w].level ELSE localLevel
    /\ castLevel'  = IF ~job[w].local /\ castSession # None
                     THEN job[w].level ELSE castLevel
    /\ Finish(w)
    /\ UNCHANGED <<controller, queue, runtimeCancelled, engines, events, volume,
                   volumeChanges>>

-----------------------------------------------------------------------------
(***************************************************************************)
(* The play job, from the first check under the mutex to its return.       *)
(***************************************************************************)

G(w) == job[w].generation
outside == <<generation, opToken, phase, ui, queue, runtimeCancelled, volume,
             volumeChanges>>
castEngine  == <<castSession, loaded>>
localEngine == <<cancelled, sessionToken, stream, decoding>>

Check(w) ==
    /\ pc[w] = "check"
    /\ IF Superseded(G(w)) THEN Finish(w) ELSE Goto(w, "teardown")
    /\ UNCHANGED <<outside, castEngine, localEngine, relay, events, localLevel, castLevel>>

TearDown(w) ==
    /\ pc[w] = "teardown"
    /\ LocalStop
    /\ RelayStop
    /\ Goto(w, "resolve")
    /\ UNCHANGED <<outside, castEngine, sessionToken, decoding, events, localLevel, castLevel>>

\* The RockServer URL of the station and its request headers, or an error.
Resolve(w) ==
    /\ pc[w] = "resolve"
    /\ \/ /\ Goto(w, IF job[w].local THEN "castStop" ELSE "recheckCast")
          /\ UNCHANGED events
       \/ /\ Finish(w)
          /\ Send(EventOf("Error", G(w), FALSE))
    /\ UNCHANGED <<outside, castEngine, localEngine, relay, localLevel, castLevel>>

\* The three later re-checks; the one before LOAD also stops the relay.
Recheck(w, at, next) ==
    /\ pc[w] = at
    /\ IF Superseded(G(w)) THEN Finish(w) ELSE Goto(w, next)
    /\ IF Superseded(G(w)) /\ at = "recheckLoad" THEN RelayStop ELSE UNCHANGED relay
    /\ UNCHANGED <<outside, castEngine, localEngine, events, localLevel, castLevel>>

\* StreamRelay::start, up to its last look at the token ...
StartRelay(w) ==
    /\ pc[w] = "relay"
    /\ RelayStop
    /\ \/ /\ ~cancelled[G(w)]
          /\ Goto(w, "relayInstall")
          /\ UNCHANGED events
       \/ /\ Finish(w)
          /\ Send(EventOf("Error", G(w), FALSE))
    /\ UNCHANGED <<outside, castEngine, localEngine, localLevel, castLevel>>

\* ... and from there to the installed session.
InstallRelay(w) ==
    /\ pc[w] = "relayInstall"
    /\ relay' = G(w)
    /\ Goto(w, "buffer")
    /\ UNCHANGED <<outside, castEngine, localEngine, events, localLevel, castLevel>>

\* wait_for_data: enough audio, a cancellation, or the timeout.
Buffer(w) ==
    /\ pc[w] = "buffer"
    /\ \/ /\ ~cancelled[G(w)]
          /\ Goto(w, "recheckLoad")
          /\ UNCHANGED <<relay, events>>
       \/ /\ RelayStop
          /\ Finish(w)
          /\ IF cancelled[G(w)] THEN UNCHANGED events
                                ELSE Send(EventOf("Error", G(w), FALSE))
    /\ UNCHANGED <<outside, castEngine, localEngine, localLevel, castLevel>>

\* CastService::play takes the session it finds: the receiver, the same one,
\* is not told STOP and obeys its last LOAD until the next one.
Connect(w) ==
    /\ pc[w] = "connect"
    /\ \/ /\ Goto(w, "castErr")
          /\ castSession' = IF cancelled[G(w)] THEN castSession ELSE None
       \/ /\ ~cancelled[G(w)]
          /\ castSession' = None
          /\ Goto(w, "load")
    /\ UNCHANGED <<outside, loaded, localEngine, relay, events, localLevel, castLevel>>

\* The loop over the candidate content types looks at the token, then LOADs.
SendLoad(w) ==
    /\ pc[w] = "load"
    /\ IF cancelled[G(w)]
       THEN Goto(w, "castErr") /\ UNCHANGED loaded
       ELSE Goto(w, "loading") /\ loaded' = G(w)
    /\ UNCHANGED <<outside, castSession, localEngine, relay, events, localLevel, castLevel>>

\* The receiver accepts a LOAD, or the last wait ends otherwise (refused, timed
\* out, cancelled, channel lost).  A LOAD repeated with the next content type
\* of the finite list leaves the state as it is here, so it is no step.
AwaitLoad(w) ==
    /\ pc[w] = "loading"
    /\ \/ /\ castSession' = G(w)
          /\ Goto(w, "castOk")
          /\ UNCHANGED loaded
       \/ /\ loaded' \in {G(w), None}
          /\ Goto(w, "castErr")
          /\ UNCHANGED castSession
    /\ UNCHANGED <<outside, localEngine, relay, events, localLevel, castLevel>>

\* The report of a failed play job, unless it is superseded.
Silently(w)    == UNCHANGED events
ReportError(w) == IF generation # G(w) THEN UNCHANGED events
                  ELSE Send(EventOf("Error", G(w), FALSE))

\* What the job does with the result of cast.play.
CastOk(w) ==
    /\ pc[w] = "castOk"
    /\ IF generation # G(w)
       THEN UNCHANGED <<castLevel, events>>
       ELSE /\ castLevel' = IF castSession # None THEN job[w].level ELSE castLevel
            /\ Send(EventOf("PlayOk", G(w), FALSE))
    /\ Finish(w)
    /\ UNCHANGED <<outside, castEngine, localEngine, relay, localLevel>>

CastErr(w) ==
    /\ pc[w] = "castErr"
    /\ IF generation # G(w) THEN UNCHANGED relay ELSE RelayStop
    /\ ReportError(w)
    /\ Finish(w)
    /\ UNCHANGED <<outside, castEngine, localEngine, localLevel, castLevel>>

StopCastForLocal(w) ==
    /\ pc[w] = "castStop"
    /\ CastStop
    /\ Goto(w, "recheckLocal")
    /\ UNCHANGED <<outside, localEngine, relay, events, localLevel, castLevel>>

\* LocalPlayer::play up to the spawn of the decode thread.
OpenLocal(w) ==
    /\ pc[w] = "open"
    /\ LocalStop
    /\ IF cancelled[G(w)]
       THEN /\ Goto(w, "localErr")
            /\ UNCHANGED <<localLevel, sessionToken, decoding>>
       ELSE /\ Goto(w, "probe")
            /\ localLevel' = job[w].level
            /\ sessionToken' = G(w)
            /\ decoding' = decoding \cup {G(w)}
    /\ UNCHANGED <<outside, castEngine, relay, events, castLevel>>

\* The stream opens and on_started runs.
StreamOpens(w) ==
    /\ pc[w] = "probe"
    /\ ~cancelled[G(w)]
    /\ stream' = G(w)
    /\ IF generation = G(w) THEN Send(EventOf("PlayOk", G(w), TRUE)) ELSE UNCHANGED events
    /\ Goto(w, "session")
    /\ UNCHANGED <<outside, castEngine, cancelled, sessionToken, decoding, relay,
                   localLevel, castLevel>>

\* Probe, device or pre-buffer fails.  A decode error, the probe timeout and
\* a cancelled pre-buffer stop the player first; a cancelled probe, a device
\* that is gone and a stream that cannot be built or started return at once.
StreamFails(w) ==
    /\ pc[w] = "probe"
    /\ LocalStop \/ UNCHANGED <<cancelled, stream>>
    /\ Goto(w, "localErr")
    /\ UNCHANGED <<outside, castEngine, sessionToken, decoding, relay, events,
                   localLevel, castLevel>>

\* The session sees its token: while it settles it stops the player, in the
\* loop it does not.
SessionCancelled(w) ==
    /\ pc[w] = "session"
    /\ cancelled[G(w)]
    /\ LocalStop \/ UNCHANGED <<cancelled, stream>>
    /\ Goto(w, "localErr")
    /\ UNCHANGED <<outside, castEngine, sessionToken, decoding, relay, events,
                   localLevel, castLevel>>

\* The session loop finds an error of the decoder or of the stream.
SessionFails(w) ==
    /\ pc[w] = "session"
    /\ LocalStop
    /\ Goto(w, "localErr")
    /\ UNCHANGED <<outside, castEngine, sessionToken, decoding, relay, events,
                   localLevel, castLevel>>

\* local.play only returns errors; a superseded one is not reported.
LocalReturns(w) ==
    /\ pc[w] = "localErr"
    /\ ReportError(w)
    /\ Finish(w)
    /\ UNCHANGED <<outside, castEngine, localEngine, relay, localLevel, castLevel>>

\* A decode thread ends when it sees its token, or when its input fails.
DecodeEnds(g) ==
    /\ g \in decoding
    /\ decoding' = decoding \ {g}
    /\ UNCHANGED <<controller, executor, castSession, loaded, relay, sessionToken,
                   stream, events, levels>>

-----------------------------------------------------------------------------
(***************************************************************************)
(* The stop job: everything, whatever the generation is by then.           *)
(***************************************************************************)

StopEngines(w) ==
    /\ pc[w] = "stopEngines"
    /\ LocalStop
    /\ RelayStop
    /\ Goto(w, "stopCast")
    /\ UNCHANGED <<outside, castEngine, sessionToken, decoding, events, localLevel, castLevel>>

StopCast(w) ==
    /\ pc[w] = "stopCast"
    /\ CastStop
    /\ Send(EventOf("StopOk", G(w), FALSE))
    /\ Finish(w)
    /\ UNCHANGED <<outside, localEngine, relay, localLevel, castLevel>>

-----------------------------------------------------------------------------
UserStep ==
    \/ \E op \in {"play", "stop", "shutdown"}, local \in BOOLEAN :
          (local => op = "play") /\ Begin(op, local)
    \/ \E level \in Levels, local \in BOOLEAN : SetVolume(level, local)

UiStep == Play \/ Stop \/ Shutdown \/ ApplyEvent

CastStep(w) ==
    \/ Recheck(w, "recheckCast", "relay") \/ StartRelay(w) \/ InstallRelay(w)
    \/ Buffer(w) \/ Recheck(w, "recheckLoad", "connect") \/ Connect(w)
    \/ SendLoad(w) \/ AwaitLoad(w) \/ CastOk(w) \/ CastErr(w)

LocalStep(w) ==
    \/ StopCastForLocal(w) \/ Recheck(w, "recheckLocal", "open") \/ OpenLocal(w)
    \/ StreamOpens(w) \/ StreamFails(w) \/ SessionCancelled(w) \/ LocalReturns(w)

\* Every step of a worker that is bounded in time; not taking the mutex,
\* which waits for its holder, and not the end of a healthy local session.
JobStep(w) ==
    \/ Receive(w) \/ TitleEnds(w) \/ ApplyVolume(w)
    \/ Check(w) \/ TearDown(w) \/ Resolve(w) \/ CastStep(w) \/ LocalStep(w)
    \/ StopEngines(w) \/ StopCast(w)

Next ==
    \/ UserStep \/ UiStep
    \/ \E w \in Workers : Lock(w) \/ JobStep(w) \/ SessionFails(w)
    \/ \E g \in Tokens : DecodeEnds(g)

\* egui keeps drawing frames while events are pending; parking_lot hands the
\* mutex over to a starving waiter; every wait of a job has a timeout.
Fairness ==
    /\ WF_vars(UiStep)
    /\ \A w \in Workers : WF_vars(JobStep(w)) /\ SF_vars(Lock(w))
    /\ \A g \in Tokens : WF_vars(cancelled[g] /\ DecodeEnds(g))

Spec     == Init /\ [][Next]_vars
FairSpec == Spec /\ Fairness

-----------------------------------------------------------------------------
(***************************************************************************)
(* Properties.                                                             *)
(***************************************************************************)

\* The cpal callback writes silence as soon as the session's token is set; a
\* receiver plays while the relay it was given still serves.
LocalAudible == stream # None /\ ~cancelled[stream]
CastAudible  == loaded # None /\ relay = loaded

\* The speakers and a Chromecast never play at the same time: whichever way
\* plays and stops overlap, the transition mutex and the teardown at the start
\* of a play job keep a local stream and a served LOAD apart.
OneOutput == ~(LocalAudible /\ CastAudible)

\* Once the user is told that playback stopped or failed, nothing plays, though
\* jobs of earlier operations may still be running (while every job could be
\* queued: a rejected stop job leaves the receiver playing).
SettledIsSilent ==
    (phase.tag \in {"Idle", "Failed"} /\ ui.op = "idle" /\ ~runtimeCancelled)
        => ~LocalAudible /\ ~CastAudible

\* "Playing" is never shown for local speakers that are silent, unless the
\* report of the failure is already on its way or a newer operation has begun.
LocalPlayingIsReal ==
    (phase.tag = "Playing" /\ phase.local /\ phase.generation = generation)
        => \/ stream = generation /\ ~cancelled[generation]
           \/ \E w \in Workers : pc[w] = "localErr" /\ G(w) = generation
           \/ \E i \in 1..Len(events) :
                 events[i].tag = "Error" /\ events[i].generation = generation

\* docs/architecture.md, cancellation rule 1: a stale play worker neither tears
\* down nor installs a session: a step of a superseded play job leaves every
\* engine session of the newest operation alone.
StalePlayTouchesNothing ==
    [][\A w \in Workers :
          (job[w].kind = "play" /\ G(w) # generation /\ pc'[w] # pc[w])
             => /\ castSession # generation \/ UNCHANGED castSession
                /\ relay # generation \/ UNCHANGED relay
                /\ stream # generation \/ UNCHANGED stream]_vars

\* The same rule for a stop that was overtaken by a newer play.
StaleStopTouchesNothing ==
    [][\A w \in Workers :
          (job[w].kind = "stop" /\ G(w) # generation /\ pc'[w] # pc[w])
             => castSession # generation \/ UNCHANGED castSession]_vars

\* docs/playback.md, "Stop and error handling": after the error of the current
\* generation local.stop() has run again, so no decode thread of it goes on.
\* The code does not keep to it (README, section 3).
FailedStopsLocal ==
    phase.tag = "Failed"
        => \A g \in decoding : g = phase.generation => cancelled[g]

\* docs/architecture.md names one volume worker that drains a channel, so the
\* level the player ends up with is the last one the user chose.
\* The code does not keep to it (README, section 3).
LastLevelWins ==
    (/\ phase.tag = "Playing" /\ phase.local /\ stream = generation
     /\ ui.op = "idle" /\ queue = <<>>
     /\ \A w \in Workers : pc[w] # "volume")
        => localLevel = volume

\* The controller, whatever its jobs do, keeps to PlaybackPhases.  An operation
\* counts once its call has returned.
Returned == IF ui.op = "idle" THEN generation ELSE generation - 1
Abstract == INSTANCE PlaybackPhases WITH newest <- Returned
KeepsItsPromise == Abstract!Spec

\* Every play and every stop is answered: it plays, is idle or has failed, or
\* a newer operation replaced it.
OperationSettles ==
    \A g \in Generations :
        (phase.generation = g /\ phase.tag \in {"Opening", "Stopping"})
            ~> (phase.generation # g \/ phase.tag \in {"Playing", "Failed"})

\* The decode thread of a superseded local session ends; none outlives the
\* operations that replaced it.
OldDecodersEnd ==
    \A g \in Generations : (g \in decoding /\ g < generation) ~> (g \notin decoding)
=============================================================================
