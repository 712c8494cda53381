--------------------------- MODULE RemoteCommands ---------------------------
(***************************************************************************)
(* How the egui thread executes the commands of CommandLedger:             *)
(* poll_device_control_commands (src/app/actions/playback.rs), the         *)
(* handling of playback events and finish_remote_command /                 *)
(* finish_stale_remote_command (src/app/actions/poll/playback.rs).         *)
(*                                                                         *)
(* A command starts an operation of the PlaybackController and stays       *)
(* pending until an event of that operation answers it.  The user starts   *)
(* operations too.  The controller is here only what Playback shows of it: *)
(* a play job that is superseded is mostly silent, a stop job always       *)
(* answers, a local session that plays may still fail.  Status and Title   *)
(* events answer nothing and are left out.                                 *)
(***************************************************************************)
EXTENDS CommandLedger

CONSTANTS
    Kind,          \* [Commands -> Kinds], what each command asks for
    NoCommand,     \* neither pending nor being executed
    MaxGeneration  \* bound: operations in a behaviour

Kinds == {"play", "stop", "volume"}
ASSUME KindAssumption == Kind \in [Commands -> Kinds] /\ NoCommand \notin Commands
ASSUME GenerationAssumption == MaxGeneration \in Nat

VARIABLES
    current,     \* the command poll_device_control_commands is executing
    pending,     \* RockCastApp.pending_remote_command: id and generation
    generation,  \* PlaybackController's generation
    opening,     \* generations whose play job has not answered
    sounding,    \* generations whose local session plays
    stopping,    \* generations whose stop job has not answered
    events,      \* the PlaybackEvent channel
    operation,   \* the generation each command started, 0 if none
    observed     \* generations whose PlayOk or StopOk was handled

controller == <<generation, opening, sounding, stopping>>
remoteVars == <<ledger, current, pending, controller, events, operation, observed>>

Generations == 0..MaxGeneration
Event   == [tag : {"PlayOk", "StopOk", "Error"}, generation : Generations]
NoOne   == [id |-> NoCommand, generation |-> 0]

RemoteTypeOK ==
    /\ LedgerTypeOK
    /\ current \in Commands \cup {NoCommand}
    /\ generation \in Generations
    /\ pending \in [id : Commands, generation : 1..generation] \cup {NoOne}
    /\ opening \subseteq Generations /\ sounding \subseteq Generations
    /\ stopping \subseteq Generations
    /\ events \in Seq(Event)
    /\ operation \in [Commands -> Generations] /\ observed \subseteq Generations

RemoteInit ==
    /\ LedgerInit
    /\ current = NoCommand /\ pending = NoOne
    /\ generation = 0 /\ opening = {} /\ sounding = {} /\ stopping = {}
    /\ events = <<>>
    /\ operation = [c \in Commands |-> 0] /\ observed = {}

-----------------------------------------------------------------------------
(***************************************************************************)
(* PlaybackController, as far as its caller sees it.                       *)
(***************************************************************************)

EventOf(t, g) == [tag |-> t, generation |-> g]
Send(e) == events' = Append(events, e)

\* play() and stop(): the job is queued, or a full executor is reported at once.
\* `waiting` are the events nobody has taken yet.
StartOperation(kind, waiting) ==
    /\ generation < MaxGeneration
    /\ generation' = generation + 1
    /\ UNCHANGED sounding
    /\ \/ /\ opening' = IF kind = "play" THEN opening \cup {generation'} ELSE opening
          /\ stopping' = IF kind = "stop" THEN stopping \cup {generation'} ELSE stopping
          /\ events' = waiting
       \/ /\ events' = Append(waiting, EventOf("Error", generation'))
          /\ UNCHANGED <<opening, stopping>>

PlayStarts(g) ==
    /\ g \in opening /\ g = generation
    /\ Send(EventOf("PlayOk", g))
    /\ opening' = opening \ {g}
    /\ sounding' \in {sounding, sounding \cup {g}}
    /\ UNCHANGED <<ledger, current, pending, generation, stopping, operation, observed>>

PlayFails(g) ==
    /\ g \in opening \cup sounding /\ g = generation
    /\ Send(EventOf("Error", g))
    /\ opening' = opening \ {g} /\ sounding' = sounding \ {g}
    /\ UNCHANGED <<ledger, current, pending, generation, stopping, operation, observed>>

\* A superseded play job ends in silence, except that a failure to resolve the
\* station or to start the relay is reported without asking for the generation.
PlaySuperseded(g) ==
    /\ g \in opening \cup sounding /\ g # generation
    /\ opening' = opening \ {g} /\ sounding' = sounding \ {g}
    /\ \/ UNCHANGED events
       \/ g \in opening /\ Send(EventOf("Error", g))
    /\ UNCHANGED <<ledger, current, pending, generation, stopping, operation, observed>>

StopAnswers(g) ==
    /\ g \in stopping
    /\ Send(EventOf("StopOk", g))
    /\ stopping' = stopping \ {g}
    /\ UNCHANGED <<ledger, current, pending, generation, opening, sounding, operation,
                   observed>>

-----------------------------------------------------------------------------
(***************************************************************************)
(* The egui thread.  A frame handles events, then commands, then the user. *)
(***************************************************************************)

LocalOperation(kind) ==
    /\ current = NoCommand
    /\ StartOperation(kind, events)
    /\ UNCHANGED <<ledger, current, pending, operation, observed>>

TakeNext ==
    /\ current = NoCommand
    /\ TakeCommand
    /\ current' = Head(queued)
    /\ UNCHANGED <<pending, controller, events, operation, observed>>

\* plan_remote_command or play() finds nothing to do it with: no selected or
\* next station, no device, an unknown station, a shutdown in progress.
CannotApply ==
    /\ current # NoCommand
    /\ CompleteCommand(current, "failed")
    /\ current' = NoCommand
    /\ UNCHANGED <<pending, controller, events, operation, observed>>

ApplyVolume ==
    /\ current # NoCommand /\ Kind[current] = "volume"
    /\ CompleteCommand(current, "succeeded")
    /\ current' = NoCommand
    /\ UNCHANGED <<pending, controller, events, operation, observed>>

\* The command that was pending before is answered when it is replaced.
LeaveReplaced  == UNCHANGED ledger
ForgetReplaced == /\ inFlight' = inFlight \ {pending.id}
                  /\ UNCHANGED <<network, queued, order, completed, delivered, history,
                                 frames, connections>>
AnswerReplaced == IF pending = NoOne THEN UNCHANGED ledger
                  ELSE CompleteCommand(pending.id, "failed")

ItsGeneration == generation'

ApplyOperation ==
    /\ current # NoCommand /\ Kind[current] \in {"play", "stop"}
    /\ StartOperation(Kind[current], events)
    /\ AnswerReplaced
    /\ pending' = [id |-> current, generation |-> ItsGeneration]
    /\ operation' = [operation EXCEPT ![current] = generation']
    /\ current' = NoCommand
    /\ UNCHANGED observed

\* finish_remote_command: only an event of the pending operation answers.
IsPending(g) == pending # NoOne /\ pending.generation = g

AnyOperation(g, v) == pending # NoOne
NoFailures(g, v)   == v = "succeeded" /\ IsPending(g)
Answers(g, v)      == IsPending(g)

Finish(g, v) ==
    IF Answers(g, v)
    THEN CompleteCommand(pending.id, v) /\ pending' = NoOne
    ELSE UNCHANGED <<ledger, pending>>

\* apply_event refuses an event of an old generation; a command that waits for
\* an operation which is not the newest is given up on that occasion.
StaleEvent ==
    /\ current = NoCommand /\ events # <<>> /\ Head(events).generation # generation
    /\ events' = Tail(events)
    /\ IF pending # NoOne /\ pending.generation # generation
       THEN CompleteCommand(pending.id, "failed") /\ pending' = NoOne
       ELSE UNCHANGED <<ledger, pending>>
    /\ UNCHANGED <<current, controller, operation, observed>>

ConfirmedEvent ==
    /\ current = NoCommand /\ events # <<>> /\ Head(events).generation = generation
    /\ Head(events).tag # "Error"
    /\ Finish(generation, "succeeded")
    /\ observed' = observed \cup {generation}
    /\ events' = Tail(events)
    /\ UNCHANGED <<current, controller, operation>>

\* After a failure the next station of a voice search may be played first.
FailedEvent ==
    /\ current = NoCommand /\ events # <<>> /\ Head(events).generation = generation
    /\ Head(events).tag = "Error"
    /\ Finish(generation, "failed")
    /\ \/ events' = Tail(events) /\ UNCHANGED controller
       \/ StartOperation("play", Tail(events))
    /\ UNCHANGED <<current, operation, observed>>

-----------------------------------------------------------------------------
ControllerStep(g) == PlayStarts(g) \/ PlayFails(g) \/ PlaySuperseded(g) \/ StopAnswers(g)
CommandStep == TakeNext \/ CannotApply \/ ApplyVolume \/ ApplyOperation
EventStep   == StaleEvent \/ ConfirmedEvent \/ FailedEvent

RemoteNext ==
    \/ NetworkStep /\ UNCHANGED <<current, pending, controller, events, operation, observed>>
    \/ \E g \in Generations : ControllerStep(g)
    \/ \E kind \in {"play", "stop"} : LocalOperation(kind)
    \/ CommandStep \/ EventStep

RemoteSpec == RemoteInit /\ [][RemoteNext]_remoteVars

\* A job that is opening or stopping answers or ends (Playback shows it), and
\* egui keeps drawing frames while there are events or commands.
FairRemoteSpec ==
    /\ RemoteSpec
    /\ WF_remoteVars(CommandStep) /\ WF_remoteVars(EventStep)
    /\ \A g \in Generations :
          WF_remoteVars(g \in opening \cup stopping /\ ControllerStep(g))

-----------------------------------------------------------------------------
(***************************************************************************)
(* Properties.                                                             *)
(***************************************************************************)

\* Every command in flight has exactly one owner that will complete it: the loop
\* that executes it or the pending slot.  Without an owner an id would occupy
\* the ledger for ever, and MAX_PENDING_COMMANDS of them would close it.
InFlightIsOwned ==
    /\ inFlight = {current, pending.id} \ {NoCommand}
    /\ current # NoCommand => current # pending.id

\* docs/status.md, DC-013: success is never synthetic.  A play or stop that is
\* reported as succeeded was confirmed by an event of the very operation that
\* the command started, not by one of another operation.
SuccessWasObserved ==
    \A c \in Completed :
        completed[c] = "succeeded" => Kind[c] = "volume" \/ operation[c] \in observed

\* A command whose operation is still the newest is answered when the operation
\* is, or a newer operation takes its place.
CurrentIsAnswered ==
    \A c \in Commands :
        (pending.id = c /\ pending.generation = generation)
            ~> (pending.id # c \/ pending.generation # generation)

\* docs/status.md, DC-014: an interrupted operation returns a terminal failure.
\* When no job, event or command is left, nothing is still in flight.  The code does
\* not keep to it (README, section 3).
Exhausted == /\ opening = {} /\ sounding = {} /\ stopping = {}
             /\ events = <<>> /\ queued = <<>> /\ current = NoCommand
InterruptedIsAnswered == Exhausted => inFlight = {}
=============================================================================
