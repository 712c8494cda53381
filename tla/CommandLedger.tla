--------------------------- MODULE CommandLedger ----------------------------
(***************************************************************************)
(* Commands that RockServer sends to this player, and the ledger that      *)
(* stands between the connection worker and the egui thread: CommandBook,  *)
(* receive_command and send_pending_results of src/device_control.rs.      *)
(*                                                                         *)
(* The worker goes round its loop (`at`); the egui thread takes commands   *)
(* and completes them, here with any result: RemoteCommands says when.     *)
(* How a connection comes about is the subject of StatePublisher.          *)
(***************************************************************************)
EXTENDS Naturals, Sequences, FiniteSets, SequencesExt

CONSTANTS
    Commands,       \* command ids the server uses
    Refused,        \* those with a bad payload, a wrong target or no support
    MaxPending,     \* MAX_PENDING_COMMANDS (64 in the program)
    MaxDeduped,     \* MAX_DEDUPED_COMMANDS (64 in the program)
    MaxFrames,      \* bound: device.command frames that reach the player
    MaxConnections  \* bound: registered connections

ASSUME CommandsAssumption == Refused \subseteq Commands
ASSUME LimitsAssumption == /\ MaxPending \in Nat \ {0} /\ MaxDeduped \in Nat \ {0}
                           /\ MaxFrames \in Nat /\ MaxConnections \in Nat

VARIABLES
    link,        \* "down", "up", or "dying": broken, and the worker not told yet
    at,          \* where in its loop the worker is
    outbox,      \* results it has cloned and not sent yet
    queued,      \* CommandBook.queued
    inFlight,    \* CommandBook.in_flight
    order,       \* CommandBook.completed_order
    completed,   \* CommandBook.completed: the result of each id in `order`
    delivered,   \* ids whose completed entry is marked delivered
    answers,     \* results the server has for each id
    turnedAway,  \* ids answered "queue is full" and not remembered
    taken,       \* how often the egui thread was handed each id
    forgotten,   \* how often the ledger dropped each id
    frames, connections

network == <<link, at, outbox>>
book    == <<queued, inFlight, order, completed, delivered>>
history == <<answers, turnedAway, taken, forgotten>>
ledger  == <<network, book, history, frames, connections>>

Verdicts == {"succeeded", "failed"}
Result   == [id : Commands, verdict : Verdicts]
Answer(c, v) == [id |-> c, verdict |-> v]

Pending     == ToSet(queued) \cup inFlight
Completed   == ToSet(order)
Undelivered == Completed \ delivered

LedgerTypeOK ==
    /\ link \in {"down", "up", "dying"}
    /\ at \in {"collect", "sending", "read", "resending"}
    /\ outbox \subseteq Result
    /\ queued \in Seq(Commands) /\ inFlight \subseteq Commands
    /\ order \in Seq(Commands) /\ Len(order) <= MaxDeduped
    /\ completed \in [Commands -> Verdicts \cup {"none"}]
    /\ delivered \subseteq Commands
    /\ answers \in [Commands -> SUBSET Verdicts] /\ turnedAway \subseteq Commands
    /\ taken \in [Commands -> Nat] /\ forgotten \in [Commands -> Nat]
    /\ frames \in 0..MaxFrames /\ connections \in 0..MaxConnections

LedgerInit ==
    /\ link = "down" /\ at = "collect" /\ outbox = {}
    /\ queued = <<>> /\ inFlight = {} /\ order = <<>> /\ delivered = {}
    /\ completed = [c \in Commands |-> "none"]
    /\ answers = [c \in Commands |-> {}] /\ turnedAway = {}
    /\ taken = [c \in Commands |-> 0] /\ forgotten = [c \in Commands |-> 0]
    /\ frames = 0 /\ connections = 0

-----------------------------------------------------------------------------
(***************************************************************************)
(* The connection.                                                         *)
(***************************************************************************)

Connect ==
    /\ link = "down" /\ connections < MaxConnections
    /\ link' = "up" /\ at' = "collect"
    /\ connections' = connections + 1
    /\ UNCHANGED <<outbox, book, history, frames>>

\* What is sent from here on is lost, though sending still succeeds.
Break == /\ link = "up"
         /\ link' = "dying"
         /\ UNCHANGED <<at, outbox, book, history, frames, connections>>

\* A read or a write fails; run_connection returns.
Disconnect ==
    /\ link # "down"
    /\ link' = "down" /\ at' = "collect" /\ outbox' = {}
    /\ UNCHANGED <<book, history, frames, connections>>

Tell(r) == answers' = IF link = "up"
                      THEN [answers EXCEPT ![r.id] = @ \cup {r.verdict}]
                      ELSE answers

-----------------------------------------------------------------------------
(***************************************************************************)
(* The worker's loop.  It holds the book's mutex to look, not to send.     *)
(***************************************************************************)

OnlyWhenAsked  == {}
PendingResults == {Answer(c, completed[c]) : c \in Undelivered}

\* send_pending_results: the undelivered results are cloned.
Collect ==
    /\ link # "down" /\ at = "collect"
    /\ outbox' = PendingResults
    /\ at' = IF outbox' = {} THEN "read" ELSE "sending"
    /\ UNCHANGED <<link, book, history, frames, connections>>

\* One of them is sent, and marked if the book still has it.
SendResult(r) ==
    /\ at \in {"sending", "resending"} /\ r \in outbox
    /\ Tell(r)
    /\ delivered' = IF r.id \in Completed THEN delivered \cup {r.id} ELSE delivered
    /\ outbox' = outbox \ {r}
    /\ at' = IF outbox' # {} THEN at ELSE IF at = "sending" THEN "read" ELSE "collect"
    /\ UNCHANGED <<link, queued, inFlight, order, completed, turnedAway, taken,
                   forgotten, frames, connections>>

\* The write fails, perhaps after the frame went out.
SendFails(r) ==
    /\ r \in outbox
    /\ Tell(r)
    /\ link' = "down" /\ at' = "collect" /\ outbox' = {}
    /\ UNCHANGED <<book, turnedAway, taken, forgotten, frames, connections>>

ReadNothing ==
    /\ link # "down" /\ at = "read"
    /\ at' = "collect"
    /\ UNCHANGED <<link, outbox, book, history, frames, connections>>

\* A device.command frame; whatever comes of it, the loop goes on.
Frame(c) == /\ link # "down" /\ at = "read" /\ frames < MaxFrames
            /\ frames' = frames + 1
            /\ UNCHANGED <<link, connections>>

\* The duplicate checks of receive_command.
NotIfQueued(c)  == c \in inFlight \cup delivered
AlreadyKnown(c) == c \in Pending \cup delivered

\* command_from_frame or command_is_advertised turns the command down.
RefuseFrame(c) ==
    /\ Frame(c) /\ c \in Refused
    /\ Tell(Answer(c, "failed"))
    /\ at' = "collect"
    /\ UNCHANGED <<outbox, book, turnedAway, taken, forgotten>>

IgnoreDuplicate(c) ==
    /\ Frame(c) /\ c \notin Refused
    /\ AlreadyKnown(c)
    /\ at' = "collect"
    /\ UNCHANGED <<outbox, book, history>>

\* A completed command whose result has not been sent: it is sent now.
Resend(c) ==
    /\ Frame(c) /\ c \notin Refused
    /\ ~AlreadyKnown(c) /\ c \in Completed
    /\ outbox' = {Answer(c, completed[c])} /\ at' = "resending"
    /\ UNCHANGED <<book, history>>

AnyRoom == Len(queued) < MaxPending
Room    == Len(queued) + Cardinality(inFlight) < MaxPending

TurnAway(c) ==
    /\ Frame(c) /\ c \notin Refused
    /\ ~AlreadyKnown(c) /\ c \notin Completed /\ ~Room
    /\ Tell(Answer(c, "failed"))
    /\ turnedAway' = turnedAway \cup {c}
    /\ at' = "collect"
    /\ UNCHANGED <<outbox, book, taken, forgotten>>

\* command.accepted tells the server nothing final and is left out.
Accept(c) ==
    /\ Frame(c) /\ c \notin Refused
    /\ ~AlreadyKnown(c) /\ c \notin Completed /\ Room
    /\ queued' = Append(queued, c)
    /\ at' = "collect"
    /\ UNCHANGED <<outbox, inFlight, order, completed, delivered, history>>

Receive(c) == \/ RefuseFrame(c) \/ IgnoreDuplicate(c) \/ Resend(c)
              \/ TurnAway(c) \/ Accept(c)

-----------------------------------------------------------------------------
(***************************************************************************)
(* The egui thread's side of the book.                                     *)
(***************************************************************************)

TakeCommand ==
    /\ queued # <<>>
    /\ queued' = Tail(queued)
    /\ inFlight' = inFlight \cup {Head(queued)}
    /\ taken' = [taken EXCEPT ![Head(queued)] = @ + 1]
    /\ UNCHANGED <<network, order, completed, delivered, answers, turnedAway,
                   forgotten, frames, connections>>

\* CommandBook::complete: the oldest results go when there are too many.
Overflows(s) == Len(s) > MaxDeduped

Complete(c, v) ==
    /\ c \in inFlight
    /\ inFlight' = inFlight \ {c}
    /\ LET grown == Append(order, c)
           done  == [completed EXCEPT ![c] = v]
           old   == Head(grown)
       IN  IF Overflows(grown)
           THEN /\ order' = Tail(grown)
                /\ completed' = [done EXCEPT ![old] = "none"]
                /\ delivered' = delivered \ {old}
                /\ forgotten' = [forgotten EXCEPT ![old] = @ + 1]
           ELSE /\ order' = grown
                /\ completed' = done
                /\ UNCHANGED <<delivered, forgotten>>
    /\ UNCHANGED <<network, queued, answers, turnedAway, taken, frames, connections>>

\* complete_command: an id that is not in flight is ignored.
CompleteCommand(c, v) == Complete(c, v) \/ (c \notin inFlight /\ UNCHANGED ledger)

-----------------------------------------------------------------------------
SendStep == \E c \in Commands, v \in Verdicts : SendResult(Answer(c, v))
WorkerStep == Collect \/ SendStep \/ ReadNothing
NetworkStep ==
    \/ Connect \/ Break \/ Disconnect \/ WorkerStep
    \/ \E c \in Commands : Receive(c)
    \/ \E c \in Commands, v \in Verdicts : SendFails(Answer(c, v))

LedgerNext ==
    \/ NetworkStep
    \/ TakeCommand
    \/ \E c \in Commands, v \in Verdicts : Complete(c, v)

LedgerSpec == LedgerInit /\ [][LedgerNext]_ledger

\* The worker always tries again, and its loop has no wait without a deadline.
WorkerFairness == WF_ledger(Connect) /\ WF_ledger(WorkerStep)
FairLedgerSpec == LedgerSpec /\ WorkerFairness

-----------------------------------------------------------------------------
(***************************************************************************)
(* Properties.                                                             *)
(***************************************************************************)

\* A command is in one place of the book, once; what waits or runs is bounded;
\* only what is completed is marked delivered, and only that has a result.
LedgerOK ==
    /\ IsInjective(queued) /\ IsInjective(order)
    /\ ToSet(queued) \cap inFlight = {} /\ Pending \cap Completed = {}
    /\ delivered \subseteq Completed
    /\ \A c \in Commands : completed[c] # "none" <=> c \in Completed
    /\ Len(queued) + Cardinality(inFlight) <= MaxPending

\* docs/tasks.md, DC-014: reconnects never replay hardware work.  However often
\* the server repeats a command, it runs again only if the ledger forgot it.
ReplayNeedsForgetting == \A c \in Commands : taken[c] <= 1 + forgotten[c]

\* Over all connections and repeated results the server is never told both
\* "succeeded" and "failed", unless the ledger forgot the command or had no
\* room for it when it came first.
OneVerdict ==
    \A c \in Commands \ turnedAway :
        forgotten[c] = 0 => Cardinality(answers[c]) <= 1

\* docs/status.md, DC-013: a completed result whose send failed stays undelivered
\* until a later connection.
\* The code does not keep to it (README, section 3).
UndeliveredIsKept == [][Undelivered \subseteq Completed']_ledger

\* Every completed result is sent, or forgotten, as long as the worker still gets
\* connections, however often they break.
NoMoreConnections == link = "down" /\ connections = MaxConnections
ResultsAreSent ==
    \A c \in Commands : (c \in Undelivered) ~> (c \notin Undelivered \/ NoMoreConnections)
=============================================================================
