---------------------------- MODULE CastSessions ----------------------------
(***************************************************************************)
(* CastService (src/cast/client): which receiver has a live session, the   *)
(* negotiation of a LOAD on a channel (src/cast/channel), and the          *)
(* heartbeat thread each session starts.                                   *)
(*                                                                         *)
(* Operations exclude one another through op_lock; their number also       *)
(* stands for the url they load.  A receiver (external) takes up the LOADs *)
(* it was sent, in its own time, and reports on the channel; the messages  *)
(* of interest are the ones load_media looks at.                           *)
(***************************************************************************)
EXTENDS Naturals, Sequences, FiniteSets

CONSTANTS
    Devices,     \* receivers
    MaxOps,      \* bound: play and stop calls
    Types,       \* candidate content types of a station (at most six)
    IdleLimit,   \* IDLE reports that end a LOAD (10)
    MaxReports   \* bound: reports of a receiver in one operation

ASSUME CastAssumption == /\ Devices # {} /\ MaxOps \in Nat /\ MaxReports \in Nat
                         /\ Types \in Nat \ {0} /\ IdleLimit \in Nat \ {0}

VARIABLES
    ops,        \* operations begun
    pc,         \* where the operation that holds op_lock is
    target,     \* the receiver it plays on
    cancel,     \* its cancel token
    attempt,    \* the content type tried, which numbers its LOAD too
    idleHits,   \* load_media's idle_hits
    inbox,      \* CastChannel.inbox
    wire,       \* sent by the receiver and not read yet
    torn,       \* a read timed out inside a frame: the framing is lost
    current,    \* CastService.current: operation and receiver, or NoSession
    beats,      \* operations whose heartbeat thread runs
    playing,    \* what each receiver plays: an operation, or 0
    loads,      \* LOADs of the running operation the receiver has before it
    reports,    \* reports sent in the running operation
    dropped,    \* sessions dropped without stopping their heartbeat
    abandoned   \* receivers left to themselves with a LOAD: by an operation that
                \* failed, or with a STOP that could not be sent

operation == <<ops, pc, target, cancel, attempt>>
channel   == <<idleHits, inbox, wire, torn>>
service   == <<current, beats>>
receivers == <<playing, loads, reports>>
ghosts    == <<dropped, abandoned>>
vars      == <<operation, channel, service, receivers, ghosts>>

NoDevice  == CHOOSE d \in Devices : TRUE
NoSession == [op |-> 0, device |-> NoDevice]
IsLive    == current.op # 0

\* A media report: a status of this url (`ours`) or of something else, in
\* answer to a request or of its own accord (0); or the refusal of a LOAD.
Message == [kind : {"active", "idle", "dead", "empty", "rejected"},
            ours : BOOLEAN, request : 0..Types]
Report(k, o, r) == [kind |-> k, ours |-> o, request |-> r]

Waiting == {"scan", "read"}
Points  == {"free", "switch", "connect", "query", "launch", "load", "commit"} \cup Waiting

Init ==
    /\ ops = 0 /\ pc = "free" /\ target = NoDevice /\ cancel = FALSE /\ attempt = 0
    /\ idleHits = 0 /\ inbox = <<>> /\ wire = <<>> /\ torn = FALSE
    /\ current = NoSession /\ beats = {}
    /\ playing = [d \in Devices |-> 0] /\ loads = {} /\ reports = 0
    /\ dropped = {} /\ abandoned = {}

-----------------------------------------------------------------------------
(***************************************************************************)
(* Ending a session.                                                       *)
(***************************************************************************)

\* Mutant of StopHeartbeat: the flag is never read.
StopNothing(sessions) == UNCHANGED beats

\* stop_heartbeat sets the flag and joins the thread.
StopHeartbeat(sessions) == beats' = beats \ sessions

\* Mutant of SendStop: only the connection is closed.
OnlyClose(d) == UNCHANGED <<playing, abandoned>>

\* send_stop: media STOP and receiver STOP end whatever plays there.  The result
\* of every write is ignored: on a connection that broke none of them arrives.
SendStop(d) ==
    \/ playing' = [playing EXCEPT ![d] = 0] /\ abandoned' = abandoned \ {d}
    \/ UNCHANGED playing /\ abandoned' = abandoned \cup {d}

\* CastService::stop, which succeeds in either case.
Stop ==
    /\ pc = "free" /\ ops < MaxOps /\ ops' = ops + 1
    /\ current' = NoSession
    /\ IF IsLive
       THEN StopHeartbeat({current.op}) /\ SendStop(current.device)
       ELSE UNCHANGED <<beats, playing, abandoned>>
    /\ UNCHANGED <<pc, target, cancel, attempt, channel, loads, reports, dropped>>

-----------------------------------------------------------------------------
(***************************************************************************)
(* CastService::play.                                                      *)
(***************************************************************************)

\* The operation returns: its locals and the channel's buffers are gone.
Return ==
    /\ pc' = "free" /\ target' = NoDevice /\ cancel' = FALSE /\ attempt' = 0
    /\ idleHits' = 0 /\ inbox' = <<>> /\ wire' = <<>> /\ torn' = FALSE
    /\ loads' = {} /\ reports' = 0

Begin(d) ==
    /\ pc = "free" /\ ops < MaxOps /\ ops' = ops + 1
    /\ pc' = "switch" /\ target' = d /\ cancel' = FALSE
    /\ UNCHANGED <<attempt, channel, service, receivers, ghosts>>

\* The caller's token, at any time.
Cancel ==
    /\ pc # "free" /\ ~cancel /\ cancel' = TRUE
    /\ UNCHANGED <<ops, pc, target, attempt, channel, service, receivers, ghosts>>

\* The session is taken out whatever receiver it is on: one on another
\* receiver is stopped, one on the same receiver is dropped, and its heartbeat
\* thread runs on.
Switch ==
    /\ pc = "switch"
    /\ IF cancel
       THEN Return /\ UNCHANGED <<service, playing, ghosts>>
       ELSE /\ pc' = "connect"
            /\ current' = NoSession
            /\ IF IsLive /\ current.device # target
               THEN /\ StopHeartbeat({current.op}) /\ SendStop(current.device)
                    /\ UNCHANGED dropped
               ELSE /\ dropped' = IF IsLive THEN dropped \cup {current.op} ELSE dropped
                    /\ UNCHANGED <<beats, playing, abandoned>>
            /\ UNCHANGED <<target, cancel, attempt, channel, loads, reports>>
    /\ UNCHANGED ops

\* What an operation that fails leaves behind: the receiver plays on, or takes
\* up a LOAD it was sent; the channel is abandoned.
Fail ==
    /\ Return
    /\ \/ UNCHANGED playing
       \/ loads # {} /\ playing' = [playing EXCEPT ![target] = ops]
    /\ abandoned' = IF loads # {} \/ playing[target] # 0
                    THEN abandoned \cup {target} ELSE abandoned
    /\ UNCHANGED <<ops, service, dropped>>

\* take_or_connect, CONNECT and the device authentication: nothing is left to
\* take, so the channel is new.
Connect ==
    /\ pc = "connect"
    /\ \/ /\ pc' = "query"
          /\ UNCHANGED <<ops, target, cancel, attempt, channel, service, receivers, ghosts>>
       \/ Fail

\* query_dmr: the status shows a media receiver, or none; no answer and the
\* token end the operation.
Query ==
    /\ pc = "query"
    /\ \/ /\ pc' = "launch" /\ UNCHANGED attempt
          /\ UNCHANGED <<ops, target, cancel, channel, service, receivers, ghosts>>
       \/ /\ pc' = "load" /\ attempt' = 1
          /\ UNCHANGED <<ops, target, cancel, channel, service, receivers, ghosts>>
       \/ Fail

\* ensure_media_receiver: LAUNCH replaces whatever the receiver showed.
Launch ==
    /\ pc = "launch"
    /\ \/ /\ pc' = "load" /\ attempt' = 1
          /\ playing' = [playing EXCEPT ![target] = 0] /\ abandoned' = abandoned \ {target}
          /\ UNCHANGED <<ops, target, cancel, channel, service, loads, reports, dropped>>
       \/ Fail

\* load_media: the LOAD of the next content type.
Load ==
    /\ pc = "load"
    /\ IF cancel \/ attempt > Types
       THEN Fail
       ELSE /\ pc' = "scan" /\ idleHits' = 0
            /\ loads' = loads \cup {attempt}
            /\ UNCHANGED <<ops, target, cancel, attempt, inbox, wire, torn, service,
                           playing, reports, ghosts>>

-----------------------------------------------------------------------------
(***************************************************************************)
(* receive_find with the closure of load_media.                            *)
(***************************************************************************)

\* The idle count after a message.
HitsAfter(hits, m) ==
    CASE m.kind \in {"idle", "dead"} /\ m.ours -> hits + 1
      [] m.kind = "active"                     -> 0
      [] OTHER                                 -> hits

\* Mutant of Accepts: any status of the url will do.
AcceptsIdle(m) == m.kind \in {"active", "idle", "empty"} /\ (m.request = attempt \/ m.ours)

\* classify_media_status and the refusals: what a message says of the LOAD.
Concerns(m) == m.request = attempt \/ (m.ours /\ m.kind # "empty")
Accepts(m)  == Concerns(m) /\ m.kind \in {"active", "empty"}
Refuses(hits, m) ==
    \/ HitsAfter(hits, m) >= IdleLimit
    \/ m.kind = "dead" /\ Concerns(m)
    \/ m.kind = "rejected" /\ m.request \in {attempt, 0}

\* The inbox is gone through from its start in every round, so a report that
\* is kept is counted again.
HitsUpTo[k \in 0..Len(inbox)] ==
    IF k = 0 THEN idleHits ELSE HitsAfter(HitsUpTo[k - 1], inbox[k])
HitsBefore(k) == HitsUpTo[k - 1]
Decides(k) == Refuses(HitsBefore(k), inbox[k]) \/ Accepts(inbox[k])

\* Mutant of NextType: the same type again.
SameType ==
    /\ pc' = "load"
    /\ UNCHANGED <<ops, target, cancel, attempt, service, receivers, ghosts>>

\* A LOAD that failed leaves the inbox as it is to the next attempt.
NextType ==
    /\ pc' = "load" /\ attempt' = attempt + 1
    /\ UNCHANGED <<ops, target, cancel, service, receivers, ghosts>>

Accepted ==
    /\ pc' = "commit"
    /\ UNCHANGED <<ops, target, cancel, attempt, service, receivers, ghosts>>

Without(k) == SubSeq(inbox, 1, k - 1) \o SubSeq(inbox, k + 1, Len(inbox))

\* The token, then the inbox.
Scan ==
    /\ pc = "scan"
    /\ IF cancel THEN NextType /\ UNCHANGED channel
       ELSE LET found == {k \in DOMAIN inbox : Decides(k)} IN
            IF found = {}
            THEN /\ pc' = "read"
                 /\ idleHits' = HitsBefore(Len(inbox) + 1)
                 /\ UNCHANGED <<ops, target, cancel, attempt, inbox, wire, torn,
                                service, receivers, ghosts>>
            ELSE LET k == CHOOSE k \in found : \A j \in found : k <= j IN
                 /\ idleHits' = HitsAfter(HitsBefore(k), inbox[k])
                 /\ UNCHANGED <<wire, torn>>
                 /\ IF Refuses(HitsBefore(k), inbox[k])
                    THEN NextType /\ UNCHANGED inbox
                    ELSE Accepted /\ inbox' = Without(k)

\* read_one, in frame: a message is decisive or goes to the inbox.
Read ==
    /\ pc = "read" /\ ~torn /\ wire # <<>>
    /\ LET m == Head(wire) IN
       /\ wire' = Tail(wire)
       /\ idleHits' = HitsAfter(idleHits, m)
       /\ UNCHANGED torn
       /\ IF Refuses(idleHits, m) THEN NextType /\ UNCHANGED inbox
          ELSE IF Accepts(m) THEN Accepted /\ UNCHANGED inbox
          ELSE /\ pc' = "scan" /\ inbox' = Append(inbox, m)
               /\ UNCHANGED <<ops, target, cancel, attempt, service, receivers, ghosts>>

\* The read times out: between frames nothing is lost; inside one, what was
\* read of it is, and the rest will be taken for a header.
ReadTimeout ==
    /\ pc = "read" /\ pc' = "scan"
    /\ \/ UNCHANGED torn
       \/ wire # <<>> /\ torn' = TRUE
    /\ UNCHANGED <<ops, target, cancel, attempt, idleHits, inbox, wire, service,
                   receivers, ghosts>>

\* The deadline, a broken connection, or a header out of frame that is too
\* large or does not decode.
ReadFails ==
    /\ pc = "read"
    /\ NextType
    /\ UNCHANGED channel

-----------------------------------------------------------------------------
\* The heartbeat of the new session starts, PLAY is sent once more, and the
\* session is recorded.
Commit ==
    /\ pc = "commit"
    /\ beats' = beats \cup {ops}
    /\ current' = [op |-> ops, device |-> target]
    /\ abandoned' = abandoned \ {target}
    /\ Return
    /\ UNCHANGED <<ops, playing, dropped>>

-----------------------------------------------------------------------------
(***************************************************************************)
(* The receiver (external): it plays a LOAD or refuses it, and reports.    *)
(***************************************************************************)

Send(ms) == /\ reports + Len(ms) <= MaxReports /\ reports' = reports + Len(ms)
            /\ wire' = wire \o ms

\* Before that: a status of the url, IDLE so far, or of what played before.
ReportIdle ==
    /\ loads # {}
    /\ \E m \in {Report("idle", TRUE, 0), Report("active", FALSE, 0)} : Send(<<m>>)
    /\ UNCHANGED <<operation, idleHits, inbox, torn, service, playing, loads, ghosts>>

\* It plays the LOAD, and says so in answer to it, of its own accord, or with
\* an empty status.
PlayLoad(l) ==
    /\ l \in loads
    /\ playing' = [playing EXCEPT ![target] = ops]
    /\ loads' = loads \ {l}
    /\ \E m \in {Report("active", TRUE, 0), Report("active", TRUE, l), Report("empty", FALSE, l)} :
          Send(<<m>>)
    /\ UNCHANGED <<operation, idleHits, inbox, torn, service, ghosts>>

\* It refuses the LOAD, before or after reporting IDLE with a reason.
RefuseLoad(l) ==
    /\ l \in loads
    /\ loads' = loads \ {l}
    /\ \/ Send(<<Report("rejected", FALSE, l)>>)
       \/ Send(<<Report("rejected", FALSE, l), Report("dead", TRUE, 0)>>)
       \/ Send(<<Report("dead", TRUE, 0), Report("rejected", FALSE, l)>>)
    /\ UNCHANGED <<operation, idleHits, inbox, torn, service, playing, ghosts>>

-----------------------------------------------------------------------------
Next ==
    \/ Stop
    \/ \E d \in Devices : Begin(d)
    \/ Cancel \/ Switch \/ Connect \/ Query \/ Launch \/ Load
    \/ Scan \/ Read \/ ReadTimeout \/ ReadFails \/ Commit
    \/ ReportIdle \/ \E l \in loads : PlayLoad(l) \/ RefuseLoad(l)

Spec == Init /\ [][Next]_vars

\* An operation goes on, reads time out, and a LOAD has a deadline.
FairSpec == Spec /\ WF_vars(Switch \/ Connect \/ Query \/ Launch \/ Load \/ Scan \/ Commit)
                 /\ SF_vars(ReadFails)

-----------------------------------------------------------------------------
\* Every variable keeps its type (CastService, LiveSession, CastChannel).
CastTypeOK ==
    /\ ops \in 0..MaxOps /\ pc \in Points /\ target \in Devices /\ cancel \in BOOLEAN
    /\ attempt \in 0..(Types + 1) /\ idleHits \in 0..IdleLimit
    /\ inbox \in Seq(Message) /\ wire \in Seq(Message)
    /\ Len(inbox) + Len(wire) <= MaxReports /\ torn \in BOOLEAN
    /\ current \in [op : 0..MaxOps, device : Devices]
    /\ playing \in [Devices -> 0..MaxOps] /\ loads \subseteq 1..Types
    /\ UNION {beats, dropped} \subseteq 1..MaxOps /\ abandoned \subseteq Devices

\* A session that is recorded plays: what load_media took for success was
\* (classify_media_status, the inbox, several LOADs of one operation).
SessionPlays == IsLive => playing[current.device] = current.op

\* A receiver without a session is silent, or is being set up, or was left to itself by an
\* operation that failed or a STOP that could not be sent, and has had no session
\* since (CastService::stop, the switch of receivers, LOADs of several operations).
OthersAreSilent ==
    \A d \in Devices :
        playing[d] # 0 =>
            \/ IsLive /\ current.device = d
            \/ pc # "free" /\ target = d
            \/ d \in abandoned

\* The live session has a heartbeat; any other that runs was dropped by a
\* replay on the same receiver (start_heartbeat, stop_heartbeat).
HeartbeatsAreKnown ==
    /\ IsLive => current.op \in beats
    /\ beats \subseteq {current.op} \cup dropped

\* Both: the service is of its types and every heartbeat is accounted for.
SessionsOK == CastTypeOK /\ HeartbeatsAreKnown

\* The promise of docs/cast.md: a play on the same receiver stops the old
\* heartbeat and reuses the channel.
\* The code does not keep to it (README, section 3).
OldHeartbeatStops == Cardinality(beats) <= 1

\* A play ends, however the receiver behaves (the deadlines of receive_find).
PlayEnds == (pc # "free") ~> (pc = "free")

=============================================================================
