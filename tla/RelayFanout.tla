----------------------------- MODULE RelayFanout -----------------------------
(***************************************************************************)
(* One session of StreamRelay (src/relay): the feeder that pushes the      *)
(* station's bytes into the ring of Fanout and reconnects when it ends,    *)
(* and the threads that serve /stream and /tap from it, each at a position *)
(* of its own.  A slow client never holds the feeder up: the ring drops    *)
(* its oldest bytes and the client resumes near the live edge.             *)
(*                                                                         *)
(* Bytes are numbered from 0 in the order they are pushed; what a client   *)
(* gets is named by its positions.                                         *)
(***************************************************************************)
EXTENDS Naturals, FiniteSets, FiniteSetsExt

CONSTANTS
    Clients,     \* connections to the relay
    RingMax,     \* RING_MAX
    Cushion,     \* JOIN_CUSHION
    Frame,       \* bytes of 20 ms of PCM: what PcmSmoother emits
    Sample,      \* bytes of one sample of all channels
    Buffer,      \* bytes a client asks read_at for
    ReadMax,     \* bytes a passthrough read brings at most
    MpegFrame,   \* every so many bytes an MPEG frame starts
    MaxWritten   \* bound: bytes pushed

\* 48 kHz PCM: 20 ms are whole samples; the ring has room for several of them, for the
\* cushion and for a read.
ASSUME RelayAssumption ==
    /\ {RingMax, Frame, Sample, Buffer, ReadMax, MpegFrame, Cushion} \subseteq Nat \ {0}
    /\ MaxWritten \in Nat
    /\ Frame % Sample = 0 /\ Frame + 2 * Sample <= RingMax /\ ReadMax <= RingMax
    /\ Sample <= Cushion /\ Sample <= Buffer

VARIABLES
    transport,   \* RelayTransport: "pcm" (WavPcm) or "raw" (Passthrough)
    relayStop,   \* Session.stop
    feeder,      \* what the feeder thread does
    format,      \* pcm_format is known
    start,       \* FanoutInner.start
    written,     \* start + buf.len()
    serving,     \* what each client thread does
    pos,         \* its position
    sent         \* ghost: what it was given last, or where it joined

ring      == <<format, start, written>>
clients   == <<serving, pos, sent>>
relayVars == <<transport, relayStop, feeder, ring, clients>>

Served == {"request", "join", "snap", "peek", "align", "read", "write", "closed"}

Span(a, b) == [from |-> a, upto |-> b]

RelayInit ==
    /\ transport \in {"pcm", "raw"} /\ relayStop = FALSE /\ feeder = "open"
    /\ format = FALSE /\ start = 0 /\ written = 0
    /\ serving = [c \in Clients |-> "request"] /\ pos = [c \in Clients |-> 0]
    /\ sent = [c \in Clients |-> Span(0, 0)]

Length == written - start

-----------------------------------------------------------------------------
(***************************************************************************)
(* The feeder.                                                             *)
(***************************************************************************)

\* pcm_frame_bytes once the format is known, four bytes before.
FrameAlign == IF format THEN Frame ELSE Sample

\* What push drops for n bytes: what is too much, in frames, rounded down but
\* one frame at least.
Dropped(n) ==
    LET excess == Length + n - RingMax
    IN  IF Length + n > RingMax
        THEN Min({Max({excess \div FrameAlign, 1}) * FrameAlign, Length})
        ELSE 0

Put(n) ==
    /\ written + n <= MaxWritten
    /\ start' = start + Dropped(n)
    /\ written' = written + n

Pushing == feeder = "stream" /\ ~relayStop /\ UNCHANGED <<transport, relayStop, feeder, clients>>

\* The decoder names the format before its first frame.
NameFormat ==
    /\ Pushing /\ transport = "pcm" /\ ~format
    /\ format' = TRUE /\ UNCHANGED <<start, written>>

\* PcmSmoother gives a frame of the decoded stream.
PushFrame == Pushing /\ transport = "pcm" /\ format /\ Put(Frame) /\ UNCHANGED format

\* A passthrough feeder pushes what a read brings.
PushBytes ==
    Pushing /\ transport = "raw" /\ UNCHANGED format /\ \E n \in 1..ReadMax : Put(n)

\* The upstream opens or does not; a stream ends; after a pause the feeder
\* opens it again.  The stop flag is seen in every wait but for the read of a
\* passthrough feeder, which no timeout bounds.
Feed ==
    /\ feeder # "done"
    /\ feeder' = CASE relayStop -> "done"
                   [] feeder = "open" -> "stream"
                   [] feeder = "stream" -> "pause"
                   [] OTHER -> "open"
    /\ UNCHANGED <<transport, relayStop, ring, clients>>

\* The upstream cannot be opened.
OpenFails ==
    /\ feeder = "open" /\ ~relayStop /\ feeder' = "pause"
    /\ UNCHANGED <<transport, relayStop, ring, clients>>

\* StreamRelay::stop.
StopRelay ==
    /\ ~relayStop /\ relayStop' = TRUE
    /\ UNCHANGED <<transport, feeder, ring, clients>>

-----------------------------------------------------------------------------
(***************************************************************************)
(* A client thread (handle_client).                                        *)
(***************************************************************************)

Goes(c, where) == serving' = [serving EXCEPT ![c] = where]

\* The request and the headers; the bad ones and HEAD end here, and so does a
\* client that is too slow.
ServeRequest(c) ==
    /\ serving[c] = "request"
    /\ \/ Goes(c, "closed")
       \/ ~relayStop /\ Goes(c, "join")
    /\ UNCHANGED <<transport, relayStop, feeder, ring, pos, sent>>

\* A position rounded down to a whole sample, counted from the ring's start.
WholeSample(p) == start + ((p - start) \div Sample) * Sample

\* align_pcm_pos, which takes a position that has been dropped for the start.
Snapped(p) == IF p >= written THEN written ELSE WholeSample(Max({p, start}))

Stands(c, p) ==
    /\ pos' = [pos EXCEPT ![c] = p]
    /\ sent' = [sent EXCEPT ![c] = Span(p, p)]
    /\ UNCHANGED <<transport, relayStop, feeder, ring>>

\* join_position: the cushion behind the live edge, then, with the ring unlocked
\* in between, on a whole sample.
Join(c) ==
    /\ serving[c] = "join" /\ Goes(c, "snap")
    /\ pos' = [pos EXCEPT ![c] = written - Min({Cushion, Length})]
    /\ UNCHANGED <<transport, relayStop, feeder, ring, sent>>

Snap(c) == serving[c] = "snap" /\ Goes(c, "peek") /\ Stands(c, Snapped(pos[c]))

\* copy_at shows the client what it would start with, which tells an MPEG
\* stream.  The ring is unlocked in between.
Peek(c) ==
    /\ serving[c] = "peek"
    /\ \/ (transport = "pcm" \/ (start <= pos[c] /\ pos[c] < written)) /\ Goes(c, "align")
       \/ transport = "raw" /\ Goes(c, "read")
    /\ UNCHANGED <<transport, relayStop, feeder, ring, pos, sent>>

\* align_mp3_pos, the next frame of the ring if there is one; or align_pcm_pos.
Align(c) ==
    /\ serving[c] = "align" /\ Goes(c, "read")
    /\ LET from  == Min({Max({pos[c], start}), written})
           syncs == {p \in from..(written - 1) : p % MpegFrame = 0}
       IN  Stands(c, IF transport = "pcm" THEN Snapped(pos[c])
                     ELSE IF syncs = {} THEN from ELSE Min(syncs))

\* Mutant of ResumeAt: it goes on where it was.
StayAt(c) == pos[c]

\* Where read_at goes on: a client that fell out of the ring resumes half the
\* ring behind the live edge, or the cushion if that is less.
ResumeAt(c) ==
    IF pos[c] < start
    THEN WholeSample(Max({written - Min({Cushion, Length \div 2}), start}))
    ELSE pos[c]

\* read_at gives whole samples, or waits for more.
ReadAt(c) ==
    /\ serving[c] = "read"
    /\ IF relayStop
       THEN Goes(c, "closed") /\ UNCHANGED <<pos, sent>>
       ELSE LET from == ResumeAt(c)
                n    == IF from < written THEN Min({written - from, Buffer}) ELSE 0
                give == n - (n % Sample)
            IN  /\ (from # pos[c] \/ give # 0)
                /\ pos' = [pos EXCEPT ![c] = from + give]
                /\ IF give = 0 THEN UNCHANGED <<serving, sent>>
                   ELSE Goes(c, "write") /\ sent' = [sent EXCEPT ![c] = Span(from, from + give)]
    /\ UNCHANGED <<transport, relayStop, feeder, ring>>

\* The bytes are written, at the client's own pace, or the client is gone.
Write(c) ==
    /\ serving[c] = "write"
    /\ \/ Goes(c, "closed")
       \/ ~relayStop /\ Goes(c, "read")
    /\ UNCHANGED <<transport, relayStop, feeder, ring, pos, sent>>

Serve(c) ==
    \/ ServeRequest(c) \/ Join(c) \/ Snap(c) \/ Peek(c) \/ Align(c)
    \/ ReadAt(c) \/ Write(c)

-----------------------------------------------------------------------------
RelayNext ==
    \/ NameFormat \/ PushFrame \/ PushBytes \/ Feed \/ OpenFails \/ StopRelay
    \/ \E c \in Clients : Serve(c)

FeederStops == relayStop /\ (transport = "pcm" \/ feeder # "stream") /\ Feed

\* Every thread runs on, and no wait is without an end but that one.
RelayFairness == WF_relayVars(FeederStops) /\ \A c \in Clients : WF_relayVars(Serve(c))

RelaySpec == RelayInit /\ [][RelayNext]_relayVars /\ RelayFairness

-----------------------------------------------------------------------------
\* Every variable keeps its type.  Rounding down what is dropped lets the ring
\* grow over its bound by less than a frame, however long the station plays.
RelayTypeOK ==
    /\ transport \in {"pcm", "raw"} /\ {relayStop, format} \subseteq BOOLEAN
    /\ feeder \in {"open", "stream", "pause", "done"}
    /\ start <= written /\ written <= MaxWritten /\ Length < RingMax + FrameAlign
    /\ serving \in [Clients -> Served] /\ pos \in [Clients -> 0..MaxWritten]
    /\ \A c \in Clients : /\ sent[c].from <= sent[c].upto
                          /\ serving[c] \in {"read", "write"} => sent[c].upto = pos[c]

\* The assertion in Fanout::push: the ring never holds more than RING_MAX.
\* The code does not keep to it (README, section 3).
RingHoldsItsMax == Length <= RingMax

\* A client of a PCM stream reads from between two samples: when it joined, after
\* every read, and after it fell behind and resumed (join_position, read_at).
ClientsKeepToSamples ==
    transport = "pcm" =>
        \A c \in Clients : serving[c] \in {"read", "write"} => pos[c] % Sample = 0

\* No client gets a byte twice or an older one after a newer one, and what it
\* gets is still in the ring (read_at, push).
ClientsMoveForward ==
    [][\A c \in Clients :
          sent'[c] # sent[c] => sent'[c].from >= sent[c].upto /\ sent'[c].from >= start]_sent

\* Once the relay is stopped every thread of the session ends: the ones of
\* clients that never read too, and the feeder unless it passes bytes through.
RelayEnds == relayStop ~> /\ \A c \in Clients : serving[c] = "closed"
                          /\ transport = "pcm" => feeder = "done"
=============================================================================
