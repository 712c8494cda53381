---------------------------- MODULE LocalPipeline ----------------------------
(***************************************************************************)
(* One session of the local player, from the HTTP response to the device:  *)
(* the two threads of StopAwareBody (src/audio/decode/icy.rs), the decode  *)
(* thread, the playout thread and the cpal callback of LocalPlayer::play   *)
(* (src/local/mod.rs), joined by three bounded queues, SteadyPlayout and   *)
(* the lock-free SpscAudioRing (src/audio/decode/pcm.rs).                  *)
(*                                                                         *)
(* A chunk of the response decodes to Chunk samples, already resampled and *)
(* spread over the device's channels; samples are numbered from 1.         *)
(***************************************************************************)
EXTENDS Naturals, Sequences, FiniteSets, FiniteSetsExt

CONSTANTS
    Channels,    \* channels of the output device
    Tick,        \* samples of a 20 ms frame of SteadyPlayout
    Ring,        \* capacity of SpscAudioRing, a power of two
    Chunk,       \* samples a chunk of the response decodes to
    Chunks,      \* bound: chunks of the response
    ReadCap,     \* http_body_read to http_body_dispatch (2)
    BodyCap,     \* StopAwareBody.rx (32)
    PcmCap,      \* pcm_tx (128)
    MaxPending,  \* max_pending of the playout thread
    MinBuffer    \* min_buffer of the pre-buffer wait

\* Tick and Ring hold whole frames: the code does not check it, a stereo device
\* at the usual rates does it.
ASSUME LocalAssumption ==
    /\ {Channels, Tick, Ring, Chunk, ReadCap, BodyCap, PcmCap, MaxPending, MinBuffer}
           \subseteq Nat \ {0}
    /\ Chunks \in Nat
    /\ Tick % Channels = 0 /\ Ring % Channels = 0 /\ Chunk % Channels = 0

VARIABLES
    token,      \* stop: the token of the operation and of the session
    play,       \* where LocalPlayer::play is
    orphaned,   \* ghost: it returned an error without stopping the session
    response,   \* chunks the response still has
    reader,     \* http_body_read, and what it is sending
    readq,      \* between the two threads of StopAwareBody
    dispatch,   \* http_body_dispatch, and what it is sending
    bodyq,      \* StopAwareBody.rx
    decode,     \* local_decode
    probed,     \* src_rate is known
    failed,     \* err_slot
    pcmq,       \* chunks between decode and playout
    playout,    \* local_playout
    ingested,   \* samples SteadyPlayout took in
    drained,    \* samples it let out
    slots,      \* SpscAudioRing.buf
    write,      \* SpscAudioRing.write
    read,       \* SpscAudioRing.read
    pushed,     \* samples push_slice copied and has not published
    stream,     \* the cpal stream
    scratch,    \* samples pop_slice copied and has not released
    heard       \* the last whole frame the device got

bodyVars   == <<response, reader, readq, dispatch, bodyq>>
decodeVars == <<decode, probed, failed, pcmq>>
steadyVars == <<playout, ingested, drained>>
ringVars   == <<slots, write, read, pushed>>
outVars    == <<stream, scratch, heard>>
localVars  == <<token, play, orphaned, bodyVars, decodeVars, steadyVars, ringVars, outVars>>

\* A chunk, or the end: of the response, or by an error.
Items == {"data", "end"}
Phases == {"probe", "device", "prebuffer", "build", "playing", "done"}

LocalInit ==
    /\ token = FALSE /\ play = "probe" /\ orphaned = FALSE
    /\ response = Chunks /\ reader = "off" /\ readq = <<>> /\ dispatch = "off" /\ bodyq = <<>>
    /\ decode = "open" /\ probed = FALSE /\ failed = FALSE /\ pcmq = 0
    /\ playout = "off" /\ ingested = 0 /\ drained = 0
    /\ slots = [i \in 0..(Ring - 1) |-> 0] /\ write = 0 /\ read = 0 /\ pushed = 0
    /\ stream = "none" /\ scratch = <<>> /\ heard = <<>>

-----------------------------------------------------------------------------
(***************************************************************************)
(* The body: a read that no timeout bounds is kept out of the decoder's    *)
(* way by a dispatch thread that looks at the token.                       *)
(***************************************************************************)

\* resp.read: the next chunk or the end; or it waits for the station.
ReadBody ==
    /\ reader = "read"
    /\ \/ token /\ reader' = "done" /\ UNCHANGED response
       \/ response > 0 /\ reader' = "data" /\ response' = response - 1
       \/ reader' = "end" /\ UNCHANGED response
    /\ UNCHANGED <<token, play, orphaned, readq, dispatch, bodyq, decodeVars, steadyVars,
                   ringVars, outVars>>

\* read_tx.send blocks while the queue is full and fails without a receiver.
SendRead ==
    /\ reader \in Items
    /\ \/ dispatch = "done" /\ reader' = "done" /\ UNCHANGED readq
       \/ /\ dispatch # "done" /\ Len(readq) < ReadCap
          /\ readq' = Append(readq, reader)
          /\ reader' = IF reader = "data" THEN "read" ELSE "done"
    /\ UNCHANGED <<token, play, orphaned, response, dispatch, bodyq, decodeVars, steadyVars,
                   ringVars, outVars>>

\* The dispatch thread takes an item.  The end is offered once: when the queue
\* is full, the decoder sees a closed channel instead.
Dispatch ==
    /\ dispatch = "recv"
    /\ \/ /\ token \/ (readq = <<>> /\ reader = "done")
          /\ dispatch' = "done" /\ UNCHANGED <<readq, bodyq>>
       \/ /\ ~token /\ readq # <<>>
          /\ readq' = Tail(readq)
          /\ IF Head(readq) = "data"
             THEN dispatch' = "send" /\ UNCHANGED bodyq
             ELSE /\ dispatch' = "done"
                  /\ bodyq' = IF Len(bodyq) < BodyCap /\ decode # "done"
                              THEN Append(bodyq, "end") ELSE bodyq
    /\ UNCHANGED <<token, play, orphaned, response, reader, decodeVars, steadyVars, ringVars,
                   outVars>>

\* A chunk is tried again every 25 ms until there is room.
DispatchSend ==
    /\ dispatch = "send"
    /\ \/ (token \/ decode = "done") /\ dispatch' = "done" /\ UNCHANGED bodyq
       \/ /\ ~token /\ decode # "done" /\ Len(bodyq) < BodyCap
          /\ bodyq' = Append(bodyq, "data") /\ dispatch' = "recv"
    /\ UNCHANGED <<token, play, orphaned, response, reader, readq, decodeVars, steadyVars,
                   ringVars, outVars>>

-----------------------------------------------------------------------------
(***************************************************************************)
(* The decode thread.                                                      *)
(***************************************************************************)

\* An error is recorded unless the session is being stopped.
DecodeEnds == decode' = "done" /\ failed' = (failed \/ ~token) /\ UNCHANGED <<probed, pcmq>>

\* open_stream_response: an answer starts the body threads; a refusal, the
\* timeout and the token end the thread.
OpenStream ==
    /\ decode = "open"
    /\ \/ DecodeEnds /\ UNCHANGED bodyVars
       \/ /\ ~token /\ decode' = "recv" /\ reader' = "read" /\ dispatch' = "recv"
          /\ UNCHANGED <<response, readq, bodyq, probed, failed, pcmq>>
    /\ UNCHANGED <<token, play, orphaned, steadyVars, ringVars, outVars>>

Reads == decode = "recv" /\ UNCHANGED <<token, play, orphaned, response, reader, readq,
                                         dispatch, steadyVars, ringVars, outVars>>

\* StopAwareBody::read gives the decoder a chunk; the first one tells the format.
DecodeChunk ==
    /\ Reads /\ ~token /\ bodyq # <<>> /\ Head(bodyq) = "data"
    /\ bodyq' = Tail(bodyq)
    /\ decode' = "push" /\ probed' = TRUE /\ UNCHANGED <<failed, pcmq>>

\* Or the end of the stream, which the token and a closed channel are too.
DecodeEnd ==
    /\ Reads /\ DecodeEnds
    /\ \/ (token \/ (bodyq = <<>> /\ dispatch = "done")) /\ UNCHANGED bodyq
       \/ ~token /\ bodyq # <<>> /\ Head(bodyq) = "end" /\ bodyq' = Tail(bodyq)

\* Mutant of PcmReceived: the receiver is never dropped.
AlwaysReceived == TRUE

\* The receiver of the PCM is in play until the playout thread takes it.
PcmReceived == IF playout = "off" THEN play # "done" ELSE playout # "done"

\* push_pcm looks at the token, then sends; send blocks while the queue is full,
\* whatever becomes of the token.
DecodeSend ==
    /\ \/ /\ decode = "push" /\ UNCHANGED pcmq
          /\ decode' = IF token THEN "recv" ELSE "send"
       \/ /\ decode = "send" /\ decode' = "recv"
          /\ \/ ~PcmReceived /\ UNCHANGED pcmq
             \/ PcmReceived /\ pcmq < PcmCap /\ pcmq' = pcmq + 1
    /\ UNCHANGED <<token, play, orphaned, bodyVars, probed, failed, steadyVars, ringVars, outVars>>

-----------------------------------------------------------------------------
(***************************************************************************)
(* The playout thread: SteadyPlayout and the producer of the ring.         *)
(***************************************************************************)

Pending == ingested - drained

\* A pass of the loop up to drain_due: the token, then a chunk if there is one
\* and less than MaxPending waits.
PlayoutTakes ==
    /\ playout = "loop"
    /\ \/ token /\ playout' = "done" /\ UNCHANGED <<ingested, pcmq>>
       \/ /\ ~token /\ playout' = "due"
          /\ \/ Pending < MaxPending /\ pcmq > 0 /\ pcmq' = pcmq - 1 /\ ingested' = ingested + Chunk
             \/ UNCHANGED <<ingested, pcmq>>
    /\ UNCHANGED <<token, play, orphaned, bodyVars, decode, probed, failed, drained, ringVars,
                   outVars>>

\* Mutant of Room: a spare slot that tells full from empty.
OneSpare == Ring - 1 - (write - read)

\* What push_slice finds free.
Room == Ring - (write - read)

\* drain_due(2) lets out the frames whose time has come; push_slice copies what
\* fits, and what does not is lost.
Drain ==
    /\ playout = "due"
    /\ \/ playout' = "loop" /\ UNCHANGED <<drained, slots, pushed>>
       \/ \E ticks \in 1..2 :
             /\ Pending >= ticks * Tick
             /\ drained' = drained + ticks * Tick
             /\ IF token
                THEN playout' = "done" /\ UNCHANGED <<slots, pushed>>
                ELSE LET n == Min({ticks * Tick, Room}) IN
                     /\ playout' = "publish" /\ pushed' = n
                     /\ slots' = [i \in DOMAIN slots |->
                                     LET k == (i + Ring - (write % Ring)) % Ring IN
                                     IF k < n THEN drained + k + 1 ELSE slots[i]]
    /\ UNCHANGED <<token, play, orphaned, bodyVars, decodeVars, ingested, write, read, outVars>>

\* write.store: the samples are there for the callback.
Publish ==
    /\ playout = "publish" /\ playout' = "loop"
    /\ write' = write + pushed /\ pushed' = 0
    /\ UNCHANGED <<token, play, orphaned, bodyVars, decodeVars, ingested, drained, slots, read,
                   outVars>>

-----------------------------------------------------------------------------
(***************************************************************************)
(* The cpal callback: the consumer of the ring.                            *)
(***************************************************************************)

\* pop_slice of one frame copies what is there.
PopFrame ==
    /\ stream = "live" /\ ~token /\ scratch = <<>> /\ write # read
    /\ scratch' = [k \in 1..Min({Channels, write - read}) |-> slots[(read + k - 1) % Ring]]
    /\ UNCHANGED <<token, play, orphaned, bodyVars, decodeVars, steadyVars, ringVars, stream, heard>>

\* read.store.  A frame that is not whole is replaced by the last one.
ReleaseFrame ==
    /\ scratch # <<>> /\ scratch' = <<>>
    /\ read' = read + Len(scratch)
    /\ heard' = IF Len(scratch) = Channels THEN scratch ELSE heard
    /\ UNCHANGED <<token, play, orphaned, bodyVars, decodeVars, steadyVars, slots, write, pushed,
                   stream>>

-----------------------------------------------------------------------------
(***************************************************************************)
(* LocalPlayer::play and stop.                                             *)
(***************************************************************************)

\* Mutant of StopPlayer: the stream is dropped, the token forgotten.
StopStream == UNCHANGED token /\ stream' = "none"

\* LocalPlayer::stop: the token of the session, and the reaper drops the stream.
StopPlayer == token' = TRUE /\ stream' = "none"

Return(orphan) == play' = "done" /\ orphaned' = orphan

\* The controller cancels the operation, at any time; or stops the player.
Cancel ==
    /\ ~token /\ token' = TRUE
    /\ stream' \in {stream, "none"}
    /\ UNCHANGED <<play, orphaned, bodyVars, decodeVars, steadyVars, ringVars, scratch, heard>>

\* The wait for the format: an error, the format, the token, the deadline.
Probe ==
    /\ play = "probe"
    /\ \/ failed /\ Return(FALSE) /\ StopPlayer
       \/ ~failed /\ probed /\ play' = "device" /\ UNCHANGED <<token, orphaned, stream>>
       \/ ~failed /\ ~probed /\ token /\ Return(FALSE) /\ UNCHANGED <<token, stream>>
       \/ ~failed /\ ~probed /\ ~token /\ Return(FALSE) /\ StopPlayer
    /\ UNCHANGED <<bodyVars, decodeVars, steadyVars, ringVars, scratch, heard>>

\* pick_cpal_device and pick_output_config, then the playout thread.
PickDevice ==
    /\ play = "device"
    /\ \/ Return(~token) /\ UNCHANGED playout
       \/ play' = "prebuffer" /\ playout' = "loop" /\ UNCHANGED orphaned
    /\ UNCHANGED <<token, bodyVars, decodeVars, ingested, drained, ringVars, outVars>>

\* The wait for MinBuffer samples, or for four seconds.
Prebuffer ==
    /\ play = "prebuffer"
    /\ \/ play' = "build" /\ UNCHANGED <<token, orphaned, stream>>
       \/ (token \/ failed) /\ write - read < MinBuffer /\ Return(FALSE) /\ StopPlayer
    /\ UNCHANGED <<bodyVars, decodeVars, steadyVars, ringVars, scratch, heard>>

\* build_output_stream and stream.play.
BuildStream ==
    /\ play = "build"
    /\ \/ Return(~token) /\ UNCHANGED stream
       \/ token /\ Return(FALSE) /\ UNCHANGED stream
       \/ ~token /\ play' = "playing" /\ stream' = "live" /\ UNCHANGED orphaned
    /\ UNCHANGED <<token, bodyVars, decodeVars, steadyVars, ringVars, scratch, heard>>

\* The device fails: cpal's error callback writes the same slot.
DeviceFails ==
    /\ stream = "live" /\ ~failed /\ failed' = TRUE
    /\ UNCHANGED <<token, play, orphaned, bodyVars, decode, probed, pcmq, steadyVars, ringVars, outVars>>

\* The loop at the end: the token (stop is called during the settle time only),
\* then the error slot.
Watch ==
    /\ play = "playing"
    /\ \/ token /\ Return(FALSE) /\ stream' \in {stream, "none"} /\ UNCHANGED token
       \/ ~token /\ failed /\ Return(FALSE) /\ StopPlayer
    /\ UNCHANGED <<bodyVars, decodeVars, steadyVars, ringVars, scratch, heard>>

-----------------------------------------------------------------------------
Decoding == OpenStream \/ DecodeChunk \/ DecodeEnd \/ DecodeSend
Playing == Probe \/ PickDevice \/ Prebuffer \/ BuildStream \/ Watch

LocalNext ==
    \/ ReadBody \/ SendRead \/ Dispatch \/ DispatchSend
    \/ Decoding
    \/ PlayoutTakes \/ Drain \/ Publish
    \/ PopFrame \/ ReleaseFrame
    \/ Cancel \/ DeviceFails \/ Playing

\* Every thread runs on but for the one that reads from the station.
LocalFairness ==
    /\ WF_localVars(SendRead)
    /\ WF_localVars(Dispatch \/ DispatchSend)
    /\ WF_localVars(Decoding)
    /\ WF_localVars(PlayoutTakes \/ Drain \/ Publish)
    /\ WF_localVars(Playing)

LocalSpec == LocalInit /\ [][LocalNext]_localVars /\ LocalFairness

-----------------------------------------------------------------------------
\* Every variable keeps its type; queues and the ring keep their bounds, and the
\* backlog of SteadyPlayout is one chunk over max_pending at most.
LocalTypeOK ==
    /\ {token, orphaned, probed, failed} \subseteq BOOLEAN /\ play \in Phases
    /\ response \in 0..Chunks /\ reader \in {"off", "read", "done"} \cup Items
    /\ readq \in Seq(Items) /\ Len(readq) <= ReadCap
    /\ dispatch \in {"off", "recv", "send", "done"}
    /\ bodyq \in Seq(Items) /\ Len(bodyq) <= BodyCap
    /\ decode \in {"open", "recv", "push", "send", "done"} /\ pcmq \in 0..PcmCap
    /\ playout \in {"off", "loop", "due", "publish", "done"}
    /\ drained <= ingested /\ Pending < MaxPending + Chunk
    /\ slots \in [0..(Ring - 1) -> Nat] /\ pushed \in 0..Ring
    /\ read + Len(scratch) <= write /\ write + pushed <= read + Ring
    /\ stream \in {"none", "live"}

\* A frame the device gets is a frame that was decoded: its samples are in
\* sequence and each on its own channel (push_slice, pop_slice, drain_due).
FramesAreWhole ==
    heard # <<>> => /\ heard[1] % Channels = 1 % Channels
                    /\ \A k \in 1..Channels : heard[k] = heard[1] + k - 1

\* And no frame is heard twice or before an earlier one.
FramesMoveForward == [][heard # <<>> /\ heard' # heard => heard'[1] > heard[Channels]]_heard

\* Only a device that cannot be opened leaves a session running behind an error
\* (LocalPlayer::play); no other path forgets the token.
OrphansAreKnown == play = "done" /\ ~token => orphaned

\* Once the token is set every thread ends, whatever it is blocked on, except
\* the one in resp.read.
ThreadsEnd == token ~> /\ decode = "done" /\ dispatch \in {"off", "done"}
                       /\ playout \in {"off", "done"} /\ play = "done"

\* A stream that ends is noticed by play.
DeadStreamIsReported == (decode = "done") ~> (play = "done")
=============================================================================
