---------------------------- MODULE VoiceCapture ----------------------------
(***************************************************************************)
(* One voice command from the microphone to its outcome: the recording and *)
(* the detector that ends it (src/voice/record.rs), and the session that   *)
(* sends the audio and waits for the server (src/voice/mod.rs).  In        *)
(* "buffered" mode everything is recorded before the server is connected,  *)
(* in "streaming" mode the audio is sent while it is recorded.             *)
(*                                                                         *)
(* A chunk is what the microphone callback delivers at once, numbered from *)
(* 1, and loud or quiet for the detector; the clock is in steps of it.     *)
(***************************************************************************)
EXTENDS Naturals, Sequences

CONSTANTS
    Queue,         \* capacity of the channel from the callback, 32 in the code
    Grace,         \* STARTUP_GRACE_DURATION
    Silence,       \* SILENCE_DURATION
    PreSpeech,     \* MAX_SILENCE_BEFORE_SPEECH
    MaxSpeech,     \* MAX_SPEECH_DURATION
    MaxRecording,  \* MAX_RECORDING
    MaxChunks      \* bound: chunks delivered

ASSUME VoiceCaptureAssumption ==
    /\ {Queue, Silence, MaxRecording} \subseteq Nat \ {0} /\ {Grace, MaxChunks} \subseteq Nat
    /\ Silence < PreSpeech /\ PreSpeech < MaxSpeech /\ MaxSpeech < MaxRecording
    /\ MaxSpeech \in Nat /\ PreSpeech \in Nat

VARIABLES
    mode,       \* recognizer_mode
    step,       \* where the job of the session is
    recording,  \* the flag the window and the recorder share
    mic,        \* the input stream is open
    clock,      \* since the recording has started
    chunks,     \* chunks delivered by the callback
    buffer,     \* those the session has not sent: the samples, or the channel
    sent,       \* those the server was sent
    heard,      \* those that were not dropped
    firstAt,    \* first_speech_at, 0 before speech has started
    lastAt,     \* last_speech_at
    outcome     \* what VoiceResult carries

captureVars == <<mode, step, recording, mic, clock, chunks, buffer, sent, heard, firstAt, lastAt,
                 outcome>>

detector == <<firstAt, lastAt>>
audio    == <<chunks, buffer, sent, heard>>

CaptureInit ==
    /\ mode \in {"buffered", "streaming"} /\ recording = TRUE /\ mic = FALSE
    /\ step = IF mode = "buffered" THEN "open" ELSE "connect"
    /\ clock = 0 /\ chunks = 0 /\ buffer = <<>> /\ sent = <<>> /\ heard = <<>>
    /\ firstAt = 0 /\ lastAt = 0 /\ outcome = "none"

\* The session returns, and the stream is dropped.
Ends(res) == step' = "done" /\ outcome' = res /\ mic' = FALSE

-----------------------------------------------------------------------------
(* The recording. *)

\* record_default_microphone and record_microphone, up to their loops.
OpenMicrophone ==
    /\ step = "open"
    /\ \/ step' = "record" /\ mic' = TRUE /\ UNCHANGED outcome
       \/ Ends("error")
    /\ UNCHANGED <<mode, recording, clock, audio, detector>>

Room == mode = "streaming" => Len(buffer) < Queue
Accepts == Room

\* push_mono_i16, or send_mono_i16, which drops what finds the channel full.
Deliver(loud) ==
    /\ mic /\ chunks < MaxChunks /\ chunks' = chunks + 1
    /\ IF Accepts
       THEN /\ buffer' = Append(buffer, [n |-> chunks', loud |-> loud])
            /\ heard' = Append(heard, chunks')
       ELSE UNCHANGED <<buffer, heard>>
    /\ UNCHANGED <<mode, step, recording, mic, clock, sent, detector, outcome>>

Tick ==
    /\ step = "record" /\ clock < MaxRecording /\ clock' = clock + 1
    /\ UNCHANGED <<mode, step, recording, mic, audio, detector, outcome>>

\* should_stop
FirstSpeech(loud) == IF firstAt = 0 /\ loud THEN clock ELSE firstAt
LastSpeech(loud) == IF loud THEN clock ELSE lastAt
Stops(loud) ==
    /\ clock >= Grace
    /\ IF FirstSpeech(loud) # 0
       THEN clock - LastSpeech(loud) >= Silence \/ clock - FirstSpeech(loud) >= MaxSpeech
       ELSE clock >= PreSpeech

Detect(loud) ==
    /\ IF clock >= Grace THEN firstAt' = FirstSpeech(loud) /\ lastAt' = LastSpeech(loud)
       ELSE UNCHANGED detector
    /\ recording' = (recording /\ ~Stops(loud))

Over == ~recording \/ clock >= MaxRecording

\* The condition of both recording loops.
LoopEnds ==
    /\ step = "record" /\ Over /\ step' = "drop"
    /\ UNCHANGED <<mode, recording, mic, clock, audio, detector, outcome>>

\* record_default_microphone looks at the last samples.
LookAtWindow ==
    /\ mode = "buffered" /\ step = "record" /\ ~Over /\ buffer # <<>>
    /\ LET loud == buffer[Len(buffer)].loud
       IN  Detect(loud) /\ step' = IF Stops(loud) THEN "drop" ELSE step
    /\ UNCHANGED <<mode, mic, clock, audio, outcome>>

\* The consumer of record_microphone: a write that fails ends the session.
Sends ==
    \/ /\ sent' = Append(sent, Head(buffer).n) /\ UNCHANGED <<mic, outcome>>
    \/ UNCHANGED sent /\ Ends("error")

StreamChunk ==
    /\ mode = "streaming" /\ step = "record" /\ ~Over /\ buffer # <<>>
    /\ buffer' = Tail(buffer) /\ Detect(Head(buffer).loud) /\ Sends
    /\ \/ outcome' = "error"
       \/ outcome' = "none" /\ step' = IF Stops(Head(buffer).loud) THEN "drop" ELSE step
    /\ UNCHANGED <<mode, clock, chunks, heard>>

StraightToCommit == IF mode = "buffered" THEN "connect" ELSE "commit"
ThroughTheChannel == IF mode = "buffered" THEN "connect" ELSE "send"
AfterDrop == ThroughTheChannel

\* drop(stream): no callback runs any more.
DropStream ==
    /\ step = "drop" /\ mic' = FALSE /\ step' = AfterDrop
    /\ UNCHANGED <<mode, recording, clock, audio, detector, outcome>>

\* stop_voice_recording and cancel_voice
UserStops ==
    /\ recording /\ step # "done" /\ recording' = FALSE
    /\ UNCHANGED <<mode, step, mic, clock, audio, detector, outcome>>

-----------------------------------------------------------------------------
(* The session. *)

\* connect_voice_socket, and the start message.
Connect ==
    /\ step = "connect"
    /\ \/ step' = "ready" /\ UNCHANGED <<mic, outcome>>
       \/ Ends("error")
    /\ UNCHANGED <<mode, recording, clock, audio, detector>>

\* wait_for_voice_ready; other events are skipped, a read that times out is an error.
Ready ==
    /\ step = "ready"
    /\ \/ step' = (IF mode = "buffered" THEN "send" ELSE "open") /\ UNCHANGED <<mic, outcome>>
       \/ Ends("error")
    /\ UNCHANGED <<mode, recording, clock, audio, detector>>

\* The chunks of a buffered recording, or those left in the channel; then the commit.
SendRest ==
    /\ step = "send"
    /\ IF buffer = <<>> THEN step' = "commit" /\ UNCHANGED <<buffer, sent, mic, outcome>>
       ELSE /\ buffer' = Tail(buffer) /\ Sends
            /\ outcome' = "none" => UNCHANGED step
    /\ UNCHANGED <<mode, recording, clock, chunks, heard, detector>>

Commit ==
    /\ step = "commit"
    /\ \/ step' = "await" /\ UNCHANGED <<mic, outcome>>
       \/ Ends("error")
    /\ UNCHANGED <<mode, recording, clock, audio, detector>>

\* receive_voice_result: a final transcript or a result that is a control command, a command
\* the server carried out, stations, none of them good enough, an error; other transcripts
\* are skipped.
Await ==
    /\ step = "await"
    /\ \E res \in {"control", "status", "stations", "notFound", "error"} : Ends(res)
    /\ UNCHANGED <<mode, recording, clock, audio, detector>>

Job == OpenMicrophone \/ LoopEnds \/ LookAtWindow \/ StreamChunk \/ DropStream \/ Connect
           \/ Ready \/ SendRest \/ Commit \/ Await

CaptureNext == Job \/ Tick \/ UserStops \/ \E loud \in BOOLEAN : Deliver(loud)

CaptureSpec == CaptureInit /\ [][CaptureNext]_captureVars

\* The job is a thread whose writes and reads have timeouts; time passes.
CaptureFairness == WF_captureVars(Job) /\ WF_captureVars(Tick)

-----------------------------------------------------------------------------
\* Every variable has its type; the channel keeps to its bound, and the microphone is open
\* only while something is recorded.
CaptureTypeOK ==
    /\ mode \in {"buffered", "streaming"} /\ recording \in BOOLEAN
    /\ step \in {"open", "connect", "ready", "record", "drop", "send", "commit", "await", "done"}
    /\ mic = (step \in {"record", "drop"}) /\ clock \in 0..MaxRecording
    /\ chunks \in 0..MaxChunks /\ buffer \in Seq([n : 1..chunks, loud : BOOLEAN])
    /\ mode = "streaming" => Len(buffer) <= Queue
    /\ sent \in Seq(1..chunks) /\ heard \in Seq(1..chunks)
    /\ firstAt <= lastAt /\ lastAt <= clock
    /\ outcome \in {"none", "control", "status", "stations", "notFound", "error"}
    /\ (outcome = "none") = (step # "done")

\* A recording that is committed is the whole recording in its order: the end of a command,
\* recorded while the recorder stops, is sent too (record_microphone empties the channel
\* after the stream is dropped).
NothingHeardIsLost == step \in {"commit", "await"} => sent = heard

\* A voice command ends, whatever the microphone delivers and the user does: the recording
\* after MAX_RECORDING at the latest, the server by its timeouts.
CaptureEnds == <>(step = "done")
=============================================================================
