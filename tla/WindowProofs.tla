---------------------------- MODULE WindowProofs ----------------------------
(***************************************************************************)
(* Theorems about MCWindow and its three parts, for any stations and       *)
(* answers, capacity of the microphone's channel, durations and bounds:    *)
(* each has its types, no station with one address has two rows, no page   *)
(* of the list is skipped, a recording that is committed is the whole      *)
(* recording in its order, and an exit that was flushed has the last       *)
(* settings on the disk.                                                   *)
(*                                                                         *)
(* Facts about sequences that need induction (Keep, Position) are proved   *)
(* by a smallest counterexample, from the well-foundedness of the natural  *)
(* numbers (Smallest).                                                     *)
(***************************************************************************)
EXTENDS MCWindow, SequenceTheorems, WellFoundedInduction, TLAPS

-----------------------------------------------------------------------------
(***************************************************************************)
(* The settings file.                                                      *)
(***************************************************************************)

\* A snapshot in the slot has its wake-up, and the flush stands alone in the channel.
WakeInv ==
    /\ slot # Empty => wake = <<"save">>
    /\ wake = <<"flush">> => closing \in {"asked", "gaveUp"}

\* Once the window closes nothing is dirty, and the flush is behind the last snapshot.
ClosingInv ==
    /\ closing # "open" => ~dirty
    /\ closing \in {"asked", "flushed"} => slot = Empty
    /\ closing = "flushed" => writing = Empty

\* The last settings are where they wait to be saved: dirty, else in the slot, else in the
\* thread's hands, else on the disk.
LastSettings == IF slot # Empty THEN slot ELSE IF writing # Empty THEN writing ELSE disk
KeptInv ==
    /\ lost \/ dirty \/ LastSettings = settings
    /\ writer = "rename" => temp = writing

SettingsInv == SettingsTypeOK /\ WakeInv /\ ClosingInv /\ KeptInv

USE DEF Empty, Torn

\* The two flags, apart from what is counted.
SettingsFlags == dirty \in BOOLEAN /\ lost \in BOOLEAN

SettingsCounts ==
    /\ settings \in 0..MaxChanges /\ slot \in 0..Empty
    /\ wake \in {<<>>, <<"save">>, <<"flush">>}
    /\ writer \in {"wait", "create", "sync", "rename"}
    /\ writer = "wait" <=> writing = Empty
    /\ writing \in 0..Empty /\ temp \in 0..Torn /\ disk \in 0..MaxChanges
    /\ closing \in {"open", "flush", "asked", "flushed", "gaveUp"}
    /\ starts \in 1..MaxStarts

SettingsRest == SettingsCounts /\ WakeInv /\ ClosingInv /\ KeptInv

LEMMA SettingsParts == SettingsTypeOK <=> SettingsFlags /\ SettingsCounts
  BY DEF SettingsTypeOK, SettingsFlags, SettingsCounts

LEMMA SettingsStart == SettingsInit => SettingsInv
<1> SUFFICES ASSUME SettingsInit PROVE SettingsInv
  OBVIOUS
<1>1. SettingsFlags
  BY DEF SettingsInit, SettingsFlags
<1>2. SettingsCounts
  BY SettingsFileAssumption DEF SettingsInit, SettingsCounts
<1>3. WakeInv /\ ClosingInv /\ KeptInv
  BY SettingsFileAssumption DEF SettingsInit, WakeInv, ClosingInv, KeptInv, LastSettings
<1> QED BY <1>1, <1>2, <1>3, SettingsParts DEF SettingsInv

LEMMA SettingsFlagsStep ==
  ASSUME SettingsFlags, [SettingsNext]_settingsVars PROVE SettingsFlags'
<1> USE DEF SettingsFlags, windowVars, fileVars
<1>1. CASE Change
  BY <1>1 DEF Change
<1>2. CASE Persist \/ Shutdown
  BY <1>2 DEF Persist, Shutdown, Save
<1>3. CASE AskForFlush \/ GiveUp \/ Restart
  BY <1>3 DEF AskForFlush, GiveUp, Restart
<1>4. CASE Writes
  BY <1>4 DEF Writes, Receive, CreateFile, SyncFile, RenameFile, Fails
<1>5. CASE UNCHANGED settingsVars
  BY <1>5 DEF settingsVars
<1> QED BY <1>1, <1>2, <1>3, <1>4, <1>5 DEF SettingsNext

\* A write that fails leaves the last settings where they wait, or they are lost.
LEMMA FailsRest ==
  ASSUME SettingsRest, Fails, writer # "wait", UNCHANGED <<windowVars, wake, starts>>
  PROVE  SettingsRest'
<1> USE DEF Fails, windowVars
<1>1. SettingsCounts' /\ WakeInv' /\ ClosingInv'
  BY SettingsFileAssumption DEF SettingsRest, SettingsCounts, WakeInv, ClosingInv
<1>2. lost \/ (slot = Empty /\ ~dirty) => lost'
  BY Zenon
<1>3. lost' \/ dirty' \/ LastSettings' = settings'
  <2>1. CASE slot = Empty /\ ~dirty
    BY <1>2, <2>1
  <2>2. CASE dirty
    BY <2>2
  <2>3. CASE slot # Empty
    <3>1. LastSettings = slot /\ LastSettings' = slot
      BY <2>3 DEF LastSettings
    <3> QED BY <1>2, <3>1, Zenon DEF SettingsRest, KeptInv
  <2> QED BY <2>1, <2>2, <2>3
<1>4. KeptInv'
  BY <1>3 DEF KeptInv
<1> QED BY <1>1, <1>4 DEF SettingsRest

LEMMA SettingsRestStep ==
  ASSUME SettingsRest, [SettingsNext]_settingsVars PROVE SettingsRest'
<1> USE SettingsFileAssumption DEF SettingsRest, SettingsCounts, WakeInv, ClosingInv, KeptInv, LastSettings, windowVars, fileVars
<1>1. CASE Change
  BY <1>1 DEF Change
<1>2. CASE Persist
  BY <1>2 DEF Persist, Save, WakeUp, Wakes
<1>3. CASE Shutdown
  BY <1>3 DEF Shutdown, Save, WakeUp, Wakes
<1>4. CASE AskForFlush
  BY <1>4 DEF AskForFlush, HasRoom
<1>5. CASE GiveUp
  BY <1>5 DEF GiveUp
<1>6. CASE Receive
  <2>1. wake \in {<<"save">>, <<"flush">>} /\ wake' = <<>>
    BY <1>6 DEF Receive
  <2>2. CASE wake = <<"save">>
    BY <1>6, <2>1, <2>2 DEF Receive
  <2>3. CASE wake = <<"flush">>
    BY <1>6, <2>1, <2>3 DEF Receive
  <2> QED BY <2>1, <2>2, <2>3
<1>7. CASE CreateFile
  <2>1. CASE Fails
    BY <1>7, <2>1, FailsRest DEF CreateFile
  <2>2. CASE ~Fails
    BY <1>7, <2>2 DEF CreateFile, AfterWrite
  <2> QED BY <2>1, <2>2
<1>8. CASE SyncFile
  <2>1. CASE Fails
    BY <1>8, <2>1, FailsRest DEF SyncFile
  <2>2. CASE ~Fails
    BY <1>8, <2>2 DEF SyncFile
  <2> QED BY <2>1, <2>2
<1>9. CASE RenameFile
  <2>1. CASE Fails
    BY <1>9, <2>1, FailsRest DEF RenameFile
  <2>2. CASE ~Fails
    BY <1>9, <2>2 DEF RenameFile
  <2> QED BY <2>1, <2>2
<1>10. CASE Restart
  BY <1>10 DEF Restart
<1>11. CASE UNCHANGED settingsVars
  BY <1>11 DEF settingsVars
<1> QED
  BY <1>1, <1>2, <1>3, <1>4, <1>5, <1>6, <1>7, <1>8, <1>9, <1>10, <1>11
  DEF SettingsNext, Writes

LEMMA SettingsStep == SettingsInv /\ [SettingsNext]_settingsVars => SettingsInv'
<1> SUFFICES ASSUME SettingsInv, [SettingsNext]_settingsVars PROVE SettingsInv'
  OBVIOUS
<1>1. SettingsFlags /\ SettingsRest
  BY SettingsParts DEF SettingsInv, SettingsRest
<1>2. SettingsFlags' /\ SettingsRest'
  BY <1>1, SettingsFlagsStep, SettingsRestStep
<1> QED
  BY <1>2 DEF SettingsInv, SettingsTypeOK, SettingsFlags, SettingsCounts, SettingsRest

-----------------------------------------------------------------------------
(***************************************************************************)
(* The voice command.                                                      *)
(***************************************************************************)

\* What was heard is what was sent and then what waits, until the session has ended.
TogetherInv ==
    step # "done" =>
        /\ Len(heard) = Len(sent) + Len(buffer)
        /\ \A i \in 1..Len(sent) : sent[i] = heard[i]
        /\ \A i \in 1..Len(buffer) : buffer[i].n = heard[Len(sent) + i]

\* Nothing waits once the recording is committed.
CommittedInv == step \in {"commit", "await"} => buffer = <<>>

CaptureInv == /\ CaptureTypeOK /\ firstAt \in Nat /\ lastAt \in Nat
              /\ TogetherInv /\ CommittedInv

Chunk == [n : 1..chunks, loud : BOOLEAN]

CaptureFlags == recording \in BOOLEAN /\ mic \in BOOLEAN

CaptureSteps ==
    /\ mode \in {"buffered", "streaming"}
    /\ step \in {"open", "connect", "ready", "record", "drop", "send", "commit", "await", "done"}
    /\ outcome \in {"none", "control", "status", "stations", "notFound", "error"}
    /\ mic <=> step \in {"record", "drop"}
    /\ outcome = "none" <=> step # "done"

CaptureTimes ==
    /\ clock \in 0..MaxRecording /\ firstAt \in Nat /\ lastAt \in Nat
    /\ firstAt <= lastAt /\ lastAt <= clock

CaptureAudio ==
    /\ chunks \in 0..MaxChunks /\ buffer \in Seq(Chunk)
    /\ mode = "streaming" => Len(buffer) <= Queue
    /\ sent \in Seq(1..chunks) /\ heard \in Seq(1..chunks)

LEMMA CaptureParts ==
  CaptureInv <=> /\ CaptureFlags /\ CaptureSteps /\ CaptureTimes /\ CaptureAudio
                 /\ TogetherInv /\ CommittedInv
<1>1. mic = (step \in {"record", "drop"})
        <=> mic \in BOOLEAN /\ (mic <=> step \in {"record", "drop"})
  <2>1. ASSUME mic = (step \in {"record", "drop"})
        PROVE  mic \in BOOLEAN /\ (mic <=> step \in {"record", "drop"})
    <3>1. mic \in BOOLEAN
      BY <2>1
    <3>2. mic <=> step \in {"record", "drop"}
      BY <2>1
    <3> QED BY <3>1, <3>2
  <2>2. ASSUME mic \in BOOLEAN, mic <=> step \in {"record", "drop"}
        PROVE  mic = (step \in {"record", "drop"})
    BY <2>2
  <2> QED BY <2>1, <2>2
<1>2. (outcome = "none") = (step # "done") <=> (outcome = "none" <=> step # "done")
  OBVIOUS
<1> QED
  BY <1>1, <1>2
  DEF CaptureInv, CaptureTypeOK, CaptureFlags, CaptureSteps, CaptureTimes, CaptureAudio, Chunk

LEMMA CaptureStart == CaptureInit => CaptureInv
<1> SUFFICES ASSUME CaptureInit PROVE CaptureInv
  OBVIOUS
<1>1. CaptureFlags
  BY DEF CaptureInit, CaptureFlags
<1>2. CaptureSteps
  BY DEF CaptureInit, CaptureSteps
<1>3. CaptureTimes
  BY VoiceCaptureAssumption DEF CaptureInit, CaptureTimes
<1>4. CaptureAudio
  BY VoiceCaptureAssumption, EmptySeq DEF CaptureInit, CaptureAudio
<1>5. TogetherInv /\ CommittedInv
  BY DEF CaptureInit, TogetherInv, CommittedInv
<1> QED BY <1>1, <1>2, <1>3, <1>4, <1>5, CaptureParts

LEMMA CaptureFlagsStep ==
  ASSUME CaptureFlags, [CaptureNext]_captureVars PROVE CaptureFlags'
<1> USE DEF CaptureFlags, Ends
<1>1. CASE OpenMicrophone \/ LoopEnds \/ DropStream
  BY <1>1 DEF OpenMicrophone, LoopEnds, DropStream
<1>2. CASE LookAtWindow
  BY <1>2 DEF LookAtWindow, Detect
<1>3. CASE StreamChunk
  BY <1>3 DEF StreamChunk, Sends, Detect
<1>4. CASE SendRest
  BY <1>4 DEF SendRest, Sends
<1>5. CASE Connect \/ Ready \/ Commit \/ Await
  BY <1>5 DEF Connect, Ready, Commit, Await
<1>6. CASE Tick \/ UserStops \/ \E loud \in BOOLEAN : Deliver(loud)
  BY <1>6 DEF Tick, UserStops, Deliver
<1>7. CASE UNCHANGED captureVars
  BY <1>7 DEF captureVars
<1> QED BY <1>1, <1>2, <1>3, <1>4, <1>5, <1>6, <1>7 DEF CaptureNext, Job

LEMMA CaptureStepsStep ==
  ASSUME CaptureSteps, [CaptureNext]_captureVars PROVE CaptureSteps'
<1> USE DEF CaptureSteps, Ends
<1>1. CASE OpenMicrophone
  BY <1>1 DEF OpenMicrophone
<1>2. CASE LoopEnds \/ DropStream
  BY <1>2 DEF LoopEnds, DropStream, AfterDrop, ThroughTheChannel
<1>3. CASE LookAtWindow
  BY <1>3 DEF LookAtWindow
<1>4. CASE StreamChunk
  <2>1. CASE outcome' = "error" /\ step' = "done" /\ mic' = FALSE
    BY <1>4, <2>1 DEF StreamChunk
  <2>2. CASE outcome' = outcome /\ mic' = mic /\ step' \in {"drop", step}
    BY <1>4, <2>2 DEF StreamChunk
  <2>3. outcome = "none"
    BY <1>4 DEF StreamChunk
  <2> QED BY <1>4, <2>1, <2>2, <2>3 DEF StreamChunk, Sends
<1>5. CASE SendRest
  BY <1>5 DEF SendRest, Sends
<1>6. CASE Connect \/ Ready
  BY <1>6 DEF Connect, Ready
<1>7. CASE Commit \/ Await
  BY <1>7 DEF Commit, Await
<1>8. CASE Tick \/ UserStops \/ \E loud \in BOOLEAN : Deliver(loud)
  <2>1. UNCHANGED <<mode, step, mic, outcome>>
    BY <1>8 DEF Tick, UserStops, Deliver
  <2> QED BY <2>1
<1>9. CASE UNCHANGED captureVars
  BY <1>9 DEF captureVars
<1> QED BY <1>1, <1>2, <1>3, <1>4, <1>5, <1>6, <1>7, <1>8, <1>9 DEF CaptureNext, Job

LEMMA CaptureTimesStep ==
  ASSUME CaptureTimes, [CaptureNext]_captureVars PROVE CaptureTimes'
<1> USE VoiceCaptureAssumption DEF CaptureTimes, detector
<1>1. ASSUME NEW loud, Detect(loud), UNCHANGED clock PROVE CaptureTimes'
  BY <1>1 DEF Detect, FirstSpeech, LastSpeech
<1>2. CASE OpenMicrophone \/ LoopEnds \/ DropStream
  BY <1>2 DEF OpenMicrophone, LoopEnds, DropStream
<1>3. CASE LookAtWindow
  BY <1>1, <1>3 DEF LookAtWindow
<1>4. CASE StreamChunk
  BY <1>1, <1>4 DEF StreamChunk
<1>5. CASE Connect \/ Ready \/ Commit \/ Await \/ SendRest
  BY <1>5 DEF Connect, Ready, Commit, Await, SendRest
<1>6. CASE Tick
  BY <1>6 DEF Tick
<1>7. CASE UserStops \/ \E loud \in BOOLEAN : Deliver(loud)
  BY <1>7 DEF UserStops, Deliver
<1>8. CASE UNCHANGED captureVars
  BY <1>8 DEF captureVars
<1> QED BY <1>2, <1>3, <1>4, <1>5, <1>6, <1>7, <1>8 DEF CaptureNext, Job

\* What the audio does: nothing, one chunk more, one chunk sent, one chunk lost with the session.
LEMMA AudioMoves ==
  ASSUME CaptureSteps, [CaptureNext]_captureVars
  PROVE  \/ UNCHANGED <<mode, audio>>
         \/ \E loud \in BOOLEAN : Deliver(loud)
         \/ /\ step \in {"record", "send"} /\ buffer # <<>> /\ buffer' = Tail(buffer)
            /\ UNCHANGED <<mode, chunks, heard>>
            /\ \/ sent' = Append(sent, Head(buffer).n)
               \/ sent' = sent /\ step' = "done"
<1> USE DEF CaptureSteps, audio
<1>1. CASE OpenMicrophone \/ LoopEnds \/ DropStream \/ LookAtWindow
  BY <1>1 DEF OpenMicrophone, LoopEnds, DropStream, LookAtWindow
<1>2. CASE StreamChunk
  BY <1>2 DEF StreamChunk, Sends, Ends
<1>3. CASE SendRest
  BY <1>3 DEF SendRest, Sends, Ends
<1>4. CASE Connect \/ Ready \/ Commit \/ Await
  BY <1>4 DEF Connect, Ready, Commit, Await
<1>5. CASE Tick \/ UserStops
  BY <1>5 DEF Tick, UserStops
<1>6. CASE UNCHANGED captureVars
  BY <1>6 DEF captureVars
<1> QED BY <1>1, <1>2, <1>3, <1>4, <1>5, <1>6 DEF CaptureNext, Job

LEMMA CaptureAudioStep ==
  ASSUME CaptureSteps, CaptureAudio, [CaptureNext]_captureVars PROVE CaptureAudio'
<1> USE VoiceCaptureAssumption DEF CaptureAudio
<1>1. CASE UNCHANGED <<mode, audio>>
  BY <1>1 DEF audio, Chunk
<1>2. ASSUME NEW loud \in BOOLEAN, Deliver(loud) PROVE CaptureAudio'
  <2>1. chunks' = chunks + 1 /\ chunks' \in 0..MaxChunks /\ mode' = mode /\ sent' = sent
    BY <1>2 DEF Deliver
  <2>2. 1..chunks \subseteq 1..chunks' /\ chunks' \in 1..chunks'
    BY <2>1
  <2>3. Chunk \subseteq Chunk' /\ [n |-> chunks', loud |-> loud] \in Chunk'
    BY <2>2, Zenon DEF Chunk
  <2>4. buffer \in Seq(Chunk') /\ sent \in Seq(1..chunks') /\ heard \in Seq(1..chunks')
    BY <2>2, <2>3, SeqMonotonic
  <2>5. CASE Accepts
    <3>1. buffer' = Append(buffer, [n |-> chunks', loud |-> loud])
          /\ heard' = Append(heard, chunks')
      BY <1>2, <2>5 DEF Deliver
    <3>2. buffer' \in Seq(Chunk') /\ heard' \in Seq(1..chunks') /\ Len(buffer') = Len(buffer) + 1
      BY <2>2, <2>3, <2>4, <3>1, AppendProperties
    <3>3. mode = "streaming" => Len(buffer) < Queue
      BY <2>5 DEF Accepts, Room
    <3> QED BY <2>1, <2>4, <3>2, <3>3, LenProperties
  <2>6. CASE ~Accepts
    BY <1>2, <2>1, <2>4, <2>6 DEF Deliver
  <2> QED BY <2>5, <2>6
<1>3. ASSUME buffer # <<>>, buffer' = Tail(buffer), UNCHANGED <<mode, chunks, heard>>,
             sent' \in {sent, Append(sent, Head(buffer).n)}
      PROVE  CaptureAudio'
  <2>1. Chunk' = Chunk
    BY <1>3 DEF Chunk
  <2>2. Head(buffer) \in Chunk /\ Tail(buffer) \in Seq(Chunk)
        /\ Len(Tail(buffer)) = Len(buffer) - 1
    BY <1>3, HeadTailProperties
  <2>3. Head(buffer).n \in 1..chunks
    BY <2>2 DEF Chunk
  <2>4. sent' \in Seq(1..chunks)
    <3>1. CASE sent' = sent
      BY <3>1
    <3>2. CASE sent' = Append(sent, Head(buffer).n)
      BY <2>3, <3>2, AppendProperties
    <3> QED BY <1>3, <3>1, <3>2
  <2> QED BY <1>3, <2>1, <2>2, <2>4, LenProperties
<1> QED BY <1>1, <1>2, <1>3, AudioMoves

LEMMA DoneStays ==
  ASSUME CaptureSteps, [CaptureNext]_captureVars, step = "done" PROVE step' = "done"
<1> USE DEF CaptureSteps
<1>1. CASE Job
  BY <1>1 DEF Job, OpenMicrophone, LoopEnds, LookAtWindow, StreamChunk, DropStream, Connect,
              Ready, SendRest, Commit, Await
<1>2. CASE Tick \/ UserStops
  BY <1>2 DEF Tick, UserStops
<1>3. CASE \E loud \in BOOLEAN : Deliver(loud)
  BY <1>3 DEF Deliver
<1>4. CASE UNCHANGED captureVars
  BY <1>4 DEF captureVars
<1> QED BY <1>1, <1>2, <1>3, <1>4 DEF CaptureNext

LEMMA TogetherStep ==
  ASSUME CaptureSteps, CaptureAudio, TogetherInv, [CaptureNext]_captureVars PROVE TogetherInv'
<1> SUFFICES ASSUME step' # "done"
             PROVE  /\ Len(heard') = Len(sent') + Len(buffer')
                    /\ \A i \in 1..Len(sent') : sent'[i] = heard'[i]
                    /\ \A i \in 1..Len(buffer') : buffer'[i].n = heard'[Len(sent') + i]
  BY DEF TogetherInv
<1>1. /\ Len(heard) = Len(sent) + Len(buffer)
      /\ \A i \in 1..Len(sent) : sent[i] = heard[i]
      /\ \A i \in 1..Len(buffer) : buffer[i].n = heard[Len(sent) + i]
  BY DoneStays DEF TogetherInv
<1>2. /\ buffer \in Seq(Chunk) /\ sent \in Seq(1..chunks) /\ heard \in Seq(1..chunks)
      /\ Len(buffer) \in Nat /\ Len(sent) \in Nat /\ Len(heard) \in Nat
  BY LenProperties DEF CaptureAudio
<1>4. ASSUME NEW loud \in BOOLEAN, Deliver(loud), Accepts
      PROVE  /\ Len(heard') = Len(sent') + Len(buffer')
             /\ \A i \in 1..Len(sent') : sent'[i] = heard'[i]
             /\ \A i \in 1..Len(buffer') : buffer'[i].n = heard'[Len(sent') + i]
  <2> DEFINE new == [n |-> chunks + 1, loud |-> loud]
  <2>1. /\ buffer' = Append(buffer, new) /\ heard' = Append(heard, chunks + 1)
        /\ sent' = sent
    BY <1>4 DEF Deliver
  <2>2. /\ Len(buffer') = Len(buffer) + 1 /\ buffer'[Len(buffer) + 1] = new
        /\ \A i \in 1..Len(buffer) : buffer'[i] = buffer[i]
    BY <1>2, <2>1, AppendProperties
  <2>3. /\ Len(heard') = Len(heard) + 1 /\ heard'[Len(heard) + 1] = chunks + 1
        /\ \A i \in 1..Len(heard) : heard'[i] = heard[i]
    BY <1>2, <2>1, AppendProperties
  <2>4. new.n = chunks + 1
    OBVIOUS
  <2> HIDE DEF new
  <2> QED BY <1>1, <1>2, <2>1, <2>2, <2>3, <2>4
<1>5. ASSUME NEW loud \in BOOLEAN, Deliver(loud), ~Accepts
      PROVE  UNCHANGED <<buffer, sent, heard>>
  BY <1>5 DEF Deliver
<1>6. ASSUME buffer # <<>>, buffer' = Tail(buffer), heard' = heard,
             sent' = Append(sent, Head(buffer).n)
      PROVE  /\ Len(heard') = Len(sent') + Len(buffer')
             /\ \A i \in 1..Len(sent') : sent'[i] = heard'[i]
             /\ \A i \in 1..Len(buffer') : buffer'[i].n = heard'[Len(sent') + i]
  <2>1. /\ Head(buffer) = buffer[1] /\ Len(buffer') = Len(buffer) - 1 /\ Len(buffer) # 0
        /\ \A i \in 1..Len(buffer') : buffer'[i] = buffer[i + 1]
    BY <1>2, <1>6, HeadTailProperties, EmptySeq
  <2>2. /\ Len(sent') = Len(sent) + 1 /\ sent'[Len(sent) + 1] = buffer[1].n
        /\ \A i \in 1..Len(sent) : sent'[i] = sent[i]
    <3>1. Head(buffer) \in Chunk
      BY <1>2, <1>6, HeadTailProperties
    <3>2. Head(buffer).n \in 1..chunks
      BY <3>1 DEF Chunk
    <3> QED BY <1>2, <1>6, <2>1, <3>2, AppendProperties
  <2>3. buffer[1].n = heard[Len(sent) + 1]
    BY <1>1, <1>2, <2>1
  <2>4. ASSUME NEW i \in 1..Len(buffer')
        PROVE  buffer'[i].n = heard'[Len(sent') + i]
    <3>1. i + 1 \in 1..Len(buffer) /\ Len(sent') + i = Len(sent) + (i + 1)
      BY <1>2, <2>1, <2>2
    <3> QED BY <1>1, <1>6, <2>1, <3>1
  <2>5. Len(heard') = Len(sent') + Len(buffer')
    <3>1. Len(heard') = Len(heard)
      BY <1>6
    <3>2. Len(buffer') = Len(buffer) - 1 /\ Len(sent') = Len(sent) + 1
      BY <2>1, <2>2
    <3>3. Len(heard) = Len(sent) + Len(buffer)
      BY <1>1
    <3> QED BY <1>2, <3>1, <3>2, <3>3
  <2>6. ASSUME NEW i \in 1..Len(sent') PROVE sent'[i] = heard'[i]
    <3>1. i \in 1..Len(sent) \/ i = Len(sent) + 1
      BY <1>2, <2>2
    <3> QED BY <1>1, <1>6, <2>2, <2>3, <3>1
  <2> QED BY <2>4, <2>5, <2>6
<1>7. UNCHANGED <<buffer, sent, heard>> \/ \E loud \in BOOLEAN : (Deliver(loud) /\ Accepts)
        \/ /\ buffer # <<>> /\ buffer' = Tail(buffer) /\ heard' = heard
           /\ sent' = Append(sent, Head(buffer).n)
  BY <1>5, AudioMoves DEF audio
<1> QED BY <1>1, <1>4, <1>6, <1>7

LEMMA CommittedStep ==
  ASSUME CaptureSteps, CaptureAudio, CommittedInv, [CaptureNext]_captureVars
  PROVE  CommittedInv'
<1> USE DEF CommittedInv, CaptureSteps, audio
<1>1. CASE OpenMicrophone \/ LoopEnds \/ DropStream \/ LookAtWindow \/ Connect \/ Ready
  BY <1>1 DEF OpenMicrophone, LoopEnds, DropStream, LookAtWindow, AfterDrop, ThroughTheChannel,
              Connect, Ready, Ends
<1>2. CASE StreamChunk \/ SendRest
  BY <1>2 DEF StreamChunk, SendRest, Sends, Ends
<1>3. CASE Commit \/ Await
  BY <1>3 DEF Commit, Await, Ends
<1>4. CASE Tick \/ UserStops
  BY <1>4 DEF Tick, UserStops
<1>5. CASE \E loud \in BOOLEAN : Deliver(loud)
  BY <1>5 DEF Deliver
<1>6. CASE UNCHANGED captureVars
  BY <1>6 DEF captureVars
<1> QED BY <1>1, <1>2, <1>3, <1>4, <1>5, <1>6 DEF CaptureNext, Job

LEMMA CaptureStep == CaptureInv /\ [CaptureNext]_captureVars => CaptureInv'
<1> SUFFICES ASSUME CaptureInv, [CaptureNext]_captureVars PROVE CaptureInv'
  OBVIOUS
<1>1. /\ CaptureFlags /\ CaptureSteps /\ CaptureTimes /\ CaptureAudio
      /\ TogetherInv /\ CommittedInv
  BY CaptureParts
<1>2. CaptureFlags' /\ CaptureSteps' /\ CaptureTimes'
  BY <1>1, CaptureFlagsStep, CaptureStepsStep, CaptureTimesStep
<1>3. CaptureAudio' /\ TogetherInv' /\ CommittedInv'
  BY <1>1, CaptureAudioStep, TogetherStep, CommittedStep
<1> QED BY <1>2, <1>3, CaptureParts, PTL

\* The elements agree one by one, so the sequences are the same.
LEMMA CaptureIsWhole == CaptureInv => NothingHeardIsLost
<1> SUFFICES ASSUME CaptureInv, step \in {"commit", "await"} PROVE sent = heard
  BY DEF NothingHeardIsLost
<1>1. CaptureAudio /\ TogetherInv /\ buffer = <<>>
  BY CaptureParts DEF CommittedInv
<1>2. /\ sent \in Seq(1..chunks) /\ heard \in Seq(1..chunks) /\ Len(sent) = Len(heard)
      /\ \A i \in 1..Len(sent) : sent[i] = heard[i]
  BY <1>1, LenProperties, EmptySeq DEF TogetherInv, CaptureAudio
<1> QED BY <1>2, SeqEqual

-----------------------------------------------------------------------------
(***************************************************************************)
(* What the operators on sequences of stations return.                     *)
(***************************************************************************)

\* Numbers have no infinite descent: a case that fails has a smallest one.
\* No station that all sources know by one address is there twice.
Distinct(seq) == \A i, j \in DOMAIN seq : seq[i] = seq[j] /\ Steady(seq[i]) => i = j

LEMMA OnceIsDistinct ==
  ASSUME NEW seq, Once(seq) PROVE Distinct(seq)
  BY DEF Once, Distinct

LEMMA Smallest ==
  ASSUME NEW T, T \subseteq Nat, T # {}
  PROVE  \E m \in T : \A n \in T : m <= n
<1>1. PICK m \in T : \A n \in T : ~(<<n, m>> \in OpToRel(<, Nat))
  BY NatLessThanWellFounded, WFMin
<1>2. \A n \in T : ~(n < m)
  BY <1>1 DEF OpToRel
<1> QED BY <1>2

\* One place more, and what is kept up to it.
Kept(f, seq, set, n) ==
    IF n = 0 THEN <<>>
    ELSE IF seq[n] \in set THEN Append(f[n - 1], seq[n]) ELSE f[n - 1]
KeptUpTo(f, seq, set, n) == f = [i \in 0..n |-> Kept(f, seq, set, i)]

LEMMA KeepExists ==
  ASSUME NEW A, NEW seq \in Seq(A), NEW set
  PROVE  \A n \in 0..Len(seq) : \E f \in [0..n -> Seq(A)] : KeptUpTo(f, seq, set, n)
<1> USE DEF KeptUpTo
<1> DEFINE Has(n) == \E f \in [0..n -> Seq(A)] : f = [i \in 0..n |-> Kept(f, seq, set, i)]
           T == {n \in 0..Len(seq) : ~Has(n)}
<1>1. SUFFICES ASSUME T # {} PROVE FALSE
  OBVIOUS
<1>2. T \subseteq Nat /\ Len(seq) \in Nat
  BY LenProperties
<1>3. PICK m \in T : \A n \in T : m <= n
  <2> HIDE DEF T
  <2> QED BY <1>1, <1>2, Smallest
<1>4. m \in 0..Len(seq) /\ ~Has(m) /\ m \in Nat
  BY <1>2
<1>5. CASE m = 0
  <2>1. [i \in 0..0 |-> <<>>] \in [0..0 -> Seq(A)]
    BY EmptySeq
  <2>2. [i \in 0..0 |-> <<>>] = [i \in 0..0 |-> Kept([j \in 0..0 |-> <<>>], seq, set, i)]
    BY DEF Kept
  <2> QED BY <1>4, <1>5, <2>1, <2>2
<1>6. CASE m # 0
  <2>1. m - 1 \in 0..Len(seq) /\ ~(m <= m - 1)
    BY <1>2, <1>4, <1>6
  <2>2. Has(m - 1)
    BY <1>3, <2>1
  <2>3. PICK f \in [0..(m - 1) -> Seq(A)] : f = [i \in 0..(m - 1) |-> Kept(f, seq, set, i)]
    BY <2>2
  <2> DEFINE g == [i \in 0..m |-> IF i = m THEN Kept(f, seq, set, m) ELSE f[i]]
  <2>4. Kept(f, seq, set, m) \in Seq(A)
    <3>1. f[m - 1] \in Seq(A)
      BY <1>4, <1>6
    <3>2. seq[m] \in A
      BY <1>4, <1>6, ElementOfSeq
    <3> QED BY <1>4, <1>6, <3>1, <3>2, AppendProperties DEF Kept
  <2>5. g \in [0..m -> Seq(A)]
    BY <1>4, <1>6, <2>4
  <2>6. ASSUME NEW i \in 0..m PROVE g[i] = Kept(g, seq, set, i)
    <3>1. CASE i = m
      BY <1>4, <1>6, <3>1 DEF Kept
    <3>2. CASE i # m
      <4>1. i \in 0..(m - 1) /\ g[i] = f[i]
        BY <1>4, <3>2
      <4>2. f[i] = Kept(f, seq, set, i)
        BY <2>3, <4>1
      <4>3. i # 0 => i - 1 \in 0..(m - 1) /\ i - 1 # m /\ g[i - 1] = f[i - 1]
        BY <1>4, <4>1
      <4> QED BY <4>1, <4>2, <4>3 DEF Kept
    <3> QED BY <3>1, <3>2
  <2>7. g = [i \in 0..m |-> Kept(g, seq, set, i)]
    BY <2>5, <2>6
  <2> QED BY <1>4, <2>5, <2>7
<1> QED BY <1>5, <1>6

LEMMA KeepIs ==
  ASSUME NEW A, NEW seq \in Seq(A), NEW set
  PROVE  \E f : /\ KeptUpTo(f, seq, set, Len(seq))
                /\ Keep(seq, set) = f[Len(seq)]
<1> DEFINE kept[n \in 0..Len(seq)] ==
             IF n = 0 THEN <<>>
             ELSE IF seq[n] \in set THEN Append(kept[n - 1], seq[n]) ELSE kept[n - 1]
<1>1. Keep(seq, set) = kept[Len(seq)]
  BY DEF Keep
<1>2. kept = CHOOSE f : KeptUpTo(f, seq, set, Len(seq))
  BY DEF Kept, KeptUpTo
<1>3. \E f : KeptUpTo(f, seq, set, Len(seq))
  <2>1. Len(seq) \in 0..Len(seq)
    BY LenProperties
  <2>2. \A n \in 0..Len(seq) : \E f \in [0..n -> Seq(A)] : KeptUpTo(f, seq, set, n)
    BY KeepExists, Zenon
  <2> QED BY <2>1, <2>2, Zenon
<1>4. KeptUpTo(kept, seq, set, Len(seq))
  <2> HIDE DEF kept
  <2> QED BY <1>2, <1>3, Zenon
<1> QED BY <1>1, <1>4, Zenon

\* What is kept of a sequence is what is in set, in its order, and once if it was there once.
LEMMA KeepFacts ==
  ASSUME NEW A, NEW seq \in Seq(A), NEW set
  PROVE  /\ Keep(seq, set) \in Seq(A)
         /\ Seen(Keep(seq, set)) = Seen(seq) \cap set
         /\ Distinct(seq) => Distinct(Keep(seq, set))
<1>1. PICK f : /\ KeptUpTo(f, seq, set, Len(seq))
               /\ Keep(seq, set) = f[Len(seq)]
  BY KeepIs
<1> DEFINE Good(n) == /\ f[n] \in Seq(A)
                      /\ Seen(f[n]) = {seq[j] : j \in 1..n} \cap set
                      /\ Distinct(seq) => Distinct(f[n])
           T == {n \in 0..Len(seq) : ~Good(n)}
<1>2. Len(seq) \in Nat /\ DOMAIN seq = 1..Len(seq)
  BY LenProperties
<1>3. \A n \in 0..Len(seq) : f[n] = Kept(f, seq, set, n)
  BY <1>1, Zenon DEF KeptUpTo
<1>4. ASSUME T # {} PROVE FALSE
  <2>1. T \subseteq Nat
    BY <1>2
  <2>2. PICK m \in T : \A n \in T : m <= n
    <3> HIDE DEF T
    <3> QED BY <1>4, <2>1, Smallest
  <2>3. m \in 0..Len(seq) /\ ~Good(m) /\ m \in Nat
    BY <1>2
  <2>4. CASE m = 0
    <3>1. f[0] = <<>>
      BY <1>2, <1>3 DEF Kept
    <3>2. Good(0)
      BY <3>1, EmptySeq DEF Seen, Distinct
    <3> QED BY <2>3, <2>4, <3>2
  <2>5. CASE m # 0
    <3>1. m - 1 \in 0..Len(seq) /\ ~(m <= m - 1) /\ m \in 1..Len(seq)
      BY <1>2, <2>3, <2>5
    <3>2. Good(m - 1)
      BY <2>2, <3>1
    <3>3. seq[m] \in A
      BY <3>1, ElementOfSeq
    <3> DEFINE g == f[m - 1]
    <3>4. {seq[j] : j \in 1..m} = {seq[j] : j \in 1..(m - 1)} \cup {seq[m]}
      <4>1. 1..m = 1..(m - 1) \cup {m}
        BY <3>1, <1>2
      <4> QED BY <4>1
    <3>5. CASE seq[m] \in set
      <4>1. f[m] = Append(g, seq[m])
        BY <1>3, <2>3, <2>5, <3>5 DEF Kept
      <4>2. /\ g \in Seq(A) /\ Append(g, seq[m]) \in Seq(A)
            /\ DOMAIN g = 1..Len(g) /\ Len(g) \in Nat
            /\ DOMAIN Append(g, seq[m]) = 1..(Len(g) + 1)
            /\ Append(g, seq[m])[Len(g) + 1] = seq[m]
            /\ \A i \in 1..Len(g) : Append(g, seq[m])[i] = g[i]
        BY <3>2, <3>3, AppendProperties, LenProperties
      <4> HIDE DEF g
      <4>3. Seen(f[m]) = Seen(g) \cup {seq[m]}
        BY <4>1, <4>2 DEF Seen
      <4>4. Seen(f[m]) = {seq[j] : j \in 1..m} \cap set
        BY <3>2, <3>4, <3>5, <4>3 DEF g
      <4>5. ASSUME Distinct(seq) PROVE Distinct(f[m])
        <5>1. Steady(seq[m]) => seq[m] \notin {seq[j] : j \in 1..(m - 1)}
          BY <1>2, <3>1, <4>5 DEF Distinct
        <5>2. Steady(seq[m]) => seq[m] \notin Seen(g)
          BY <3>2, <5>1 DEF g
        <5>3. Distinct(g)
          BY <3>2, <4>5 DEF g
        <5> QED BY <4>1, <4>2, <5>2, <5>3 DEF Distinct, Seen
      <4> QED BY <2>3, <4>1, <4>2, <4>4, <4>5
    <3>6. CASE seq[m] \notin set
      <4>1. f[m] = g
        BY <1>3, <2>3, <2>5, <3>6 DEF Kept
      <4>2. Seen(f[m]) = {seq[j] : j \in 1..m} \cap set
        BY <3>2, <3>4, <3>6, <4>1
      <4> QED BY <2>3, <3>2, <4>1, <4>2
    <3> QED BY <3>5, <3>6
  <2> QED BY <2>4, <2>5
<1>5. Good(Len(seq))
  <2>1. Len(seq) \in 0..Len(seq)
    BY <1>2
  <2>2. T = {}
    BY <1>4
  <2> HIDE DEF Good
  <2> QED BY <2>1, <2>2
<1>6. Seen(seq) = {seq[j] : j \in 1..Len(seq)}
  BY <1>2 DEF Seen
<1> QED BY <1>1, <1>5, <1>6

LEMMA PositionFacts ==
  ASSUME NEW A, NEW seq \in Seq(A), NEW set, Seen(seq) \cap set # {}
  PROVE  /\ Position(seq, set) \in 1..Len(seq)
         /\ seq[Position(seq, set)] \in A \cap set
<1> DEFINE places == {i \in 1..Len(seq) : seq[i] \in set}
           Is(i) == i \in DOMAIN seq /\ seq[i] \in set /\ \A j \in 1..(i - 1) : seq[j] \notin set
<1>1. Len(seq) \in Nat /\ DOMAIN seq = 1..Len(seq)
  BY LenProperties
<1>2. places \subseteq Nat /\ places # {}
  BY <1>1 DEF Seen
<1>3. PICK m \in places : \A n \in places : m <= n
  <2> HIDE DEF places
  <2> QED BY <1>2, Smallest
<1>4. Is(m)
  BY <1>1, <1>3
<1>5. Position(seq, set) = CHOOSE i : Is(i)
  BY DEF Position
<1>6. Is(Position(seq, set))
  <2> HIDE DEF Is
  <2> QED BY <1>4, <1>5, Zenon
<1> QED BY <1>1, <1>6, ElementOfSeq

LEMMA SeenFacts ==
  ASSUME NEW A, NEW s \in Seq(A), NEW t \in Seq(A)
  PROVE  /\ Seen(s) \subseteq A /\ s \o t \in Seq(A)
         /\ Seen(s \o t) = Seen(s) \cup Seen(t)
         /\ (Distinct(s) /\ Distinct(t) /\ Seen(s) \cap Seen(t) = {}) => Distinct(s \o t)
<1>1. /\ Len(s) \in Nat /\ Len(t) \in Nat /\ DOMAIN s = 1..Len(s) /\ DOMAIN t = 1..Len(t)
      /\ s \o t \in Seq(A) /\ Len(s \o t) = Len(s) + Len(t)
      /\ DOMAIN (s \o t) = 1..(Len(s) + Len(t))
      /\ \A i \in 1..(Len(s) + Len(t)) :
            (s \o t)[i] = IF i <= Len(s) THEN s[i] ELSE t[i - Len(s)]
  BY LenProperties, ConcatProperties
<1> DEFINE u == s \o t
<1> HIDE DEF u
<1>2. /\ DOMAIN u = 1..(Len(s) + Len(t))
      /\ \A i \in 1..Len(s) : i \in DOMAIN u /\ u[i] = s[i]
      /\ \A i \in 1..Len(t) : Len(s) + i \in DOMAIN u /\ u[Len(s) + i] = t[i]
      /\ \A i \in DOMAIN u : i \in 1..Len(s) \/ i - Len(s) \in 1..Len(t)
  BY <1>1 DEF u
<1>3. \A i \in DOMAIN u : \/ i \in 1..Len(s) /\ u[i] = s[i]
                          \/ i - Len(s) \in 1..Len(t) /\ u[i] = t[i - Len(s)] /\ i \in Nat
  BY <1>1 DEF u
<1>4. Seen(s) \subseteq A
  BY <1>1, ElementOfSeq DEF Seen
<1>5. Seen(u) = Seen(s) \cup Seen(t)
  <2>1. ASSUME NEW x \in Seen(u) PROVE x \in Seen(s) \cup Seen(t)
    BY <1>1, <1>3, <2>1 DEF Seen
  <2>2. ASSUME NEW x \in Seen(s) PROVE x \in Seen(u)
    BY <1>1, <1>2, <2>2 DEF Seen
  <2>3. ASSUME NEW x \in Seen(t) PROVE x \in Seen(u)
    BY <1>1, <1>2, <2>3 DEF Seen
  <2> QED BY <2>1, <2>2, <2>3
<1>6. ASSUME Distinct(s), Distinct(t), Seen(s) \cap Seen(t) = {} PROVE Distinct(u)
  <2> SUFFICES ASSUME NEW i \in DOMAIN u, NEW j \in DOMAIN u, u[i] = u[j], Steady(u[i])
               PROVE  i = j
    BY DEF Distinct
  <2> DEFINE Left(k) == k \in 1..Len(s) /\ u[k] = s[k]
             Right(k) == k - Len(s) \in 1..Len(t) /\ u[k] = t[k - Len(s)] /\ k \in Nat
  <2>1. CASE Left(i) /\ Left(j)
    BY <1>1, <1>6, <2>1 DEF Distinct
  <2>2. CASE Right(i) /\ Right(j)
    <3>1. i - Len(s) = j - Len(s)
      BY <1>1, <1>6, <2>2 DEF Distinct
    <3> QED BY <1>1, <2>2, <3>1
  <2>3. Left(i) => u[i] \in Seen(s)
    BY <1>1 DEF Seen
  <2>4. Right(i) => u[i] \in Seen(t)
    BY <1>1 DEF Seen
  <2>5. Left(j) => u[j] \in Seen(s)
    BY <1>1 DEF Seen
  <2>6. Right(j) => u[j] \in Seen(t)
    BY <1>1 DEF Seen
  <2>7. (Left(i) \/ Right(i)) /\ (Left(j) \/ Right(j))
    BY <1>3
  <2> HIDE DEF Left, Right
  <2> QED BY <1>6, <2>1, <2>2, <2>3, <2>4, <2>5, <2>6, <2>7
<1> QED BY <1>1, <1>4, <1>5, <1>6 DEF u

LEMMA OneSeen ==
  ASSUME NEW A, NEW s \in A
  PROVE  <<s>> \in Seq(A) /\ Len(<<s>>) = 1 /\ Seen(<<s>>) = {s} /\ Distinct(<<s>>)
<1>1. <<s>> \in Seq(A) /\ Len(<<s>>) = 1 /\ DOMAIN <<s>> = 1..1 /\ <<s>>[1] = s
  OBVIOUS
<1> QED BY <1>1 DEF Seen, Distinct

LEMMA FirstFacts ==
  ASSUME NEW A, NEW seq \in Seq(A), NEW n \in Nat
  PROVE  /\ First(seq, n) \in Seq(A)
         /\ Len(First(seq, n)) = IF n < Len(seq) THEN n ELSE Len(seq)
         /\ \A i \in 1..Len(First(seq, n)) : i \in DOMAIN seq /\ First(seq, n)[i] = seq[i]
         /\ Distinct(seq) => Distinct(First(seq, n))
<1> DEFINE k == IF n < Len(seq) THEN n ELSE Len(seq)
<1>1. Len(seq) \in Nat /\ DOMAIN seq = 1..Len(seq) /\ k \in 0..Len(seq)
  BY LenProperties
<1>2. /\ First(seq, n) = SubSeq(seq, 1, k) /\ SubSeq(seq, 1, k) \in Seq(A)
      /\ Len(SubSeq(seq, 1, k)) = k
      /\ \A i \in 1..k : SubSeq(seq, 1, k)[i] = seq[i]
  BY <1>1, SubSeqProperties, SeqMonotonic DEF First
<1>3. DOMAIN First(seq, n) = 1..k
  BY <1>2, LenProperties
<1> QED BY <1>1, <1>2, <1>3 DEF Distinct

-----------------------------------------------------------------------------
(***************************************************************************)
(* The station list.                                                       *)
(***************************************************************************)

SavedUrls == {None} \cup {s.url : s \in Stations}

\* A row is selected that exists, and no station with one address has two.
RowsInv ==
    /\ list \in Seq(Stations) /\ Distinct(list) /\ selected \in 0..Len(list)
    /\ saved \in SavedUrls /\ played \in Stations \cup {NoStation}

ListFlags ==
    /\ loading \in BOOLEAN /\ loadingMore \in BOOLEAN /\ moreError \in BOOLEAN
    /\ hasMore \in BOOLEAN /\ voiceBusy \in BOOLEAN /\ pendingPlay \in BOOLEAN
    /\ device \in BOOLEAN

PlansInv ==
    /\ player \in {"idle", "starting", "playing", "stopping"}
    /\ lastPlayed \in Stations \cup {NoStation} /\ fallback \in Seq(Stations)

RemovedInv == removed \subseteq Stations

ListCounts == listening \in Nat /\ actions \in 0..MaxActions

\* A lookup is under way for each station that is being resolved, and only one.
Names == {s.id : s \in Stations}
ProfileInv ==
    /\ favourites \subseteq Names /\ failed \subseteq Names
    /\ lookups \subseteq [station : Names, autoPlay : BOOLEAN]
    /\ resolving = {job.station : job \in lookups}
    /\ \A j, k \in lookups : j.station = k.station => j = k

AllQueries == Queries \cup {Home}

\* The search of the current request is the one that is loading.
SearchInv ==
    /\ request \in Nat /\ query \in AllQueries
    /\ searches \subseteq [id : 1..request, query : AllQueries]
    /\ \A job \in searches : job.id = request => job.query = query /\ loading

\* The page of the current request is the one that is loading, and goes on where the list ends.
PageInv ==
    /\ offset \in Nat /\ cursor \in Nat
    /\ pages \subseteq [id : 0..request, query : AllQueries, offset : Nat, cursor : Nat]
    /\ \A job \in pages : job.id = request =>
          /\ loadingMore /\ ~loading /\ hasMore
          /\ job.query = query /\ job.offset = offset /\ job.cursor = cursor

ListInv ==
    /\ RowsInv /\ ListFlags /\ PlansInv /\ ListCounts /\ ProfileInv /\ SearchInv /\ PageInv
    /\ RemovedInv /\ NothingIsSkipped

LEMMA AfterFacts ==
  ASSUME NEW q \in AllQueries, NEW n \in Nat
  PROVE  /\ After(q, n) \in Seq(Stations) /\ Distinct(After(q, n)) /\ Len(After(q, n)) \in Nat
         /\ Seen(First(Matches[q], n + Len(After(q, n))))
              \subseteq Seen(First(Matches[q], n)) \cup Seen(After(q, n))
<1> DEFINE m == Matches[q]
           rest == SubSeq(m, n + 1, Len(m))
<1>1. m \in Seq(Stations) /\ Distinct(m) /\ Page \in Nat
  BY StationListAssumption, OnceIsDistinct DEF AllQueries
<1> HIDE DEF m
<1>2. /\ Len(m) \in Nat /\ DOMAIN m = 1..Len(m) /\ rest \in Seq(Stations)
      /\ Len(rest) = IF n + 1 <= Len(m) THEN Len(m) - n ELSE 0
      /\ \A i \in 1..Len(rest) : n + i \in 1..Len(m) /\ rest[i] = m[n + i]
  <2>1. Len(m) \in Nat /\ DOMAIN m = 1..Len(m)
    BY <1>1, LenProperties
  <2>2. CASE n + 1 <= Len(m)
    BY <1>1, <2>1, <2>2, SubSeqProperties
  <2>3. CASE ~(n + 1 <= Len(m))
    BY <1>1, <2>1, <2>3, SubSeqProperties
  <2> QED BY <2>1, <2>2, <2>3
<1>3. DOMAIN rest = 1..Len(rest)
  BY <1>2, LenProperties
<1>4. Distinct(rest)
  <2> SUFFICES ASSUME NEW i \in 1..Len(rest), NEW j \in 1..Len(rest), rest[i] = rest[j],
                      Steady(rest[i])
               PROVE  i = j
    BY <1>3 DEF Distinct
  <2>1. n + i = n + j
    BY <1>1, <1>2 DEF Distinct
  <2>2. i \in Nat /\ j \in Nat
    BY <1>2
  <2> QED BY <2>1, <2>2
<1> HIDE DEF rest
<1>5. After(q, n) = First(rest, Page)
  BY DEF After, rest, m
<1>6. /\ After(q, n) \in Seq(Stations) /\ Distinct(After(q, n)) /\ Len(After(q, n)) \in Nat
      /\ Len(After(q, n)) <= Len(rest)
      /\ \A i \in 1..Len(After(q, n)) : After(q, n)[i] = rest[i]
  <2>1. /\ First(rest, Page) \in Seq(Stations)
        /\ Len(First(rest, Page)) = IF Page < Len(rest) THEN Page ELSE Len(rest)
        /\ \A i \in 1..Len(First(rest, Page)) : First(rest, Page)[i] = rest[i]
        /\ Distinct(First(rest, Page))
    BY <1>1, <1>2, <1>4, FirstFacts
  <2>2. Len(rest) \in Nat /\ Page \in Nat
    BY <1>1, <1>2, LenProperties
  <2> QED BY <1>5, <2>1, <2>2
<1>7. ASSUME NEW x \in Seen(First(m, n + Len(After(q, n))))
      PROVE  x \in Seen(First(m, n)) \cup Seen(After(q, n))
  <2>1. /\ First(m, n) \in Seq(Stations) /\ First(m, n + Len(After(q, n))) \in Seq(Stations)
        /\ Len(First(m, n)) = IF n < Len(m) THEN n ELSE Len(m)
        /\ Len(First(m, n + Len(After(q, n))))
             = IF n + Len(After(q, n)) < Len(m) THEN n + Len(After(q, n)) ELSE Len(m)
        /\ \A i \in 1..Len(First(m, n)) : First(m, n)[i] = m[i]
        /\ \A i \in 1..Len(First(m, n + Len(After(q, n)))) :
              First(m, n + Len(After(q, n)))[i] = m[i]
    BY <1>1, <1>6, FirstFacts
  <2>2. DOMAIN First(m, n) = 1..Len(First(m, n)) /\ DOMAIN After(q, n) = 1..Len(After(q, n))
        /\ DOMAIN First(m, n + Len(After(q, n))) = 1..Len(First(m, n + Len(After(q, n))))
    BY <1>6, <2>1, LenProperties
  <2>3. PICK i \in 1..Len(First(m, n + Len(After(q, n)))) : x = m[i]
    BY <2>1, <2>2, <1>7 DEF Seen
  <2>4. i \in 1..Len(m) /\ i <= n + Len(After(q, n)) /\ i \in Nat
    BY <1>2, <1>6, <2>1
  <2>5. CASE i <= n
    <3>0. Len(First(m, n)) = IF n < Len(m) THEN n ELSE Len(m)
      BY <2>1
    <3>1. i \in 1..Len(First(m, n))
      BY <2>4, <2>5, <3>0
    <3>2. x = First(m, n)[i] /\ i \in DOMAIN First(m, n)
      BY <2>1, <2>2, <2>3, <3>1
    <3> QED BY <3>2 DEF Seen
  <2>6. CASE ~(i <= n)
    <3>0. Len(After(q, n)) \in Nat /\ Len(rest) \in Nat /\ Len(After(q, n)) <= Len(rest)
      BY <1>2, <1>6, LenProperties
    <3>1. i - n \in 1..Len(After(q, n)) /\ i - n \in 1..Len(rest) /\ n + (i - n) = i
      BY <2>4, <2>6, <3>0
    <3>2. After(q, n)[i - n] = m[i]
      BY <1>2, <1>6, <3>1
    <3> QED BY <2>2, <2>3, <3>1, <3>2 DEF Seen
  <2> QED BY <2>5, <2>6
<1> QED BY <1>6, <1>7 DEF m

LEMMA AnswersFacts ==
  ASSUME NEW q \in AllQueries, NEW a \in Answers(q)
  PROVE  /\ a.list \in Seq(Stations) /\ Distinct(a.list)
         /\ (q # Home /\ a.more) => Seen(First(Matches[q], Len(a.list))) \subseteq Seen(a.list)
<1> USE StationListAssumption DEF AllQueries
<1>1. CASE q = Home
  BY <1>1, OnceIsDistinct DEF Answers
<1>2. CASE q # Home /\ a = [list |-> Offline(q), more |-> FALSE]
  <2>1. Offline(q) \in Seq(Stations) /\ Distinct(Offline(q))
    BY KeepFacts, OnceIsDistinct DEF Offline
  <2> QED BY <1>2, <2>1
<1>3. CASE q # Home /\ a = [list |-> SearchPage(q, 0).list, more |-> SearchPage(q, 0).more]
  <2>1. a.list = After(q, 0)
    BY <1>3 DEF SearchPage
  <2>2. /\ After(q, 0) \in Seq(Stations) /\ Distinct(After(q, 0)) /\ Len(After(q, 0)) \in Nat
        /\ Seen(First(Matches[q], 0 + Len(After(q, 0))))
             \subseteq Seen(First(Matches[q], 0)) \cup Seen(After(q, 0))
    BY AfterFacts
  <2>3. Seen(First(Matches[q], 0)) = {}
    <3>1. /\ First(Matches[q], 0) \in Seq(Stations) /\ Len(Matches[q]) \in Nat
          /\ Len(First(Matches[q], 0)) = IF 0 < Len(Matches[q]) THEN 0 ELSE Len(Matches[q])
      BY FirstFacts, LenProperties
    <3> QED BY <3>1, LenProperties DEF Seen
  <2>4. 0 + Len(After(q, 0)) = Len(After(q, 0))
    BY <2>2
  <2> QED BY <2>1, <2>2, <2>3, <2>4
<1> QED BY <1>1, <1>2, <1>3 DEF Answers

LEMMA PreservedFacts ==
  ASSUME RowsInv, NEW l \in Seq(Stations), Distinct(l)
  PROVE  /\ Preserved(l) \in Seq(Stations) /\ Distinct(Preserved(l))
         /\ Seen(l) \subseteq Seen(Preserved(l))
<1> DEFINE playing == Named(played.id) \cup Streaming(saved)
<1>1. CASE Preserved(l) = l
  BY <1>1
<1>2. CASE /\ ~Listed(l) /\ Seen(list) \cap playing # {}
           /\ Preserved(l) = <<list[Position(list, playing)]>> \o l
  <2> DEFINE s == list[Position(list, playing)]
  <2> HIDE DEF playing
  <2>1. s \in Stations \cap playing
    BY <1>2, PositionFacts DEF RowsInv
  <2> HIDE DEF s
  <2>2. s \notin Seen(l)
    BY <1>2, <2>1 DEF playing, Streaming, Named, Listed, Streams, Ids
  <2>3. <<s>> \in Seq(Stations) /\ Seen(<<s>>) = {s} /\ Distinct(<<s>>)
    BY <2>1, OneSeen
  <2>4. /\ <<s>> \o l \in Seq(Stations) /\ Seen(<<s>> \o l) = {s} \cup Seen(l)
        /\ Distinct(<<s>> \o l)
    <3>1. Seen(<<s>>) \cap Seen(l) = {}
      BY <2>2, <2>3
    <3> DEFINE t == <<s>>
    <3>2. t \in Seq(Stations) /\ Distinct(t) /\ Seen(t) = {s} /\ Seen(t) \cap Seen(l) = {}
      BY <2>3, <3>1
    <3> HIDE DEF t
    <3>3. /\ t \o l \in Seq(Stations) /\ Seen(t \o l) = Seen(t) \cup Seen(l)
          /\ Distinct(t \o l)
      BY <3>2, SeenFacts
    <3> QED BY <3>2, <3>3 DEF t
  <2> QED BY <1>2, <2>4 DEF s
<1> QED BY <1>1, <1>2 DEF Preserved

LEMMA SelectionFacts ==
  ASSUME RowsInv, NEW l \in Seq(Stations) PROVE Selection(l) \in 0..Len(l)
<1>1. Len(l) \in Nat /\ selected \in Nat /\ DOMAIN l = 1..Len(l)
  BY LenProperties DEF RowsInv
<1>2. CASE played.id \in Ids(l)
  <2>1. Seen(l) \cap Named(played.id) # {}
    BY <1>2, SeenFacts DEF Ids, Named
  <2> QED BY <1>1, <1>2, <2>1, PositionFacts DEF Selection
<1>3. CASE played.id \notin Ids(l) /\ saved \in Streams(l)
  <2>1. Seen(l) \cap Streaming(saved) # {}
    BY <1>3, SeenFacts DEF Streams, Streaming
  <2> QED BY <1>1, <1>3, <2>1, PositionFacts DEF Selection
<1>4. CASE played.id \notin Ids(l) /\ saved \notin Streams(l)
  <2>1. Selection(l) = Clamped(l)
    BY <1>4 DEF Selection
  <2>2. l # <<>> => Len(l) # 0
    BY EmptySeq
  <2> QED BY <1>1, <2>1, <2>2 DEF Clamped
<1> QED BY <1>2, <1>3, <1>4

LEMMA PlayRows ==
  ASSUME RowsInv, NEW l \in Seq(Stations), Distinct(l), NEW i \in 0..Len(l), NEW url \in SavedUrls,
         Play(l, i, url)
  PROVE  RowsInv'
<1>1. i # 0 => l[i] \in Stations
  BY ElementOfSeq, LenProperties
<1> QED BY <1>1 DEF Play, RowsInv, SavedUrls

\* The rows that a page adds are new, and everything of it has a row or its stream has.
LEMMA FreshFacts ==
  ASSUME RowsInv, NEW l \in Seq(Stations), Distinct(l)
  PROVE  /\ list \o Fresh(l) \in Seq(Stations) /\ Distinct(list \o Fresh(l))
         /\ Seen(list) \subseteq Seen(list \o Fresh(l))
         /\ Len(list \o Fresh(l)) >= Len(list)
         /\ \A s \in Seen(l) : s.id \in Ids(list) \/ s.url \in Streams(list \o Fresh(l))
<1> DEFINE new  == {s \in Seen(l) : s.id \notin Ids(list) /\ s.url \notin Streams(list)}
           kept == {s \in new : l[Position(l, new \cap Streaming(s.url))] = s}
<1>1. Fresh(l) = Keep(l, kept)
  BY DEF Fresh, NewOnes
<1>0. new \subseteq Seen(l) /\ \A s \in Seen(l) : s \in new <=> s.id \notin Ids(list)
                                                               /\ s.url \notin Streams(list)
  OBVIOUS
<1> HIDE DEF new
<1>8. kept \subseteq new
  OBVIOUS
<1>9. \A s \in new : l[Position(l, new \cap Streaming(s.url))] = s => s \in kept
  OBVIOUS
<1> HIDE DEF kept
<1>2. Fresh(l) \in Seq(Stations) /\ Seen(Fresh(l)) = Seen(l) \cap kept /\ Distinct(Fresh(l))
  BY <1>1, KeepFacts
<1>3. list \in Seq(Stations) /\ Distinct(list) /\ Seen(l) \subseteq Stations
  BY SeenFacts DEF RowsInv
<1>4. Seen(list) \cap Seen(Fresh(l)) = {}
  BY <1>0, <1>2, <1>8 DEF Ids
<1>5. /\ list \o Fresh(l) \in Seq(Stations) /\ Distinct(list \o Fresh(l))
      /\ Seen(list \o Fresh(l)) = Seen(list) \cup Seen(Fresh(l))
  BY <1>2, <1>3, <1>4, SeenFacts
<1>6. Len(list \o Fresh(l)) >= Len(list)
  BY <1>2, <1>3, ConcatProperties, LenProperties
<1>7. ASSUME NEW s \in Seen(l), s.id \notin Ids(list) PROVE s.url \in Streams(list \o Fresh(l))
  <2>1. CASE s.url \in Streams(list)
    BY <1>5, <2>1 DEF Streams
  <2>2. CASE s.url \notin Streams(list)
    <3> DEFINE same == new \cap Streaming(s.url)
               i == Position(l, same)
    <3>1. s \in Seen(l) \cap same
      BY <1>0, <1>3, <1>7, <2>2 DEF Streaming
    <3>2. i \in 1..Len(l) /\ l[i] \in Stations \cap same
      <4> HIDE DEF same
      <4> QED BY <3>1, PositionFacts
    <3>3. l[i] \in new /\ l[i].url = s.url /\ l[i] \in Seen(l)
      BY <1>0, <3>2 DEF Streaming
    <3>4. l[i] \in kept
      BY <1>9, <3>3
    <3> HIDE DEF i
    <3> QED BY <1>2, <1>5, <3>3, <3>4 DEF Streams
  <2> QED BY <2>1, <2>2
<1> QED BY <1>5, <1>6, <1>7

\* What is left when a stream is removed.
LEMMA LeftFacts ==
  ASSUME NEW l \in Seq(Stations), NEW url
  PROVE  /\ Keep(l, Stations \ Streaming(url)) \in Seq(Stations)
         /\ Seen(Keep(l, Stations \ Streaming(url))) = {s \in Seen(l) : s.url # url}
         /\ Distinct(l) => Distinct(Keep(l, Stations \ Streaming(url)))
<1>1. Seen(l) \subseteq Stations
  BY SeenFacts
<1> QED BY <1>1, KeepFacts DEF Streaming

LEMMA FailedRows ==
  ASSUME RowsInv, PlansInv, PlaybackFails PROVE RowsInv'
<1> DEFINE url == IF selected = 0 THEN None ELSE list[selected].url
           left == Keep(list, Stations \ Streaming(url))
<1>1. left \in Seq(Stations) /\ Distinct(left)
  BY LeftFacts DEF RowsInv
<1> HIDE DEF left
<1>2. CASE fallback = <<>>
  <2>1. list' = left /\ selected' = 0 /\ UNCHANGED <<saved, played>>
    BY <1>2, Zenon DEF PlaybackFails, left
  <2>2. Len(left) \in Nat
    BY <1>1, LenProperties
  <2> QED BY <1>1, <2>1, <2>2 DEF RowsInv
<1>3. CASE fallback # <<>>
  <2> DEFINE s == Head(fallback)
             rest == Keep(left, Stations \ Streaming(s.url))
             l == <<s>> \o rest
  <2>1. list' = l /\ selected' = 1
        /\ \/ played' = l[1] /\ saved' = l[1].url
           \/ UNCHANGED <<saved, played>>
    BY <1>3, Zenon DEF PlaybackFails, left
  <2>2. s \in Stations
    BY <1>3, HeadTailProperties DEF PlansInv
  <2>3. rest \in Seq(Stations) /\ Distinct(rest) /\ s \notin Seen(rest)
    BY <1>1, LeftFacts
  <2> HIDE DEF rest
  <2>4. <<s>> \in Seq(Stations) /\ Distinct(<<s>>) /\ Seen(<<s>>) \cap Seen(rest) = {}
    BY <2>2, <2>3, OneSeen
  <2> DEFINE t == <<s>>
  <2>5. t \in Seq(Stations) /\ Distinct(t) /\ Seen(t) \cap Seen(rest) = {} /\ Len(t) = 1
    BY <2>4
  <2> HIDE DEF t
  <2>6. t \o rest \in Seq(Stations) /\ Distinct(t \o rest) /\ Len(t \o rest) >= 1
    BY <2>3, <2>5, SeenFacts, ConcatProperties, LenProperties
  <2>7. l = t \o rest
    BY DEF t
  <2> HIDE DEF l
  <2>8. l[1] \in Stations /\ 1 \in 0..Len(l)
    BY <2>6, <2>7, ElementOfSeq, LenProperties
  <2> QED BY <2>1, <2>6, <2>7, <2>8 DEF RowsInv, SavedUrls
<1> QED BY <1>2, <1>3

LEMMA ControlRows ==
  ASSUME RowsInv, PlansInv, Control PROVE RowsInv'
<1>0. /\ list \in Seq(Stations) /\ Distinct(list) /\ saved \in SavedUrls
      /\ Len(list) \in Nat /\ DOMAIN list = 1..Len(list)
  BY LenProperties DEF RowsInv
<1>1. CASE UNCHANGED <<rowVars, played>>
  BY <1>1 DEF RowsInv, rowVars
<1>2. ASSUME NEW i \in DOMAIN list, Play(list, i, saved) PROVE RowsInv'
  <2>1. i \in 0..Len(list)
    BY <1>0
  <2> QED BY <1>0, <1>2, <2>1, PlayRows
<1>3. ASSUME lastPlayed # NoStation, lastPlayed.url \notin Streams(list),
             Play(<<lastPlayed>> \o list, 1, saved)
      PROVE  RowsInv'
  <2> DEFINE t == <<lastPlayed>>
  <2>1. t \in Seq(Stations) /\ Distinct(t) /\ Seen(t) \cap Seen(list) = {} /\ Len(t) = 1
    BY <1>3, OneSeen DEF PlansInv, Streams
  <2>2. Play(t \o list, 1, saved)
    BY <1>3
  <2> HIDE DEF t
  <2>3. t \o list \in Seq(Stations) /\ Distinct(t \o list) /\ 1 \in 0..Len(t \o list)
    BY <1>0, <2>1, SeenFacts, ConcatProperties
  <2> QED BY <1>0, <2>2, <2>3, PlayRows
<1>4. ASSUME NEW s \in Seen(list), Play(list, Position(list, Named(s.id)), saved)
      PROVE  RowsInv'
  <2>1. Seen(list) \cap Named(s.id) # {}
    BY <1>0, SeenFacts DEF Named
  <2>2. Position(list, Named(s.id)) \in DOMAIN list
    BY <1>0, <2>1, PositionFacts
  <2> QED BY <1>2, <1>4, <2>2
<1>5. ASSUME lastPlayed.url \in Streams(list),
             Play(list, Position(list, Streaming(lastPlayed.url)), saved)
      PROVE  RowsInv'
  <2>1. Seen(list) \cap Streaming(lastPlayed.url) # {}
    BY <1>0, <1>5, SeenFacts DEF Streams, Streaming
  <2>2. Position(list, Streaming(lastPlayed.url)) \in DOMAIN list
    BY <1>0, <2>1, PositionFacts
  <2> QED BY <1>2, <1>5, <2>2
<1>6. CASE PlayLast
  BY <1>1, <1>3, <1>4, <1>5, <1>6, Zenon DEF PlayLast
<1> QED BY <1>1, <1>2, <1>6, Zenon DEF Control

\* A delivered station takes the place of the row of its identifier, or a new one.
LEMMA DeliveredRows ==
  ASSUME RowsInv, RemotePlay PROVE RowsInv'
<1>0. /\ list \in Seq(Stations) /\ Distinct(list) /\ saved \in SavedUrls
      /\ Len(list) \in Nat /\ DOMAIN list = 1..Len(list) /\ selected \in 0..Len(list)
  BY LenProperties DEF RowsInv
<1>1. ASSUME NEW i \in 0..Len(list), Play(list, i, saved) PROVE RowsInv'
  BY <1>0, <1>1, PlayRows
<1>2. ASSUME NEW s \in Delivered, PlayDelivered(s) PROVE RowsInv'
  <2> DEFINE i == IF s.id \in Ids(list) THEN Position(list, Named(s.id)) ELSE Len(list) + 1
             l == IF i \in DOMAIN list THEN [list EXCEPT ![i] = s] ELSE Append(list, s)
  <2>0. Play(l, i, saved)
    BY <1>2, Zenon DEF PlayDelivered
  <2>1. s \in Stations
    BY StationListAssumption
  <2>2. CASE s.id \in Ids(list)
    <3>1. Seen(list) \cap Named(s.id) # {}
      BY <1>0, <2>2, SeenFacts DEF Ids, Named
    <3>2. i \in 1..Len(list) /\ list[i] \in Stations /\ list[i].id = s.id
      BY <1>0, <2>2, <3>1, PositionFacts DEF Named
    <3> HIDE DEF i
    <3>3. l = [list EXCEPT ![i] = s]
      BY <1>0, <3>2
    <3> HIDE DEF l
    <3>4. l \in Seq(Stations) /\ Len(l) = Len(list) /\ DOMAIN l = 1..Len(list)
      BY <1>0, <2>1, <3>2, <3>3, ExceptSeq
    <3>5. Steady(s) => list[i] = s
      BY <3>2 DEF Steady, Named
    <3>6. ASSUME NEW j \in 1..Len(list), NEW k \in 1..Len(list), l[j] = l[k], Steady(l[j])
          PROVE  j = k
      <4>1. /\ l[j] = IF j = i THEN s ELSE list[j]
            /\ l[k] = IF k = i THEN s ELSE list[k]
        BY <1>0, <3>3
      <4>2. list[j] = list[k] /\ Steady(list[j])
        BY <3>5, <3>6, <4>1
      <4> QED BY <1>0, <4>2 DEF Distinct
    <3>7. Distinct(l)
      BY <3>4, <3>6 DEF Distinct
    <3>8. i \in 0..Len(l)
      BY <1>0, <3>2, <3>4
    <3> QED BY <1>0, <2>0, <3>4, <3>7, <3>8, PlayRows
  <2>3. CASE s.id \notin Ids(list)
    <3> DEFINE t == <<s>>
    <3>1. t \in Seq(Stations) /\ Distinct(t) /\ Seen(t) = {s} /\ Len(t) = 1
      BY <2>1, OneSeen
    <3>0. i = Len(list) + 1 /\ Len(list) + 1 \notin 1..Len(list)
      BY <1>0, <2>3
    <3>2. i = Len(list) + 1 /\ l = Append(list, s)
      <4>1. i \notin DOMAIN list
        BY <1>0, <3>0
      <4> HIDE DEF i
      <4> QED BY <3>0, <4>1
    <3>3. Append(list, s) = list \o t
      BY <1>0, <2>1, AppendIsConcat
    <3>4. Seen(list) \cap Seen(t) = {}
      BY <2>3, <3>1 DEF Ids
    <3> HIDE DEF t, i, l
    <3>5. l \in Seq(Stations) /\ Distinct(l) /\ Len(l) = Len(list) + 1
      BY <1>0, <3>1, <3>2, <3>3, <3>4, SeenFacts, ConcatProperties
    <3>6. i \in 0..Len(l)
      BY <1>0, <3>2, <3>5
    <3> QED BY <1>0, <2>0, <3>5, <3>6, PlayRows
  <2> QED BY <2>2, <2>3
<1> QED BY <1>0, <1>1, <1>2 DEF RemotePlay

LEMMA LookupFinds ==
  ASSUME ProfileInv, NEW job \in lookups PROVE Found(job.station) \subseteq Stations
<1>1. job.station \in Names
  BY DEF ProfileInv
<1> QED BY <1>1, StationListAssumption DEF Found, Names, Named

LEMMA ResolvedRows ==
  ASSUME RowsInv, ProfileInv, StationResolved PROVE RowsInv'
<1>0. /\ list \in Seq(Stations) /\ Distinct(list) /\ Len(list) \in Nat
  BY LenProperties DEF RowsInv
<1>1. CASE UNCHANGED <<rowVars, played>>
  BY <1>1 DEF RowsInv, rowVars
<1>2. ASSUME NEW s \in Stations, NEW l, l = IF s.id \in Ids(list) THEN list ELSE Append(list, s)
      PROVE  /\ l \in Seq(Stations) /\ Distinct(l) /\ Len(l) >= Len(list)
             /\ Position(l, Named(s.id)) \in 1..Len(l)
             /\ l[Position(l, Named(s.id))] \in Stations
  <2>1. l \in Seq(Stations) /\ Distinct(l) /\ s.id \in Ids(l) /\ Len(l) >= Len(list)
    <3>1. CASE s.id \in Ids(list)
      BY <1>0, <1>2, <3>1
    <3>2. CASE s.id \notin Ids(list)
      <4> DEFINE t == <<s>>
      <4>1. t \in Seq(Stations) /\ Distinct(t) /\ Seen(t) = {s} /\ Len(t) = 1
        BY OneSeen
      <4>2. l = list \o t
        BY <1>0, <1>2, <3>2, AppendIsConcat
      <4>3. Seen(list) \cap Seen(t) = {}
        BY <3>2, <4>1 DEF Ids
      <4> HIDE DEF t
      <4>4. Seen(l) = Seen(list) \cup Seen(t)
        BY <1>0, <4>1, <4>2, SeenFacts
      <4>5. s.id \in Ids(l)
        BY <4>1, <4>4 DEF Ids
      <4> QED BY <1>0, <4>1, <4>2, <4>3, <4>5, SeenFacts, ConcatProperties
    <3> QED BY <3>1, <3>2
  <2>2. Seen(l) \cap Named(s.id) # {}
    BY <2>1, SeenFacts DEF Ids, Named
  <2> QED BY <2>1, <2>2, PositionFacts
<1>3. ASSUME NEW job \in lookups, NEW s \in Found(job.station), NEW l,
             l = (IF s.id \in Ids(list) THEN list ELSE Append(list, s)),
             \/ Play(l, Position(l, Named(s.id)), l[Position(l, Named(s.id))].url)
             \/ list' = l /\ UNCHANGED <<selected, saved, player, played>>
      PROVE  RowsInv'
  <2> DEFINE i == Position(l, Named(s.id))
  <2>1. s \in Stations
    BY <1>3, LookupFinds
  <2>2. l \in Seq(Stations) /\ Distinct(l) /\ Len(l) >= Len(list) /\ Len(l) \in Nat
        /\ i \in 1..Len(l) /\ l[i] \in Stations
    BY <1>2, <1>3, <2>1, LenProperties
  <2>3. CASE Play(l, i, l[i].url)
    <3> HIDE DEF i
    <3>1. i \in 0..Len(l)
      BY <2>2
    <3>2. l[i].url \in SavedUrls
      BY <2>2 DEF SavedUrls
    <3> QED BY <2>2, <2>3, <3>1, <3>2, PlayRows
  <2>4. CASE list' = l /\ UNCHANGED <<selected, saved, player, played>>
    BY <1>0, <2>2, <2>4 DEF RowsInv
  <2> QED BY <1>3, <2>3, <2>4
<1> QED BY <1>1, <1>3, Zenon DEF StationResolved

LEMMA RowsStep ==
  ASSUME RowsInv, PlansInv, ProfileInv, SearchInv, PageInv, [ListNext]_stationVars
  PROVE  RowsInv'
<1>0. /\ list \in Seq(Stations) /\ Distinct(list) /\ Len(list) \in Nat /\ DOMAIN list = 1..Len(list)
      /\ saved \in SavedUrls
  BY LenProperties DEF RowsInv
<1>1. CASE UNCHANGED <<rowVars, played>>
  BY <1>1 DEF RowsInv, rowVars
<1>2. CASE StationsLoaded
  <2>1. PICK job \in searches : \E a \in Answers(job.query) :
          /\ Current(job.id) => LET l == Preserved(a.list) IN list' = l /\ selected' = Selection(l)
          /\ ~Current(job.id) => UNCHANGED <<list, selected>>
          /\ UNCHANGED <<saved, played>>
    BY <1>2, Zenon DEF StationsLoaded, playVars
  <2>0. PICK a \in Answers(job.query) :
          /\ Current(job.id) => LET l == Preserved(a.list) IN list' = l /\ selected' = Selection(l)
          /\ ~Current(job.id) => UNCHANGED <<list, selected>>
          /\ UNCHANGED <<saved, played>>
    BY <2>1, Zenon
  <2>2. job.query \in AllQueries
    BY DEF SearchInv
  <2>3. a.list \in Seq(Stations) /\ Distinct(a.list)
    BY <2>2, AnswersFacts
  <2>4. Preserved(a.list) \in Seq(Stations) /\ Distinct(Preserved(a.list))
    BY <2>3, PreservedFacts
  <2>5. Selection(Preserved(a.list)) \in 0..Len(Preserved(a.list))
    BY <2>4, SelectionFacts
  <2> QED BY <2>0, <2>4, <2>5 DEF RowsInv
<1>3. CASE MoreStationsLoaded
  <2>1. PICK job \in pages :
          LET p == IF job.query = Home THEN CatalogPage(job.cursor)
                   ELSE SearchPage(job.query, job.offset)
          IN  (list' = list \/ list' = list \o Fresh(p.list)) /\ UNCHANGED <<selected, saved, played>>
    BY <1>3 DEF MoreStationsLoaded, playVars
  <2> DEFINE n == IF job.query = Home THEN job.cursor ELSE job.offset
             l == After(job.query, n)
  <2>2. job.query \in AllQueries /\ n \in Nat
    BY DEF PageInv
  <2>3. l \in Seq(Stations) /\ Distinct(l)
    BY <2>2, AfterFacts
  <2>4. list' = list \/ list' = list \o Fresh(l)
    BY <2>1 DEF CatalogPage, SearchPage
  <2>6. UNCHANGED <<selected, saved, played>>
    BY <2>1
  <2> HIDE DEF l
  <2>5. /\ list \o Fresh(l) \in Seq(Stations) /\ Distinct(list \o Fresh(l))
        /\ Len(list \o Fresh(l)) >= Len(list) /\ Len(list \o Fresh(l)) \in Nat
    BY <2>3, FreshFacts, LenProperties
  <2> DEFINE longer == list \o Fresh(l)
  <2>7. longer \in Seq(Stations) /\ Distinct(longer) /\ Len(longer) >= Len(list) /\ Len(longer) \in Nat
    BY <2>5
  <2>8. list' = list \/ list' = longer
    BY <2>4
  <2> HIDE DEF longer
  <2>9. list' \in Seq(Stations) /\ Distinct(list') /\ Len(list') \in Nat /\ Len(list') >= Len(list)
    BY <1>0, <2>7, <2>8
  <2>10. selected' \in 0..Len(list')
    BY <1>0, <2>6, <2>9 DEF RowsInv
  <2> QED BY <2>6, <2>9, <2>10 DEF RowsInv
<1>4. CASE Select
  <2>1. PICK i \in DOMAIN list :
          \/ selected' = i /\ saved' = list[i].url /\ UNCHANGED <<list, player, played>>
          \/ Play(list, i, list[i].url)
    BY <1>4 DEF Select
  <2>2. list[i] \in Stations /\ i \in 0..Len(list)
    BY <1>0, ElementOfSeq
  <2>3. list[i].url \in SavedUrls
    BY <2>2 DEF SavedUrls
  <2> QED BY <1>0, <2>1, <2>2, <2>3, PlayRows DEF RowsInv
<1>5. CASE PlaybackFails
  BY <1>5, FailedRows
<1>6. CASE DeviceFound
  <2>1. selected # 0 => list[selected] \in Stations
    BY <1>0, ElementOfSeq DEF RowsInv
  <2> QED BY <1>6, <2>1 DEF DeviceFound, RowsInv, SavedUrls
<1>7. CASE VoiceSaysNoStation
  BY <1>1, <1>7, ControlRows DEF VoiceSaysNoStation
<1>8. CASE VoiceFindsStations
  <2>1. /\ Spoken \in Seq(Stations) /\ Distinct(Spoken) /\ 1 \in 0..Len(Spoken)
    BY StationListAssumption, OnceIsDistinct, EmptySeq, LenProperties
  <2>2. \/ Play(Spoken, 1, saved)
        \/ list' = Spoken /\ selected' = 1 /\ UNCHANGED <<saved, player, played>>
    BY <1>8 DEF VoiceFindsStations
  <2> QED BY <1>0, <2>1, <2>2, PlayRows DEF RowsInv
<1>9. CASE StationResolved
  BY <1>9, ResolvedRows
<1>11. CASE RemotePlay
  BY <1>11, DeliveredRows
<1>10. CASE Search \/ LoadMore \/ MoreStationsFailed \/ Stop \/ PlaybackSettles \/ StartVoice
              \/ CancelVoice \/ BeginResolve \/ UNCHANGED stationVars
  <2>1. UNCHANGED <<rowVars, played>>
    BY <1>10 DEF Search, LoadMore, MoreStationsFailed, Stop, PlaybackSettles, StartVoice,
                 CancelVoice, BeginResolve, stationVars, playVars
  <2> QED BY <1>1, <2>1
<1> QED
  BY <1>2, <1>3, <1>4, <1>5, <1>6, <1>7, <1>8, <1>9, <1>10, <1>11 DEF ListNext

LEMMA MoreIsFlag ==
  /\ \A q \in AllQueries : \A a \in Answers(q) : a.more \in BOOLEAN
  /\ \A q, n : SearchPage(q, n).more \in BOOLEAN /\ CatalogPage(n).more \in BOOLEAN
<1>1. ASSUME NEW q, NEW n PROVE SearchPage(q, n).more \in BOOLEAN
  BY DEF SearchPage
<1>2. ASSUME NEW n PROVE CatalogPage(n).more \in BOOLEAN
  BY DEF CatalogPage
<1>3. ASSUME NEW q \in AllQueries, NEW a \in Answers(q) PROVE a.more \in BOOLEAN
  <2>1. \/ a.more = TRUE \/ a.more = FALSE \/ a.more = SearchPage(q, 0).more
    BY DEF Answers
  <2> QED BY <1>1, <2>1
<1> QED BY <1>1, <1>2, <1>3

LEMMA FlagsStep ==
  ASSUME ListFlags, SearchInv, [ListNext]_stationVars
  PROVE  ListFlags'
<1> USE DEF ListFlags, searchVars, pageVars, voiceVars, planVars
<1>1. CASE Search
  BY <1>1 DEF Search, SearchStations
<1>2. CASE LoadMore
  BY <1>2 DEF LoadMore
<1>3. CASE MoreStationsFailed
  BY <1>3 DEF MoreStationsFailed
<1>4. CASE Select \/ Stop \/ PlaybackSettles \/ RemotePlay
  BY <1>4 DEF Select, Stop, PlaybackSettles, StopPlayback, RemotePlay
<1>5. CASE PlaybackFails \/ DeviceFound
  BY <1>5 DEF PlaybackFails, DeviceFound
<1>6. CASE StartVoice \/ CancelVoice
  BY <1>6 DEF StartVoice, CancelVoice, StopLoading, StopPlayback
<1>7. CASE VoiceSaysNoStation
  BY <1>7 DEF VoiceSaysNoStation, Answered, Control, PlayLast, StopPlayback
<1>8. CASE VoiceFindsStations
  BY <1>8 DEF VoiceFindsStations, Answered, SearchStations
<1>9. CASE BeginResolve \/ StationResolved
  BY <1>9 DEF BeginResolve, StationResolved
<1>10. CASE UNCHANGED stationVars
  BY <1>10 DEF stationVars
<1>11. CASE MoreStationsLoaded
  BY <1>11, MoreIsFlag DEF MoreStationsLoaded
<1>12. CASE StationsLoaded
  <2>1. \A job \in searches : job.query \in AllQueries
    BY DEF SearchInv
  <2> QED BY <1>12, <2>1, MoreIsFlag DEF StationsLoaded
<1> QED
  BY <1>1, <1>2, <1>3, <1>4, <1>5, <1>6, <1>7, <1>8, <1>9, <1>10, <1>11, <1>12 DEF ListNext

LEMMA CountsStep ==
  ASSUME ListCounts, [ListNext]_stationVars PROVE ListCounts'
<1> DEFINE Acts == actions' = actions \/ (actions < MaxActions /\ actions' = actions + 1)
           Hears == \/ listening' \in {listening, listening + 1}
                    \/ listening > 0 /\ listening' = listening - 1
<1> USE DEF Act, voiceVars
<1> SUFFICES Acts /\ Hears
  BY StationListAssumption DEF ListCounts
<1>1. CASE UNCHANGED stationVars
  BY <1>1, Zenon DEF stationVars
<1>2. CASE Search \/ StationsLoaded \/ LoadMore \/ MoreStationsLoaded \/ MoreStationsFailed
  BY <1>2, Zenon DEF Search, StationsLoaded, LoadMore, MoreStationsLoaded, MoreStationsFailed
<1>3. CASE Select \/ Stop \/ RemotePlay \/ PlaybackSettles \/ PlaybackFails \/ DeviceFound
  BY <1>3, Zenon DEF Select, Stop, RemotePlay, PlaybackSettles, PlaybackFails, DeviceFound
<1>4. CASE StartVoice \/ CancelVoice
  BY <1>4, Zenon DEF StartVoice, CancelVoice
<1>5. CASE VoiceSaysNoStation \/ VoiceFindsStations
  BY <1>5, Zenon DEF VoiceSaysNoStation, VoiceFindsStations, Answered
<1>6. CASE BeginResolve \/ StationResolved
  BY <1>6, Zenon DEF BeginResolve, StationResolved
<1> QED BY <1>1, <1>2, <1>3, <1>4, <1>5, <1>6, Zenon DEF ListNext

LEMMA PlansStep ==
  ASSUME RowsInv, PlansInv, [ListNext]_stationVars PROVE PlansInv'
<1> USE DEF PlansInv, planVars, playVars, Play, StopPlayback
<1>0. /\ <<>> \in Seq(Stations) /\ Tail(Spoken) \in Seq(Stations)
      /\ fallback # <<>> => Tail(fallback) \in Seq(Stations)
  BY HeadTailProperties, EmptySeq, StationListAssumption
<1>1. CASE Search \/ StationsLoaded \/ LoadMore \/ MoreStationsLoaded \/ MoreStationsFailed
             \/ CancelVoice \/ BeginResolve
  <2>1. UNCHANGED <<player, lastPlayed, fallback>>
    BY <1>1 DEF Search, StationsLoaded, LoadMore, MoreStationsLoaded, MoreStationsFailed,
                CancelVoice, BeginResolve
  <2> QED BY <2>1
<1>2. CASE Select \/ Stop \/ RemotePlay \/ DeviceFound \/ StationResolved
  <2>1. CASE Select \/ Stop \/ DeviceFound \/ StationResolved
    <3>1. player' \in {player, "starting", "stopping"} /\ fallback' \in {fallback, <<>>}
          /\ lastPlayed' = lastPlayed
      BY <2>1, Zenon DEF Select, Stop, DeviceFound, StationResolved
    <3> QED BY <1>0, <3>1
  <2>2. CASE RemotePlay
    <3>1. player' \in {player, "starting"} /\ fallback' \in {fallback, <<>>}
          /\ lastPlayed' = lastPlayed
      BY <2>2, Zenon DEF RemotePlay, PlayDelivered
    <3> QED BY <1>0, <3>1
  <2> QED BY <1>2, <2>1, <2>2
<1>3. CASE PlaybackSettles
  <2>1. played.url \in Streams(list) =>
          list[Position(list, Streaming(played.url))] \in Stations
    <3>1. list \in Seq(Stations) /\ Seen(list) \subseteq Stations
      BY SeenFacts DEF RowsInv
    <3>2. played.url \in Streams(list) => Seen(list) \cap Streaming(played.url) # {}
      BY <3>1 DEF Streams, Streaming
    <3> QED BY <3>1, <3>2, PositionFacts
  <2> QED BY <1>3, <2>1 DEF PlaybackSettles
<1>4. CASE PlaybackFails
  <2>1. fallback' = fallback \/ (fallback # <<>> /\ fallback' = Tail(fallback))
    BY <1>4 DEF PlaybackFails
  <2>2. player' \in {"idle", "starting"} /\ lastPlayed' = lastPlayed
    BY <1>4 DEF PlaybackFails
  <2> QED BY <1>0, <2>1, <2>2
<1>5. CASE StartVoice
  <2>1. fallback' \in {fallback, <<>>} /\ lastPlayed' = lastPlayed
        /\ player' \in {player, "stopping"}
    BY <1>5 DEF StartVoice
  <2> QED BY <1>0, <2>1
<1>6. CASE VoiceSaysNoStation
  <2>1. fallback' \in {fallback, <<>>} /\ lastPlayed' = lastPlayed
    BY <1>6, Zenon DEF VoiceSaysNoStation, Control, PlayLast
  <2>2. player' \in {player, "starting", "stopping"}
    BY <1>6, Zenon DEF VoiceSaysNoStation, Control, PlayLast
  <2> QED BY <1>0, <2>1, <2>2
<1>7. CASE VoiceFindsStations
  <2>1. fallback' \in {Tail(Spoken), <<>>} /\ lastPlayed' = lastPlayed
    BY <1>7, Zenon DEF VoiceFindsStations
  <2>2. player' \in {player, "starting"}
    BY <1>7, Zenon DEF VoiceFindsStations
  <2> QED BY <1>0, <2>1, <2>2
<1>8. CASE UNCHANGED stationVars
  BY <1>8 DEF stationVars
<1> QED BY <1>1, <1>2, <1>3, <1>4, <1>5, <1>6, <1>7, <1>8 DEF ListNext

LEMMA ProfileStep ==
  ASSUME RowsInv, ProfileInv, [ListNext]_stationVars PROVE ProfileInv'
<1> USE StationListAssumption
<1>1. CASE UNCHANGED profileVars
  BY <1>1 DEF ProfileInv, profileVars
<1>2. CASE BeginResolve
  <2>1. PICK s \in favourites \ (Ids(list) \cup resolving), auto \in BOOLEAN :
          /\ \/ /\ resolving' = resolving \cup {s}
                /\ lookups' = lookups \cup {[station |-> s, autoPlay |-> auto]}
             \/ UNCHANGED <<resolving, lookups>>
          /\ UNCHANGED <<favourites, failed>>
    BY <1>2 DEF BeginResolve
  <2> DEFINE new == [station |-> s, autoPlay |-> auto]
  <2>2. new \in [station : Names, autoPlay : BOOLEAN] /\ new.station = s
    BY DEF ProfileInv
  <2>3. \A job \in lookups : job.station # s
    BY DEF ProfileInv
  <2> HIDE DEF new
  <2>4. CASE resolving' = resolving \cup {s} /\ lookups' = lookups \cup {new}
    BY <2>1, <2>2, <2>3, <2>4 DEF ProfileInv
  <2>5. CASE UNCHANGED <<resolving, lookups>>
    BY <2>1, <2>5 DEF ProfileInv
  <2> QED BY <2>1, <2>4, <2>5 DEF new
<1>3. CASE StationResolved
  <2>1. PICK job \in lookups :
          /\ lookups' = lookups \ {job} /\ resolving' = resolving \ {job.station}
          /\ \/ failed' = failed \cup {job.station} /\ favourites' = favourites
             \/ /\ failed' = failed
                /\ \E s \in Found(job.station) :
                      \/ favourites' = Toggle(favourites \ {job.station}, s.id)
                      \/ favourites' = favourites
    BY <1>3, Zenon DEF StationResolved
  <2>2. job.station \in Names /\ \A s \in Found(job.station) : s.id \in Names
    BY LookupFinds DEF ProfileInv, Names
  <2>3. favourites' \subseteq Names /\ failed' \subseteq Names
    BY <2>1, <2>2 DEF ProfileInv, Toggle
  <2>4. resolving' = {j.station : j \in lookups'}
    BY <2>1 DEF ProfileInv
  <2> QED BY <2>1, <2>3, <2>4 DEF ProfileInv
<1>4. CASE ~BeginResolve /\ ~StationResolved
  <2>1. UNCHANGED profileVars
    BY <1>4 DEF ListNext, stationVars, Search, StationsLoaded, LoadMore, MoreStationsLoaded,
                MoreStationsFailed, Select, Stop, RemotePlay, PlaybackSettles, PlaybackFails,
                DeviceFound, StartVoice, CancelVoice, VoiceSaysNoStation, VoiceFindsStations
  <2> QED BY <1>1, <2>1
<1> QED BY <1>2, <1>3, <1>4

\* A new request makes every answer to an older one stale.
LEMMA NewRequest ==
  ASSUME SearchInv, request' = request + 1, query' \in AllQueries,
         \/ searches' = searches
         \/ searches' = searches \cup {[id |-> request + 1, query |-> query']} /\ loading' = TRUE
  PROVE  SearchInv'
<1>1. request \in Nat /\ searches \subseteq [id : 1..request, query : AllQueries]
  BY DEF SearchInv
<1>2. 1..request \subseteq 1..request' /\ request + 1 \in 1..request' /\ request + 1 \notin 1..request
      /\ request' \in Nat
  BY <1>1
<1>3. \A job \in searches : job \in [id : 1..request', query : AllQueries] /\ job.id # request'
  BY <1>1, <1>2
<1> DEFINE new == [id |-> request + 1, query |-> query']
<1>4. new \in [id : 1..request', query : AllQueries] /\ new.query = query'
  BY <1>2
<1>5. searches' \subseteq searches \cup {new}
  OBVIOUS
<1>6. \A job \in searches' : job \in searches \/ (job = new /\ loading' = TRUE)
  OBVIOUS
<1> HIDE DEF new
<1> QED BY <1>2, <1>3, <1>4, <1>5, <1>6 DEF SearchInv

LEMMA SearchStep ==
  ASSUME SearchInv, [ListNext]_stationVars PROVE SearchInv'
<1>1. CASE UNCHANGED searchVars
  BY <1>1 DEF SearchInv, searchVars
<1>2. ASSUME NEW q \in AllQueries, SearchStations(q) PROVE SearchInv'
  BY <1>2, NewRequest DEF SearchStations
<1>3. CASE Search
  BY <1>2, <1>3 DEF Search, AllQueries
<1>4. CASE StationsLoaded
  <2>1. PICK job \in searches :
          /\ searches' = searches \ {job} /\ UNCHANGED <<request, query>>
          /\ job.id = request \/ loading' = loading
    BY <1>4, Zenon DEF StationsLoaded, Current
  <2>2. CASE loading' = loading
    BY <2>1, <2>2 DEF SearchInv
  <2>3. CASE job.id = request
    <3>1. \A k \in searches : k.id = request => k = job
      BY <2>3 DEF SearchInv
    <3> QED BY <2>1, <2>3, <3>1 DEF SearchInv
  <2> QED BY <2>1, <2>2, <2>3
<1>5. CASE StartVoice
  <2>1. request' = request + 1 /\ query' = query /\ searches' = searches
    BY <1>5 DEF StartVoice
  <2> QED BY <2>1, NewRequest DEF SearchInv
<1>6. CASE VoiceFindsStations
  <2>1. CASE request' = request + 1 /\ UNCHANGED <<query, searches>>
    BY <2>1, NewRequest DEF SearchInv
  <2>2. CASE \E q \in Queries : SearchStations(q)
    BY <1>2, <2>2 DEF AllQueries
  <2> QED BY <1>6, <2>1, <2>2 DEF VoiceFindsStations
<1>7. CASE ~Search /\ ~StationsLoaded /\ ~StartVoice /\ ~VoiceFindsStations
  <2>1. UNCHANGED searchVars
    BY <1>7 DEF ListNext, stationVars, LoadMore, MoreStationsLoaded, MoreStationsFailed, Select,
                Stop, RemotePlay, PlaybackSettles, PlaybackFails, DeviceFound, CancelVoice,
                VoiceSaysNoStation, BeginResolve, StationResolved
  <2> QED BY <1>1, <2>1
<1> QED BY <1>3, <1>4, <1>5, <1>6, <1>7

LEMMA NewPages ==
  ASSUME SearchInv, PageInv, request' = request + 1, pages' = pages, offset' \in Nat, cursor' \in Nat
  PROVE  PageInv'
<1>1. /\ request \in Nat
      /\ pages \subseteq [id : 0..request, query : AllQueries, offset : Nat, cursor : Nat]
  BY DEF SearchInv, PageInv
<1>2. 0..request \subseteq 0..request' /\ request' \notin 0..request
  BY <1>1
<1>3. \A job \in pages : /\ job \in [id : 0..request', query : AllQueries, offset : Nat, cursor : Nat]
                         /\ job.id # request'
  BY <1>1, <1>2
<1> QED BY <1>3 DEF PageInv

LEMMA PageStep ==
  ASSUME RowsInv, SearchInv, PageInv, [ListNext]_stationVars PROVE PageInv'
<1>1. CASE UNCHANGED <<searchVars, pageVars, pages>>
  BY <1>1 DEF PageInv, searchVars, pageVars
<1>2. ASSUME NEW q, SearchStations(q), pages' = pages PROVE PageInv'
  BY <1>2, NewPages DEF SearchStations
<1>3. CASE Search
  BY <1>2, <1>3 DEF Search
<1>4. CASE StationsLoaded
  <2>1. PICK job \in searches : \E a \in Answers(job.query) :
          /\ IF job.id = request
             THEN offset' = Len(a.list) /\ cursor' = 0
             ELSE UNCHANGED <<loading, pageVars>>
          /\ UNCHANGED <<request, query, pages>>
    BY <1>4, Zenon DEF StationsLoaded, Current, AfterFirst
  <2>2. job.query \in AllQueries
    BY DEF SearchInv
  <2>3. CASE job.id = request
    <3>1. \A k \in pages : k.id # request
      BY <2>3 DEF SearchInv, PageInv
    <3>2. offset' \in Nat /\ cursor' \in Nat
      BY <2>1, <2>2, <2>3, AnswersFacts, LenProperties
    <3> QED BY <2>1, <3>1, <3>2 DEF PageInv
  <2>4. CASE job.id # request
    <3>1. UNCHANGED <<loading, pageVars>> /\ UNCHANGED <<request, query, pages>>
      BY <2>1, <2>4
    <3> QED BY <3>1 DEF PageInv, pageVars
  <2> QED BY <2>3, <2>4
<1>5. CASE LoadMore
  <2> DEFINE new == [id |-> request, query |-> query, offset |-> offset, cursor |-> cursor]
  <2>1. /\ ~loading /\ ~loadingMore /\ hasMore
        /\ UNCHANGED <<searchVars, hasMore, offset, cursor>>
        /\ \/ loadingMore' = TRUE /\ pages' = pages \cup {new}
           \/ UNCHANGED <<loadingMore, pages>>
    BY <1>5 DEF LoadMore
  <2>2. new \in [id : 0..request, query : AllQueries, offset : Nat, cursor : Nat]
    BY DEF SearchInv, PageInv
  <2>3. new.query = query /\ new.offset = offset /\ new.cursor = cursor
    OBVIOUS
  <2>4. \A k \in pages : k.id # request
    BY <2>1 DEF PageInv
  <2>5. UNCHANGED <<request, query, loading>>
    BY <2>1 DEF searchVars
  <2> HIDE DEF new
  <2> QED BY <2>1, <2>2, <2>3, <2>4, <2>5 DEF PageInv
<1>6. CASE MoreStationsLoaded \/ MoreStationsFailed
  <2>1. PICK job \in pages :
          /\ pages' = pages \ {job} /\ UNCHANGED searchVars
          /\ job.id # request => UNCHANGED <<loadingMore, hasMore, offset, cursor>>
    BY <1>6, Zenon DEF MoreStationsLoaded, MoreStationsFailed, Current, pageVars
  <2>2. offset' \in Nat /\ cursor' \in Nat
    <3>1. CASE MoreStationsFailed
      BY <3>1 DEF MoreStationsFailed, PageInv
    <3>2. CASE MoreStationsLoaded
      <4>1. PICK k \in pages :
              LET p == IF k.query = Home THEN CatalogPage(k.cursor)
                       ELSE SearchPage(k.query, k.offset)
              IN  \/ offset' = p.offset /\ cursor' = p.cursor
                  \/ UNCHANGED <<offset, cursor>>
        BY <3>2, Zenon DEF MoreStationsLoaded, pageVars
      <4>2. k.query \in AllQueries /\ k.cursor \in Nat /\ k.offset \in Nat
        BY DEF PageInv
      <4>3. CASE k.query = Home
        <5>1. Len(After(Home, k.cursor)) \in Nat
          BY <4>2, AfterFacts DEF AllQueries
        <5> QED BY <4>1, <4>2, <4>3, <5>1 DEF CatalogPage, PageInv
      <4>4. CASE k.query # Home
        <5>1. Len(After(k.query, k.offset)) \in Nat
          BY <4>2, AfterFacts
        <5> QED BY <4>1, <4>2, <4>4, <5>1 DEF SearchPage, PageInv
      <4> QED BY <4>3, <4>4
    <3> QED BY <1>6, <3>1, <3>2
  <2>3. UNCHANGED <<request, query, loading>>
    BY <2>1 DEF searchVars
  <2>4. CASE job.id = request
    <3>1. \A k \in pages : k.id = request => k = job
      BY <2>4 DEF PageInv
    <3> QED BY <2>1, <2>2, <2>3, <2>4, <3>1 DEF PageInv
  <2>5. CASE job.id # request
    BY <2>1, <2>2, <2>3, <2>5 DEF PageInv
  <2> QED BY <2>4, <2>5
<1>7. CASE StartVoice
  <2>1. request' = request + 1 /\ UNCHANGED <<offset, cursor, pages>>
    BY <1>7 DEF StartVoice
  <2> QED BY <2>1, NewPages DEF PageInv
<1>8. CASE VoiceFindsStations
  <2>1. CASE request' = request + 1 /\ offset' = Len(Spoken) /\ cursor' = cursor
    <3>1. pages' = pages /\ Len(Spoken) \in Nat
      BY <1>8, StationListAssumption, LenProperties DEF VoiceFindsStations
    <3> QED BY <2>1, <3>1, NewPages DEF PageInv
  <2>2. CASE \E q \in Queries : SearchStations(q)
    BY <1>2, <1>8, <2>2 DEF VoiceFindsStations
  <2> QED BY <1>8, <2>1, <2>2 DEF VoiceFindsStations
<1>9. CASE /\ ~Search /\ ~StationsLoaded /\ ~LoadMore /\ ~MoreStationsLoaded
           /\ ~MoreStationsFailed /\ ~StartVoice /\ ~VoiceFindsStations
  <2>1. UNCHANGED <<searchVars, pageVars, pages>>
    BY <1>9 DEF ListNext, stationVars, Select, Stop, RemotePlay, PlaybackSettles, PlaybackFails,
                DeviceFound, CancelVoice, VoiceSaysNoStation, BeginResolve, StationResolved
  <2> QED BY <1>1, <2>1
<1> QED BY <1>3, <1>4, <1>5, <1>6, <1>7, <1>8, <1>9

\* What lies before the next page, and what is shown of it.
Behind == Seen(First(Matches[query], IF query = Home THEN cursor ELSE offset))
Shown(s) == \E row \in Seen(list) \cup removed : row.id = s.id \/ row.url = s.url

LEMMA SkippedIs == NothingIsSkipped <=> (hasMore => \A s \in Behind : Shown(s))
  BY Zenon DEF NothingIsSkipped, Behind, Shown

\* Rows that stay, and those that were removed, show what they showed.
LEMMA SkipGrows ==
  ASSUME NothingIsSkipped, UNCHANGED <<hasMore, query, offset, cursor>>,
         Seen(list) \cup removed \subseteq Seen(list') \cup removed'
  PROVE  NothingIsSkipped'
<1>1. Behind' = Behind /\ hasMore' = hasMore
  BY DEF Behind
<1>2. \A s : Shown(s) => Shown(s)'
  BY DEF Shown
<1> QED BY <1>1, <1>2, SkippedIs DEF SkippedIs, Shown, Behind, NothingIsSkipped

\* A row that leaves the list is remembered.
LEMMA RemovedStep ==
  ASSUME RowsInv, RemovedInv, [ListNext]_stationVars
  PROVE  /\ RemovedInv'
         /\ \/ removed' = removed
            \/ removed' = removed \cup (Seen(list) \ Seen(list')) /\ (RemotePlay \/ PlaybackFails)
<1>1. Seen(list) \subseteq Stations
  BY SeenFacts DEF RowsInv
<1>2. CASE RemotePlay
  <2>1. removed' = removed \/ removed' = removed \cup (Seen(list) \ Seen(list'))
    BY <1>2, Zenon DEF RemotePlay, PlayDelivered
  <2> QED BY <1>1, <1>2, <2>1 DEF RemovedInv
<1>3. CASE PlaybackFails
  <2>1. removed' = removed \cup (Seen(list) \ Seen(list'))
    BY <1>3, Zenon DEF PlaybackFails
  <2> QED BY <1>1, <1>3, <2>1 DEF RemovedInv
<1>4. CASE ~RemotePlay /\ ~PlaybackFails
  <2>1. removed' = removed
    BY <1>4, Zenon DEF ListNext, stationVars, playVars, Search, StationsLoaded, LoadMore,
       MoreStationsLoaded, MoreStationsFailed, Select, Stop, PlaybackSettles, DeviceFound,
       StartVoice, CancelVoice, VoiceSaysNoStation, VoiceFindsStations, BeginResolve,
       StationResolved
  <2> QED BY <2>1 DEF RemovedInv
<1> QED BY <1>2, <1>3, <1>4

LEMMA SkipStep ==
  ASSUME RowsInv, RemovedInv, PlansInv, ProfileInv, SearchInv, PageInv, NothingIsSkipped,
         [ListNext]_stationVars
  PROVE  NothingIsSkipped'
<1>0. list \in Seq(Stations)
  BY DEF RowsInv
<1>1. CASE UNCHANGED <<hasMore, query, offset, cursor>> /\ list' = list /\ removed' = removed
  BY <1>1, SkipGrows
<1>2. CASE ~hasMore'
  BY <1>2 DEF NothingIsSkipped
<1>3. CASE Search \/ VoiceFindsStations
  <2>1. hasMore' = FALSE
    BY <1>3 DEF Search, VoiceFindsStations, SearchStations
  <2> QED BY <1>2, <2>1
<1>4. CASE StationsLoaded
  <2>1. PICK job \in searches : \E a \in Answers(job.query) :
          /\ IF job.id = request
             THEN list' = Preserved(a.list) /\ offset' = Len(a.list) /\ cursor' = 0
                  /\ hasMore' = a.more
             ELSE UNCHANGED <<list, pageVars>>
          /\ UNCHANGED <<request, query, removed>>
    BY <1>4, Zenon DEF StationsLoaded, Current, AfterFirst, playVars
  <2>2. PICK a \in Answers(job.query) :
          /\ IF job.id = request
             THEN list' = Preserved(a.list) /\ offset' = Len(a.list) /\ cursor' = 0
                  /\ hasMore' = a.more
             ELSE UNCHANGED <<list, pageVars>>
          /\ UNCHANGED <<request, query, removed>>
    BY <2>1, Zenon
  <2>3. job.query \in AllQueries
    BY DEF SearchInv
  <2>4. /\ a.list \in Seq(Stations) /\ Distinct(a.list)
        /\ (job.query # Home /\ a.more)
             => Seen(First(Matches[job.query], Len(a.list))) \subseteq Seen(a.list)
    BY <2>3, AnswersFacts
  <2>5. CASE job.id = request /\ query = Home
    <3>1. Matches[Home] \in Seq(Stations) /\ Len(Matches[Home]) \in Nat
      BY StationListAssumption, LenProperties
    <3>2. /\ First(Matches[Home], 0) \in Seq(Stations)
          /\ Len(First(Matches[Home], 0)) = IF 0 < Len(Matches[Home]) THEN 0 ELSE Len(Matches[Home])
      BY <3>1, FirstFacts
    <3>3. Seen(First(Matches[Home], 0)) = {}
      BY <3>1, <3>2, LenProperties DEF Seen
    <3> QED BY <2>2, <2>5, <3>3 DEF NothingIsSkipped
  <2>6. CASE job.id = request /\ query # Home
    <3>1. job.query = query
      BY <2>6 DEF SearchInv
    <3>2. Seen(a.list) \subseteq Seen(list')
      BY <2>2, <2>4, <2>6, PreservedFacts
    <3> QED BY <2>2, <2>4, <2>6, <3>1, <3>2 DEF NothingIsSkipped
  <2>7. CASE job.id # request
    <3>1. UNCHANGED <<list, pageVars>> /\ UNCHANGED <<query, removed>>
      BY <2>2, <2>7
    <3> QED BY <1>1, <3>1 DEF pageVars
  <2> QED BY <2>5, <2>6, <2>7
<1>5. CASE MoreStationsLoaded
  <2>1. PICK job \in pages :
          LET p == IF job.query = Home THEN CatalogPage(job.cursor)
                   ELSE SearchPage(job.query, job.offset)
          IN  /\ IF job.id = request
                 THEN list' = list \o Fresh(p.list) /\ offset' = p.offset /\ cursor' = p.cursor
                 ELSE UNCHANGED <<list, pageVars>>
              /\ UNCHANGED <<query, removed>>
    BY <1>5, Zenon DEF MoreStationsLoaded, Current, searchVars, playVars
  <2> DEFINE n == IF query = Home THEN cursor ELSE offset
             l == After(query, n)
  <2>2. CASE job.id = request
    <3>1. hasMore /\ job.query = query /\ job.offset = offset /\ job.cursor = cursor
      BY <2>2 DEF PageInv
    <3>2. query \in AllQueries /\ n \in Nat
      BY DEF SearchInv, PageInv
    <3>3. /\ l \in Seq(Stations) /\ Distinct(l) /\ Len(l) \in Nat
          /\ Seen(First(Matches[query], n + Len(l))) \subseteq Seen(First(Matches[query], n)) \cup Seen(l)
      BY <3>2, AfterFacts
    <3>4. list' = list \o Fresh(l) /\ UNCHANGED <<query, removed>>
          /\ n + Len(l) = IF query' = Home THEN cursor' ELSE offset'
      BY <2>1, <2>2, <3>1 DEF CatalogPage, SearchPage
    <3> HIDE DEF l, n
    <3>5. /\ Seen(list) \subseteq Seen(list')
          /\ \A s \in Seen(l) : s.id \in Ids(list) \/ s.url \in Streams(list')
      BY <3>3, <3>4, FreshFacts
    <3>6. \A s \in Seen(l) : \E row \in Seen(list') : row.id = s.id \/ row.url = s.url
      BY <3>5 DEF Streams, Ids
    <3>7. \A s \in Seen(First(Matches[query], n)) :
             \E row \in Seen(list) \cup removed : row.id = s.id \/ row.url = s.url
      BY <3>1 DEF NothingIsSkipped, n
    <3>8. \A s \in Seen(First(Matches[query], n)) :
             \E row \in Seen(list') \cup removed' : row.id = s.id \/ row.url = s.url
      BY <3>4, <3>5, <3>7
    <3>9. \A s \in Seen(First(Matches[query], n + Len(l))) :
             \E row \in Seen(list') \cup removed' : row.id = s.id \/ row.url = s.url
      BY <3>3, <3>6, <3>8
    <3> QED BY <3>4, <3>9 DEF NothingIsSkipped
  <2>3. CASE job.id # request
    <3>1. UNCHANGED <<list, pageVars>> /\ UNCHANGED <<query, removed>>
      BY <2>1, <2>3
    <3> QED BY <1>1, <3>1 DEF pageVars
  <2> QED BY <2>2, <2>3
<1>6. CASE PlaybackFails \/ RemotePlay
  <2>1. UNCHANGED <<hasMore, query, offset, cursor>>
    BY <1>6 DEF PlaybackFails, RemotePlay, searchVars, pageVars
  <2>2. Seen(list) \cup removed \subseteq Seen(list') \cup removed'
    <3>1. CASE removed' = removed \cup (Seen(list) \ Seen(list'))
      BY <3>1
    <3>2. CASE removed' # removed \cup (Seen(list) \ Seen(list'))
      <4>1. list' = list /\ removed' = removed
        BY <1>6, <3>2, Zenon DEF PlaybackFails, RemotePlay, PlayDelivered, Play
      <4> QED BY <4>1
    <3> QED BY <3>1, <3>2
  <2> QED BY <2>1, <2>2, SkipGrows
<1>7. CASE VoiceSaysNoStation
  <2>1. UNCHANGED <<hasMore, query, offset, cursor, removed>>
    BY <1>7 DEF VoiceSaysNoStation, searchVars, pageVars
  <2>2. list' = list \/ (lastPlayed # NoStation /\ list' = <<lastPlayed>> \o list)
    BY <1>7, Zenon DEF VoiceSaysNoStation, Control, PlayLast, Play, rowVars
  <2>3. CASE lastPlayed # NoStation /\ list' = <<lastPlayed>> \o list
    <3> DEFINE t == <<lastPlayed>>
    <3>1. t \in Seq(Stations) /\ list' = t \o list
      BY <2>3, OneSeen DEF PlansInv
    <3> HIDE DEF t
    <3>2. Seen(list) \subseteq Seen(list')
      BY <1>0, <3>1, SeenFacts
    <3> QED BY <2>1, <3>2, SkipGrows
  <2> QED BY <1>1, <2>1, <2>2, <2>3
<1>8. CASE StationResolved
  <2>1. UNCHANGED <<hasMore, query, offset, cursor, removed>>
    BY <1>8 DEF StationResolved, searchVars, pageVars
  <2>2. list' = list \/ \E s \in Stations : list' = Append(list, s)
    <3>1. \A job \in lookups : Found(job.station) \subseteq Stations
      BY LookupFinds
    <3>2. \/ list' = list
          \/ \E job \in lookups : \E s \in Found(job.station) : list' = Append(list, s)
      BY <1>8, Zenon DEF StationResolved, Play, rowVars
    <3> QED BY <3>1, <3>2
  <2>3. ASSUME NEW s \in Stations, list' = Append(list, s) PROVE NothingIsSkipped'
    <3> DEFINE t == <<s>>
    <3>1. t \in Seq(Stations) /\ list' = list \o t
      BY <1>0, <2>3, OneSeen, AppendIsConcat
    <3> HIDE DEF t
    <3>2. Seen(list) \subseteq Seen(list')
      BY <1>0, <3>1, SeenFacts
    <3> QED BY <2>1, <3>2, SkipGrows
  <2> QED BY <1>1, <2>1, <2>2, <2>3
<1>9. CASE LoadMore \/ MoreStationsFailed \/ Select \/ Stop \/ PlaybackSettles \/ DeviceFound
             \/ StartVoice \/ CancelVoice \/ BeginResolve \/ UNCHANGED stationVars
  <2>1. UNCHANGED <<hasMore, query, offset, cursor>> /\ list' = list /\ removed' = removed
    BY <1>9 DEF LoadMore, MoreStationsFailed, Select, Play, Stop, PlaybackSettles, DeviceFound,
                StartVoice, CancelVoice, BeginResolve, stationVars, rowVars, searchVars, pageVars,
                playVars
  <2> QED BY <1>1, <2>1
<1> QED BY <1>3, <1>4, <1>5, <1>6, <1>7, <1>8, <1>9 DEF ListNext

LEMMA ListStart == ListInit => ListInv
<1> SUFFICES ASSUME ListInit PROVE ListInv
  OBVIOUS
<1>1. RowsInv
  <2>1. list \in Seq(Stations) /\ Len(list) = 0 /\ DOMAIN list = {}
    BY DEF ListInit
  <2>4. saved \in SavedUrls
    BY DEF ListInit, SavedUrls
  <2>5. selected \in 0..Len(list) /\ played \in Stations \cup {NoStation}
    BY <2>1 DEF ListInit
  <2> QED BY <2>1, <2>4, <2>5 DEF RowsInv, Distinct
<1>2. ListFlags
  BY DEF ListInit, ListFlags
<1>3. PlansInv
  BY DEF ListInit, PlansInv
<1>4. ListCounts
  BY StationListAssumption DEF ListInit, ListCounts
<1>5. ProfileInv
  BY StationListAssumption DEF ListInit, ProfileInv, Names
<1>6. SearchInv
  BY DEF ListInit, SearchInv, AllQueries
<1>7. PageInv
  BY DEF ListInit, PageInv
<1>8. NothingIsSkipped /\ RemovedInv
  BY DEF ListInit, NothingIsSkipped, RemovedInv
<1> QED BY <1>1, <1>2, <1>3, <1>4, <1>5, <1>6, <1>7, <1>8 DEF ListInv

LEMMA ListStep == ListInv /\ [ListNext]_stationVars => ListInv'
<1> SUFFICES ASSUME ListInv, [ListNext]_stationVars PROVE ListInv'
  OBVIOUS
<1>0. /\ RowsInv /\ ListFlags /\ PlansInv /\ ListCounts /\ ProfileInv /\ SearchInv /\ PageInv
      /\ RemovedInv /\ NothingIsSkipped
  BY DEF ListInv
<1>1. RowsInv'
  BY <1>0, RowsStep
<1>2. ListFlags'
  BY <1>0, FlagsStep
<1>3. PlansInv'
  BY <1>0, PlansStep
<1>4. ListCounts'
  BY <1>0, CountsStep
<1>5. ProfileInv'
  BY <1>0, ProfileStep
<1>6. SearchInv'
  BY <1>0, SearchStep
<1>7. PageInv'
  BY <1>0, PageStep
<1>8. NothingIsSkipped' /\ RemovedInv'
  BY <1>0, SkipStep, RemovedStep
<1> QED BY <1>1, <1>2, <1>3, <1>4, <1>5, <1>6, <1>7, <1>8 DEF ListInv

LEMMA ListIsTyped == ListInv => ListTypeOK /\ NoStationTwice
<1> SUFFICES ASSUME ListInv PROVE ListTypeOK /\ NoStationTwice
  OBVIOUS
<1>1. NoStationTwice
  <2>1. list \in Seq(Stations) /\ Distinct(list)
    BY DEF ListInv, RowsInv
  <2> SUFFICES ASSUME NEW i \in DOMAIN list, NEW j \in DOMAIN list,
                      list[i].id = list[j].id, Steady(list[i])
               PROVE  i = j
    BY DEF NoStationTwice
  <2>2. list[j] \in Stations
    BY <2>1, ElementOfSeq, LenProperties
  <2>3. list[j] = list[i]
    BY <2>2 DEF Steady, Named
  <2> QED BY <2>1, <2>3 DEF Distinct
<1>2. /\ list \in Seq(Stations) /\ selected \in 0..Len(list)
      /\ saved \in {None} \cup {s.url : s \in Stations} /\ played \in Stations \cup {NoStation}
  BY Zenon DEF ListInv, RowsInv, SavedUrls
<1>3. /\ loading \in BOOLEAN /\ loadingMore \in BOOLEAN /\ moreError \in BOOLEAN
      /\ hasMore \in BOOLEAN /\ voiceBusy \in BOOLEAN /\ pendingPlay \in BOOLEAN
      /\ device \in BOOLEAN
  BY Zenon DEF ListInv, ListFlags
<1>4. /\ player \in {"idle", "starting", "playing", "stopping"}
      /\ lastPlayed \in Stations \cup {NoStation} /\ fallback \in Seq(Stations)
      /\ removed \subseteq Stations /\ listening \in Nat /\ actions \in 0..MaxActions
  BY Zenon DEF ListInv, PlansInv, ListCounts, RemovedInv
<1>5. /\ favourites \cup failed \subseteq {s.id : s \in Stations}
      /\ resolving = {job.station : job \in lookups}
  BY DEF ListInv, ProfileInv, Names
<1>6. /\ request \in Nat /\ query \in Queries \cup {Home}
      /\ searches \subseteq [id : 1..request, query : Queries \cup {Home}]
      /\ offset \in Nat /\ cursor \in Nat
  BY Zenon DEF ListInv, SearchInv, PageInv, AllQueries
<1>7. ListTypeOK
  BY <1>2, <1>3, <1>4, <1>5, <1>6, Zenon DEF ListTypeOK
<1> QED BY <1>1, <1>7

-----------------------------------------------------------------------------
(***************************************************************************)
(* The window.                                                             *)
(***************************************************************************)

IInv == ListInv /\ CaptureInv /\ SettingsInv

LEMMA WindowStart == Init => IInv
  BY ListStart, CaptureStart, SettingsStart DEF Init, IInv

LEMMA WindowStep == IInv /\ [Next]_vars => IInv'
<1> SUFFICES ASSUME IInv, [Next]_vars PROVE IInv'
  OBVIOUS
<1>1. /\ [ListNext]_stationVars
      /\ [CaptureNext]_captureVars
      /\ [SettingsNext]_settingsVars
  BY Zenon DEF Next, vars, OnList, OnVoice, OnSettings
<1> QED BY <1>1, ListStep, CaptureStep, SettingsStep DEF IInv

LEMMA WindowInvariant == Spec => []IInv
  BY WindowStart, WindowStep, PTL DEF Spec

\* Every variable of the three parts has its type: the selected row exists, the recording's
\* channel keeps to its bound, the settings file holds a whole snapshot after any crash
\* (stations[selected_station], sync_channel, save_to).
THEOREM WindowIsTyped == Spec => []WindowOK
<1>1. IInv => WindowOK
  BY ListIsTyped, Zenon DEF IInv, CaptureInv, SettingsInv, WindowOK
<1> QED BY <1>1, WindowInvariant, PTL

\* Whatever answers, pages, playing rows, lookups, deliveries of a phone and voice candidates
\* are put together in any order, no station whose sources agree on its address gets a second
\* row, whatever the addresses of the others (deduplicate_new_stations,
\* preserve_playing_station, handle_station_resolved).
THEOREM RowsAreDistinct == Spec => []NoStationTwice
<1>1. IInv => NoStationTwice
  BY ListIsTyped, Zenon DEF IInv
<1> QED BY <1>1, WindowInvariant, PTL

\* While there is a next page, all that lies before it has a row of its identifier or stream,
\* or had one that was removed or given another address: no late answer makes a page be skipped
\* (handle_stations_loaded, handle_more_stations_loaded).
THEOREM PagesFollowOn == Spec => []NothingIsSkipped
<1>1. IInv => NothingIsSkipped
  BY Zenon DEF IInv, ListInv
<1> QED BY <1>1, WindowInvariant, PTL

\* The recording that is committed is the whole recording in its order, with nothing added
\* (capture loop of voice::run_server_session).
THEOREM RecordingIsWhole == Spec => []NothingHeardIsLost
<1>1. IInv => NothingHeardIsLost
  BY CaptureIsWhole, Zenon DEF IInv
<1> QED BY <1>1, WindowInvariant, PTL

\* The window that closed after a flush has its last settings on the disk, whatever the
\* writer thread was doing (SettingsWriter::flush).
THEOREM FlushSavesTheLast == Spec => []FlushedIsSaved
<1>1. IInv => FlushedIsSaved
  BY DEF IInv, SettingsInv, SettingsTypeOK, WakeInv, ClosingInv, KeptInv, LastSettings, FlushedIsSaved
<1> QED BY <1>1, WindowInvariant, PTL
=============================================================================
