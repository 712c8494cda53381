------------------------------ MODULE MCWindow ------------------------------
(***************************************************************************)
(* What the window starts in the background besides playback, on small     *)
(* instances: the station list, one voice command, the settings file.      *)
(* They share no variable, so a behaviour is one of the three.             *)
(*                                                                         *)
(* The server has station a under another address than the snapshot, d has *)
(* the stream of the snapshot's a, and the favourite x is found again as   *)
(* c.                                                                      *)
(***************************************************************************)
EXTENDS StationList, VoiceCapture, SettingsFile

At(name, address) == [id |-> name, url |-> address]
Local  == At("a", "a")
Remote == At("a", "s")
B == At("b", "b")
C == At("c", "c")
D == At("d", "a")
X == At("x", "x")
Known    == {Local, Remote, B, C, D, X}
Finds    == [q \in Queries \cup {Home} |-> IF q = Home THEN <<Remote, B, D>> ELSE <<C, X, Remote, D>>]
Snapshot == <<Local, B>>
Heard    == <<C, Remote>>
Phoned   == {Remote, D}
FoundAs  == [id \in {s.id : s \in Stations} |-> IF id = "x" THEN {C} ELSE Named(id)]

VARIABLE part   \* what the behaviour is about

vars == <<part, stationVars, captureVars, settingsVars>>

Init ==
    /\ part \in {"list", "voice", "settings"} /\ ListInit /\ CaptureInit /\ SettingsInit
    /\ saved \in IF part = "list" THEN {None, Local.url} ELSE {None}
    /\ part # "voice" => mode = "buffered"
    /\ part # "settings" => temp = Empty

OnList(A)     == part = "list" /\ A /\ UNCHANGED <<part, captureVars, settingsVars>>
OnVoice(A)    == part = "voice" /\ A /\ UNCHANGED <<part, stationVars, settingsVars>>
OnSettings(A) == part = "settings" /\ A /\ UNCHANGED <<part, stationVars, captureVars>>

Next == OnList(ListNext) \/ OnVoice(CaptureNext) \/ OnSettings(SettingsNext)

\* ListFairness, CaptureFairness and SettingsFairness.
Fairness ==
    /\ WF_vars(OnList(StationsLoaded)) /\ WF_vars(OnList(MoreStationsLoaded \/ MoreStationsFailed))
    /\ WF_vars(OnList(VoiceSaysNoStation \/ VoiceFindsStations))
    /\ WF_vars(OnList(StationResolved))
    /\ WF_vars(OnVoice(Job)) /\ WF_vars(OnVoice(Tick))
    /\ WF_vars(OnSettings(Persist)) /\ WF_vars(OnSettings(Writes))

Spec == Init /\ [][Next]_vars /\ Fairness

-----------------------------------------------------------------------------
\* Types of all three: a selected row exists (stations is indexed by it), the microphone is
\* open only while something is recorded, its channel keeps to its bound, and the settings
\* file is never half of a snapshot, whenever the program dies (save_to).
WindowOK == ListTypeOK /\ CaptureTypeOK /\ SettingsTypeOK

\* Each ends: what the list is waiting for (searches, a page, a voice command, lookups,
\* whatever replaces them meanwhile); a voice command, whatever the microphone delivers and
\* the user does; and the way of the last settings to the disk (SettingsWriter::save).
\* These are SpinnersStop, CaptureEnds (a command that is done stays so) and
\* ChangesReachDisk, each for the behaviours that are about it.
WindowSettles ==
    []<>(/\ part = "list" => NothingSpins
         /\ part = "voice" => step = "done"
         /\ part = "settings" => NothingUnsaved)
=============================================================================
