---------------------------- MODULE SettingsFile ----------------------------
(***************************************************************************)
(* Settings on their way to the disk (src/settings.rs): the window marks   *)
(* them dirty and hands a snapshot to the one slot of SettingsWriter       *)
(* (src/app/actions/settings.rs); its thread is woken through a channel of *)
(* one place and writes a temporary file that it renames; the exit of the  *)
(* program waits for it, but not for ever (src/app/actions/playback.rs).   *)
(*                                                                         *)
(* A snapshot is the number of changes it contains.                        *)
(***************************************************************************)
EXTENDS Naturals, Sequences

CONSTANTS
    MaxChanges,  \* bound: changes of settings
    MaxStarts    \* bound: starts of the program

ASSUME SettingsFileAssumption == MaxChanges \in Nat /\ MaxStarts \in Nat \ {0}

VARIABLES
    settings,  \* what the window shows
    dirty,     \* settings_dirty
    slot,      \* pending, Empty or a snapshot
    wake,      \* the channel
    writer,    \* what the thread does
    writing,   \* the snapshot it writes
    temp,      \* settings.json.tmp: Empty, Torn or a snapshot
    disk,      \* settings.json
    closing,   \* where shutdown_playback is
    lost,      \* the write of the last settings has failed
    starts     \* starts of the program

settingsVars == <<settings, dirty, slot, wake, writer, writing, temp, disk, closing, lost, starts>>

Empty == MaxChanges + 1
Torn  == MaxChanges + 2

SettingsInit ==
    /\ settings = 0 /\ dirty = FALSE /\ slot = Empty /\ wake = <<>> /\ writer = "wait"
    /\ writing = Empty /\ temp \in {Empty, Torn} /\ disk = 0 /\ closing = "open"
    /\ lost = FALSE /\ starts = 1

windowVars == <<settings, dirty, slot, closing>>
fileVars   == <<writing, temp, disk>>

\* mark_settings_dirty
Change ==
    /\ closing = "open" /\ settings < MaxChanges
    /\ settings' = settings + 1 /\ dirty' = TRUE /\ lost' = FALSE
    /\ UNCHANGED <<slot, wake, writer, fileVars, closing, starts>>

\* SettingsWriter::save: a wake-up that is on its way is enough.
Wakes == IF wake = <<>> THEN <<"save">> ELSE wake
OnlyWhenIdle == IF wake = <<>> /\ writer = "wait" THEN <<"save">> ELSE wake
WakeUp == Wakes

Save == dirty' = FALSE /\ slot' = settings /\ wake' = WakeUp

\* persist_settings_if_needed
Persist ==
    /\ closing = "open" /\ dirty /\ Save
    /\ UNCHANGED <<settings, writer, fileVars, closing, lost, starts>>

\* shutdown_playback marks the settings dirty and saves once more, then flushes.
Shutdown ==
    /\ closing = "open" /\ closing' = "flush" /\ Save /\ lost' = FALSE
    /\ UNCHANGED <<settings, writer, fileVars, starts>>

NoMatter == TRUE
HasRoom == wake = <<>>

\* SettingsWriter::flush: the channel must have room.
AskForFlush ==
    /\ closing = "flush" /\ HasRoom
    /\ wake' = <<"flush">> /\ closing' = "asked"
    /\ UNCHANGED <<settings, dirty, slot, writer, fileVars, lost, starts>>

\* Two seconds have passed.
GiveUp ==
    /\ closing \in {"flush", "asked"} /\ closing' = "gaveUp"
    /\ UNCHANGED <<settings, dirty, slot, wake, writer, fileVars, lost, starts>>

\* The thread receives a command.
Receive ==
    /\ writer = "wait" /\ wake # <<>> /\ wake' = Tail(wake)
    /\ IF Head(wake) = "save"
       THEN /\ slot' = Empty /\ writing' = slot /\ UNCHANGED closing
            /\ writer' = IF slot = Empty THEN "wait" ELSE "create"
       ELSE /\ closing' = IF closing = "asked" THEN "flushed" ELSE closing
            /\ UNCHANGED <<slot, writing, writer>>
    /\ UNCHANGED <<settings, dirty, temp, disk, lost, starts>>

\* A write that fails is not tried again; a newer snapshot may be on its way.
Fails ==
    /\ writer' = "wait" /\ writing' = Empty /\ UNCHANGED <<temp, disk>>
    /\ lost' = IF slot = Empty /\ ~dirty THEN TRUE ELSE lost

WithoutSync == "rename"
AfterWrite == "sync"

\* File::create and write_all: until sync_all returns a crash leaves anything.
CreateFile ==
    /\ writer = "create"
    /\ \/ writer' = AfterWrite /\ temp' = Torn /\ UNCHANGED <<writing, disk, lost>>
       \/ Fails
    /\ UNCHANGED <<windowVars, wake, starts>>

SyncFile ==
    /\ writer = "sync"
    /\ \/ writer' = "rename" /\ temp' = writing /\ UNCHANGED <<writing, disk, lost>>
       \/ Fails
    /\ UNCHANGED <<windowVars, wake, starts>>

\* replace_file
RenameFile ==
    /\ writer = "rename"
    /\ \/ disk' = temp /\ temp' = Empty /\ writer' = "wait" /\ writing' = Empty /\ UNCHANGED lost
       \/ Fails
    /\ UNCHANGED <<windowVars, wake, starts>>

\* The program exits after the flush, or dies, and is started again: AppSettings::load.
Restart ==
    /\ starts < MaxStarts /\ starts' = starts + 1
    /\ settings' = disk /\ dirty' = FALSE /\ slot' = Empty /\ wake' = <<>> /\ writer' = "wait"
    /\ writing' = Empty /\ closing' = "open" /\ lost' = FALSE
    /\ UNCHANGED <<temp, disk>>

Writes == Receive \/ CreateFile \/ SyncFile \/ RenameFile

SettingsNext == Change \/ Persist \/ Shutdown \/ AskForFlush \/ GiveUp \/ Writes \/ Restart

SettingsSpec == SettingsInit /\ [][SettingsNext]_settingsVars

\* The window is drawn, and the thread runs.
SettingsFairness == WF_settingsVars(Persist) /\ WF_settingsVars(Writes)

-----------------------------------------------------------------------------
\* Every variable has its type; the file is never half of a snapshot, whenever the program
\* dies (save_to writes beside it and renames).
SettingsTypeOK ==
    /\ settings \in 0..MaxChanges /\ dirty \in BOOLEAN /\ slot \in 0..Empty
    /\ wake \in {<<>>, <<"save">>, <<"flush">>}
    /\ writer \in {"wait", "create", "sync", "rename"}
    /\ (writer = "wait") = (writing = Empty) /\ writing \in 0..Empty
    /\ temp \in 0..Torn /\ disk \in 0..MaxChanges
    /\ closing \in {"open", "flush", "asked", "flushed", "gaveUp"}
    /\ lost \in BOOLEAN /\ starts \in 1..MaxStarts

\* An exit that was flushed has the last settings on the disk, unless the very write of them
\* failed, which no older failure excuses:
\* the flush waits behind the wake-up of the last save, and that behind the save in progress.
FlushedIsSaved == closing = "flushed" => disk = settings \/ lost

\* No change is forgotten in the slot: the last settings reach the disk unless a write of them
\* fails or the program ends first.
NothingUnsaved   == disk = settings \/ lost \/ closing # "open"
ChangesReachDisk == []<>NothingUnsaved
=============================================================================
