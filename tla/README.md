# RockCast in TLA+

RockCast is a desktop player for internet radio (Rust, egui). It plays a
station on the local speakers or on a Chromecast, publishes what it plays to
RockServer, executes commands RockServer sends, and synchronises favorites and
history. The project in this directory models the parts whose correctness
depends on the order in which threads, connections and restarts interleave.
Paths below are relative to the repository (`src/...` is the crate's `src/`).

## 1. The system

### Threads

* the **egui thread** draws frames; in every frame it takes messages
  (`app/actions/poll.rs`), executes remote commands, publishes the device state
  and saves settings when they have been dirty for 400 ms;
* three **playback workers** (`runtime.rs`, at least two, a queue of 128 jobs)
  run play jobs, stop jobs, title forwarders and volume jobs;
* a **decode thread** and a **playout thread** per local session, the cpal
  callback, and a reaper for sessions that were replaced;
* a **feeder** and HTTP threads of the relay while a Chromecast plays, and a
  **heartbeat** thread per Cast session;
* one **connection worker** for RockServer, one thread that writes settings,
  and executor jobs for the catalog, voice, icons, account and personal sync.

### Components

| Component | State | Operations | What makes it hard | What makes it correct |
|---|---|---|---|---|
| Playback controller, `playback/` | generation, operation token, phase, transition mutex | play, stop, shutdown, set_volume, apply_event | jobs of old operations run for seconds next to those of new ones | one output at a time; phases are about the newest operation; stale jobs touch nothing; every operation is answered |
| Background executor, `runtime.rs` | bounded queue, cancel token | spawn, shutdown, worker loop | full queue; all workers waiting | accepted work runs; rejected work is reported |
| Local player, `local/`, `audio/decode/` | session token, stream, decode and playout threads, queues, ring, volume | play, stop, set_volume; read, dispatch, decode, drain, push and pop | error paths that return without stop; five threads that wait for one another; a callback that asks for more than there is | Playing is real; threads end; frames are whole and in order |
| Cast client and channel, `cast/` | session, receiver volume, socket inbox, heartbeats | play, stop, set_volume, receive_find | a receiver answers late, about old LOADs, and goes on with what it was last told | a recorded session plays; others are silent; heartbeats have an owner |
| Stream relay, `relay/` | session, fan-out ring, position of each client | start, stop, wait_for_data, push, join, read | slow readers; a stopped relay with clients still writing | a client reads on between two samples, never backwards; threads end |
| Device state publication, `device_control.rs` | one-value slot, revision (also in the settings), connection | publish, connection worker, resync | reconnects, refused tokens, crashes between send and save | no fact is taken for sent; a revision names one fact |
| Remote command ledger, `device_control.rs` | queue, in flight, completed results, delivered marks | receive_command, take_command, complete_command, send_pending_results | repeated frames, broken connections, limits | nothing runs twice; one verdict; results reach the server |
| Remote command execution, `app/actions/playback.rs`, `app/actions/poll/playback.rs` | the pending command and its generation | poll_device_control_commands, event handling | the user starts operations in between | success is observed, never assumed; every command has an owner |
| Settings, `settings.rs` | one-value slot to a writer thread, debounce | save, flush on exit | flush timeout; the last save | the newest settings reach the disk |
| Native session and pairing, `session/`, `app/actions/account.rs` | the credential, SESSION_MUTEX, the panel, poll threads and their cancel flags | renew, load, logout, pair, cancel | renewal racing logout and pairing; answers to a panel that moved on | one renewal at a time; a binding is kept until the server revokes it; the panel is never stuck |
| Personal data and sync, `personal_data/`, `personal_sync/`, `app/actions/personal_sync.rs` | records, base and cursor, each with a file | edit, sync cycle, merge, reset | edits while a cycle runs; partial pushes; crashes; another account | what is taken for acknowledged is; nothing is deleted that was not removed or retired; both sides agree in the end |
| Station list, `app/actions/catalog.rs`, `app/actions/poll/` | rows, selection, request number, offset and cursor, favorites | search, page, lookup, voice result, playback error | answers in any order, from four sources that may know one station by different addresses | a station whose address is agreed on has one row; no gaps, nothing busy for ever |
| Voice input, `voice/` | recording flag, channel from the microphone, detector, session | record, send, commit, await, cancel | several ends at once; a full channel | the whole recording is sent; a command ends |
| Observers, icons, discovery | request-tagged results | start, cancel, poll | stale results | out of scope, see section 8 |
| Decoding, spectrum, diagnostics, texts | signal data | | | out of scope |

### How they interact

The egui thread calls the `PlaybackController`; each operation gets a number
(the generation) and a token and becomes a job. Jobs drive the engines under
one mutex and report `PlaybackEvent`s through a channel that the egui thread
drains. A job for a station, a page, a voice command, an account load or a sync
cycle works on a copy and answers with a message through the same queue as
everything else the egui thread polls; most messages carry the number of the
request they answer. A remote command arrives on the connection worker, waits in the
`CommandBook`, is taken by the egui thread, starts an operation like the
user's, and is completed by the event that answers this operation. The
connection worker reads the published slot and the book by polling them;
the revision it publishes under is kept in the settings.

## 2. Modules and how they correspond to the code

| Module | Models | Composes |
|---|---|---|
| `PlaybackPhases` | the promise of `PlaybackController` to its caller: numbered operations, one phase | |
| `Playback` | controller, executor, play/stop/title/volume jobs step by step, and the engines as far as jobs drive them | implements `PlaybackPhases` |
| `StatePublisher` | slot, revision, connection worker, settings across restarts | |
| `CommandLedger` | `CommandBook` and the connection that uses it | |
| `RemoteCommands` | taking, executing and answering remote commands | extends `CommandLedger` and implements it |
| `LocalPipeline` | one local session: five threads, three queues, SteadyPlayout, the ring and the callback | |
| `RelayFanout` | the relay's feeder, fan-out ring and clients | |
| `CastSessions` | `CastService` on several receivers: LOAD attempts, inbox, heartbeats | |
| `PersonalSync` | base, cursor, cycle and merge against an account on the server, with its files | |
| `Account` | the credential store, renewals, logout, pairing and the panel | |
| `StationList` | rows, searches, pages, lookups, voice results, favorites | |
| `VoiceCapture` | one voice command from microphone to outcome | |
| `SettingsFile` | settings, debounce, writer thread, the file | |
| `MCPlayback`, `MCRemoteCommands` | instances for TLC | |
| `MCDeviceControl` | an instance of both halves of the device connection | extends `StatePublisher`, `CommandLedger` |
| `MCStreams` | an instance of both ways of playing a station | extends `LocalPipeline`, `RelayFanout` |
| `MCWindow` | an instance of what the window has running besides playback | extends `StationList`, `VoiceCapture`, `SettingsFile` |
| `PlaybackProofs`, `StatePublisherProofs`, `CastSessionsProofs`, `AccountProofs`, `PersonalSyncProofs` | theorems about one module | extend it |
| `RemoteCommandsProofs` | theorems about `CommandLedger` and `RemoteCommands` | extends `RemoteCommands` |
| `StreamsProofs`, `WindowProofs` | theorems about the parts and the instance that brings them together, for every value of its constants | extend `MCStreams`, `MCWindow` |

The modules an MC module brings together share no variable, as the threads they
model share no state; a behaviour of the instance chooses one of them at the
start and leaves the others alone, so the instance explores the union of their
behaviours and each property is about one part.

### Playback

Every operation of the egui thread is two steps, `Begin` (the `fetch_add` of
the generation) and `Play`, `Stop` or `Shutdown` (the rest of the call),
because the workers read the generation in between. `pc[w]` is the program
point of worker `w` in its job. A step of a play job goes from one blocking
call or one look at shared state to the next, so two steps are never one
action when another thread could see the difference: the three re-checks of
generation and token, `relay.start` up to its last look at the token and from
there to the installed session, CONNECT, LOAD and the wait for its answer.

A generation stands for everything its operation made: its token (`cancelled`),
the Cast session, the LOAD, the relay session, the stream and the decode
thread. `loaded` belongs to the receiver: it is what the receiver was last
told to play, and is independent of `castSession`, what the program remembers.
Something is audible when a stream is open and its token is unset, or when the
receiver's LOAD is served by the relay. One receiver is modelled here; several
receivers, heartbeats and the wait for an answer are `CastSessions`.

Failure is a choice at every point at which the code may fail: resolving the
station, the relay, buffering, connecting, LOAD, probing, the device, the
session. Which error branch stops the player first and which returns at once
is kept (`StreamFails`, `SessionCancelled`), because a finding depends on it.
Status and Title events, the spectrum and the wording of errors are left out.

### StatePublisher

`fact` is what the frame would publish (station, output, phase, volume:
values the properties need not tell apart), `slot` the published revision and
fact, `settings` and `disk` the saved revision before and after the debounce
and the writer thread. The connection worker goes from token through connect,
welcome and registered to the loop (`top`, `read`). `Quit` is an exit that
flushes the settings, `Crash` one that does not. `server` and `log` are what
RockServer received. `ahead` records that a number went out which no published
fact has, by a resync, or that a crash lost a number; it is history and
no guard reads it.

### CommandLedger and RemoteCommands

The worker clones undelivered results under the book's mutex and sends them
without it, so `Collect` and `SendResult` are different steps and the egui
thread may complete and evict in between. `link = "dying"` is the time in
which writes still succeed and nothing arrives. `answers`, `taken`,
`forgotten` and `turnedAway` are history; no guard reads them.

`RemoteCommands` adds the egui thread: the loop over taken commands
(`current`), the pending slot, and the event channel. The controller is there
only as far as its caller sees it: a play job answers or is silent once
superseded, except that a failure to resolve the station or to start the relay
is reported without asking for the generation; a stop job always answers.
`Playback` is where that is justified. Commands the program refuses because it
does not advertise them (Chromecast, relay) never reach this code and are in
`Refused`.

### LocalPipeline and RelayFanout

`LocalPipeline` has the body reader, the dispatcher, the decoder, the playout
thread and the device's callback, each with its program point, and the bounded
channels between them. A sample is its number, so the channel it belongs to is
its remainder: a frame that is torn or shifted shows. The ring is the array with
two indices of `audio/decode/pcm.rs`, and pushing writes slots before the index
is published, because the callback reads in between. `PlayoutTakes` is one
round of SteadyPlayout with its bound on the backlog. `orphaned` is history: the
session was left running behind an error of the device.

`RelayFanout` counts bytes. `start` and `written` are the absolute positions of
the ring, `pos[c]` the client's. A read happens under the fan-out's lock and the
write to the socket without it, so the ring may move past a client in between.
`transport` tells PCM with its sample size from bytes that are passed through.

### CastSessions

Operations exclude one another (`op_lock`); `pc` goes from the switch of receivers
through CONNECT, GET_STATUS and LAUNCH to LOAD with one content type after
another. `inbox` is what `receive_find` has put aside, `wire` what was not read
yet; `Scan` goes through the inbox from the start as the code does, with its
count of IDLE messages, and `Read` takes one message from the wire. The receiver
(external) takes up the LOADs it was sent in its own time and may report on any
of them. `SendStop` silences a receiver or does not: the code ignores the result of
each write (`cast/client/mod.rs:230-264`), so on a broken connection no STOP arrives
and `stop` returns Ok all the same. `beats` are the heartbeat threads; `dropped` and
`abandoned` are history and record how the code lets go of a session without ending
it: a replay on the same receiver, an operation that fails, a STOP that was not sent.

### PersonalSync

A record is a favourite or an entry of the history; `Stations` says which favourites
name one station. Its version is its `updated_at`, even for this device and odd for
others, so no version of this device is taken for one of another's; two records may
have one stamp, and then the id decides which of them a cap keeps (`Before`).

The two collections are kept differently, and the sync sees it. A favourite is refused
at `MAX_FAVOURITES`; favourites are cut to it only when answers are merged (`Capped`).
An entry of the history is never refused: `record_play` makes a new one (`NewEntry`) or
continues the newest (`Continue`), and `retain` then drops what is past `MAX_HISTORY` or
older than 90 days (`Retained`), as it does at every merge and at every start. `Cutoffs`
says what 90 days may mean: each time the store looks, any point up to now, since nothing
is said of the time between two edits. A start also collapses favourites of one station
into the one that was added first, with the latest version (`Collapsed`).

`base` and `cursor` are `SyncState`, `profile` the store, `file` and `saved` their files.
A cycle (`cycle`) copies profile and base, sends its requests one by one to the `server`,
which keeps the newer version and numbers it, and hands its answers to the egui thread,
which merges them into the profile as it is *then*, retains and caps, saves, and makes the
result the new base. What the store retires becomes a tombstone of the next cycle when the
base has it; what a merge retires is not in the new base and is never pushed.
`touched`, `overtaken`, `evicted`, `removed` and `resetLost` are history: they name the
records for which the code promises nothing, and why. `removed` has what somebody removed
and what the store of this device retired.

### Account

A binding is the credential of one pairing. Threads that load, renew or wipe it
hold SESSION_MUTEX (`owner`); the request to the server and the save or clear of
its answer are different steps. Pairing threads save without the mutex, as the
code does. The panel (`state`, `request`, `loadStarted`, `pairingCancel`) is
changed by the egui thread when it handles a message of `inbox`.

### StationList, VoiceCapture, SettingsFile

A station is an identifier with the address of its stream. The snapshot, the server, the
voice candidates and a phone may give one identifier different addresses, and
`PlayDelivered` changes the address of a row in place; `Steady` are the stations on whose
address all agree. `RemotePlay` and `PlayLast` are the plays the window did not ask for:
a phone's, and a voice command for the station heard last. A job of the list and the message it
sends are one step, since nothing else of the list looks at a job in between; jobs
end in any order and may not get a place in the queue. `Found` is what a lookup
by identifier ends with: the same station, one under another identifier, or none.

In `VoiceCapture` a chunk is loud or quiet for the detector and the clock counts in
chunks; in streaming mode the session takes the next chunk only after it has
written the last one, so the channel may fill and the detector sees late chunks
with the time of their processing.

In `SettingsFile` a setting is the number of the change that made it. The writer
thread takes the snapshot, writes the temporary file, syncs and renames it, and
may fail at each; a file that is not synced holds anything after a crash (`Torn`).

## 3. Runs

Passing runs explore all states within the bounds. Where a run checks several parts
of one kind at once, a property is the conjunction of named ones: `SyncOK`
(`TypeOK` and `BaseIsAcknowledged`), `SessionsOK` (`CastTypeOK` and
`HeartbeatsAreKnown`), and those of `MCStreams` and `MCWindow`, which conjoin the
types, the safety and the liveness of the modules they instantiate.

| Run | Question | Bounds |
|---|---|---|
| `playback_safety` | Do outputs overlap, is a settled phase silent, is Playing real, do superseded play jobs leave newer sessions alone? | 3 workers (as in the program), 3 operations, one slider move, room for every job |
| `playback_full_queue` | Is `PlaybackPhases` implemented, with jobs rejected too; does every play and stop settle or give way, do replaced decode threads end? | 2 workers (fewest), 3 operations, a queue of 2 |
| `device_control` | Is a fact ever taken for sent, does a revision name one fact and never fall, does the server learn the last fact? Is the book consistent, can a command run twice or have two verdicts, are results sent? | 2 facts, 3 revisions, 2 faults, 1 resync, 1 restart; 3 commands and a refused one, 2 pending, 2 remembered, 4 frames, 2 connections |
| `remote` | Has every command an owner, was success observed, is the ledger used as it allows, is the newest command answered? | a play, a stop and a volume command, 2 frames, 2 operations |
| `personal` | Is what the base holds acknowledged, does the cursor pass anything by, is anything deleted that was neither removed nor retired, do profile and account agree in the end? | 3 favourites, two of one station, with a cap of 2; 2 entries of history with a cap of 1; requests of 1 change, 2 accounts, 1 local and 2 remote edits, 1 fault (failed cycle, pairing, exit or loss of the file); 921 174 states |
| `cast` | Does a recorded session play, are others silent but for failed operations and unsent STOPs, whose are the heartbeats, does every play end? | 2 receivers, 3 operations, 2 content types, refusal after 2 IDLE reports (10 in the program), 3 reports |
| `streams` | Are frames whole and in order, do clients read on between samples, do threads end, is a dead stream noticed? | 2 channels, ring of 4 samples, 3 chunks of 2, queues of 1; relay ring of 11 bytes with frames of 4 and samples of 2, up to 30 bytes, one client |
| `account` | Is one thread at a time renewing, is the binding wiped only when revoked, does the panel ever stay busy or waiting? | 2 loads, 1 other token request, 1 pairing, an earlier binding |
| `window` | Has a station whose address is agreed on two rows, has the list gaps, is anything busy for ever, is a voice command sent whole, are settings saved? | 5 stations (one with two addresses, two with one stream, one that moved), a search of four, pages of 2, two that a phone delivers, 2 actions of the user or the phone; 4 chunks, channel of 2; 3 changes, 2 starts |

**Why the bounds are enough.** Three operations give a newest one, one it
superseded, and one whose effects the latter inherited; three workers let all
three jobs be under way at once, as many as in the program. A queue of two is full after
one local play (title forwarder and play job), and a title forwarder can take the
place its own play job needs.
Two facts tell "same" from "changed"; two faults on a
connection, a resync and a restart in any order reach every combination the
revision arithmetic distinguishes. Three commands with room for two fill the
queue and the results, with one turned away and one evicted. In `remote`, two
operations are the command's own and the one that replaces it, by the user or by
the other command; any two of the three commands arrive, in any order. The
theorems of section 5 hold for every value of these constants.

Requests of one change make a push of several chunks. Three favourites exceed their cap of
two and two of them are of one station; a second entry of history evicts the first, which
may also be past the cutoff, here or at a merge. A local edit next to two of other devices,
on either side of a cycle, is what overtakes, collides or is retired, and one fault is the
failed, interrupted or re-paired cycle next to one that succeeds; longer histories are
left to the theorems. Two receivers tell a replay from a switch, two content types a
retried LOAD from the last one, and three operations leave a session behind that
was dropped two plays ago. A ring of four samples wraps twice for three chunks; a
relay ring of eleven bytes, which is no multiple of a frame, drops what a slow
client has not read many times in thirty. Two account loads are one that renews
and one that waits for the mutex while a pairing comes and goes. Two user actions
are the one whose answer is outstanding and the one that makes it stale; on top of
them jobs, playback and voice take steps of their own. Three settings and two
starts are one on disk, one being written and one in the slot, before and after a
crash.

Runs that end in a **violation** show where the code does something other than
its documentation or comments say:

| Run | The text | What happens |
|---|---|---|
| `playback_stale_stop` | `docs/concurrency.md:42`, check the generation after taking the lock and before any side effect | A stop job never asks for the generation. One that gets the mutex after the play that superseded it ends that play's Cast session and relay; the phase stays Playing. |
| `account_durable` | `docs/status.md:480-483`, pairing is a durable device binding which only `401 device_credential_invalid` clears | The pairing thread saves without SESSION_MUTEX (`app/mod.rs:597`). A renewal of the older binding that has its answer then overwrites the new credential, or wipes it because the older one was revoked. |
| `window_moved` | `docs/status.md:51-52`, a favourite resolved under a new id is repointed (remove + re-add) | The re-add is a toggle (`app/actions/poll/catalog.rs:163`): if the station found is a favourite already, both are gone, and the next sync spreads it. |

More statements of documents that the code does not keep. The first eleven are
defined in the modules under the name given, next to the properties that hold, and
TLC refutes each within the bounds of the module's passing run, but `LastLevelWins`
takes two levels and two moves of the slider, and `PlayingStationStays` three user
actions:

| Statement | Property | What happens |
|---|---|---|
| `docs/playback.md:112`, on Error `local.stop()` again | `Playback!FailedStopsLocal` | `LocalPlayer::play` returns from a device error without `stop()` (`local/mod.rs:237`); the decode thread goes on downloading until the next operation. |
| `docs/architecture.md:50`, a volume worker drains a channel | `Playback!LastLevelWins` | Volume changes are independent jobs, and a play job applies the level captured when it was submitted; an older level may be the last one applied. |
| `docs/status.md:294-296`, every real fact change is published | `StatePublisher!EveryFactIsSent` | The resync's snapshot takes the number after the slot's (`device_control.rs:332`); the next change gets the same number and is not sent on this connection until another change. |
| `device_control.rs:364`, a restart can never replay a stale revision | `StatePublisher!RestartNeverReplays` | The number is sent at once and saved later; after a crash in between it is sent again with another fact. |
| `docs/status.md:423-424`, undelivered results are retried on a later connection | `CommandLedger!UndeliveredIsKept` | `complete` drops the oldest result when there are more than 64, delivered or not. |
| `docs/status.md:407-408`, an interruption returns one terminal failure | `RemoteCommands!InterruptedIsAnswered` | A pending command is given up only on the occasion of another event; if the replaced job ends in silence and no event follows, it stays in flight. |
| `docs/cast.md:36,92`, `take_or_connect` stops the old heartbeat | `CastSessions!OldHeartbeatStops` | The guard is taken twice (`cast/client/mod.rs:108-115`), so the session is dropped with its heartbeat running and the channel is not reused. |
| `relay/fanout.rs:141`, the ring never exceeds RING_MAX | `RelayFanout!RingHoldsItsMax` | What must go is rounded down to whole frames. |
| `docs/status.md:17-19`, a playing station absent from a new page is put on top | `StationList!PlayingStationStays` | The page counts as having it when it has the station of the *saved* address, which is of the selected row (`app/actions/poll/catalog.rs:203`). |
| `app/actions/poll/catalog.rs:294`, a test: the station that is kept is not duplicated | `StationList!EveryStationOnce` | `preserve_playing_station` keeps the first row with the playing id *or* the saved address when the new page has neither (`poll/catalog.rs:203-218`); the page may have that row's id under another address. |
| `docs/status.md:104-105`, the base is exactly what the server acknowledged | `PersonalSync!EveryBaseIsAcknowledged` | The base is the profile when the result arrives, with edits made during the cycle. |

Met while reading, needing no interleaving or outside what is modelled:

* A receiver is given the slider's percentage, not half of it
  (`playback/mod.rs:242`, `docs/architecture.md:104`). After a resync the next
  connection starts one below the last number the server has
  (`device_control.rs:302`, "monotonic revision" in `docs/playback.md:5`).
* Cast: a STOP that cannot be written is not reported; `stop` returns Ok and forgets the
  session, and the receiver plays on (`cast/client/mod.rs:186-195`, `230-264`).
* Personal sync: what a merge drops, by a cap or for its age, is in the account but not in
  the new base, so it is never pushed as a deletion (`sync_apply.rs:18-19`: "cap evictions
  become ordinary local deletions for the next push"); profile and account then differ for
  good, as they do on every entry of a first pull that is older than 90 days. Clear history
  schedules no sync of its own (`app/ui/personal.rs:177`); the period brings one. Later chunks do not carry a cursor (`state.rs:179-180` says they do).
  Pairing while a cycle runs makes the old account's answer the new base
  (`poll/account.rs:139`). The comparison of generations at `personal_sync.rs:153`
  can never differ.
* Streams: nothing checks that the ring is a multiple of the channels; at six
  channels and 96 kHz the pre-buffer exceeds it. `set_pcm_format` is set once, so a
  reconnect with other channels is served under the old header. The WAV header's
  length is 32 bits, a little over six hours. A silent station keeps the passthrough
  feeder in `body.read` after stop.
* Account: a load that answers after a logout shows Connected; a logout without
  network leaves the credentials and says nothing (`account.rs:114`); a second
  pairing request while the flag of the first is set is never polled;
  `AccountUiState::Error` has no way out in the panel. A refused token is renewed and
  tried again at once (`device_control.rs:264`; `client.rs:237-238` speaks of a back-off).
* Window: an error of playback removes the *selected* row, not the failing one
  (`poll/playback.rs:105`, `docs/status.md:9`). A cancelled voice command is carried out
  all the same, and its late result resets the flags of the next. A moved station goes
  to the end of the list (`docs/status.md:50-51`: the top). A recording ends after 45 s
  (`README.md:180`: 60 s). In streaming mode a slow write makes a short pause look like
  silence (`record.rs:87`: "from the last moment speech was actually heard").

## 4. Fairness

* `WF(UiStep)`: egui is asked to repaint while events are pending, and a call
  that has begun returns.
* `WF(JobStep(w))`: all waits in a job have a timeout. A healthy local session
  has none; its end by an error (`SessionFails`) is therefore not in `JobStep`,
  and only `SessionCancelled` is fair.
* `SF(Lock(w))`: parking_lot's mutex is eventually fair; a waiter that finds the
  mutex free again and again is handed it.
* `WF(cancelled[g] /\ DecodeEnds(g))`: a decode thread polls its token. A
  thread whose token is unset may run for ever.
* `StatePublisher`: the frame publishes every change and the worker never stops
  trying. Nothing is assumed of the network but that the number of faults is
  finite.
* `CommandLedger`: the worker reconnects and its loop has only deadlines.
* `RemoteCommands`: frames go on while there are events or commands; a job that
  opens or stops ends. A session that plays need not.

* `PersonalSync`: frames go on (a due cycle starts, a result is applied) and a
  request ends, one way or the other: one of `Start`, `Deliver`, `HandleFailure` and `Apply`
  can always be taken, so that they are taken again and again is weak fairness of their
  disjunction, and written that way because TLC checks it faster. Failures and edits
  are finite.
* `CastSessions`: an operation goes on and reads time out. `SF(ReadFails)`: the
  deadline of a LOAD passes however many messages arrive before it.
* `LocalPipeline`: every thread runs but the one in `resp.read`, which has no
  timeout. `RelayFanout`: clients' threads run, since their sockets have timeouts, and
  a feeder notices that the relay was stopped, unless it is passing bytes through.
* `Account`: jobs, poll threads and frames run, requests have timeouts; nothing is
  assumed of the user, the server or other callers of the token.
* `StationList`: searches, pages, lookups and voice sessions end, by their timeouts
  if nothing else. `VoiceCapture`: the job runs and time passes. `SettingsFile`: the
  frame saves what is dirty and the writer thread runs.

`OperationSettles` needs all four kinds of `Playback`: with two workers and a
playing session, the worker of the next operation waits for the mutex while
the session must see its token.

## 5. Proofs

The proof modules hold for every value of the constants under the assumptions
the modules name (`WorkersAssumption`, `BoundsAssumption`, ...): some worker, some
level, some receiver, limits that are at least one, and placeholders that are not
values. Three say more. `LocalAssumption` and `RelayAssumption`: rings, chunks and
reads hold whole frames and samples and fit into one another, as the constants of
the program do for mono and stereo (at six channels they do not, see section 3).
`StationListAssumption`: finitely many stations, each an identifier with an address, and no
identifier twice in one answer of the server, in the snapshot of the catalog or among the
candidates of a voice command; nothing is assumed of the addresses.

**`PlaybackProofs`.** `OneOutput` is not inductive. The invariant `IndInv` adds
`LockInv` (a worker in its critical section holds the mutex, and there is one
holder), `RelayInv` (no relay session while a worker is on the local path) and
`StreamInv` (an audible stream belongs to a worker in its session loop). The
argument: a relay is only installed by a holder of the mutex on the Cast path;
a stream is only audible while another holder is in its session; both cannot
be. `RelayInv` is what the teardown at the start of a play job gives, and
`StreamInv` needs that tokens are never reset. Each step of a play or stop job
is a `Move` of the holder that leaves others alone (`MoveInv`); the steps that
touch neither mutex nor engines are handled by `AsideInv`. Theorems:
`TypeCorrect`, `MutualExclusion`, `NeverTwoOutputs`.

The other theorems are about numbers: which operation a job, a session, an event
or the phase is of. Four invariants come on top of `IndInv`, in this order.

* `JobInv`: no number exceeds `Returned`, the operation whose call came back last;
  an operation has at most one job, queued or running; past its check a play job
  meets no session of a newer operation (`PastInv`). The last one holds because the
  check happens under the mutex and the job keeps the mutex: a newer session can
  only be made by the next holder. It gives `StalePlayIsHarmless`.
* `PromiseInv`: while the job of the newest operation has not answered, nothing about
  that operation is in the channel and the phase is the one the call left; of its
  events at most one is a success, which comes first and finds that phase, and a
  failure is the last. It gives `PhasesArePromised`: the controller with its
  executor, jobs and events, and with rejected jobs, implements `PlaybackPhases`,
  each call being a step of it, each event that counts an answer, and everything
  else a stutter.
* `RealInv`: of a local success in the channel, as of the phase Playing, one of three
  holds: the stream is open and its job in the session loop, the job is about to
  report, or an Error is *behind it* in the channel. It is about the place in the
  channel because events are applied in order. It gives `LocalIsReal`.
* `RoomInv` and `OverInv`: once the newest operation stopped or failed, or an event in
  the channel will say so, nothing is audible, no job is past its check and no play job of
  that operation is left; whoever gets the mutex next is superseded or stops.
  It gives `OverIsSilent`, under the condition `Room`: the queue takes two jobs for
  each operation and one for each slider move. Without it the statement is false
  (the code leaves a receiver playing when the stop job is rejected), and the run
  that checks it has that room.

What a step of the mutex's holder may do is stated once (`Works`: where it goes, what
it touches, what it says) and proved of every action of the two jobs under the mutex
(`HolderWorks`); the invariants are proved from that, and likewise from `Called`
(what a call leaves behind) and `Beside` (what happens between calls).

**`StatePublisherProofs`.** `IndInv` adds `SavedInv` (the slot's number is the
one in memory, the disk is behind), `SlotInv`, `ConnectionInv`, `CaughtUp` (on a
connection without a resync, having sent the slot's number means having sent its
fact) and `LogInv` (unless a number was taken ahead, what went out under the
newest number is the newest fact and nothing went out above it). Theorems:
`PublisherTypeCorrect`, `NoFactSkipped`, `OneFactPerRevision`, and the action
property `RevisionsNeverFall`.

**`RemoteCommandsProofs`.** For the ledger, `LedgerInv` adds `HandedOver` (an id was taken once
more than forgotten exactly while it is in flight or completed), `RefusedOK`,
`AnswersOK` and `OutboxOK` (what the server has, and what the worker is about to
send, is the result the book has, as long as that id was not forgotten). The
last one is needed because results are sent without the mutex. Theorems:
`LedgerTypeCorrect`, `LedgerConsistent`, `NeverReplayed`, `NeverTwoVerdicts`.
For the egui thread, `RemoteInv` adds the owner of each command in
flight and the operation a pending command waits for. Theorems:
`RemoteImplementsLedger` (each step of the egui thread is a step of the ledger
or leaves it alone; a command that is replaced is answered in the same step),
`EveryCommandOwned`, `SuccessIsReal`, and `RemoteTypeCorrect`, which `TypesStep`
gives from that invariant. The type invariants of `Playback`, `StatePublisher`,
`CommandLedger` and `RemoteCommands` hold by theorem and are not listed in a run.

**`CastSessionsProofs`.** `SessionPlays` says what a receiver does from what the
program *believes*, so the invariant follows the belief back to its source:
`PlayedInv` says that every report which `load_media` may take for its success, in
the inbox or still on the wire, is of a receiver that plays this operation. It holds
since a fresh connection has no reports and the receiver only reports on what it
was sent on it; `PhaseInv` gives the first. `Scan` goes along the inbox with its count
of IDLE reports (`HitsUpTo`), and `HitsLow` proves that a scan which goes on
has not reached the limit. `SilenceInv` excuses the receiver of an operation only while
that operation is setting up, and a receiver in `abandoned` until a STOP reaches it or it
has a session again. Theorems: `SessionsAreTyped` (with `HeartbeatsAreKnown`),
`RecordedSessionPlays`, `NobodyElsePlays`.

**`AccountProofs`.** `ThreadInv`: who is in the critical section owns the mutex, a
thread that will wipe the store has read a binding the server revoked. It gives
`ForgettingIsEarned`. That the panel's channel is bounded, a part of `AccountTypeOK`,
counts what may still be sent: `Toll` is the messages in the channel, one for
each load that runs, two for each request that is yet to be made and one for each that is
being shown or polled; a step that sends lowers it elsewhere, and the panel starts
another load only after it has taken a message. `StagesInv` keeps a request in one
of those stages. Theorem: `AccountIsTyped`.

**`StreamsProofs`.** Both rings are described by numbers that only grow, not by
indices: `At(p)` is what the lock-free ring holds of sample number `p`, and what
little division and remainder are needed for comes first (`RoundDown`, `Multiples`,
`RingPlace`). For the local session the invariant says that the queues hold
consecutive numbers and that a slot between the indices holds the sample whose number
it should, while the callback reads between two writes of a push (`DrainKeepsOrder`,
`RingStep`); for the relay, that each client stands between samples, inside the
ring or in what it was handed (`ClientsStep`). Theorems: `StreamsAreTyped`,
`SamplesStayAligned`, and the action property `NothingTwice`.

**`WindowProofs`.** For the station list, `NoStationTwice` needs what the helpers on
sequences do (`KeepFacts`, `FirstFacts`, `AfterFacts`): that filtering the rows keeps
their order and distinctness, and where a row goes when others are removed. Distinct are
only the rows of stations with one address (`Steady`); that a second row of such a station
cannot come from the playing row, a delivery or a lookup is where their one address is used. These are proved by
a smallest counterexample from the well-foundedness of the naturals, the
form of induction the prover can be given. `PagesFollowOn` adds to the types that
a request in flight names the offset and the query of the rows it will be appended to
(`SkipStep`). For a voice command, the recording, what is in the channel and what the
session has written make up what was heard, in order (`TogetherStep`). For the settings,
`KeptInv`: the newest settings are in the first non-empty of dirty, slot,
thread and disk, unless the write of these very settings failed (`lost`; a failed write of
older ones sets nothing). Theorems: `WindowIsTyped`, `RowsAreDistinct`, `PagesFollowOn`,
`RecordingIsWhole`, `FlushSavesTheLast`.

**`PersonalSyncProofs`.** The assumption is `SyncAssumption`: finitely many records, of
which no favourite is of two stations, some account, a batch and caps of at least one. Ids
are numbers because a cap orders equal stamps by id; without that order more records than
`MAX_FAVOURITES` or `MAX_HISTORY` could be kept (`TopFits`), and `TypeOK` could not be
proved. None of the three properties is inductive. `IInv` is:

* `Types` adds to `TypeOK` that a live version is below the last stamp, so that the
  tombstone which beats it is still a stamp, and which stages of a cycle have answers.
* `BaseInv` (unless a reset was not saved) has two parts. `TrueOf` says of a base and its
  cursor, in memory (`sync`) and on the disk (`saved`) alike, that the base is behind the
  account and, for what the account held up to the cursor, equal to it; a restart loads
  `saved`, hence both. `OnCourse` says, record by record, how far the running cycle is:
  what differs from the base is still in a request to come; what merging the answers
  would make of the profile is no newer than the account; and once there is an answer it
  *is* what the account says, or a request to come will change that. It is about the
  merge of the answers with the profile *as it is now*, since `Apply` uses that one, and
  excepts records edited during the cycle and all of them after pairing again.
* `Fit` gives the tombstones: what a base has and the profile (or the file a restart
  loads it with) lacks was removed by somebody or retired by the store, and so is what
  requests, answers and accounts have as deleted. That holds of an eviction by
  `record_play`, of the 90 days and of a start, since each of them retires what it takes out
  of the profile (`EditFits`, `RestartFits`), and of a merge that could not be saved
  (`MergeFits`), which leaves the old base. That `saved.base` is compared with `file` *and* `profile` is
  what makes a crash between the two saves harmless.

`MergeAll` is defined along the answers, so what it makes of a record (`SameOutcome`,
`OutcomeFacts`, `MergeAllType`) is proved by a smallest counterexample. `Deliver` is the
step that carries the argument (`DeliverOnCourse`): the first answer has everything since the
cursor, later ones everything, and each echoes what it pushed, whoever won. Theorems:
`BaseStaysAcknowledged`, `CursorPassesNothingBy`, `DeletionsAreMeant`.

**Only model-checked.** Every invariant and every action property of the passing runs,
and both refinements, are theorems. The liveness properties (`OperationSettles`,
`OldDecodersEnd`, `SnapshotsArrive`, `ResultsAreSent`, `CurrentIsAnswered`, `Converges`,
`PlayEnds`, `SessionsEnd`, `PanelSettles`, `WindowSettles`) are not: liveness under
fairness is out of the prover's reach. Nor are the three statements the code does not
keep (section 3), of which TLC has the counterexamples.

## 6. Hazards

`PROJECT.json` lists what is hard to test in this code, each at its line, with
the properties that cover it. The one hazard without a property has a note that says
why the code promises nothing.

## 7. Plan

1. For the three documented statements that fail, the strongest condition under which
   they hold, as theorems: `StaleStopTouchesNothing` when the stop job gets the mutex
   first, `PairingIsDurable` when no renewal overlaps, `MovedIsFavourite` when the
   station found is no favourite yet.
2. The safety halves of liveness properties that are worth a theorem of their own, such
   as `RestartNeverReplays` under the condition that the number was saved.

## 8. Not modelled

* **Stream observers**: their start is refused in every playback the program offers.
* **Discovery, RockServer configuration, icons**: scans, URLs and a cache; their
  failures are visible and harmless, and no state of another component depends on their
  order. An icon whose job was refused by a full queue is not asked for again.
* **Diagnostics, texts, drawing**: no behaviour others depend on.
* **Conversions**: TLS and protobuf, HTTP and WAV headers, codecs, resampling,
  spectrum, ranking of voice candidates, matching of station names.
* Of personal data and its sync: failed saves of an edit, upserts that change only
  metadata, files that cannot be parsed, `rollback_migration`, the one-time restore of
  quarantined records at a start, and the remapping of legacy station ids itself: the
  favourites of one station are of one station from the beginning, and a record never
  changes its station. `last_played_at` is taken for `updated_at`, as `record_play` sets
  both; ties between entries are decided by id and not by `started_at`; which favourite of a
  station was added first is left open. The cutoff of the 90 days is chosen anew each time
  the store looks, which allows more than a clock does.
* Of the station list: legacy ids and normalised URLs in the de-duplication of a page
  (`app/actions/poll/catalog.rs:223-239`), so rows that are duplicates only by these.
* Of other modelled components: revoking another device and the two files of the Windows credential store; history
  rows, and favorites the user toggles, in the station list; migration of old settings;
  the list of output devices.

`PROJECT.json` gives the reason for each component.
