---------------------------- MODULE PersonalSync ----------------------------
(***************************************************************************)
(* Favourites and playback history kept in step with RockServer            *)
(* (src/personal_sync, src/app/actions/personal_sync.rs) and the profile   *)
(* on disk that they live in (src/personal_data).                          *)
(*                                                                         *)
(* The egui thread owns the profile and SyncState, the versions the server *)
(* is believed to hold.  A cycle runs on a background worker with a copy   *)
(* of both: it pushes the difference in chunks and collects what the       *)
(* server answers; the egui thread merges the answers into the profile it  *)
(* has by then, and takes that profile as the new base.                    *)
(*                                                                         *)
(* A record is a favourite or an entry of the history.  Its version is its *)
(* updated_at, which is also when an entry was last played: stamps of this *)
(* device are even, those of other devices odd, and 0 is no record.        *)
(***************************************************************************)
EXTENDS Naturals, FiniteSets, FiniteSetsExt, SequencesExt

CONSTANTS
    Records,     \* record ids; a number stands for its place in the order of ids
    Accounts,    \* accounts the device can be paired with
    NoFile,      \* the profile file is missing
    Stations,    \* favourites that name the same station, station by station
    BatchLimit,  \* changes of one kind in a request (300)
    MAX_FAVOURITES, MAX_HISTORY,  \* records each collection keeps (500)
    MaxLocal,    \* bound: edits by the user of this device
    MaxRemote,   \* bound: edits by other devices
    MaxFaults    \* bound: failed cycles, pairings and process ends

ASSUME SyncAssumption ==
    /\ Records \subseteq Nat /\ Records # {} /\ IsFiniteSet(Records)
    /\ \A s \in Stations : s \subseteq Records
    /\ \A s, t \in Stations : s = t \/ s \cap t = {}
    /\ Accounts # {}
    /\ BatchLimit \in Nat \ {0} /\ MAX_FAVOURITES \in Nat \ {0} /\ MAX_HISTORY \in Nat \ {0}
    /\ MaxLocal \in Nat /\ MaxRemote \in Nat /\ MaxFaults \in Nat

VARIABLES
    profile,    \* PersonalDataStore.profile: updated_at of each record
    file,       \* the same on disk, or NoFile
    sync,       \* RockCastApp.sync_state: base and cursor
    saved,      \* the same on disk
    account,    \* the account the device is paired with
    server,     \* what each account holds of each record
    cycle,      \* the running cycle and its result
    localEdits, remoteEdits, faults,
    born,       \* record ids in use
    touched,    \* changed since the running cycle took its copy; all, if the
                \* device was paired again meanwhile
    overtaken,  \* touched during a cycle that then succeeded
    evicted,    \* dropped, for their age or by a cap, from a merged profile
                \* that then became the base
    removed,    \* removed by a user, on whatever device, or retired by the
                \* store: past the cap or the 90 days, or a second favourite
                \* of a station
    resetLost   \* a reset was not saved: a stale base may be loaded

store  == <<profile, file, sync, saved>>
ghosts == <<born, touched, overtaken, evicted, removed, resetLost>>
counts == <<localEdits, remoteEdits, faults>>
vars   == <<store, account, server, cycle, counts, ghosts>>

-----------------------------------------------------------------------------
Stamps   == 0..(2 * MaxLocal + 2)
Versions == [Records -> Stamps]
Blank    == [r \in Records |-> 0]
Live(p)  == {r \in Records : p[r] # 0}
Only(p, rs) == [r \in Records |-> IF r \in rs THEN p[r] ELSE 0]

Favourites == UNION Stations
History    == Records \ Favourites

\* SyncState::fresh and SyncState::matched_to.
Fresh          == [base |-> Blank, cursor |-> 0]
MatchedTo(p, c) == [base |-> p, cursor |-> c]

Held    == [at : Stamps, deleted : BOOLEAN, rev : Nat]
Nothing == [at |-> 0, deleted |-> FALSE, rev |-> 0]
Change  == [id : Records, at : Stamps, deleted : BOOLEAN]

Idle == [stage |-> "idle", account |-> CHOOSE a \in Accounts : TRUE, todo |-> <<>>, since |-> 0,
         got |-> <<>>, rev |-> 0]
Running == cycle.stage # "idle"

ServerRev(a) == Max({server[a][r].rev : r \in Records} \cup {0})

\* A fresh UUID for a favourite of a station, or for the history; which of the
\* unused ones it is decides no more than a tie.
NewId(rs) == CHOOSE r \in rs \ born : TRUE

\* The time on this device's clock.
Now == 2 * localEdits

-----------------------------------------------------------------------------
(***************************************************************************)
(* What the store keeps: 90 days of history, and so much of each           *)
(* collection.                                                             *)
(***************************************************************************)

\* The newest n of rs, of equal ones those that come first by id.
Before(p, x, r) == p[x] > p[r] \/ (p[x] = p[r] /\ x < r)
Top(p, rs, n) == {r \in rs : Cardinality({x \in rs : Before(p, x, r)}) < n}

\* How far the last 90 days reach back when the store looks: to before every
\* entry, or to just after some.  Time between two edits is left open, so they
\* may leave out all that was played so far, though nothing still to come.
Cutoffs(p) == {0} \cup {p[r] + 1 : r \in {x \in Live(p) \cap History : p[x] <= Now + 1}}

\* retain, which is for the history only, and the cap on favourites, which
\* applies only when answers are merged.
Recent(p, cutoff) == {r \in Live(p) \cap History : p[r] >= cutoff}
Kept(p, favourites, cutoff) == Only(p, favourites \cup Top(p, Recent(p, cutoff), MAX_HISTORY))
Retained(p, cutoff) == Kept(p, Favourites, cutoff)
Capped(p, cutoff)   == Kept(p, Top(p, Live(p) \cap Favourites, MAX_FAVOURITES), cutoff)

-----------------------------------------------------------------------------
(***************************************************************************)
(* The engine: what a cycle pushes.                                        *)
(***************************************************************************)

\* A tombstone must beat every version this device has seen.
TombstoneAt(at) == Max({Now, at + 1})

\* SyncState::diff.
OnlyNew == {r \in Live(profile) : sync.base[r] = 0}
Upserts == {r \in Live(profile) : profile[r] # sync.base[r]}
Deletes == Live(sync.base) \ Live(profile)

\* collection_chunks and chunk_requests: upserts and deletes are cut into
\* parts of BatchLimit and paired, in the order the collections happen to have.
Part(s, i) == {s[k] : k \in {j \in DOMAIN s : (j - 1) \div BatchLimit = i - 1}}
Parts(s)   == (Len(s) + BatchLimit - 1) \div BatchLimit

Request(us, ds, i) ==
    {[id |-> r, at |-> profile[r], deleted |-> FALSE] : r \in Part(us, i)}
    \cup {[id |-> r, at |-> TombstoneAt(sync.base[r]), deleted |-> TRUE] : r \in Part(ds, i)}

\* A cycle with nothing to push still pulls: one request without changes.
RequestsByDeletes(us, ds) == [i \in 1..Max({1, Parts(ds)}) |-> Request(us, ds, i)]
Requests(us, ds) == [i \in 1..Max({1, Parts(us), Parts(ds)}) |-> Request(us, ds, i)]

-----------------------------------------------------------------------------
(***************************************************************************)
(* POST /api/v1/sync (external): the last writer wins, and the answer has  *)
(* everything newer than since_revision (everything, without one) and what *)
(* became of the pushed records.                                           *)
(***************************************************************************)

Accepted(a, request) == {c \in request : c.at > server[a][c.id].at}

Stored(a, request) ==
    LET new == Accepted(a, request) IN
    [r \in Records |->
        IF \E c \in new : c.id = r
        THEN LET c == CHOOSE d \in new : d.id = r
             IN  [at |-> c.at, deleted |-> c.deleted, rev |-> ServerRev(a) + 1]
        ELSE server[a][r]]

Answer(held, request, since) ==
    {[id |-> r, at |-> held[r].at, deleted |-> held[r].deleted] :
        r \in {x \in Records : held[x].at # 0
                 /\ (held[x].rev > since \/ \E c \in request : c.id = x)}}

\* Other devices of the same account: a new record, and a newer version or the
\* removal of one the account has, by a clock that may be ahead or behind.
Remote(r, at, gone) ==
    /\ remoteEdits < MaxRemote /\ remoteEdits' = remoteEdits + 1
    /\ at > server[account][r].at /\ at % 2 = 1
    /\ server' = [server EXCEPT ![account][r] =
                    [at |-> at, deleted |-> gone, rev |-> ServerRev(account) + 1]]
    /\ born' = born \cup {r}
    /\ removed' = IF gone THEN removed \cup {r} ELSE removed
    /\ UNCHANGED <<store, account, cycle, localEdits, faults,
                   touched, overtaken, evicted, resetLost>>

RemoteAdd(rs) == rs \ born # {} /\ \E at \in Stamps : Remote(NewId(rs), at, FALSE)

RemoteEdit(r) ==
    server[account][r].at # 0 /\ \E at \in Stamps, gone \in BOOLEAN : Remote(r, at, gone)

-----------------------------------------------------------------------------
Fault == faults < MaxFaults /\ faults' = faults + 1

(***************************************************************************)
(* The user of this device.  An edit made while a cycle runs schedules     *)
(* nothing: schedule_personal_sync returns early.                          *)
(***************************************************************************)

\* The profile becomes p and is saved.  What an edit changes belongs to the
\* next cycle, unless one is running.
Edit(p) ==
    /\ localEdits < MaxLocal /\ localEdits' = localEdits + 1
    /\ profile' = p /\ file' = profile'
    /\ touched' = IF Running THEN touched \cup {r \in Records : profile'[r] # profile[r]} ELSE {}
    /\ removed' = removed \cup (Live(profile) \ Live(profile'))
    /\ UNCHANGED <<sync, saved, account, server, cycle, remoteEdits, faults,
                   overtaken, evicted, resetLost>>

Stamped(r) == [profile EXCEPT ![r] = Now + 2]

\* toggle_favourite for a station that is none, refused when there are too many.
AddFavourite(s) ==
    /\ Live(profile) \cap s = {} /\ s \ born # {}
    /\ Cardinality(Live(profile) \cap Favourites) < MAX_FAVOURITES
    /\ Edit(Stamped(NewId(s)))
    /\ born' = born \cup {NewId(s)}

\* toggle_favourite for one that is, and remove_favourite: every record of the
\* station goes.
RemoveFavourite(s) ==
    /\ Live(profile) \cap s # {}
    /\ Edit(Only(profile, Records \ s))
    /\ UNCHANGED born

\* record_play starts an entry; nothing refuses it, the oldest makes room.
NewEntry ==
    /\ History \ born # {}
    /\ \E cutoff \in Cutoffs(profile) : Edit(Retained(Stamped(NewId(History)), cutoff))
    /\ born' = born \cup {NewId(History)}

\* record_play continues the newest entry, when it is of the same station and of
\* the last five minutes.
Continue(r) ==
    /\ r \in Live(profile) \cap History
    /\ \A x \in Live(profile) \cap History : profile[x] <= profile[r]
    /\ \E cutoff \in Cutoffs(profile) :
          profile[r] >= cutoff /\ Edit(Retained(Stamped(r), cutoff))
    /\ UNCHANGED born

ClearHistory ==
    /\ Edit(Only(profile, Favourites))
    /\ UNCHANGED born

-----------------------------------------------------------------------------
(***************************************************************************)
(* A cycle.                                                                *)
(***************************************************************************)

\* tick_personal_sync: one cycle at a time.  The debounce, the period and the
\* retry delay only say when, and are left out.
Due == ~Running

\* spawn_personal_sync: the worker gets copies of the profile and of SyncState.
Start ==
    /\ Due
    /\ touched' = {}
    /\ UNCHANGED <<store, account, server, counts, born, overtaken, evicted,
                   removed, resetLost>>
    /\ \E us \in SetToSeqs(Upserts), ds \in SetToSeqs(Deletes) :
          cycle' = [Idle EXCEPT !.stage = "sending", !.account = account,
                                !.todo = Requests(us, ds), !.since = sync.cursor]

\* since_revision rides on the first request only; the others carry none.
Since == IF cycle.got = <<>> THEN cycle.since ELSE 0

\* One request served and answered.
Deliver ==
    /\ cycle.stage = "sending"
    /\ LET request == Head(cycle.todo)
           held    == Stored(cycle.account, request)
       IN  /\ server' = [server EXCEPT ![cycle.account] = held]
           /\ cycle' = [cycle EXCEPT
                 !.todo  = Tail(@),
                 !.got   = Append(@, Answer(held, request, Since)),
                 !.rev   = Max({held[r].rev : r \in Records}),
                 !.stage = IF Len(cycle.todo) = 1 THEN "done" ELSE "sending"]
    /\ UNCHANGED <<store, account, counts, ghosts>>

\* A refused token is renewed once and the request sent again; by then the
\* credentials may be those of another account.
Renew ==
    /\ cycle.stage = "sending" /\ cycle.account # account
    /\ cycle' = [cycle EXCEPT !.account = account]
    /\ UNCHANGED <<store, account, server, counts, ghosts>>

\* A request fails, before the server has seen it or after; the answers to
\* earlier requests are dropped with it.
Fail ==
    /\ cycle.stage = "sending"
    /\ Fault
    /\ \/ UNCHANGED server
       \/ server' = [server EXCEPT ![cycle.account] = Stored(cycle.account, Head(cycle.todo))]
    /\ cycle' = [cycle EXCEPT !.stage = "failed"]
    /\ UNCHANGED <<store, account, localEdits, remoteEdits, ghosts>>

\* record_sync_failure: nothing but the delay before the next cycle.
HandleFailure ==
    /\ cycle.stage = "failed"
    /\ cycle' = Idle
    /\ UNCHANGED <<store, account, server, counts, ghosts>>

-----------------------------------------------------------------------------
(***************************************************************************)
(* handle_personal_sync_result and apply_incoming_records.                 *)
(***************************************************************************)

\* A tombstone removes the record; a live version replaces an older one.
MergeLive(p, answer) ==
    [r \in Records |->
        IF \E c \in answer : c.id = r
        THEN LET c == CHOOSE d \in answer : d.id = r
             IN  IF c.deleted THEN p[r] ELSE IF c.at > p[r] THEN c.at ELSE p[r]
        ELSE p[r]]
Merge(p, answer) ==
    [r \in Records |->
        IF \E c \in answer : c.id = r
        THEN LET c == CHOOSE d \in answer : d.id = r
             IN  IF c.deleted THEN 0 ELSE IF c.at > p[r] THEN c.at ELSE p[r]
        ELSE p[r]]

\* One answer after the other.
MergeAll(p, answers) ==
    LET merged[i \in 0..Len(answers)] ==
            IF i = 0 THEN p ELSE Merge(merged[i - 1], answers[i])
    IN  merged[Len(answers)]

Merged  == MergeAll(profile, cycle.got)
Dropped == Live(Merged) \ Live(profile')

MergeAnswers ==
    /\ \E merged \in {Merged} : \E cutoff \in Cutoffs(merged) : profile' = Capped(merged, cutoff)
    /\ removed' = removed \cup Dropped

\* The new base is the profile as it is now, not the copy the cycle pushed.
NewBase == MatchedTo(profile', cycle.rev)

\* Everything is applied and the profile saved; the save of SyncState comes
\* after it, and may fail, which is only logged (bound: no oftener than a process
\* may still end and find it).
Apply ==
    /\ cycle.stage = "done"
    /\ touched' = {} /\ cycle' = Idle
    /\ MergeAnswers
    /\ evicted' = evicted \cup Dropped
    /\ file' = profile'
    /\ sync' = NewBase
    /\ \/ saved' = sync'
       \/ faults < MaxFaults /\ UNCHANGED saved
    /\ overtaken' = overtaken \cup touched
    /\ UNCHANGED <<account, server, counts, born, resetLost>>

\* The merged profile cannot be saved: the cycle counts as failed.
ApplyFails ==
    /\ cycle.stage = "done"
    /\ Fault
    /\ MergeAnswers
    /\ touched' = {} /\ cycle' = Idle
    /\ UNCHANGED <<file, sync, saved, account, server, localEdits, remoteEdits,
                   born, overtaken, evicted, resetLost>>

-----------------------------------------------------------------------------
(***************************************************************************)
(* Reset, pairing and restart.                                             *)
(***************************************************************************)

\* reset_personal_sync_state.  The cycle that may be running is not told, and
\* a save that fails is only logged.
ResetForgotten == sync' = saved /\ UNCHANGED <<saved, resetLost>>
Reset ==
    /\ sync' = Fresh
    /\ \/ saved' = Fresh /\ UNCHANGED resetLost
       \/ UNCHANGED saved /\ resetLost' = TRUE

\* handle_pairing_result.
Pair(a) ==
    /\ Fault
    /\ a # account /\ account' = a
    /\ Reset
    /\ touched' = IF Running THEN Records ELSE {}
    /\ UNCHANGED <<profile, file, server, cycle, localEdits, remoteEdits, born,
                   overtaken, evicted, removed>>

\* The process ends and starts again (open and init_personal_sync_state).
Process == /\ Fault
           /\ cycle' = Idle /\ touched' = {}
           /\ UNCHANGED <<account, server, localEdits, remoteEdits, born,
                          overtaken, evicted>>

\* remap_legacy_station_ids: of the favourites of a station the one that was
\* added first stays, with the latest version; which one that is, is left open.
SameStation(r) == UNION {s \in Stations : r \in s}
FirstAdded(p, firsts) == \A s \in Stations : Live(p) \cap s # {} => \E r \in s : firsts \cap s = {r}
Collapsed(p, firsts) ==
    [r \in Records |->
        IF r \in firsts THEN Max({p[x] : x \in SameStation(r)})
        ELSE IF r \in Favourites THEN 0 ELSE p[r]]

\* migrate_and_retain: the profile is saved again when that changed it.
Restart ==
    /\ Process
    /\ file # NoFile
    /\ \E firsts \in SUBSET (Live(file) \cap Favourites), cutoff \in Cutoffs(file) :
          /\ FirstAdded(file, firsts)
          /\ profile' = Retained(Collapsed(file, firsts), cutoff)
    /\ file' = profile'
    /\ removed' = removed \cup (Live(file) \ Live(profile'))
    /\ sync' = saved
    /\ UNCHANGED <<saved, resetLost>>

\* The profile file is gone: a blank profile, not written before the first
\* edit, and no base that could turn the loss into deletions.
RestartFresh ==
    /\ Process
    /\ profile' = Blank /\ file' = NoFile
    /\ Reset
    /\ UNCHANGED removed

-----------------------------------------------------------------------------
Init ==
    /\ profile = Blank /\ file = NoFile /\ sync = Fresh /\ saved = Fresh
    /\ account = CHOOSE a \in Accounts : TRUE
    /\ server = [a \in Accounts |-> [r \in Records |-> Nothing]]
    /\ cycle = Idle
    /\ localEdits = 0 /\ remoteEdits = 0 /\ faults = 0
    /\ born = {} /\ touched = {} /\ overtaken = {} /\ evicted = {} /\ removed = {}
    /\ resetLost = FALSE

Next ==
    \/ \E s \in Stations : AddFavourite(s) \/ RemoveFavourite(s)
    \/ NewEntry \/ ClearHistory
    \/ \E r \in Records : Continue(r)
    \/ \E rs \in Stations \cup {History} : RemoteAdd(rs)
    \/ \E r \in Records : RemoteEdit(r)
    \/ Start \/ Deliver \/ Renew \/ Fail \/ HandleFailure \/ Apply \/ ApplyFails
    \/ \E a \in Accounts : Pair(a)
    \/ Restart \/ RestartFresh

Spec == Init /\ [][Next]_vars

\* The timer comes round, requests are answered or fail, and the egui thread
\* reads its messages.  One of the four steps can always be taken, so that they
\* go on for ever is all that weak fairness asks of them.  Nobody has to edit,
\* pair or restart.
FairSpec == Spec /\ []<><<Start \/ Deliver \/ HandleFailure \/ Apply>>_vars

-----------------------------------------------------------------------------
SyncStates == [base : Versions, cursor : Nat]

WithinCaps(p) ==
    /\ Cardinality(Live(p) \cap Favourites) <= MAX_FAVOURITES
    /\ Cardinality(Live(p) \cap History) <= MAX_HISTORY

\* Every variable keeps its type, and a collection its cap (PersonalDataStore,
\* SyncState, SyncRequest).
TypeOK ==
    /\ profile \in Versions /\ WithinCaps(profile)
    /\ file \in Versions \cup {NoFile}
    /\ sync \in SyncStates /\ saved \in SyncStates
    /\ account \in Accounts /\ server \in [Accounts -> [Records -> Held]]
    /\ cycle.stage \in {"idle", "sending", "done", "failed"}
    /\ cycle.account \in Accounts
    /\ \A i \in DOMAIN cycle.todo : cycle.todo[i] \subseteq Change
    /\ \A i \in DOMAIN cycle.got : cycle.got[i] \subseteq Change
    /\ UNION {born, touched, overtaken, evicted, removed} \subseteq Records
    /\ resetLost \in BOOLEAN

\* What the profile should say of a record the server holds.
Shown(r) == IF server[account][r].deleted THEN 0 ELSE server[account][r].at

\* The base has only versions the server has acknowledged (the promise of
\* docs/status.md; matched_to), for records no edit overtook.
BaseIsAcknowledged ==
    resetLost \/ \A r \in Records \ overtaken : sync.base[r] <= server[account][r].at

\* Both: the sync's state has its types, and its base is what the server has.
SyncOK == TypeOK /\ BaseIsAcknowledged

\* The promise without the exception: edits made while a cycle runs end up in
\* the base although they were never pushed.
\* The code does not keep to it (README, section 3).
EveryBaseIsAcknowledged ==
    resetLost \/ \A r \in Records : sync.base[r] <= server[account][r].at

\* The cursor passes nothing by: what the server held up to the cursor is in
\* the profile, or the next cycle pushes a difference (sync_once, chunked
\* requests, the order of applying and saving); but for records an edit
\* overtook, and those a merge dropped for their age or by a cap
\* (apply_incoming_records), which the server goes on holding.
CursorCovers ==
    resetLost \/ \A r \in Records \ (overtaken \cup evicted) :
        server[account][r].rev <= sync.cursor =>
            profile[r] = Shown(r) \/ profile[r] # sync.base[r]

\* A tombstone on any account is for a record that a user removed or the store
\* retired, for its age, by a cap or as a second favourite of its station: what
\* is merely missing, because the profile file was lost, was read in an older
\* state or belongs to another account, is deleted nowhere (created_fresh and
\* reset_personal_sync_state).
TombstonesAreDeliberate ==
    resetLost \/ \A a \in Accounts, r \in Records : server[a][r].deleted => r \in removed

\* When edits, failures and restarts are over, the profile and the account say
\* the same of every record, but for those an edit overtook during a cycle and
\* those a merge dropped for their age or by a cap (the periodic cycle and its
\* retries).
Agree == \A r \in Records \ (overtaken \cup evicted) : profile[r] = Shown(r)
Converges == <>[](resetLost \/ Agree)

=============================================================================
