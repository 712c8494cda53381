----------------------------- MODULE StationList -----------------------------
(***************************************************************************)
(* The station list of the window: the local catalog, the searches and     *)
(* further pages answered by background jobs                               *)
(* (src/app/actions/catalog.rs, src/app/actions/poll/catalog.rs), a voice  *)
(* command that replaces the list and plays                                *)
(* (src/app/actions/voice.rs, src/app/actions/poll/voice.rs), favourites   *)
(* looked up one by one, and the playback that selects and removes rows    *)
(* (src/app/actions/playback.rs, src/app/actions/poll/playback.rs).        *)
(*                                                                         *)
(* A station is its identifier and the address of its stream.  The local   *)
(* snapshot, the server and a phone may know one identifier by different   *)
(* addresses.  The jobs run in parallel, so a job that ends and the        *)
(* message it sends handled is one step, and the jobs end in any order.    *)
(***************************************************************************)
EXTENDS Naturals, Sequences, FiniteSets

CONSTANTS
    Stations,    \* stations as their sources describe them: id and url
    Home,        \* the empty query
    Queries,     \* the other queries
    Matches,     \* what the server finds for a query, all pages
    Catalog,     \* the local snapshot
    Spoken,      \* the candidates of a voice command
    Delivered,   \* what a phone may ask for (station.play_stream)
    Moved,       \* where a lookup by identifier may find a station
    Favourites,  \* favourites of the profile at the start, by identifier
    Page,        \* stations in a page of the server
    MaxActions   \* bound: what users do, in the window or on a phone

None      == ""
NoStation == [id |-> None, url |-> None]

Seen(seq)    == {seq[i] : i \in DOMAIN seq}
Ids(seq)     == {s.id : s \in Seen(seq)}
Streams(seq) == {s.url : s \in Seen(seq)}
First(seq, n) == SubSeq(seq, 1, IF n < Len(seq) THEN n ELSE Len(seq))
Named(id)      == {s \in Stations : s.id = id}
Streaming(url) == {s \in Stations : s.url = url}

\* No identifier is found twice in one answer of the server or one snapshot.
Once(seq) == \A i, j \in DOMAIN seq : seq[i].id = seq[j].id => i = j

ASSUME StationListAssumption ==
    /\ IsFiniteSet(Stations) /\ Home \notin Queries
    /\ \A s \in Stations : s.id # None /\ s.url # None
    /\ Matches \in [Queries \cup {Home} -> Seq(Stations)]
    /\ Catalog \in Seq(Stations) /\ Spoken \in Seq(Stations) \ {<<>>}
    /\ Once(Catalog) /\ Once(Spoken) /\ \A q \in Queries \cup {Home} : Once(Matches[q])
    /\ Favourites \subseteq {s.id : s \in Stations} /\ Delivered \subseteq Stations
    /\ Moved \in [{s.id : s \in Stations} -> SUBSET Stations]
    /\ Page \in Nat \ {0} /\ MaxActions \in Nat

VARIABLES
    list,         \* stations
    selected,     \* selected_station, 0 is none
    saved,        \* settings.station_url
    request,      \* station_request_id
    query,        \* active_search_query
    loading,      \* loading_stations
    searches,     \* searches no job has answered
    loadingMore,  \* loading_more_stations
    moreError,    \* loading_more_error
    hasMore,      \* station_has_more
    offset,       \* station_search_offset
    cursor,       \* station_catalog_cursor
    pages,        \* pages no job has answered
    voiceBusy,    \* voice_busy
    listening,    \* voice sessions that have not answered
    pendingPlay,  \* pending_voice_play
    fallback,     \* voice_fallback
    player,       \* playing and playing_op, and what the last operation was
    played,       \* what play() was called with last: playback_station_id and the address
    lastPlayed,   \* last_played_station
    favourites,   \* favourites of the profile
    resolving,    \* resolving_stations
    lookups,      \* lookups no job has answered
    failed,       \* failed_resolving_stations
    device,       \* an output device is selected
    actions,      \* what the user has done
    removed       \* rows that were removed, or given another address

rowVars    == <<list, selected, saved>>
searchVars == <<request, query, loading, searches>>
pageVars   == <<loadingMore, moreError, hasMore, offset, cursor>>
voiceVars  == <<voiceBusy, listening>>
planVars   == <<pendingPlay, fallback>>
playVars   == <<player, played, lastPlayed, removed>>
profileVars == <<favourites, resolving, lookups, failed>>
stationVars == <<rowVars, searchVars, pageVars, pages, voiceVars, planVars, playVars, profileVars,
          device, actions>>

\* Where the first one of set is, and those of set in their order.
Position(seq, set) ==
    CHOOSE i \in DOMAIN seq : seq[i] \in set /\ \A j \in 1..(i - 1) : seq[j] \notin set
Keep(seq, set) ==
    LET kept[n \in 0..Len(seq)] ==
            IF n = 0 THEN <<>>
            ELSE IF seq[n] \in set THEN Append(kept[n - 1], seq[n]) ELSE kept[n - 1]
    IN  kept[Len(seq)]

\* The first search and the first scan of bootstrap are under way.
ListInit ==
    /\ list = <<>> /\ selected = 0 /\ saved \in {None} \cup {s.url : s \in Stations}
    /\ request = 1 /\ query = Home /\ loading = TRUE
    /\ searches = {[id |-> 1, query |-> Home]}
    /\ loadingMore = FALSE /\ moreError = FALSE /\ hasMore = FALSE
    /\ offset = 0 /\ cursor = 0 /\ pages = {}
    /\ voiceBusy = FALSE /\ listening = 0 /\ pendingPlay = FALSE /\ fallback = <<>>
    /\ player = "idle" /\ played = NoStation /\ lastPlayed = NoStation /\ removed = {}
    /\ favourites = Favourites /\ resolving = {} /\ lookups = {} /\ failed = {}
    /\ device = FALSE /\ actions = 0

Act == actions < MaxActions /\ actions' = actions + 1

-----------------------------------------------------------------------------
(***************************************************************************)
(* Searches and pages.                                                     *)
(***************************************************************************)

\* search_stations.  The last disjunct: the queue of jobs is full.
SearchStations(q) ==
    /\ request' = request + 1 /\ query' = q
    /\ loadingMore' = FALSE /\ moreError' = FALSE /\ hasMore' = FALSE
    /\ offset' = 0 /\ cursor' = 0
    /\ \/ loading' = TRUE /\ searches' = searches \cup {[id |-> request + 1, query |-> q]}
       \/ loading' = FALSE /\ searches' = searches

\* The search bar, a genre chip, the way home.
Search ==
    /\ Act /\ \E q \in Queries \cup {Home} : SearchStations(q)
    /\ UNCHANGED <<rowVars, pages, voiceVars, planVars, playVars, profileVars, device>>

\* preserve_playing_station
Listed(l) == played.id \in Ids(l) \/ saved \in Streams(l)
Preserved(l) ==
    LET playing == Named(played.id) \cup Streaming(saved)
    IN  IF Listed(l) \/ Seen(list) \cap playing = {} THEN l
        ELSE <<list[Position(list, playing)]>> \o l

\* resolve_station_selection
Clamped(l) == IF l = <<>> THEN 0 ELSE IF selected \in 1..Len(l) THEN selected ELSE 1
Selection(l) ==
    IF played.id \in Ids(l) THEN Position(l, Named(played.id))
    ELSE IF saved \in Streams(l) THEN Position(l, Streaming(saved))
    ELSE Clamped(l)

\* What the server finds after the first n.
After(q, n) == First(SubSeq(Matches[q], n + 1, Len(Matches[q])), Page)

\* rockserver::search, which goes on by offset, and list_catalog, which goes on by cursor.
SearchPage(q, n) ==
    LET l == After(q, n)
    IN  [list |-> l, offset |-> n + Len(l), cursor |-> 0, more |-> n + Len(l) < Len(Matches[q])]
CatalogPage(n) ==
    LET l == After(Home, n)
    IN  [list |-> l, offset |-> 0, cursor |-> n + Len(l),
         more |-> l # <<>> /\ n + Len(l) < Len(Matches[Home])]

\* The stations of the local catalog that match.
Offline(q) == Keep(Catalog, {s \in Stations : s.id \in Ids(Matches[q])})

\* What a search job sends: the server's first page, or what the local catalog holds.
Answers(q) ==
    IF q = Home THEN {[list |-> Catalog, more |-> TRUE]}
    ELSE {[list |-> SearchPage(q, 0).list, more |-> SearchPage(q, 0).more],
          [list |-> Offline(q), more |-> FALSE]}

FirstShown(answer, l) == Len(l)
AfterFirst(answer, l) == Len(answer)

Current(id) == id = request

\* handle_stations_loaded
StationsLoaded ==
    \E job \in searches, a \in Answers(Home) \cup UNION {Answers(q) : q \in Queries} :
        /\ a \in Answers(job.query)
        /\ searches' = searches \ {job}
        /\ IF Current(job.id)
           THEN LET l == Preserved(a.list)
                IN  /\ list' = l /\ selected' = Selection(l)
                    /\ offset' = AfterFirst(a.list, l) /\ cursor' = 0 /\ hasMore' = a.more
                    /\ loadingMore' = FALSE /\ moreError' = FALSE /\ loading' = FALSE
           ELSE UNCHANGED <<list, selected, loading, pageVars>>
        /\ UNCHANGED <<saved, request, query, pages, voiceVars, planVars, playVars, profileVars,
                       device, actions>>

\* load_more_stations, by scrolling or, after an error, by the footer.
LoadMore ==
    /\ ~loading /\ ~loadingMore /\ hasMore
    /\ IF moreError THEN Act ELSE UNCHANGED actions
    /\ moreError' = FALSE
    /\ \/ /\ loadingMore' = TRUE
          /\ pages' = pages \cup {[id |-> request, query |-> query, offset |-> offset,
                                   cursor |-> cursor]}
       \/ UNCHANGED <<loadingMore, pages>>
    /\ UNCHANGED <<rowVars, searchVars, hasMore, offset, cursor, voiceVars, planVars, playVars,
                   profileVars, device>>

\* deduplicate_new_stations: what is new by identifier and address, and of one address
\* the first station.
NewOnes(l) ==
    LET new == {s \in Seen(l) : s.id \notin Ids(list) /\ s.url \notin Streams(list)}
    IN  Keep(l, {s \in new : l[Position(l, new \cap Streaming(s.url))] = s})
AllOfThem(l) == l
Fresh(l) == NewOnes(l)

\* handle_more_stations_loaded
MoreStationsLoaded ==
    \E job \in pages :
        LET p == IF job.query = Home THEN CatalogPage(job.cursor)
                 ELSE SearchPage(job.query, job.offset)
        IN  /\ pages' = pages \ {job}
            /\ IF Current(job.id)
               THEN /\ list' = list \o Fresh(p.list)
                    /\ loadingMore' = FALSE /\ moreError' = FALSE
                    /\ hasMore' = p.more /\ offset' = p.offset /\ cursor' = p.cursor
               ELSE UNCHANGED <<list, pageVars>>
            /\ UNCHANGED <<selected, saved, searchVars, voiceVars, planVars, playVars,
                           profileVars, device, actions>>

\* handle_more_stations_failed
MoreStationsFailed ==
    \E job \in pages :
        /\ pages' = pages \ {job}
        /\ loadingMore' = IF Current(job.id) THEN FALSE ELSE loadingMore
        /\ moreError' = IF Current(job.id) THEN TRUE ELSE moreError
        /\ UNCHANGED <<rowVars, searchVars, hasMore, offset, cursor, voiceVars, planVars,
                       playVars, profileVars, device, actions>>

-----------------------------------------------------------------------------
(***************************************************************************)
(* Playback as far as it moves the selection.                              *)
(***************************************************************************)

\* play(), with the i-th of l selected; the caller has saved url.
Play(l, i, url) ==
    /\ list' = l /\ selected' = i
    /\ IF i # 0 /\ device
       THEN player' = "starting" /\ played' = l[i] /\ saved' = l[i].url
       ELSE UNCHANGED <<player, played>> /\ saved' = url

\* stop()
StopPlayback == player' = "stopping" /\ pendingPlay' = FALSE /\ fallback' = <<>>

\* A row is clicked, or clicked twice.
Select ==
    /\ Act /\ \E i \in DOMAIN list :
          \/ selected' = i /\ saved' = list[i].url /\ UNCHANGED <<list, player, played>>
          \/ Play(list, i, list[i].url)
    /\ UNCHANGED <<searchVars, pageVars, pages, voiceVars, planVars, lastPlayed, removed,
                   profileVars, device>>

Stop ==
    /\ Act /\ player # "idle" /\ StopPlayback
    /\ UNCHANGED <<rowVars, searchVars, pageVars, pages, voiceVars, played, lastPlayed, removed,
                   profileVars, device>>

\* RemoteCommandPlan::PlayDelivered: the row of this identifier gets the address that was
\* delivered, or the station a row of its own.
PlayDelivered(s) ==
    LET i == IF s.id \in Ids(list) THEN Position(list, Named(s.id)) ELSE Len(list) + 1
    IN  /\ Play(IF i \in DOMAIN list THEN [list EXCEPT ![i] = s] ELSE Append(list, s), i, saved)
        /\ removed' = removed \cup (Seen(list) \ Seen(list'))
        /\ fallback' = <<>>

\* The commands of a phone that play: a station it delivers; a row, the next or the previous
\* one; the one selected (poll_device_control_commands).
RemotePlay ==
    /\ Act
    /\ \/ \E s \in Delivered : PlayDelivered(s)
       \/ \E i \in DOMAIN list : Play(list, i, saved) /\ fallback' = <<>> /\ UNCHANGED removed
       \/ Play(list, selected, saved) /\ UNCHANGED <<fallback, removed>>
    /\ UNCHANGED <<searchVars, pageVars, pages, voiceVars, pendingPlay, lastPlayed, profileVars,
                   device>>

\* PlayOk: the row with this stream is remembered.  StopOk.
PlaybackSettles ==
    /\ \/ /\ player = "starting" /\ player' = "playing"
          /\ lastPlayed' = IF played.url \in Streams(list)
                           THEN list[Position(list, Streaming(played.url))]
                           ELSE lastPlayed
       \/ player = "stopping" /\ player' = "idle" /\ UNCHANGED lastPlayed
    /\ UNCHANGED <<rowVars, searchVars, pageVars, pages, voiceVars, planVars, played, removed,
                   profileVars, device, actions>>

\* PlaybackEvent::Error: the selected row goes, and a voice command tries its next candidate.
PlaybackFails ==
    /\ player # "idle"
    /\ LET url  == IF selected = 0 THEN None ELSE list[selected].url
           Rest(u, l) == Keep(l, Stations \ Streaming(u))
           left == Rest(url, list)
       IN  IF fallback = <<>>
           THEN /\ list' = left /\ selected' = 0 /\ player' = "idle"
                /\ UNCHANGED <<saved, played, fallback>>
           ELSE LET l == <<Head(fallback)>> \o Rest(Head(fallback).url, left)
                IN  /\ fallback' = Tail(fallback) /\ list' = l /\ selected' = 1
                    /\ IF device
                       THEN player' = "starting" /\ played' = l[1] /\ saved' = l[1].url
                       ELSE player' = "idle" /\ UNCHANGED <<saved, played>>
    /\ removed' = removed \cup (Seen(list) \ Seen(list'))
    /\ UNCHANGED <<searchVars, pageVars, pages, voiceVars, pendingPlay, lastPlayed, profileVars,
                   device, actions>>

\* handle_device_found: a device is selected, and a waiting voice command plays.
DeviceFound ==
    /\ ~device /\ device' = TRUE
    /\ IF pendingPlay /\ selected # 0
       THEN /\ pendingPlay' = FALSE /\ player' = "starting" /\ played' = list[selected]
            /\ saved' = list[selected].url
       ELSE UNCHANGED <<pendingPlay, player, played, saved>>
    /\ UNCHANGED <<list, selected, searchVars, pageVars, pages, voiceVars, fallback, lastPlayed,
                   removed, profileVars, actions>>

-----------------------------------------------------------------------------
(***************************************************************************)
(* Voice.                                                                  *)
(***************************************************************************)

KeepLoading == UNCHANGED <<loading, loadingMore>>
StopLoading == loading' = FALSE /\ loadingMore' = FALSE

\* start_voice.  The last disjunct: the queue of jobs is full.
StartVoice ==
    /\ Act /\ ~voiceBusy
    /\ IF player = "playing" THEN StopPlayback ELSE UNCHANGED <<player, planVars>>
    /\ request' = request + 1 /\ StopLoading
    /\ \/ voiceBusy' = TRUE /\ listening' = listening + 1
       \/ UNCHANGED voiceVars
    /\ UNCHANGED <<rowVars, query, searches, moreError, hasMore, offset, cursor, pages, played,
                   lastPlayed, removed, profileVars, device>>

\* cancel_voice; the session goes on, and what it has recorded is sent.
CancelVoice ==
    /\ Act /\ voiceBusy /\ voiceBusy' = FALSE
    /\ UNCHANGED <<rowVars, searchVars, pageVars, pages, listening, planVars, playVars,
                   profileVars, device>>

\* play_last_station: the row of the station the profile's history begins with, which another
\* device may have put there; or the station this window has played last, by its address.
PlayLast ==
    \/ \E s \in Seen(list) : Play(list, Position(list, Named(s.id)), saved) /\ UNCHANGED fallback
    \/ /\ lastPlayed # NoStation /\ fallback' = <<>>
       /\ IF lastPlayed.url \in Streams(list)
          THEN Play(list, Position(list, Streaming(lastPlayed.url)), saved)
          ELSE Play(<<lastPlayed>> \o list, 1, saved)
    \/ lastPlayed = NoStation /\ UNCHANGED <<rowVars, player, played, fallback>>

\* apply_voice_control: stop, the next or the previous row, the station played last.
Control ==
    \/ StopPlayback /\ UNCHANGED <<rowVars, played>>
    \/ /\ \E i \in {selected - 1, selected + 1} :
             IF selected # 0 /\ i \in DOMAIN list
             THEN Play(list, i, saved) /\ fallback' = <<>>
             ELSE UNCHANGED <<rowVars, player, played, fallback>>
       /\ UNCHANGED pendingPlay
    \/ PlayLast /\ UNCHANGED pendingPlay

Answered == voiceBusy' = FALSE /\ listening' = listening - 1

\* handle_voice_result: a failure, a command the server carried out, a control command.
VoiceSaysNoStation ==
    /\ listening > 0 /\ Answered
    /\ Control \/ UNCHANGED <<rowVars, planVars, player, played>>
    /\ UNCHANGED <<searchVars, pageVars, pages, lastPlayed, removed, profileVars, device,
                   actions>>

\* handle_voice_result: the candidates become the list; then their query is searched for.
VoiceFindsStations ==
    /\ listening > 0 /\ Answered
    /\ \E autoPlay \in BOOLEAN :
          IF autoPlay
          THEN /\ Play(Spoken, 1, saved) /\ fallback' = Tail(Spoken)
               /\ pendingPlay' = IF device THEN pendingPlay ELSE TRUE
          ELSE /\ list' = Spoken /\ selected' = 1 /\ UNCHANGED <<saved, player, played>>
               /\ fallback' = <<>> /\ pendingPlay' = FALSE
    /\ \/ /\ request' = request + 1 /\ loading' = FALSE /\ loadingMore' = FALSE
          /\ moreError' = FALSE /\ hasMore' = FALSE /\ offset' = Len(Spoken)
          /\ UNCHANGED <<query, searches, cursor>>
       \/ \E q \in Queries : SearchStations(q)
    /\ UNCHANGED <<pages, lastPlayed, removed, profileVars, device, actions>>

-----------------------------------------------------------------------------
(***************************************************************************)
(* Favourites that are not in the list.                                    *)
(***************************************************************************)

\* begin_resolve_missing_station: the favourites are shown, or a missing one is to be played.
BeginResolve ==
    \E s \in favourites \ (Ids(list) \cup resolving), auto \in BOOLEAN :
        /\ Act /\ (auto \/ s \notin failed)
        /\ \/ /\ resolving' = resolving \cup {s}
              /\ lookups' = lookups \cup {[station |-> s, autoPlay |-> auto]}
           \/ UNCHANGED <<resolving, lookups>>
        /\ UNCHANGED <<rowVars, searchVars, pageVars, pages, voiceVars, planVars, playVars,
                       favourites, failed, device>>

Toggle(set, s) == IF s \in set THEN set \ {s} ELSE set \cup {s}

\* resolve_missing_station: the snapshot first, then the server by identifier and by name.
Found(id) == IF id \in Ids(Catalog) THEN Named(id) \cap Seen(Catalog) ELSE Moved[id]

\* handle_station_resolved
StationResolved ==
    \E job \in lookups :
        /\ lookups' = lookups \ {job} /\ resolving' = resolving \ {job.station}
        /\ \/ /\ failed' = failed \cup {job.station}
              /\ UNCHANGED <<rowVars, player, played, favourites>>
           \/ \E s \in Found(job.station) :
                 /\ favourites' = IF s.id # job.station /\ job.station \in favourites
                                  THEN Toggle(favourites \ {job.station}, s.id) ELSE favourites
                 /\ LET l == IF s.id \in Ids(list) THEN list ELSE Append(list, s)
                        i == Position(l, Named(s.id))
                    IN  IF job.autoPlay THEN Play(l, i, l[i].url)
                        ELSE list' = l /\ UNCHANGED <<selected, saved, player, played>>
                 /\ UNCHANGED failed
        /\ UNCHANGED <<searchVars, pageVars, pages, voiceVars, planVars, lastPlayed, removed,
                       device, actions>>

-----------------------------------------------------------------------------
ListNext ==
    \/ Search \/ StationsLoaded \/ LoadMore \/ MoreStationsLoaded \/ MoreStationsFailed
    \/ Select \/ Stop \/ RemotePlay \/ PlaybackSettles \/ PlaybackFails \/ DeviceFound
    \/ StartVoice \/ CancelVoice \/ VoiceSaysNoStation \/ VoiceFindsStations
    \/ BeginResolve \/ StationResolved

ListSpec == ListInit /\ [][ListNext]_stationVars

\* A search waits for HTTP with a timeout, a voice session for the end of its recording and
\* for the server with one, a lookup for HTTP.
ListFairness ==
    /\ WF_stationVars(StationsLoaded) /\ WF_stationVars(MoreStationsLoaded \/ MoreStationsFailed)
    /\ WF_stationVars(VoiceSaysNoStation \/ VoiceFindsStations) /\ WF_stationVars(StationResolved)

-----------------------------------------------------------------------------
(***************************************************************************)
(* Properties.                                                             *)
(***************************************************************************)

\* Every variable has its type, and no station is selected that is not in the list
\* (UI code indexes stations by selected_station).
ListTypeOK ==
    /\ list \in Seq(Stations) /\ selected \in 0..Len(list)
    /\ saved \in {None} \cup {s.url : s \in Stations}
    /\ request \in Nat /\ query \in Queries \cup {Home}
    /\ loading \in BOOLEAN /\ loadingMore \in BOOLEAN /\ moreError \in BOOLEAN
    /\ hasMore \in BOOLEAN /\ offset \in Nat /\ cursor \in Nat
    /\ searches \subseteq [id : 1..request, query : Queries \cup {Home}]
    /\ voiceBusy \in BOOLEAN /\ listening \in Nat
    /\ pendingPlay \in BOOLEAN /\ fallback \in Seq(Stations)
    /\ player \in {"idle", "starting", "playing", "stopping"}
    /\ {played, lastPlayed} \subseteq Stations \cup {NoStation} /\ removed \subseteq Stations
    /\ favourites \cup failed \subseteq {s.id : s \in Stations}
    /\ resolving = {job.station : job \in lookups}
    /\ device \in BOOLEAN /\ actions \in 0..MaxActions

\* All sources agree on the address of a station.
Steady(s) == Named(s.id) = {s}

\* A station whose sources agree on its address has one row: rows are favourites, icons and
\* history by identifier, whatever pages, playing stations, lookups, deliveries and voice
\* candidates were put together (deduplicate_new_stations, preserve_playing_station,
\* handle_station_resolved).
NoStationTwice ==
    \A i, j \in DOMAIN list : list[i].id = list[j].id /\ Steady(list[i]) => i = j

\* The test preserve_playing_station_does_not_duplicate_existing_station
\* (app/actions/poll/catalog.rs:294) of any list: no station has two rows.
\* The code does not keep to it (README, section 3).
EveryStationOnce == Once(list)

\* While a next page can be loaded, everything the server has before it has a row, with the
\* same identifier or the same stream, or had one that playback removed as unavailable or a
\* phone gave another address: a stale answer, a voice command or a row kept for the
\* playing station never makes a page be skipped.
NothingIsSkipped ==
    hasMore => \A s \in Seen(First(Matches[query], IF query = Home THEN cursor ELSE offset)) :
                  \E row \in Seen(list) \cup removed : row.id = s.id \/ row.url = s.url

\* Nothing stays busy for ever: a search, a page, a voice command and a lookup all end, whatever
\* replaces them meanwhile (loading_stations, loading_more_stations, voice_busy,
\* resolving_stations).  What the user does is bounded, so they all end together.
NothingSpins == ~loading /\ ~loadingMore /\ ~voiceBusy /\ resolving = {}
SpinnersStop == []<>NothingSpins

\* docs/status.md:17-18: a playing station that is absent from a new search page is put on top
\* of the list (handle_stations_loaded).
\* The code does not keep to it (README, section 3).
PlayingStationStays ==
    [][(player = "playing" /\ played.id \in Ids(list) /\ \E job \in searches : job \notin searches')
       => played.id \in Ids(list')]_stationVars

\* docs/status.md:51-52: a favourite that is found under a new identifier is moved to it, so
\* the station found is a favourite afterwards (handle_station_resolved).
MovedIsFavourite ==
    [][\A job \in lookups : (job \notin lookups' /\ favourites' # favourites)
           => \E s \in Found(job.station) : s.id \in favourites']_stationVars
=============================================================================
