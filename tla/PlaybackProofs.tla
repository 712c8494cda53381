--------------------------- MODULE PlaybackProofs ---------------------------
(***************************************************************************)
(* Theorems about Playback, for any number of workers, operations, queue   *)
(* places and levels: type correctness, mutual exclusion of the transition *)
(* mutex's holders, that the speakers and a Chromecast never play at the   *)
(* same time, that a superseded play job leaves the newest sessions alone, *)
(* that what the caller is told of local playback and of its end is true,  *)
(* and that Playback implements PlaybackPhases.                            *)
(***************************************************************************)
EXTENDS Playback, TLAPS

\* The points of a play job on the local path, from the teardown on.
LocalPath == {"resolve", "castStop", "recheckLocal", "open", "probe", "session",
              "localErr"}

\* The mutex's holder is the one worker in its critical section.
LockInv == /\ \A w \in Workers : pc[w] \in Critical => w \in transition
           /\ \A v, w \in transition : v = w

\* No relay session exists on the local path.
RelayInv == \A w \in Workers : pc[w] \in LocalPath => relay = None

\* Only the worker that is in its session loop keeps a stream audible.
StreamInv == LocalAudible =>
                \E w \in Workers : pc[w] = "session" /\ G(w) = stream

IndInv == TypeOK /\ LockInv /\ RelayInv /\ StreamInv

-----------------------------------------------------------------------------
(***************************************************************************)
(* Typing of the building blocks.                                          *)
(***************************************************************************)
USE DEF None, Tokens

LEMMA NoJobTyped == NoJob \in Job
  BY LevelsAssumption, BoundsAssumption DEF NoJob, Job, JobOf

LEMMA PointsSplit == /\ Critical \subseteq Points /\ "free" \in Points \ Critical
                     /\ LocalPath \subseteq Critical
  BY DEF Points, Waiting, Critical, Opening, Casting, Speaking, Ending, LocalPath

LEMMA GTyped == ASSUME WorkerOK, NEW w \in Workers PROVE G(w) \in Tokens
  BY DEF WorkerOK, G, Job

LEMMA GotoTyped ==
  ASSUME WorkerOK, NEW w \in Workers, NEW p \in Points, Goto(w, p)
  PROVE  WorkerOK'
  BY DEF WorkerOK, Goto

LEMMA FinishTyped ==
  ASSUME WorkerOK, NEW w \in Workers, Finish(w)
  PROVE  WorkerOK'
  BY NoJobTyped, PointsSplit DEF WorkerOK, Finish

LEMMA SendTyped ==
  ASSUME EventOK, NEW t \in {"PlayOk", "StopOk", "Error"}, NEW g \in Tokens,
         NEW l \in BOOLEAN, Send(EventOf(t, g, l))
  PROVE  EventOK'
<1>1. EventOf(t, g, l) \in Event
  BY DEF EventOf, Event
<1> QED BY <1>1 DEF EventOK, Send

\* A token that is set stays set.
LEMMA LocalStopTyped ==
  ASSUME EngineOK, LocalStop,
         castSession' \in Tokens, loaded' \in Tokens, relay' \in Tokens,
         sessionToken' \in Tokens, decoding' \subseteq Tokens
  PROVE  /\ EngineOK'
         /\ \A g \in Tokens : cancelled[g] => cancelled'[g]
         /\ stream' = None
<1>1. cancelled' = [cancelled EXCEPT ![sessionToken] = TRUE] /\ stream' = None
  BY DEF LocalStop
<1>2. cancelled' \in [Tokens -> BOOLEAN]
  BY <1>1, Zenon DEF EngineOK
<1>3. \A g \in Tokens : cancelled[g] => cancelled'[g]
  BY <1>1 DEF EngineOK
<1>4. stream' \in Tokens
  BY <1>1, BoundsAssumption
<1> QED BY <1>1, <1>2, <1>3, <1>4 DEF EngineOK

LEMMA InitInv == Init => IndInv
<1> SUFFICES ASSUME Init PROVE IndInv
  OBVIOUS
<1>1. ControllerOK
  <2>1. phase \in Phase
    BY BoundsAssumption DEF Init, Idle, Phase
  <2>2. ui \in [op : {"idle", "play", "stop", "shutdown"}, local : BOOLEAN]
    BY DEF Init
  <2> QED BY <2>1, <2>2, BoundsAssumption DEF Init, ControllerOK
<1>2. QueueOK
  <2>1. runtimeCancelled \in BOOLEAN
    BY Zenon DEF Init
  <2> QED BY <2>1, BoundsAssumption DEF Init, QueueOK
<1>3. WorkerOK
  BY NoJobTyped, PointsSplit DEF Init, WorkerOK
<1>4. EngineOK
  <2>1. cancelled \in [Tokens -> BOOLEAN]
    BY Zenon DEF Init
  <2> QED BY <2>1, BoundsAssumption DEF Init, EngineOK
<1>5. LevelOK /\ EventOK
  BY BoundsAssumption DEF Init, LevelOK, EventOK
<1>6. LockInv
  BY DEF Init, LockInv, Critical, Opening, Casting, Speaking, Ending
<1>7. RelayInv /\ StreamInv
  BY DEF Init, RelayInv, StreamInv, LocalAudible
<1> QED BY <1>1, <1>2, <1>3, <1>4, <1>5, <1>6, <1>7 DEF IndInv, TypeOK

-----------------------------------------------------------------------------
(***************************************************************************)
(* A step of the mutex's holder, other than into or out of its session.    *)
(***************************************************************************)

Move(w, p) == \/ p \in Critical /\ Goto(w, p)
              \/ p = "free" /\ Finish(w)

\* What such a step may do to the engines, the channel and the levels.
Harmless(w, p) ==
    /\ UNCHANGED outside /\ EngineOK' /\ EventOK'
    /\ localLevel' \in 0..100 /\ castLevel' \in 0..100
    /\ p \in LocalPath => relay' = None
    /\ \/ stream' = None
       \/ p = "session" /\ stream' = G(w)
       \/ /\ pc[w] # "session" \/ cancelled'[stream']
          /\ stream' = stream
          /\ \A g \in Tokens : cancelled[g] => cancelled'[g]

LEMMA MoveInv ==
  ASSUME IndInv, NEW w \in Workers, NEW p, pc[w] \in Critical, Move(w, p),
         Harmless(w, p)
  PROVE  IndInv'
<1> USE DEF IndInv, TypeOK, Harmless
<1>1. WorkerOK'
  BY GotoTyped, FinishTyped, PointsSplit DEF Move
<1>2. ControllerOK' /\ QueueOK' /\ LevelOK'
  BY DEF ControllerOK, QueueOK, LevelOK, outside
<1>3. /\ pc' = [pc EXCEPT ![w] = p]
      /\ \A v \in Workers : v # w => job'[v] = job[v] /\ pc'[v] = pc[v]
      /\ pc'[w] = p
  BY DEF Move, Goto, Finish, WorkerOK
<1>4. LockInv'
  <2>1. CASE p \in Critical /\ Goto(w, p)
    BY <1>3, <2>1 DEF LockInv, Goto
  <2>2. CASE p = "free" /\ Finish(w)
    BY <1>3, <2>2, PointsSplit DEF LockInv, Finish
  <2> QED BY <2>1, <2>2 DEF Move
<1>5. RelayInv'
  BY <1>3, PointsSplit DEF LockInv, RelayInv
<1>6. StreamInv'
  <2>1. CASE stream' = None
    BY <2>1 DEF StreamInv, LocalAudible
  <2>2. CASE p = "session" /\ stream' = G(w)
    BY <1>3, <2>2, PointsSplit DEF StreamInv, G, Move, Goto
  <2>3. CASE /\ pc[w] # "session" \/ cancelled'[stream']
             /\ stream' = stream
             /\ \A g \in Tokens : cancelled[g] => cancelled'[g]
    BY <1>3, <2>3 DEF StreamInv, LocalAudible, EngineOK, G
  <2> QED BY <2>1, <2>2, <2>3
<1> QED BY <1>1, <1>2, <1>4, <1>5, <1>6

-----------------------------------------------------------------------------
(***************************************************************************)
(* The steps of the play and the stop job.                                 *)
(***************************************************************************)

LEMMA SharedSteps ==
  ASSUME IndInv, NEW w \in Workers,
         Check(w) \/ TearDown(w) \/ Resolve(w) \/ StopEngines(w) \/ StopCast(w)
  PROVE  IndInv'
<1>t. WorkerOK /\ EngineOK /\ EventOK /\ LevelOK /\ RelayInv
  BY DEF IndInv, TypeOK
<1>g. G(w) \in Tokens /\ None \in Tokens
  BY <1>t, GTyped, BoundsAssumption
<1> USE DEF Critical, Opening, Casting, Ending, castEngine, localEngine
<1>1. CASE Check(w)
  <2>1. pc[w] \in Critical /\ pc[w] # "session" /\ UNCHANGED outside
    BY <1>1 DEF Check
  <2>2. PICK p \in {"teardown", "free"} : Move(w, p)
    BY <1>1 DEF Check, Move
  <2>3. EventOK'
    BY <1>t, <1>1 DEF Check, EventOK
  <2>4. EngineOK' /\ stream' = stream /\ \A g \in Tokens : cancelled[g] => cancelled'[g]
    BY <1>t, <1>g, <1>1 DEF Check, EngineOK, RelayStop
  <2>5. localLevel' \in 0..100 /\ castLevel' \in 0..100
    BY <1>t, <1>1 DEF Check, LevelOK
  <2>6. p \in LocalPath => relay' = None
    BY <1>t, <1>1, <2>2 DEF Check, RelayInv, RelayStop, LocalPath
  <2> QED BY <2>1, <2>2, <2>3, <2>4, <2>5, <2>6, MoveInv DEF Harmless
<1>2. CASE TearDown(w)
  <2>1. pc[w] \in Critical /\ pc[w] # "session" /\ UNCHANGED outside
    BY <1>2 DEF TearDown
  <2>2. Move(w, "resolve")
    BY <1>2 DEF TearDown, Move
  <2>3. EventOK'
    BY <1>t, <1>2 DEF TearDown, EventOK
  <2>4. /\ LocalStop /\ castSession' \in Tokens /\ loaded' \in Tokens /\ relay' \in Tokens
       /\ sessionToken' \in Tokens /\ decoding' \subseteq Tokens
    BY <1>t, <1>g, <1>2 DEF TearDown, EngineOK, RelayStop
  <2>5. EngineOK' /\ stream' = None
    BY <1>t, <2>4, LocalStopTyped
  <2>6. localLevel' \in 0..100 /\ castLevel' \in 0..100
    BY <1>t, <1>2 DEF TearDown, LevelOK
  <2>7. "resolve" \in LocalPath => relay' = None
    BY <1>t, <1>2 DEF TearDown, RelayInv, RelayStop, LocalPath
  <2> QED BY <2>1, <2>2, <2>3, <2>4, <2>5, <2>6, <2>7, MoveInv DEF Harmless
<1>3. CASE Resolve(w)
  <2>1. pc[w] \in Critical /\ pc[w] # "session" /\ UNCHANGED outside
    BY <1>3 DEF Resolve
  <2>2. PICK p \in {"castStop", "recheckCast", "free"} : Move(w, p)
    BY <1>3 DEF Resolve, Move
  <2>3. EventOK'
    BY <1>t, <1>g, <1>3, SendTyped DEF Resolve, EventOK
  <2>4. EngineOK' /\ stream' = stream /\ \A g \in Tokens : cancelled[g] => cancelled'[g]
    BY <1>t, <1>g, <1>3 DEF Resolve, EngineOK, RelayStop
  <2>5. localLevel' \in 0..100 /\ castLevel' \in 0..100
    BY <1>t, <1>3 DEF Resolve, LevelOK
  <2>6. p \in LocalPath => relay' = None
    BY <1>t, <1>3, <2>2 DEF Resolve, RelayInv, RelayStop, LocalPath
  <2> QED BY <2>1, <2>2, <2>3, <2>4, <2>5, <2>6, MoveInv DEF Harmless
<1>4. CASE StopEngines(w)
  <2>1. pc[w] \in Critical /\ pc[w] # "session" /\ UNCHANGED outside
    BY <1>4 DEF StopEngines
  <2>2. Move(w, "stopCast")
    BY <1>4 DEF StopEngines, Move
  <2>3. EventOK'
    BY <1>t, <1>4 DEF StopEngines, EventOK
  <2>4. /\ LocalStop /\ castSession' \in Tokens /\ loaded' \in Tokens /\ relay' \in Tokens
       /\ sessionToken' \in Tokens /\ decoding' \subseteq Tokens
    BY <1>t, <1>g, <1>4 DEF StopEngines, EngineOK, RelayStop
  <2>5. EngineOK' /\ stream' = None
    BY <1>t, <2>4, LocalStopTyped
  <2>6. localLevel' \in 0..100 /\ castLevel' \in 0..100
    BY <1>t, <1>4 DEF StopEngines, LevelOK
  <2>7. "stopCast" \in LocalPath => relay' = None
    BY <1>t, <1>4 DEF StopEngines, RelayInv, RelayStop, LocalPath
  <2> QED BY <2>1, <2>2, <2>3, <2>4, <2>5, <2>6, <2>7, MoveInv DEF Harmless
<1>5. CASE StopCast(w)
  <2>1. pc[w] \in Critical /\ pc[w] # "session" /\ UNCHANGED outside
    BY <1>5 DEF StopCast
  <2>2. Move(w, "free")
    BY <1>5 DEF StopCast, Move
  <2>3. EventOK'
    BY <1>t, <1>g, <1>5, SendTyped DEF StopCast, EventOK
  <2>4. castSession' = None /\ loaded' \in {None, loaded}
    BY <1>5 DEF StopCast, RelayStop, CastStop
  <2>5. EngineOK' /\ stream' = stream /\ \A g \in Tokens : cancelled[g] => cancelled'[g]
    BY <1>t, <1>g, <1>5, <2>4 DEF StopCast, EngineOK
  <2>6. localLevel' \in 0..100 /\ castLevel' \in 0..100
    BY <1>t, <1>5 DEF StopCast, LevelOK
  <2>7. "free" \in LocalPath => relay' = None
    BY <1>t, <1>5 DEF StopCast, RelayInv, RelayStop, LocalPath
  <2> QED BY <2>1, <2>2, <2>3, <2>4, <2>5, <2>6, <2>7, MoveInv DEF Harmless
<1> QED BY <1>1, <1>2, <1>3, <1>4, <1>5

LEMMA CastSteps ==
  ASSUME IndInv, NEW w \in Workers, CastStep(w)
  PROVE  IndInv'
<1>t. WorkerOK /\ EngineOK /\ EventOK /\ LevelOK /\ RelayInv
  BY DEF IndInv, TypeOK
<1>g. G(w) \in Tokens /\ None \in Tokens
  BY <1>t, GTyped, BoundsAssumption
<1> USE DEF Critical, Casting, castEngine, localEngine
<1>1. CASE Recheck(w, "recheckCast", "relay") \/ Recheck(w, "recheckLoad", "connect")
  <2>1. pc[w] \in Critical /\ pc[w] # "session" /\ UNCHANGED outside
    BY <1>1 DEF Recheck
  <2>2. PICK p \in {"relay", "connect", "free"} : Move(w, p)
    BY <1>1 DEF Recheck, Move
  <2>3. EventOK'
    BY <1>t, <1>1 DEF Recheck, EventOK
  <2>4. relay' \in {None, relay}
    BY <1>1 DEF Recheck, RelayStop, CastStop
  <2>5. EngineOK' /\ stream' = stream /\ \A g \in Tokens : cancelled[g] => cancelled'[g]
    BY <1>t, <1>g, <1>1, <2>4 DEF Recheck, EngineOK
  <2>6. localLevel' \in 0..100 /\ castLevel' \in 0..100
    BY <1>t, <1>1 DEF Recheck, LevelOK
  <2>7. p \in LocalPath => relay' = None
    BY <1>t, <1>1, <2>2 DEF Recheck, RelayInv, RelayStop, LocalPath
  <2> QED BY <2>1, <2>2, <2>3, <2>4, <2>5, <2>6, <2>7, MoveInv DEF Harmless
<1>2. CASE StartRelay(w)
  <2>1. pc[w] \in Critical /\ pc[w] # "session" /\ UNCHANGED outside
    BY <1>2 DEF StartRelay
  <2>2. PICK p \in {"relayInstall", "free"} : Move(w, p)
    BY <1>2 DEF StartRelay, Move
  <2>3. EventOK'
    BY <1>t, <1>g, <1>2, SendTyped DEF StartRelay, EventOK
  <2>4. EngineOK' /\ stream' = stream /\ \A g \in Tokens : cancelled[g] => cancelled'[g]
    BY <1>t, <1>g, <1>2 DEF StartRelay, EngineOK, RelayStop
  <2>5. localLevel' \in 0..100 /\ castLevel' \in 0..100
    BY <1>t, <1>2 DEF StartRelay, LevelOK
  <2>6. p \in LocalPath => relay' = None
    BY <1>t, <1>2, <2>2 DEF StartRelay, RelayInv, RelayStop, LocalPath
  <2> QED BY <2>1, <2>2, <2>3, <2>4, <2>5, <2>6, MoveInv DEF Harmless
<1>3. CASE InstallRelay(w)
  <2>1. pc[w] \in Critical /\ pc[w] # "session" /\ UNCHANGED outside
    BY <1>3 DEF InstallRelay
  <2>2. Move(w, "buffer")
    BY <1>3 DEF InstallRelay, Move
  <2>3. EventOK'
    BY <1>t, <1>3 DEF InstallRelay, EventOK
  <2>4. EngineOK' /\ stream' = stream /\ \A g \in Tokens : cancelled[g] => cancelled'[g]
    BY <1>t, <1>g, <1>3 DEF InstallRelay, EngineOK, RelayStop
  <2>5. localLevel' \in 0..100 /\ castLevel' \in 0..100
    BY <1>t, <1>3 DEF InstallRelay, LevelOK
  <2>6. "buffer" \in LocalPath => relay' = None
    BY <1>t, <1>3 DEF InstallRelay, RelayInv, RelayStop, LocalPath
  <2> QED BY <2>1, <2>2, <2>3, <2>4, <2>5, <2>6, MoveInv DEF Harmless
<1>4. CASE Buffer(w)
  <2>1. pc[w] \in Critical /\ pc[w] # "session" /\ UNCHANGED outside
    BY <1>4 DEF Buffer
  <2>2. PICK p \in {"recheckLoad", "free"} : Move(w, p)
    BY <1>4 DEF Buffer, Move
  <2>3. EventOK'
    BY <1>t, <1>g, <1>4, SendTyped DEF Buffer, EventOK
  <2>4. relay' \in {None, relay}
    BY <1>4 DEF Buffer, RelayStop, CastStop
  <2>5. EngineOK' /\ stream' = stream /\ \A g \in Tokens : cancelled[g] => cancelled'[g]
    BY <1>t, <1>g, <1>4, <2>4 DEF Buffer, EngineOK
  <2>6. localLevel' \in 0..100 /\ castLevel' \in 0..100
    BY <1>t, <1>4 DEF Buffer, LevelOK
  <2>7. p \in LocalPath => relay' = None
    BY <1>t, <1>4, <2>2 DEF Buffer, RelayInv, RelayStop, LocalPath
  <2> QED BY <2>1, <2>2, <2>3, <2>4, <2>5, <2>6, <2>7, MoveInv DEF Harmless
<1>5. CASE Connect(w)
  <2>1. pc[w] \in Critical /\ pc[w] # "session" /\ UNCHANGED outside
    BY <1>5 DEF Connect
  <2>2. PICK p \in {"castErr", "load"} : Move(w, p)
    BY <1>5 DEF Connect, Move
  <2>3. EventOK'
    BY <1>t, <1>5 DEF Connect, EventOK
  <2>4. castSession' \in {None, castSession}
    BY <1>5 DEF Connect, RelayStop, CastStop
  <2>5. EngineOK' /\ stream' = stream /\ \A g \in Tokens : cancelled[g] => cancelled'[g]
    BY <1>t, <1>g, <1>5, <2>4 DEF Connect, EngineOK
  <2>6. localLevel' \in 0..100 /\ castLevel' \in 0..100
    BY <1>t, <1>5 DEF Connect, LevelOK
  <2>7. p \in LocalPath => relay' = None
    BY <1>t, <1>5, <2>2 DEF Connect, RelayInv, RelayStop, LocalPath
  <2> QED BY <2>1, <2>2, <2>3, <2>4, <2>5, <2>6, <2>7, MoveInv DEF Harmless
<1>6. CASE SendLoad(w)
  <2>1. pc[w] \in Critical /\ pc[w] # "session" /\ UNCHANGED outside
    BY <1>6 DEF SendLoad
  <2>2. PICK p \in {"castErr", "loading"} : Move(w, p)
    BY <1>6 DEF SendLoad, Move
  <2>3. EventOK'
    BY <1>t, <1>6 DEF SendLoad, EventOK
  <2>4. loaded' \in {loaded, G(w)}
    BY <1>6 DEF SendLoad, RelayStop, CastStop
  <2>5. EngineOK' /\ stream' = stream /\ \A g \in Tokens : cancelled[g] => cancelled'[g]
    BY <1>t, <1>g, <1>6, <2>4 DEF SendLoad, EngineOK
  <2>6. localLevel' \in 0..100 /\ castLevel' \in 0..100
    BY <1>t, <1>6 DEF SendLoad, LevelOK
  <2>7. p \in LocalPath => relay' = None
    BY <1>t, <1>6, <2>2 DEF SendLoad, RelayInv, RelayStop, LocalPath
  <2> QED BY <2>1, <2>2, <2>3, <2>4, <2>5, <2>6, <2>7, MoveInv DEF Harmless
<1>7. CASE AwaitLoad(w)
  <2>1. pc[w] \in Critical /\ pc[w] # "session" /\ UNCHANGED outside
    BY <1>7 DEF AwaitLoad
  <2>2. PICK p \in {"castErr", "castOk"} : Move(w, p)
    BY <1>7 DEF AwaitLoad, Move
  <2>3. EventOK'
    BY <1>t, <1>7 DEF AwaitLoad, EventOK
  <2>4. loaded' \in {loaded, G(w), None} /\ castSession' \in {castSession, G(w)}
    BY <1>7 DEF AwaitLoad, RelayStop, CastStop
  <2>5. EngineOK' /\ stream' = stream /\ \A g \in Tokens : cancelled[g] => cancelled'[g]
    BY <1>t, <1>g, <1>7, <2>4 DEF AwaitLoad, EngineOK
  <2>6. localLevel' \in 0..100 /\ castLevel' \in 0..100
    BY <1>t, <1>7 DEF AwaitLoad, LevelOK
  <2>7. p \in LocalPath => relay' = None
    BY <1>t, <1>7, <2>2 DEF AwaitLoad, RelayInv, RelayStop, LocalPath
  <2> QED BY <2>1, <2>2, <2>3, <2>4, <2>5, <2>6, <2>7, MoveInv DEF Harmless
<1>8. CASE CastOk(w)
  <2>1. pc[w] \in Critical /\ pc[w] # "session" /\ UNCHANGED outside
    BY <1>8 DEF CastOk
  <2>2. Move(w, "free")
    BY <1>8 DEF CastOk, Move
  <2>3. EventOK'
    BY <1>t, <1>g, <1>8, SendTyped DEF CastOk, EventOK
  <2>4. EngineOK' /\ stream' = stream /\ \A g \in Tokens : cancelled[g] => cancelled'[g]
    BY <1>t, <1>g, <1>8 DEF CastOk, EngineOK, RelayStop
  <2>5. localLevel' \in 0..100 /\ castLevel' \in 0..100
    BY <1>t, <1>8, LevelsAssumption DEF CastOk, LevelOK, WorkerOK, Job
  <2>6. "free" \in LocalPath => relay' = None
    BY <1>t, <1>8 DEF CastOk, RelayInv, RelayStop, LocalPath
  <2> QED BY <2>1, <2>2, <2>3, <2>4, <2>5, <2>6, MoveInv DEF Harmless
<1>9. CASE CastErr(w)
  <2>1. pc[w] \in Critical /\ pc[w] # "session" /\ UNCHANGED outside
    BY <1>9 DEF CastErr
  <2>2. Move(w, "free")
    BY <1>9 DEF CastErr, Move
  <2>3. EventOK'
    BY <1>t, <1>g, <1>9, SendTyped DEF CastErr, EventOK, ReportError
  <2>4. relay' \in {None, relay}
    BY <1>9 DEF CastErr, RelayStop, CastStop
  <2>5. EngineOK' /\ stream' = stream /\ \A g \in Tokens : cancelled[g] => cancelled'[g]
    BY <1>t, <1>g, <1>9, <2>4 DEF CastErr, EngineOK
  <2>6. localLevel' \in 0..100 /\ castLevel' \in 0..100
    BY <1>t, <1>9 DEF CastErr, LevelOK
  <2>7. "free" \in LocalPath => relay' = None
    BY <1>t, <1>9 DEF CastErr, RelayInv, RelayStop, LocalPath
  <2> QED BY <2>1, <2>2, <2>3, <2>4, <2>5, <2>6, <2>7, MoveInv DEF Harmless
<1> QED
  BY <1>1, <1>2, <1>3, <1>4, <1>5, <1>6, <1>7, <1>8, <1>9 DEF CastStep

LEMMA LocalSteps ==
  ASSUME IndInv, NEW w \in Workers, LocalStep(w) \/ SessionFails(w)
  PROVE  IndInv'
<1>t. WorkerOK /\ EngineOK /\ EventOK /\ LevelOK /\ RelayInv
  BY DEF IndInv, TypeOK
<1>g. G(w) \in Tokens /\ None \in Tokens
  BY <1>t, GTyped, BoundsAssumption
<1> USE DEF Critical, Opening, Speaking, castEngine, localEngine
<1>1. CASE StopCastForLocal(w)
  <2>1. pc[w] \in Critical /\ pc[w] # "session" /\ UNCHANGED outside
    BY <1>1 DEF StopCastForLocal
  <2>2. Move(w, "recheckLocal")
    BY <1>1 DEF StopCastForLocal, Move
  <2>3. EventOK'
    BY <1>t, <1>1 DEF StopCastForLocal, EventOK
  <2>4. castSession' = None /\ loaded' \in {None, loaded}
    BY <1>1 DEF StopCastForLocal, RelayStop, CastStop
  <2>5. EngineOK' /\ stream' = stream /\ \A g \in Tokens : cancelled[g] => cancelled'[g]
    BY <1>t, <1>g, <1>1, <2>4 DEF StopCastForLocal, EngineOK
  <2>6. localLevel' \in 0..100 /\ castLevel' \in 0..100
    BY <1>t, <1>1 DEF StopCastForLocal, LevelOK
  <2>7. "recheckLocal" \in LocalPath => relay' = None
    BY <1>t, <1>1 DEF StopCastForLocal, RelayInv, RelayStop, LocalPath
  <2> QED BY <2>1, <2>2, <2>3, <2>4, <2>5, <2>6, <2>7, MoveInv DEF Harmless
<1>2. CASE Recheck(w, "recheckLocal", "open")
  <2>1. pc[w] \in Critical /\ pc[w] # "session" /\ UNCHANGED outside
    BY <1>2 DEF Recheck
  <2>2. PICK p \in {"open", "free"} : Move(w, p)
    BY <1>2 DEF Recheck, Move
  <2>3. EventOK'
    BY <1>t, <1>2 DEF Recheck, EventOK
  <2>4. EngineOK' /\ stream' = stream /\ \A g \in Tokens : cancelled[g] => cancelled'[g]
    BY <1>t, <1>g, <1>2 DEF Recheck, EngineOK, RelayStop
  <2>5. localLevel' \in 0..100 /\ castLevel' \in 0..100
    BY <1>t, <1>2 DEF Recheck, LevelOK
  <2>6. p \in LocalPath => relay' = None
    BY <1>t, <1>2, <2>2 DEF Recheck, RelayInv, RelayStop, LocalPath
  <2> QED BY <2>1, <2>2, <2>3, <2>4, <2>5, <2>6, MoveInv DEF Harmless
<1>3. CASE OpenLocal(w)
  <2>1. pc[w] \in Critical /\ pc[w] # "session" /\ UNCHANGED outside
    BY <1>3 DEF OpenLocal
  <2>2. PICK p \in {"localErr", "probe"} : Move(w, p)
    BY <1>3 DEF OpenLocal, Move
  <2>3. EventOK'
    BY <1>t, <1>3 DEF OpenLocal, EventOK
  <2>4. /\ LocalStop /\ castSession' \in Tokens /\ loaded' \in Tokens /\ relay' \in Tokens
       /\ sessionToken' \in Tokens /\ decoding' \subseteq Tokens
    BY <1>t, <1>g, <1>3 DEF OpenLocal, EngineOK, RelayStop
  <2>5. EngineOK' /\ stream' = None
    BY <1>t, <2>4, LocalStopTyped
  <2>6. localLevel' \in 0..100 /\ castLevel' \in 0..100
    BY <1>t, <1>3, LevelsAssumption DEF OpenLocal, LevelOK, WorkerOK, Job
  <2>7. p \in LocalPath => relay' = None
    BY <1>t, <1>3, <2>2 DEF OpenLocal, RelayInv, RelayStop, LocalPath
  <2> QED BY <2>1, <2>2, <2>3, <2>4, <2>5, <2>6, <2>7, MoveInv DEF Harmless
<1>4. CASE LocalReturns(w)
  <2>1. pc[w] \in Critical /\ pc[w] # "session" /\ UNCHANGED outside
    BY <1>4 DEF LocalReturns
  <2>2. Move(w, "free")
    BY <1>4 DEF LocalReturns, Move
  <2>3. EventOK'
    BY <1>t, <1>g, <1>4, SendTyped DEF LocalReturns, EventOK, ReportError
  <2>4. EngineOK' /\ stream' = stream /\ \A g \in Tokens : cancelled[g] => cancelled'[g]
    BY <1>t, <1>g, <1>4 DEF LocalReturns, EngineOK, RelayStop
  <2>5. localLevel' \in 0..100 /\ castLevel' \in 0..100
    BY <1>t, <1>4 DEF LocalReturns, LevelOK
  <2>6. "free" \in LocalPath => relay' = None
    BY <1>t, <1>4 DEF LocalReturns, RelayInv, RelayStop, LocalPath
  <2> QED BY <2>1, <2>2, <2>3, <2>4, <2>5, <2>6, MoveInv DEF Harmless
<1>5. CASE StreamOpens(w)
  <2>1. pc[w] \in Critical /\ UNCHANGED outside
    BY <1>5 DEF StreamOpens
  <2>2. Move(w, "session")
    BY <1>5 DEF StreamOpens, Move
  <2>3. EventOK' /\ localLevel' \in 0..100 /\ castLevel' \in 0..100
    BY <1>t, <1>g, <1>5, SendTyped DEF StreamOpens, EventOK, LevelOK
  <2>4. RelayInv /\ relay' = relay /\ relay = None
    BY <1>t, <1>5 DEF StreamOpens, RelayInv, LocalPath
  <2>5. EngineOK' /\ stream' = G(w)
    BY <1>t, <1>g, <1>5 DEF StreamOpens, EngineOK
  <2> QED BY <2>1, <2>2, <2>3, <2>4, <2>5, MoveInv DEF Harmless
<1>6. CASE StreamFails(w)
  <2>1. pc[w] \in Critical /\ UNCHANGED outside
    BY <1>6 DEF StreamFails
  <2>2. Move(w, "localErr")
    BY <1>6 DEF StreamFails, Move
  <2>3. EventOK' /\ localLevel' \in 0..100 /\ castLevel' \in 0..100
    BY <1>t, <1>6 DEF StreamFails, EventOK, LevelOK
  <2>4. RelayInv /\ relay' = relay /\ relay = None
    BY <1>t, <1>6 DEF StreamFails, RelayInv, LocalPath
  <2>5. CASE LocalStop
    <3>1. EngineOK' /\ stream' = None
      BY <1>t, <1>6, <2>5, LocalStopTyped DEF StreamFails, EngineOK
    <3> QED BY <2>1, <2>2, <2>3, <2>4, <3>1, MoveInv DEF Harmless
  <2>6. CASE UNCHANGED <<cancelled, stream>>
    <3>1. EngineOK' /\ stream' = stream /\ \A g \in Tokens : cancelled[g] => cancelled'[g]
      BY <1>t, <1>6, <2>6 DEF StreamFails, EngineOK
    <3>2. pc[w] # "session"
      BY <1>6 DEF StreamFails
    <3> QED BY <2>1, <2>2, <2>3, <2>4, <3>1, <3>2, MoveInv DEF Harmless
  <2> QED BY <1>6, <2>5, <2>6 DEF StreamFails
<1>7. CASE SessionCancelled(w)
  <2>1. pc[w] \in Critical /\ UNCHANGED outside
    BY <1>7 DEF SessionCancelled
  <2>2. Move(w, "localErr")
    BY <1>7 DEF SessionCancelled, Move
  <2>3. EventOK' /\ localLevel' \in 0..100 /\ castLevel' \in 0..100
    BY <1>t, <1>7 DEF SessionCancelled, EventOK, LevelOK
  <2>4. RelayInv /\ relay' = relay /\ relay = None
    BY <1>t, <1>7 DEF SessionCancelled, RelayInv, LocalPath
  <2>5. CASE LocalStop
    <3>1. EngineOK' /\ stream' = None
      BY <1>t, <1>7, <2>5, LocalStopTyped DEF SessionCancelled, EngineOK
    <3> QED BY <2>1, <2>2, <2>3, <2>4, <3>1, MoveInv DEF Harmless
  <2>6. CASE UNCHANGED <<cancelled, stream>>
    <3>1. ~LocalAudible
      BY <1>t, <1>7 DEF SessionCancelled, IndInv, LockInv, StreamInv, LocalAudible
    <3>2. /\ EngineOK' /\ stream' = stream /\ cancelled' = cancelled
          /\ stream = None \/ cancelled[stream]
      BY <1>t, <1>7, <2>6, <3>1 DEF SessionCancelled, EngineOK, LocalAudible
    <3> QED BY <2>1, <2>2, <2>3, <2>4, <3>2, MoveInv DEF Harmless
  <2> QED BY <1>7, <2>5, <2>6 DEF SessionCancelled
<1>8. CASE SessionFails(w)
  <2>1. pc[w] \in Critical /\ UNCHANGED outside
    BY <1>8 DEF SessionFails
  <2>2. Move(w, "localErr")
    BY <1>8 DEF SessionFails, Move
  <2>3. EventOK' /\ localLevel' \in 0..100 /\ castLevel' \in 0..100
    BY <1>t, <1>8 DEF SessionFails, EventOK, LevelOK
  <2>4. RelayInv /\ relay' = relay /\ relay = None
    BY <1>t, <1>8 DEF SessionFails, RelayInv, LocalPath
  <2>5. EngineOK' /\ stream' = None
    BY <1>t, <1>8, LocalStopTyped DEF SessionFails, EngineOK
  <2> QED BY <2>1, <2>2, <2>3, <2>4, <2>5, MoveInv DEF Harmless
<1> QED
  BY <1>1, <1>2, <1>3, <1>4, <1>5, <1>6, <1>7, <1>8 DEF LocalStep

-----------------------------------------------------------------------------
(***************************************************************************)
(* The other steps.                                                        *)
(***************************************************************************)

\* No worker moves, and the engines are left alone except that tokens are set
\* and that the relay and the stream may be dropped.
Aside == /\ UNCHANGED <<pc, job, transition, castSession, loaded, sessionToken>>
         /\ relay' \in {None, relay} /\ stream' \in {None, stream}
         /\ \A g \in Tokens : cancelled[g] => cancelled'[g]

LEMMA AsideInv ==
  ASSUME IndInv, Aside, TypeOK'
  PROVE  IndInv'
<1>1. LockInv'
  BY DEF IndInv, LockInv, Aside
<1>2. RelayInv'
  BY DEF IndInv, RelayInv, Aside
<1>3. StreamInv'
  BY DEF IndInv, TypeOK, EngineOK, StreamInv, LocalAudible, Aside, G
<1> QED BY <1>1, <1>2, <1>3 DEF IndInv

LEMMA SubmitTyped ==
  ASSUME NEW q \in Seq(Job), Len(q) <= MaxQueuedJobs, NEW k \in {"play", "title", "stop", "volume"},
         NEW g \in Tokens, NEW l \in BOOLEAN, NEW v \in Levels
  PROVE  /\ Submit(q, JobOf(k, g, l, v)) \in Seq(Job)
         /\ Len(Submit(q, JobOf(k, g, l, v))) <= MaxQueuedJobs
<1>1. JobOf(k, g, l, v) \in Job
  BY DEF JobOf, Job
<1> QED BY <1>1, BoundsAssumption DEF Submit, HasRoom

LEMMA UserSteps ==
  ASSUME IndInv, UserStep
  PROVE  IndInv'
<1>t. ControllerOK /\ QueueOK /\ WorkerOK /\ EngineOK /\ LevelOK /\ EventOK
  BY DEF IndInv, TypeOK
<1>1. ASSUME NEW op \in {"play", "stop", "shutdown"}, NEW local \in BOOLEAN, Begin(op, local)
      PROVE  IndInv'
  <2>1. ControllerOK'
    BY <1>t, <1>1, BoundsAssumption DEF Begin, ControllerOK
  <2>2. QueueOK' /\ WorkerOK' /\ EngineOK' /\ LevelOK' /\ EventOK'
    BY <1>t, <1>1 DEF Begin, executor, engines, levels, QueueOK, WorkerOK, EngineOK,
       LevelOK, EventOK
  <2>3. Aside
    BY <1>1 DEF Begin, executor, engines, Aside
  <2> QED BY <2>1, <2>2, <2>3, AsideInv DEF TypeOK
<1>2. ASSUME NEW v \in Levels, NEW local \in BOOLEAN, SetVolume(v, local)
      PROVE  IndInv'
  <2>1. QueueOK'
    <3>1. queue' = Submit(queue, JobOf("volume", None, local, v))
          /\ runtimeCancelled' = runtimeCancelled
      BY <1>2 DEF SetVolume
    <3> QED BY <1>t, <3>1, SubmitTyped, BoundsAssumption DEF QueueOK
  <2>2. LevelOK'
    BY <1>t, <1>2, BoundsAssumption DEF SetVolume, LevelOK
  <2>3. ControllerOK' /\ WorkerOK' /\ EngineOK' /\ EventOK'
    BY <1>t, <1>2 DEF SetVolume, controller, engines, ControllerOK, WorkerOK, EngineOK,
       EventOK
  <2>4. Aside
    BY <1>2 DEF SetVolume, controller, engines, Aside
  <2> QED BY <2>1, <2>2, <2>3, <2>4, AsideInv DEF TypeOK
<1> QED BY <1>1, <1>2 DEF UserStep

LEMMA UiSteps ==
  ASSUME IndInv, UiStep
  PROVE  IndInv'
<1>t. ControllerOK /\ QueueOK /\ WorkerOK /\ EngineOK /\ LevelOK /\ EventOK
  BY DEF IndInv, TypeOK
<1>i. ui' = [ui EXCEPT !.op = "idle"] =>
         ui' \in [op : {"idle", "play", "stop", "shutdown"}, local : BOOLEAN]
  BY <1>t DEF ControllerOK
<1>c. CancelOperation => /\ cancelled' \in [Tokens -> BOOLEAN]
                         /\ \A g \in Tokens : cancelled[g] => cancelled'[g]
  <2> SUFFICES ASSUME cancelled' = [cancelled EXCEPT ![opToken] = TRUE]
               PROVE  /\ cancelled' \in [Tokens -> BOOLEAN]
                      /\ \A g \in Tokens : cancelled[g] => cancelled'[g]
    BY DEF CancelOperation
  <2>1. cancelled' \in [Tokens -> BOOLEAN]
    BY <1>t, Zenon DEF EngineOK
  <2> QED BY <1>t, <2>1 DEF EngineOK
<1>1. CASE Play
  <2>1. phase' \in Phase
    <3>1. PhaseOf("Opening", generation, ui.local) \in Phase
          /\ PhaseOf("Failed", generation, FALSE) \in Phase
      BY <1>t DEF ControllerOK, PhaseOf, Phase
    <3> QED BY <1>1, <3>1 DEF Play
  <2>2. ControllerOK'
    BY <1>t, <1>i, <1>1, <2>1 DEF Play, ControllerOK
  <2>3. QueueOK'
    <3> DEFINE title == JobOf("title", generation, TRUE, volume)
               play  == JobOf("play", generation, ui.local, volume)
               first == IF ui.local THEN Submit(queue, title) ELSE queue
    <3>1. generation \in Tokens /\ ui.local \in BOOLEAN /\ volume \in Levels
          /\ queue \in Seq(Job) /\ Len(queue) <= MaxQueuedJobs
      BY <1>t DEF ControllerOK, LevelOK, QueueOK
    <3>2. first \in Seq(Job) /\ Len(first) <= MaxQueuedJobs
      BY <3>1, SubmitTyped
    <3>3. Submit(first, play) \in Seq(Job) /\ Len(Submit(first, play)) <= MaxQueuedJobs
      <4> HIDE DEF first
      <4> QED BY <3>1, <3>2, SubmitTyped
    <3>4. queue' = Submit(first, play) /\ runtimeCancelled' = runtimeCancelled
      BY <1>1 DEF Play
    <3> QED BY <1>t, <3>3, <3>4 DEF QueueOK
  <2>4. EventOK'
    BY <1>t, <1>1, SendTyped DEF Play, EventOK, ControllerOK
  <2>5. WorkerOK' /\ LevelOK' /\ EngineOK'
    BY <1>t, <1>c, <1>1 DEF Play, engines, levels, WorkerOK, LevelOK, EngineOK
  <2>6. Aside
    BY <1>c, <1>1 DEF Play, engines, Aside
  <2> QED BY <2>2, <2>3, <2>4, <2>5, <2>6, AsideInv DEF TypeOK
<1>2. CASE Stop
  <2>1. PhaseOf("Stopping", generation, FALSE) \in Phase
    BY <1>t DEF ControllerOK, PhaseOf, Phase
  <2>2. ControllerOK'
    BY <1>t, <1>i, <1>2, <2>1 DEF Stop, ControllerOK
  <2>3. QueueOK'
    <3>1. /\ queue' = Submit(queue, JobOf("stop", generation, FALSE, volume))
          /\ runtimeCancelled' = runtimeCancelled
      BY <1>2 DEF Stop
    <3> QED BY <1>t, <3>1, SubmitTyped DEF QueueOK, ControllerOK, LevelOK
  <2>4. EventOK'
    BY <1>t, <1>2, SendTyped DEF Stop, EventOK, ControllerOK
  <2>5. WorkerOK' /\ LevelOK' /\ EngineOK'
    BY <1>t, <1>c, <1>2 DEF Stop, engines, levels, WorkerOK, LevelOK, EngineOK
  <2>6. Aside
    BY <1>c, <1>2 DEF Stop, engines, Aside
  <2> QED BY <2>2, <2>3, <2>4, <2>5, <2>6, AsideInv DEF TypeOK
<1>3. CASE Shutdown
  <2>1. Idle \in Phase
    BY BoundsAssumption DEF Idle, Phase
  <2>2. ControllerOK'
    BY <1>t, <1>i, <1>3, <2>1 DEF Shutdown, ControllerOK
  <2>3. QueueOK'
    <3>1. runtimeCancelled' \in BOOLEAN
      BY <1>3, Zenon DEF Shutdown
    <3> QED BY <1>t, <1>3, <3>1 DEF Shutdown, QueueOK
  <2>4. /\ cancelled' \in [Tokens -> BOOLEAN]
        /\ \A g \in Tokens : cancelled[g] => cancelled'[g]
    <3> DEFINE c == [cancelled EXCEPT ![opToken] = TRUE]
    <3>1. c \in [Tokens -> BOOLEAN]
      BY <1>t, Zenon DEF EngineOK
    <3>2. cancelled' = [c EXCEPT ![sessionToken] = TRUE]
      BY <1>3 DEF Shutdown
    <3>3. \A g \in Tokens : cancelled[g] => c[g]
      BY <1>t DEF EngineOK
    <3> HIDE DEF c
    <3>4. cancelled' \in [Tokens -> BOOLEAN]
      BY <3>1, <3>2, Zenon
    <3> QED BY <3>1, <3>2, <3>3, <3>4
  <2>5. EngineOK'
    <3>1. /\ relay' = None /\ stream' = None
          /\ UNCHANGED <<castSession, loaded, sessionToken, decoding>>
      BY <1>3 DEF Shutdown
    <3> QED BY <1>t, <2>4, <3>1, BoundsAssumption DEF EngineOK
  <2>6. WorkerOK' /\ LevelOK' /\ EventOK'
    BY <1>t, <1>3 DEF Shutdown, levels, WorkerOK, LevelOK, EventOK
  <2>7. Aside
    BY <1>3, <2>4 DEF Shutdown, Aside
  <2> QED BY <2>2, <2>3, <2>5, <2>6, <2>7, AsideInv DEF TypeOK
<1>4. CASE ApplyEvent
  <2>1. Head(events) \in Event /\ Tail(events) \in Seq(Event)
    BY <1>t, <1>4 DEF ApplyEvent, EventOK
  <2>2. PhaseAfter(Head(events)) \in Phase
    <3> DEFINE e == Head(events)
    <3>1. e.tag \in {"PlayOk", "StopOk", "Error"} /\ e.generation \in Tokens
          /\ e.local \in BOOLEAN
      BY <2>1 DEF Event
    <3> HIDE DEF e
    <3>2. PhaseAfter(e) \in Phase
      BY <3>1, BoundsAssumption DEF PhaseAfter, PhaseOf, Idle, Phase
    <3> QED BY <3>2 DEF e
  <2>3. ControllerOK'
    BY <1>t, <1>4, <2>2 DEF ApplyEvent, ControllerOK
  <2>4. QueueOK' /\ WorkerOK' /\ EngineOK' /\ LevelOK' /\ EventOK'
    BY <1>t, <1>4, <2>1 DEF ApplyEvent, executor, engines, levels, QueueOK, WorkerOK,
       EngineOK, LevelOK, EventOK
  <2>5. Aside
    BY <1>4 DEF ApplyEvent, executor, engines, Aside
  <2> QED BY <2>3, <2>4, <2>5, AsideInv DEF TypeOK
<1> QED BY <1>1, <1>2, <1>3, <1>4 DEF UiStep

\* Taking a job, taking the mutex, and the two jobs that never take it.
LEMMA ExecutorSteps ==
  ASSUME IndInv, NEW w \in Workers,
         Receive(w) \/ Lock(w) \/ TitleEnds(w) \/ ApplyVolume(w)
  PROVE  IndInv'
<1>t. /\ ControllerOK /\ QueueOK /\ WorkerOK /\ EngineOK /\ LevelOK /\ EventOK
      /\ LockInv /\ RelayInv /\ StreamInv
  BY DEF IndInv, TypeOK
<1>p. /\ \A p \in Waiting \cup {"free", "title", "volume"} : p \in Points \ Critical
      /\ "check" \in Critical \ LocalPath /\ "stopEngines" \in Critical \ LocalPath
      /\ "session" \in Critical
  BY DEF Points, Waiting, Critical, Opening, Casting, Speaking, Ending, LocalPath
<1>1. CASE Receive(w)
  <2>1. QueueOK' /\ Head(queue) \in Job
    <3>1. queue \in Seq(Job) /\ queue # <<>> /\ queue' = Tail(queue)
          /\ runtimeCancelled' = runtimeCancelled
      BY <1>t, <1>1 DEF Receive, QueueOK
    <3>2. /\ Tail(queue) \in Seq(Job) /\ Head(queue) \in Job
          /\ Len(Tail(queue)) = Len(queue) - 1
      BY <3>1
    <3>3. Len(Tail(queue)) <= MaxQueuedJobs
      BY <1>t, <3>1, <3>2, BoundsAssumption DEF QueueOK
    <3> QED BY <1>t, <3>1, <3>2, <3>3 DEF QueueOK
  <2>2. FirstPoint(Head(queue)) \in Waiting \cup {"title", "volume"}
    BY <2>1 DEF FirstPoint, Job, Waiting
  <2>3. PICK p \in Points \ Critical, j \in Job :
           pc' = [pc EXCEPT ![w] = p] /\ job' = [job EXCEPT ![w] = j]
    <3>1. CASE runtimeCancelled
      BY <1>t, <1>p, <1>1, <3>1 DEF Receive, WorkerOK
    <3>2. CASE ~runtimeCancelled
      BY <1>t, <1>p, <1>1, <2>1, <2>2, <3>2 DEF Receive
    <3> QED BY <3>1, <3>2
  <2>4. WorkerOK'
    BY <1>t, <1>1, <2>3 DEF Receive, WorkerOK
  <2>5. ControllerOK' /\ EngineOK' /\ LevelOK' /\ EventOK'
    BY <1>t, <1>1 DEF Receive, controller, engines, levels, ControllerOK, EngineOK,
       LevelOK, EventOK
  <2>6. LockInv' /\ RelayInv'
    BY <1>t, <1>1, <2>3, PointsSplit DEF Receive, engines, WorkerOK, LockInv, RelayInv
  <2>7. StreamInv'
    BY <1>t, <1>p, <1>1, <2>3 DEF Receive, controller, engines, WorkerOK, StreamInv,
       LocalAudible, G
  <2> QED BY <2>1, <2>4, <2>5, <2>6, <2>7 DEF IndInv, TypeOK
<1>2. CASE Lock(w)
  <2>1. PICK p \in {"check", "stopEngines"} : pc' = [pc EXCEPT ![w] = p]
    BY <1>2 DEF Lock
  <2>2. transition = {} /\ transition' = {w} /\ job' = job
    BY <1>2 DEF Lock, Available
  <2>3. WorkerOK'
    BY <1>t, <1>p, <2>1, <2>2, PointsSplit DEF WorkerOK
  <2>4. ControllerOK' /\ QueueOK' /\ EngineOK' /\ LevelOK' /\ EventOK'
    BY <1>t, <1>2 DEF Lock, controller, engines, levels, ControllerOK, QueueOK, EngineOK,
       LevelOK, EventOK
  <2>5. LockInv' /\ RelayInv'
    BY <1>t, <1>p, <1>2, <2>1, <2>2, PointsSplit DEF WorkerOK, LockInv, RelayInv
  <2>6. StreamInv'
    BY <1>t, <1>p, <1>2, <2>1, <2>2 DEF Lock, controller, engines, WorkerOK, LockInv,
       StreamInv, LocalAudible, G
  <2> QED BY <2>3, <2>4, <2>5, <2>6 DEF IndInv, TypeOK
<1>3. CASE TitleEnds(w) \/ ApplyVolume(w)
  <2>1. Finish(w) /\ pc[w] \notin Critical /\ UNCHANGED <<controller, engines, events>>
    BY <1>p, <1>3 DEF TitleEnds, ApplyVolume
  <2>2. WorkerOK'
    BY <1>t, <2>1, FinishTyped
  <2>3. LevelOK'
    BY <1>t, <1>3, LevelsAssumption DEF TitleEnds, ApplyVolume, levels, LevelOK, WorkerOK,
       Job
  <2>4. QueueOK'
    BY <1>t, <1>3 DEF TitleEnds, ApplyVolume, QueueOK
  <2>5. ControllerOK' /\ EngineOK' /\ EventOK'
    BY <1>t, <2>1 DEF controller, engines, ControllerOK, EngineOK, EventOK
  <2>6. LockInv' /\ RelayInv'
    BY <1>t, <2>1, PointsSplit DEF Finish, engines, WorkerOK, LockInv, RelayInv
  <2>7. StreamInv'
    BY <1>t, <1>p, <2>1 DEF Finish, controller, engines, WorkerOK, StreamInv,
       LocalAudible, G
  <2> QED BY <2>2, <2>3, <2>4, <2>5, <2>6, <2>7 DEF IndInv, TypeOK
<1> QED BY <1>1, <1>2, <1>3

LEMMA DecoderSteps ==
  ASSUME IndInv, NEW g \in Tokens, DecodeEnds(g)
  PROVE  IndInv'
<1>1. TypeOK'
  BY DEF IndInv, TypeOK, DecodeEnds, controller, executor, levels, ControllerOK, QueueOK,
     WorkerOK, EngineOK, LevelOK, EventOK
<1>2. Aside
  BY DEF DecodeEnds, controller, executor, Aside
<1> QED BY <1>1, <1>2, AsideInv

-----------------------------------------------------------------------------
(***************************************************************************)
(* Theorems.                                                               *)
(***************************************************************************)

LEMMA StepInv == IndInv /\ [Next]_vars => IndInv'
<1> SUFFICES ASSUME IndInv, [Next]_vars PROVE IndInv'
  OBVIOUS
<1>1. CASE UserStep
  BY <1>1, UserSteps
<1>2. CASE UiStep
  BY <1>2, UiSteps
<1>3. ASSUME NEW w \in Workers, Lock(w) \/ JobStep(w) \/ SessionFails(w)
      PROVE  IndInv'
  BY <1>3, ExecutorSteps, SharedSteps, CastSteps, LocalSteps DEF JobStep
<1>4. ASSUME NEW g \in Tokens, DecodeEnds(g)
      PROVE  IndInv'
  BY <1>4, DecoderSteps
<1>5. CASE UNCHANGED vars
  <2>1. TypeOK'
    BY <1>5 DEF vars, controller, executor, engines, levels, IndInv, TypeOK, ControllerOK,
       QueueOK, WorkerOK, EngineOK, LevelOK, EventOK
  <2>2. Aside
    BY <1>5 DEF vars, controller, executor, engines, Aside
  <2> QED BY <2>1, <2>2, AsideInv
<1> QED BY <1>1, <1>2, <1>3, <1>4, <1>5 DEF Next

\* IndInv holds in every reachable state, whatever the constants are.
THEOREM Invariance == Spec => []IndInv
<1> QED BY InitInv, StepInv, PTL DEF Spec

\* Every variable keeps its type, and the executor's queue its bound: submitting
\* never takes more jobs than MAX_QUEUED_JOBS (src/runtime.rs).
THEOREM TypeCorrect == Spec => []TypeOK
<1>1. IndInv => TypeOK
  BY DEF IndInv
<1> QED BY <1>1, Invariance, PTL

\* The transition mutex works as one: at any time at most one job is between
\* its checks and its return (src/playback/mod.rs).
OneInside == \A v, w \in Workers : pc[v] \in Critical /\ pc[w] \in Critical => v = w

THEOREM MutualExclusion == Spec => []OneInside
<1>1. IndInv => OneInside
  BY DEF IndInv, LockInv, OneInside
<1> QED BY <1>1, Invariance, PTL

\* The speakers and a Chromecast never play at the same time, however many
\* plays, stops and a shutdown overlap and however their jobs interleave.
THEOREM NeverTwoOutputs == Spec => []OneOutput
<1>1. IndInv => OneOutput
  BY DEF IndInv, StreamInv, RelayInv, OneOutput, CastAudible, LocalPath
<1> QED BY <1>1, Invariance, PTL

-----------------------------------------------------------------------------
(***************************************************************************)
(* The controller and its jobs.  Returned, the operation whose call came   *)
(* back last, bounds every number in the system; at most one job is about  *)
(* each operation, and until that job has said how it ended the phase is   *)
(* the one the call left.                                                  *)
(***************************************************************************)

\* Where a play job and a stop job may be; where a play job is past its first
\* check; and where its result has not been reported yet.
PlayPoints == {"lockPlay"} \cup Opening \cup Casting \cup Speaking
StopPoints == {"lockStop"} \cup Ending
Past       == (Opening \cup Casting \cup Speaking) \ {"check"}
Unanswered == PlayPoints \ {"session", "localErr"}

\* A worker is at a point of its job, on the path of the output it was given.
KindInv ==
    \A w \in Workers :
        /\ pc[w] \in PlayPoints => job[w].kind = "play"
        /\ pc[w] \in StopPoints => job[w].kind = "stop"
        /\ pc[w] \in {"free", "volume"} => job[w].kind = "volume"
        /\ pc[w] = "title" => job[w].kind = "title"
        /\ pc[w] \in Casting => ~job[w].local
        /\ pc[w] \in LocalPath \ {"resolve"} => job[w].local
        /\ pc[w] = "stopCast" => relay = None

\* No job, session, token, event or phase is of an operation yet to return.
NewestInv ==
    /\ ui.op # "idle" => generation # 0 /\ ~runtimeCancelled
    /\ \A i \in 1..Len(queue) : queue[i].generation <= Returned
    /\ \A w \in Workers : G(w) <= Returned
    /\ \A i \in 1..Len(events) : events[i].generation <= Returned
    /\ castSession <= Returned /\ relay <= Returned /\ stream <= Returned
    /\ sessionToken <= Returned /\ opToken <= Returned /\ phase.generation <= Returned

\* Past its check a play job meets no session of a newer operation.
PastInv ==
    \A w \in Workers :
        pc[w] \in Past => castSession <= G(w) /\ relay <= G(w) /\ stream <= G(w)

\* Every play and every stop has at most one job.
Operation(j) == j.kind \in {"play", "stop"}
OneJobInv ==
    /\ \A i, j \in 1..Len(queue) :
          (/\ Operation(queue[i]) /\ Operation(queue[j])
           /\ queue[i].generation = queue[j].generation) => i = j
    /\ \A v, w \in Workers :
          (Operation(job[v]) /\ Operation(job[w]) /\ G(v) = G(w)) => v = w
    /\ \A i \in 1..Len(queue), w \in Workers :
          ~(Operation(queue[i]) /\ Operation(job[w]) /\ queue[i].generation = G(w))

JobInv == KindInv /\ NewestInv /\ PastInv /\ OneJobInv

-----------------------------------------------------------------------------
(***************************************************************************)
(* What a step of the mutex's holder does, as far as these properties go.  *)
(***************************************************************************)

OnItsPath(w, p) ==
    /\ pc[w] \in PlayPoints => p \in Past \cup {"free"}
    /\ pc[w] \in StopPoints => p \in {"stopCast", "free"}
    /\ p \in Casting => ~job[w].local
    /\ p \in LocalPath \ {"resolve"} => job[w].local
    /\ p = "stopCast" => relay' = None
    /\ (pc[w] = "check" /\ p # "free") => generation = G(w)
    /\ pc[w] = "session" => p = "localErr"
    /\ pc[w] = "localErr" => p = "free"

Touches(w) ==
    /\ castSession' \in {None, castSession, G(w)}
    /\ relay' \in {None, relay, G(w)} /\ stream' \in {None, stream, G(w)}
    /\ sessionToken' \in {sessionToken, G(w)}
    /\ pc[w] = "check" => UNCHANGED <<castSession, relay, stream>>
    /\ pc[w] \notin Past => /\ castSession' \in {None, castSession}
                            /\ relay' \in {None, relay} /\ stream' \in {None, stream}
                            /\ loaded' \in {None, loaded}
                            /\ \A g \in Tokens : cancelled[g] => cancelled'[g]

SaysNothing(w) == UNCHANGED events /\ ~(pc[w] = "localErr" /\ generation = G(w))
SaysError(w, p) ==
    /\ p = "free" /\ pc[w] \in PlayPoints \ {"session"}
    /\ Send(EventOf("Error", G(w), FALSE))
    /\ relay' = None /\ UNCHANGED <<cancelled, stream>>
SaysPlays(w, p) ==
    \/ p = "free" /\ pc[w] = "castOk" /\ Send(EventOf("PlayOk", G(w), FALSE))
    \/ /\ p = "session" /\ pc[w] = "probe" /\ generation = G(w)
       /\ Send(EventOf("PlayOk", G(w), TRUE))
       /\ stream' = G(w) /\ ~cancelled'[G(w)]
SaysStopped(w, p) ==
    /\ p = "free" /\ pc[w] = "stopCast"
    /\ Send(EventOf("StopOk", G(w), FALSE))
    /\ UNCHANGED <<cancelled, stream, relay>>
Says(w, p) == SaysNothing(w) \/ SaysError(w, p) \/ SaysPlays(w, p) \/ SaysStopped(w, p)

Works(w, p) ==
    /\ pc[w] \in Critical /\ Move(w, p) /\ UNCHANGED outside
    /\ OnItsPath(w, p) /\ Touches(w) /\ Says(w, p)

HolderStep(w) ==
    \/ Check(w) \/ TearDown(w) \/ Resolve(w) \/ CastStep(w) \/ LocalStep(w)
    \/ SessionFails(w) \/ StopEngines(w) \/ StopCast(w)

LEMMA LocalStopDoes ==
  ASSUME EngineOK, LocalStop
  PROVE  stream' = None /\ \A g \in Tokens : cancelled[g] => cancelled'[g]
BY DEF LocalStop, EngineOK

LEMMA PlainSteps ==
  ASSUME IndInv, KindInv, NEW w \in Workers,
         Check(w) \/ TearDown(w) \/ Resolve(w) \/ StopEngines(w) \/ StopCast(w)
  PROVE  \E p : Works(w, p)
<1>t. EngineOK /\ RelayInv
  BY DEF IndInv, TypeOK
<1> USE DEF Critical, Opening, Casting, Speaking, Ending, PlayPoints, StopPoints, Past,
        LocalPath, castEngine, localEngine, Works
<1>1. CASE Check(w)
  <2>1. pc[w] = "check" /\ UNCHANGED outside /\ UNCHANGED <<castSession, loaded, cancelled, sessionToken, stream, relay, events>>
    BY <1>1 DEF Check
  <2>2. PICK p \in {"teardown", "free"} : Move(w, p) /\ (p # "free" => generation = G(w))
    BY <1>1 DEF Check, Move, Superseded
  <2>3. OnItsPath(w, p)
    BY <2>1, <2>2 DEF OnItsPath
  <2>4. Touches(w) /\ Says(w, p)
    BY <2>1 DEF Touches, Says, SaysNothing
  <2> QED BY <2>1, <2>2, <2>3, <2>4
<1>2. CASE TearDown(w)
  <2>1. pc[w] = "teardown" /\ UNCHANGED outside /\ UNCHANGED <<castSession, loaded, sessionToken, events>>
    BY <1>2 DEF TearDown
  <2>2. Move(w, "resolve") /\ relay' = None /\ stream' = None
    BY <1>2 DEF TearDown, Move, RelayStop, LocalStop
  <2>3. OnItsPath(w, "resolve") /\ Touches(w) /\ Says(w, "resolve")
    BY <2>1, <2>2 DEF OnItsPath, Touches, Says, SaysNothing
  <2> QED BY <2>1, <2>2, <2>3
<1>3. CASE Resolve(w)
  <2>1. pc[w] = "resolve" /\ UNCHANGED outside /\ UNCHANGED <<castSession, loaded, cancelled, sessionToken, stream, relay>>
    BY <1>3 DEF Resolve
  <2>2. relay = None
    BY <1>t, <2>1 DEF RelayInv
  <2>3. Touches(w)
    BY <2>1 DEF Touches
  <2>4. CASE Goto(w, IF job[w].local THEN "castStop" ELSE "recheckCast") /\ UNCHANGED events
    <3>1. PICK p \in {"castStop", "recheckCast"} :
             Move(w, p) /\ (p = "castStop" <=> job[w].local)
      BY <2>4 DEF Move
    <3>2. OnItsPath(w, p) /\ Says(w, p)
      BY <2>1, <2>4, <3>1 DEF OnItsPath, Says, SaysNothing
    <3> QED BY <2>1, <2>3, <3>1, <3>2
  <2>5. CASE Finish(w) /\ Send(EventOf("Error", G(w), FALSE))
    <3>1. Move(w, "free") /\ OnItsPath(w, "free")
      BY <2>1, <2>5 DEF OnItsPath, Move
    <3>2. Says(w, "free")
      BY <2>1, <2>2, <2>5 DEF Says, SaysError
    <3> QED BY <2>1, <2>3, <3>1, <3>2
  <2> QED BY <1>3, <2>4, <2>5 DEF Resolve
<1>4. CASE StopEngines(w)
  <2>1. pc[w] = "stopEngines" /\ UNCHANGED outside /\ UNCHANGED <<castSession, loaded, sessionToken, events>>
    BY <1>4 DEF StopEngines
  <2>2. /\ Move(w, "stopCast") /\ relay' = None /\ stream' = None
        /\ \A g \in Tokens : cancelled[g] => cancelled'[g]
    BY <1>t, <1>4, LocalStopDoes DEF StopEngines, Move, RelayStop
  <2>3. OnItsPath(w, "stopCast") /\ Touches(w) /\ Says(w, "stopCast")
    BY <2>1, <2>2 DEF OnItsPath, Touches, Says, SaysNothing
  <2> QED BY <2>1, <2>2, <2>3
<1>5. CASE StopCast(w)
  <2>1. pc[w] = "stopCast" /\ UNCHANGED outside /\ UNCHANGED <<cancelled, stream, relay, sessionToken>>
    BY <1>5 DEF StopCast
  <2>2. /\ Move(w, "free") /\ castSession' = None /\ loaded' \in {None, loaded}
        /\ Send(EventOf("StopOk", G(w), FALSE))
    BY <1>5 DEF StopCast, Move, CastStop
  <2>3. OnItsPath(w, "free") /\ Touches(w) /\ Says(w, "free")
    BY <2>1, <2>2 DEF OnItsPath, Touches, Says, SaysStopped
  <2> QED BY <2>1, <2>2, <2>3
<1> QED BY <1>1, <1>2, <1>3, <1>4, <1>5

LEMMA CastingWorks ==
  ASSUME KindInv, NEW w \in Workers, CastStep(w)
  PROVE  \E p : Works(w, p)
<1> USE DEF Critical, Opening, Casting, Speaking, Ending, PlayPoints, StopPoints, Past,
        LocalPath, castEngine, localEngine, Works
<1>k. pc[w] \in Casting => ~job[w].local
  BY DEF KindInv
<1>1. CASE Recheck(w, "recheckCast", "relay")
  <2>1. /\ pc[w] = "recheckCast" /\ UNCHANGED outside
        /\ UNCHANGED <<castSession, loaded, cancelled, sessionToken, stream, relay, events>>
    BY <1>1 DEF Recheck
  <2>2. PICK p \in {"relay", "free"} : Move(w, p)
    BY <1>1 DEF Recheck, Move
  <2>3. OnItsPath(w, p) /\ Touches(w) /\ Says(w, p)
    BY <1>k, <2>1, <2>2 DEF OnItsPath, Touches, Says, SaysNothing
  <2> QED BY <2>1, <2>2, <2>3
<1>2. CASE Recheck(w, "recheckLoad", "connect")
  <2>1. /\ pc[w] = "recheckLoad" /\ UNCHANGED outside
        /\ UNCHANGED <<castSession, loaded, cancelled, sessionToken, stream, events>>
        /\ relay' \in {None, relay}
    BY <1>2 DEF Recheck, RelayStop
  <2>2. PICK p \in {"connect", "free"} : Move(w, p)
    BY <1>2 DEF Recheck, Move
  <2>3. OnItsPath(w, p) /\ Touches(w) /\ Says(w, p)
    BY <1>k, <2>1, <2>2 DEF OnItsPath, Touches, Says, SaysNothing
  <2> QED BY <2>1, <2>2, <2>3
<1>3. CASE StartRelay(w)
  <2>1. /\ pc[w] = "relay" /\ UNCHANGED outside /\ relay' = None
        /\ UNCHANGED <<castSession, loaded, cancelled, sessionToken, stream>>
    BY <1>3 DEF StartRelay, RelayStop
  <2>2. PICK p \in {"relayInstall", "free"} :
           /\ Move(w, p)
           /\ \/ UNCHANGED events
              \/ p = "free" /\ Send(EventOf("Error", G(w), FALSE))
    BY <1>3 DEF StartRelay, Move
  <2>3. OnItsPath(w, p) /\ Touches(w) /\ Says(w, p)
    BY <1>k, <2>1, <2>2 DEF OnItsPath, Touches, Says, SaysNothing, SaysError
  <2> QED BY <2>1, <2>2, <2>3
<1>4. CASE InstallRelay(w)
  <2>1. /\ pc[w] = "relayInstall" /\ UNCHANGED outside /\ relay' = G(w)
        /\ UNCHANGED <<castSession, loaded, cancelled, sessionToken, stream, events>>
        /\ Move(w, "buffer")
    BY <1>4 DEF InstallRelay, Move
  <2>2. OnItsPath(w, "buffer") /\ Touches(w) /\ Says(w, "buffer")
    BY <1>k, <2>1 DEF OnItsPath, Touches, Says, SaysNothing
  <2> QED BY <2>1, <2>2
<1>5. CASE Buffer(w)
  <2>1. /\ pc[w] = "buffer" /\ UNCHANGED outside
        /\ UNCHANGED <<castSession, loaded, cancelled, sessionToken, stream>>
    BY <1>5 DEF Buffer
  <2>2. PICK p \in {"recheckLoad", "free"} :
           /\ Move(w, p) /\ relay' \in {None, relay}
           /\ \/ UNCHANGED events
              \/ p = "free" /\ Send(EventOf("Error", G(w), FALSE)) /\ relay' = None
    BY <1>5 DEF Buffer, Move, RelayStop
  <2>3. OnItsPath(w, p) /\ Touches(w) /\ Says(w, p)
    BY <1>k, <2>1, <2>2 DEF OnItsPath, Touches, Says, SaysNothing, SaysError
  <2> QED BY <2>1, <2>2, <2>3
<1>6. CASE Connect(w)
  <2>1. /\ pc[w] = "connect" /\ UNCHANGED outside /\ castSession' \in {None, castSession}
        /\ UNCHANGED <<loaded, cancelled, sessionToken, stream, relay, events>>
    BY <1>6 DEF Connect
  <2>2. PICK p \in {"castErr", "load"} : Move(w, p)
    BY <1>6 DEF Connect, Move
  <2>3. OnItsPath(w, p) /\ Touches(w) /\ Says(w, p)
    BY <1>k, <2>1, <2>2 DEF OnItsPath, Touches, Says, SaysNothing
  <2> QED BY <2>1, <2>2, <2>3
<1>7. CASE SendLoad(w)
  <2>1. /\ pc[w] = "load" /\ UNCHANGED outside
        /\ UNCHANGED <<castSession, cancelled, sessionToken, stream, relay, events>>
    BY <1>7 DEF SendLoad
  <2>2. PICK p \in {"castErr", "loading"} : Move(w, p)
    BY <1>7 DEF SendLoad, Move
  <2>3. OnItsPath(w, p) /\ Touches(w) /\ Says(w, p)
    BY <1>k, <2>1, <2>2 DEF OnItsPath, Touches, Says, SaysNothing
  <2> QED BY <2>1, <2>2, <2>3
<1>8. CASE AwaitLoad(w)
  <2>1. /\ pc[w] = "loading" /\ UNCHANGED outside /\ castSession' \in {castSession, G(w)}
        /\ UNCHANGED <<cancelled, sessionToken, stream, relay, events>>
    BY <1>8 DEF AwaitLoad
  <2>2. PICK p \in {"castErr", "castOk"} : Move(w, p)
    BY <1>8 DEF AwaitLoad, Move
  <2>3. OnItsPath(w, p) /\ Touches(w) /\ Says(w, p)
    BY <1>k, <2>1, <2>2 DEF OnItsPath, Touches, Says, SaysNothing
  <2> QED BY <2>1, <2>2, <2>3
<1>9. CASE CastOk(w)
  <2>1. /\ pc[w] = "castOk" /\ UNCHANGED outside /\ Move(w, "free")
        /\ UNCHANGED <<castSession, loaded, cancelled, sessionToken, stream, relay>>
        /\ UNCHANGED events \/ Send(EventOf("PlayOk", G(w), FALSE))
    BY <1>9 DEF CastOk, Move
  <2>2. OnItsPath(w, "free") /\ Touches(w) /\ Says(w, "free")
    BY <1>k, <2>1 DEF OnItsPath, Touches, Says, SaysNothing, SaysPlays
  <2> QED BY <2>1, <2>2
<1>10. CASE CastErr(w)
  <2>1. /\ pc[w] = "castErr" /\ UNCHANGED outside /\ Move(w, "free")
        /\ UNCHANGED <<castSession, loaded, cancelled, sessionToken, stream>>
        /\ relay' \in {None, relay}
        /\ \/ UNCHANGED events
           \/ Send(EventOf("Error", G(w), FALSE)) /\ relay' = None
    BY <1>10 DEF CastErr, Move, ReportError, RelayStop
  <2>2. OnItsPath(w, "free") /\ Touches(w) /\ Says(w, "free")
    BY <1>k, <2>1 DEF OnItsPath, Touches, Says, SaysNothing, SaysError
  <2> QED BY <2>1, <2>2
<1> QED
  BY <1>1, <1>2, <1>3, <1>4, <1>5, <1>6, <1>7, <1>8, <1>9, <1>10 DEF CastStep

LEMMA LocalWorks ==
  ASSUME IndInv, KindInv, NEW w \in Workers, LocalStep(w) \/ SessionFails(w)
  PROVE  \E p : Works(w, p)
<1> USE DEF Critical, Opening, Casting, Speaking, Ending, PlayPoints, StopPoints, Past,
        LocalPath, castEngine, localEngine, Works
<1>k. pc[w] \in LocalPath \ {"resolve"} => job[w].local /\ relay = None
  BY DEF IndInv, RelayInv, KindInv
<1>1. CASE StopCastForLocal(w)
  <2>1. /\ pc[w] = "castStop" /\ UNCHANGED outside /\ Move(w, "recheckLocal")
        /\ UNCHANGED <<cancelled, sessionToken, stream, relay, events>>
        /\ castSession' = None
    BY <1>1 DEF StopCastForLocal, Move, CastStop
  <2>2. OnItsPath(w, "recheckLocal") /\ Touches(w) /\ Says(w, "recheckLocal")
    BY <1>k, <2>1 DEF OnItsPath, Touches, Says, SaysNothing
  <2> QED BY <2>1, <2>2
<1>2. CASE Recheck(w, "recheckLocal", "open")
  <2>1. /\ pc[w] = "recheckLocal" /\ UNCHANGED outside
        /\ UNCHANGED <<castSession, loaded, cancelled, sessionToken, stream, relay, events>>
    BY <1>2 DEF Recheck
  <2>2. PICK p \in {"open", "free"} : Move(w, p)
    BY <1>2 DEF Recheck, Move
  <2>3. OnItsPath(w, p) /\ Touches(w) /\ Says(w, p)
    BY <1>k, <2>1, <2>2 DEF OnItsPath, Touches, Says, SaysNothing
  <2> QED BY <2>1, <2>2, <2>3
<1>3. CASE OpenLocal(w)
  <2>1. /\ pc[w] = "open" /\ UNCHANGED outside /\ stream' = None
        /\ sessionToken' \in {sessionToken, G(w)}
        /\ UNCHANGED <<castSession, loaded, relay, events>>
    BY <1>3 DEF OpenLocal, LocalStop
  <2>2. PICK p \in {"probe", "localErr"} : Move(w, p)
    BY <1>3 DEF OpenLocal, Move
  <2>3. OnItsPath(w, p) /\ Touches(w) /\ Says(w, p)
    BY <1>k, <2>1, <2>2 DEF OnItsPath, Touches, Says, SaysNothing
  <2> QED BY <2>1, <2>2, <2>3
<1>4. CASE StreamOpens(w)
  <2>1. /\ pc[w] = "probe" /\ UNCHANGED outside /\ Move(w, "session")
        /\ stream' = G(w) /\ ~cancelled'[G(w)]
        /\ UNCHANGED <<castSession, loaded, cancelled, sessionToken, relay>>
        /\ \/ UNCHANGED events
           \/ generation = G(w) /\ Send(EventOf("PlayOk", G(w), TRUE))
    BY <1>4 DEF StreamOpens, Move
  <2>2. OnItsPath(w, "session") /\ Touches(w) /\ Says(w, "session")
    BY <1>k, <2>1 DEF OnItsPath, Touches, Says, SaysNothing, SaysPlays
  <2> QED BY <2>1, <2>2
<1>5. CASE StreamFails(w) \/ SessionCancelled(w) \/ SessionFails(w)
  <2>1. /\ pc[w] \in {"probe", "session"} /\ UNCHANGED outside /\ Move(w, "localErr")
        /\ stream' \in {None, stream}
        /\ UNCHANGED <<castSession, loaded, sessionToken, relay, events>>
    BY <1>5 DEF StreamFails, SessionCancelled, SessionFails, Move, LocalStop
  <2>2. OnItsPath(w, "localErr") /\ Touches(w) /\ Says(w, "localErr")
    BY <1>k, <2>1 DEF OnItsPath, Touches, Says, SaysNothing
  <2> QED BY <2>1, <2>2
<1>6. CASE LocalReturns(w)
  <2>1. /\ pc[w] = "localErr" /\ UNCHANGED outside /\ Move(w, "free")
        /\ UNCHANGED <<castSession, loaded, cancelled, sessionToken, stream, relay>>
        /\ \/ UNCHANGED events /\ generation # G(w)
           \/ Send(EventOf("Error", G(w), FALSE))
    BY <1>6 DEF LocalReturns, Move, ReportError
  <2>2. OnItsPath(w, "free") /\ Touches(w) /\ Says(w, "free")
    BY <1>k, <2>1 DEF OnItsPath, Touches, Says, SaysNothing, SaysError
  <2> QED BY <2>1, <2>2
<1> QED BY <1>1, <1>2, <1>3, <1>4, <1>5, <1>6 DEF LocalStep

LEMMA HolderWorks ==
  ASSUME IndInv, KindInv, NEW w \in Workers, HolderStep(w)
  PROVE  \E p : Works(w, p)
BY PlainSteps, CastingWorks, LocalWorks DEF HolderStep

-----------------------------------------------------------------------------
(***************************************************************************)
(* The jobs, their sessions and their numbers.                             *)
(***************************************************************************)

LEMMA NoJobIs == NoJob.kind = "volume" /\ NoJob.generation = None /\ ~Operation(NoJob)
  BY DEF NoJob, JobOf, Operation

\* An operation job is where its kind says.
LEMMA JobKinds ==
  ASSUME KindInv, NEW w \in Workers
  PROVE  /\ pc[w] \in PlayPoints \cup StopPoints => Operation(job[w])
         /\ pc[w] \in {"free", "volume", "title"} => ~Operation(job[w])
BY DEF KindInv, Operation

LEMMA ReturnedTyped ==
  ASSUME ControllerOK, NewestInv
  PROVE  /\ generation \in Nat /\ Returned \in Tokens /\ Returned <= generation
         /\ ui.op = "idle" => Returned = generation
         /\ ui.op # "idle" => Returned < generation /\ Returned = generation - 1
BY BoundsAssumption DEF ControllerOK, NewestInv, Returned

\* Nothing but calls moves Returned.
LEMMA ReturnedKept ==
  ASSUME UNCHANGED <<generation, ui>>
  PROVE  Returned' = Returned
BY DEF Returned

LEMMA MoveFacts ==
  ASSUME IndInv, NEW w \in Workers, NEW p, pc[w] \in Critical, Move(w, p)
  PROVE  /\ pc'[w] = p /\ p \in Critical \cup {"free"}
         /\ job'[w] = IF p = "free" THEN NoJob ELSE job[w]
         /\ \A v \in Workers : v # w => /\ pc'[v] = pc[v] /\ job'[v] = job[v]
                                        /\ pc[v] \notin Critical
<1>1. WorkerOK /\ LockInv /\ "free" \notin Critical
  BY PointsSplit DEF IndInv, TypeOK
<1>2. \A v \in Workers : v # w => pc[v] \notin Critical
  BY <1>1 DEF LockInv
<1>3. /\ pc' = [pc EXCEPT ![w] = p]
      /\ job' = IF p = "free" THEN [job EXCEPT ![w] = NoJob] ELSE job
      /\ p \in Critical \cup {"free"}
  BY <1>1 DEF Move, Goto, Finish
<1> QED BY <1>1, <1>2, <1>3 DEF WorkerOK

LEMMA SendFacts ==
  ASSUME EventOK, NEW e, Send(e)
  PROVE  /\ Len(events) \in Nat /\ Len(events') = Len(events) + 1
         /\ events'[Len(events) + 1] = e
         /\ \A i \in 1..Len(events) : events'[i] = events[i]
BY DEF EventOK, Send

\* What can have been sent is about the holder's own operation.
LEMMA SaysFacts ==
  ASSUME EventOK, NEW w, NEW p, Says(w, p)
  PROVE  \/ SaysNothing(w) /\ events' = events
         \/ /\ Len(events) \in Nat /\ Len(events') = Len(events) + 1
            /\ \A i \in 1..Len(events) : events'[i] = events[i]
            /\ events'[Len(events) + 1].generation = G(w)
<1>1. CASE SaysNothing(w)
  BY <1>1 DEF SaysNothing
<1>2. CASE ~SaysNothing(w)
  <2>1. PICK t \in {"Error", "PlayOk", "StopOk"}, l \in BOOLEAN : Send(EventOf(t, G(w), l))
    BY <1>2 DEF Says, SaysError, SaysPlays, SaysStopped
  <2>2. EventOf(t, G(w), l).generation = G(w)
    BY DEF EventOf
  <2> QED BY <2>1, <2>2, SendFacts
<1> QED BY <1>1, <1>2

LEMMA HolderJobInv ==
  ASSUME IndInv, JobInv, NEW w \in Workers, NEW p, Works(w, p)
  PROVE  JobInv'
<1>t. /\ EventOK /\ ControllerOK /\ EngineOK /\ WorkerOK
      /\ KindInv /\ NewestInv /\ PastInv /\ OneJobInv
  BY DEF IndInv, TypeOK, JobInv
<1>w. /\ pc[w] \in Critical /\ Move(w, p) /\ UNCHANGED outside
      /\ OnItsPath(w, p) /\ Touches(w) /\ Says(w, p)
  BY DEF Works
<1>m. /\ pc'[w] = p /\ p \in Critical \cup {"free"}
      /\ job'[w] = IF p = "free" THEN NoJob ELSE job[w]
      /\ \A v \in Workers : v # w => /\ pc'[v] = pc[v] /\ job'[v] = job[v]
                                     /\ pc[v] \notin Critical
  BY <1>w, MoveFacts
<1>r. Returned' = Returned /\ Returned \in Tokens /\ Returned <= generation
  BY <1>t, <1>w, ReturnedKept, ReturnedTyped DEF outside
<1>g. G(w) \in Tokens /\ G(w) <= Returned
  BY <1>t, GTyped DEF NewestInv
<1>1. KindInv'
  <2>1. ASSUME NEW v \in Workers
        PROVE  /\ pc'[v] \in PlayPoints => job'[v].kind = "play"
               /\ pc'[v] \in StopPoints => job'[v].kind = "stop"
               /\ pc'[v] \in {"free", "volume"} => job'[v].kind = "volume"
               /\ pc'[v] = "title" => job'[v].kind = "title"
               /\ pc'[v] \in Casting => ~job'[v].local
               /\ pc'[v] \in LocalPath \ {"resolve"} => job'[v].local
               /\ pc'[v] = "stopCast" => relay' = None
    <3>1. CASE v # w
      BY <1>t, <1>m, <3>1 DEF KindInv, Critical, Ending
    <3>2. CASE v = w
      BY <1>t, <1>w, <1>m, <3>2, NoJobIs DEF KindInv, OnItsPath, PlayPoints, StopPoints, Past,
         LocalPath, Critical, Opening, Casting, Speaking, Ending
    <3> QED BY <3>1, <3>2
  <2> QED BY <2>1 DEF KindInv
<1>2. NewestInv'
  <2>1. /\ ui' = ui /\ queue' = queue /\ generation' = generation /\ phase' = phase
        /\ runtimeCancelled' = runtimeCancelled /\ opToken' = opToken
    BY <1>w DEF outside
  <2>2. \A v \in Workers : G(v)' <= Returned
    BY <1>t, <1>m, <1>r, NoJobIs DEF NewestInv, G
  <2>3. \A i \in 1..Len(events') : events'[i].generation <= Returned
    BY <1>t, <1>w, <1>g, SaysFacts DEF NewestInv
  <2>4. /\ castSession' <= Returned /\ relay' <= Returned /\ stream' <= Returned
        /\ sessionToken' <= Returned
    BY <1>t, <1>w, <1>g, <1>r DEF NewestInv, Touches
  <2> QED BY <1>t, <1>r, <2>1, <2>2, <2>3, <2>4 DEF NewestInv
<1>3. PastInv'
  <2> SUFFICES ASSUME NEW v \in Workers, pc'[v] \in Past
               PROVE  castSession' <= G(v)' /\ relay' <= G(v)' /\ stream' <= G(v)'
    BY DEF PastInv
  <2>1. v = w /\ p # "free"
    BY <1>m DEF Past, Critical, Opening, Casting, Speaking
  <2>2. G(v)' = G(w)
    BY <1>m, <2>1 DEF G
  <2>3. CASE pc[w] = "check"
    <3>1. G(w) = generation /\ UNCHANGED <<castSession, relay, stream>>
      BY <1>w, <2>1, <2>3 DEF OnItsPath, Touches
    <3>2. generation \in Nat /\ castSession \in Nat /\ relay \in Nat /\ stream \in Nat
          /\ Returned \in Nat
      BY <1>t, <1>r, BoundsAssumption DEF ControllerOK, EngineOK
    <3> QED BY <1>t, <1>r, <2>2, <3>1, <3>2 DEF NewestInv
  <2>4. CASE pc[w] \in Past
    BY <1>t, <1>w, <1>g, <2>2, <2>4 DEF PastInv, Touches
  <2>5. pc[w] \in Ending => p \in {"stopCast", "free"}
    BY <1>w DEF OnItsPath, StopPoints
  <2> QED BY <1>w, <1>m, <2>1, <2>3, <2>4, <2>5 DEF Past, Critical, Opening, Casting, Speaking, Ending
<1>4. OneJobInv'
  <2>1. queue' = queue
    BY <1>w DEF outside
  <2>2. \A v \in Workers : Operation(job'[v]) => job'[v] = job[v]
    BY <1>m, NoJobIs
  <2> QED BY <1>t, <2>1, <2>2 DEF OneJobInv, G
<1> QED BY <1>1, <1>2, <1>3, <1>4 DEF JobInv

\* Taking a job, taking the mutex, and the jobs that never take it.
LEMMA ExecutorJobInv ==
  ASSUME IndInv, JobInv, NEW w \in Workers,
         Receive(w) \/ Lock(w) \/ TitleEnds(w) \/ ApplyVolume(w)
  PROVE  JobInv'
<1>t. /\ EventOK /\ ControllerOK /\ EngineOK /\ WorkerOK /\ QueueOK
      /\ KindInv /\ NewestInv /\ PastInv /\ OneJobInv
  BY DEF IndInv, TypeOK, JobInv
<1>u. UNCHANGED <<controller, runtimeCancelled, engines, events>>
  BY DEF Receive, Lock, TitleEnds, ApplyVolume
<1>r. Returned' = Returned /\ Returned \in Tokens
  BY <1>t, <1>u, ReturnedKept, ReturnedTyped DEF controller
<1> USE DEF controller, engines
<1>1. CASE Receive(w) /\ ~runtimeCancelled
  <2>1. /\ pc[w] = "free" /\ queue # <<>> /\ queue' = Tail(queue)
        /\ pc' = [pc EXCEPT ![w] = FirstPoint(queue[1])]
        /\ job' = [job EXCEPT ![w] = queue[1]]
    BY <1>t, <1>1 DEF Receive, QueueOK
  <2>2. queue[1] \in Job /\ 1 \in 1..Len(queue) /\ Len(queue') = Len(queue) - 1
        /\ \A i \in 1..Len(queue') : i + 1 \in 1..Len(queue) /\ queue'[i] = queue[i + 1]
    BY <1>t, <2>1 DEF QueueOK
  <2>3. /\ pc'[w] = FirstPoint(queue[1]) /\ job'[w] = queue[1]
        /\ \A v \in Workers : v # w => pc'[v] = pc[v] /\ job'[v] = job[v]
    BY <1>t, <2>1 DEF WorkerOK
  <2>4. \/ queue[1].kind = "play" /\ pc'[w] = "lockPlay"
        \/ queue[1].kind = "stop" /\ pc'[w] = "lockStop"
        \/ queue[1].kind = "title" /\ pc'[w] = "title"
        \/ queue[1].kind = "volume" /\ pc'[w] = "volume"
    BY <2>2, <2>3 DEF FirstPoint, Job
  <2>5. KindInv'
    <3>1. \A v \in Workers : v # w => pc'[v] = pc[v] /\ job'[v] = job[v]
      BY <2>3
    <3>2. /\ pc'[w] \in PlayPoints => job'[w].kind = "play"
          /\ pc'[w] \in StopPoints => job'[w].kind = "stop"
          /\ pc'[w] \in {"free", "volume"} => job'[w].kind = "volume"
          /\ pc'[w] = "title" => job'[w].kind = "title"
          /\ pc'[w] \notin Casting \cup LocalPath \cup {"stopCast"}
      BY <2>3, <2>4 DEF PlayPoints, StopPoints, Opening, Casting, Speaking, Ending, LocalPath
    <3> QED BY <1>t, <1>u, <3>1, <3>2 DEF KindInv
  <2>6. NewestInv'
    <3>1. \A v \in Workers : G(v)' <= Returned
      BY <1>t, <2>2, <2>3 DEF NewestInv, G
    <3>2. \A i \in 1..Len(queue') : queue'[i].generation <= Returned
      BY <1>t, <2>2 DEF NewestInv
    <3> QED BY <1>t, <1>u, <1>r, <3>1, <3>2 DEF NewestInv
  <2>7. PastInv'
    <3>1. pc'[w] \notin Past
      BY <2>4 DEF Past, Opening, Casting, Speaking
    <3> QED BY <1>t, <1>u, <2>3, <3>1 DEF PastInv, G
  <2>8. OneJobInv'
    <3>1. ~Operation(job[w])
      BY <1>t, <2>1, JobKinds
    <3>2. \A i, j \in 1..Len(queue') : i + 1 = j + 1 => i = j
      BY <1>t, <2>2 DEF QueueOK
    <3>3. \A i \in 1..Len(queue') : i + 1 # 1
      BY <1>t, <2>2 DEF QueueOK
    <3>4. \A i, j \in 1..Len(queue') :
             (/\ Operation(queue'[i]) /\ Operation(queue'[j])
              /\ queue'[i].generation = queue'[j].generation) => i = j
      <4> SUFFICES ASSUME NEW i \in 1..Len(queue'), NEW j \in 1..Len(queue'),
                          Operation(queue'[i]), Operation(queue'[j]),
                          queue'[i].generation = queue'[j].generation
                   PROVE  i = j
        OBVIOUS
      <4>1. /\ i + 1 \in 1..Len(queue) /\ j + 1 \in 1..Len(queue)
            /\ queue'[i] = queue[i + 1] /\ queue'[j] = queue[j + 1]
        BY <2>2
      <4>2. Operation(queue[i + 1]) /\ Operation(queue[j + 1])
        BY <4>1
      <4>3. i + 1 = j + 1
        BY <1>t, <4>1, <4>2 DEF OneJobInv
      <4> QED BY <3>2, <4>3
    <3>5. \A v, x \in Workers :
             (Operation(job'[v]) /\ Operation(job'[x]) /\ G(v)' = G(x)') => v = x
      BY <1>t, <2>2, <2>3 DEF OneJobInv, G
    <3>6. \A i \in 1..Len(queue'), v \in Workers :
             ~(Operation(queue'[i]) /\ Operation(job'[v]) /\ queue'[i].generation = G(v)')
      BY <1>t, <2>2, <2>3, <3>3 DEF OneJobInv, G
    <3> QED BY <3>4, <3>5, <3>6 DEF OneJobInv
  <2> QED BY <2>5, <2>6, <2>7, <2>8 DEF JobInv
<1>2. CASE Receive(w) /\ runtimeCancelled
  <2>1. queue # <<>> /\ queue' = Tail(queue) /\ UNCHANGED <<pc, job>>
    BY <1>2 DEF Receive
  <2>2. \A i \in 1..Len(queue') : i + 1 \in 1..Len(queue) /\ queue'[i] = queue[i + 1]
    BY <1>t, <2>1 DEF QueueOK
  <2>3. \A i, j \in 1..Len(queue') : i + 1 = j + 1 => i = j
    BY <1>t, <2>1 DEF QueueOK
  <2>4. KindInv' /\ PastInv'
    BY <1>t, <1>u, <2>1 DEF KindInv, PastInv, G
  <2>5. NewestInv'
    BY <1>t, <1>u, <1>r, <2>1, <2>2 DEF NewestInv, G
  <2>6. OneJobInv'
    BY <1>t, <2>1, <2>2, <2>3 DEF OneJobInv, G
  <2> QED BY <2>4, <2>5, <2>6 DEF JobInv
<1>3. CASE Lock(w)
  <2>1. /\ UNCHANGED <<queue, job>>
        /\ \A v \in Workers : v # w => pc'[v] = pc[v]
        /\ \/ pc[w] = "lockPlay" /\ pc'[w] = "check"
           \/ pc[w] = "lockStop" /\ pc'[w] = "stopEngines"
    BY <1>t, <1>3 DEF Lock, Waiting, WorkerOK
  <2>2. KindInv'
    BY <1>t, <1>u, <2>1 DEF KindInv, PlayPoints, StopPoints, LocalPath, Opening, Casting,
       Speaking, Ending
  <2>3. NewestInv' /\ OneJobInv'
    BY <1>t, <1>u, <1>r, <2>1 DEF NewestInv, OneJobInv, G
  <2>4. PastInv'
    BY <1>t, <1>u, <2>1 DEF PastInv, G, Past, Opening, Casting, Speaking
  <2> QED BY <2>2, <2>3, <2>4 DEF JobInv
<1>4. CASE TitleEnds(w) \/ ApplyVolume(w)
  <2>1. queue' = queue /\ pc' = [pc EXCEPT ![w] = "free"] /\ job' = [job EXCEPT ![w] = NoJob]
    BY <1>4 DEF TitleEnds, ApplyVolume, Finish
  <2>2. /\ pc'[w] = "free" /\ job'[w] = NoJob
        /\ \A v \in Workers : v # w => pc'[v] = pc[v] /\ job'[v] = job[v]
    BY <1>t, <2>1 DEF WorkerOK
  <2>3. KindInv' /\ PastInv'
    BY <1>t, <1>u, <2>2, NoJobIs DEF KindInv, PastInv, G, Past, PlayPoints, StopPoints, LocalPath,
       Opening, Casting, Speaking, Ending
  <2>4. NewestInv'
    <3>1. \A v \in Workers : G(v)' <= Returned
      BY <1>t, <1>r, <2>2, NoJobIs DEF NewestInv, G
    <3> QED BY <1>t, <1>u, <1>r, <2>1, <3>1 DEF NewestInv
  <2>5. OneJobInv'
    <3>1. \A v \in Workers : Operation(job'[v]) => job'[v] = job[v]
      BY <2>2, NoJobIs
    <3> QED BY <1>t, <2>1, <3>1 DEF OneJobInv, G
  <2> QED BY <2>3, <2>4, <2>5 DEF JobInv
<1> QED BY <1>1, <1>2, <1>3, <1>4

-----------------------------------------------------------------------------
(***************************************************************************)
(* What a returning call does, and what a step beside the jobs does.       *)
(***************************************************************************)

\* A new job is about the call, and it is the last of the queue.
NewJob(i) ==
    /\ i = Len(queue') /\ queue'[i].generation = generation /\ Operation(queue'[i])
    /\ phase'.tag = IF queue'[i].kind = "play" THEN "Opening" ELSE "Stopping"
    /\ phase'.local = queue'[i].local /\ UNCHANGED events

Called ==
    /\ ui.op # "idle" /\ ui'.op = "idle" /\ generation' = generation
    /\ UNCHANGED <<pc, job, castSession, sessionToken>>
    /\ relay' \in {None, relay} /\ stream' \in {None, stream}
    /\ opToken' \in {opToken, generation}
    /\ \A i \in 1..Len(queue') : \/ i \in 1..Len(queue) /\ queue'[i] = queue[i]
                                 \/ ~Operation(queue'[i]) /\ queue'[i].generation = generation
                                 \/ NewJob(i)
    /\ \/ phase' = Idle
       \/ /\ phase'.tag \in {"Opening", "Failed", "Stopping"} /\ phase'.generation = generation
          /\ phase'.tag = "Failed" => ~phase'.local
    /\ \/ UNCHANGED events
       \/ phase'.tag # "Idle" /\ Send(EventOf("Error", generation, FALSE))

\* Between calls: the engines, the channel and the phase stay as they are.
Beside ==
    /\ UNCHANGED <<pc, job, castSession, sessionToken, relay, stream, opToken, phase,
                   events, cancelled, loaded>>
    /\ \A i \in 1..Len(queue') : \/ i \in 1..Len(queue) /\ queue'[i] = queue[i]
                                 \/ /\ ~Operation(queue'[i])
                                    /\ queue'[i].generation = None
    /\ \/ UNCHANGED <<generation, ui, runtimeCancelled>>
       \/ /\ generation' = generation + 1 /\ ui.op = "idle" /\ ui'.op # "idle"
          /\ ~runtimeCancelled'

LEMMA SubmitFacts ==
  ASSUME NEW q \in Seq(Job), NEW j
  PROVE  /\ Len(q) \in Nat
         /\ \A i \in 1..Len(q) : Submit(q, j)[i] = q[i]
         /\ HasRoom(q) => /\ Len(Submit(q, j)) = Len(q) + 1
                          /\ Submit(q, j)[Len(q) + 1] = j
                          /\ \A i \in 1..Len(Submit(q, j)) : i \in 1..Len(q) \/ i = Len(q) + 1
         /\ ~HasRoom(q) => Submit(q, j) = q
BY DEF Submit

LEMMA JobOfIs ==
  ASSUME NEW k, NEW g, NEW l, NEW v
  PROVE  /\ JobOf(k, g, l, v).kind = k /\ JobOf(k, g, l, v).generation = g
         /\ JobOf(k, g, l, v).local = l
BY DEF JobOf

LEMMA PhaseOfIs ==
  ASSUME NEW t, NEW g, NEW l
  PROVE  /\ PhaseOf(t, g, l).tag = t /\ PhaseOf(t, g, l).generation = g
         /\ PhaseOf(t, g, l).local = l
BY DEF PhaseOf

LEMMA PlayCalled ==
  ASSUME IndInv, Play
  PROVE  Called
<1>t. queue \in Seq(Job) /\ ControllerOK /\ LevelOK
  BY DEF IndInv, TypeOK, QueueOK
<1> DEFINE title == JobOf("title", generation, TRUE, volume)
           play  == JobOf("play", generation, ui.local, volume)
           first == IF ui.local THEN Submit(queue, title) ELSE queue
<1>1. /\ ui.op # "idle" /\ ui'.op = "idle" /\ generation' = generation
      /\ UNCHANGED <<pc, job, castSession, sessionToken, relay, stream>>
      /\ opToken' = generation
  BY <1>t DEF Play, engines, ControllerOK
<1>2. /\ queue' = Submit(first, play)
      /\ IF HasRoom(first)
         THEN phase' = PhaseOf("Opening", generation, ui.local) /\ UNCHANGED events
         ELSE /\ phase' = PhaseOf("Failed", generation, FALSE)
              /\ Send(EventOf("Error", generation, FALSE))
  BY DEF Play
<1>3. /\ first \in Seq(Job) /\ Len(queue) \in Nat
      /\ \A i \in 1..Len(first) :
            \/ i \in 1..Len(queue) /\ first[i] = queue[i]
            \/ first[i] = title
  <2>1. title \in Job
    BY <1>t DEF ControllerOK, LevelOK, JobOf, Job
  <2> HIDE DEF title
  <2>2. first \in Seq(Job)
    BY <1>t, <2>1 DEF Submit
  <2> QED BY <1>t, <2>2, SubmitFacts
<1>4. /\ ~Operation(title) /\ title.generation = generation
      /\ Operation(play) /\ play.kind = "play" /\ play.generation = generation
      /\ play.local = ui.local
  BY DEF Operation, JobOf
<1> HIDE DEF title, play, first
<1>5. ASSUME NEW i \in 1..Len(queue')
      PROVE  \/ i \in 1..Len(queue) /\ queue'[i] = queue[i]
             \/ ~Operation(queue'[i]) /\ queue'[i].generation = generation
             \/ NewJob(i)
  <2>1. CASE i \in 1..Len(first) /\ queue'[i] = first[i]
    BY <1>3, <1>4, <2>1
  <2>2. CASE HasRoom(first) /\ i = Len(queue') /\ queue'[i] = play
    BY <1>2, <1>4, <2>2, PhaseOfIs DEF NewJob
  <2> QED BY <1>2, <1>3, <2>1, <2>2, SubmitFacts
<1>6. /\ phase'.tag \in {"Opening", "Failed", "Stopping"} /\ phase'.generation = generation
      /\ phase'.tag = "Failed" => ~phase'.local
      /\ UNCHANGED events \/ (phase'.tag # "Idle" /\ Send(EventOf("Error", generation, FALSE)))
  <2>1. CASE HasRoom(first)
    BY <1>2, <2>1 DEF PhaseOf
  <2>2. CASE ~HasRoom(first)
    <3>1. phase' = PhaseOf("Failed", generation, FALSE)
      BY <1>2, <2>2
    <3>2. Send(EventOf("Error", generation, FALSE))
      BY <1>2, <2>2, Zenon
    <3>3. phase'.tag = "Failed" /\ phase'.generation = generation /\ phase'.local = FALSE
      BY <3>1 DEF PhaseOf
    <3> QED BY <3>2, <3>3
  <2> QED BY <2>1, <2>2
<1> QED BY <1>1, <1>5, <1>6 DEF Called

LEMMA StopCalled ==
  ASSUME IndInv, Stop
  PROVE  Called
<1>t. queue \in Seq(Job) /\ ControllerOK
  BY DEF IndInv, TypeOK, QueueOK
<1> DEFINE stop == JobOf("stop", generation, FALSE, volume)
<1>1. /\ ui.op # "idle" /\ ui'.op = "idle" /\ generation' = generation
      /\ UNCHANGED <<pc, job, castSession, sessionToken, relay, stream, opToken>>
  BY <1>t DEF Stop, engines, ControllerOK
<1>2. /\ queue' = Submit(queue, stop) /\ phase' = PhaseOf("Stopping", generation, FALSE)
      /\ HasRoom(queue) => UNCHANGED events
      /\ UNCHANGED events \/ Send(EventOf("Error", generation, FALSE))
  BY DEF Stop
<1>3. /\ phase'.tag = "Stopping" /\ phase'.generation = generation /\ phase'.local = FALSE
  BY <1>2 DEF PhaseOf
<1>4. /\ Operation(stop) /\ stop.kind = "stop" /\ stop.generation = generation
      /\ stop.local = FALSE
  BY DEF Operation, JobOf
<1> HIDE DEF stop
<1>5. ASSUME NEW i \in 1..Len(queue')
      PROVE  \/ i \in 1..Len(queue) /\ queue'[i] = queue[i]
             \/ NewJob(i)
  <2>1. CASE HasRoom(queue) /\ i = Len(queue') /\ queue'[i] = stop
    BY <1>2, <1>3, <1>4, <2>1 DEF NewJob
  <2> QED BY <1>t, <1>2, <2>1, SubmitFacts
<1> QED BY <1>1, <1>2, <1>3, <1>5 DEF Called

LEMMA CallsCalled ==
  ASSUME IndInv, Play \/ Stop \/ Shutdown
  PROVE  Called
<1>1. CASE Shutdown
  BY <1>1 DEF Shutdown, Called, IndInv, TypeOK, ControllerOK
<1> QED BY <1>1, PlayCalled, StopCalled

LEMMA OthersBeside ==
  ASSUME IndInv, UserStep \/ (\E g \in Tokens : DecodeEnds(g)) \/ UNCHANGED vars
  PROVE  Beside
<1>1. ASSUME NEW op \in {"play", "stop", "shutdown"}, NEW local \in BOOLEAN, Begin(op, local)
      PROVE  Beside
  BY <1>1 DEF Begin, Beside, executor, engines
<1>2. ASSUME NEW level \in Levels, NEW local \in BOOLEAN, SetVolume(level, local)
      PROVE  Beside
  <2>1. queue \in Seq(Job) /\ queue' = Submit(queue, JobOf("volume", None, local, level))
    BY <1>2 DEF SetVolume, IndInv, TypeOK, QueueOK
  <2>2. \A i \in 1..Len(queue') : \/ i \in 1..Len(queue) /\ queue'[i] = queue[i]
                                  \/ queue'[i] = JobOf("volume", None, local, level)
    BY <2>1, SubmitFacts
  <2>3. /\ ~Operation(JobOf("volume", None, local, level))
        /\ JobOf("volume", None, local, level).generation = None
    BY JobOfIs DEF Operation
  <2> QED BY <1>2, <2>2, <2>3 DEF SetVolume, Beside, controller, engines
<1>3. ASSUME NEW g \in Tokens, DecodeEnds(g)
      PROVE  Beside
  BY <1>3 DEF DecodeEnds, Beside, controller, executor
<1>4. CASE UNCHANGED vars
  BY <1>4 DEF vars, controller, executor, engines, Beside
<1> QED BY <1>1, <1>2, <1>3, <1>4 DEF UserStep

\* After a call its own number is the bound, and every older one is below it.
LEMMA CalledReturned ==
  ASSUME IndInv, NewestInv, Called
  PROVE  /\ Returned' = generation /\ generation' = generation /\ generation \in Nat
         /\ Returned \in Nat /\ Returned < generation
<1>1. ControllerOK
  BY DEF IndInv, TypeOK
<1> QED BY <1>1, ReturnedTyped, BoundsAssumption DEF Called, Returned

LEMMA BesideReturned ==
  ASSUME IndInv, NewestInv, Beside
  PROVE  /\ Returned' = Returned /\ Returned \in Nat
         /\ \/ UNCHANGED <<generation, ui, runtimeCancelled>>
            \/ Returned < generation' /\ ui'.op # "idle" /\ ~runtimeCancelled' /\ generation' # 0
<1>1. ControllerOK
  BY DEF IndInv, TypeOK
<1> QED BY <1>1, ReturnedTyped, BoundsAssumption DEF Beside, Returned, ControllerOK

LEMMA CallJobInv ==
  ASSUME IndInv, JobInv, Called
  PROVE  JobInv'
<1>t. /\ ControllerOK /\ EngineOK /\ WorkerOK /\ QueueOK /\ EventOK
      /\ KindInv /\ NewestInv /\ PastInv /\ OneJobInv
  BY DEF IndInv, TypeOK, JobInv
<1>r. /\ Returned' = generation /\ generation' = generation /\ generation \in Nat
      /\ Returned \in Nat /\ Returned < generation
  BY <1>t, CalledReturned
<1>w. \A w \in Workers : G(w) \in Nat /\ G(w) <= Returned /\ G(w)' = G(w)
  BY <1>t, GTyped, BoundsAssumption DEF NewestInv, Called, G
<1>q. \A i \in 1..Len(queue) : queue[i].generation \in Nat /\ queue[i].generation <= Returned
  <2>1. \A i \in 1..Len(queue) : queue[i] \in Job
    BY <1>t DEF QueueOK
  <2>2. \A j \in Job : j.generation \in Nat
    BY BoundsAssumption DEF Job
  <2> QED BY <1>t, <2>1, <2>2 DEF NewestInv
<1>j. UNCHANGED <<pc, job, castSession, sessionToken>> /\ relay' \in {None, relay} /\ stream' \in {None, stream}
  BY DEF Called
<1>1. KindInv'
  BY <1>t, <1>j DEF KindInv
<1>2. PastInv'
  BY <1>t, <1>j, <1>w DEF PastInv
<1>3. NewestInv'
  <2>1. \A i \in 1..Len(queue') : queue'[i].generation <= generation
    BY <1>q, <1>r DEF Called, NewJob
  <2>2. \A i \in 1..Len(events) : events[i].generation <= generation
    <3>1. \A i \in 1..Len(events) : events[i] \in Event
      BY <1>t DEF EventOK
    <3>2. \A e \in Event : e.generation \in Nat
      BY BoundsAssumption DEF Event
    <3> QED BY <1>t, <1>r, <3>1, <3>2 DEF NewestInv
  <2>3. \A i \in 1..Len(events') : events'[i].generation <= generation
    <3>1. CASE UNCHANGED events
      BY <2>2, <3>1
    <3>2. CASE Send(EventOf("Error", generation, FALSE))
      <4>1. EventOf("Error", generation, FALSE).generation = generation
        BY DEF EventOf
      <4>2. /\ Len(events) \in Nat /\ Len(events') = Len(events) + 1
            /\ events'[Len(events) + 1].generation = generation
            /\ \A i \in 1..Len(events) : events'[i] = events[i]
        BY <1>t, <3>2, <4>1, SendFacts
      <4> QED BY <1>r, <2>2, <4>2
    <3> QED BY <3>1, <3>2 DEF Called
  <2>4. \A w \in Workers : G(w)' <= generation
    BY <1>w, <1>r
  <2>5. /\ castSession' <= generation /\ relay' <= generation /\ stream' <= generation
        /\ sessionToken' <= generation /\ opToken' <= generation
    BY <1>t, <1>j, <1>r, BoundsAssumption DEF NewestInv, EngineOK, ControllerOK, Called
  <2>6. phase'.generation <= generation
    BY <1>r DEF Called, Idle
  <2>7. ui'.op = "idle"
    BY DEF Called
  <2> QED BY <1>r, <2>1, <2>3, <2>4, <2>5, <2>6, <2>7 DEF NewestInv
<1>4. OneJobInv'
  <2>1. \A i \in 1..Len(queue') : Operation(queue'[i]) =>
           \/ i \in 1..Len(queue) /\ queue'[i] = queue[i] /\ queue'[i].generation # generation
           \/ i = Len(queue') /\ queue'[i].generation = generation
    BY <1>q, <1>r DEF Called, NewJob
  <2>2. \A i, j \in 1..Len(queue') :
          (/\ Operation(queue'[i]) /\ Operation(queue'[j])
           /\ queue'[i].generation = queue'[j].generation) => i = j
    BY <1>t, <2>1 DEF OneJobInv
  <2>3. \A i \in 1..Len(queue'), w \in Workers :
          ~(Operation(queue'[i]) /\ Operation(job[w]) /\ queue'[i].generation = G(w))
    BY <1>t, <1>w, <1>r, <2>1 DEF OneJobInv
  <2> QED BY <1>t, <1>j, <1>w, <2>2, <2>3 DEF OneJobInv
<1> QED BY <1>1, <1>2, <1>3, <1>4 DEF JobInv

LEMMA BesideJobInv ==
  ASSUME IndInv, JobInv, Beside
  PROVE  JobInv'
<1>t. KindInv /\ NewestInv /\ PastInv /\ OneJobInv
  BY DEF JobInv
<1>r. /\ Returned' = Returned /\ Returned \in Nat
      /\ \/ UNCHANGED <<generation, ui, runtimeCancelled>>
         \/ Returned < generation' /\ ui'.op # "idle" /\ ~runtimeCancelled' /\ generation' # 0
  BY <1>t, BesideReturned
<1>j. UNCHANGED <<pc, job, castSession, sessionToken, relay, stream, opToken, phase, events>>
  BY DEF Beside
<1>1. KindInv' /\ PastInv'
  BY <1>t, <1>j DEF KindInv, PastInv, G
<1>2. NewestInv'
  <2>1. \A i \in 1..Len(queue') : queue'[i].generation <= Returned
    BY <1>t, <1>r DEF Beside, NewestInv
  <2> QED BY <1>t, <1>j, <1>r, <2>1 DEF NewestInv, G
<1>3. OneJobInv'
  <2>1. \A i \in 1..Len(queue') : Operation(queue'[i]) =>
           i \in 1..Len(queue) /\ queue'[i] = queue[i]
    BY DEF Beside
  <2> QED BY <1>t, <1>j, <2>1 DEF OneJobInv, G
<1> QED BY <1>1, <1>2, <1>3 DEF JobInv

\* The phase an event leads to.
LEMMA PhaseAfterIs ==
  ASSUME NEW e \in Event
  PROVE  /\ e.tag = "PlayOk" => PhaseAfter(e) = PhaseOf("Playing", e.generation, e.local)
         /\ e.tag = "StopOk" => PhaseAfter(e) = Idle
         /\ e.tag = "Error" => PhaseAfter(e) = PhaseOf("Failed", e.generation, FALSE)
         /\ e.tag \in {"PlayOk", "StopOk", "Error"} /\ e.generation \in Tokens
BY DEF PhaseAfter, Event

LEMMA ApplyFacts ==
  ASSUME IndInv, ApplyEvent
  PROVE  /\ ui.op = "idle" /\ ~runtimeCancelled
         /\ UNCHANGED <<generation, opToken, ui, cancelled, executor, engines>>
         /\ Returned = generation /\ Returned' = generation
         /\ events[1] \in Event /\ 1 \in 1..Len(events) /\ Len(events) \in Nat
         /\ Len(events') = Len(events) - 1
         /\ \A i \in 1..Len(events') : i + 1 \in 2..Len(events) /\ events'[i] = events[i + 1]
         /\ phase' = IF events[1].generation = generation THEN PhaseAfter(events[1]) ELSE phase
<1>1. events \in Seq(Event) /\ events # <<>>
  BY DEF IndInv, TypeOK, EventOK, ApplyEvent
<1>2. Head(events) = events[1]
  BY <1>1
<1> QED BY <1>1, <1>2 DEF ApplyEvent, IsCurrent, Returned

LEMMA ApplyJobInv ==
  ASSUME IndInv, JobInv, ApplyEvent
  PROVE  JobInv'
<1>t. KindInv /\ NewestInv /\ PastInv /\ OneJobInv
  BY DEF JobInv
<1>j. /\ UNCHANGED <<generation, opToken, ui, cancelled, executor, engines>>
      /\ Returned' = Returned /\ Returned = generation /\ ui.op = "idle"
  BY ApplyFacts
<1> USE DEF executor, engines
<1>1. KindInv' /\ PastInv' /\ OneJobInv'
  BY <1>t, <1>j DEF KindInv, PastInv, OneJobInv, G
<1>2. \A i \in 1..Len(events') : events'[i].generation <= Returned
  <2>1. \A i \in 1..Len(events') : i + 1 \in 1..Len(events) /\ events'[i] = events[i + 1]
    BY ApplyFacts
  <2> QED BY <1>t, <2>1 DEF NewestInv
<1>3. phase'.generation <= Returned
  <2>1. CASE events[1].generation = generation
    <3>1. generation \in Nat
      BY BoundsAssumption DEF IndInv, TypeOK, ControllerOK
    <3>2. phase' = PhaseAfter(events[1]) /\ events[1] \in Event
      BY <2>1, ApplyFacts
    <3>3. phase'.generation \in {None, generation}
      BY <2>1, <3>2, PhaseAfterIs DEF Idle, PhaseOf
    <3> QED BY <1>j, <3>1, <3>3
  <2>2. CASE events[1].generation # generation
    BY <1>t, <2>2, ApplyFacts DEF NewestInv
  <2> QED BY <2>1, <2>2
<1>4. NewestInv'
  BY <1>t, <1>j, <1>2, <1>3 DEF NewestInv, G
<1> QED BY <1>1, <1>4 DEF JobInv

LEMMA InitJobInv == Init => JobInv
<1> SUFFICES ASSUME Init PROVE JobInv
  OBVIOUS
<1>1. /\ \A w \in Workers : pc[w] = "free" /\ job[w] = NoJob /\ G(w) = None
      /\ Len(queue) = 0 /\ Len(events) = 0 /\ Returned = 0
  BY NoJobIs DEF Init, G, Returned
<1>2. KindInv
  BY <1>1, NoJobIs DEF KindInv, PlayPoints, StopPoints, LocalPath, Opening, Casting, Speaking, Ending
<1>3. NewestInv
  BY <1>1 DEF Init, NewestInv, Idle
<1>4. PastInv /\ OneJobInv
  BY <1>1, NoJobIs DEF PastInv, OneJobInv, Past, Opening, Casting, Speaking
<1> QED BY <1>2, <1>3, <1>4 DEF JobInv

-----------------------------------------------------------------------------
(***************************************************************************)
(* The phase, the events on their way, and the jobs that will send more.   *)
(***************************************************************************)

\* The i-th event is about the operation called last; none is.
Mine(i) == events[i].generation = Returned
Unsaid  == \A i \in 1..Len(events) : ~Mine(i)

\* The phase is the one the call that made job j left, and nothing is said of it.
Asked(j) == /\ Unsaid /\ phase.local = j.local
            /\ phase.tag = IF j.kind = "play" THEN "Opening" ELSE "Stopping"

\* The phase is about the operation called last, and a failure names no output.
PhaseInv == \/ phase = Idle
            \/ /\ phase.tag # "Idle" /\ phase.generation = Returned
               /\ phase.tag = "Failed" => ~phase.local

\* One success is on its way at most, ahead of any failure, and only to a phase
\* that waits for it; a stop's answer is the only one; a failure is the last.
EventInv ==
    \A i \in 1..Len(events) : Mine(i) =>
        /\ events[i].tag = "PlayOk" =>
              /\ phase.tag = "Opening" /\ phase.local = events[i].local
              /\ \A j \in 1..Len(events) : Mine(j) => i <= j
        /\ events[i].tag = "StopOk" =>
              phase.tag = "Stopping" /\ \A j \in 1..Len(events) : Mine(j) => i = j
        /\ events[i].tag = "Error" =>
              phase.tag # "Idle" /\ \A j \in 1..Len(events) : Mine(j) => j <= i

\* The jobs of the operation called last.
AskedInv ==
    /\ \A i \in 1..Len(queue) :
          (Operation(queue[i]) /\ queue[i].generation = Returned) => Asked(queue[i])
    /\ \A w \in Workers : (pc[w] \in Unanswered \cup StopPoints /\ G(w) = Returned) => Asked(job[w])
    /\ \A w \in Workers : (pc[w] \in {"session", "localErr"} /\ G(w) = Returned) =>
          /\ phase.tag \in {"Opening", "Playing"}
          /\ \A i \in 1..Len(events) : Mine(i) => events[i].tag = "PlayOk"

PromiseInv == PhaseInv /\ EventInv /\ AskedInv

\* A holder's step seen from the channel: its own event, if any, is the last.
LEMMA HolderEvents ==
  ASSUME IndInv, JobInv, NEW w \in Workers, NEW p, Works(w, p)
  PROVE  /\ Returned' = Returned /\ phase' = phase /\ queue' = queue
         /\ \A i \in 1..Len(events) : i \in 1..Len(events') /\ events'[i] = events[i]
                                      /\ (Mine(i)' <=> Mine(i))
         /\ \A i \in 1..Len(events') : i \notin 1..Len(events) =>
               /\ i = Len(events') /\ \A j \in 1..Len(events') : j <= i
               /\ Mine(i)' <=> G(w) = Returned
               /\ \/ events'[i].tag = "Error" /\ p = "free" /\ pc[w] \in PlayPoints \ {"session"}
                  \/ /\ events'[i].tag = "PlayOk" /\ events'[i].local = job[w].local
                     /\ \/ pc[w] = "castOk" /\ p = "free"
                        \/ pc[w] = "probe" /\ p = "session"
                  \/ events'[i].tag = "StopOk" /\ pc[w] = "stopCast" /\ p = "free"
<1>t. EventOK /\ KindInv
  BY DEF IndInv, TypeOK, JobInv
<1>w. UNCHANGED outside /\ Says(w, p)
  BY DEF Works
<1>r. Returned' = Returned /\ phase' = phase /\ queue' = queue
  BY <1>w, ReturnedKept DEF outside
<1>1. CASE SaysNothing(w)
  BY <1>t, <1>r, <1>1 DEF SaysNothing, Mine
<1>2. ASSUME NEW t \in {"Error", "PlayOk", "StopOk"}, NEW l \in BOOLEAN,
             Send(EventOf(t, G(w), l)),
             \/ t = "Error" /\ p = "free" /\ pc[w] \in PlayPoints \ {"session"}
             \/ t = "PlayOk" /\ l = job[w].local /\ (\/ pc[w] = "castOk" /\ p = "free"
                                                     \/ pc[w] = "probe" /\ p = "session")
             \/ t = "StopOk" /\ pc[w] = "stopCast" /\ p = "free"
      PROVE  /\ \A i \in 1..Len(events) : i \in 1..Len(events') /\ events'[i] = events[i]
                                          /\ (Mine(i)' <=> Mine(i))
             /\ \A i \in 1..Len(events') : i \notin 1..Len(events) =>
                   /\ i = Len(events') /\ \A j \in 1..Len(events') : j <= i
                   /\ Mine(i)' <=> G(w) = Returned
                   /\ events'[i].tag = t /\ events'[i].local = l
  <2>1. /\ Len(events) \in Nat /\ Len(events') = Len(events) + 1
        /\ events'[Len(events) + 1] = EventOf(t, G(w), l)
        /\ \A i \in 1..Len(events) : events'[i] = events[i]
    BY <1>t, <1>2, SendFacts
  <2>2. /\ EventOf(t, G(w), l).tag = t /\ EventOf(t, G(w), l).generation = G(w)
        /\ EventOf(t, G(w), l).local = l
    BY DEF EventOf
  <2>3. \A i \in 1..Len(events') : i \notin 1..Len(events) => i = Len(events) + 1
    BY <2>1
  <2>4. \A i \in 1..Len(events') : Mine(i)' <=> events'[i].generation = Returned
    BY <1>r DEF Mine
  <2>5. \A i \in 1..Len(events) : i \in 1..Len(events')
    BY <2>1
  <2> QED BY <2>1, <2>2, <2>3, <2>4, <2>5 DEF Mine
<1>3. CASE SaysError(w, p)
  BY <1>r, <1>2, <1>3 DEF SaysError
<1>4. CASE SaysPlays(w, p)
  <2>1. pc[w] \in Casting => ~job[w].local
    BY <1>t DEF KindInv
  <2>2. pc[w] = "probe" => job[w].local
    BY <1>t DEF KindInv, LocalPath
  <2>3. job[w].local \in BOOLEAN
    BY DEF IndInv, TypeOK, WorkerOK, Job
  <2>4. CASE p = "free" /\ pc[w] = "castOk" /\ Send(EventOf("PlayOk", G(w), FALSE))
    <3>1. job[w].local = FALSE
      BY <2>1, <2>3, <2>4 DEF Casting
    <3> QED BY <1>r, <1>2, <2>3, <2>4, <3>1
  <2>5. CASE p = "session" /\ pc[w] = "probe" /\ Send(EventOf("PlayOk", G(w), TRUE))
    <3>1. job[w].local = TRUE
      BY <2>2, <2>3, <2>5
    <3> QED BY <1>r, <1>2, <2>3, <2>5, <3>1
  <2> QED BY <1>4, <2>4, <2>5 DEF SaysPlays
<1>5. CASE SaysStopped(w, p)
  BY <1>r, <1>2, <1>5 DEF SaysStopped
<1> QED BY <1>w, <1>1, <1>3, <1>4, <1>5 DEF Says

LEMMA HolderPromise ==
  ASSUME IndInv, JobInv, PromiseInv, NEW w \in Workers, NEW p, Works(w, p)
  PROVE  PromiseInv'
<1>t. KindInv /\ OneJobInv /\ PhaseInv /\ EventInv /\ AskedInv /\ EventOK
  BY DEF JobInv, PromiseInv, IndInv, TypeOK
<1>w. pc[w] \in Critical /\ Move(w, p) /\ OnItsPath(w, p)
  BY DEF Works
<1>m. /\ pc'[w] = p /\ p \in Critical \cup {"free"}
      /\ job'[w] = IF p = "free" THEN NoJob ELSE job[w]
      /\ \A v \in Workers : v # w => /\ pc'[v] = pc[v] /\ job'[v] = job[v]
                                     /\ pc[v] \notin Critical
  BY <1>w, MoveFacts
<1>e. /\ Returned' = Returned /\ phase' = phase /\ queue' = queue
      /\ \A i \in 1..Len(events) : i \in 1..Len(events') /\ events'[i] = events[i]
                                   /\ (Mine(i)' <=> Mine(i))
  BY HolderEvents
<1>n. \A i \in 1..Len(events') : i \notin 1..Len(events) =>
         /\ i = Len(events') /\ \A j \in 1..Len(events') : j <= i
         /\ Mine(i)' <=> G(w) = Returned
         /\ \/ events'[i].tag = "Error" /\ p = "free" /\ pc[w] \in PlayPoints \ {"session"}
            \/ /\ events'[i].tag = "PlayOk" /\ events'[i].local = job[w].local
               /\ \/ pc[w] = "castOk" /\ p = "free"
                  \/ pc[w] = "probe" /\ p = "session"
            \/ events'[i].tag = "StopOk" /\ pc[w] = "stopCast" /\ p = "free"
  BY HolderEvents
<1>k. /\ Operation(job[w])
      /\ pc[w] \in PlayPoints \cup StopPoints
      /\ pc[w] \in PlayPoints => job[w].kind = "play"
      /\ pc[w] \in StopPoints => job[w].kind = "stop"
  BY <1>t, <1>w, JobKinds DEF KindInv, Critical, PlayPoints, StopPoints
<1>1. PhaseInv'
  BY <1>t, <1>e DEF PhaseInv, Idle
\* If the holder's job is about the operation called last.
<1>2. CASE G(w) = Returned
  <2>1. pc[w] \in Unanswered \cup StopPoints => Asked(job[w])
    BY <1>t, <1>2 DEF AskedInv
  <2>2. pc[w] \in {"session", "localErr"} =>
           /\ phase.tag \in {"Opening", "Playing"}
           /\ \A i \in 1..Len(events) : Mine(i) => events[i].tag = "PlayOk"
    BY <1>t, <1>2 DEF AskedInv
  <2>3. EventInv'
    <3> SUFFICES ASSUME NEW i \in 1..Len(events'), Mine(i)'
                 PROVE  /\ events'[i].tag = "PlayOk" =>
                              /\ phase.tag = "Opening" /\ phase.local = events'[i].local
                              /\ \A j \in 1..Len(events') : Mine(j)' => i <= j
                        /\ events'[i].tag = "StopOk" =>
                              /\ phase.tag = "Stopping"
                              /\ \A j \in 1..Len(events') : Mine(j)' => i = j
                        /\ events'[i].tag = "Error" =>
                              /\ phase.tag # "Idle"
                              /\ \A j \in 1..Len(events') : Mine(j)' => j <= i
      BY <1>e DEF EventInv
    <3>1. CASE pc[w] \in Unanswered \cup StopPoints
      <4>1. Asked(job[w]) /\ \A j \in 1..Len(events') : Mine(j)' => j \notin 1..Len(events)
        BY <1>e, <2>1, <3>1 DEF Asked, Unsaid
      <4>2. i \notin 1..Len(events) /\ \A j \in 1..Len(events') : Mine(j)' => j = i
        BY <1>n, <4>1
      <4>3. i <= i
        BY <1>t, <1>n, <4>2
      <4>4. \A j \in 1..Len(events') : Mine(j)' => i <= j /\ j <= i /\ i = j
        BY <4>2, <4>3
      <4>5. pc[w] \in StopPoints => pc[w] \notin PlayPoints /\ pc[w] \notin {"castOk", "probe"}
        BY DEF StopPoints, PlayPoints, Opening, Casting, Speaking, Ending
      <4>6. pc[w] = "stopCast" => pc[w] \in StopPoints
        BY DEF StopPoints, Ending
      <4>7. pc[w] \in {"castOk", "probe"} => pc[w] \in PlayPoints
        BY DEF PlayPoints, Opening, Casting, Speaking, Ending
      <4>8. phase.local = job[w].local
            /\ phase.tag = IF job[w].kind = "play" THEN "Opening" ELSE "Stopping"
        BY <4>1 DEF Asked
      <4>9. \/ events'[i].tag = "Error" /\ pc[w] \in PlayPoints
            \/ events'[i].tag = "PlayOk" /\ events'[i].local = job[w].local /\ pc[w] \in PlayPoints
            \/ events'[i].tag = "StopOk" /\ pc[w] \in StopPoints
        BY <1>n, <4>2, <4>6, <4>7
      <4> QED BY <1>k, <4>4, <4>5, <4>8, <4>9
    <3>2. CASE pc[w] \in {"session", "localErr"}
      <4>1. CASE i \in 1..Len(events)
        <5>1. Mine(i) /\ events'[i] = events[i]
          BY <1>e, <4>1
        <5>2. events'[i].tag = "PlayOk"
          BY <2>2, <3>2, <5>1, <4>1
        <5>3. /\ phase.tag = "Opening" /\ phase.local = events'[i].local
              /\ \A j \in 1..Len(events) : Mine(j) => i <= j
          BY <1>t, <4>1, <5>1, <5>2 DEF EventInv
        <5>4. \A j \in 1..Len(events') : Mine(j)' => i <= j
          BY <1>e, <1>n, <5>3
        <5> QED BY <5>2, <5>3, <5>4
      <4>2. CASE i \notin 1..Len(events)
        <5>1. events'[i].tag = "Error" /\ \A j \in 1..Len(events') : j <= i
          BY <1>n, <3>2, <4>2
        <5>2. phase.tag # "Idle"
          BY <2>2, <3>2
        <5> QED BY <5>1, <5>2
      <4> QED BY <4>1, <4>2
    <3> QED BY <1>k, <3>1, <3>2 DEF Unanswered
  <2>4. AskedInv'
    <3>1. \A i \in 1..Len(queue) : ~(Operation(queue[i]) /\ queue[i].generation = Returned)
      BY <1>t, <1>2, <1>k DEF OneJobInv
    <3>2. ASSUME NEW v \in Workers, v # w, pc'[v] \in Unanswered \cup StopPoints \cup {"session", "localErr"}
          PROVE  G(v)' # Returned
      <4>1. pc[v] \in PlayPoints \cup StopPoints /\ job'[v] = job[v]
        BY <1>m, <3>2 DEF Unanswered, PlayPoints, Speaking
      <4>2. Operation(job[v])
        BY <1>t, <4>1, JobKinds
      <4>3. G(v) # G(w)
        BY <1>t, <1>k, <3>2, <4>2 DEF OneJobInv
      <4> QED BY <1>2, <4>1, <4>3 DEF G
    <3>3. ASSUME pc'[w] \in Unanswered \cup StopPoints
          PROVE  Asked(job[w])' /\ job'[w] = job[w]
      <4>1. p # "free" /\ p # "session" /\ pc[w] \notin {"session", "localErr"}
        BY <1>w, <1>m, <3>3 DEF OnItsPath, Unanswered, PlayPoints, StopPoints, Opening, Casting,
           Speaking, Ending
      <4>2. Asked(job[w]) /\ job'[w] = job[w]
        BY <1>k, <1>m, <2>1, <4>1 DEF Unanswered
      <4>3. Unsaid'
        BY <1>e, <1>n, <4>1, <4>2 DEF Asked, Unsaid
      <4> QED BY <1>e, <4>2, <4>3 DEF Asked
    <3>4. ASSUME pc'[w] \in {"session", "localErr"}
          PROVE  /\ phase.tag \in {"Opening", "Playing"}
                 /\ \A i \in 1..Len(events') : Mine(i)' => events'[i].tag = "PlayOk"
      <4>1. p # "free" /\ pc[w] \in PlayPoints
        <5>1. pc[w] \notin StopPoints
          BY <1>w, <1>m, <3>4 DEF OnItsPath
        <5> QED BY <1>k, <1>m, <3>4, <5>1
      <4>2. phase.tag \in {"Opening", "Playing"}
            /\ \A i \in 1..Len(events) : Mine(i) => events[i].tag = "PlayOk"
        <5>1. CASE pc[w] \in {"session", "localErr"}
          BY <2>2, <5>1
        <5>2. CASE pc[w] \notin {"session", "localErr"}
          BY <1>k, <2>1, <4>1, <5>2 DEF Asked, Unsaid, Unanswered
        <5> QED BY <5>1, <5>2
      <4>3. \A i \in 1..Len(events') : i \notin 1..Len(events) => events'[i].tag = "PlayOk"
        BY <1>n, <4>1
      <4> QED BY <1>e, <4>2, <4>3
    <3> QED BY <1>e, <3>1, <3>2, <3>3, <3>4 DEF AskedInv
  <2> QED BY <1>1, <2>3, <2>4 DEF PromiseInv
<1>3. CASE G(w) # Returned
  <2>1. \A i \in 1..Len(events') : Mine(i)' => i \in 1..Len(events) /\ Mine(i) /\ events'[i] = events[i]
    BY <1>e, <1>n, <1>3
  <2>2. EventInv'
    BY <1>t, <1>e, <2>1 DEF EventInv
  <2>3. \A j : Asked(j) => Asked(j)'
    BY <1>e, <2>1 DEF Asked, Unsaid
  <2>4. \A v \in Workers : (G(v)' = Returned /\ pc'[v] # "free") => v # w
    BY <1>m, <1>3 DEF G
  <2>5. AskedInv'
    <3>1. ASSUME NEW i \in 1..Len(queue), Operation(queue[i]), queue[i].generation = Returned
          PROVE  Asked(queue[i])'
      BY <1>t, <2>3, <3>1, <1>e DEF AskedInv, Asked
    <3>2. ASSUME NEW v \in Workers, pc'[v] \in Unanswered \cup StopPoints, G(v)' = Returned
          PROVE  Asked(job[v])' 
      <4>1. v # w
        BY <2>4, <3>2 DEF Unanswered, StopPoints, PlayPoints, Opening, Casting, Speaking, Ending
      <4>2. pc'[v] = pc[v] /\ job'[v] = job[v] /\ G(v) = Returned
        BY <1>m, <3>2, <4>1 DEF G
      <4> QED BY <1>t, <1>e, <2>1, <3>2, <4>2 DEF AskedInv, Asked, Unsaid
    <3>3. ASSUME NEW v \in Workers, pc'[v] \in {"session", "localErr"}, G(v)' = Returned
          PROVE  /\ phase.tag \in {"Opening", "Playing"}
                 /\ \A i \in 1..Len(events') : Mine(i)' => events'[i].tag = "PlayOk"
      <4>1. v # w
        BY <2>4, <3>3
      <4>2. pc'[v] = pc[v] /\ G(v) = Returned
        BY <1>m, <3>3, <4>1 DEF G
      <4> QED BY <1>t, <2>1, <3>3, <4>2 DEF AskedInv
    <3> QED BY <1>e, <3>1, <3>2, <3>3 DEF AskedInv
  <2> QED BY <1>1, <2>2, <2>5 DEF PromiseInv
<1> QED BY <1>2, <1>3

LEMMA CallPromise ==
  ASSUME IndInv, JobInv, PromiseInv, Called
  PROVE  PromiseInv'
<1>t. NewestInv /\ EventOK /\ WorkerOK /\ QueueOK
  BY DEF JobInv, IndInv, TypeOK
<1>r. /\ Returned' = generation /\ generation' = generation /\ generation \in Nat
      /\ Returned \in Nat /\ Returned < generation
  BY <1>t, CalledReturned
<1>o. /\ \A i \in 1..Len(events) : events[i].generation # generation
      /\ \A i \in 1..Len(queue) : queue[i].generation # generation
      /\ \A w \in Workers : G(w) # generation
  BY <1>t, <1>r DEF NewestInv
<1>1. PhaseInv'
  BY <1>r DEF Called, PhaseInv, Idle
<1>2. CASE UNCHANGED events
  <2>1. \A i \in 1..Len(events') : ~Mine(i)'
    BY <1>o, <1>r, <1>2 DEF Mine
  <2>2. EventInv'
    BY <2>1 DEF EventInv
  <2>3. ASSUME NEW i \in 1..Len(queue'), Operation(queue'[i]), queue'[i].generation = generation
        PROVE  (Asked(queue[i]))'
    <3>1. NewJob(i)
      BY <1>o, <2>3 DEF Called
    <3>2. /\ phase'.tag = IF queue'[i].kind = "play" THEN "Opening" ELSE "Stopping"
          /\ phase'.local = queue'[i].local
      BY <3>1 DEF NewJob
    <3> QED BY <2>1, <3>2 DEF Asked, Unsaid
  <2>4. \A w \in Workers : G(w)' # generation
    BY <1>o DEF Called, G
  <2>5. AskedInv'
    BY <1>r, <2>3, <2>4 DEF AskedInv
  <2> QED BY <1>1, <2>2, <2>5 DEF PromiseInv
<1>3. CASE phase'.tag # "Idle" /\ Send(EventOf("Error", generation, FALSE)) /\ ~UNCHANGED events
  <2>1. /\ Len(events) \in Nat /\ Len(events') = Len(events) + 1
        /\ events'[Len(events) + 1] = EventOf("Error", generation, FALSE)
        /\ \A i \in 1..Len(events) : events'[i] = events[i]
    BY <1>t, <1>3, SendFacts
  <2>2. EventOf("Error", generation, FALSE).tag = "Error"
    BY DEF EventOf
  <2>3. \A i \in 1..Len(events') : i \in 1..Len(events) \/ i = Len(events) + 1
    BY <2>1
  <2>4. \A i \in 1..Len(events') : Mine(i)' => i = Len(events) + 1
    BY <1>o, <1>r, <2>1, <2>3 DEF Mine
  <2>5. EventInv'
    <3>1. \A i \in 1..Len(events') : Mine(i)' => events'[i].tag = "Error"
      BY <2>1, <2>2, <2>4
    <3>2. \A i, j \in 1..Len(events') : Mine(i)' /\ Mine(j)' => j <= i
      BY <2>1, <2>4
    <3> QED BY <1>3, <3>1, <3>2 DEF EventInv
  <2>6. \A i \in 1..Len(queue') : ~(Operation(queue'[i]) /\ queue'[i].generation = generation)
    BY <1>o, <1>3 DEF Called, NewJob
  <2>7. \A w \in Workers : G(w)' # generation
    BY <1>o DEF Called, G
  <2>8. AskedInv'
    BY <1>r, <2>6, <2>7 DEF AskedInv
  <2> QED BY <1>1, <2>5, <2>8 DEF PromiseInv
<1> QED BY <1>2, <1>3 DEF Called

LEMMA BesidePromise ==
  ASSUME IndInv, JobInv, PromiseInv, Beside
  PROVE  PromiseInv'
<1>t. PhaseInv /\ EventInv /\ AskedInv /\ NewestInv
  BY DEF PromiseInv, JobInv
<1>r. Returned' = Returned
  BY <1>t, BesideReturned
<1>j. UNCHANGED <<pc, job, phase, events>>
  BY DEF Beside
<1>1. \A i : Mine(i)' <=> Mine(i)
  BY <1>r, <1>j DEF Mine
<1>2. PhaseInv' /\ EventInv'
  BY <1>t, <1>r, <1>j, <1>1 DEF PhaseInv, EventInv, Idle
<1>3. AskedInv'
  <2>1. ASSUME NEW i \in 1..Len(queue'), Operation(queue'[i]), queue'[i].generation = Returned
        PROVE  (Asked(queue[i]))'
    <3>1. i \in 1..Len(queue) /\ queue'[i] = queue[i]
      BY <2>1 DEF Beside
    <3>2. Asked(queue[i])
      BY <1>t, <2>1, <3>1 DEF AskedInv
    <3> QED BY <1>j, <1>1, <3>1, <3>2 DEF Asked, Unsaid
  <2>2. ASSUME NEW w \in Workers, pc'[w] \in Unanswered \cup StopPoints, G(w)' = Returned
        PROVE  Asked(job[w])'
    <3>1. Asked(job[w])
      BY <1>t, <1>j, <2>2 DEF AskedInv, G
    <3> QED BY <1>j, <1>1, <3>1 DEF Asked, Unsaid
  <2>3. ASSUME NEW w \in Workers, pc'[w] \in {"session", "localErr"}, G(w)' = Returned
        PROVE  /\ phase'.tag \in {"Opening", "Playing"}
               /\ \A i \in 1..Len(events') : Mine(i)' => events'[i].tag = "PlayOk"
    BY <1>t, <1>j, <1>1, <2>3 DEF AskedInv, G
  <2> QED BY <1>r, <2>1, <2>2, <2>3 DEF AskedInv
<1> QED BY <1>2, <1>3 DEF PromiseInv

LEMMA ApplyPromise ==
  ASSUME IndInv, JobInv, PromiseInv, ApplyEvent
  PROVE  PromiseInv'
<1>t. PhaseInv /\ EventInv /\ AskedInv /\ NewestInv
  BY DEF PromiseInv, JobInv
<1>j. /\ UNCHANGED <<queue, pc, job>> /\ Returned = generation /\ Returned' = generation
      /\ \A w \in Workers : G(w)' = G(w)
  BY ApplyFacts DEF executor, G
<1>e. /\ Len(events) \in Nat /\ 1 \in 1..Len(events) /\ Len(events') = Len(events) - 1
      /\ \A i \in 1..Len(events') : i + 1 \in 2..Len(events) /\ events'[i] = events[i + 1]
      /\ events[1] \in Event
      /\ phase' = IF events[1].generation = generation THEN PhaseAfter(events[1]) ELSE phase
  BY ApplyFacts
<1>s. \A i \in 1..Len(events') : /\ i + 1 \in 1..Len(events) /\ i + 1 # 1
                                 /\ events'[i] = events[i + 1] /\ (Mine(i)' <=> Mine(i + 1))
  BY <1>e, <1>j DEF Mine
<1>c. \A i, j \in 1..Len(events') : /\ (i + 1 <= j + 1 => i <= j)
                                    /\ (i + 1 = j + 1 => i = j)
                                    /\ ~(i + 1 <= 1)
  BY <1>e
\* A stale event changes nothing.
<1>1. CASE ~Mine(1)
  <2>1. phase' = phase
    BY <1>e, <1>j, <1>1 DEF Mine
  <2>2. PhaseInv'
    BY <1>t, <1>j, <2>1 DEF PhaseInv, Idle
  <2>3. EventInv'
    <3> SUFFICES ASSUME NEW i \in 1..Len(events'), Mine(i)'
                 PROVE  /\ events'[i].tag = "PlayOk" =>
                              /\ phase.tag = "Opening" /\ phase.local = events'[i].local
                              /\ \A j \in 1..Len(events') : Mine(j)' => i <= j
                        /\ events'[i].tag = "StopOk" =>
                              /\ phase.tag = "Stopping"
                              /\ \A j \in 1..Len(events') : Mine(j)' => i = j
                        /\ events'[i].tag = "Error" =>
                              /\ phase.tag # "Idle"
                              /\ \A j \in 1..Len(events') : Mine(j)' => j <= i
      BY <2>1 DEF EventInv
    <3>1. Mine(i + 1) /\ i + 1 \in 1..Len(events) /\ events'[i] = events[i + 1]
      BY <1>s
    <3>2. /\ events'[i].tag = "PlayOk" =>
                /\ phase.tag = "Opening" /\ phase.local = events'[i].local
                /\ \A j \in 1..Len(events) : Mine(j) => i + 1 <= j
          /\ events'[i].tag = "StopOk" =>
                phase.tag = "Stopping" /\ \A j \in 1..Len(events) : Mine(j) => i + 1 = j
          /\ events'[i].tag = "Error" =>
                phase.tag # "Idle" /\ \A j \in 1..Len(events) : Mine(j) => j <= i + 1
      BY <1>t, <3>1 DEF EventInv
    <3> QED BY <1>s, <1>c, <3>2
  <2>4. Unsaid => Unsaid'
    BY <1>s DEF Unsaid
  <2>5. AskedInv'
    <3>1. \A i \in 1..Len(queue) :
             (Operation(queue[i]) /\ queue[i].generation = Returned) => (Asked(queue[i]))'
      BY <1>t, <1>j, <2>1, <2>4 DEF AskedInv, Asked
    <3>2. \A w \in Workers :
             (pc[w] \in Unanswered \cup StopPoints /\ G(w) = Returned) => (Asked(job[w]))'
      BY <1>t, <1>j, <2>1, <2>4 DEF AskedInv, Asked
    <3>3. \A w \in Workers : (pc[w] \in {"session", "localErr"} /\ G(w) = Returned) =>
             /\ phase.tag \in {"Opening", "Playing"}
             /\ \A i \in 1..Len(events') : Mine(i)' => events'[i].tag = "PlayOk"
      BY <1>t, <1>s DEF AskedInv
    <3> QED BY <1>j, <2>1, <3>1, <3>2, <3>3 DEF AskedInv
  <2> QED BY <2>2, <2>3, <2>5 DEF PromiseInv
\* An answer to the operation called last.
<1>2. CASE Mine(1)
  <2>0. phase' = PhaseAfter(events[1]) /\ events[1].generation = generation
    BY <1>e, <1>j, <1>2 DEF Mine
  <2>a. /\ events[1].tag = "PlayOk" => phase'.tag = "Playing" /\ phase'.generation = generation
        /\ events[1].tag = "StopOk" => phase' = Idle
        /\ events[1].tag = "Error" =>
              phase'.tag = "Failed" /\ phase'.generation = generation /\ ~phase'.local
        /\ events[1].tag \in {"PlayOk", "StopOk", "Error"}
    BY <1>e, <2>0, PhaseAfterIs DEF PhaseOf
  <2>1. PhaseInv'
    BY <1>j, <2>a DEF PhaseInv, Idle
  <2>2. ~Unsaid
    BY <1>e, <1>2 DEF Unsaid
  <2>3. /\ \A i \in 1..Len(queue) : ~(Operation(queue[i]) /\ queue[i].generation = Returned)
        /\ \A w \in Workers : ~(pc[w] \in Unanswered \cup StopPoints /\ G(w) = Returned)
    BY <1>t, <2>2 DEF AskedInv, Asked
  <2>4. ASSUME NEW i \in 1..Len(events'), Mine(i)'
        PROVE  /\ events[1].tag = "PlayOk" /\ events'[i].tag = "Error"
               /\ \A j \in 1..Len(events') : Mine(j)' => j <= i
    <3>1. Mine(i + 1) /\ i + 1 \in 1..Len(events) /\ events'[i] = events[i + 1] /\ i + 1 # 1
      BY <1>s, <2>4
    <3>2. ~(i + 1 <= 1)
      BY <1>c
    <3>3. events[1].tag = "PlayOk"
      BY <1>t, <1>e, <1>2, <2>a, <3>1, <3>2 DEF EventInv
    <3>4. events[i + 1].tag \in {"PlayOk", "StopOk", "Error"}
      <4>1. events[i + 1] \in Event
        BY <3>1 DEF IndInv, TypeOK, EventOK
      <4> QED BY <4>1 DEF Event
    <3>5. events'[i].tag = "Error" /\ \A j \in 1..Len(events) : Mine(j) => j <= i + 1
      BY <1>t, <1>e, <1>2, <3>1, <3>2, <3>4 DEF EventInv
    <3> QED BY <1>s, <1>c, <3>3, <3>5
  <2>5. EventInv'
    <3>1. \A i \in 1..Len(events') : Mine(i)' =>
             /\ phase'.tag # "Idle" /\ events'[i].tag = "Error"
             /\ \A j \in 1..Len(events') : Mine(j)' => j <= i
      BY <2>a, <2>4
    <3> QED BY <3>1 DEF EventInv
  <2>6. AskedInv'
    <3>1. ASSUME NEW w \in Workers, pc[w] \in {"session", "localErr"}, G(w) = Returned
          PROVE  phase'.tag = "Playing" /\ \A i \in 1..Len(events') : ~Mine(i)'
      <4>1. \A i \in 1..Len(events) : Mine(i) => events[i].tag = "PlayOk"
        BY <1>t, <3>1 DEF AskedInv
      <4>2. events[1].tag = "PlayOk"
        BY <1>e, <1>2, <4>1
      <4>3. \A i \in 1..Len(events') : Mine(i)' => events'[i].tag = "PlayOk"
        BY <1>s, <4>1
      <4> QED BY <2>a, <2>4, <4>2, <4>3
    <3>2. \A i \in 1..Len(queue') : ~(Operation(queue'[i]) /\ queue'[i].generation = Returned')
      BY <1>j, <2>3
    <3>3. \A w \in Workers : ~(pc'[w] \in Unanswered \cup StopPoints /\ G(w)' = Returned')
      BY <1>j, <2>3
    <3>4. \A w \in Workers : (pc'[w] \in {"session", "localErr"} /\ G(w)' = Returned') =>
             phase'.tag = "Playing" /\ \A i \in 1..Len(events') : ~Mine(i)'
      BY <1>j, <3>1
    <3> QED BY <3>2, <3>3, <3>4 DEF AskedInv
  <2> QED BY <2>1, <2>5, <2>6 DEF PromiseInv
<1> QED BY <1>1, <1>2

LEMMA ExecutorPromise ==
  ASSUME IndInv, JobInv, PromiseInv, NEW w \in Workers,
         Receive(w) \/ Lock(w) \/ TitleEnds(w) \/ ApplyVolume(w)
  PROVE  PromiseInv'
<1>t. WorkerOK /\ QueueOK /\ PhaseInv /\ EventInv /\ AskedInv
  BY DEF PromiseInv, IndInv, TypeOK
<1>u. UNCHANGED <<controller, events>>
  BY DEF Receive, Lock, TitleEnds, ApplyVolume
<1>r. Returned' = Returned /\ phase' = phase /\ events' = events
  BY <1>u, ReturnedKept DEF controller
<1>m. \A i : Mine(i)' <=> Mine(i)
  BY <1>r DEF Mine
<1>1. PhaseInv' /\ EventInv'
  BY <1>t, <1>r, <1>m DEF PhaseInv, EventInv, Idle
<1>2. Unsaid' <=> Unsaid
  BY <1>r, <1>m DEF Unsaid
<1>3. \A i \in 1..Len(queue') : \E j \in 1..Len(queue) : queue'[i] = queue[j]
  <2>1. CASE Receive(w)
    <3>1. queue \in Seq(Job) /\ queue # <<>> /\ queue' = Tail(queue)
      BY <1>t, <2>1 DEF Receive, QueueOK
    <3> QED BY <3>1
  <2>2. CASE queue' = queue
    BY <2>2
  <2> QED BY <2>1, <2>2 DEF Lock, TitleEnds, ApplyVolume
<1>4. ASSUME NEW v \in Workers, pc'[v] \in Unanswered \cup StopPoints, G(v)' = Returned
      PROVE  /\ Unsaid /\ phase.local = job'[v].local
             /\ phase.tag = IF job'[v].kind = "play" THEN "Opening" ELSE "Stopping"
  <2>1. CASE pc[v] \in Unanswered \cup StopPoints /\ job'[v] = job[v]
    BY <1>t, <1>4, <2>1 DEF AskedInv, Asked, G
  <2>2. CASE v = w /\ Receive(w) /\ ~runtimeCancelled
    <3>1. queue \in Seq(Job) /\ queue # <<>> /\ job' = [job EXCEPT ![w] = queue[1]]
          /\ pc' = [pc EXCEPT ![w] = FirstPoint(queue[1])]
      BY <1>t, <2>2 DEF Receive, QueueOK
    <3>2. 1 \in 1..Len(queue) /\ queue[1] \in Job /\ job'[v] = queue[1] /\ pc'[v] = FirstPoint(queue[1])
      BY <1>t, <2>2, <3>1 DEF WorkerOK
    <3>3. Operation(queue[1])
      BY <1>4, <3>2 DEF FirstPoint, Job, Operation, Unanswered, PlayPoints, StopPoints, Opening,
         Casting, Speaking, Ending
    <3>4. queue[1].generation = Returned
      BY <1>4, <3>2 DEF G
    <3> QED BY <1>t, <3>2, <3>3, <3>4 DEF AskedInv, Asked
  <2>3. CASE v # w \/ (Receive(w) /\ runtimeCancelled)
    <3>1. pc'[v] = pc[v] /\ job'[v] = job[v]
      BY <1>t, <2>3 DEF Receive, Lock, TitleEnds, ApplyVolume, Finish, WorkerOK
    <3> QED BY <1>4, <2>1, <3>1
  <2>4. CASE v = w /\ Lock(w)
    <3>1. job'[v] = job[v] /\ pc[v] \in Waiting
      BY <2>4 DEF Lock
    <3>2. pc[v] \in Unanswered \cup StopPoints
      BY <3>1 DEF Waiting, Unanswered, PlayPoints, StopPoints
    <3> QED BY <2>1, <3>1, <3>2
  <2>5. CASE v = w /\ (TitleEnds(w) \/ ApplyVolume(w))
    <3>1. pc'[v] = "free"
      BY <1>t, <2>5 DEF TitleEnds, ApplyVolume, Finish, WorkerOK
    <3> QED BY <1>4, <3>1 DEF Unanswered, PlayPoints, StopPoints, Opening, Casting, Speaking, Ending
  <2> QED BY <2>2, <2>3, <2>4, <2>5
<1>5. ASSUME NEW v \in Workers, pc'[v] \in {"session", "localErr"}, G(v)' = Returned
      PROVE  pc[v] \in {"session", "localErr"} /\ G(v) = Returned
  <2>1. CASE v # w \/ (Receive(w) /\ runtimeCancelled)
    BY <1>t, <1>5, <2>1 DEF Receive, Lock, TitleEnds, ApplyVolume, Finish, WorkerOK, G
  <2>2. CASE v = w /\ ~(Receive(w) /\ runtimeCancelled)
    <3>1. CASE Receive(w)
      <4>1. queue[1] \in Job /\ pc'[v] = FirstPoint(queue[1])
        BY <1>t, <2>2, <3>1 DEF Receive, WorkerOK, QueueOK
      <4> QED BY <1>5, <4>1 DEF FirstPoint, Job
    <3>2. CASE Lock(w) \/ TitleEnds(w) \/ ApplyVolume(w)
      BY <1>t, <1>5, <2>2, <3>2 DEF Lock, TitleEnds, ApplyVolume, Finish, WorkerOK
    <3> QED BY <3>1, <3>2
  <2> QED BY <2>1, <2>2
<1>6. AskedInv'
  <2>1. \A i \in 1..Len(queue') :
           (Operation(queue'[i]) /\ queue'[i].generation = Returned) => (Asked(queue[i]))'
    <3>1. ASSUME NEW i \in 1..Len(queue'), Operation(queue'[i]), queue'[i].generation = Returned
          PROVE  (Asked(queue[i]))'
      <4>1. PICK j \in 1..Len(queue) : queue'[i] = queue[j]
        BY <1>3
      <4>2. Asked(queue[j])
        BY <1>t, <3>1, <4>1 DEF AskedInv
      <4> QED BY <1>2, <1>r, <4>1, <4>2 DEF Asked
    <3> QED BY <3>1
  <2>2. \A v \in Workers :
           (pc'[v] \in Unanswered \cup StopPoints /\ G(v)' = Returned) => (Asked(job[v]))'
    BY <1>2, <1>r, <1>4 DEF Asked
  <2>3. \A v \in Workers : (pc'[v] \in {"session", "localErr"} /\ G(v)' = Returned) =>
           /\ phase'.tag \in {"Opening", "Playing"}
           /\ \A i \in 1..Len(events') : Mine(i)' => events'[i].tag = "PlayOk"
    BY <1>t, <1>r, <1>m, <1>5 DEF AskedInv
  <2> QED BY <1>r, <2>1, <2>2, <2>3 DEF AskedInv
<1> QED BY <1>1, <1>6 DEF PromiseInv

LEMMA InitPromise == Init => PromiseInv
<1> SUFFICES ASSUME Init PROVE PromiseInv
  OBVIOUS
<1>1. phase = Idle /\ events = <<>> /\ queue = <<>> /\ \A w \in Workers : pc[w] = "free"
  BY DEF Init
<1>2. AskedInv
  BY <1>1 DEF AskedInv, Unanswered, PlayPoints, StopPoints, Opening, Casting, Speaking, Ending
<1> QED BY <1>1, <1>2 DEF PromiseInv, PhaseInv, EventInv

-----------------------------------------------------------------------------
(***************************************************************************)
(* A local play that was reported is heard, or its failure will be seen.   *)
(***************************************************************************)

Heard == /\ stream = generation /\ ~cancelled[generation]
         /\ \E w \in Workers : pc[w] = "session" /\ G(w) = generation
Breaking == \E w \in Workers : pc[w] = "localErr" /\ G(w) = generation
FailsAfter(i) == \E j \in 1..Len(events) :
                    i < j /\ events[j].tag = "Error" /\ events[j].generation = generation
Real(i) == Heard \/ Breaking \/ FailsAfter(i)

\* Of the phase, and of the i-th event, when it comes to be applied.
RealInv ==
    /\ (phase.tag = "Playing" /\ phase.local /\ phase.generation = generation) => Real(0)
    /\ \A i \in 1..Len(events) :
          (/\ events[i].tag = "PlayOk" /\ events[i].local
           /\ events[i].generation = generation) => Real(i)

\* Nothing is known of an operation whose call has not returned.
LEMMA NothingOfNewer ==
  ASSUME \A i \in 1..Len(events) : events[i].generation # generation,
         phase.generation # generation \/ phase.tag # "Playing"
  PROVE  RealInv
BY DEF RealInv

LEMMA HolderReal ==
  ASSUME IndInv, JobInv, RealInv, NEW w \in Workers, NEW p, Works(w, p)
  PROVE  RealInv'
<1>t. EventOK /\ LockInv /\ KindInv
  BY DEF JobInv, IndInv, TypeOK
<1>w. pc[w] \in Critical /\ Move(w, p) /\ UNCHANGED outside /\ OnItsPath(w, p) /\ Says(w, p)
  BY DEF Works
<1>m. /\ pc'[w] = p /\ job'[w] = IF p = "free" THEN NoJob ELSE job[w]
      /\ \A v \in Workers : v # w => /\ pc'[v] = pc[v] /\ job'[v] = job[v]
                                     /\ pc[v] \notin Critical
  BY <1>w, MoveFacts
<1>g. generation' = generation /\ phase' = phase
  BY <1>w DEF outside
<1>c. "session" \in Critical /\ "localErr" \in Critical
  BY DEF Critical, Speaking
<1>e. /\ Len(events) \in Nat
      /\ \A i \in 1..Len(events) : i \in 1..Len(events') /\ events'[i] = events[i]
      /\ \A i \in 1..Len(events') : i \notin 1..Len(events) => i = Len(events) + 1
  <2>1. CASE SaysNothing(w)
    BY <1>t, <2>1 DEF SaysNothing, EventOK
  <2>2. CASE ~SaysNothing(w)
    <3>1. /\ Len(events) \in Nat /\ Len(events') = Len(events) + 1
          /\ \A i \in 1..Len(events) : events'[i] = events[i]
      BY <1>t, <1>w, <2>2, SaysFacts
    <3> QED BY <3>1
  <2> QED BY <2>1, <2>2
<1>1. Heard => Breaking'
  <2> SUFFICES ASSUME NEW v \in Workers, pc[v] = "session", G(v) = generation
               PROVE  Breaking'
    BY DEF Heard
  <2>1. v = w
    BY <1>m, <1>c
  <2>2. p = "localErr"
    BY <1>w, <2>1 DEF OnItsPath
  <2>3. pc'[w] = "localErr" /\ G(w)' = generation
    BY <1>m, <2>1, <2>2 DEF G
  <2> QED BY <1>g, <2>3 DEF Breaking
<1>2. \A i \in 0..Len(events) : Breaking => FailsAfter(i)'
  <2> SUFFICES ASSUME NEW v \in Workers, pc[v] = "localErr", G(v) = generation,
                      NEW i \in 0..Len(events)
               PROVE  FailsAfter(i)'
    BY DEF Breaking
  <2>1. v = w
    BY <1>m, <1>c
  <2>2. SaysError(w, p)
    BY <1>w, <2>1 DEF Says, SaysNothing, SaysPlays, SaysStopped
  <2>3. /\ Len(events) \in Nat /\ Len(events') = Len(events) + 1
        /\ events'[Len(events) + 1] = EventOf("Error", G(w), FALSE)
    BY <1>t, <2>2, SendFacts DEF SaysError
  <2>4. /\ Len(events) + 1 \in 1..Len(events') /\ i < Len(events) + 1
        /\ events'[Len(events) + 1].tag = "Error"
        /\ events'[Len(events) + 1].generation = generation
    BY <2>1, <2>3 DEF EventOf
  <2> QED BY <1>g, <2>4 DEF FailsAfter
<1>3. \A i : FailsAfter(i) => FailsAfter(i)'
  BY <1>e, <1>g DEF FailsAfter
<1>4. \A i \in 0..Len(events) : Real(i) => Real(i)'
  BY <1>1, <1>2, <1>3 DEF Real
<1>5. ASSUME NEW i \in 1..Len(events'), events'[i].tag = "PlayOk", events'[i].local,
             events'[i].generation = generation
      PROVE  Real(i)'
  <2>1. CASE i \in 1..Len(events)
    <3>1. Real(i)
      BY <1>e, <1>5, <2>1 DEF RealInv
    <3>2. i \in 0..Len(events)
      BY <1>e, <2>1
    <3> QED BY <1>4, <3>1, <3>2
  <2>2. CASE i = Len(events) + 1
    <3>1. ~SaysNothing(w)
      BY <1>e, <1>5, <2>2 DEF SaysNothing
    <3>2. PICK t \in {"Error", "PlayOk", "StopOk"}, l \in BOOLEAN :
             /\ Send(EventOf(t, G(w), l))
             /\ (t = "PlayOk" /\ l) => /\ p = "session" /\ generation = G(w)
                                       /\ stream' = G(w) /\ ~cancelled'[G(w)]
      BY <1>w, <3>1 DEF Says, SaysError, SaysPlays, SaysStopped
    <3>3. events'[i] = EventOf(t, G(w), l)
      BY <1>t, <2>2, <3>2, SendFacts
    <3>4. t = "PlayOk" /\ l
      BY <1>5, <3>3 DEF EventOf
    <3>5. pc'[w] = "session" /\ G(w)' = G(w)
      BY <1>m, <3>2, <3>4 DEF G
    <3> QED BY <1>g, <3>2, <3>4, <3>5 DEF Real, Heard
  <2> QED BY <1>e, <2>1, <2>2
<1>6. (phase.tag = "Playing" /\ phase.local /\ phase.generation = generation) => Real(0)'
  <2>1. 0 \in 0..Len(events)
    BY <1>e
  <2> QED BY <1>4, <2>1 DEF RealInv
<1> QED BY <1>g, <1>5, <1>6 DEF RealInv

LEMMA CallReal ==
  ASSUME IndInv, JobInv, Called
  PROVE  RealInv'
<1>t. NewestInv /\ EventOK
  BY DEF JobInv, IndInv, TypeOK
<1>r. /\ Returned' = generation /\ generation' = generation /\ generation \in Nat
      /\ Returned \in Nat /\ Returned < generation
  BY <1>t, CalledReturned
<1>1. phase'.tag # "Playing"
  BY DEF Called, Idle
<1>2. ASSUME NEW i \in 1..Len(events'), events'[i].tag = "PlayOk"
      PROVE  events'[i].generation # generation
  <2>1. CASE UNCHANGED events
    BY <1>t, <1>r, <2>1 DEF NewestInv
  <2>2. CASE Send(EventOf("Error", generation, FALSE))
    <3>1. /\ Len(events) \in Nat /\ Len(events') = Len(events) + 1
          /\ events'[Len(events) + 1].tag = "Error"
          /\ \A k \in 1..Len(events) : events'[k] = events[k]
      BY <1>t, <2>2, SendFacts DEF EventOf
    <3>2. i \in 1..Len(events)
      BY <1>2, <3>1
    <3> QED BY <1>t, <1>r, <3>1, <3>2 DEF NewestInv
  <2> QED BY <2>1, <2>2 DEF Called
<1> QED BY <1>r, <1>1, <1>2 DEF RealInv

LEMMA BesideReal ==
  ASSUME IndInv, JobInv, RealInv, Beside
  PROVE  RealInv'
<1>t. NewestInv
  BY DEF JobInv
<1>j. UNCHANGED <<pc, job, stream, phase, events, cancelled>>
  BY DEF Beside
<1>1. CASE generation' = generation
  BY <1>j, <1>1 DEF RealInv, Real, Heard, Breaking, FailsAfter, G
<1>2. CASE Returned < generation'
  <2>1. Returned \in Nat /\ generation' \in Nat
    BY <1>t, BesideReturned, BoundsAssumption DEF Beside, IndInv, TypeOK, ControllerOK
  <2>2. \A i \in 1..Len(events) : events[i].generation # generation'
    BY <1>t, <1>2, <2>1 DEF NewestInv
  <2>3. phase.generation # generation'
    BY <1>t, <1>2, <2>1 DEF NewestInv
  <2> QED BY <1>j, <2>2, <2>3 DEF RealInv
<1> QED BY <1>t, <1>1, <1>2, BesideReturned

LEMMA ExecutorReal ==
  ASSUME IndInv, RealInv, NEW w \in Workers,
         Receive(w) \/ Lock(w) \/ TitleEnds(w) \/ ApplyVolume(w)
  PROVE  RealInv'
<1>t. WorkerOK
  BY DEF IndInv, TypeOK
<1>u. UNCHANGED <<generation, phase, cancelled, stream, events>>
  BY DEF Receive, Lock, TitleEnds, ApplyVolume, controller, engines
<1>1. pc[w] \notin {"session", "localErr"}
  BY DEF Receive, Lock, TitleEnds, ApplyVolume, Waiting
<1>2. \A v \in Workers : v # w => pc'[v] = pc[v] /\ G(v)' = G(v)
  BY <1>t DEF Receive, Lock, TitleEnds, ApplyVolume, Finish, WorkerOK, G
<1>3. \A v \in Workers : pc[v] \in {"session", "localErr"} => pc'[v] = pc[v] /\ G(v)' = G(v)
  BY <1>1, <1>2
<1>4. (Heard => Heard') /\ (Breaking => Breaking')
  BY <1>u, <1>3 DEF Heard, Breaking
<1>5. \A i : FailsAfter(i)' <=> FailsAfter(i)
  BY <1>u DEF FailsAfter
<1>6. \A i : Real(i) => Real(i)'
  BY <1>4, <1>5 DEF Real
<1> QED BY <1>u, <1>6 DEF RealInv

LEMMA ApplyReal ==
  ASSUME IndInv, RealInv, ApplyEvent
  PROVE  RealInv'
<1>j. /\ UNCHANGED <<generation, pc, job, stream, cancelled>>
  BY ApplyFacts DEF executor, engines
<1>e. /\ Len(events) \in Nat /\ 1 \in 1..Len(events) /\ Len(events') = Len(events) - 1
      /\ \A i \in 1..Len(events') : i + 1 \in 2..Len(events) /\ events'[i] = events[i + 1]
      /\ events[1] \in Event
      /\ phase' = IF events[1].generation = generation THEN PhaseAfter(events[1]) ELSE phase
  BY ApplyFacts
<1>1. (Heard' <=> Heard) /\ (Breaking' <=> Breaking)
  BY <1>j DEF Heard, Breaking, G
<1>2. ASSUME NEW i \in 0..Len(events'), FailsAfter(i + 1)
      PROVE  FailsAfter(i)'
  <2>1. PICK j \in 1..Len(events) :
           i + 1 < j /\ events[j].tag = "Error" /\ events[j].generation = generation
    BY <1>2 DEF FailsAfter
  <2>2. j - 1 \in 1..Len(events') /\ i < j - 1 /\ (j - 1) + 1 = j
    BY <1>e, <2>1
  <2>3. events'[j - 1] = events[j]
    BY <1>e, <2>2
  <2> QED BY <1>j, <2>1, <2>2, <2>3 DEF FailsAfter
<1>3. \A i \in 0..Len(events') : Real(i + 1) => Real(i)'
  BY <1>1, <1>2 DEF Real
<1>4. ASSUME NEW i \in 1..Len(events'), events'[i].tag = "PlayOk", events'[i].local,
             events'[i].generation = generation
      PROVE  Real(i)'
  <2>1. i + 1 \in 1..Len(events) /\ events'[i] = events[i + 1] /\ i \in 0..Len(events')
    BY <1>e
  <2>2. Real(i + 1)
    BY <1>4, <2>1 DEF RealInv
  <2> QED BY <1>3, <2>1, <2>2
<1>5. ASSUME phase'.tag = "Playing", phase'.local, phase'.generation = generation
      PROVE  Real(0)'
  <2>z. 0 \in 0..Len(events') /\ 0 + 1 = 1
    BY <1>e
  <2>1. CASE events[1].generation = generation
    <3>1. phase' = PhaseAfter(events[1])
      BY <1>e, <2>1
    <3>2. /\ events[1].tag = "StopOk" => phase'.tag = "Idle"
          /\ events[1].tag = "Error" => phase'.tag = "Failed"
          /\ events[1].tag = "PlayOk" => phase'.local = events[1].local
          /\ events[1].tag \in {"PlayOk", "StopOk", "Error"}
      BY <1>e, <3>1, PhaseAfterIs DEF PhaseOf, Idle
    <3>3. events[1].tag = "PlayOk" /\ events[1].local
      BY <1>5, <3>2
    <3>4. Real(1)
      BY <1>e, <2>1, <3>3 DEF RealInv
    <3> QED BY <1>3, <2>z, <3>4
  <2>2. CASE events[1].generation # generation
    <3>1. Real(0)
      BY <1>e, <1>5, <2>2 DEF RealInv
    <3>2. ASSUME FailsAfter(0) PROVE FailsAfter(1)
      <4>1. PICK j \in 1..Len(events) :
               0 < j /\ events[j].tag = "Error" /\ events[j].generation = generation
        BY <3>2 DEF FailsAfter
      <4>2. j # 1
        BY <2>2, <4>1
      <4>3. 1 < j
        BY <4>1, <4>2
      <4> QED BY <4>1, <4>3 DEF FailsAfter
    <3>3. Real(1)
      BY <3>1, <3>2 DEF Real
    <3> QED BY <1>3, <2>z, <3>3
  <2> QED BY <2>1, <2>2
<1> QED BY <1>j, <1>4, <1>5 DEF RealInv

LEMMA InitReal == Init => RealInv
  BY DEF Init, RealInv, Idle

-----------------------------------------------------------------------------
(***************************************************************************)
(* The stronger invariant, and the theorems that need it.                  *)
(***************************************************************************)

StrongInv == IndInv /\ JobInv /\ PromiseInv /\ RealInv

LEMMA InitStrong == Init => StrongInv
  BY InitInv, InitJobInv, InitPromise, InitReal DEF StrongInv

\* Whose step it is.
LEMMA StepsAre ==
  ASSUME [Next]_vars
  PROVE  \/ \E w \in Workers : HolderStep(w)
         \/ \E w \in Workers : Receive(w) \/ Lock(w) \/ TitleEnds(w) \/ ApplyVolume(w)
         \/ Play \/ Stop \/ Shutdown
         \/ ApplyEvent
         \/ UserStep \/ (\E g \in Tokens : DecodeEnds(g)) \/ UNCHANGED vars
BY DEF Next, UiStep, JobStep, HolderStep

LEMMA StepStrong ==
  ASSUME StrongInv, [Next]_vars
  PROVE  StrongInv'
<1>t. IndInv /\ JobInv /\ PromiseInv /\ RealInv /\ KindInv
  BY DEF StrongInv, JobInv
<1>i. IndInv'
  BY <1>t, StepInv
<1>1. ASSUME NEW w \in Workers, HolderStep(w)
      PROVE  JobInv' /\ PromiseInv' /\ RealInv'
  <2>1. PICK p : Works(w, p)
    BY <1>t, <1>1, HolderWorks
  <2>2. JobInv'
    BY <1>t, <2>1, HolderJobInv
  <2>3. PromiseInv'
    BY <1>t, <2>1, HolderPromise
  <2>4. RealInv'
    BY <1>t, <2>1, HolderReal
  <2> QED BY <2>2, <2>3, <2>4
<1>2. ASSUME NEW w \in Workers, Receive(w) \/ Lock(w) \/ TitleEnds(w) \/ ApplyVolume(w)
      PROVE  JobInv' /\ PromiseInv' /\ RealInv'
  <2>1. JobInv'
    BY <1>t, <1>2, ExecutorJobInv
  <2>2. PromiseInv'
    BY <1>t, <1>2, ExecutorPromise
  <2>3. RealInv'
    BY <1>t, <1>2, ExecutorReal
  <2> QED BY <2>1, <2>2, <2>3
<1>3. CASE Play \/ Stop \/ Shutdown
  <2>1. Called
    BY <1>t, <1>3, CallsCalled
  <2>2. JobInv'
    BY <1>t, <2>1, CallJobInv
  <2>3. PromiseInv'
    BY <1>t, <2>1, CallPromise
  <2>4. RealInv'
    BY <1>t, <2>1, CallReal
  <2> QED BY <1>i, <2>2, <2>3, <2>4 DEF StrongInv
<1>4. CASE ApplyEvent
  <2>1. JobInv'
    BY <1>t, <1>4, ApplyJobInv
  <2>2. PromiseInv'
    BY <1>t, <1>4, ApplyPromise
  <2>3. RealInv'
    BY <1>t, <1>4, ApplyReal
  <2> QED BY <1>i, <2>1, <2>2, <2>3 DEF StrongInv
<1>5. CASE UserStep \/ (\E g \in Tokens : DecodeEnds(g)) \/ UNCHANGED vars
  <2>1. Beside
    BY <1>t, <1>5, OthersBeside
  <2>2. JobInv'
    BY <1>t, <2>1, BesideJobInv
  <2>3. PromiseInv'
    BY <1>t, <2>1, BesidePromise
  <2>4. RealInv'
    BY <1>t, <2>1, BesideReal
  <2> QED BY <1>i, <2>2, <2>3, <2>4 DEF StrongInv
<1> QED BY <1>i, <1>1, <1>2, <1>3, <1>4, <1>5, StepsAre DEF StrongInv

LEMMA StrongInvariance == Spec => []StrongInv
<1>1. StrongInv /\ [Next]_vars => StrongInv'
  BY StepStrong
<1> QED BY <1>1, InitStrong, PTL DEF Spec

\* What "playing" says of local speakers is true: the stream of the current
\* operation is open and not cancelled, or its failure is on its way.
THEOREM LocalIsReal == Spec => []LocalPlayingIsReal
<1>1. StrongInv => LocalPlayingIsReal
  BY DEF StrongInv, RealInv, Real, Heard, Breaking, FailsAfter, LocalPlayingIsReal
<1> QED BY <1>1, StrongInvariance, PTL

\* A superseded play job touches no engine session of the newest operation:
\* past its check it holds the mutex, so no newer session can have been made.
THEOREM StalePlayIsHarmless == Spec => StalePlayTouchesNothing
<1>1. ASSUME StrongInv, [Next]_vars, NEW w \in Workers,
             job[w].kind = "play", G(w) # generation, pc'[w] # pc[w]
      PROVE  /\ castSession # generation \/ UNCHANGED castSession
             /\ relay # generation \/ UNCHANGED relay
             /\ stream # generation \/ UNCHANGED stream
  <2>t. /\ IndInv /\ KindInv /\ NewestInv /\ PastInv /\ WorkerOK /\ EngineOK /\ ControllerOK
    BY <1>1 DEF StrongInv, JobInv, IndInv, TypeOK
  <2>1. /\ generation \in Nat /\ Returned \in Nat /\ Returned <= generation
        /\ G(w) \in Nat /\ G(w) <= Returned
        /\ castSession \in Nat /\ relay \in Nat /\ stream \in Nat
    BY <2>t, ReturnedTyped, GTyped, BoundsAssumption DEF NewestInv, EngineOK
  <2>2. G(w) < generation
    BY <1>1, <2>1
  <2>3. CASE pc[w] \in Past
    <3>1. castSession <= G(w) /\ relay <= G(w) /\ stream <= G(w)
      BY <2>t, <2>3 DEF PastInv
    <3> QED BY <2>1, <2>2, <3>1
  <2>4. CASE pc[w] \notin Past
    <3>1. CASE HolderStep(w)
      <4>1. PICK p : Works(w, p)
        BY <2>t, <3>1, HolderWorks
      <4>2. pc[w] \in Critical /\ pc[w] \notin StopPoints
        BY <1>1, <2>t, <4>1 DEF Works, KindInv
      <4>3. pc[w] = "check"
        BY <2>4, <4>2 DEF Past, Critical, StopPoints, Opening, Casting, Speaking, Ending
      <4> QED BY <4>1, <4>3 DEF Works, Touches
    <3>2. CASE ~HolderStep(w)
      <4>1. \A v \in Workers : HolderStep(v) => v = w
        <5>1. ASSUME NEW v \in Workers, HolderStep(v), v # w
              PROVE  FALSE
          <6>1. PICK p : Works(v, p)
            BY <2>t, <5>1, HolderWorks
          <6>2. pc'[w] = pc[w]
            BY <2>t, <5>1, <6>1, MoveFacts DEF Works
          <6> QED BY <1>1, <6>2
        <5> QED BY <5>1
      <4>2. CASE \E v \in Workers : Receive(v) \/ Lock(v) \/ TitleEnds(v) \/ ApplyVolume(v)
        BY <4>2 DEF Receive, Lock, TitleEnds, ApplyVolume, engines
      <4>3. CASE Play \/ Stop \/ Shutdown
        BY <1>1, <2>t, <4>3, CallsCalled DEF Called
      <4>4. CASE ApplyEvent
        BY <1>1, <2>t, <4>4, ApplyFacts DEF executor
      <4>5. CASE UserStep \/ (\E g \in Tokens : DecodeEnds(g)) \/ UNCHANGED vars
        BY <1>1, <2>t, <4>5, OthersBeside DEF Beside
      <4> QED BY <1>1, <3>2, <4>1, <4>2, <4>3, <4>4, <4>5, StepsAre
    <3> QED BY <3>1, <3>2
  <2> QED BY <2>3, <2>4
<1>2. StrongInv /\ [Next]_vars =>
         [\A w \in Workers :
             (job[w].kind = "play" /\ G(w) # generation /\ pc'[w] # pc[w])
                => /\ castSession # generation \/ UNCHANGED castSession
                   /\ relay # generation \/ UNCHANGED relay
                   /\ stream # generation \/ UNCHANGED stream]_vars
  BY <1>1
<1> QED BY <1>2, StrongInvariance, PTL DEF Spec, StalePlayTouchesNothing

\* The controller with all its jobs implements PlaybackPhases.
THEOREM PhasesArePromised == Spec => KeepsItsPromise
<1>1. Init => Abstract!Init
  BY DEF Init, Abstract!Init, Returned, Idle, Abstract!NoPlayback, Abstract!Promise
<1>2. ASSUME StrongInv, [Next]_vars
      PROVE  [Abstract!Next]_<<Returned, phase>>
  <2>t. /\ IndInv /\ KindInv /\ NewestInv /\ PhaseInv /\ EventInv /\ EventOK /\ ControllerOK
    BY <1>2 DEF StrongInv, JobInv, PromiseInv, IndInv, TypeOK
  <2>p. \A t, g, l : Abstract!Promise(t, g, l) = PhaseOf(t, g, l)
    BY DEF Abstract!Promise, PhaseOf
  <2>n. Abstract!NoPlayback = Idle
    BY DEF Abstract!NoPlayback, Abstract!Promise, Idle
  <2>1. ASSUME NEW w \in Workers, HolderStep(w)
        PROVE  UNCHANGED <<Returned, phase>>
    <3>1. PICK p : Works(w, p)
      BY <2>t, <2>1, HolderWorks
    <3> QED BY <3>1 DEF Works, outside, Returned
  <2>2. ASSUME NEW w \in Workers, Receive(w) \/ Lock(w) \/ TitleEnds(w) \/ ApplyVolume(w)
        PROVE  UNCHANGED <<Returned, phase>>
    <3>1. UNCHANGED controller
      BY <2>2 DEF Receive, Lock, TitleEnds, ApplyVolume
    <3> QED BY <3>1 DEF controller, Returned
  <2>3. CASE Play \/ Stop \/ Shutdown
    <3>1. /\ Returned' = generation /\ generation' = generation /\ generation \in Nat
          /\ Returned \in Nat /\ Returned < generation
      BY <2>t, <2>3, CallsCalled, CalledReturned
    <3>2. generation = Returned + 1
      <4>1. ui.op # "idle"
        BY <2>3 DEF Play, Stop, Shutdown
      <4> QED BY <3>1, <4>1 DEF Returned
    <3>3. CASE Play
      <4>1. /\ ui.local \in BOOLEAN
            /\ phase' \in {PhaseOf("Opening", generation, ui.local), PhaseOf("Failed", generation, FALSE)}
        BY <2>t, <3>3 DEF Play, ControllerOK
      <4>2. Abstract!Open(ui.local)
        BY <2>p, <3>1, <3>2, <4>1 DEF Abstract!Open
      <4> QED BY <4>1, <4>2 DEF Abstract!Next
    <3>4. CASE Stop
      <4>1. phase' = PhaseOf("Stopping", generation, FALSE)
        BY <3>4 DEF Stop
      <4>2. Abstract!Halt
        BY <2>p, <3>1, <3>2, <4>1 DEF Abstract!Halt
      <4> QED BY <4>2 DEF Abstract!Next
    <3>5. CASE Shutdown
      <4>1. Abstract!Exit
        BY <2>n, <3>1, <3>2, <3>5 DEF Abstract!Exit, Shutdown
      <4> QED BY <4>1 DEF Abstract!Next
    <3> QED BY <2>3, <3>3, <3>4, <3>5
  <2>4. CASE ApplyEvent
    <3>1. /\ Returned = generation /\ Returned' = generation /\ generation' = generation
          /\ 1 \in 1..Len(events) /\ events[1] \in Event
          /\ phase' = IF events[1].generation = generation THEN PhaseAfter(events[1]) ELSE phase
      BY <1>2, <2>t, <2>4, ApplyFacts
    <3>2. CASE events[1].generation # generation
      BY <3>1, <3>2
    <3>3. CASE events[1].generation = generation
      <4>1. /\ Mine(1)
            /\ events[1].tag = "PlayOk" => phase' = PhaseOf("Playing", generation, events[1].local)
            /\ events[1].tag = "StopOk" => phase' = Idle
            /\ events[1].tag = "Error" => phase' = PhaseOf("Failed", generation, FALSE)
            /\ events[1].tag \in {"PlayOk", "StopOk", "Error"}
        BY <3>1, <3>3, PhaseAfterIs DEF Mine
      <4>2. CASE events[1].tag = "PlayOk"
        <5>1. phase.tag = "Opening" /\ phase.local = events[1].local
          BY <2>t, <3>1, <4>1, <4>2 DEF EventInv
        <5>2. Abstract!Started
          BY <2>p, <3>1, <4>1, <4>2, <5>1 DEF Abstract!Started
        <5> QED BY <5>2 DEF Abstract!Next
      <4>3. CASE events[1].tag = "StopOk"
        <5>1. phase.tag = "Stopping"
          BY <2>t, <3>1, <4>1, <4>3 DEF EventInv
        <5>2. Abstract!Stopped
          BY <2>n, <3>1, <4>1, <4>3, <5>1 DEF Abstract!Stopped
        <5> QED BY <5>2 DEF Abstract!Next
      <4>4. CASE events[1].tag = "Error"
        <5>1. phase.tag # "Idle" /\ phase.tag \in {"Idle", "Opening", "Playing", "Stopping", "Failed"}
          BY <2>t, <3>1, <4>1, <4>4 DEF EventInv, ControllerOK, Phase
        <5>2. CASE phase.tag # "Failed"
          <6>1. Abstract!Broke
            BY <2>p, <3>1, <4>1, <4>4, <5>1, <5>2 DEF Abstract!Broke
          <6> QED BY <6>1 DEF Abstract!Next
        <5>3. CASE phase.tag = "Failed"
          <6>1. phase.generation = generation /\ phase.local = FALSE
            BY <2>t, <3>1, <5>3 DEF PhaseInv, Idle, ControllerOK, Phase
          <6>2. phase = PhaseOf("Failed", generation, FALSE)
            BY <2>t, <5>3, <6>1 DEF PhaseOf, ControllerOK, Phase
          <6> QED BY <3>1, <4>1, <4>4, <6>2
        <5> QED BY <5>2, <5>3
      <4> QED BY <4>1, <4>2, <4>3, <4>4
    <3> QED BY <3>2, <3>3
  <2>5. CASE UserStep \/ (\E g \in Tokens : DecodeEnds(g)) \/ UNCHANGED vars
    <3>1. Beside
      BY <2>t, <2>5, OthersBeside
    <3> QED BY <2>t, <3>1, BesideReturned DEF Beside
  <2> QED BY <1>2, <2>1, <2>2, <2>3, <2>4, <2>5, StepsAre
<1>3. StrongInv /\ [Next]_vars => [Abstract!Next]_<<Returned, phase>>
  BY <1>2
<1> QED BY <1>1, <1>3, StrongInvariance, PTL DEF Spec, KeepsItsPromise, Abstract!Spec

-----------------------------------------------------------------------------
(***************************************************************************)
(* Silence once the operation called last is over.  A rejected stop job    *)
(* leaves the receiver playing, so the queue must take every job that the  *)
(* behaviour submits: two for a play, one for a stop or a slider move.     *)
(***************************************************************************)

Room    == MaxQueuedJobs >= 2 * MaxGeneration + MaxVolumeChanges
RoomInv == Len(queue) <= 2 * Returned + volumeChanges

\* The caller knows that it stopped or failed, or an event will say so.
Over ==
    /\ ui.op = "idle" /\ ~runtimeCancelled
    /\ \/ phase.tag \in {"Idle", "Failed"}
       \/ \E i \in 1..Len(events) : /\ events[i].tag \in {"StopOk", "Error"}
                                    /\ events[i].generation = generation

\* From then on nobody is left who could make a sound.
OverInv ==
    Over => /\ ~LocalAudible /\ ~CastAudible
            /\ \A w \in Workers : /\ pc[w] \notin Past
                                  /\ job[w].kind = "play" => G(w) # generation
            /\ \A i \in 1..Len(queue) :
                  queue[i].kind = "play" => queue[i].generation # generation

\* The holder of the mutex: it may be the one that ends the operation, and is
\* then the last; otherwise it is superseded, or stops.
LEMMA HolderOver ==
  ASSUME IndInv, JobInv, OverInv, NEW w \in Workers, NEW p, Works(w, p)
  PROVE  OverInv'
<1>t. EventOK /\ EngineOK /\ LockInv /\ StreamInv /\ KindInv /\ OneJobInv
  BY DEF JobInv, IndInv, TypeOK
<1>w. /\ pc[w] \in Critical /\ Move(w, p) /\ UNCHANGED outside
      /\ OnItsPath(w, p) /\ Touches(w) /\ Says(w, p)
  BY DEF Works
<1>m. /\ pc'[w] = p /\ job'[w] = IF p = "free" THEN NoJob ELSE job[w]
      /\ \A v \in Workers : v # w => /\ pc'[v] = pc[v] /\ job'[v] = job[v]
                                     /\ pc[v] \notin Critical
  BY <1>w, MoveFacts
<1>o. /\ generation' = generation /\ phase' = phase /\ ui' = ui /\ queue' = queue
      /\ runtimeCancelled' = runtimeCancelled
  BY <1>w DEF outside
<1>c. Past \subseteq Critical /\ "free" \notin Past
  BY DEF Past, Critical, Opening, Casting, Speaking
<1>k. pc[w] \in PlayPoints \cup StopPoints
  BY <1>w DEF Critical, PlayPoints, StopPoints
<1>1. CASE Over
  <2>1. /\ ~LocalAudible /\ ~CastAudible
        /\ \A v \in Workers : pc[v] \notin Past /\ (job[v].kind = "play" => G(v) # generation)
        /\ \A i \in 1..Len(queue) : queue[i].kind = "play" => queue[i].generation # generation
    BY <1>1 DEF OverInv
  <2>2. /\ relay' \in {None, relay} /\ stream' \in {None, stream} /\ loaded' \in {None, loaded}
        /\ \A g \in Tokens : cancelled[g] => cancelled'[g]
    BY <1>w, <2>1 DEF Touches
  <2>3. ~CastAudible'
    BY <2>1, <2>2 DEF CastAudible
  <2>4. ~LocalAudible'
    BY <1>t, <2>1, <2>2 DEF LocalAudible, EngineOK
  <2>5. p \notin Past
    <3>1. CASE pc[w] \in StopPoints
      <4>1. p \in {"stopCast", "free"}
        BY <1>w, <3>1 DEF OnItsPath
      <4> QED BY <4>1 DEF Past, Opening, Casting, Speaking
    <3>2. CASE pc[w] \in PlayPoints
      <4>1. pc[w] = "check" /\ job[w].kind = "play"
        BY <1>t, <1>w, <2>1, <3>2 DEF KindInv, PlayPoints, Past, Critical, Opening, Casting,
           Speaking, Ending
      <4>2. p = "free"
        BY <1>w, <2>1, <4>1 DEF OnItsPath
      <4> QED BY <1>c, <4>2
    <3> QED BY <1>k, <3>1, <3>2
  <2>6. \A v \in Workers : /\ pc'[v] \notin Past
                           /\ job'[v].kind = "play" => G(v)' # generation
    BY <1>m, <2>1, <2>5, NoJobIs DEF G
  <2> QED BY <1>o, <2>1, <2>3, <2>4, <2>6 DEF OverInv
<1>2. ASSUME ~Over, Over'
      PROVE  OverInv'
  <2>1. ~SaysNothing(w)
    BY <1>o, <1>2 DEF SaysNothing, Over
  <2>2. PICK t \in {"Error", "PlayOk", "StopOk"}, l \in BOOLEAN : Send(EventOf(t, G(w), l))
    BY <1>w, <2>1 DEF Says, SaysError, SaysPlays, SaysStopped
  <2>3. /\ Len(events) \in Nat /\ Len(events') = Len(events) + 1
        /\ events'[Len(events) + 1] = EventOf(t, G(w), l)
        /\ \A i \in 1..Len(events) : events'[i] = events[i]
    BY <1>t, <2>2, SendFacts
  <2>4. PICK i \in 1..Len(events') : /\ events'[i].tag \in {"StopOk", "Error"}
                                     /\ events'[i].generation = generation
    BY <1>o, <1>2 DEF Over
  <2>5. i \notin 1..Len(events)
    BY <1>o, <1>2, <2>3, <2>4 DEF Over
  <2>6. i = Len(events) + 1
    BY <2>3, <2>5
  <2>7. t \in {"StopOk", "Error"} /\ G(w) = generation
    BY <2>3, <2>4, <2>6 DEF EventOf
  <2>8. SaysError(w, p) \/ SaysStopped(w, p)
    <3>1. ASSUME SaysPlays(w, p) PROVE FALSE
      <4>1. PICK b \in BOOLEAN : Send(EventOf("PlayOk", G(w), b))
        BY <3>1 DEF SaysPlays
      <4>2. events'[Len(events) + 1] = EventOf("PlayOk", G(w), b)
        BY <1>t, <4>1, SendFacts
      <4> QED BY <2>3, <2>7, <4>2 DEF EventOf
    <3> QED BY <1>w, <2>1, <3>1 DEF Says
  <2>9. /\ p = "free" /\ pc[w] # "session" /\ UNCHANGED <<cancelled, stream>> /\ relay' = None
    BY <1>t, <2>8 DEF SaysError, SaysStopped, KindInv
  <2>10. ~CastAudible'
    BY <2>9 DEF CastAudible
  <2>11. ~LocalAudible'
    <3> SUFFICES ASSUME LocalAudible PROVE FALSE
      BY <2>9 DEF LocalAudible
    <3>1. PICK v \in Workers : pc[v] = "session"
      BY <1>t DEF StreamInv
    <3>2. pc[v] \in Critical
      BY <3>1 DEF Critical, Speaking
    <3> QED BY <1>m, <2>9, <3>1, <3>2
  <2>12. Operation(job[w])
    BY <1>t, <1>k, JobKinds
  <2>13. \A v \in Workers : /\ pc'[v] \notin Past
                            /\ job'[v].kind = "play" => G(v)' # generation
    <3> SUFFICES ASSUME NEW v \in Workers
                 PROVE  pc'[v] \notin Past /\ (job'[v].kind = "play" => G(v)' # generation)
      OBVIOUS
    <3>1. CASE v = w
      BY <1>m, <1>c, <2>9, <3>1, NoJobIs
    <3>2. CASE v # w
      <4>1. pc'[v] = pc[v] /\ job'[v] = job[v] /\ pc[v] \notin Critical
        BY <1>m, <3>2
      <4>2. job[v].kind = "play" => G(v) # generation
        BY <1>t, <2>7, <2>12, <3>2 DEF OneJobInv, Operation
      <4> QED BY <1>c, <4>1, <4>2 DEF G
    <3> QED BY <3>1, <3>2
  <2>14. \A k \in 1..Len(queue) : queue[k].kind = "play" => queue[k].generation # generation
    BY <1>t, <2>7, <2>12 DEF OneJobInv, Operation
  <2> QED BY <1>o, <2>10, <2>11, <2>13, <2>14 DEF OverInv
<1> QED BY <1>1, <1>2 DEF OverInv

\* A job that is received, that takes the mutex or that needs none.
LEMMA ExecutorOver ==
  ASSUME IndInv, JobInv, OverInv, RoomInv, NEW w \in Workers,
         Receive(w) \/ Lock(w) \/ TitleEnds(w) \/ ApplyVolume(w)
  PROVE  OverInv' /\ RoomInv'
<1>t. QueueOK /\ WorkerOK /\ ControllerOK /\ LevelOK /\ NewestInv
  BY DEF IndInv, TypeOK, JobInv
<1>u. /\ UNCHANGED <<generation, phase, ui, cancelled, stream, relay, loaded, events,
                     runtimeCancelled, volumeChanges>>
  BY DEF Receive, Lock, TitleEnds, ApplyVolume, controller, engines, levels
<1>v. \A v \in Workers : v # w => pc'[v] = pc[v] /\ job'[v] = job[v]
  BY <1>t DEF Receive, Lock, TitleEnds, ApplyVolume, Finish, WorkerOK
<1>q. /\ Len(queue) \in Nat /\ Len(queue') \in Nat /\ Len(queue') <= Len(queue)
      /\ \A i \in 1..Len(queue') : \E k \in 1..Len(queue) : queue'[i] = queue[k]
  <2>1. CASE Receive(w)
    <3>1. /\ queue # <<>> /\ queue' = Tail(queue) /\ queue \in Seq(Job)
      BY <1>t, <2>1 DEF Receive, QueueOK
    <3>2. /\ Len(queue) \in Nat /\ Len(queue') = Len(queue) - 1 /\ Len(queue) > 0
          /\ \A i \in 1..Len(queue') : queue'[i] = queue[i + 1]
      BY <3>1
    <3>3. \A i \in 1..Len(queue') : i + 1 \in 1..Len(queue)
      BY <3>2
    <3> QED BY <3>2, <3>3
  <2>2. CASE ~Receive(w)
    <3>1. queue' = queue
      BY <2>2 DEF Lock, TitleEnds, ApplyVolume
    <3> QED BY <1>t, <3>1 DEF QueueOK
  <2> QED BY <2>1, <2>2
<1>j. \/ job'[w] = job[w]
      \/ job'[w] = NoJob
      \/ \E k \in 1..Len(queue) : job'[w] = queue[k]
  <2>1. CASE Receive(w)
    <3>1. queue # <<>> /\ queue \in Seq(Job)
      BY <1>t, <2>1 DEF Receive, QueueOK
    <3>2. 1 \in 1..Len(queue) /\ Head(queue) = queue[1]
      BY <3>1
    <3>3. job'[w] \in {job[w], Head(queue)}
      BY <1>t, <2>1 DEF Receive, WorkerOK
    <3> QED BY <3>2, <3>3
  <2>2. CASE ~Receive(w)
    BY <1>t, <2>2 DEF Lock, TitleEnds, ApplyVolume, Finish, WorkerOK
  <2> QED BY <2>1, <2>2
<1>p. pc'[w] \notin Past
  <2>1. CASE Receive(w)
    <3>1. pc[w] = "free" /\ queue # <<>> /\ queue \in Seq(Job)
      BY <1>t, <2>1 DEF Receive, QueueOK
    <3>2. Head(queue) \in Job
      BY <3>1
    <3>3. FirstPoint(Head(queue)) \in {"lockPlay", "lockStop", "title", "volume"}
      BY <3>2 DEF FirstPoint, Job
    <3>4. pc'[w] \in {"free", "lockPlay", "lockStop", "title", "volume"}
      BY <1>t, <2>1, <3>1, <3>3 DEF Receive, WorkerOK
    <3> QED BY <3>4 DEF Past, Opening, Casting, Speaking
  <2>2. CASE ~Receive(w)
    <3>1. pc'[w] \in {"check", "stopEngines", "free"}
      BY <1>t, <2>2 DEF Lock, TitleEnds, ApplyVolume, Finish, WorkerOK
    <3> QED BY <3>1 DEF Past, Opening, Casting, Speaking
  <2> QED BY <2>1, <2>2
<1>1. RoomInv'
  <2>1. Returned' = Returned
    BY <1>u, ReturnedKept
  <2>2. volumeChanges \in Nat
    BY <1>t, BoundsAssumption DEF LevelOK
  <2>3. Returned \in Nat
    BY <1>t, ReturnedTyped, BoundsAssumption
  <2> QED BY <1>u, <1>q, <2>1, <2>2, <2>3 DEF RoomInv
<1>2. OverInv'
  <2> SUFFICES ASSUME Over' PROVE OverInv'
    BY DEF OverInv
  <2>1. Over
    BY <1>u DEF Over
  <2>2. /\ ~LocalAudible /\ ~CastAudible
        /\ \A v \in Workers : pc[v] \notin Past /\ (job[v].kind = "play" => G(v) # generation)
        /\ \A i \in 1..Len(queue) : queue[i].kind = "play" => queue[i].generation # generation
    BY <2>1 DEF OverInv
  <2>3. ~LocalAudible' /\ ~CastAudible'
    BY <1>u, <2>2 DEF LocalAudible, CastAudible
  <2>4. job'[w].kind = "play" => job'[w].generation # generation
    BY <1>j, <2>2, NoJobIs DEF G
  <2>5. \A v \in Workers : /\ pc'[v] \notin Past
                           /\ job'[v].kind = "play" => G(v)' # generation
    BY <1>v, <1>p, <2>2, <2>4 DEF G
  <2>6. \A i \in 1..Len(queue') :
           queue'[i].kind = "play" => queue'[i].generation # generation
    BY <1>q, <2>2
  <2> QED BY <1>u, <2>3, <2>5, <2>6 DEF OverInv
<1> QED BY <1>1, <1>2

\* A call returns, and there was room for what it submitted.
LEMMA CallOver ==
  ASSUME Room, IndInv, JobInv, RoomInv, Play \/ Stop \/ Shutdown
  PROVE  OverInv' /\ RoomInv'
<1>t. NewestInv /\ QueueOK /\ ControllerOK /\ LevelOK /\ EventOK
  BY DEF JobInv, IndInv, TypeOK
<1>c. Called
  BY CallsCalled
<1>r. /\ Returned' = generation /\ generation' = generation /\ generation \in Nat
      /\ Returned \in Nat /\ Returned < generation /\ generation <= MaxGeneration
  BY <1>t, <1>c, CalledReturned, BoundsAssumption DEF ControllerOK
<1>n. ~runtimeCancelled
  BY <1>t, <1>c DEF NewestInv, Called
<1>v. volumeChanges \in Nat /\ volumeChanges <= MaxVolumeChanges /\ volumeChanges' = volumeChanges
  <2>1. volumeChanges' = volumeChanges
    BY DEF Play, Stop, Shutdown, levels
  <2>2. volumeChanges \in Nat /\ volumeChanges <= MaxVolumeChanges
    BY <1>t, BoundsAssumption DEF LevelOK
  <2> QED BY <2>1, <2>2
<1>q. queue \in Seq(Job) /\ Len(queue) \in Nat
  BY <1>t DEF QueueOK
<1>h. Len(queue) + 2 <= MaxQueuedJobs /\ Len(queue) + 2 <= 2 * generation + volumeChanges
  BY <1>r, <1>v, <1>q, BoundsAssumption DEF Room, RoomInv
<1>e. ASSUME UNCHANGED events, phase'.tag \notin {"Idle", "Failed"}
      PROVE  ~Over'
  <2>1. \A i \in 1..Len(events) : events[i].generation # generation
    <3> SUFFICES ASSUME NEW i \in 1..Len(events) PROVE events[i].generation # generation
      OBVIOUS
    <3>1. events[i].generation <= Returned
      BY <1>t DEF NewestInv
    <3> QED BY <1>r, <3>1
  <2> QED BY <1>r, <1>e, <2>1 DEF Over
<1>s. \A j : /\ HasRoom(queue) /\ Submit(queue, j) = Append(queue, j)
             /\ Len(Append(queue, j)) = Len(queue) + 1
  <2>1. Len(queue) < MaxQueuedJobs
    BY <1>q, <1>h, BoundsAssumption
  <2>2. HasRoom(queue)
    BY <1>n, <2>1 DEF HasRoom
  <2> QED BY <1>q, <2>2 DEF Submit
<1>1. CASE Play
  <2> DEFINE title == JobOf("title", generation, TRUE, volume)
             play  == JobOf("play", generation, ui.local, volume)
             first == IF ui.local THEN Submit(queue, title) ELSE queue
  <2>1. /\ queue' = Submit(first, play)
        /\ HasRoom(first) => /\ phase' = PhaseOf("Opening", generation, ui.local)
                             /\ UNCHANGED events
    BY <1>1 DEF Play
  <2>2. /\ Len(first) \in {Len(queue), Len(queue) + 1}
        /\ \A j : Len(Append(first, j)) = Len(first) + 1
    <3>1. \A j : Append(queue, j) \in Seq(Job \cup {j})
      BY <1>q
    <3>2. CASE ui.local
      <4>1. first = Append(queue, title)
        BY <1>s, <3>2
      <4>2. first \in Seq(Job \cup {title})
        BY <3>1, <4>1
      <4>3. Len(first) = Len(queue) + 1
        BY <1>s, <4>1
      <4> HIDE DEF first
      <4> QED BY <4>2, <4>3
    <3>3. CASE ~ui.local
      BY <1>s, <3>3
    <3> QED BY <3>2, <3>3
  <2> HIDE DEF first, play
  <2>3. Len(first) < MaxQueuedJobs
    BY <1>q, <1>h, <2>2, BoundsAssumption
  <2>4. HasRoom(first)
    BY <1>n, <2>3 DEF HasRoom
  <2>5. queue' = Append(first, play)
    BY <2>1, <2>4 DEF Submit
  <2>6. Len(queue') <= Len(queue) + 2
    BY <1>q, <2>2, <2>5
  <2>7. phase'.tag = "Opening" /\ UNCHANGED events
    BY <2>1, <2>4 DEF PhaseOf
  <2>8. ~Over'
    BY <1>e, <2>7
  <2>9. Len(queue') \in Nat
    BY <1>q, <2>2, <2>5
  <2>10. RoomInv'
    BY <1>r, <1>v, <1>q, <1>h, <2>6, <2>9 DEF RoomInv
  <2> QED BY <2>8, <2>10 DEF OverInv
<1>2. CASE Stop
  <2>1. /\ queue' = Submit(queue, JobOf("stop", generation, FALSE, volume))
        /\ phase' = PhaseOf("Stopping", generation, FALSE)
        /\ HasRoom(queue) => UNCHANGED events
    BY <1>2 DEF Stop
  <2>2. Len(queue') = Len(queue) + 1
    BY <1>s, <2>1
  <2>3. phase'.tag = "Stopping" /\ UNCHANGED events
    BY <1>s, <2>1 DEF PhaseOf
  <2>4. ~Over'
    BY <1>e, <2>3
  <2>5. RoomInv'
    BY <1>r, <1>v, <1>q, <1>h, <2>2 DEF RoomInv
  <2> QED BY <2>4, <2>5 DEF OverInv
<1>3. CASE Shutdown
  <2>1. runtimeCancelled' /\ queue' = queue
    BY <1>3 DEF Shutdown
  <2>2. RoomInv'
    BY <1>r, <1>v, <1>q, <1>h, <2>1 DEF RoomInv
  <2> QED BY <2>1, <2>2 DEF OverInv, Over
<1> QED BY <1>1, <1>2, <1>3

LEMMA ApplyOver ==
  ASSUME IndInv, OverInv, RoomInv, ApplyEvent
  PROVE  OverInv' /\ RoomInv'
<1>j. /\ UNCHANGED <<generation, ui, runtimeCancelled, queue, pc, job, stream, relay, loaded,
                     cancelled, volumeChanges>>
      /\ ui.op = "idle" /\ ~runtimeCancelled
  BY ApplyFacts DEF executor, engines, ApplyEvent, levels
<1>e. /\ Len(events) \in Nat /\ 1 \in 1..Len(events) /\ Len(events') = Len(events) - 1
      /\ \A i \in 1..Len(events') : i + 1 \in 2..Len(events) /\ events'[i] = events[i + 1]
      /\ events[1] \in Event
      /\ phase' = IF events[1].generation = generation THEN PhaseAfter(events[1]) ELSE phase
  BY ApplyFacts
<1>1. RoomInv'
  <2>1. Returned' = Returned
    BY <1>j, ReturnedKept
  <2> QED BY <1>j, <2>1 DEF RoomInv
<1>2. ASSUME Over' PROVE Over
  <2>1. CASE phase'.tag \in {"Idle", "Failed"}
    <3>1. CASE events[1].generation = generation
      <4>1. phase' = PhaseAfter(events[1])
        BY <1>e, <3>1
      <4>2. events[1].tag # "PlayOk" /\ events[1].tag \in {"PlayOk", "StopOk", "Error"}
        BY <1>e, <2>1, <4>1, PhaseAfterIs DEF PhaseOf
      <4> QED BY <1>j, <1>e, <3>1, <4>2 DEF Over
    <3>2. CASE events[1].generation # generation
      BY <1>j, <1>e, <2>1, <3>2 DEF Over
    <3> QED BY <3>1, <3>2
  <2>2. CASE phase'.tag \notin {"Idle", "Failed"}
    <3>1. PICK i \in 1..Len(events') : /\ events'[i].tag \in {"StopOk", "Error"}
                                       /\ events'[i].generation = generation
      BY <1>j, <1>2, <2>2 DEF Over
    <3>2. i + 1 \in 1..Len(events) /\ events'[i] = events[i + 1]
      BY <1>e
    <3> QED BY <1>j, <3>1, <3>2 DEF Over
  <2> QED BY <2>1, <2>2
<1>3. OverInv'
  <2>1. (LocalAudible' <=> LocalAudible) /\ (CastAudible' <=> CastAudible)
    BY <1>j DEF LocalAudible, CastAudible
  <2> QED BY <1>j, <1>2, <2>1 DEF OverInv, G
<1> QED BY <1>1, <1>3

\* Between calls: a new operation has begun, or a volume job was submitted.
LEMMA BesideOver ==
  ASSUME IndInv, JobInv, OverInv, RoomInv,
         UserStep \/ (\E g \in Tokens : DecodeEnds(g)) \/ UNCHANGED vars
  PROVE  OverInv' /\ RoomInv'
<1>t. NewestInv /\ QueueOK /\ ControllerOK /\ LevelOK
  BY DEF JobInv, IndInv, TypeOK
<1>b. Beside
  BY OthersBeside
<1>1. OverInv'
  <2>1. CASE ui'.op # "idle"
    BY <2>1 DEF OverInv, Over
  <2>2. CASE ui'.op = "idle"
    <3>1. UNCHANGED <<generation, ui, runtimeCancelled, pc, job, stream, relay, loaded,
                      cancelled, phase, events>>
      BY <1>b, <2>2 DEF Beside
    <3>2. \A i \in 1..Len(queue') : \/ i \in 1..Len(queue) /\ queue'[i] = queue[i]
                                    \/ queue'[i].kind # "play"
      BY <1>b DEF Beside, Operation
    <3>3. /\ (LocalAudible' <=> LocalAudible) /\ (CastAudible' <=> CastAudible)
          /\ (Over' <=> Over)
      BY <3>1 DEF LocalAudible, CastAudible, Over
    <3> QED BY <3>1, <3>2, <3>3 DEF OverInv, G
  <2> QED BY <2>1, <2>2
<1>r. Returned' = Returned
  BY <1>t, <1>b, BesideReturned
<1>v. /\ Returned \in Nat /\ volumeChanges \in Nat
      /\ queue \in Seq(Job) /\ Len(queue) \in Nat
  BY <1>t, ReturnedTyped, BoundsAssumption DEF LevelOK, QueueOK
<1>2. RoomInv'
  <2>1. ASSUME NEW level \in Levels, NEW local \in BOOLEAN, SetVolume(level, local)
        PROVE  RoomInv'
    <3> DEFINE job1 == JobOf("volume", None, local, level)
    <3>1. volumeChanges' = volumeChanges + 1 /\ queue' = Submit(queue, job1)
      BY <2>1 DEF SetVolume
    <3> HIDE DEF job1
    <3>2. Len(queue') \in {Len(queue), Len(queue) + 1}
      BY <1>v, <3>1 DEF Submit
    <3> QED BY <1>r, <1>v, <3>1, <3>2 DEF RoomInv
  <2>2. CASE UNCHANGED <<queue, volumeChanges>>
    BY <1>r, <2>2 DEF RoomInv
  <2>3. CASE (\E op \in {"play", "stop", "shutdown"}, local \in BOOLEAN : Begin(op, local))
             \/ (\E g \in Tokens : DecodeEnds(g)) \/ UNCHANGED vars
    <3>1. UNCHANGED <<queue, volumeChanges>>
      BY <2>3 DEF Begin, DecodeEnds, executor, levels, vars
    <3> QED BY <2>2, <3>1
  <2> QED BY <2>1, <2>3 DEF UserStep
<1> QED BY <1>1, <1>2

\* "Stopped" and "failed" are true: once the caller is told, nothing plays, in
\* whatever order the jobs of earlier operations get the mutex, as long as the
\* executor's queue took every job.
THEOREM OverIsSilent == Room => (Spec => []SettledIsSilent)
<1> DEFINE Inv == StrongInv /\ RoomInv /\ OverInv
<1>1. Init => RoomInv /\ OverInv
  <2> SUFFICES ASSUME Init PROVE RoomInv /\ OverInv
    OBVIOUS
  <2>1. RoomInv
    BY DEF Init, RoomInv, Returned
  <2>2. ~LocalAudible /\ ~CastAudible
    BY DEF Init, LocalAudible, CastAudible
  <2>3. \A w \in Workers : pc[w] \notin Past /\ job[w].kind # "play"
    BY NoJobIs DEF Init, Past, Opening, Casting, Speaking
  <2>4. Len(queue) = 0
    BY DEF Init
  <2> QED BY <2>1, <2>2, <2>3, <2>4 DEF OverInv
<1>2. ASSUME Room, Inv, [Next]_vars
      PROVE  Inv'
  <2>t. IndInv /\ JobInv /\ KindInv
    BY <1>2 DEF StrongInv, JobInv
  <2>s. StrongInv'
    BY <1>2, StepStrong
  <2>1. ASSUME NEW w \in Workers, HolderStep(w)
        PROVE  OverInv' /\ RoomInv'
    <3>1. PICK p : Works(w, p)
      BY <2>t, <2>1, HolderWorks
    <3>2. OverInv'
      BY <1>2, <2>t, <3>1, HolderOver
    <3>3. UNCHANGED <<generation, ui, queue, volumeChanges>>
      BY <3>1 DEF Works, outside
    <3>4. Returned' = Returned
      BY <3>3, ReturnedKept
    <3> QED BY <1>2, <3>2, <3>3, <3>4 DEF RoomInv
  <2>2. ASSUME NEW w \in Workers, Receive(w) \/ Lock(w) \/ TitleEnds(w) \/ ApplyVolume(w)
        PROVE  OverInv' /\ RoomInv'
    BY <1>2, <2>t, <2>2, ExecutorOver
  <2>3. CASE Play \/ Stop \/ Shutdown
    BY <1>2, <2>t, <2>s, <2>3, CallOver
  <2>4. CASE ApplyEvent
    BY <1>2, <2>t, <2>s, <2>4, ApplyOver
  <2>5. CASE UserStep \/ (\E g \in Tokens : DecodeEnds(g)) \/ UNCHANGED vars
    BY <1>2, <2>t, <2>s, <2>5, BesideOver
  <2> QED BY <1>2, <2>s, <2>1, <2>2, <2>3, <2>4, <2>5, StepsAre
<1>3. Inv => SettledIsSilent
  BY DEF OverInv, Over, SettledIsSilent
<1>4. Room /\ Inv /\ [Next]_vars => Inv'
  BY <1>2
<1>5. Init => Inv
  BY <1>1, InitStrong
<1>6. SUFFICES ASSUME Room PROVE Spec => []SettledIsSilent
  OBVIOUS
<1>7. Inv /\ [Next]_vars => Inv'
  BY <1>4, <1>6
<1> HIDE DEF Inv
<1> QED BY <1>3, <1>5, <1>7, PTL DEF Spec
=============================================================================
