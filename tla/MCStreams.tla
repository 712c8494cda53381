------------------------------ MODULE MCStreams ------------------------------
(***************************************************************************)
(* The two ways a station is played.  LocalPlayer and StreamRelay share no *)
(* state, and the controller starts one of them for an output.             *)
(***************************************************************************)
EXTENDS LocalPipeline, RelayFanout

VARIABLE output   \* what the station is played on

vars == <<output, localVars, relayVars>>

\* The relay chooses its transport only when it is started.
Init ==
    /\ output \in {"local", "cast"} /\ LocalInit /\ RelayInit
    /\ output = "local" => transport = "pcm"

OnLocal(A) == output = "local" /\ A /\ UNCHANGED <<output, relayVars>>
OnCast(A)  == output = "cast" /\ A /\ UNCHANGED <<output, localVars>>

Next == OnLocal(LocalNext) \/ OnCast(RelayNext)

\* LocalFairness for the one and RelayFairness for the other.
Fairness ==
    /\ WF_vars(OnLocal(SendRead))
    /\ WF_vars(OnLocal(Dispatch \/ DispatchSend))
    /\ WF_vars(OnLocal(Decoding))
    /\ WF_vars(OnLocal(PlayoutTakes \/ Drain \/ Publish))
    /\ WF_vars(OnLocal(Playing))
    /\ WF_vars(OnCast(FeederStops))
    /\ \A c \in Clients : WF_vars(OnCast(Serve(c)))

Spec == Init /\ [][Next]_vars /\ Fairness

-----------------------------------------------------------------------------
\* Types and bounds of both (the queues, SteadyPlayout's backlog, the relay's ring), and
\* LocalPlayer::play forgets a running session only behind a device that does not open.
StreamsOK == LocalTypeOK /\ RelayTypeOK /\ OrphansAreKnown

\* Samples stay on their channel: the device gets whole frames however little the ring
\* holds or has room for (push_slice, pop_slice, drain_due), and a client of the relay
\* reads on between two samples however far it fell behind (join_position, read_at).
StreamsStayAligned == FramesAreWhole /\ ClientsKeepToSamples

\* Nothing is played or sent twice, or after what is newer, and a client gets only what
\* is still in the ring (SpscAudioRing, Fanout::read_at).
StreamsMoveForward == FramesMoveForward /\ ClientsMoveForward

\* Threads end once they are told to, whatever they are blocked on, and a stream that
\* ends is noticed by play (LocalPlayer::stop, StreamRelay::stop, the error slot).
SessionsEnd == ThreadsEnd /\ RelayEnds /\ DeadStreamIsReported
=============================================================================
