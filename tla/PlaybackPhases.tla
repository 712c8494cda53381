--------------------------- MODULE PlaybackPhases ---------------------------
(***************************************************************************)
(* What PlaybackController promises to its caller, without jobs, engines   *)
(* or events (src/playback/phase.rs, apply_event): operations are numbered *)
(* in the order of the calls, the phase is always about the newest         *)
(* operation, an operation is answered once with success, it may fail at   *)
(* any time, and a failure is final.                                       *)
(***************************************************************************)
EXTENDS Naturals

VARIABLES
    newest,  \* number of the last operation whose call has returned
    phase    \* the phase the caller sees: tag, operation, and output

Promise(t, g, l) == [tag |-> t, generation |-> g, local |-> l]
NoPlayback == Promise("Idle", 0, FALSE)

Init == newest = 0 /\ phase = NoPlayback

\* A play call returns: the job was accepted, or the executor was full.
Open(local) ==
    /\ newest' = newest + 1
    /\ phase' \in {Promise("Opening", newest', local), Promise("Failed", newest', FALSE)}

Halt == /\ newest' = newest + 1
        /\ phase' = Promise("Stopping", newest', FALSE)

Exit == /\ newest' = newest + 1
        /\ phase' = NoPlayback

\* The answers: only an opening play starts, only a stop in progress stops.
Started == /\ phase.tag = "Opening"
           /\ phase' = Promise("Playing", newest, phase.local)
           /\ UNCHANGED newest

Stopped == /\ phase.tag = "Stopping"
           /\ phase' = NoPlayback
           /\ UNCHANGED newest

Broke == /\ phase.tag \in {"Opening", "Playing", "Stopping"}
         /\ phase' = Promise("Failed", newest, FALSE)
         /\ UNCHANGED newest

Next == (\E local \in BOOLEAN : Open(local)) \/ Halt \/ Exit \/ Started \/ Stopped \/ Broke

Spec == Init /\ [][Next]_<<newest, phase>>
=============================================================================
