--------------------------- MODULE MCDeviceControl ---------------------------
(***************************************************************************)
(* The two halves of the device connection.  Snapshots go one way through  *)
(* the published slot, commands and results the other way through the      *)
(* command book; neither half reads the state of the other, and both live  *)
(* with connections that break (StatePublisher's faults, CommandLedger's   *)
(* link).  A behaviour of an instance is one of either.                    *)
(***************************************************************************)
EXTENDS StatePublisher, CommandLedger

VARIABLE half   \* the half whose behaviours are explored

device == <<half, vars, ledger>>

\* One start of the publisher is enough where it does not move.
DeviceInit ==
    /\ half \in {"state", "commands"} /\ Init /\ LedgerInit
    /\ half = "commands" => tokenGood /\ fact = CHOOSE f \in Facts : TRUE

OfState(A)    == half = "state" /\ A /\ UNCHANGED <<half, ledger>>
OfCommands(A) == half = "commands" /\ A /\ UNCHANGED <<half, vars>>

DeviceNext == OfState(Next) \/ OfCommands(LedgerNext)

\* FairSpec for the one half and WorkerFairness for the other.
DeviceFairness ==
    /\ WF_device(OfState(Publish)) /\ WF_device(OfState(PublisherStep))
    /\ WF_device(OfCommands(Connect)) /\ WF_device(OfCommands(WorkerStep))

DeviceSpec == DeviceInit /\ [][DeviceNext]_device /\ DeviceFairness

\* ServerLearns where there is a publisher at work.
SnapshotsArrive == half = "commands" \/ ServerLearns
=============================================================================
