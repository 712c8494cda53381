-------------------------- MODULE MCRemoteCommands --------------------------
(* RemoteCommands on small instances: p plays (whether the selected, the next *)
(* or a named station makes no difference), s stops, v sets the volume.       *)
EXTENDS RemoteCommands

CONSTANTS p, s, v
Asked == [c \in Commands |-> IF c = s THEN "stop" ELSE IF c = v THEN "volume" ELSE "play"]
=============================================================================
