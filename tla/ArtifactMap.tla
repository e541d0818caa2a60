---------------------------- MODULE ArtifactMap ------------------------------
(***************************************************************************)
(* What the Artifact Service promises: an identifier is bound once, to a   *)
(* description and the bytes it describes, and stays bound to them until   *)
(* its owner gives it up.                                                  *)
(***************************************************************************)
CONSTANTS Artifact, Bound, Nothing

VARIABLES artifact,   \* what is bound to an identifier
          released    \* identifiers their owner has given up

Commit(a) == /\ a \notin released /\ artifact[a] = Nothing
             /\ \E b \in Bound : artifact' = [artifact EXCEPT ![a] = b]
             /\ UNCHANGED released

GiveUp(a) == released' = released \cup {a} /\ UNCHANGED artifact

Remove(a) == /\ a \in released
             /\ artifact' = [artifact EXCEPT ![a] = Nothing]
             /\ UNCHANGED released

MapInit == artifact = [a \in Artifact |-> Nothing] /\ released = {}
MapNext == \E a \in Artifact : Commit(a) \/ GiveUp(a) \/ Remove(a)
MapSpec == MapInit /\ [][MapNext]_<<artifact, released>>
=============================================================================
