------------------------------ MODULE MCServices ------------------------------
(***************************************************************************)
(* Instances of three parts of the system that share no state: Grants,     *)
(* ArtifactStore and EventBuilder.  A behaviour runs one of them, chosen   *)
(* at the start, so that one run covers the sum of their states.           *)
(***************************************************************************)
EXTENDS Grants, ArtifactStore, EventBuilder, TLC

CONSTANTS art, x, y, m, n   \* of Contending

VARIABLE part               \* the part that runs

ASSUME ServicesAssumption == ArtifactAssumption /\ OneFilePerTicket /\ BuilderAssumption

-----------------------------------------------------------------------------
\* Two usual grants, one of an issuer whose clock is ahead, one that lives too long.
Issued == {[iat |-> 0, exp |-> 2], [iat |-> 1, exp |-> 3],
           [iat |-> 2, exp |-> 4], [iat |-> 0, exp |-> 4]}

Cap(u, meta, expected, sends) ==
    [artifact |-> art, upload |-> u, meta |-> meta, expected |-> expected, sends |-> sends]

\* Retries of one file, another file and another name, under one identifier.
Contending == {Cap(1, m, Nothing, {x}), Cap(2, m, y, {x, y}), Cap(3, n, Nothing, {x})}

\* No definition of EventBuilder tells two messages, or two words, apart.
Alike == Permutations(Message) \cup Permutations(Word)

-----------------------------------------------------------------------------
ServicesInit ==
    /\ GrantsInit /\ Init /\ BuilderInit
    /\ part \in {"grants", "artifacts", "events"}

ServicesNext ==
    \/ part = "grants" /\ GrantsNext /\ UNCHANGED <<part, vars, builderVars>>
    \/ part = "artifacts" /\ Next /\ UNCHANGED <<part, grantVars, builderVars>>
    \/ part = "events" /\ BuilderNext /\ UNCHANGED <<part, grantVars, vars>>

ServicesSpec == ServicesInit /\ [][ServicesNext]_<<part, grantVars, vars, builderVars>>
=============================================================================
