------------------------------- MODULE Grants --------------------------------
(***************************************************************************)
(* Operation grants: short-lived, signed, for one use.  A request presents *)
(* a grant; its times are verified, and then its nonce is consumed in a    *)
(* transaction of its own, which also forgets the nonces that have         *)
(* expired.  Only then is the operation recorded that the grant allows.    *)
(* The clock runs on between these steps.  The Manager and the BFF each do *)
(* this with a database of their own.                                      *)
(***************************************************************************)
EXTENDS Integers

CONSTANTS Grant,        \* grants issued: iat, exp (and a nonce: the grant itself)
          Request,      \* presentations of a grant
          Skew,         \* how far ahead the clock of an issuer may be: 30 s
          MaxLifetime,  \* max_lifetime
          MaxTime,      \* bound: the clock
          MaxCrashes,   \* bound: restarts of the service
          None

ASSUME GrantsAssumption ==
    /\ \A g \in Grant : g.iat \in Int /\ g.exp \in Int
    /\ Skew \in Nat /\ MaxLifetime \in Nat /\ MaxTime \in Nat /\ MaxCrashes \in Nat
    /\ None \notin Grant

VARIABLES
    now,        \* the clock, in seconds
    consumed,   \* consumed_nonces
    stage,      \* where a request is
    grant,      \* the grant it presents
    time,       \* when it consumed the nonce
    recorded,   \* grants whose operation is recorded
    crashes

grantVars == <<now, consumed, stage, grant, time, recorded, crashes>>

GrantsInit ==
    /\ now = 0 /\ consumed = {} /\ stage = [q \in Request |-> "new"]
    /\ grant = [q \in Request |-> None] /\ time = [q \in Request |-> 0]
    /\ recorded = {} /\ crashes = 0

Pass(q, place) == stage' = [stage EXCEPT ![q] = place]

Lifetime(g) == g.exp - g.iat > 0 /\ g.exp - g.iat <= MaxLifetime
Active(g) == g.iat <= now + Skew /\ g.exp > now

\* verify_grant
Verify(q) ==
    /\ stage[q] = "new"
    /\ \E g \in Grant :
          /\ grant' = [grant EXCEPT ![q] = g]
          /\ Pass(q, IF Active(g) /\ Lifetime(g) THEN "verified" ELSE "refused")
    /\ UNCHANGED <<now, consumed, time, recorded, crashes>>

\* Deviation: nonces are forgotten a second before they expire.
ConsumeForgetsEarly(q) ==
    LET kept == {g \in consumed : g.exp - 1 > now} IN
    /\ stage[q] = "verified"
    /\ consumed' = kept \cup {grant[q]}
    /\ IF grant[q] \in kept THEN Pass(q, "refused") /\ UNCHANGED time
       ELSE Pass(q, "accepted") /\ time' = [time EXCEPT ![q] = now]
    /\ UNCHANGED <<now, grant, recorded, crashes>>

\* consume_nonce.  When the nonce is there the BFF rolls the purge back as well.
Consume(q) ==
    LET kept == {g \in consumed : g.exp > now} IN
    /\ stage[q] = "verified"
    /\ \/ /\ grant[q] \notin kept
          /\ consumed' = kept \cup {grant[q]}
          /\ Pass(q, "accepted") /\ time' = [time EXCEPT ![q] = now]
       \/ /\ grant[q] \in kept
          /\ consumed' \in {kept, consumed}
          /\ Pass(q, "refused") /\ UNCHANGED time
    /\ UNCHANGED <<now, grant, recorded, crashes>>

\* create_operation, or the refusal of what the grant asks for.
Record(q) ==
    /\ stage[q] = "accepted"
    /\ \/ recorded' = recorded \cup {grant[q]} /\ Pass(q, "answered")
       \/ UNCHANGED recorded /\ Pass(q, "refused")
    /\ UNCHANGED <<now, consumed, grant, time, crashes>>

Tick == /\ now < MaxTime /\ now' = now + 1
        /\ UNCHANGED <<consumed, stage, grant, time, recorded, crashes>>

\* The service restarts: requests are cut off, its database stays.
Restart ==
    /\ crashes < MaxCrashes /\ crashes' = crashes + 1
    /\ stage' = [q \in Request |->
          CASE stage[q] = "verified" -> "refused" [] stage[q] = "accepted" -> "cut"
            [] OTHER -> stage[q]]
    /\ UNCHANGED <<now, consumed, grant, time, recorded>>

GrantsNext == Tick \/ Restart \/ \E q \in Request : Verify(q) \/ Consume(q) \/ Record(q)

GrantsSpec == GrantsInit /\ [][GrantsNext]_grantVars

-----------------------------------------------------------------------------
Consumed == {q \in Request : stage[q] \in {"accepted", "answered", "cut"}}

\* Types; and nonces are only kept of grants with a lifetime that is allowed.
GrantsTypeOK ==
    /\ now \in 0 .. MaxTime /\ crashes \in 0 .. MaxCrashes
    /\ consumed \subseteq {g \in Grant : Lifetime(g)}
    /\ stage \in [Request -> {"new", "verified", "refused", "accepted", "answered", "cut"}]
    /\ grant \in [Request -> Grant \cup {None}]
    /\ \A q \in Request : stage[q] # "new" => grant[q] \in Grant
    /\ \A q \in Request : stage[q] \in {"verified", "accepted"} => Lifetime(grant[q])
    /\ time \in [Request -> 0 .. MaxTime] /\ \A q \in Request : time[q] <= now
    /\ recorded \subseteq Grant

\* Of the requests that present one grant, at most one consumes it before it
\* expires: purges of the table and restarts do not reopen it.
OnceBeforeExpiry ==
    \A p, q \in Consumed : p # q /\ grant[p] = grant[q] =>
        time[p] >= grant[p].exp \/ time[q] >= grant[q].exp

\* What OnceBeforeExpiry rests on: a nonce stays in the table until it expires.
NoncesAreKept ==
    \A q \in Consumed : grant[q].exp > now => grant[q] \in consumed
=============================================================================
