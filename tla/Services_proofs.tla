----------------------------- MODULE Services_proofs -----------------------------
(***************************************************************************)
(* Two services that share no state, each proved for itself: Grants first, *)
(* then ArtifactStore.                                                     *)
(*                                                                         *)
(* A grant is consumed at most once before it expires, for any number of   *)
(* grants, requests and restarts.  The purge is the only step that removes *)
(* nonces, and it removes those that have expired; so the nonce of every   *)
(* consumed grant is in the table until the grant expires (NoncesAreKept), *)
(* and a second consumption comes too late.                                *)
(*                                                                         *)
(* Uploads implement ArtifactMap, for any artifacts, capabilities,         *)
(* transfers and faults, provided that one capability sends one file.  The *)
(* manifest of an artifact that is being uploaded is never removed,        *)
(* because its owner has not released it (Upheld); so what a transfer has  *)
(* seen of the manifest is still so when it acts on it: it removes content *)
(* the manifest does not name, and writes a manifest only for content that *)
(* is there.  What a store without faults leaves behind needs to know, of  *)
(* every object, which request will still remove it or name it (Clean).    *)
(***************************************************************************)
EXTENDS Grants, ArtifactStore, TLAPS

GrantsInv == GrantsTypeOK /\ NoncesAreKept /\ OnceBeforeExpiry

LEMMA GrantsInitInv == GrantsInit => GrantsInv
BY GrantsAssumption DEF GrantsInit, GrantsInv, GrantsTypeOK, NoncesAreKept, OnceBeforeExpiry, Consumed

(* A step that leaves the consumed grants and their times alone, and lets  *)
(* the table forget only what has expired, keeps the invariant.            *)
LEMMA SameConsumptions ==
  ASSUME GrantsInv, GrantsTypeOK', Consumed' = Consumed, time' = time,
         \A q \in Consumed : grant'[q] = grant[q],
         now' \in Int, now' >= now,
         \A g \in consumed : g.exp > now' => g \in consumed'
  PROVE  NoncesAreKept' /\ OnceBeforeExpiry'
<1>1. \A q \in Consumed : grant[q] \in Grant /\ grant[q].exp \in Int
  BY GrantsAssumption DEF GrantsInv, GrantsTypeOK, Consumed
<1>2. now \in Int
  BY GrantsAssumption DEF GrantsInv, GrantsTypeOK
<1>3. NoncesAreKept'
  BY <1>1, <1>2 DEF GrantsInv, NoncesAreKept
<1>4. OnceBeforeExpiry'
  BY DEF GrantsInv, OnceBeforeExpiry
<1> QED BY <1>3, <1>4

LEMMA VerifyInv ==
  ASSUME GrantsInv, NEW q \in Request, Verify(q)
  PROVE  GrantsInv'
<1>1. GrantsTypeOK'
  BY DEF GrantsInv, GrantsTypeOK, Verify, Pass, Lifetime
<1>2. Consumed' = Consumed /\ \A p \in Consumed : grant'[p] = grant[p]
  BY DEF GrantsInv, GrantsTypeOK, Verify, Pass, Consumed
<1>3. now' = now /\ now \in Int /\ consumed' = consumed /\ time' = time
  BY GrantsAssumption DEF GrantsInv, GrantsTypeOK, Verify
<1>4. NoncesAreKept' /\ OnceBeforeExpiry'
  BY <1>1, <1>2, <1>3, SameConsumptions
<1> QED BY <1>1, <1>4 DEF GrantsInv

(* The step the invariant is about: the table is purged, and the nonce     *)
(* inserted if it is not there.                                            *)
LEMMA ConsumeInv ==
  ASSUME GrantsInv, NEW q \in Request, Consume(q)
  PROVE  GrantsInv'
<1> DEFINE kept == {g \in consumed : g.exp > now}
<1>1. /\ grant' = grant /\ now' = now /\ now \in Int /\ stage[q] = "verified"
      /\ grant[q] \in Grant /\ Lifetime(grant[q]) /\ grant[q].exp \in Int
  BY GrantsAssumption DEF GrantsInv, GrantsTypeOK, Consume
<1>2. \A p \in Consumed : grant[p] \in Grant /\ grant[p].exp \in Int /\ p # q
  BY <1>1, GrantsAssumption DEF GrantsInv, GrantsTypeOK, Consumed
<1>3. CASE grant[q] \notin kept
  <2>1. /\ consumed' = kept \cup {grant[q]} /\ time' = [time EXCEPT ![q] = now]
        /\ stage' = [stage EXCEPT ![q] = "accepted"]
    BY <1>3 DEF Consume, Pass
  <2>2. GrantsTypeOK'
    BY <1>1, <2>1 DEF GrantsInv, GrantsTypeOK, Consume, Lifetime
  <2>3. Consumed' = Consumed \cup {q}
    BY <1>1, <2>1 DEF GrantsInv, GrantsTypeOK, Consumed
  <2>4. NoncesAreKept'
    BY <1>1, <2>1, <2>3 DEF GrantsInv, NoncesAreKept
  <2>5. \A p \in Consumed : grant[p] = grant[q] => grant[q].exp <= now
    BY <1>1, <1>3 DEF GrantsInv, NoncesAreKept
  <2>6. time'[q] = now /\ \A p \in Consumed : time'[p] = time[p]
    BY <1>2, <2>1 DEF GrantsInv, GrantsTypeOK, Consumed
  <2>7. OnceBeforeExpiry'
    BY <1>1, <1>2, <2>3, <2>5, <2>6 DEF GrantsInv, OnceBeforeExpiry
  <2> QED BY <2>2, <2>4, <2>7 DEF GrantsInv
<1>4. CASE grant[q] \in kept
  <2>1. /\ consumed' \in {kept, consumed} /\ time' = time
        /\ stage' = [stage EXCEPT ![q] = "refused"]
    BY <1>4 DEF Consume, Pass
  <2>2. GrantsTypeOK'
    BY <1>1, <2>1 DEF GrantsInv, GrantsTypeOK, Consume, Lifetime
  <2>3. Consumed' = Consumed
    BY <1>1, <2>1 DEF GrantsInv, GrantsTypeOK, Consumed
  <2>4. NoncesAreKept' /\ OnceBeforeExpiry'
    BY <1>1, <2>1, <2>2, <2>3, SameConsumptions
  <2> QED BY <2>2, <2>4 DEF GrantsInv
<1> QED BY <1>3, <1>4

LEMMA RecordInv ==
  ASSUME GrantsInv, NEW q \in Request, Record(q)
  PROVE  GrantsInv'
<1>1. stage[q] = "accepted" /\ stage' \in {[stage EXCEPT ![q] = "answered"], [stage EXCEPT ![q] = "refused"]}
  BY DEF Record, Pass
<1>2. now' = now /\ now \in Int /\ consumed' = consumed /\ time' = time /\ grant' = grant
  BY GrantsAssumption DEF GrantsInv, GrantsTypeOK, Record
<1>3. GrantsTypeOK'
  BY <1>1 DEF GrantsInv, GrantsTypeOK, Record, Lifetime
<1>4. Consumed' \subseteq Consumed
  BY <1>1 DEF GrantsInv, GrantsTypeOK, Consumed
<1>5. NoncesAreKept' /\ OnceBeforeExpiry'
  BY <1>2, <1>4 DEF GrantsInv, NoncesAreKept, OnceBeforeExpiry
<1> QED BY <1>3, <1>5 DEF GrantsInv

LEMMA TickInv ==
  ASSUME GrantsInv, Tick
  PROVE  GrantsInv'
<1>1. GrantsTypeOK'
  BY GrantsAssumption DEF GrantsInv, GrantsTypeOK, Tick, Lifetime
<1>2. /\ Consumed' = Consumed /\ time' = time /\ consumed' = consumed /\ grant' = grant
      /\ now' \in Int /\ now' >= now
  BY GrantsAssumption DEF GrantsInv, GrantsTypeOK, Tick, Consumed
<1>3. NoncesAreKept' /\ OnceBeforeExpiry'
  BY <1>1, <1>2, SameConsumptions
<1> QED BY <1>1, <1>3 DEF GrantsInv

LEMMA RestartInv ==
  ASSUME GrantsInv, Restart
  PROVE  GrantsInv'
<1>1. \A q \in Request : stage'[q] = CASE stage[q] = "verified" -> "refused"
                                    [] stage[q] = "accepted" -> "cut"
                                    [] OTHER -> stage[q]
  BY DEF Restart
<1>2. GrantsTypeOK'
  BY GrantsAssumption DEF GrantsInv, GrantsTypeOK, Restart, Lifetime
<1>3. Consumed' = Consumed
  BY <1>1 DEF Consumed
<1>4. now' = now /\ now \in Int /\ consumed' = consumed /\ time' = time /\ grant' = grant
  BY GrantsAssumption DEF GrantsInv, GrantsTypeOK, Restart
<1>5. NoncesAreKept' /\ OnceBeforeExpiry'
  BY <1>2, <1>3, <1>4, SameConsumptions
<1> QED BY <1>2, <1>5 DEF GrantsInv

LEMMA GrantsStutter == GrantsInv /\ UNCHANGED grantVars => GrantsInv'
BY DEF GrantsInv, GrantsTypeOK, NoncesAreKept, OnceBeforeExpiry, Consumed, Lifetime, grantVars

LEMMA GrantsNextInv == GrantsInv /\ [GrantsNext]_grantVars => GrantsInv'
<1> SUFFICES ASSUME GrantsInv, [GrantsNext]_grantVars PROVE GrantsInv'
  OBVIOUS
<1>1. CASE Tick
  BY <1>1, TickInv
<1>2. CASE Restart
  BY <1>2, RestartInv
<1>3. CASE \E q \in Request : Verify(q) \/ Consume(q) \/ Record(q)
  BY <1>3, VerifyInv, ConsumeInv, RecordInv
<1>4. CASE UNCHANGED grantVars
  BY <1>4, GrantsStutter
<1> QED BY <1>1, <1>2, <1>3, <1>4 DEF GrantsNext

LEMMA GrantsHold == GrantsSpec => []GrantsInv
BY GrantsInitInv, GrantsNextInv, PTL DEF GrantsSpec

(* Type correctness: and only nonces of grants whose lifetime is allowed   *)
(* are stored (verify_grant comes before consume_nonce).                   *)
THEOREM GrantsTypeCorrect == GrantsSpec => []GrantsTypeOK
<1>1. GrantsInv => GrantsTypeOK
  BY DEF GrantsInv
<1> QED BY <1>1, GrantsHold, PTL

(* The table keeps a nonce until its grant expires (consume_nonce).        *)
THEOREM NoncesKept == GrantsSpec => []NoncesAreKept
<1>1. GrantsInv => NoncesAreKept
  BY DEF GrantsInv
<1> QED BY <1>1, GrantsHold, PTL

(* One grant is consumed at most once before it expires (_authorize,       *)
(* _transfer_claims).                                                      *)
THEOREM GrantConsumedOnce == GrantsSpec => []OnceBeforeExpiry
<1>1. GrantsInv => OnceBeforeExpiry
  BY DEF GrantsInv
<1> QED BY <1>1, GrantsHold, PTL

-----------------------------------------------------------------------------
\* Transfers that have written their staging object.
Staged == {"commit", "copy", "put", "again", "drop"}

Upheld ==
    /\ \A t \in Transfer : at[t] \in Uploading => Id(t) \notin released
    /\ \A a \in Artifact : doomed[a] # Nothing => a \in released

Files ==
    /\ \A k \in Ticket : staging[k] # Nothing => staging[k] \in Accepted(k)
    /\ \A t \in Transfer : at[t] # "new" => sent[t] \in ticket[t].sends
    /\ \A t \in Transfer : at[t] \in Staged => sent[t] \in Accepted(ticket[t])
    /\ \A t \in Transfer : answer[t] # Nothing => at[t] # "new"

Contents ==
    /\ \A a \in Artifact, c \in Bytes : content[a][c] \in {c, Nothing}
    /\ \A a \in Artifact : manifest[a] # Nothing /\ a \notin released =>
          content[a][manifest[a].sha] = manifest[a].sha
    /\ \A t \in Transfer : at[t] = "drop" =>
          manifest[Id(t)] # Nothing /\ manifest[Id(t)].sha # sent[t]
    /\ \A t \in Transfer : at[t] = "put" /\ manifest[Id(t)] = Nothing =>
          content[Id(t)][sent[t]] = sent[t]

Inv == TypeOK /\ Upheld /\ Files /\ Contents /\ AnswersAgree

LEMMA InitInv == ASSUME ArtifactAssumption, Init PROVE Inv
<1>1. TypeOK
  BY DEF ArtifactAssumption, Init, TypeOK
<1>2. Upheld /\ Files /\ AnswersAgree
  BY DEF Init, Upheld, Files, AnswersAgree, Uploading, Staged
<1>3. Contents
  BY DEF Init, Contents
<1> QED BY <1>1, <1>2, <1>3 DEF Inv

-----------------------------------------------------------------------------
\* What the types say about a transfer that has begun.
LEMMA Begun ==
  ASSUME ArtifactAssumption, TypeOK, NEW t \in Transfer, at[t] # "new"
  PROVE  /\ ticket[t] \in Ticket /\ Id(t) \in Artifact /\ sent[t] \in Bytes
         /\ Own(t) \in Descriptor /\ Own(t) # Nothing
         /\ Own(t).meta = ticket[t].meta /\ Own(t).sha = sent[t]
<1>1. ticket[t] \in Ticket /\ sent[t] \in Bytes
  BY DEF TypeOK
<1>2. ticket[t].artifact \in Artifact /\ ticket[t].meta \in Meta
  BY <1>1 DEF ArtifactAssumption
<1>3. Own(t) \in [meta : Meta, sha : Bytes]
  BY <1>1, <1>2 DEF Own
<1>4. Nothing \notin [meta : Meta, sha : Bytes]
  BY DEF ArtifactAssumption
<1> QED BY <1>1, <1>2, <1>3, <1>4 DEF Own, Id, Descriptor

\* A committed descriptor is a descriptor.
LEMMA Committed ==
  ASSUME TypeOK, NEW a \in Artifact, manifest[a] # Nothing
  PROVE  manifest[a] \in Descriptor /\ manifest[a].sha \in Bytes /\ manifest[a].meta \in Meta
BY DEF TypeOK, Descriptor

(* Steps that touch one transfer t and no object but an open upload: t has *)
(* moved from a place to a later one, and may have been answered with what *)
(* the manifest says.                                                      *)
Moves(t) ==
    /\ UNCHANGED <<manifest, content, staging, ticket, sent, deleteVars>>
    /\ open' \subseteq Transfer /\ faults' \in 0 .. MaxFaults
    /\ at[t] \in Uploading
    /\ \E place \in Uploading \cup {"done"} :
         /\ at' = [at EXCEPT ![t] = place]
         /\ place \in Staged => at[t] \in Staged
         /\ place = "drop" => manifest[Id(t)] # Nothing /\ manifest[Id(t)].sha # sent[t]
         /\ place # "put"
    /\ \/ answer' = answer
       \/ /\ answer' = [answer EXCEPT ![t] = manifest[Id(t)]]
          /\ manifest[Id(t)] # Nothing /\ Matches(manifest[Id(t)], Own(t), sent[t])
          /\ at[t] \in Staged

LEMMA MovesInv ==
  ASSUME ArtifactAssumption, Inv, NEW t \in Transfer, Moves(t)
  PROVE  Inv'
<1> USE DEF Moves
<1> PICK place \in Uploading \cup {"done"} :
         /\ at' = [at EXCEPT ![t] = place]
         /\ place \in Staged => at[t] \in Staged
         /\ place = "drop" => manifest[Id(t)] # Nothing /\ manifest[Id(t)].sha # sent[t]
         /\ place # "put"
  OBVIOUS
<1>1. TypeOK /\ at[t] # "new"
  BY DEF Inv, Uploading
<1>2. /\ ticket[t] \in Ticket /\ Id(t) \in Artifact /\ sent[t] \in Bytes
      /\ Own(t).meta = ticket[t].meta /\ Own(t).sha = sent[t]
  BY <1>1, Begun
<1>3. at'[t] = place /\ \A u \in Transfer : u # t => at'[u] = at[u]
  BY <1>1 DEF TypeOK
<1>4. \A u \in Transfer : Id(u)' = Id(u)
  BY DEF Id
<1>5. answer' \in [Transfer -> Descriptor \cup {Nothing}]
  BY <1>1, <1>2, Committed DEF TypeOK
<1>6. at' \in [Transfer -> Uploading \cup {"new", "done"}]
  BY <1>1 DEF TypeOK
<1>7. TypeOK'
  BY <1>1, <1>3, <1>5, <1>6 DEF TypeOK, deleteVars, Uploading
<1>8. Upheld'
  BY <1>3, <1>4 DEF Inv, Upheld, deleteVars
<1>9. Files'
  <2>1. \A u \in Transfer : at'[u] = "new" => at[u] = "new" /\ answer'[u] = answer[u]
    BY <1>1, <1>3 DEF TypeOK, Uploading
  <2> QED BY <1>1, <1>3, <2>1 DEF Inv, Files, Accepted
<1>10. Contents'
  BY <1>3, <1>4 DEF Inv, Contents, deleteVars
<1>11. AnswersAgree'
  <2>1. SUFFICES ASSUME NEW u \in Transfer, answer'[u] # Nothing
                 PROVE  /\ Id(u) \notin released => manifest[Id(u)] = answer'[u]
                        /\ answer'[u].meta = ticket[u].meta
                        /\ ticket[u].expected \in {Nothing, answer'[u].sha}
    BY <1>4 DEF AnswersAgree, deleteVars
  <2>2. CASE answer'[u] = answer[u]
    BY <2>1, <2>2 DEF Inv, AnswersAgree
  <2>3. CASE answer'[u] # answer[u]
    <3>1. u = t /\ answer'[u] = manifest[Id(t)] /\ Matches(manifest[Id(t)], Own(t), sent[t])
          /\ at[t] \in Staged
      BY <1>1, <2>3 DEF TypeOK
    <3>2. manifest[Id(t)].meta = ticket[t].meta /\ manifest[Id(t)].sha = sent[t]
      BY <1>2, <3>1 DEF Matches, ArtifactAssumption
    <3>3. sent[t] \in Accepted(ticket[t])
      BY <3>1 DEF Inv, Files
    <3> QED BY <3>1, <3>2, <3>3 DEF Accepted
  <2> QED BY <2>2, <2>3
<1> QED BY <1>7, <1>8, <1>9, <1>10, <1>11 DEF Inv

\* Failing is counted, and within the bound.
LEMMA Counted ==
  ASSUME ArtifactAssumption, TypeOK, Works \/ Fails
  PROVE  faults' \in 0 .. MaxFaults
BY DEF ArtifactAssumption, TypeOK, Works, Fails

LEMMA InspectMoves ==
  ASSUME ArtifactAssumption, Inv, NEW t \in Transfer,
         NEW absent \in Uploading \ {"put", "drop"}, NEW differs \in Uploading \ {"put"},
         at[t] \in Staged, UNCHANGED <<objectVars, deleteVars>>,
         (InspectAgain(t, absent, differs) /\ Works) \/ (Go(t, "cleanup") /\ Fails)
  PROVE  Moves(t)
<1>1. TypeOK /\ faults' \in 0 .. MaxFaults /\ open' \subseteq Transfer
  BY Counted DEF Inv, TypeOK, objectVars
<1>2. at[t] \in Uploading
  BY DEF Staged, Uploading
<1>3. CASE Go(t, "cleanup")
  BY <1>1, <1>2, <1>3 DEF Moves, Go, Uploading, Staged, objectVars
<1>4. CASE InspectAgain(t, absent, differs)
  <2>1. CASE Go(t, absent)
    BY <1>1, <1>2, <2>1 DEF Moves, Go, objectVars
  <2>2. CASE manifest[Id(t)] # Nothing /\ Matches(manifest[Id(t)], Own(t), sent[t])
             /\ Reply(t, "cleanup", manifest[Id(t)])
    BY <1>1, <1>2, <2>2 DEF Moves, Reply, objectVars, Uploading, Staged
  <2>3. CASE manifest[Id(t)] # Nothing /\ manifest[Id(t)].sha # sent[t] /\ Go(t, differs)
    BY <1>1, <1>2, <2>3 DEF Moves, Go, objectVars
  <2> QED BY <1>3, <1>4, <2>1, <2>2, <2>3 DEF InspectAgain
<1> QED BY <1>3, <1>4

\* The steps of an upload that write no object.
LEMMA QuietSteps ==
  ASSUME ArtifactAssumption, Inv, NEW t \in Transfer,
         CreateMultipart(t) \/ RefuseBody(t) \/ Commit(t) \/ ComparePut(t)
  PROVE  Moves(t)
<1>1. TypeOK
  BY DEF Inv
<1>2. CASE CreateMultipart(t)
  <2>1. open' \subseteq Transfer /\ faults' \in 0 .. MaxFaults
    BY <1>1, <1>2, Counted DEF CreateMultipart, TypeOK
  <2> QED BY <1>2, <2>1 DEF CreateMultipart, Moves, Go, Uploading, Staged
<1>3. CASE RefuseBody(t)
  <2>1. open' \subseteq Transfer /\ faults' \in 0 .. MaxFaults
    BY <1>1, <1>3, Counted DEF RefuseBody, TypeOK
  <2> QED BY <1>3, <2>1 DEF RefuseBody, Moves, Go, Uploading, Staged
<1>4. CASE Commit(t)
  BY <1>4, InspectMoves DEF Commit, Uploading, Staged
<1>5. CASE ComparePut(t)
  BY <1>5, InspectMoves DEF ComparePut, Uploading, Staged
<1> QED BY <1>2, <1>3, <1>4, <1>5

-----------------------------------------------------------------------------
LEMMA BeginInv ==
  ASSUME ArtifactAssumption, Inv, NEW t \in Transfer, Begin(t)
  PROVE  Inv'
<1> DEFINE old(k) == manifest[k.artifact]
<1>1. PICK k \in Ticket : \E c \in k.sends :
          /\ k.artifact \notin released
          /\ ticket' = [ticket EXCEPT ![t] = k] /\ sent' = [sent EXCEPT ![t] = c]
          /\ at' = [at EXCEPT ![t] = IF old(k) = Nothing THEN "create" ELSE "done"]
          /\ answer' = [answer EXCEPT ![t] =
                IF old(k) # Nothing /\ Matches(old(k), k, k.expected) THEN old(k) ELSE Nothing]
  BY DEF Begin
<1>2. PICK c \in k.sends :
          /\ k.artifact \notin released
          /\ ticket' = [ticket EXCEPT ![t] = k] /\ sent' = [sent EXCEPT ![t] = c]
          /\ at' = [at EXCEPT ![t] = IF old(k) = Nothing THEN "create" ELSE "done"]
          /\ answer' = [answer EXCEPT ![t] =
                IF old(k) # Nothing /\ Matches(old(k), k, k.expected) THEN old(k) ELSE Nothing]
  BY <1>1
<1>3. /\ TypeOK /\ at[t] = "new" /\ c \in Bytes /\ k.artifact \in Artifact
      /\ UNCHANGED <<objectVars, deleteVars, faults>>
  BY DEF Begin, Inv, ArtifactAssumption
<1>4. old(k) \in Descriptor \cup {Nothing}
  BY <1>3 DEF TypeOK
<1> HIDE DEF old
<1>5. /\ at'[t] \in {"create", "done"} /\ ticket'[t] = k /\ sent'[t] = c
      /\ answer'[t] = IF old(k) # Nothing /\ Matches(old(k), k, k.expected) THEN old(k) ELSE Nothing
      /\ \A u \in Transfer : u # t =>
            at'[u] = at[u] /\ ticket'[u] = ticket[u] /\ sent'[u] = sent[u] /\ answer'[u] = answer[u]
  BY <1>2, <1>3 DEF TypeOK
<1>6. Id(t)' = k.artifact /\ \A u \in Transfer : u # t => Id(u)' = Id(u)
  BY <1>5 DEF Id
<1>7. /\ ticket' \in [Transfer -> Ticket \cup {Nothing}]
      /\ sent' \in [Transfer -> Bytes \cup {Nothing}]
      /\ answer' \in [Transfer -> Descriptor \cup {Nothing}]
      /\ at' \in [Transfer -> Uploading \cup {"new", "done"}]
  BY <1>2, <1>3, <1>4 DEF TypeOK, Uploading
<1>8. TypeOK'
  BY <1>3, <1>5, <1>7 DEF TypeOK, objectVars, deleteVars
<1>9. Upheld'
  BY <1>2, <1>3, <1>5, <1>6 DEF Inv, Upheld, deleteVars
<1>10. Files'
  BY <1>3, <1>5 DEF Inv, Files, Accepted, Staged, objectVars
<1>11. Contents'
  BY <1>3, <1>5, <1>6 DEF Inv, Contents, objectVars, deleteVars
<1>12. AnswersAgree'
  <2>1. SUFFICES ASSUME NEW u \in Transfer, answer'[u] # Nothing
                 PROVE  /\ Id(u)' \notin released => manifest[Id(u)'] = answer'[u]
                        /\ answer'[u].meta = ticket'[u].meta
                        /\ ticket'[u].expected \in {Nothing, answer'[u].sha}
    BY <1>3 DEF AnswersAgree, objectVars, deleteVars
  <2>2. CASE u # t
    BY <1>5, <1>6, <2>1, <2>2 DEF Inv, AnswersAgree
  <2>3. CASE u = t
    BY <1>5, <1>6, <2>1, <2>3 DEF Matches, old
  <2> QED BY <2>2, <2>3
<1> QED BY <1>8, <1>9, <1>10, <1>11, <1>12 DEF Inv

LEMMA CompleteInv ==
  ASSUME ArtifactAssumption, Inv, NEW t \in Transfer, CompleteMultipart(t)
  PROVE  Inv'
<1>1. /\ TypeOK /\ at[t] = "send" /\ ticket[t].expected \in {Nothing, sent[t]}
      /\ staging' = [staging EXCEPT ![ticket[t]] = sent[t]] /\ open' = open \ {t}
      /\ UNCHANGED <<manifest, content, deleteVars, ticket, sent, answer>>
      /\ at' = [at EXCEPT ![t] = "commit"] \/ at' = [at EXCEPT ![t] = "done"]
  BY DEF CompleteMultipart, Go, Inv
<1>2. faults' \in 0 .. MaxFaults
  BY <1>1, Counted DEF CompleteMultipart
<1>3. ticket[t] \in Ticket /\ sent[t] \in Bytes
  BY <1>1, Begun
<1>4. at'[t] \in {"commit", "done"} /\ \A u \in Transfer : u # t => at'[u] = at[u]
  BY <1>1 DEF TypeOK
<1>5. \A u \in Transfer : Id(u)' = Id(u)
  BY <1>1 DEF Id
<1>6. sent[t] \in Accepted(ticket[t])
  BY <1>1 DEF Inv, Files, Accepted
<1>7. TypeOK'
  <2>1. staging' \in [Ticket -> Bytes \cup {Nothing}] /\ open' \subseteq Transfer
    BY <1>1, <1>3 DEF TypeOK
  <2>2. at' \in [Transfer -> Uploading \cup {"new", "done"}]
    BY <1>1 DEF TypeOK, Uploading
  <2> QED BY <1>1, <1>2, <1>4, <2>1, <2>2 DEF TypeOK, deleteVars
<1>8. Upheld'
  BY <1>1, <1>4, <1>5 DEF Inv, Upheld, deleteVars, Uploading
<1>9. Files'
  <2>1. \A k \in Ticket : staging'[k] = staging[k] \/ (k = ticket[t] /\ staging'[k] = sent[t])
    BY <1>1, <1>3 DEF TypeOK
  <2> QED BY <1>1, <1>4, <1>6, <2>1 DEF Inv, Files, Accepted, Staged
<1>10. Contents'
  BY <1>1, <1>4, <1>5 DEF Inv, Contents, deleteVars
<1>11. AnswersAgree'
  BY <1>1, <1>5 DEF Inv, AnswersAgree, deleteVars
<1> QED BY <1>7, <1>8, <1>9, <1>10, <1>11 DEF Inv

LEMMA CopyInv ==
  ASSUME ArtifactAssumption, OneFilePerTicket, Inv, NEW t \in Transfer, Copy(t)
  PROVE  /\ Inv'
         /\ \A a \in Artifact : manifest[a] # Nothing =>
               content'[a][manifest[a].sha] = content[a][manifest[a].sha]
<1>1. /\ TypeOK /\ at[t] = "copy"
      /\ UNCHANGED <<manifest, staging, open, deleteVars, ticket, sent, answer>>
      /\ \/ at' = [at EXCEPT ![t] = "put"] \/ at' = [at EXCEPT ![t] = "cleanup"]
  BY DEF Copy, Go, Inv
<1>2. faults' \in 0 .. MaxFaults
  BY <1>1, Counted DEF Copy
<1>3. ticket[t] \in Ticket /\ sent[t] \in Bytes /\ Id(t) \in Artifact /\ sent[t] # Nothing
  BY <1>1, Begun DEF ArtifactAssumption
<1>4. at'[t] \in {"put", "cleanup"} /\ \A u \in Transfer : u # t => at'[u] = at[u]
  BY <1>1 DEF TypeOK
<1>5. \A u \in Transfer : Id(u)' = Id(u)
  BY <1>1 DEF Id
<1>6. Id(t) \notin released
  BY <1>1 DEF Inv, Upheld, Uploading
<1>7. staging[ticket[t]] # Nothing => staging[ticket[t]] = sent[t]
  BY <1>1, <1>3 DEF Inv, Files, Staged, OneFilePerTicket
<1>8. \/ content' = content /\ at'[t] = "cleanup"
      \/ content' = [content EXCEPT ![Id(t)][sent[t]] = sent[t]]
  BY <1>1, <1>4, <1>7 DEF Copy, Go, TypeOK
<1>9. \A a \in Artifact, c \in Bytes :
         \/ content'[a][c] = content[a][c]
         \/ a = Id(t) /\ c = sent[t] /\ content'[a][c] = sent[t]
  BY <1>1, <1>3, <1>8 DEF TypeOK
<1>10. at'[t] = "put" => content'[Id(t)][sent[t]] = sent[t]
  BY <1>1, <1>3, <1>8, <1>4 DEF TypeOK
<1>11. \A a \in Artifact : manifest[a] # Nothing =>
          content'[a][manifest[a].sha] = content[a][manifest[a].sha]
  <2>1. SUFFICES ASSUME NEW a \in Artifact, manifest[a] # Nothing
                 PROVE  content'[a][manifest[a].sha] = content[a][manifest[a].sha]
    OBVIOUS
  <2>2. manifest[a].sha \in Bytes
    BY <1>1, <2>1, Committed
  <2> QED BY <1>6, <1>9, <2>1, <2>2 DEF Inv, Contents
<1>12. TypeOK'
  <2>1. content' \in [Artifact -> [Bytes -> Bytes \cup {Nothing}]]
    BY <1>1, <1>3, <1>8 DEF TypeOK
  <2>2. at' \in [Transfer -> Uploading \cup {"new", "done"}]
    BY <1>1 DEF TypeOK, Uploading
  <2> QED BY <1>1, <1>2, <1>4, <2>1, <2>2 DEF TypeOK, deleteVars
<1>13. Upheld'
  BY <1>1, <1>4, <1>5 DEF Inv, Upheld, deleteVars, Uploading
<1>14. Files'
  BY <1>1, <1>4 DEF Inv, Files, Accepted, Staged
<1>15. Contents'
  <2>1. \A a \in Artifact, c \in Bytes : content'[a][c] \in {c, Nothing}
    BY <1>9 DEF Inv, Contents
  <2>2. \A a \in Artifact : manifest[a] # Nothing /\ a \notin released =>
          content'[a][manifest[a].sha] = manifest[a].sha
    BY <1>11 DEF Inv, Contents
  <2>3. \A u \in Transfer : at'[u] = "drop" => at[u] = "drop"
    BY <1>4
  <2>4. ASSUME NEW u \in Transfer, at'[u] = "put", manifest[Id(u)] = Nothing
        PROVE  content'[Id(u)][sent[u]] = sent[u]
    <3>1. CASE u = t
      BY <1>10, <2>4, <3>1
    <3>2. CASE u # t
      <4>1. at[u] = "put" /\ content[Id(u)][sent[u]] = sent[u]
        BY <1>4, <2>4, <3>2 DEF Inv, Contents
      <4>2. Id(u) \in Artifact /\ sent[u] \in Bytes
        BY <1>1, <4>1, Begun
      <4>3. \/ content'[Id(u)][sent[u]] = content[Id(u)][sent[u]]
            \/ sent[u] = sent[t] /\ content'[Id(u)][sent[u]] = sent[t]
        BY <1>9, <4>2
      <4> QED BY <4>1, <4>3
    <3> QED BY <3>1, <3>2
  <2> QED BY <1>1, <1>5, <2>1, <2>2, <2>3, <2>4 DEF Inv, Contents, deleteVars
<1>16. AnswersAgree'
  BY <1>1, <1>5 DEF Inv, AnswersAgree, deleteVars
<1> QED BY <1>11, <1>12, <1>13, <1>14, <1>15, <1>16 DEF Inv

\* A manifest is written where there is none, for content that is there.
LEMMA PutInv ==
  ASSUME ArtifactAssumption, Inv, NEW t \in Transfer, PutManifest(t)
  PROVE  /\ Inv'
         /\ content' = content
         /\ \/ manifest' = manifest
            \/ /\ manifest[Id(t)] = Nothing /\ Id(t) \in Artifact \ released
               /\ manifest' = [manifest EXCEPT ![Id(t)] = Own(t)]
               /\ content[Id(t)][Own(t).sha] = Own(t).sha
<1>1. /\ TypeOK /\ at[t] = "put"
      /\ UNCHANGED <<content, staging, open, deleteVars, ticket, sent>>
  BY DEF PutManifest, Go, Reply, Inv
<1>2. faults' \in 0 .. MaxFaults
  BY <1>1, Counted DEF PutManifest
<1>3. /\ ticket[t] \in Ticket /\ sent[t] \in Bytes /\ Id(t) \in Artifact
      /\ Own(t) \in Descriptor /\ Own(t) # Nothing
      /\ Own(t).meta = ticket[t].meta /\ Own(t).sha = sent[t]
  BY <1>1, Begun
<1>4. Id(t) \notin released
  BY <1>1 DEF Inv, Upheld, Uploading
<1>5. /\ at' = [at EXCEPT ![t] = "again"] \/ at' = [at EXCEPT ![t] = "cleanup"]
      /\ \/ manifest' = manifest /\ answer' = answer
         \/ /\ manifest[Id(t)] = Nothing
            /\ manifest' = [manifest EXCEPT ![Id(t)] = Own(t)]
            /\ answer' = answer \/ answer' = [answer EXCEPT ![t] = Own(t)]
  BY DEF PutManifest, Go, Reply
<1>6. at'[t] \in {"again", "cleanup"} /\ \A u \in Transfer : u # t => at'[u] = at[u]
  BY <1>1, <1>5 DEF TypeOK
<1>7. \A u \in Transfer : Id(u)' = Id(u)
  BY <1>1 DEF Id
<1>8. \A a \in Artifact : manifest'[a] = manifest[a]
                          \/ (a = Id(t) /\ manifest[a] = Nothing /\ manifest'[a] = Own(t))
  BY <1>1, <1>3, <1>5 DEF TypeOK
<1>9. manifest[Id(t)] = Nothing => content[Id(t)][sent[t]] = sent[t]
  BY <1>1 DEF Inv, Contents
<1>10. TypeOK'
  <2>1. manifest' \in [Artifact -> Descriptor \cup {Nothing}]
    <3>1. CASE manifest' = manifest
      BY <1>1, <3>1 DEF TypeOK
    <3>2. CASE manifest' = [manifest EXCEPT ![Id(t)] = Own(t)]
      BY <1>1, <1>3, <3>2 DEF TypeOK
    <3> QED BY <1>5, <3>1, <3>2
  <2>3. answer' \in [Transfer -> Descriptor \cup {Nothing}]
    <3>1. CASE answer' = answer
      BY <1>1, <3>1 DEF TypeOK
    <3>2. CASE answer' = [answer EXCEPT ![t] = Own(t)]
      BY <1>1, <1>3, <3>2 DEF TypeOK
    <3> QED BY <1>5, <3>1, <3>2
  <2>2. at' \in [Transfer -> Uploading \cup {"new", "done"}]
    BY <1>1, <1>5 DEF TypeOK, Uploading
  <2> QED BY <1>1, <1>2, <1>6, <2>1, <2>2, <2>3 DEF TypeOK, deleteVars
<1>11. Upheld'
  BY <1>1, <1>6, <1>7 DEF Inv, Upheld, deleteVars, Uploading
<1>12. Files'
  <2>1. \A u \in Transfer : u # t => answer'[u] = answer[u]
    BY <1>1, <1>5 DEF TypeOK
  <2> QED BY <1>1, <1>6, <2>1 DEF Inv, Files, Accepted, Staged
<1>13. Contents'
  <2>1. \A a \in Artifact : manifest'[a] # Nothing /\ a \notin released =>
          content[a][manifest'[a].sha] = manifest'[a].sha
    BY <1>3, <1>8, <1>9 DEF Inv, Contents
  <2>2. ASSUME NEW u \in Transfer, at'[u] = "drop"
        PROVE  manifest'[Id(u)] # Nothing /\ manifest'[Id(u)].sha # sent[u]
    <3>1. at[u] = "drop" /\ manifest[Id(u)] # Nothing /\ manifest[Id(u)].sha # sent[u]
      BY <1>6, <2>2 DEF Inv, Contents
    <3>2. Id(u) \in Artifact
      BY <1>1, <3>1, Begun
    <3> QED BY <1>8, <3>1, <3>2
  <2>3. ASSUME NEW u \in Transfer, at'[u] = "put", manifest'[Id(u)] = Nothing
        PROVE  content[Id(u)][sent[u]] = sent[u]
    <3>1. at[u] = "put" /\ Id(u) \in Artifact
      BY <1>1, <1>6, <2>3, Begun
    <3> QED BY <1>3, <1>8, <2>3, <3>1 DEF Inv, Contents
  <2> QED BY <1>1, <1>7, <2>1, <2>2, <2>3 DEF Inv, Contents, deleteVars
<1>14. AnswersAgree'
  <2>1. SUFFICES ASSUME NEW u \in Transfer, answer'[u] # Nothing
                 PROVE  /\ Id(u) \notin released => manifest'[Id(u)] = answer'[u]
                        /\ answer'[u].meta = ticket[u].meta
                        /\ ticket[u].expected \in {Nothing, answer'[u].sha}
    BY <1>1, <1>7 DEF AnswersAgree, deleteVars
  <2>2. CASE answer'[u] = answer[u]
    <3>1. /\ Id(u) \notin released => manifest[Id(u)] = answer[u]
          /\ answer[u].meta = ticket[u].meta /\ ticket[u].expected \in {Nothing, answer[u].sha}
      BY <2>1, <2>2 DEF Inv, AnswersAgree
    <3>2. manifest[Id(t)] = Nothing => Id(u) # Id(t) \/ Id(u) \in released
      BY <1>4, <2>1, <2>2, <3>1
    <3>3. manifest' = manifest \/ manifest[Id(t)] = Nothing
      BY <1>5
    <3>4. Id(u) # Id(t) => manifest'[Id(u)] = manifest[Id(u)]
      <4>1. at[u] # "new"
        BY <2>1, <2>2 DEF Inv, Files
      <4>2. Id(u) \in Artifact
        BY <1>1, <4>1, Begun
      <4> QED BY <1>8, <4>2
    <3> QED BY <1>4, <2>2, <3>1, <3>2, <3>3, <3>4
  <2>3. CASE answer'[u] # answer[u]
    <3>1. u = t /\ answer'[u] = Own(t) /\ manifest' = [manifest EXCEPT ![Id(t)] = Own(t)]
      BY <1>1, <1>5, <2>3 DEF TypeOK
    <3>2. sent[t] \in Accepted(ticket[t])
      BY <1>1 DEF Inv, Files, Staged
    <3> QED BY <1>1, <1>3, <3>1, <3>2 DEF Accepted, TypeOK
  <2> QED BY <2>2, <2>3
<1> QED BY <1>1, <1>3, <1>4, <1>5, <1>9, <1>10, <1>11, <1>12, <1>13, <1>14 DEF Inv

-----------------------------------------------------------------------------
\* A transfer that has seen another digest in the manifest removes content the
\* manifest does not name.
LEMMA DropInv ==
  ASSUME ArtifactAssumption, Inv, NEW t \in Transfer, DropContent(t)
  PROVE  /\ Inv' /\ manifest' = manifest
         /\ \A a \in Artifact : manifest[a] # Nothing =>
               content'[a][manifest[a].sha] = content[a][manifest[a].sha]
<1>1. /\ TypeOK /\ at[t] = "drop" /\ at' = [at EXCEPT ![t] = "cleanup"]
      /\ UNCHANGED <<manifest, staging, open, deleteVars, ticket, sent, answer>>
      /\ \/ content' = content
         \/ content' = [content EXCEPT ![Id(t)][sent[t]] = Nothing]
  BY DEF DropContent, Go, Inv
<1>2. faults' \in 0 .. MaxFaults
  BY <1>1, Counted DEF DropContent, MayFail
<1>3. ticket[t] \in Ticket /\ sent[t] \in Bytes /\ Id(t) \in Artifact
  BY <1>1, Begun
<1>4. at'[t] = "cleanup" /\ \A u \in Transfer : u # t => at'[u] = at[u]
  BY <1>1 DEF TypeOK
<1>5. \A u \in Transfer : Id(u)' = Id(u)
  BY <1>1 DEF Id
<1>6. manifest[Id(t)] # Nothing /\ manifest[Id(t)].sha # sent[t]
  BY <1>1 DEF Inv, Contents
<1>7. \A a \in Artifact, c \in Bytes :
         \/ content'[a][c] = content[a][c]
         \/ a = Id(t) /\ c = sent[t] /\ content'[a][c] = Nothing
  BY <1>1, <1>3 DEF TypeOK
<1>8. \A a \in Artifact : manifest[a] # Nothing =>
         content'[a][manifest[a].sha] = content[a][manifest[a].sha]
  BY <1>1, <1>6, <1>7, Committed
<1>9. TypeOK'
  <2>1. content' \in [Artifact -> [Bytes -> Bytes \cup {Nothing}]]
    BY <1>1, <1>3 DEF TypeOK
  <2>2. at' \in [Transfer -> Uploading \cup {"new", "done"}]
    BY <1>1 DEF TypeOK, Uploading
  <2> QED BY <1>1, <1>2, <1>4, <2>1, <2>2 DEF TypeOK, deleteVars
<1>10. Upheld' /\ Files'
  BY <1>1, <1>4, <1>5 DEF Inv, Upheld, Files, Accepted, Staged, deleteVars, Uploading
<1>11. Contents'
  <2>1. \A a \in Artifact, c \in Bytes : content'[a][c] \in {c, Nothing}
    BY <1>7 DEF Inv, Contents
  <2>2. \A a \in Artifact : manifest[a] # Nothing /\ a \notin released =>
          content'[a][manifest[a].sha] = manifest[a].sha
    BY <1>8 DEF Inv, Contents
  <2>3. ASSUME NEW u \in Transfer, at'[u] = "put", manifest[Id(u)] = Nothing
        PROVE  content'[Id(u)][sent[u]] = sent[u]
    <3>1. at[u] = "put" /\ content[Id(u)][sent[u]] = sent[u]
      BY <1>4, <2>3 DEF Inv, Contents
    <3>2. Id(u) \in Artifact /\ sent[u] \in Bytes
      BY <1>1, <3>1, Begun
    <3> QED BY <1>6, <1>7, <2>3, <3>1, <3>2
  <2> QED BY <1>1, <1>4, <1>5, <2>1, <2>2, <2>3 DEF Inv, Contents, deleteVars
<1>12. AnswersAgree'
  BY <1>1, <1>5 DEF Inv, AnswersAgree, deleteVars
<1> QED BY <1>1, <1>8, <1>9, <1>10, <1>11, <1>12 DEF Inv

\* The steps that change neither a manifest, nor content, nor what is released.
LEMMA OtherInv ==
  ASSUME ArtifactAssumption, Inv,
         Crash \/ (\E t \in Transfer : CleanUp(t)) \/ (\E a \in Artifact : StartDelete(a))
  PROVE  Inv' /\ UNCHANGED <<manifest, content, released>>
<1>1. TypeOK
  BY DEF Inv
<1>2. UNCHANGED <<manifest, content, open, ticket, sent, answer, released>>
  BY DEF Crash, CleanUp, StartDelete, Go, objectVars, transferVars, deleteVars
<1>3. faults' \in 0 .. MaxFaults
  BY <1>1, Counted DEF Crash, CleanUp, StartDelete, MayFail, Works, TypeOK
<1>4. /\ at' \in [Transfer -> Uploading \cup {"new", "done"}]
      /\ \A t \in Transfer : at'[t] = at[t] \/ (at[t] # "new" /\ at'[t] = "done")
  <2>1. CASE Crash
    BY <1>1, <2>1 DEF Crash, TypeOK, Uploading
  <2>2. CASE \E t \in Transfer : CleanUp(t)
    BY <1>1, <2>2 DEF CleanUp, Go, TypeOK
  <2>3. CASE \E a \in Artifact : StartDelete(a)
    BY <1>1, <2>3 DEF StartDelete, transferVars, TypeOK
  <2> QED BY <2>1, <2>2, <2>3
<1>5. /\ staging' \in [Ticket -> Bytes \cup {Nothing}]
      /\ \A k \in Ticket : staging'[k] \in {staging[k], Nothing}
  <2>1. CASE staging' = staging
    BY <1>1, <2>1 DEF TypeOK
  <2>2. CASE \E t \in Transfer : at[t] = "cleanup" /\ staging' = [staging EXCEPT ![ticket[t]] = Nothing]
    BY <1>1, <2>2 DEF TypeOK
  <2> QED BY <2>1, <2>2 DEF Crash, CleanUp, StartDelete, objectVars
<1>6. /\ doomed' \in [Artifact -> Bytes \cup {Nothing}]
      /\ \A a \in Artifact : doomed'[a] # Nothing => a \in released
  <2>1. CASE doomed' = doomed
    BY <1>1, <2>1 DEF TypeOK, Inv, Upheld
  <2>2. CASE doomed' = [a \in Artifact |-> Nothing]
    BY <2>2
  <2>3. CASE \E a \in Artifact : /\ a \in released /\ manifest[a] # Nothing
                                 /\ doomed' = [doomed EXCEPT ![a] = manifest[a].sha]
    BY <1>1, <2>3, Committed DEF TypeOK, Inv, Upheld
  <2> QED BY <2>1, <2>2, <2>3 DEF Crash, CleanUp, StartDelete, deleteVars
<1>7. TypeOK'
  BY <1>1, <1>2, <1>3, <1>4, <1>5, <1>6 DEF TypeOK
<1>8. \A t \in Transfer : Id(t)' = Id(t)
  BY <1>2 DEF Id
<1>9. Upheld'
  BY <1>2, <1>4, <1>6, <1>8 DEF Inv, Upheld, Uploading
<1>10. Files'
  BY <1>2, <1>4, <1>5 DEF Inv, Files, Accepted, Staged
<1>11. Contents'
  BY <1>2, <1>4, <1>8 DEF Inv, Contents
<1>12. AnswersAgree'
  BY <1>2, <1>8 DEF Inv, AnswersAgree
<1> QED BY <1>2, <1>7, <1>9, <1>10, <1>11, <1>12 DEF Inv

LEMMA ReleaseInv ==
  ASSUME ArtifactAssumption, Inv, NEW a \in Artifact, Release(a)
  PROVE  Inv' /\ UNCHANGED <<manifest, content>> /\ released' = released \cup {a}
<1>1. /\ Quiet(a) /\ released' = released \cup {a}
      /\ UNCHANGED <<objectVars, transferVars, doomed, faults>>
  BY DEF Release
<1>2. \A t \in Transfer : Id(t)' = Id(t)
  BY <1>1 DEF Id, transferVars
<1>3. TypeOK'
  BY <1>1 DEF Inv, TypeOK, objectVars, transferVars
<1>4. Upheld'
  BY <1>1, <1>2 DEF Inv, Upheld, Quiet, transferVars
<1>5. Files'
  BY <1>1 DEF Inv, Files, Accepted, Staged, objectVars, transferVars
<1>6. Contents'
  BY <1>1, <1>2 DEF Inv, Contents, objectVars, transferVars
<1>7. AnswersAgree'
  BY <1>1, <1>2 DEF Inv, AnswersAgree, objectVars, transferVars
<1> QED BY <1>1, <1>3, <1>4, <1>5, <1>6, <1>7 DEF Inv, objectVars

\* A deletion takes away objects of an artifact that has been released.
LEMMA DeleteInv ==
  ASSUME ArtifactAssumption, Inv, NEW a \in Artifact, DeleteObjects(a)
  PROVE  /\ Inv' /\ a \in released /\ released' = released
         /\ \A o \in Artifact : o # a => manifest'[o] = manifest[o] /\ content'[o] = content[o]
         /\ manifest'[a] \in {manifest[a], Nothing}
         /\ \A c \in Bytes : content'[a][c] \in {content[a][c], Nothing}
<1>1. /\ TypeOK /\ doomed[a] # Nothing /\ doomed' = [doomed EXCEPT ![a] = Nothing]
      /\ UNCHANGED <<staging, open, transferVars, released>>
      /\ manifest' = manifest \/ manifest' = [manifest EXCEPT ![a] = Nothing]
      /\ content' = content \/ content' = [content EXCEPT ![a][doomed[a]] = Nothing]
  BY DEF DeleteObjects, Inv
<1>2. a \in released /\ doomed[a] \in Bytes
  BY <1>1 DEF Inv, Upheld, TypeOK
<1>3. faults' \in 0 .. MaxFaults
  BY <1>1, Counted DEF DeleteObjects, MayFail
<1>4. manifest' \in [Artifact -> Descriptor \cup {Nothing}]
      /\ manifest'[a] \in {manifest[a], Nothing} /\ \A o \in Artifact : o # a => manifest'[o] = manifest[o]
  BY <1>1 DEF TypeOK
<1>5. content' \in [Artifact -> [Bytes -> Bytes \cup {Nothing}]]
      /\ \A c \in Bytes : content'[a][c] \in {content[a][c], Nothing}
      /\ \A o \in Artifact : o # a => content'[o] = content[o]
  <2>1. CASE content' = content
    BY <1>1, <2>1 DEF TypeOK
  <2>2. CASE content' = [content EXCEPT ![a][doomed[a]] = Nothing]
    <3>1. content' \in [Artifact -> [Bytes -> Bytes \cup {Nothing}]]
      BY <1>1, <1>2, <2>2 DEF TypeOK
    <3>2. content'[a] = [content[a] EXCEPT ![doomed[a]] = Nothing]
      BY <1>1, <2>2 DEF TypeOK
    <3>3. \A c \in Bytes : content'[a][c] \in {content[a][c], Nothing}
      BY <1>1, <3>2 DEF TypeOK
    <3>4. \A o \in Artifact : o # a => content'[o] = content[o]
      BY <1>1, <2>2 DEF TypeOK
    <3> QED BY <3>1, <3>3, <3>4
  <2> QED BY <1>1, <2>1, <2>2
<1>6. doomed' \in [Artifact -> Bytes \cup {Nothing}] /\ \A o \in Artifact : doomed'[o] \in {doomed[o], Nothing}
  BY <1>1 DEF TypeOK
<1>7. \A t \in Transfer : Id(t)' = Id(t)
  BY <1>1 DEF Id, transferVars
<1>8. TypeOK'
  BY <1>1, <1>3, <1>4, <1>5, <1>6 DEF TypeOK, transferVars
<1>9. Upheld' /\ Files'
  BY <1>1, <1>6, <1>7 DEF Inv, Upheld, Files, Accepted, Staged, transferVars
<1>10. \A t \in Transfer : at[t] \in Uploading => Id(t) \in Artifact \ {a}
  BY <1>1, <1>2, Begun DEF Inv, Upheld, Uploading
<1>11. Contents'
  <2>1. \A o \in Artifact, c \in Bytes : content'[o][c] \in {c, Nothing}
    BY <1>5 DEF Inv, Contents
  <2> QED BY <1>1, <1>2, <1>4, <1>5, <1>7, <1>10, <2>1 DEF Inv, Contents, Uploading, transferVars
<1>12. AnswersAgree'
  <2>1. \A t \in Transfer : answer[t] # Nothing => Id(t) \in Artifact
    BY <1>1, Begun DEF Inv, Files
  <2> QED BY <1>1, <1>2, <1>4, <1>7, <2>1 DEF Inv, AnswersAgree, transferVars
<1> QED BY <1>1, <1>2, <1>4, <1>5, <1>8, <1>9, <1>11, <1>12 DEF Inv

-----------------------------------------------------------------------------
(* What nothing names is cleaned up.  A deletion removes what it has read, *)
(* because nobody writes the manifest of an artifact that is released; an  *)
(* upload that compares finds a manifest; and while no call has failed,    *)
(* somebody is still there for every object the manifests do not name.     *)

Removals == \A a \in Artifact : doomed[a] # Nothing =>
    manifest[a] # Nothing /\ manifest[a].sha = doomed[a]

Second == \A t \in Transfer : at[t] = "again" => manifest[Id(t)] # Nothing

OpenIsSending == \A t \in open : at[t] = "send"

StagingHasOwner == \A k \in Ticket : staging[k] # Nothing =>
    \E t \in Transfer : at[t] \in Staged \cup {"cleanup"} /\ ticket[t] = k

Named(a, c) == manifest[a] # Nothing /\ manifest[a].sha = c
Held(a, c) == \E t \in Transfer : at[t] \in {"put", "again", "drop"} /\ Id(t) = a /\ sent[t] = c
ContentHasOwner == \A a \in Artifact, c \in Bytes : content[a][c] # Nothing => Named(a, c) \/ Held(a, c)

Tidy == OpenIsSending /\ StagingHasOwner /\ ContentHasOwner
Clean == Removals /\ Second /\ (faults = 0 => Tidy)

LEMMA InitClean == ASSUME ArtifactAssumption, Init PROVE Clean
BY DEF Init, Clean, Removals, Second, Tidy, OpenIsSending, StagingHasOwner, ContentHasOwner

\* Nobody writes the manifest of an artifact that is being deleted, and a deletion
\* takes away no manifest an upload relies on.
LEMMA RemovalsKept ==
  ASSUME ArtifactAssumption, Inv, Removals, [Next]_vars
  PROVE  Removals'
<1> SUFFICES ASSUME NEW a \in Artifact, doomed'[a] # Nothing
             PROVE  manifest'[a] # Nothing /\ manifest'[a].sha = doomed'[a]
  BY DEF Removals
<1>1. CASE doomed'[a] = doomed[a] /\ manifest'[a] = manifest[a]
  BY <1>1 DEF Removals
<1>2. CASE \E o \in Artifact : StartDelete(o)
  BY <1>1, <1>2 DEF StartDelete, Inv, TypeOK, objectVars
<1>3. CASE \E o \in Artifact : DeleteObjects(o)
  <2>1. PICK o \in Artifact : DeleteObjects(o)
    BY <1>3
  <2>2. a # o /\ doomed'[a] = doomed[a]
    BY <2>1 DEF DeleteObjects, Inv, TypeOK
  <2> QED BY <1>1, <2>1, <2>2, DeleteInv
<1>4. CASE \E t \in Transfer : PutManifest(t)
  <2>1. PICK t \in Transfer : PutManifest(t)
    BY <1>4
  <2>2. doomed' = doomed
    BY <2>1 DEF PutManifest, deleteVars
  <2>3. a \in released
    BY <2>2 DEF Inv, Upheld
  <2>4. manifest'[a] = manifest[a]
    BY <2>1, <2>3, PutInv DEF Inv, TypeOK
  <2> QED BY <1>1, <2>2, <2>4
<1>5. CASE Crash
  BY <1>5 DEF Crash
<1>6. CASE UNCHANGED <<manifest, doomed>>
  BY <1>1, <1>6
<1>7. CASE \/ \E t \in Transfer : \/ Begin(t) \/ CreateMultipart(t) \/ RefuseBody(t) \/ CompleteMultipart(t)
                                 \/ Commit(t) \/ Copy(t) \/ ComparePut(t) \/ DropContent(t) \/ CleanUp(t)
           \/ \E o \in Artifact : Release(o)
           \/ UNCHANGED vars
  BY <1>6, <1>7 DEF Begin, CreateMultipart, RefuseBody, CompleteMultipart, Commit, Copy, ComparePut,
                   DropContent, CleanUp, Release, objectVars, deleteVars, vars
<1> QED BY <1>2, <1>3, <1>4, <1>5, <1>7 DEF Next, Upload

LEMMA SecondKept ==
  ASSUME ArtifactAssumption, Inv, Second, [Next]_vars
  PROVE  Second'
<1> SUFFICES ASSUME NEW u \in Transfer, at'[u] = "again"
             PROVE  manifest'[Id(u)'] # Nothing
  BY DEF Second
<1>1. CASE at[u] = "again" /\ Id(u)' = Id(u) /\ manifest'[Id(u)] = manifest[Id(u)]
  BY <1>1 DEF Second
<1>2. CASE \E t \in Transfer : PutManifest(t)
  <2>1. PICK t \in Transfer : PutManifest(t)
    BY <1>2
  <2>2. /\ ticket' = ticket /\ at[t] = "put" /\ Id(t) \in Artifact /\ Own(t) # Nothing
        /\ manifest \in [Artifact -> Descriptor \cup {Nothing}] /\ at \in [Transfer -> Uploading \cup {"new", "done"}]
    BY <2>1, Begun DEF PutManifest, Go, Reply, Inv, TypeOK
  <2>3. Id(u)' = Id(u)
    BY <2>2 DEF Id
  <2>4. CASE u = t
    <3>1. \/ manifest' = [manifest EXCEPT ![Id(t)] = Own(t)]
          \/ manifest' = manifest /\ manifest[Id(t)] # Nothing
          \/ Go(t, "cleanup")
      BY <2>1 DEF PutManifest
    <3>2. ~Go(t, "cleanup")
      BY <2>2, <2>4 DEF Go
    <3> QED BY <2>2, <2>3, <2>4, <3>1, <3>2
  <2>5. CASE u # t
    <3>1. at[u] = "again"
      BY <2>1, <2>2, <2>5 DEF PutManifest, Go, Reply
    <3>2. Id(u) \in Artifact /\ manifest[Id(u)] # Nothing
      BY <3>1, Begun DEF Second, Inv
    <3>3. manifest'[Id(u)] = manifest[Id(u)]
      BY <2>1, <2>2, <3>2, PutInv
    <3> QED BY <2>3, <3>2, <3>3
  <2> QED BY <2>4, <2>5
<1>3. CASE \E a \in Artifact : DeleteObjects(a)
  <2>1. PICK a \in Artifact : DeleteObjects(a)
    BY <1>3
  <2>2. UNCHANGED <<at, ticket>>
    BY <2>1 DEF DeleteObjects, transferVars
  <2>3. Id(u) \in Artifact /\ Id(u) \notin released
    BY <2>2, Begun DEF Inv, Upheld, Uploading
  <2>4. a \in released /\ \A o \in Artifact : o # a => manifest'[o] = manifest[o]
    BY <2>1, DeleteInv
  <2> QED BY <1>1, <2>2, <2>3, <2>4 DEF Id
<1>4. CASE /\ manifest' = manifest
           /\ at[u] = "again" /\ ticket'[u] = ticket[u]
  BY <1>1, <1>4 DEF Id
<1>5. CASE \E t \in Transfer : \/ Begin(t) \/ CreateMultipart(t) \/ RefuseBody(t) \/ CompleteMultipart(t)
                              \/ Copy(t) \/ DropContent(t) \/ CleanUp(t)
  BY <1>4, <1>5 DEF Begin, CreateMultipart, RefuseBody, CompleteMultipart, Copy,
                   DropContent, CleanUp, Go, objectVars, Inv, TypeOK
<1>6. CASE \E t \in Transfer : Commit(t) \/ ComparePut(t)
  BY <1>4, <1>6 DEF Commit, ComparePut, InspectAgain, Go, Reply, objectVars, Inv, TypeOK
<1>7. CASE Crash \/ (\E a \in Artifact : StartDelete(a) \/ Release(a)) \/ UNCHANGED vars
  BY <1>4, <1>7 DEF Crash, StartDelete, Release, objectVars, transferVars, vars, Uploading, Inv, TypeOK
<1> QED BY <1>2, <1>3, <1>5, <1>6, <1>7 DEF Next, Upload

\* What a step that works does to the open uploads.
LEMMA OpenKept ==
  ASSUME ArtifactAssumption, Inv, OpenIsSending, faults' = faults, [Next]_vars
  PROVE  OpenIsSending'
<1>1. faults \in Nat /\ ~Fails /\ at \in [Transfer -> Uploading \cup {"new", "done"}]
  BY DEF Inv, TypeOK, ArtifactAssumption, Fails
<1> SUFFICES ASSUME NEW u \in open' PROVE at'[u] = "send"
  BY DEF OpenIsSending
<1>2. CASE u \in open /\ at'[u] = at[u]
  BY <1>2 DEF OpenIsSending
<1>3. CASE \E t \in Transfer : CreateMultipart(t) \/ RefuseBody(t) \/ CompleteMultipart(t)
  BY <1>1, <1>3 DEF CreateMultipart, RefuseBody, CompleteMultipart, Go, OpenIsSending, Inv, TypeOK
<1>4. CASE \E t \in Transfer : \/ Begin(t) \/ Commit(t) \/ Copy(t) \/ PutManifest(t) \/ ComparePut(t)
                              \/ DropContent(t) \/ CleanUp(t)
  <2>1. PICK t \in Transfer : \/ Begin(t) \/ Commit(t) \/ Copy(t) \/ PutManifest(t) \/ ComparePut(t)
                              \/ DropContent(t) \/ CleanUp(t)
    BY <1>4
  <2>2. open' = open /\ at[t] # "send"
    BY <2>1 DEF Begin, Commit, Copy, PutManifest, ComparePut, DropContent, CleanUp, objectVars
  <2>3. \A v \in Transfer : v # t => at'[v] = at[v]
    BY <1>1, <2>1 DEF Begin, Commit, Copy, PutManifest, ComparePut, DropContent, CleanUp,
                      InspectAgain, Go, Reply
  <2> QED BY <1>2, <2>2, <2>3 DEF OpenIsSending, Inv, TypeOK
<1>5. CASE (\E a \in Artifact : Release(a) \/ StartDelete(a) \/ DeleteObjects(a)) \/ UNCHANGED vars
  BY <1>2, <1>5 DEF Release, StartDelete, DeleteObjects, objectVars, transferVars, vars
<1>6. ~Crash
  BY <1>1 DEF Crash
<1> QED BY <1>3, <1>4, <1>5, <1>6 DEF Next, Upload

\* A transfer removes its staging object last.
LEMMA StagingKept ==
  ASSUME ArtifactAssumption, Inv, StagingHasOwner, faults' = faults, [Next]_vars
  PROVE  StagingHasOwner'
<1>1. faults \in Nat /\ ~Fails /\ at \in [Transfer -> Uploading \cup {"new", "done"}]
  BY DEF Inv, TypeOK, ArtifactAssumption, Fails
<1> SUFFICES ASSUME NEW k \in Ticket, staging'[k] # Nothing
             PROVE  \E u \in Transfer : at'[u] \in Staged \cup {"cleanup"} /\ ticket'[u] = k
  BY DEF StagingHasOwner
<1>2. CASE /\ staging[k] # Nothing
           /\ \A u \in Transfer : at[u] \in Staged \cup {"cleanup"} /\ ticket[u] = k =>
                 at'[u] \in Staged \cup {"cleanup"} /\ ticket'[u] = ticket[u]
  BY <1>2 DEF StagingHasOwner
<1>3. CASE \E t \in Transfer : CompleteMultipart(t)
  <2>1. PICK t \in Transfer : CompleteMultipart(t)
    BY <1>3
  <2>2. /\ at[t] = "send" /\ at' = [at EXCEPT ![t] = "commit"] /\ ticket' = ticket
        /\ staging' = [staging EXCEPT ![ticket[t]] = sent[t]]
    BY <1>1, <2>1 DEF CompleteMultipart, Go
  <2>3. CASE k = ticket[t]
    BY <1>1, <2>2, <2>3 DEF Staged
  <2>4. CASE k # ticket[t]
    BY <1>1, <1>2, <2>2, <2>4 DEF Staged, Inv, TypeOK
  <2> QED BY <2>3, <2>4
<1>4. CASE \E t \in Transfer : CleanUp(t)
  <2>1. PICK t \in Transfer : CleanUp(t)
    BY <1>4
  <2>2. /\ at[t] = "cleanup" /\ at' = [at EXCEPT ![t] = "done"] /\ ticket' = ticket
        /\ staging' = [staging EXCEPT ![ticket[t]] = Nothing]
    BY <1>1, <2>1 DEF CleanUp, Go
  <2>3. k # ticket[t] /\ staging'[k] = staging[k]
    BY <2>2 DEF Inv, TypeOK
  <2> QED BY <1>1, <1>2, <2>2, <2>3
<1>5. CASE \E t \in Transfer : Begin(t) \/ CreateMultipart(t) \/ RefuseBody(t)
  <2>1. PICK t \in Transfer : Begin(t) \/ CreateMultipart(t) \/ RefuseBody(t)
    BY <1>5
  <2>2. staging' = staging /\ at[t] \notin Staged \cup {"cleanup"}
    BY <2>1 DEF Begin, CreateMultipart, RefuseBody, objectVars, Staged
  <2>3. \A v \in Transfer : v # t => at'[v] = at[v] /\ ticket'[v] = ticket[v]
    BY <1>1, <2>1 DEF Begin, CreateMultipart, RefuseBody, Go, Inv, TypeOK
  <2> QED BY <1>2, <2>2, <2>3
<1>6. CASE \E t \in Transfer : \/ Commit(t) \/ Copy(t) \/ PutManifest(t) \/ ComparePut(t) \/ DropContent(t)
  <2>1. PICK t \in Transfer : Commit(t) \/ Copy(t) \/ PutManifest(t) \/ ComparePut(t) \/ DropContent(t)
    BY <1>6
  <2>2. staging' = staging /\ ticket' = ticket
    BY <2>1 DEF Commit, Copy, PutManifest, ComparePut, DropContent, InspectAgain, Go, Reply, objectVars
  <2>3. \E place \in {"copy", "put", "again", "drop", "cleanup"} : at' = [at EXCEPT ![t] = place]
    BY <2>1 DEF Commit, Copy, PutManifest, ComparePut, DropContent, InspectAgain, Go, Reply
  <2> QED BY <1>1, <1>2, <2>2, <2>3 DEF Staged
<1>7. CASE (\E a \in Artifact : Release(a) \/ StartDelete(a) \/ DeleteObjects(a)) \/ UNCHANGED vars
  BY <1>2, <1>7 DEF Release, StartDelete, DeleteObjects, objectVars, transferVars, vars
<1>8. ~Crash
  BY <1>1 DEF Crash
<1> QED BY <1>3, <1>4, <1>5, <1>6, <1>7, <1>8 DEF Next, Upload

\* Content that was there keeps what holds it when its holders go on and no manifest
\* is taken away.
LEMMA OwnerKept ==
  ASSUME ContentHasOwner, NEW a \in Artifact, NEW c \in Bytes, content[a][c] # Nothing,
         manifest[a] # Nothing => manifest'[a] = manifest[a],
         \A u \in Transfer : at[u] \in {"put", "again", "drop"} /\ Id(u) = a /\ sent[u] = c =>
            \/ at'[u] \in {"put", "again", "drop"} /\ ticket'[u] = ticket[u] /\ sent'[u] = sent[u]
            \/ Named(a, c)'
  PROVE  Named(a, c)' \/ Held(a, c)'
BY DEF ContentHasOwner, Named, Held, Id

LEMMA ContentKept ==
  ASSUME ArtifactAssumption, OneFilePerTicket, Inv, Removals, Second, ContentHasOwner,
         faults' = faults, [Next]_vars
  PROVE  ContentHasOwner'
<1>1. /\ faults \in Nat /\ ~Fails /\ at \in [Transfer -> Uploading \cup {"new", "done"}] /\ TypeOK
  BY DEF Inv, TypeOK, ArtifactAssumption, Fails
<1> SUFFICES ASSUME NEW a \in Artifact, NEW c \in Bytes, content'[a][c] # Nothing
             PROVE  Named(a, c)' \/ Held(a, c)'
  BY DEF ContentHasOwner
<1>2. CASE /\ content'[a][c] = content[a][c] /\ (manifest[a] # Nothing => manifest'[a] = manifest[a])
           /\ \A u \in Transfer : at[u] \in {"put", "again", "drop"} =>
                 at'[u] = at[u] /\ ticket'[u] = ticket[u] /\ sent'[u] = sent[u]
  BY <1>2, OwnerKept
<1>3. CASE \E t \in Transfer : Copy(t)
  <2>1. PICK t \in Transfer : Copy(t)
    BY <1>3
  <2>2. /\ at[t] = "copy" /\ UNCHANGED <<manifest, ticket, sent>>
        /\ \/ content' = content /\ at' = [at EXCEPT ![t] = "cleanup"]
           \/ /\ content' = [content EXCEPT ![Id(t)][sent[t]] = staging[ticket[t]]]
              /\ at' = [at EXCEPT ![t] = "put"]
    BY <1>1, <2>1 DEF Copy, Go
  <2>3. Id(t) \in Artifact /\ sent[t] \in Bytes /\ Id(t)' = Id(t)
    BY <1>1, <2>2, Begun DEF Id
  <2>4. CASE content'[a][c] = content[a][c]
    BY <1>1, <1>2, <2>2, <2>4
  <2>5. CASE content'[a][c] # content[a][c]
    <3>1. a = Id(t) /\ c = sent[t] /\ at'[t] = "put"
      BY <1>1, <2>2, <2>3, <2>5 DEF TypeOK
    <3> QED BY <2>2, <2>3, <3>1 DEF Held
  <2> QED BY <2>4, <2>5
<1>4. CASE \E t \in Transfer : PutManifest(t)
  <2>1. PICK t \in Transfer : PutManifest(t)
    BY <1>4
  <2>2. /\ at[t] = "put" /\ UNCHANGED <<content, ticket, sent>> /\ Id(t) \in Artifact
        /\ Own(t) # Nothing /\ Own(t).sha = sent[t]
    BY <1>1, <2>1, Begun DEF PutManifest, Go, Reply
  <2>3. \/ manifest' = [manifest EXCEPT ![Id(t)] = Own(t)] /\ manifest[Id(t)] = Nothing
           /\ at' = [at EXCEPT ![t] = "cleanup"]
        \/ manifest' = manifest /\ at' = [at EXCEPT ![t] = "again"]
    BY <1>1, <2>1 DEF PutManifest, Go, Reply
  <2>4. manifest[a] # Nothing => manifest'[a] = manifest[a]
    BY <1>1, <2>2, <2>3 DEF TypeOK
  <2>5. ASSUME NEW u \in Transfer, at[u] \in {"put", "again", "drop"}, Id(u) = a, sent[u] = c
        PROVE  at'[u] \in {"put", "again", "drop"} \/ Named(a, c)'
    <3>1. CASE u # t
      BY <1>1, <2>3, <2>5, <3>1
    <3>2. CASE u = t
      BY <1>1, <2>2, <2>3, <2>5, <3>2 DEF Named, TypeOK
    <3> QED BY <3>1, <3>2
  <2> QED BY <2>2, <2>4, <2>5, OwnerKept
<1>5. CASE \E t \in Transfer : ComparePut(t)
  <2>1. PICK t \in Transfer : ComparePut(t)
    BY <1>5
  <2>2. /\ at[t] = "again" /\ UNCHANGED <<content, manifest, ticket, sent>>
        /\ InspectAgain(t, "cleanup", "drop")
    BY <1>1, <2>1 DEF ComparePut, objectVars, InspectAgain, Go, Reply
  <2>3. manifest[Id(t)] # Nothing /\ Own(t).sha = sent[t] /\ sent[t] # Nothing
    BY <1>1, <2>2, Begun DEF Second, ArtifactAssumption
  <2>4. \/ at' = [at EXCEPT ![t] = "drop"]
        \/ at' = [at EXCEPT ![t] = "cleanup"] /\ manifest[Id(t)].sha = sent[t]
    BY <2>2, <2>3 DEF InspectAgain, Matches, Go, Reply
  <2>5. ASSUME NEW u \in Transfer, at[u] \in {"put", "again", "drop"}, Id(u) = a, sent[u] = c
        PROVE  at'[u] \in {"put", "again", "drop"} \/ Named(a, c)'
    <3>1. CASE u # t
      BY <1>1, <2>4, <2>5, <3>1
    <3>2. CASE u = t
      BY <1>1, <2>2, <2>3, <2>4, <2>5, <3>2 DEF Named
    <3> QED BY <3>1, <3>2
  <2> QED BY <2>2, <2>5, OwnerKept
<1>6. CASE \E t \in Transfer : DropContent(t)
  <2>1. PICK t \in Transfer : DropContent(t)
    BY <1>6
  <2>2. /\ at[t] = "drop" /\ UNCHANGED <<manifest, ticket, sent>>
        /\ at' = [at EXCEPT ![t] = "cleanup"]
        /\ content' = [content EXCEPT ![Id(t)][sent[t]] = Nothing]
    BY <1>1, <2>1 DEF DropContent, Go
  <2>3. Id(t) \in Artifact /\ sent[t] \in Bytes
    BY <1>1, <2>2, Begun
  <2>4. ~(a = Id(t) /\ c = sent[t]) /\ content'[a][c] = content[a][c]
    BY <1>1, <2>2, <2>3 DEF TypeOK
  <2>5. ASSUME NEW u \in Transfer, at[u] \in {"put", "again", "drop"}, Id(u) = a, sent[u] = c
        PROVE  at'[u] \in {"put", "again", "drop"}
    BY <1>1, <2>2, <2>4, <2>5
  <2> QED BY <2>2, <2>4, <2>5, OwnerKept
<1>7. CASE \E t \in Transfer : \/ Begin(t) \/ CreateMultipart(t) \/ RefuseBody(t) \/ CompleteMultipart(t)
                              \/ Commit(t) \/ CleanUp(t)
  <2>1. PICK t \in Transfer : \/ Begin(t) \/ CreateMultipart(t) \/ RefuseBody(t) \/ CompleteMultipart(t)
                              \/ Commit(t) \/ CleanUp(t)
    BY <1>7
  <2>2. UNCHANGED <<content, manifest>> /\ at[t] \notin {"put", "again", "drop"}
    BY <2>1 DEF Begin, CreateMultipart, RefuseBody, CompleteMultipart, Commit, CleanUp, objectVars
  <2>3. \A v \in Transfer : v # t => at'[v] = at[v] /\ ticket'[v] = ticket[v] /\ sent'[v] = sent[v]
    BY <1>1, <2>1 DEF Begin, CreateMultipart, RefuseBody, CompleteMultipart, Commit, CleanUp,
                      InspectAgain, Go, Reply, TypeOK
  <2> QED BY <1>2, <2>2, <2>3
<1>8. CASE \E o \in Artifact : DeleteObjects(o)
  <2>1. PICK o \in Artifact : DeleteObjects(o)
    BY <1>8
  <2>2. UNCHANGED transferVars
    BY <2>1 DEF DeleteObjects
  <2>3. CASE a # o
    BY <1>2, <2>1, <2>2, <2>3, DeleteInv DEF transferVars
  <2>4. CASE a = o
    <3>1. /\ doomed[a] # Nothing /\ doomed[a] \in Bytes /\ a \in released
          /\ content' = [content EXCEPT ![a][doomed[a]] = Nothing]
      BY <1>1, <2>1, <2>4, DeleteInv DEF DeleteObjects, TypeOK
    <3>2. c # doomed[a] /\ content[a][c] # Nothing
      BY <1>1, <3>1 DEF TypeOK
    <3>3. ~Named(a, c)
      BY <3>1, <3>2 DEF Named, Removals
    <3>4. ~Held(a, c)
      BY <3>1 DEF Held, Inv, Upheld, Uploading
    <3> QED BY <3>2, <3>3, <3>4 DEF ContentHasOwner
  <2> QED BY <2>3, <2>4
<1>9. CASE (\E o \in Artifact : Release(o) \/ StartDelete(o)) \/ UNCHANGED vars
  BY <1>2, <1>9 DEF Release, StartDelete, objectVars, transferVars, vars
<1>10. ~Crash
  BY <1>1 DEF Crash
<1> QED BY <1>3, <1>4, <1>5, <1>6, <1>7, <1>8, <1>9, <1>10 DEF Next, Upload

LEMMA CleanKept ==
  ASSUME ArtifactAssumption, OneFilePerTicket, Inv, Clean, [Next]_vars
  PROVE  Clean'
<1>1. faults' = 0 => faults' = faults
  <2>1. faults \in Nat /\ (Works \/ Fails \/ UNCHANGED vars)
    BY DEF Inv, TypeOK, ArtifactAssumption, Next, Upload, Begin, CreateMultipart, RefuseBody,
           CompleteMultipart, Commit, Copy, PutManifest, ComparePut, DropContent, CleanUp,
           Release, StartDelete, DeleteObjects, Crash, MayFail, Works
  <2> QED BY <2>1 DEF Works, Fails, vars
<1>2. Removals' /\ Second'
  BY RemovalsKept, SecondKept DEF Clean
<1>3. ASSUME faults' = 0 PROVE Tidy'
  BY <1>1, <1>3, OpenKept, StagingKept, ContentKept DEF Clean, Tidy
<1> QED BY <1>2, <1>3 DEF Clean

-----------------------------------------------------------------------------
LEMMA NextInv ==
  ASSUME ArtifactAssumption, OneFilePerTicket, Inv, [Next]_vars
  PROVE  Inv'
<1>1. CASE \E t \in Transfer : CreateMultipart(t) \/ RefuseBody(t) \/ Commit(t) \/ ComparePut(t)
  BY <1>1, QuietSteps, MovesInv
<1>2. CASE \E t \in Transfer : Begin(t) \/ CompleteMultipart(t) \/ Copy(t) \/ PutManifest(t) \/ DropContent(t)
  BY <1>2, BeginInv, CompleteInv, CopyInv, PutInv, DropInv
<1>3. CASE Crash \/ (\E t \in Transfer : CleanUp(t)) \/ (\E a \in Artifact : StartDelete(a))
  BY <1>3, OtherInv
<1>4. CASE \E a \in Artifact : Release(a) \/ DeleteObjects(a)
  BY <1>4, ReleaseInv, DeleteInv
<1>5. CASE UNCHANGED vars
  BY <1>5 DEF Inv, TypeOK, Upheld, Files, Accepted, Contents, AnswersAgree, Id,
              vars, objectVars, transferVars, deleteVars
<1> QED BY <1>1, <1>2, <1>3, <1>4, <1>5 DEF Next, Upload

LEMMA Invariance == ASSUME ArtifactAssumption, OneFilePerTicket PROVE Spec => []Inv
BY InitInv, NextInv, PTL DEF Spec

-----------------------------------------------------------------------------
\* What the map binds depends on the manifest and the content it names.
LEMMA BindingUnchanged ==
  ASSUME TypeOK, manifest' = manifest,
         \A a \in Artifact : manifest[a] # Nothing =>
            content'[a][manifest[a].sha] = content[a][manifest[a].sha]
  PROVE  Binding' = Binding
BY DEF Binding

\* A manifest that is written binds its artifact, and nothing else.
LEMMA PutCommits ==
  ASSUME ArtifactAssumption, Inv, NEW t \in Transfer, PutManifest(t)
  PROVE  [Map!MapNext]_<<Binding, released>>
<1>1. /\ content' = content /\ released' = released
      /\ \/ manifest' = manifest
         \/ /\ manifest[Id(t)] = Nothing /\ Id(t) \in Artifact \ released
            /\ manifest' = [manifest EXCEPT ![Id(t)] = Own(t)]
            /\ content[Id(t)][Own(t).sha] = Own(t).sha
  BY PutInv DEF PutManifest, deleteVars
<1>2. TypeOK /\ at[t] # "new"
  BY DEF Inv, PutManifest
<1>3. Own(t) \in Descriptor /\ Own(t) # Nothing /\ Own(t).meta \in Meta /\ Own(t).sha \in Bytes
      /\ Own(t).sha # Nothing
  BY <1>2, Begun DEF Descriptor, ArtifactAssumption
<1>4. CASE manifest' = manifest
  BY <1>1, <1>2, <1>4, BindingUnchanged
<1>5. CASE manifest' # manifest
  <2>1. /\ manifest[Id(t)] = Nothing /\ Id(t) \in Artifact /\ Id(t) \notin released
        /\ manifest' = [manifest EXCEPT ![Id(t)] = Own(t)]
        /\ content[Id(t)][Own(t).sha] = Own(t).sha
    BY <1>1, <1>5
  <2> DEFINE new == [meta |-> Own(t).meta, bytes |-> Own(t).sha]
  <2>2. new \in [meta : Meta, bytes : Bytes]
    BY <1>3
  <2>3. manifest'[Id(t)] = Own(t) /\ \A a \in Artifact : a # Id(t) => manifest'[a] = manifest[a]
    BY <1>2, <2>1 DEF TypeOK
  <2>4. Binding[Id(t)] = Nothing
    BY <2>1 DEF Binding
  <2>5. Binding' = [Binding EXCEPT ![Id(t)] = new]
    BY <1>1, <1>3, <2>1, <2>3 DEF Binding
  <2>6. Map!Commit(Id(t))
    BY <1>1, <2>1, <2>2, <2>4, <2>5 DEF Map!Commit
  <2> QED BY <2>1, <2>6 DEF Map!MapNext
<1> QED BY <1>4, <1>5

\* A deletion unbinds, or is the part of one that changes nothing for the map.
LEMMA DeleteRemoves ==
  ASSUME ArtifactAssumption, Inv, NEW a \in Artifact, DeleteObjects(a)
  PROVE  [Map!MapNext]_<<Binding, released>>
<1>1. /\ a \in released /\ released' = released
      /\ \A o \in Artifact : o # a => manifest'[o] = manifest[o] /\ content'[o] = content[o]
      /\ manifest'[a] \in {manifest[a], Nothing}
      /\ \A c \in Bytes : content'[a][c] \in {content[a][c], Nothing}
  BY DeleteInv
<1>2. \A o \in Artifact : o # a => Binding'[o] = Binding[o]
  BY <1>1 DEF Binding
<1>3. Binding'[a] \in {Binding[a], Nothing}
  <2>1. CASE manifest'[a] = Nothing
    BY <2>1 DEF Binding
  <2>2. CASE manifest'[a] = manifest[a] /\ manifest[a] # Nothing
    <3>1. manifest[a].sha \in Bytes
      BY <2>2, Committed DEF Inv
    <3>2. content'[a][manifest[a].sha] \in {content[a][manifest[a].sha], Nothing}
      BY <1>1, <3>1
    <3> QED BY <2>2, <3>2 DEF Binding
  <2> QED BY <1>1, <2>1, <2>2
<1>4. Binding' \in [Artifact -> {Binding[o] : o \in Artifact} \cup {Nothing}]
      /\ DOMAIN Binding = Artifact /\ DOMAIN Binding' = Artifact
  BY <1>2, <1>3 DEF Binding
<1>5. CASE Binding'[a] = Binding[a]
  <2>1. Binding' = Binding
    BY <1>2, <1>5 DEF Binding
  <2> QED BY <1>1, <2>1
<1>6. CASE Binding'[a] = Nothing
  <2>2. Binding = [o \in Artifact |-> Binding[o]] /\ Binding' = [o \in Artifact |-> Binding'[o]]
    BY DEF Binding
  <2>1. Binding' = [Binding EXCEPT ![a] = Nothing]
    BY <1>2, <1>6, <2>2
  <2> QED BY <1>1, <2>1 DEF Map!Remove, Map!MapNext
<1> QED BY <1>3, <1>5, <1>6

LEMMA StepImplements ==
  ASSUME ArtifactAssumption, OneFilePerTicket, Inv, [Next]_vars
  PROVE  [Map!MapNext]_<<Binding, released>>
<1>1. TypeOK
  BY DEF Inv
<1>2. CASE \E t \in Transfer : PutManifest(t)
  BY <1>2, PutCommits
<1>3. CASE \E a \in Artifact : DeleteObjects(a)
  BY <1>3, DeleteRemoves
<1>4. CASE \E a \in Artifact : Release(a)
  <2>1. PICK a \in Artifact : Release(a)
    BY <1>4
  <2>2. UNCHANGED <<manifest, content>> /\ released' = released \cup {a}
    BY <2>1, ReleaseInv
  <2>3. Binding' = Binding
    BY <1>1, <2>2, BindingUnchanged
  <2> QED BY <2>2, <2>3 DEF Map!GiveUp, Map!MapNext
<1>5. CASE \E t \in Transfer : Copy(t) \/ DropContent(t)
  <2>1. UNCHANGED <<manifest, released>>
    BY <1>5 DEF Copy, DropContent, deleteVars
  <2>2. \A a \in Artifact : manifest[a] # Nothing =>
           content'[a][manifest[a].sha] = content[a][manifest[a].sha]
    BY <1>5, CopyInv, DropInv
  <2> QED BY <1>1, <2>1, <2>2, BindingUnchanged
<1>6. CASE UNCHANGED <<manifest, content, released>>
  BY <1>1, <1>6, BindingUnchanged
<1>7. CASE \E t \in Transfer : Begin(t) \/ CreateMultipart(t) \/ RefuseBody(t)
              \/ CompleteMultipart(t) \/ Commit(t) \/ ComparePut(t) \/ CleanUp(t)
  BY <1>6, <1>7 DEF Begin, CreateMultipart, RefuseBody, CompleteMultipart, Commit, ComparePut,
                   CleanUp, objectVars, deleteVars
<1>8. CASE Crash \/ (\E a \in Artifact : StartDelete(a)) \/ UNCHANGED vars
  BY <1>6, <1>8 DEF Crash, StartDelete, vars, objectVars, deleteVars
<1> QED BY <1>2, <1>3, <1>4, <1>5, <1>7, <1>8 DEF Next, Upload

LEMMA InitImplements == ASSUME Init PROVE Map!MapInit
<1>1. Binding = [a \in Artifact |-> Nothing]
  BY DEF Init, Binding
<1> QED BY <1>1 DEF Init, Map!MapInit

\* S3ArtifactStore implements a map that binds an identifier once and unbinds it
\* only after its release: every step of an upload, a deletion or a crash is one
\* step of ArtifactMap or none, when a capability stands for one file.
THEOREM StoreImplementsMap ==
  ASSUME ArtifactAssumption, OneFilePerTicket
  PROVE  Spec => ImplementsMap
<1>1. Init => Map!MapInit
  BY InitImplements
<1>2. Inv /\ [Next]_vars => [Map!MapNext]_<<Binding, released>>
  BY StepImplements
<1> QED BY <1>1, <1>2, Invariance, PTL DEF Spec, ImplementsMap, Map!MapSpec

\* upload_and_commit answers with what is committed, also when another upload came
\* first, and a download gives the bytes the manifest describes.
THEOREM StoreAnswersAgree ==
  ASSUME ArtifactAssumption, OneFilePerTicket
  PROVE  Spec => [](AnswersAgree /\ ContentIsVerified)
<1>1. Inv => AnswersAgree /\ ContentIsVerified
  <2>1. SUFFICES ASSUME Inv, NEW a \in Artifact, manifest[a] # Nothing
                 PROVE  content[a][manifest[a].sha] \in {manifest[a].sha, Nothing}
    BY DEF Inv, ContentIsVerified
  <2>2. manifest[a].sha \in Bytes
    BY <2>1, Committed DEF Inv
  <2> QED BY <2>1, <2>2 DEF Inv, Contents
<1> QED BY <1>1, Invariance, PTL

\* Whatever uploads, deletions and crashes there were: answers and downloads agree
\* with what is committed, and while every call to the object store works, nothing
\* is left behind that no manifest names (upload_and_commit, _commit, delete).
THEOREM StoreConsistent ==
  ASSUME ArtifactAssumption, OneFilePerTicket
  PROVE  Spec => []StoreInvariant
<1>1. Init => Clean
  BY InitClean
<1>2. Inv /\ Clean /\ [Next]_vars => Clean'
  BY CleanKept
<1>3. Inv /\ Clean => NothingIsLeft
  <2>1. SUFFICES ASSUME Inv, Tidy, \A t \in Transfer : at[t] \notin Uploading
                 PROVE  /\ open = {} /\ \A k \in Ticket : staging[k] = Nothing
                        /\ \A a \in Artifact, c \in Bytes : content[a][c] # Nothing =>
                              manifest[a] # Nothing /\ manifest[a].sha = c
    BY DEF Clean, NothingIsLeft
  <2>2. open = {}
    BY <2>1 DEF Tidy, OpenIsSending, Inv, TypeOK, Uploading
  <2>3. \A k \in Ticket : staging[k] = Nothing
    BY <2>1 DEF Tidy, StagingHasOwner, Uploading, Staged
  <2>4. \A a \in Artifact, c \in Bytes : content[a][c] # Nothing => Named(a, c)
    BY <2>1 DEF Tidy, ContentHasOwner, Held, Uploading
  <2> QED BY <2>2, <2>3, <2>4 DEF Named
<1>4. Inv => TypeOK /\ AnswersAgree
  BY DEF Inv
<1> QED BY <1>1, <1>2, <1>3, <1>4, Invariance, StoreAnswersAgree, PTL DEF Spec, StoreInvariant
=============================================================================
