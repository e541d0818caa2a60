---------------------------- MODULE ArtifactStore ----------------------------
(***************************************************************************)
(* S3ArtifactStore: transfers write a staging object through a multipart   *)
(* upload, copy it to a content object named by its digest, and commit it  *)
(* with a manifest that is only ever created.  The service keeps no state  *)
(* of its own; every call to the object store is a step, and transfers run *)
(* side by side in any number of service processes.                        *)
(*                                                                         *)
(* A file is a member of Bytes and its own digest.                         *)
(***************************************************************************)
EXTENDS Naturals

CONSTANTS Artifact,
          Bytes,       \* contents of files, and their digests
          Meta,        \* owner, name and media type
          Ticket,      \* the capabilities create_upload has issued
          Transfer,    \* PUT requests
          Nothing,
          MaxFaults    \* bound: calls that fail or whose answer is lost, crashes

ArtifactAssumption ==
    /\ Nothing \notin Bytes \cup [meta : Meta, sha : Bytes]
    /\ \A k \in Ticket : /\ k.artifact \in Artifact /\ k.meta \in Meta
                         /\ k.expected \in Bytes \cup {Nothing}
                         /\ k.sends \subseteq Bytes
    /\ MaxFaults \in Nat

\* The files a capability can be used for.
Accepted(k) == {c \in k.sends : k.expected \in {Nothing, c}}

\* One capability stands for one file: what it sends is fixed, or its digest is.
OneFilePerTicket == \A k \in Ticket : \A c, d \in Accepted(k) : c = d

VARIABLES
    manifest,   \* manifests/<artifact>.json
    content,    \* content/<artifact>/<digest>
    staging,    \* staging/<artifact>/<upload_id>
    open,       \* transfers whose multipart upload is not completed or aborted
    at,         \* where a transfer is
    ticket,     \* the capability it presented
    sent,       \* the bytes it received
    answer,     \* the descriptor it was answered with
    released,   \* artifacts whose owner has given them up
    doomed,     \* the digest a running delete() has read from the manifest
    faults

transferVars == <<at, ticket, sent, answer>>
objectVars == <<manifest, content, staging, open>>
deleteVars == <<released, doomed>>
vars == <<objectVars, transferVars, deleteVars, faults>>

Descriptor == [meta : Meta, sha : Bytes]
Uploading == {"create", "send", "commit", "copy", "put", "again", "drop", "cleanup"}

Init ==
    /\ manifest = [a \in Artifact |-> Nothing]
    /\ content = [a \in Artifact |-> [b \in Bytes |-> Nothing]]
    /\ staging = [k \in Ticket |-> Nothing] /\ open = {}
    /\ at = [t \in Transfer |-> "new"] /\ ticket = [t \in Transfer |-> Nothing]
    /\ sent = [t \in Transfer |-> Nothing] /\ answer = [t \in Transfer |-> Nothing]
    /\ released = {} /\ doomed = [a \in Artifact |-> Nothing] /\ faults = 0

-----------------------------------------------------------------------------
(* A call to the object store is answered; or it fails; or it is carried   *)
(* out and its answer is lost.                                             *)
Fails == faults < MaxFaults /\ faults' = faults + 1
Works == UNCHANGED faults
MayFail == Works \/ Fails

Id(t) == ticket[t].artifact
Own(t) == [meta |-> ticket[t].meta, sha |-> sent[t]]
Go(t, place) == at' = [at EXCEPT ![t] = place] /\ UNCHANGED <<ticket, sent, answer>>
Reply(t, place, d) == /\ at' = [at EXCEPT ![t] = place]
                      /\ answer' = [answer EXCEPT ![t] = d]
                      /\ UNCHANGED <<ticket, sent>>

\* _match_existing: the committed descriptor is the one this upload would commit.
Matches(d, k, sha) == d.meta = k.meta /\ (sha = Nothing \/ d.sha = sha)

\* The owner of an artifact releases it after a grace period: nobody uploads it then.
Quiet(a) == \A t \in Transfer : at[t] \in Uploading => Id(t) # a

(* upload_and_commit starts by looking for the manifest.                   *)
Begin(t) ==
    /\ at[t] = "new"
    /\ \E k \in Ticket : \E b \in k.sends :
          LET old == manifest[k.artifact] IN
          /\ k.artifact \notin released
          /\ ticket' = [ticket EXCEPT ![t] = k]
          /\ sent' = [sent EXCEPT ![t] = b]
          /\ at' = [at EXCEPT ![t] = IF old = Nothing THEN "create" ELSE "done"]
          /\ answer' = [answer EXCEPT ![t] =
                IF old # Nothing /\ Matches(old, k, k.expected) THEN old ELSE Nothing]
    /\ UNCHANGED <<objectVars, deleteVars, faults>>

CreateMultipart(t) ==
    /\ at[t] = "create"
    /\ \/ open' = open \cup {t} /\ Go(t, "send") /\ Works
       \/ open' \in {open, open \cup {t}} /\ Go(t, "done") /\ Fails
    /\ UNCHANGED <<manifest, content, staging, deleteVars>>

\* The body is too large, has another digest, or its sender is gone.
RefuseBody(t) ==
    /\ at[t] = "send" /\ Go(t, "done")
    /\ \/ open' = open \ {t} /\ Works
       \/ UNCHANGED open /\ Fails
    /\ UNCHANGED <<manifest, content, staging, deleteVars>>

\* The parts are put together, or an empty object is written.  When only the
\* answer is lost there is nothing left to abort, but the object stays.
CompleteMultipart(t) ==
    /\ at[t] = "send" /\ ticket[t].expected \in {Nothing, sent[t]}
    /\ staging' = [staging EXCEPT ![ticket[t]] = sent[t]]
    /\ open' = open \ {t}
    /\ (Go(t, "commit") /\ Works) \/ (Go(t, "done") /\ Fails)
    /\ UNCHANGED <<manifest, content, deleteVars>>

\* _commit looks for the manifest a second time.
InspectAgain(t, absent, differs) ==
    LET old == manifest[Id(t)] IN
    \/ old = Nothing /\ Go(t, absent)
    \/ old # Nothing /\ Matches(old, Own(t), sent[t]) /\ Reply(t, "cleanup", old)
    \/ old # Nothing /\ ~Matches(old, Own(t), sent[t]) /\ old.sha # sent[t] /\ Go(t, differs)
    \/ old # Nothing /\ ~Matches(old, Own(t), sent[t]) /\ old.sha = sent[t] /\ Go(t, "cleanup")

Commit(t) ==
    /\ at[t] = "commit"
    /\ (InspectAgain(t, "copy", "cleanup") /\ Works) \/ (Go(t, "cleanup") /\ Fails)
    /\ UNCHANGED <<objectVars, deleteVars>>

Copy(t) ==
    /\ at[t] = "copy"
    /\ \/ /\ staging[ticket[t]] # Nothing
          /\ content' = [content EXCEPT ![Id(t)][sent[t]] = staging[ticket[t]]]
          /\ (Go(t, "put") /\ Works) \/ (Go(t, "cleanup") /\ Fails)
       \/ /\ UNCHANGED content /\ Go(t, "cleanup")
          /\ (staging[ticket[t]] = Nothing /\ Works) \/ Fails
    /\ UNCHANGED <<manifest, staging, open, deleteVars>>

\* put_object with If-None-Match.  When the answer is lost, the client library
\* sends the call again, and it is then refused by the manifest it has written.
PutManifest(t) ==
    /\ at[t] = "put"
    /\ \/ /\ manifest[Id(t)] = Nothing
          /\ manifest' = [manifest EXCEPT ![Id(t)] = Own(t)]
          /\ \/ Reply(t, "cleanup", Own(t)) /\ Works
             \/ (Go(t, "again") \/ Go(t, "cleanup")) /\ Fails
       \/ UNCHANGED manifest /\ manifest[Id(t)] # Nothing /\ Go(t, "again") /\ Works
       \/ UNCHANGED manifest /\ Go(t, "cleanup") /\ Fails
    /\ UNCHANGED <<content, staging, open, deleteVars>>

\* Deviation: whatever differs, the content is removed.
DropAnyDiffering(t) ==
    /\ at[t] = "again" /\ manifest[Id(t)] # Nothing
    /\ IF Matches(manifest[Id(t)], Own(t), sent[t])
       THEN Reply(t, "cleanup", manifest[Id(t)]) ELSE Go(t, "drop")
    /\ UNCHANGED <<objectVars, deleteVars, faults>>

\* Deviation: an upload that came second reports its own descriptor.
AnswerOwn(t) ==
    /\ at[t] = "again" /\ Reply(t, "cleanup", Own(t))
    /\ UNCHANGED <<objectVars, deleteVars, faults>>

\* Another upload came first.
ComparePut(t) ==
    /\ at[t] = "again"
    /\ (InspectAgain(t, "cleanup", "drop") /\ Works) \/ (Go(t, "cleanup") /\ Fails)
    /\ UNCHANGED <<objectVars, deleteVars>>

DropContent(t) ==
    /\ at[t] = "drop" /\ Go(t, "cleanup")
    /\ \/ content' = [content EXCEPT ![Id(t)][sent[t]] = Nothing] /\ MayFail
       \/ UNCHANGED content /\ Fails
    /\ UNCHANGED <<manifest, staging, open, deleteVars>>

CleanUp(t) ==
    /\ at[t] = "cleanup" /\ Go(t, "done")
    /\ \/ staging' = [staging EXCEPT ![ticket[t]] = Nothing] /\ MayFail
       \/ UNCHANGED staging /\ Fails
    /\ UNCHANGED <<manifest, content, open, deleteVars>>

-----------------------------------------------------------------------------
Release(a) ==
    /\ Quiet(a) /\ released' = released \cup {a}
    /\ UNCHANGED <<objectVars, transferVars, doomed, faults>>

\* delete() reads the manifest ...
StartDelete(a) ==
    /\ a \in released /\ doomed[a] = Nothing /\ manifest[a] # Nothing
    /\ doomed' = [doomed EXCEPT ![a] = manifest[a].sha]
    /\ UNCHANGED <<objectVars, transferVars, released, faults>>

\* ... and then removes both objects in one call, which may do a part of it.
DeleteObjects(a) ==
    /\ doomed[a] # Nothing
    /\ LET without == [content EXCEPT ![a][doomed[a]] = Nothing] IN
       \/ /\ manifest' = [manifest EXCEPT ![a] = Nothing]
          /\ content' = without /\ MayFail
       \/ /\ manifest' = [manifest EXCEPT ![a] = Nothing]
          /\ UNCHANGED content /\ Fails
       \/ UNCHANGED manifest /\ content' = without /\ Fails
       \/ UNCHANGED <<manifest, content>> /\ Fails
    /\ doomed' = [doomed EXCEPT ![a] = Nothing]
    /\ UNCHANGED <<staging, open, transferVars, released>>

\* The service process dies: its transfers stop where they are.
Crash ==
    /\ Fails
    /\ at' = [t \in Transfer |-> IF at[t] \in Uploading THEN "done" ELSE at[t]]
    /\ doomed' = [a \in Artifact |-> Nothing]
    /\ UNCHANGED <<objectVars, ticket, sent, answer, released>>

Upload(t) ==
    \/ Begin(t) \/ CreateMultipart(t) \/ RefuseBody(t) \/ CompleteMultipart(t)
    \/ Commit(t) \/ Copy(t) \/ PutManifest(t) \/ ComparePut(t)
    \/ DropContent(t) \/ CleanUp(t)

Next == \/ \E t \in Transfer : Upload(t)
        \/ \E a \in Artifact : Release(a) \/ StartDelete(a) \/ DeleteObjects(a)
        \/ Crash

Spec == Init /\ [][Next]_vars

-----------------------------------------------------------------------------
\* Types of the objects and of the transfers.
TypeOK ==
    /\ manifest \in [Artifact -> Descriptor \cup {Nothing}]
    /\ content \in [Artifact -> [Bytes -> Bytes \cup {Nothing}]]
    /\ staging \in [Ticket -> Bytes \cup {Nothing}]
    /\ open \subseteq Transfer
    /\ at \in [Transfer -> Uploading \cup {"new", "done"}]
    /\ ticket \in [Transfer -> Ticket \cup {Nothing}]
    /\ \A t \in Transfer : at[t] # "new" => ticket[t] \in Ticket /\ sent[t] \in Bytes
    /\ sent \in [Transfer -> Bytes \cup {Nothing}]
    /\ answer \in [Transfer -> Descriptor \cup {Nothing}]
    /\ released \subseteq Artifact
    /\ doomed \in [Artifact -> Bytes \cup {Nothing}]
    /\ faults \in 0 .. MaxFaults

\* What can be downloaded has the digest its manifest states, whatever uploads,
\* crashes and deletions there were (storage.md: content is committed after its
\* digest was checked, and is not overwritten).
ContentIsVerified ==
    \A a \in Artifact : manifest[a] # Nothing =>
        content[a][manifest[a].sha] \in {manifest[a].sha, Nothing}

\* Whoever was told that an artifact is committed was told what is committed, for
\* as long as its owner keeps it; and an upload with an expected digest was not
\* answered with another one.
AnswersAgree ==
    \A t \in Transfer : answer[t] # Nothing =>
        /\ Id(t) \notin released => manifest[Id(t)] = answer[t]
        /\ answer[t].meta = ticket[t].meta
        /\ ticket[t].expected \in {Nothing, answer[t].sha}

\* When the calls to the object store work, transfers leave nothing behind that
\* no manifest names: no open multipart upload, no staging object, no content.
NothingIsLeft ==
    faults = 0 /\ (\A t \in Transfer : at[t] \notin Uploading) =>
        /\ open = {} /\ \A k \in Ticket : staging[k] = Nothing
        /\ \A a \in Artifact, b \in Bytes : content[a][b] # Nothing =>
              manifest[a] # Nothing /\ manifest[a].sha = b

\* What was answered is stored, verified, and nothing else is left behind.
StoreInvariant == TypeOK /\ ContentIsVerified /\ AnswersAgree /\ NothingIsLeft

\* What an identifier is bound to: a manifest without its content binds nothing.
Binding == [a \in Artifact |->
    IF manifest[a] = Nothing \/ content[a][manifest[a].sha] = Nothing THEN Nothing
    ELSE [meta |-> manifest[a].meta, bytes |-> content[a][manifest[a].sha]]]

Map == INSTANCE ArtifactMap WITH
    artifact <- Binding, Bound <- [meta : Meta, bytes : Bytes]

\* Uploads that contend, fail and crash anywhere implement a map that binds an
\* identifier once and unbinds it only after its release: a committed artifact
\* never loses or changes its content.
ImplementsMap == Map!MapSpec
=============================================================================
