---------------------------- MODULE FileOperations ----------------------------
(***************************************************************************)
(* The file operations of one workspace: checkout brings the attachments   *)
(* of a message in, publish takes a stable copy of an output file and      *)
(* uploads it as an Artifact.  An operation is a row that is found again   *)
(* by its idempotency key, a task of the Manager that executes it, and the *)
(* storage-ops containers the task runs, one after the other.  They        *)
(* outlive a crash of the Manager, and a removal that failed, until        *)
(* startup removes them, and can be killed at any step.                    *)
(*                                                                         *)
(* The content of a file is its version; 0 stands for nothing.             *)
(***************************************************************************)
EXTENDS Naturals, FiniteSets

CONSTANTS Publish, Checkout,  \* the idempotency keys
          Artifact,           \* bound: upload targets
          Message,            \* bound: assistant messages a checkout is for
          Files,              \* attachments of a batch
          MaxVersion,         \* bound: versions of an output file
          MaxSandbox,         \* bound: sandboxes of the workspace
          MaxFaults,          \* bound: steps that fail or time out
          MaxCrashes,         \* bound: crashes of the Manager
          Inputs              \* bound: what clients do in an instance

Key == Publish \cup Checkout
None == 0
Version == 1 .. MaxVersion
Torn == MaxVersion + 1     \* parts of two versions

ASSUME FileAssumption ==
    /\ Publish \cap Checkout = {} /\ IsFiniteSet(Key) /\ Key \cap {"free", "storage"} = {}
    /\ Artifact \subseteq Nat \ {0} /\ Message \subseteq Nat \ {0}
    /\ Files \in Nat \ {0} /\ MaxVersion \in Nat \ {0} /\ MaxSandbox \in Nat \ {0}
    /\ MaxFaults \in Nat /\ MaxCrashes \in Nat

VARIABLES
    up,       \* the Manager runs
    writer,   \* active_sandbox_id of the workspace
    last,     \* sandboxes created so far
    lock,     \* _workspace_locks: who holds the lock of the workspace
    op,       \* the rows of the operations table
    task,     \* _execute_file_operation, per key
    box,      \* the container that captures or checks out, per key
    sender,   \* the container that uploads, per key
    left,     \* ghost: keys whose box could not be removed
    spool,    \* the directory of an operation in the publish spool
    file,     \* the output files in the volume
    staging,  \* files in .agent-staging
    uploads,  \* the directory of the user message: files, for which answer
    stored,   \* committed Artifacts: operation, id, version
    faults, crashes

managerVars == <<up, op, task, lock>>
sandboxVars == <<writer, last>>
boxVars == <<box, sender, left>>
volumeVars == <<file, staging, uploads>>
vars == <<managerVars, sandboxVars, boxVars, spool, volumeVars, stored, faults, crashes>>

OpRow == [status : {"none", "pending", "running", "failed", "succeeded"},
          phase : {"none", "capturing", "captured", "uploading"},
          sandbox : 0 .. MaxSandbox, message : Message \cup {None},
          cap : Version \cup {None, Torn}, target : Artifact \cup {None}]
Task == [at : {"idle", "new", "lock", "capture", "upload", "checkout",
               "refused", "unsent"},      \* no container for the lock, or for the upload
         target : Artifact \cup {None},    \* of the claims
         cap : Version \cup {None, Torn},  \* capture_result
         prior : Artifact \cup {None}]     \* target in the row the task was given
Idle == [at |-> "idle", target |-> None, cap |-> None, prior |-> None]
Capturing == {"check", "open", "copy", "install", "manifest", "commit"}
Uploading == {"verify", "put", "clean"}
CheckingOut == {"stage", "download", "rename"}
Box == [at : {"none", "ok", "error"} \cup Capturing \cup CheckingOut,
        v : 0 .. Torn \cup 0 .. MaxSandbox]   \* a version or a sandbox
Sender == [at : {"none", "ok", "error"} \cup Uploading, v : Artifact \cup {None}]
NoBox == [at |-> "none", v |-> None]
Spool == [part : BOOLEAN, content : 0 .. Torn, manifestPart : BOOLEAN, manifest : 0 .. Torn]
NoSpool == [part |-> FALSE, content |-> None, manifestPart |-> FALSE, manifest |-> None]

TypeOK ==
    /\ up \in BOOLEAN /\ writer \in 0 .. MaxSandbox /\ last \in 0 .. MaxSandbox
    /\ lock \in Key \cup {"free", "storage"}
    /\ op \in [Key -> OpRow] /\ task \in [Key -> Task]
    /\ box \in [Key -> Box] /\ sender \in [Publish -> Sender] /\ left \subseteq Key
    /\ spool \in [Publish -> Spool] /\ file \in [Publish -> Version]
    /\ staging \in [Checkout -> 0 .. Files]
    /\ uploads \in [Checkout -> [files : 0 .. Files, message : Message \cup {None}]]
    /\ stored \subseteq Publish \X Artifact \X (1 .. Torn)
    /\ faults \in 0 .. MaxFaults /\ crashes \in 0 .. MaxCrashes

Init ==
    /\ up = TRUE /\ writer = None /\ last = 0 /\ lock = "free"
    /\ op = [k \in Key |-> [status |-> "none", phase |-> "none", sandbox |-> None,
                            message |-> None, cap |-> None, target |-> None]]
    /\ task = [k \in Key |-> Idle] /\ box = [k \in Key |-> NoBox]
    /\ sender = [p \in Publish |-> NoBox] /\ left = {}
    /\ spool = [p \in Publish |-> NoSpool] /\ file = [p \in Publish |-> 1]
    /\ staging = [c \in Checkout |-> 0]
    /\ uploads = [c \in Checkout |-> [files |-> 0, message |-> None]]
    /\ stored = {} /\ faults = 0 /\ crashes = 0

Fault == faults < MaxFaults /\ faults' = faults + 1
Put(k, at, v) == box' = [box EXCEPT ![k] = [at |-> at, v |-> v]]
Send(k, at, v) == sender' = [sender EXCEPT ![k] = [at |-> at, v |-> v]]

-----------------------------------------------------------------------------
(* create_operation: who may ask, and which row it finds.                  *)

Bound(k, m) == op[k].status = "none" \/ (op[k].sandbox = writer /\ op[k].message = m)

\* The row is new, has failed, or has been captured and now gets a target.
Restarts(k, a) ==
    \/ op[k].status \in {"none", "failed"}
    \/ op[k].status = "running" /\ op[k].phase = "captured" /\ a # None

CreateOperation(k, m, a) ==
    /\ up /\ writer # None /\ Bound(k, m) /\ Restarts(k, a)
    /\ op' = [op EXCEPT ![k].status = "pending", ![k].sandbox = writer, ![k].message = m]
    /\ task' = [task EXCEPT ![k] = [at |-> "new", target |-> a,
                                    cap |-> op[k].cap, prior |-> op[k].target]]
    /\ UNCHANGED <<up, lock, sandboxVars, boxVars, spool, volumeVars, stored, faults, crashes>>

RequestPublish(k) == \E m \in Message, a \in Artifact : CreateOperation(k, m, a)

\* The Adapter captures first and asks for the upload later.
RequestCapture(k) == "capture_first" \in Inputs /\ \E m \in Message : CreateOperation(k, m, None)

\* A regenerated answer asks with the same key for another message.
RequestCheckout(k) == \E m \in Message : CreateOperation(k, m, None)

-----------------------------------------------------------------------------
(* _execute_file_operation.                                                *)

Start(k) ==
    /\ task[k].at = "new"
    /\ task' = [task EXCEPT ![k].at = "lock"]
    /\ op' = IF k \in Checkout THEN [op EXCEPT ![k].status = "running"] ELSE op
    /\ UNCHANGED <<up, lock, sandboxVars, boxVars, spool, volumeVars, stored, faults, crashes>>

LockFree == lock = "free"

\* The row loses its target until the upload starts again.  A container is
\* named after its operation and role: if an earlier one was not removed,
\* the name is taken and this one is not created.
TakeLock(k) ==
    /\ task[k].at = "lock" /\ LockFree
    /\ lock' = k
    /\ op' = IF k \in Checkout THEN op
             ELSE [op EXCEPT ![k].status = "running", ![k].phase = "capturing",
                             ![k].cap = task[k].cap, ![k].target = None]
    /\ \/ /\ box[k].at = "none"
          /\ task' = [task EXCEPT ![k].at = IF k \in Checkout THEN "checkout" ELSE "capture"]
          /\ Put(k, IF k \in Checkout THEN "stage" ELSE "check", None)
       \/ /\ box[k].at # "none"
          /\ task' = [task EXCEPT ![k].at = "refused"] /\ UNCHANGED box
    /\ UNCHANGED <<up, sandboxVars, sender, left, spool, volumeVars, stored, faults, crashes>>

Released(k) == IF lock = k THEN "free" ELSE lock

\* The except clauses: a publish that has a capture keeps it, and keeps the
\* target it was called with.
Failed(k) ==
    IF k \in Checkout THEN [op EXCEPT ![k].status = "failed"]
    ELSE [op EXCEPT ![k].status = "failed", ![k].cap = task[k].cap,
                    ![k].phase = IF task[k].cap = None THEN "capturing" ELSE "captured",
                    ![k].target = IF task[k].cap = None THEN None ELSE task[k].target]

\* The finally clause of _run: an error of the removal is suppressed, and
\* the container keeps its name and runs on.
Gone(k) == box' = [box EXCEPT ![k] = NoBox] /\ UNCHANGED left
Left(k) == left' = left \cup {k} /\ UNCHANGED box
Removed(k) ==
    IF task[k].at = "upload" THEN sender' = [sender EXCEPT ![k] = NoBox] /\ UNCHANGED <<box, left>>
    ELSE Gone(k) /\ UNCHANGED sender
NotRemoved(k) ==
    IF task[k].at = "upload" THEN UNCHANGED boxVars ELSE Left(k) /\ UNCHANGED sender
Finally(k) ==
    \/ Removed(k) /\ UNCHANGED faults
    \/ NotRemoved(k) /\ Fault

Fails(k) ==
    /\ op' = Failed(k)
    /\ task' = [task EXCEPT ![k] = Idle]
    /\ lock' = Released(k)
    /\ UNCHANGED <<up, sandboxVars, spool, volumeVars, stored, crashes>>

SameTarget(k) == task[k].prior \in {None, task[k].target}

\* The capture has succeeded: without a target the operation rests, with the
\* target of an earlier attempt it fails, else the upload starts, unless the
\* name of its container is taken.
Captured(k) ==
    LET v == box[k].v
        t == task[k].target IN
    /\ task[k].at = "capture" /\ box[k].at = "ok"
    /\ lock' = Released(k)
    /\ \/ Gone(k) /\ UNCHANGED faults
       \/ Left(k) /\ Fault
    /\ \/ /\ t = None
          /\ op' = [op EXCEPT ![k].phase = "captured", ![k].cap = v]
          /\ task' = [task EXCEPT ![k] = Idle] /\ UNCHANGED sender
       \/ /\ t # None /\ ~SameTarget(k)
          /\ op' = [op EXCEPT ![k].status = "failed", ![k].phase = "captured",
                              ![k].cap = v, ![k].target = t]
          /\ task' = [task EXCEPT ![k] = Idle] /\ UNCHANGED sender
       \/ /\ t # None /\ SameTarget(k)
          /\ op' = [op EXCEPT ![k].phase = "uploading", ![k].cap = v, ![k].target = t]
          /\ \/ /\ sender[k].at = "none" /\ Send(k, "verify", t)
                /\ task' = [task EXCEPT ![k].at = "upload", ![k].cap = v]
             \/ /\ sender[k].at # "none" /\ UNCHANGED sender
                /\ task' = [task EXCEPT ![k].at = "unsent", ![k].cap = v]
    /\ UNCHANGED <<up, sandboxVars, spool, volumeVars, stored, crashes>>

\* How the container of a task ends, if the task has one.
Ends(k, how) ==
    \/ task[k].at \in {"capture", "checkout"} /\ box[k].at = how
    \/ task[k].at = "upload" /\ sender[k].at = how

Succeeds(k) ==
    /\ Ends(k, "ok") /\ task[k].at # "capture"
    /\ op' = [op EXCEPT ![k].status = "succeeded"]
    /\ task' = [task EXCEPT ![k] = Idle]
    /\ Finally(k)
    /\ lock' = Released(k)
    /\ UNCHANGED <<up, sandboxVars, spool, volumeVars, stored, crashes>>

OperationFails(k) ==
    /\ Fails(k)
    /\ \/ Ends(k, "error") /\ Finally(k)
       \/ task[k].at \in {"refused", "unsent"} /\ UNCHANGED <<boxVars, faults>>

\* The wait times out or fails.
TimesOut(k) ==
    /\ task[k].at \in {"capture", "upload", "checkout"}
    /\ Fault /\ Fails(k)
    /\ Removed(k) \/ NotRemoved(k)

-----------------------------------------------------------------------------
(* storage-ops capture.                                                    *)

InBox(k, at) == box[k].at = at /\ UNCHANGED <<managerVars, sandboxVars, sender, left, crashes>>
Spooled(k, s) == spool' = [spool EXCEPT ![k] = s]

HasCopy(k) == spool[k].manifest # None /\ spool[k].content # None

\* A committed copy is verified and returned.
CaptureChecks(k) ==
    /\ InBox(k, "check")
    /\ IF ~HasCopy(k) THEN Put(k, "open", None)
       ELSE IF spool[k].content = spool[k].manifest THEN Put(k, "ok", spool[k].manifest)
       ELSE Put(k, "error", None)
    /\ UNCHANGED <<spool, volumeVars, stored, faults>>

\* The source cannot be opened, or it is: the part must not exist.
CaptureOpens(k) ==
    /\ InBox(k, "open")
    /\ \/ Fault /\ Put(k, "error", None) /\ UNCHANGED spool
       \/ /\ ~spool[k].part
          /\ Spooled(k, [spool[k] EXCEPT !.part = TRUE])
          /\ Put(k, "copy", file[k]) /\ UNCHANGED faults
       \/ spool[k].part /\ Put(k, "error", None) /\ UNCHANGED <<spool, faults>>
    /\ UNCHANGED <<volumeVars, stored>>

\* Deviation: the file is not compared with what it was.
UnchangedAnyway(k) == TRUE

UnchangedSince(k) == file[k] = box[k].v

\* A file that changed, or is too large, fails the copy; the part stays.
CaptureCopies(k) ==
    /\ InBox(k, "copy")
    /\ \/ Fault /\ Put(k, "error", None)
       \/ UnchangedSince(k) /\ UNCHANGED faults
            /\ Put(k, "install", IF file[k] = box[k].v THEN file[k] ELSE Torn)
       \/ ~UnchangedSince(k) /\ Put(k, "error", None) /\ UNCHANGED faults
    /\ UNCHANGED <<spool, volumeVars, stored>>

CaptureInstalls(k) ==
    /\ InBox(k, "install")
    /\ Spooled(k, [spool[k] EXCEPT !.part = FALSE, !.content = box[k].v])
    /\ Put(k, "manifest", box[k].v)
    /\ UNCHANGED <<volumeVars, stored, faults>>

\* _write_json_atomic: a part that must not exist, then a rename.
CaptureWritesManifest(k) ==
    /\ InBox(k, "manifest")
    /\ IF spool[k].manifestPart
         THEN Put(k, "error", None) /\ UNCHANGED spool
         ELSE Put(k, "commit", box[k].v) /\ Spooled(k, [spool[k] EXCEPT !.manifestPart = TRUE])
    /\ UNCHANGED <<volumeVars, stored, faults>>

CaptureCommits(k) ==
    /\ InBox(k, "commit")
    /\ Spooled(k, [spool[k] EXCEPT !.manifestPart = FALSE, !.manifest = box[k].v])
    /\ Put(k, "ok", box[k].v)
    /\ UNCHANGED <<volumeVars, stored, faults>>

-----------------------------------------------------------------------------
(* storage-ops upload-capture; v is the target the container was started   *)
(* with.                                                                   *)

InSender(k, at) == sender[k].at = at /\ UNCHANGED <<managerVars, sandboxVars, box, left, crashes>>

UploadVerifies(k) ==
    /\ InSender(k, "verify")
    /\ IF HasCopy(k) /\ spool[k].content = spool[k].manifest
         THEN Send(k, "put", sender[k].v) ELSE Send(k, "error", None)
    /\ UNCHANGED <<spool, volumeVars, stored, faults>>

\* The Artifact Service: an id that is taken keeps its content.
Accepts(k, a) == \A s \in stored : s[2] = a => s = <<k, a, spool[k].content>>

\* Deviation: the stable copy goes even if no descriptor came back.
UploadPutsAndForgets(k) ==
    /\ InSender(k, "put")
    /\ \/ /\ Accepts(k, sender[k].v)
          /\ stored' = stored \cup {<<k, sender[k].v, spool[k].content>>}
          /\ Send(k, "clean", sender[k].v) /\ UNCHANGED faults
       \/ /\ Fault /\ Send(k, "clean", sender[k].v) /\ UNCHANGED stored
    /\ UNCHANGED <<spool, volumeVars>>

\* The service may commit and the answer be lost.
UploadPuts(k) ==
    /\ InSender(k, "put")
    /\ \/ /\ Accepts(k, sender[k].v)
          /\ stored' = stored \cup {<<k, sender[k].v, spool[k].content>>}
          /\ \/ Send(k, "clean", sender[k].v) /\ UNCHANGED faults
             \/ Send(k, "error", None) /\ Fault
       \/ ~Accepts(k, sender[k].v) /\ Send(k, "error", None) /\ UNCHANGED <<stored, faults>>
       \/ Fault /\ Send(k, "error", None) /\ UNCHANGED stored
    /\ UNCHANGED <<spool, volumeVars>>

UploadCleans(k) ==
    /\ InSender(k, "clean")
    /\ Spooled(k, NoSpool)
    /\ Send(k, "ok", sender[k].v)
    /\ UNCHANGED <<volumeVars, stored, faults>>

-----------------------------------------------------------------------------
(* storage-ops checkout-batch.                                             *)

CheckoutStages(k) ==
    /\ InBox(k, "stage")
    /\ IF uploads[k].files > 0
         THEN /\ Put(k, IF uploads[k].message = op[k].message THEN "ok" ELSE "error", None)
              /\ UNCHANGED staging
         ELSE /\ Put(k, "download", op[k].sandbox)
              /\ staging' = [staging EXCEPT ![k] = 0]
    /\ UNCHANGED <<spool, file, uploads, stored, faults>>

\* Deviation: the files are downloaded to where the agent sees them.
CheckoutDownloadsInPlace(k) ==
    /\ InBox(k, "download")
    /\ \/ /\ UNCHANGED faults
          /\ uploads' = [uploads EXCEPT ![k].files = @ + 1]
          /\ staging' = [staging EXCEPT ![k] = @ + 1]
          /\ Put(k, IF staging[k] + 1 = Files THEN "rename" ELSE "download", box[k].v)
       \/ Fault /\ Put(k, "error", None) /\ UNCHANGED <<staging, uploads>>
    /\ UNCHANGED <<spool, file, stored>>

\* One file after the other; a failure removes the staging directory.
CheckoutDownloads(k) ==
    /\ InBox(k, "download")
    /\ \/ /\ UNCHANGED faults
          /\ staging' = [staging EXCEPT ![k] = @ + 1]
          /\ Put(k, IF staging[k] + 1 = Files THEN "rename" ELSE "download", box[k].v)
       \/ Fault /\ Put(k, "error", None) /\ staging' = [staging EXCEPT ![k] = 0]
    /\ UNCHANGED <<spool, file, uploads, stored>>

CheckoutRenames(k) ==
    /\ InBox(k, "rename")
    /\ uploads' = [uploads EXCEPT ![k] = [files |-> staging[k], message |-> op[k].message]]
    /\ staging' = [staging EXCEPT ![k] = 0]
    /\ Put(k, "ok", None)
    /\ UNCHANGED <<spool, file, stored, faults>>

-----------------------------------------------------------------------------
(* Sandboxes, the agent, checkpoints and crashes.                          *)

\* create: _prepare_workspace waits for the lock.
NewSandbox ==
    /\ up /\ writer = None /\ last < MaxSandbox /\ LockFree
    /\ writer' = last + 1 /\ last' = last + 1
    /\ UNCHANGED <<managerVars, boxVars, spool, volumeVars, stored, faults, crashes>>

EndSandbox ==
    /\ up /\ "end" \in Inputs /\ writer # None
    /\ writer' = None
    /\ UNCHANGED <<managerVars, last, boxVars, spool, volumeVars, stored, faults, crashes>>

AgentWrites(k) ==
    /\ writer # None /\ file[k] < MaxVersion
    /\ file' = [file EXCEPT ![k] = @ + 1]
    /\ UNCHANGED <<managerVars, sandboxVars, boxVars, spool, staging, uploads, stored,
                   faults, crashes>>

\* A checkpoint, a restore or an eviction of SandboxManager.
StorageLocks ==
    /\ up /\ "end" \in Inputs /\ writer = None /\ last > 0 /\ LockFree
    /\ lock' = "storage"
    /\ UNCHANGED <<up, op, task, sandboxVars, boxVars, spool, volumeVars, stored, faults, crashes>>

StorageUnlocks ==
    /\ lock = "storage"
    /\ lock' = "free"
    /\ UNCHANGED <<up, op, task, sandboxVars, boxVars, spool, volumeVars, stored, faults, crashes>>

Crash ==
    /\ up /\ crashes < MaxCrashes
    /\ up' = FALSE /\ crashes' = crashes + 1
    /\ task' = [k \in Key |-> Idle] /\ lock' = "free"
    /\ UNCHANGED <<op, sandboxVars, boxVars, spool, volumeVars, stored, faults>>

\* Deviation: operations that had not started are not looked at.
Running(k) == op[k].status = "running"

Incomplete(k) == op[k].status \in {"pending", "running"}

\* _recover_incomplete_operations
Recovered(k) ==
    IF ~Incomplete(k) THEN op[k]
    ELSE [op[k] EXCEPT !.status = "failed",
                       !.phase = IF op[k].cap # None THEN "captured" ELSE @]

\* _reconcile_managed_containers removes the containers of operations.
Startup ==
    /\ ~up
    /\ up' = TRUE /\ left' = {}
    /\ box' = [k \in Key |-> NoBox] /\ sender' = [p \in Publish |-> NoBox]
    /\ op' = [k \in Key |-> Recovered(k)]
    /\ UNCHANGED <<task, lock, sandboxVars, spool, volumeVars, stored, faults, crashes>>

-----------------------------------------------------------------------------
Execute(k) ==
    \/ Start(k) \/ Captured(k) \/ Succeeds(k) \/ OperationFails(k)

ContainerRuns(k) ==
    \/ k \in Publish /\ \/ CaptureChecks(k) \/ CaptureOpens(k) \/ CaptureCopies(k)
                        \/ CaptureInstalls(k) \/ CaptureWritesManifest(k) \/ CaptureCommits(k)
                        \/ UploadVerifies(k) \/ UploadPuts(k) \/ UploadCleans(k)
    \/ k \in Checkout /\ (CheckoutStages(k) \/ CheckoutDownloads(k) \/ CheckoutRenames(k))

Next ==
    \/ \E k \in Publish : RequestPublish(k) \/ RequestCapture(k) \/ AgentWrites(k)
    \/ \E k \in Checkout : RequestCheckout(k)
    \/ \E k \in Key : Execute(k) \/ TakeLock(k) \/ TimesOut(k) \/ ContainerRuns(k)
    \/ NewSandbox \/ EndSandbox \/ StorageLocks \/ StorageUnlocks \/ Crash \/ Startup

Spec == Init /\ [][Next]_vars

\* Tasks and containers run, the Manager is restarted, asyncio.Lock is
\* first-come first-served, a storage operation ends.  Nothing is asked of
\* clients.
Fairness ==
    /\ WF_vars(Startup) /\ WF_vars(StorageUnlocks)
    /\ \A k \in Key : WF_vars(Execute(k)) /\ SF_vars(TakeLock(k)) /\ WF_vars(ContainerRuns(k))

FairSpec == Spec /\ Fairness

-----------------------------------------------------------------------------
\* What is captured and committed was in the file at one moment: a file that
\* changes while it is copied, or a copy cut off, is not taken for a capture.
NoTornCopy ==
    /\ \A k \in Publish : op[k].cap # Torn /\ (op[k].cap # None => op[k].cap <= file[k])
    /\ \A s \in stored : s[3] # Torn

\* A captured file survives until it is committed: its stable copy is in the
\* spool, or an Artifact has it (docs/storage.md), through crashes, time-outs
\* and lost answers.
StableCopyIsKept ==
    \A k \in Publish : op[k].cap # None =>
        \/ HasCopy(k) /\ spool[k].manifest = op[k].cap /\ spool[k].content = op[k].cap
        \/ \E s \in stored : s[1] = k

\* A publish that succeeded has its captured version under its target; a
\* checkout that succeeded is complete and for the message it was asked for.
SucceededIsThere ==
    /\ \A k \in Publish : op[k].status = "succeeded" => <<k, op[k].target, op[k].cap>> \in stored
    /\ \A k \in Checkout : op[k].status = "succeeded" =>
        uploads[k] = [files |-> Files, message |-> op[k].message]

\* No two containers work on the volume, not even after a restart, but for
\* those whose removal failed.
OneContainerPerVolume ==
    up => Cardinality({k \in Key \ left : box[k].at \in Capturing \cup CheckingOut}) <= 1

\* What is reported is there and whole, and no container meets another that
\* the Manager could remove.
FileInvariant == TypeOK /\ NoTornCopy /\ SucceededIsThere /\ OneContainerPerVolume

\* The agent sees all the attachments of a message or none of them.
AllOrNothing == \A k \in Checkout : uploads[k].files \in {0, Files}

\* Operations end or rest captured, whatever crashes or times out.
OperationsEnd ==
    \A k \in Key : op[k].status = "pending" ~>
        op[k].status \in {"failed", "succeeded"} \/ op[k].phase = "captured"
=============================================================================
