--------------------------- MODULE SandboxManager ---------------------------
(***************************************************************************)
(* The Sandbox Manager (sandbox_manager/docker_backend.py): one asyncio    *)
(* event loop that creates, renews, terminates and reaps sandboxes,        *)
(* checkpoints, restores, evicts and retires their workspaces, and         *)
(* recovers all of it after a crash.                                       *)
(*                                                                         *)
(* An action is the code a coroutine runs from one await to the next, with *)
(* the outcome of the Docker or storage call it awaited.  The coroutines   *)
(* share three kinds of state: the tables of StateStore and the operations *)
(* table, which survive a crash; Docker's volumes and containers and the   *)
(* backup repositories, which survive it too and keep running; and the     *)
(* manager's memory, which does not.                                       *)
(*                                                                         *)
(* Object storage is enabled.  A snapshot is named by the content it       *)
(* holds: 0 is an empty volume, every write by a worker makes the next     *)
(* number, and Partial is what an interrupted restore leaves behind.       *)
(***************************************************************************)
EXTENDS StateStore

CONSTANTS
    Client,       \* concurrent terminate and release requests
    Partial,      \* content of a half-restored volume
    MaxWrites,    \* bound: writes by workers
    MaxCrashes,   \* bound: crashes of the manager
    Inputs        \* which requests, deadlines and faults an instance includes

ASSUME ManagerAssumption ==
    /\ Revision = (0 .. MaxWrites) \cup {Partial}
    /\ MaxWrites \in Nat /\ MaxCrashes \in Nat
    /\ IsFiniteSet(Sandbox)
    /\ "reaper" \notin Client
    /\ (Sandbox \cup {None}) \cap {"checkpoint", "retire", "restore", "await_restore", "cleanup"} = {}
    /\ Inputs \subseteq {"release", "terminate", "renew", "checkpoint", "restore",
                       "lease", "grace", "retention", "worker dies"}

VARIABLES
    ops,       \* operations table: idempotency key -> status
    boot,      \* "up", or how far startup has come
    records,   \* _records: sandbox -> "none", or its lease in memory
    cr,        \* create() requests, by the sandbox id they will use
    term,      \* terminate() calls, by caller
    lock,      \* _workspace_locks: who holds it, where that coroutine stands, what it has read
    sched,     \* _operation_tasks that have not got the lock yet
    drop,      \* ephemeral workspaces whose volume and row a coroutine is about to remove
    mk,        \* workspaces whose create request is about to create the volume
    reap,      \* the reaper loop
    cont,      \* Docker: worker containers
    vol,       \* Docker: workspace volumes, None when absent
    repo,      \* object storage: snapshots in the workspace's repository
    latest,    \* ghost: the content the last worker left in the workspace
    writes,    \* ghost: number of writes so far
    crashes    \* number of crashes so far

opVars == <<ops>>
memVars == <<records, cr, term, lock, sched, drop, mk, reap>>
dockerVars == <<cont, vol>>
ghostVars == <<latest, writes>>
vars == <<ws, sb, ops, boot, records, cr, term, lock, sched, drop, mk, reap,
          cont, vol, repo, latest, writes, crashes>>

Caller == Client \cup {"reaper"}
Task == {"checkpoint", "retire", "restore", "await_restore"}
Up == boot = "up"

(* Idempotency keys; a claim consumes a sandbox row, so there are at most  *)
(* as many generations as sandboxes.                                       *)
OpKey ==
    ({"checkpoint"} \X Workspace \X (0 .. Cardinality(Sandbox)))
    \cup ({"restore"} \X Workspace \X Revision)
    \cup ({"retire"} \X Workspace \X {0})
CheckpointKey(w) == <<"checkpoint", w, ws[w].gen>>
RestoreKey(w, rev) == <<"restore", w, rev>>
RetireKey(w) == <<"retire", w, 0>>

(* The store's writes to one operation row: INSERT unless the key exists,  *)
(* and UPDATE, which finds no row when the key does not.                   *)
CreateOperation(o, key) == IF o[key] = "absent" THEN [o EXCEPT ![key] = "pending"] ELSE o
UpdateOperation(o, key, status) ==
    IF o[key] = "absent" THEN o ELSE [o EXCEPT ![key] = status]
Incomplete(w) == \E key \in OpKey : key[2] = w /\ ops[key] \in {"pending", "running"}

NoCreate == [pc |-> "idle", ws |-> None]
NoTerm == [pc |-> "idle", sb |-> None, ws |-> None]
Free == [by |-> None, pc |-> "free", cur |-> NoWorkspace, rev |-> 0]
Asleep == [pc |-> "sleep", todo |-> {}]

Init ==
    /\ StoreInit
    /\ ops = [key \in OpKey |-> "absent"]
    /\ boot = "up"
    /\ records = [s \in Sandbox |-> "none"]
    /\ cr = [s \in Sandbox |-> NoCreate]
    /\ term = [c \in Caller |-> NoTerm]
    /\ lock = [w \in Workspace |-> Free]
    /\ sched = {} /\ drop = {} /\ mk = {}
    /\ reap = Asleep
    /\ cont = [s \in Sandbox |-> "none"]
    /\ vol = [w \in Workspace |-> None]
    /\ repo = [w \in Workspace |-> {}]
    /\ latest = [w \in Workspace |-> 0]
    /\ writes = 0 /\ crashes = 0

-----------------------------------------------------------------------------
(* Docker creates a missing volume when a container that mounts it is      *)
(* created, and refuses to remove one while a container mounts it.         *)
Mounted(w) == [vol EXCEPT ![w] = IF @ = None THEN 0 ELSE @]
InUse(w) ==
    \/ \E s \in Sandbox : cont[s] # "none" /\ sb[s].ws = w
    \/ \E s \in Sandbox : cr[s].pc = "preparing" /\ cr[s].ws = w
    \/ lock[w].pc \in {"snapshot", "restore"}
RemovableVolumes(w) == IF InUse(w) THEN {vol[w]} ELSE {None, vol[w]}

(* _remove_volume suppresses every failure *)
RemoveVolume(w) == \E v \in RemovableVolumes(w) : vol' = [vol EXCEPT ![w] = v]

Unlock(w) == lock' = [lock EXCEPT ![w] = Free]
Goto(w, pc) == lock' = [lock EXCEPT ![w].pc = pc]
LockTaken(w, by, pc, rev) ==
    lock' = [lock EXCEPT ![w] = [by |-> by, pc |-> pc, cur |-> ws[w], rev |-> rev]]
IsFree(w) == lock[w].by = None

(* Ids are random: one that anything still refers to is never drawn again. *)
FreshSandbox(s) ==
    /\ sb[s].status = "absent" /\ cr[s].pc = "idle" /\ cont[s] = "none"
    /\ records[s] = "none"
    /\ \A c \in Caller : term[c].sb # s
    /\ s \notin reap.todo
FreshWorkspace(w) ==
    /\ ~Exists(w) /\ vol[w] = None /\ IsFree(w)
    /\ w \notin drop \cup mk
    /\ \A s \in Sandbox : cr[s].ws # w
    /\ \A t \in sched : t[2] # w
    /\ \A c \in Caller : term[c].ws # w

-----------------------------------------------------------------------------
(* Requests on workspaces.  The only caller of create_workspace draws a    *)
(* new id for each request, and uses it once the request has returned.     *)
RequestWorkspace(w) ==
    /\ Up /\ w \notin Ephemeral /\ FreshWorkspace(w)
    /\ CreateWorkspace(w)
    /\ mk' = mk \cup {w}
    /\ UNCHANGED <<opVars, boot, records, cr, term, lock, sched, drop, reap, dockerVars, repo,
                   ghostVars, crashes>>

EnsureRequested(w) ==
    /\ w \in mk
    /\ mk' = mk \ {w}
    /\ vol' \in {vol, Mounted(w)}
    /\ UNCHANGED <<storeVars, opVars, boot, records, cr, term, lock, sched, drop, reap, cont,
                   repo, ghostVars, crashes>>

(* release_workspace: with a writer, terminate it first; terminate needs   *)
(* its in-memory record.                                                   *)
RequestRelease(c, w) ==
    /\ "release" \in Inputs /\ Up /\ w \notin Ephemeral \cup mk /\ Exists(w) /\ term[c] = NoTerm
    /\ \/ /\ ws[w].active # None /\ records[ws[w].active] # "none"
          /\ term' = [term EXCEPT ![c] = [pc |-> "remove", sb |-> ws[w].active, ws |-> w]]
          /\ UNCHANGED storeVars
       \/ /\ ws[w].active = None
          /\ ScheduleWorkspaceDelete(w)
          /\ UNCHANGED term
    /\ UNCHANGED <<opVars, boot, records, cr, lock, sched, drop, mk, reap, dockerVars, repo,
                   ghostVars, crashes>>

(* create_operation: checkpoint.  A clean workspace needs none: its        *)
(* operation succeeds at once.                                             *)
RequestCheckpoint(w) ==
    /\ "checkpoint" \in Inputs /\ Up /\ w \notin mk /\ Exists(w) /\ ws[w].active = None
    /\ \/ /\ ws[w].status = "detached_clean"
          /\ ops' = [ops EXCEPT ![CheckpointKey(w)] = "succeeded"]
          /\ UNCHANGED sched
       \/ /\ ws[w].status = "detached_dirty"
          /\ ops[CheckpointKey(w)] \in {"absent", "failed"}
          /\ ops' = [ops EXCEPT ![CheckpointKey(w)] = "pending"]
          /\ sched' = sched \cup {<<"checkpoint", w, 0>>}
    /\ UNCHANGED <<storeVars, boot, records, cr, term, lock, drop, mk, reap, dockerVars, repo,
                   ghostVars, crashes>>

(* create_operation: restore, of the head revision only *)
RequestRestore(w) ==
    /\ "restore" \in Inputs /\ Up /\ ws[w].head # None /\ ws[w].active = None
    /\ ws[w].status \in {"remote_only", "detached_clean"}
    /\ LET key == RestoreKey(w, ws[w].head) IN
          /\ ops[key] \in {"absent", "failed"}
          /\ ops' = [ops EXCEPT ![key] = "pending"]
          /\ sched' = sched \cup {<<"restore", w, ws[w].head>>}
    /\ UNCHANGED <<storeVars, boot, records, cr, term, lock, drop, mk, reap, dockerVars, repo,
                   ghostVars, crashes>>

(* _restore_requested_workspace looks at the status, then calls            *)
(* _prepare_workspace, which waits for the lock.                           *)
StartRestore(w, rev) ==
    /\ <<"restore", w, rev>> \in sched
    /\ \/ /\ ws[w].status = "remote_only"
          /\ sched' = (sched \ {<<"restore", w, rev>>}) \cup {<<"await_restore", w, rev>>}
          /\ UNCHANGED ops
       \/ /\ ws[w].status # "remote_only"
          /\ sched' = sched \ {<<"restore", w, rev>>}
          /\ ops' = UpdateOperation(ops, RestoreKey(w, rev),
                        IF ws[w].status = "detached_clean" THEN "succeeded" ELSE "failed")
    /\ UNCHANGED <<storeVars, boot, records, cr, term, lock, drop, mk, reap, dockerVars, repo,
                   ghostVars, crashes>>

LockForRestore(w, rev) ==
    /\ <<"await_restore", w, rev>> \in sched
    /\ IsFree(w)
    /\ sched' = sched \ {<<"await_restore", w, rev>>}
    /\ \/ Exists(w) /\ LockTaken(w, "restore", "inspect", rev)
       \/ ~Exists(w) /\ UNCHANGED lock
    /\ UNCHANGED <<storeVars, opVars, boot, records, cr, term, drop, mk, reap, dockerVars, repo,
                   ghostVars, crashes>>

-----------------------------------------------------------------------------
(* _prepare_workspace, entered with the lock held.  lock[w].cur is its     *)
(* local variable `current`.                                               *)
PrepareReturns(w) ==
    /\ Unlock(w)
    /\ cr' = IF lock[w].by \in Sandbox THEN [cr EXCEPT ![lock[w].by].pc = "mount"] ELSE cr

(* Deviation: the requested restore leaves its operation as it is. *)
RaiseForgetsOperation(w, o) ==
    /\ Unlock(w)
    /\ \/ /\ lock[w].by \in Sandbox
          /\ cr' = [cr EXCEPT ![lock[w].by] = NoCreate]
          /\ drop' = drop \cup ({w} \cap Ephemeral)
          /\ ops' = o
       \/ /\ lock[w].by = "restore"
          /\ ops' = o
          /\ UNCHANGED <<cr, drop>>

(* The exception reaches create(), which drops an ephemeral workspace, or  *)
(* the requested restore, which fails its operation.  o is the operations  *)
(* table as _prepare_workspace left it.                                    *)
PrepareRaises(w, o) ==
    /\ Unlock(w)
    /\ \/ /\ lock[w].by \in Sandbox
          /\ cr' = [cr EXCEPT ![lock[w].by] = NoCreate]
          /\ drop' = drop \cup ({w} \cap Ephemeral)
          /\ ops' = o
       \/ /\ lock[w].by = "restore"
          /\ ops' = UpdateOperation(o, RestoreKey(w, lock[w].rev), "failed")
          /\ UNCHANGED <<cr, drop>>

LockForCreate(s) ==
    LET w == cr[s].ws IN
    /\ cr[s].pc = "prepare" /\ IsFree(w)
    /\ \/ /\ Exists(w)
          /\ LockTaken(w, s, "inspect", 0)
          /\ cr' = [cr EXCEPT ![s].pc = "locked"]
       \/ /\ ~Exists(w)
          /\ cr' = [cr EXCEPT ![s] = NoCreate]
          /\ UNCHANGED lock
    /\ UNCHANGED <<storeVars, opVars, boot, records, term, sched, drop, mk, reap, dockerVars,
                   repo, ghostVars, crashes>>

(* A Docker call that raises outside the try of the restore *)
PrepareFails(w) ==
    /\ lock[w].pc \in {"inspect", "materialize", "clear", "ensure"}
    /\ PrepareRaises(w, ops)
    /\ UNCHANGED <<storeVars, boot, records, term, sched, mk, reap, dockerVars, repo, ghostVars,
                   crashes>>

(* The volume was looked up after `current` was read. *)
InspectFound(w) ==
    /\ lock[w].pc = "inspect" /\ vol[w] # None /\ lock[w].cur.status # "remote_only"
    /\ PrepareReturns(w)
    /\ UNCHANGED <<storeVars, opVars, boot, records, term, sched, drop, mk, reap, dockerVars,
                   repo, ghostVars, crashes>>

InspectRemote(w) ==
    /\ lock[w].pc = "inspect" /\ lock[w].cur.status = "remote_only"
    /\ lock[w].cur.head # None
    /\ Goto(w, "clear")
    /\ UNCHANGED <<storeVars, opVars, boot, records, cr, term, sched, drop, mk, reap, dockerVars,
                   repo, ghostVars, crashes>>

(* The local volume of a workspace with a head is gone: restore it, unless *)
(* the row says the volume held something else.                            *)
InspectLost(w) ==
    /\ lock[w].pc = "inspect" /\ vol[w] = None /\ lock[w].cur.status # "remote_only"
    /\ lock[w].cur.head # None /\ lock[w].cur.active = None
    /\ \/ /\ TransitionWorkspace(w, {"detached_clean"}, "remote_only")
          /\ Goto(w, "clear")
          /\ UNCHANGED <<ops, cr, drop>>
       \/ /\ ~TransitionOK(w, {"detached_clean"})
          /\ PrepareRaises(w, ops)
          /\ UNCHANGED storeVars
    /\ UNCHANGED <<boot, records, term, sched, mk, reap, dockerVars, repo, ghostVars, crashes>>

InspectMissing(w) ==
    /\ lock[w].pc = "inspect" /\ vol[w] = None /\ lock[w].cur.status # "remote_only"
    /\ lock[w].cur.head = None \/ lock[w].cur.active # None
    /\ \/ /\ lock[w].cur.status = "detached_dirty"
          /\ PrepareRaises(w, ops)
       \/ /\ lock[w].cur.status # "detached_dirty"
          /\ Goto(w, "materialize")
          /\ UNCHANGED <<ops, cr, drop>>
    /\ UNCHANGED <<storeVars, boot, records, term, sched, mk, reap, dockerVars, repo, ghostVars,
                   crashes>>

Materialize(w) ==
    /\ lock[w].pc = "materialize"
    /\ vol' = Mounted(w)
    /\ PrepareReturns(w)
    /\ UNCHANGED <<storeVars, opVars, boot, records, term, sched, drop, mk, reap, cont, repo,
                   ghostVars, crashes>>

ClearTarget(w) ==
    /\ lock[w].pc = "clear"
    /\ RemoveVolume(w)
    /\ Goto(w, "ensure")
    /\ UNCHANGED <<storeVars, opVars, boot, records, cr, term, sched, drop, mk, reap, cont, repo,
                   ghostVars, crashes>>

(* The target exists; the operation row is created or found again, and the *)
(* row leaves remote_only, unless it has done so already.                  *)
EnsureTarget(w) ==
    LET key == RestoreKey(w, lock[w].cur.head)
        created == CreateOperation(ops, key)
    IN
    /\ lock[w].pc = "ensure"
    /\ vol' = Mounted(w)
    /\ \/ /\ TransitionWorkspace(w, {"remote_only"}, "restoring")
          /\ ops' = UpdateOperation(created, key, "running")
          /\ Goto(w, "restore")
       \/ /\ ~TransitionOK(w, {"remote_only"})
          /\ ops' = created
          /\ Goto(w, "rollback")
          /\ UNCHANGED storeVars
    /\ UNCHANGED <<boot, records, cr, term, sched, drop, mk, reap, cont, repo, ghostVars,
                   crashes>>

(* Deviation: a half-restored volume passes for a restored one. *)
RestoreUnverified(w) ==
    /\ lock[w].pc = "restore"
    /\ Goto(w, "restored")
    /\ vol' \in {[vol EXCEPT ![w] = lock[w].cur.head], [vol EXCEPT ![w] = Partial]}
    /\ UNCHANGED <<storeVars, opVars, boot, records, cr, term, sched, drop, mk, reap, cont, repo,
                   ghostVars, crashes>>

(* The restore container: it writes only into an empty target, from a      *)
(* snapshot that exists; when it fails it may have written part of it.     *)
RunRestore(w) ==
    /\ lock[w].pc = "restore"
    /\ \/ /\ Mounted(w)[w] = 0 /\ lock[w].cur.head \in repo[w]
          /\ vol' = [vol EXCEPT ![w] = lock[w].cur.head]
          /\ Goto(w, "restored")
       \/ /\ vol' \in {Mounted(w), [vol EXCEPT ![w] = IF Mounted(w)[w] = 0 THEN Partial ELSE @]}
          /\ Goto(w, "rollback")
    /\ UNCHANGED <<storeVars, opVars, boot, records, cr, term, sched, drop, mk, reap, cont, repo,
                   ghostVars, crashes>>

FinishRestore(w) ==
    /\ lock[w].pc = "restored"
    /\ ops' = UpdateOperation(ops, RestoreKey(w, lock[w].cur.head), "succeeded")
    /\ TransitionWorkspace(w, {"restoring"}, "detached_clean")
    /\ PrepareReturns(w)
    /\ UNCHANGED <<boot, records, term, sched, drop, mk, reap, dockerVars, repo, ghostVars,
                   crashes>>

RollBack(w) ==
    /\ lock[w].pc = "rollback"
    /\ RemoveVolume(w)
    /\ PrepareRaises(w, UpdateOperation(ops, RestoreKey(w, lock[w].cur.head), "failed"))
    /\ \/ TransitionWorkspace(w, {"restoring"}, "remote_only")
       \/ ~TransitionOK(w, {"restoring"}) /\ UNCHANGED storeVars
    /\ UNCHANGED <<boot, records, term, sched, mk, reap, cont, repo, ghostVars, crashes>>

-----------------------------------------------------------------------------
(* create(): a sandbox for a recoverable workspace, or for a new ephemeral *)
(* one.                                                                    *)
RequestSandbox(s, w) ==
    /\ Up /\ FreshSandbox(s)
    /\ \/ w \notin Ephemeral \cup mk /\ Exists(w) /\ UNCHANGED storeVars
       \/ w \in Ephemeral /\ FreshWorkspace(w) /\ CreateWorkspace(w)
    /\ cr' = [cr EXCEPT ![s] = [pc |-> "prepare", ws |-> w]]
    /\ UNCHANGED <<opVars, boot, records, term, lock, sched, drop, mk, reap, dockerVars, repo,
                   ghostVars, crashes>>

(* What create() does when it gives up before the claim, or after it has   *)
(* finished the failed sandbox.                                            *)
CreateGivesUp(s) ==
    /\ cr' = [cr EXCEPT ![s] = NoCreate]
    /\ drop' = drop \cup ({cr[s].ws} \cap Ephemeral)

(* The prepare container; two for one workspace would have the same name.  *)
StartPrepare(s) ==
    /\ cr[s].pc = "mount"
    /\ ~\E r \in Sandbox : cr[r].pc = "preparing" /\ cr[r].ws = cr[s].ws
    /\ vol' = Mounted(cr[s].ws)
    /\ cr' = [cr EXCEPT ![s].pc = "preparing"]
    /\ UNCHANGED <<storeVars, opVars, boot, records, term, lock, sched, drop, mk, reap, cont,
                   repo, ghostVars, crashes>>

FinishPrepare(s) ==
    /\ cr[s].pc = "preparing"
    /\ cr' = [cr EXCEPT ![s].pc = "claim"]
    /\ UNCHANGED <<storeVars, opVars, boot, records, term, lock, sched, drop, mk, reap,
                   dockerVars, repo, ghostVars, crashes>>

PrepareContainerFails(s) ==
    /\ cr[s].pc \in {"mount", "preparing"}
    /\ CreateGivesUp(s)
    /\ UNCHANGED <<storeVars, opVars, boot, records, term, lock, sched, mk, reap, dockerVars,
                   repo, ghostVars, crashes>>

(* The claim is one transaction; the workspace lock is not held. *)
Claim(s) ==
    /\ cr[s].pc = "claim"
    /\ ClaimWorkspace(cr[s].ws, s)
    /\ cr' = [cr EXCEPT ![s].pc = "create"]
    /\ UNCHANGED <<opVars, boot, records, term, lock, sched, drop, mk, reap, dockerVars, repo,
                   ghostVars, crashes>>

ClaimRefused(s) ==
    /\ cr[s].pc = "claim"
    /\ ~ClaimOK(cr[s].ws, s)
    /\ CreateGivesUp(s)
    /\ UNCHANGED <<storeVars, opVars, boot, records, term, lock, sched, mk, reap, dockerVars,
                   repo, ghostVars, crashes>>

CreateContainer(s) ==
    /\ cr[s].pc = "create"
    /\ cont' = [cont EXCEPT ![s] = "stopped"]
    /\ vol' = Mounted(cr[s].ws)
    /\ cr' = [cr EXCEPT ![s].pc = "start"]
    /\ UNCHANGED <<storeVars, opVars, boot, records, term, lock, sched, drop, mk, reap, repo,
                   ghostVars, crashes>>

StartContainer(s) ==
    /\ cr[s].pc = "start"
    /\ cont' = [cont EXCEPT ![s] = "running"]
    /\ cr' = [cr EXCEPT ![s].pc = "wait"]
    /\ UNCHANGED <<storeVars, opVars, boot, records, term, lock, sched, drop, mk, reap, vol,
                   repo, ghostVars, crashes>>

WorkerReady(s) ==
    /\ cr[s].pc = "wait" /\ cont[s] = "running"
    /\ MarkSandboxRunning(s)
    /\ records' = [records EXCEPT ![s] = sb[s].lease]
    /\ cr' = [cr EXCEPT ![s] = NoCreate]
    /\ UNCHANGED <<opVars, boot, term, lock, sched, drop, mk, reap, dockerVars, repo, ghostVars,
                   crashes>>

LaunchFails(s) ==
    /\ cr[s].pc \in {"create", "start", "wait"}
    /\ cr' = [cr EXCEPT ![s].pc = IF cont[s] = "none" THEN "failed" ELSE "unwind"]
    /\ UNCHANGED <<storeVars, opVars, boot, records, term, lock, sched, drop, mk, reap,
                   dockerVars, repo, ghostVars, crashes>>

(* A container that cannot be removed is left to the reaper: its record is *)
(* kept, already expired.                                                  *)
RemoveFailedContainer(s) ==
    /\ cr[s].pc = "unwind"
    /\ \/ /\ cont' = [cont EXCEPT ![s] = "none"]
          /\ cr' = [cr EXCEPT ![s].pc = "failed"]
          /\ UNCHANGED records
       \/ /\ records' = [records EXCEPT ![s] = "expired"]
          /\ cr' = [cr EXCEPT ![s] = NoCreate]
          /\ UNCHANGED cont
    /\ UNCHANGED <<storeVars, opVars, boot, term, lock, sched, drop, mk, reap, vol, repo,
                   ghostVars, crashes>>

FinishFailedCreation(s) ==
    /\ cr[s].pc = "failed"
    /\ FinishSandbox(s, "failed", FinishedStatus(cr[s].ws))
    /\ CreateGivesUp(s)
    /\ UNCHANGED <<opVars, boot, records, term, lock, sched, mk, reap, dockerVars, repo,
                   ghostVars, crashes>>

-----------------------------------------------------------------------------
(* renew() may have looked at the container before a terminate() took it.  *)
Renew(s) ==
    /\ "renew" \in Inputs /\ Up
    /\ RenewSandbox(s)
    /\ \/ /\ records[s] # "none" /\ cont[s] = "running"
          /\ records' = [records EXCEPT ![s] = "valid"]
       \/ /\ \E c \in Caller : term[c].pc = "finish" /\ term[c].sb = s
          /\ UNCHANGED records
    /\ UNCHANGED <<opVars, boot, cr, term, lock, sched, drop, mk, reap, dockerVars, repo,
                   ghostVars, crashes>>

(* terminate(), which release_workspace and the reaper call as well.  Two  *)
(* calls for one sandbox may be under way together.                        *)
RequestTerminate(c, s) ==
    /\ "terminate" \in Inputs /\ Up /\ records[s] # "none" /\ term[c] = NoTerm
    /\ term' = [term EXCEPT ![c] = [pc |-> "remove", sb |-> s, ws |-> None]]
    /\ UNCHANGED <<storeVars, opVars, boot, records, cr, lock, sched, drop, mk, reap,
                   dockerVars, repo, ghostVars, crashes>>

(* Deviation: a container that cannot be removed does not stop terminate(). *)
RemoveContainerSuppressed(c) ==
    LET s == term[c].sb IN
    /\ term[c].pc = "remove"
    /\ cont' \in {cont, [cont EXCEPT ![s] = "none"]}
    /\ records' = [records EXCEPT ![s] = "none"]
    /\ term' = [term EXCEPT ![c].pc = "finish"]
    /\ UNCHANGED <<storeVars, opVars, boot, cr, lock, sched, drop, mk, reap, vol, repo,
                   ghostVars, crashes>>

(* Deviation: the record goes first. *)
RemoveContainerForgets(c) ==
    LET s == term[c].sb IN
    /\ term[c].pc = "remove"
    /\ records' = [records EXCEPT ![s] = "none"]
    /\ \/ /\ cont' = [cont EXCEPT ![s] = "none"]
          /\ term' = [term EXCEPT ![c].pc = "finish"]
       \/ /\ cont[s] # "none"
          /\ term' = [term EXCEPT ![c] = NoTerm]
          /\ UNCHANGED cont
    /\ UNCHANGED <<storeVars, opVars, boot, cr, lock, sched, drop, mk, reap, vol, repo,
                   ghostVars, crashes>>

RemoveContainer(c) ==
    LET s == term[c].sb IN
    /\ term[c].pc = "remove"
    /\ \/ /\ cont' = [cont EXCEPT ![s] = "none"]
          /\ records' = [records EXCEPT ![s] = "none"]
          /\ term' = [term EXCEPT ![c].pc = "finish"]
       \/ /\ cont[s] # "none"
          /\ term' = [term EXCEPT ![c] = NoTerm]
          /\ UNCHANGED <<cont, records>>
    /\ UNCHANGED <<storeVars, opVars, boot, cr, lock, sched, drop, mk, reap, vol, repo,
                   ghostVars, crashes>>

FinishTerminated(c) ==
    LET s == term[c].sb
        w == sb[s].ws
    IN
    /\ term[c].pc = "finish"
    /\ \/ /\ w # None
          /\ FinishSandbox(s, "terminated", FinishedStatus(w))
          /\ IF w \in Ephemeral
             THEN drop' = drop \cup {w} /\ UNCHANGED sched
             ELSE sched' = sched \cup {<<"checkpoint", w, 0>>} /\ UNCHANGED drop
       \/ /\ w = None
          /\ UNCHANGED <<storeVars, drop, sched>>
    /\ term' = [term EXCEPT ![c] = IF @.ws = None THEN NoTerm ELSE [@ EXCEPT !.pc = "schedule"]]
    /\ UNCHANGED <<opVars, boot, records, cr, lock, mk, reap, dockerVars, repo, ghostVars,
                   crashes>>

ScheduleDelete(c) ==
    /\ term[c].pc = "schedule"
    /\ \/ ScheduleWorkspaceDelete(term[c].ws)
       \/ ~Exists(term[c].ws) /\ UNCHANGED storeVars
    /\ term' = [term EXCEPT ![c] = NoTerm]
    /\ UNCHANGED <<opVars, boot, records, cr, lock, sched, drop, mk, reap, dockerVars, repo,
                   ghostVars, crashes>>

(* DELETE the workspace with its sandboxes and operations *)
DeleteRows(w) ==
    /\ DeleteWorkspace(w)
    /\ ops' = [key \in OpKey |-> IF key[2] = w THEN "absent" ELSE ops[key]]
    /\ latest' = [latest EXCEPT ![w] = 0]

(* The end of every path that gives up an ephemeral workspace *)
DropEphemeral(w) ==
    /\ w \in drop
    /\ RemoveVolume(w)
    /\ drop' = drop \ {w}
    /\ \/ DeleteRows(w)
       \/ ~DeleteOK(w) /\ UNCHANGED <<storeVars, ops, latest>>
    /\ UNCHANGED <<boot, records, cr, term, lock, sched, mk, reap, cont, repo, writes, crashes>>

-----------------------------------------------------------------------------
(* _checkpoint_workspace *)
StartCheckpoint(w) ==
    LET key == CheckpointKey(w)
        created == CreateOperation(ops, key)
        wanted == ws[w].active = None /\ ws[w].status = "detached_dirty"
    IN
    /\ <<"checkpoint", w, 0>> \in sched /\ IsFree(w)
    /\ sched' = sched \ {<<"checkpoint", w, 0>>}
    /\ \/ /\ wanted /\ created[key] # "succeeded"
          /\ TransitionWorkspace(w, {"detached_dirty"}, "checkpointing")
          /\ ops' = UpdateOperation(created, key, "running")
          /\ LockTaken(w, "checkpoint", "snapshot", 0)
       \/ /\ ~wanted \/ created[key] = "succeeded"
          /\ UNCHANGED <<storeVars, ops, lock>>
    /\ UNCHANGED <<boot, records, cr, term, drop, mk, reap, dockerVars, repo, ghostVars, crashes>>

CheckpointFails(w) ==
    /\ Unlock(w)
    /\ ops' = UpdateOperation(ops, <<"checkpoint", w, lock[w].cur.gen>>, "failed")
    /\ TransitionWorkspace(w, {"checkpointing"}, "detached_dirty")

(* The checkpoint container; one that fails or times out may have stored   *)
(* its snapshot all the same.                                              *)
RunCheckpoint(w) ==
    /\ lock[w].pc = "snapshot"
    /\ vol' = Mounted(w)
    /\ \/ /\ repo' = [repo EXCEPT ![w] = @ \cup {vol'[w]}]
          /\ lock' = [lock EXCEPT ![w].pc = "commit", ![w].rev = vol'[w]]
          /\ UNCHANGED <<storeVars, ops>>
       \/ /\ repo' \in {repo, [repo EXCEPT ![w] = @ \cup {vol'[w]}]}
          /\ CheckpointFails(w)
    /\ UNCHANGED <<boot, records, cr, term, sched, drop, mk, reap, cont, ghostVars, crashes>>

CommitCheckpoint(w) ==
    /\ lock[w].pc = "commit"
    /\ CommitRevision(w, lock[w].cur.gen, lock[w].rev)
    /\ ops' = UpdateOperation(ops, <<"checkpoint", w, lock[w].cur.gen>>, "succeeded")
    /\ Unlock(w)
    /\ UNCHANGED <<boot, records, cr, term, sched, drop, mk, reap, dockerVars, repo, ghostVars,
                   crashes>>

-----------------------------------------------------------------------------
(* Deviation: retirement starts with the row as it is. *)
RetireInPlace(w) ==
    LET key == RetireKey(w) IN
    /\ <<"retire", w, 0>> \in sched /\ IsFree(w)
    /\ sched' = sched \ {<<"retire", w, 0>>}
    /\ ws[w].del = "due" /\ ws[w].active = None
    /\ ws[w].status \in {"detached_clean", "remote_only"}
    /\ ops' = UpdateOperation(CreateOperation(ops, key), key, "running")
    /\ LockTaken(w, "retire", IF ws[w].head # None THEN "erase" ELSE "discard", 0)
    /\ UNCHANGED <<storeVars, boot, records, cr, term, drop, mk, reap, dockerVars, repo,
                   ghostVars, crashes>>

(* _retire_workspace *)
StartRetire(w) ==
    LET key == RetireKey(w)
        running == UpdateOperation(CreateOperation(ops, key), key, "running")
        wanted == /\ ws[w].del = "due" /\ ws[w].active = None
                  /\ ws[w].status \in {"detached_clean", "remote_only", "deleting"}
    IN
    /\ <<"retire", w, 0>> \in sched /\ IsFree(w)
    /\ sched' = sched \ {<<"retire", w, 0>>}
    /\ \/ /\ wanted
          /\ \/ TransitionWorkspace(w, {"detached_clean", "remote_only"}, "deleting")
             \/ ws[w].status = "deleting" /\ UNCHANGED storeVars
          /\ \/ /\ ws[w].head # None
                /\ ops' = running
                /\ LockTaken(w, "retire", "erase", 0)
             \/ /\ ws[w].head = None
                /\ ops' = UpdateOperation(running, key, "succeeded")
                /\ LockTaken(w, "retire", "discard", 0)
       \/ /\ ~wanted
          /\ UNCHANGED <<storeVars, ops, lock>>
    /\ UNCHANGED <<boot, records, cr, term, drop, mk, reap, dockerVars, repo, ghostVars, crashes>>

(* The retire container deletes the repository object by object. *)
EraseRepository(w) ==
    /\ lock[w].pc = "erase"
    /\ \/ /\ repo' = [repo EXCEPT ![w] = {}]
          /\ ops' = UpdateOperation(ops, RetireKey(w), "succeeded")
          /\ Goto(w, "discard")
       \/ /\ \E rest \in SUBSET repo[w] : repo' = [repo EXCEPT ![w] = rest]
          /\ ops' = UpdateOperation(ops, RetireKey(w), "failed")
          /\ Unlock(w)
    /\ UNCHANGED <<storeVars, boot, records, cr, term, sched, drop, mk, reap, dockerVars,
                   ghostVars, crashes>>

(* _remove_volume_checked, then the row *)
DiscardRetired(w) ==
    /\ lock[w].pc = "discard"
    /\ \/ /\ None \in RemovableVolumes(w)
          /\ vol' = [vol EXCEPT ![w] = None]
          /\ DeleteRows(w)
       \/ /\ vol[w] # None
          /\ ops' = UpdateOperation(ops, RetireKey(w), "failed")
          /\ UNCHANGED <<storeVars, vol, latest>>
    /\ Unlock(w)
    /\ UNCHANGED <<boot, records, cr, term, sched, drop, mk, reap, cont, repo, writes, crashes>>

-----------------------------------------------------------------------------
(* The reaper: terminate what it found expired, one at a time; schedule    *)
(* checkpoints and retirements; then clean up, one workspace at a time.    *)
ReaperTerminating(s) ==
    term' = [term EXCEPT !["reaper"] = [pc |-> "remove", sb |-> s, ws |-> None]]

ReaperWakes ==
    LET expired == {s \in Sandbox : records[s] = "expired"} IN
    /\ Up /\ reap.pc = "sleep"
    /\ \/ /\ expired = {}
          /\ reap' = [pc |-> "reap", todo |-> {}]
          /\ UNCHANGED term
       \/ \E s \in expired :
            /\ reap' = [pc |-> "reap", todo |-> expired \ {s}]
            /\ ReaperTerminating(s)
    /\ UNCHANGED <<storeVars, opVars, boot, records, cr, lock, sched, drop, mk, dockerVars,
                   repo, ghostVars, crashes>>

ReaperTerminates(s) ==
    /\ reap.pc = "reap" /\ term["reaper"] = NoTerm /\ s \in reap.todo
    /\ reap' = [reap EXCEPT !.todo = @ \ {s}]
    /\ IF records[s] = "none" THEN UNCHANGED term ELSE ReaperTerminating(s)
    /\ UNCHANGED <<storeVars, opVars, boot, records, cr, lock, sched, drop, mk, dockerVars, repo,
                   ghostVars, crashes>>

(* Deviation: a retirement that was cut off is not a candidate. *)
RetireOnce(w) ==
    /\ w \notin Ephemeral /\ ws[w].active = None /\ ws[w].del = "due"
    /\ ws[w].status \in {"detached_clean", "remote_only"}
    /\ ~Incomplete(w)

RetireCandidate(w) ==
    /\ w \notin Ephemeral /\ ws[w].active = None /\ ws[w].del = "due"
    /\ ws[w].status \in {"detached_clean", "remote_only", "deleting"}
    /\ ~Incomplete(w)
Evictable(w) ==
    /\ ws[w].status = "detached_clean" /\ ws[w].head # None
    /\ ws[w].active = None /\ ws[w].aged
CleanupCandidate(w) == w \notin Ephemeral /\ Evictable(w) /\ ~Incomplete(w)

(* Deviation: checkpoints are left to terminate(). *)
ReaperSkipsDirty ==
    /\ reap.pc = "reap" /\ reap.todo = {} /\ term["reaper"] = NoTerm
    /\ sched' = sched \cup {<<"retire", w, 0>> : w \in {v \in Workspace : RetireCandidate(v)}}
    /\ reap' = [pc |-> "clean", todo |-> {w \in Workspace : CleanupCandidate(w)}]
    /\ UNCHANGED <<storeVars, opVars, boot, records, cr, term, lock, drop, mk, dockerVars, repo,
                   ghostVars, crashes>>

ReaperSchedules ==
    /\ reap.pc = "reap" /\ reap.todo = {} /\ term["reaper"] = NoTerm
    /\ sched' = sched
          \cup {<<"checkpoint", w, 0>> : w \in {v \in Workspace : ws[v].status = "detached_dirty"}}
          \cup {<<"retire", w, 0>> : w \in {v \in Workspace : RetireCandidate(v)}}
    /\ reap' = [pc |-> "clean", todo |-> {w \in Workspace : CleanupCandidate(w)}]
    /\ UNCHANGED <<storeVars, opVars, boot, records, cr, term, lock, drop, mk, dockerVars, repo,
                   ghostVars, crashes>>

Cleaning == \E w \in Workspace : lock[w].by = "cleanup"

(* Deviation: what held when the candidates were listed still holds. *)
CleanupUnchecked(w) ==
    /\ reap.pc = "clean" /\ w \in reap.todo /\ ~Cleaning /\ IsFree(w)
    /\ reap' = [reap EXCEPT !.todo = @ \ {w}]
    /\ LockTaken(w, "cleanup", "evict", 0)
    /\ UNCHANGED <<storeVars, opVars, boot, records, cr, term, sched, drop, mk, dockerVars, repo,
                   ghostVars, crashes>>

(* _cleanup_local_workspace *)
StartCleanup(w) ==
    /\ reap.pc = "clean" /\ w \in reap.todo /\ ~Cleaning /\ IsFree(w)
    /\ reap' = [reap EXCEPT !.todo = @ \ {w}]
    /\ IF Evictable(w) THEN LockTaken(w, "cleanup", "evict", 0) ELSE UNCHANGED lock
    /\ UNCHANGED <<storeVars, opVars, boot, records, cr, term, sched, drop, mk, dockerVars, repo,
                   ghostVars, crashes>>

EvictVolume(w) ==
    /\ lock[w].pc = "evict"
    /\ \/ /\ None \in RemovableVolumes(w)
          /\ vol' = [vol EXCEPT ![w] = None]
          /\ Goto(w, "evicted")
       \/ /\ vol[w] # None
          /\ Unlock(w)
          /\ UNCHANGED vol
    /\ UNCHANGED <<storeVars, opVars, boot, records, cr, term, sched, drop, mk, reap, cont, repo,
                   ghostVars, crashes>>

FinishCleanup(w) ==
    /\ lock[w].pc = "evicted"
    /\ \/ TransitionWorkspace(w, {"detached_clean"}, "remote_only")
       \/ ~TransitionOK(w, {"detached_clean"}) /\ UNCHANGED storeVars
    /\ Unlock(w)
    /\ UNCHANGED <<opVars, boot, records, cr, term, sched, drop, mk, reap, dockerVars, repo,
                   ghostVars, crashes>>

ReaperSleeps ==
    /\ reap.pc = "clean" /\ reap.todo = {} /\ ~Cleaning
    /\ reap' = Asleep
    /\ UNCHANGED <<storeVars, opVars, boot, records, cr, term, lock, sched, drop, mk, dockerVars,
                   repo, ghostVars, crashes>>

-----------------------------------------------------------------------------
(* Workers write whether the manager is up or not, and may die. *)
WorkerWrites(s) ==
    /\ cont[s] = "running" /\ writes < MaxWrites
    /\ writes' = writes + 1
    /\ vol' = [vol EXCEPT ![sb[s].ws] = writes']
    /\ latest' = [latest EXCEPT ![sb[s].ws] = writes']
    /\ UNCHANGED <<storeVars, opVars, boot, memVars, cont, repo, crashes>>

WorkerDies(s) ==
    /\ "worker dies" \in Inputs /\ cont[s] = "running"
    /\ cont' = [cont EXCEPT ![s] = "stopped"]
    /\ UNCHANGED <<storeVars, opVars, boot, memVars, vol, repo, ghostVars, crashes>>

-----------------------------------------------------------------------------
PassLease(s) ==
    /\ "lease" \in Inputs
    /\ LeaseExpires(s)
    /\ records' = [records EXCEPT ![s] = IF @ = "valid" THEN "expired" ELSE @]
    /\ UNCHANGED <<opVars, boot, cr, term, lock, sched, drop, mk, reap, dockerVars, repo,
                   ghostVars, crashes>>

PassGrace(w) ==
    /\ "grace" \in Inputs
    /\ GraceEnds(w)
    /\ UNCHANGED <<opVars, boot, memVars, dockerVars, repo, ghostVars, crashes>>

PassRetention(w) ==
    /\ "retention" \in Inputs /\ w \notin Ephemeral
    /\ RetentionEnds(w)
    /\ UNCHANGED <<opVars, boot, memVars, dockerVars, repo, ghostVars, crashes>>

-----------------------------------------------------------------------------
(* A crash loses the memory.  A storage container outlives it until        *)
(* startup removes it: it may still finish, fail, or stop half way.        *)
OrphanVolumes(w) ==
    IF lock[w].pc = "restore" /\ vol[w] = 0
    THEN {0, Partial} \cup ({lock[w].cur.head} \cap repo[w])
    ELSE {vol[w]}
OrphanRepositories(w) ==
    CASE lock[w].pc = "snapshot" -> {repo[w], repo[w] \cup ({vol[w]} \ {None})}
      [] lock[w].pc = "erase" -> SUBSET repo[w]
      [] OTHER -> {repo[w]}

Forget ==
    /\ records' = [s \in Sandbox |-> "none"]
    /\ cr' = [s \in Sandbox |-> NoCreate]
    /\ term' = [c \in Caller |-> NoTerm]
    /\ lock' = [w \in Workspace |-> Free]
    /\ sched' = {} /\ drop' = {} /\ mk' = {}
    /\ reap' = Asleep

Crash ==
    /\ boot # "down" /\ crashes < MaxCrashes
    /\ crashes' = crashes + 1
    /\ boot' = "down"
    /\ Forget
    /\ vol' \in {v \in [Workspace -> Revision \cup {None}] : \A w \in Workspace : v[w] \in OrphanVolumes(w)}
    /\ repo' \in {r \in [Workspace -> SUBSET Revision] : \A w \in Workspace : r[w] \in OrphanRepositories(w)}
    /\ UNCHANGED <<storeVars, opVars, cont, ghostVars>>

(* startup() *)
Boot ==
    /\ boot = "down"
    /\ boot' = "reconcile"
    /\ UNCHANGED <<storeVars, opVars, memVars, dockerVars, repo, ghostVars, crashes>>

Adoptable(s) == IsActive(s) /\ sb[s].lease = "valid" /\ cont[s] = "running"

(* _reconcile_managed_containers keeps the healthy workers that hold a     *)
(* lease ...                                                               *)
AdoptContainer(s) ==
    /\ boot = "reconcile" /\ records[s] = "none" /\ Adoptable(s)
    /\ records' = [records EXCEPT ![s] = "valid"]
    /\ \/ MarkSandboxRunning(s)
       \/ sb[s].status = "running" /\ UNCHANGED storeVars
    /\ UNCHANGED <<opVars, boot, cr, term, lock, sched, drop, mk, reap, dockerVars, repo,
                   ghostVars, crashes>>

(* ... removes every other container; startup fails when it cannot ...     *)
RemoveStrayContainer(s) ==
    /\ boot = "reconcile" /\ records[s] = "none" /\ cont[s] # "none" /\ ~Adoptable(s)
    /\ \/ /\ cont' = [cont EXCEPT ![s] = "none"]
          /\ UNCHANGED <<boot, memVars>>
       \/ /\ boot' = "down"
          /\ Forget
          /\ UNCHANGED cont
    /\ UNCHANGED <<storeVars, opVars, vol, repo, ghostVars, crashes>>

(* Deviations: sandboxes finished before their containers are removed, and *)
(* finished without giving up their workspace.                             *)
FinishBeforeRemoval(s) ==
    /\ boot = "reconcile" /\ records[s] = "none" /\ IsActive(s) /\ ~Adoptable(s)
    /\ FinishSandbox(s, "failed", FinishedStatus(sb[s].ws))
    /\ UNCHANGED <<opVars, boot, memVars, dockerVars, repo, ghostVars, crashes>>

FinishSandboxOnly(s) ==
    /\ boot = "reconcile" /\ records[s] = "none" /\ IsActive(s) /\ cont[s] = "none"
    /\ sb' = [sb EXCEPT ![s] = [@ EXCEPT !.status = "failed", !.lease = "none"]]
    /\ UNCHANGED <<ws, opVars, boot, memVars, dockerVars, repo, ghostVars, crashes>>

(* ... and finishes the active sandboxes that have none.                   *)
FinishReconciled(s) ==
    /\ boot = "reconcile" /\ records[s] = "none" /\ IsActive(s) /\ cont[s] = "none"
    /\ FinishSandbox(s, "failed", FinishedStatus(sb[s].ws))
    /\ drop' = drop \cup ({sb[s].ws} \cap Ephemeral)
    /\ UNCHANGED <<opVars, boot, records, cr, term, lock, sched, mk, reap, dockerVars, repo,
                   ghostVars, crashes>>

Reconciled == \A s \in Sandbox : (IsActive(s) \/ cont[s] # "none") => records[s] # "none"

(* Deviation: no orphans are looked for. *)
PurgeNothing ==
    /\ boot = "reconcile" /\ Reconciled /\ drop = {}
    /\ boot' = "operations"
    /\ UNCHANGED <<storeVars, opVars, memVars, dockerVars, repo, ghostVars, crashes>>

(* _cleanup_orphaned_ephemeral_workspaces *)
PurgeOrphans ==
    /\ boot = "reconcile" /\ Reconciled /\ drop = {}
    /\ boot' = "operations"
    /\ drop' = {w \in Ephemeral : ws[w].status = "detached_clean" /\ ws[w].active = None}
    /\ UNCHANGED <<storeVars, opVars, records, cr, term, lock, sched, mk, reap, dockerVars, repo,
                   ghostVars, crashes>>

(* _recover_incomplete_operations: the operations, then the workspaces     *)
RecoverOperations ==
    /\ boot = "operations" /\ drop = {}
    /\ boot' = "workspaces"
    /\ ops' = [key \in OpKey |-> IF ops[key] \in {"pending", "running"} THEN "failed"
                                 ELSE ops[key]]
    /\ UNCHANGED <<storeVars, memVars, dockerVars, repo, ghostVars, crashes>>

RecoverWorkspace(w) ==
    /\ boot = "workspaces"
    /\ \/ /\ TransitionWorkspace(w, {"checkpointing"}, "detached_dirty")
          /\ UNCHANGED vol
       \/ /\ TransitionWorkspace(w, {"restoring"}, "remote_only")
          /\ RemoveVolume(w)
    /\ UNCHANGED <<opVars, boot, memVars, cont, repo, ghostVars, crashes>>

Booted ==
    /\ boot = "workspaces"
    /\ \A w \in Workspace : ws[w].status \notin {"checkpointing", "restoring"}
    /\ boot' = "up"
    /\ UNCHANGED <<storeVars, opVars, memVars, dockerVars, repo, ghostVars, crashes>>

-----------------------------------------------------------------------------
(* What a request asks for, and what the outside world does *)
WorkspaceRequest(w) ==
    \/ RequestWorkspace(w) \/ RequestCheckpoint(w) \/ RequestRestore(w)
    \/ \E s \in Sandbox : RequestSandbox(s, w)
    \/ \E c \in Client : RequestRelease(c, w)
SandboxRequest(s) == Renew(s) \/ \E c \in Client : RequestTerminate(c, s)

(* The steps of one coroutine after the request *)
CreateStep(s) ==
    \/ LockForCreate(s) \/ StartPrepare(s) \/ FinishPrepare(s) \/ PrepareContainerFails(s)
    \/ Claim(s) \/ ClaimRefused(s) \/ CreateContainer(s) \/ StartContainer(s)
    \/ WorkerReady(s) \/ LaunchFails(s) \/ RemoveFailedContainer(s) \/ FinishFailedCreation(s)
TerminateStep(c) == RemoveContainer(c) \/ FinishTerminated(c) \/ ScheduleDelete(c)
PrepareStep(w) ==
    \/ PrepareFails(w) \/ InspectFound(w) \/ InspectRemote(w) \/ InspectLost(w)
    \/ InspectMissing(w) \/ Materialize(w) \/ ClearTarget(w) \/ EnsureTarget(w)
    \/ RunRestore(w) \/ FinishRestore(w) \/ RollBack(w)
CheckpointStep(w) == RunCheckpoint(w) \/ CommitCheckpoint(w)
RetireStep(w) == EraseRepository(w) \/ DiscardRetired(w)
CleanupStep(w) == EvictVolume(w) \/ FinishCleanup(w)
HolderStep(w) == PrepareStep(w) \/ CheckpointStep(w) \/ RetireStep(w) \/ CleanupStep(w)
TaskStart(w) ==
    \/ StartCheckpoint(w) \/ StartRetire(w)
    \/ \E rev \in Revision : StartRestore(w, rev) \/ LockForRestore(w, rev)
ReaperStep ==
    \/ ReaperWakes \/ ReaperSchedules \/ ReaperSleeps
    \/ \E s \in Sandbox : ReaperTerminates(s)
    \/ \E w \in Workspace : StartCleanup(w)
StartupStep ==
    \/ Boot \/ PurgeOrphans \/ RecoverOperations \/ Booted
    \/ \E s \in Sandbox : AdoptContainer(s) \/ RemoveStrayContainer(s) \/ FinishReconciled(s)
    \/ \E w \in Workspace : RecoverWorkspace(w)

Next ==
    \/ \E w \in Workspace :
        \/ WorkspaceRequest(w) \/ TaskStart(w) \/ HolderStep(w)
        \/ EnsureRequested(w) \/ DropEphemeral(w)
        \/ PassGrace(w) \/ PassRetention(w)
    \/ \E s \in Sandbox :
        \/ SandboxRequest(s) \/ CreateStep(s)
        \/ WorkerWrites(s) \/ WorkerDies(s) \/ PassLease(s)
    \/ \E c \in Caller : TerminateStep(c)
    \/ ReaperStep
    \/ Crash
    \/ StartupStep

Spec == Init /\ [][Next]_vars

ContainerRemoved(s) ==
    /\ \/ RemoveStrayContainer(s)
       \/ \E c \in Caller : term[c].sb = s /\ RemoveContainer(c)
    /\ cont'[s] = "none"

(* Every coroutine that can run does run; asyncio.Lock serves its waiters  *)
(* in order, so one that keeps finding it free gets it in the end; the     *)
(* reaper loops for as long as the process is up.  A manager that is down  *)
(* is started again.  Storage that fails works again one day, and so does  *)
(* Docker when asked to remove a container.  Nothing obliges a client to   *)
(* ask for anything, or a deadline to pass.                                *)
Fairness ==
    /\ \A w \in Workspace :
        WF_vars(HolderStep(w)) /\ WF_vars(EnsureRequested(w)) /\ WF_vars(DropEphemeral(w))
    /\ \A w \in Workspace \ Ephemeral :
        /\ SF_vars(StartCheckpoint(w)) /\ SF_vars(StartRetire(w))
        /\ SF_vars(\E rev \in Revision : StartRestore(w, rev) \/ LockForRestore(w, rev))
        /\ SF_vars(RunCheckpoint(w) /\ lock'[w].pc = "commit")
        /\ SF_vars(EraseRepository(w) /\ lock'[w].pc = "discard")
        /\ SF_vars(DiscardRetired(w) /\ vol'[w] = None)
    /\ \A s \in Sandbox :
        /\ SF_vars(CreateStep(s))
        /\ SF_vars(ContainerRemoved(s))
    /\ \A c \in Caller : WF_vars(TerminateStep(c))
    /\ SF_vars(ReaperStep)
    /\ WF_vars(StartupStep)

FairSpec == Spec /\ Fairness

(* create() gives the workspace lock back after _prepare_workspace and     *)
(* claims the workspace later.  ContentSpec is the manager without the     *)
(* reaper taking that lock to clean up the workspace in between.           *)
Window == {"mount", "preparing", "claim"}
CleanupAvoidsCreations ==
    \A w \in Workspace :
        (\E s \in Sandbox : cr[s].ws = w /\ cr[s].pc \in Window) => lock'[w].by # "cleanup"

ContentSpec == Init /\ [][Next /\ CleanupAvoidsCreations]_vars

-----------------------------------------------------------------------------
CreatePc == {"idle", "prepare", "locked", "mount", "preparing", "claim", "create", "start",
             "wait", "unwind", "failed"}
LockPc == {"free", "inspect", "materialize", "clear", "ensure", "restore", "restored",
           "rollback", "snapshot", "commit", "erase", "discard", "evict", "evicted"}
Content == Revision \cup {None}

OpsType == [OpKey -> {"absent", "pending", "running", "succeeded", "failed"}]
LockRow == [by : Sandbox \cup Task \cup {"cleanup", None}, pc : LockPc, cur : WsRow,
            rev : Revision]

QueueTypeOK ==
    /\ ops \in OpsType
    /\ boot \in {"up", "down", "reconcile", "operations", "workspaces"}
    /\ sched \in SUBSET (Task \X Workspace \X Revision)
    /\ drop \in SUBSET Ephemeral /\ mk \in SUBSET Workspace
    /\ reap \in [pc : {"sleep", "reap", "clean"}, todo : SUBSET (Sandbox \cup Workspace)]
RequestTypeOK ==
    /\ records \in [Sandbox -> {"none", "valid", "expired"}]
    /\ cr \in [Sandbox -> [pc : CreatePc, ws : Workspace \cup {None}]]
    /\ \A s \in Sandbox : cr[s].pc # "idle" => cr[s].ws \in Workspace
    /\ term \in [Caller -> [pc : {"idle", "remove", "finish", "schedule"},
                            sb : Sandbox \cup {None}, ws : Workspace \cup {None}]]
    /\ \A c \in Caller : /\ term[c].pc \in {"remove", "finish"} => term[c].sb \in Sandbox
                         /\ term[c].pc = "schedule" => term[c].ws \in Workspace
LockTypeOK == lock \in [Workspace -> LockRow]
DataTypeOK ==
    /\ cont \in [Sandbox -> {"none", "stopped", "running"}]
    /\ vol \in [Workspace -> Content]
    /\ repo \in [Workspace -> SUBSET Revision]
    /\ latest \in [Workspace -> Revision]
    /\ writes \in 0 .. MaxWrites /\ crashes \in 0 .. MaxCrashes
TypeOK == StoreTypeOK /\ QueueTypeOK /\ RequestTypeOK /\ LockTypeOK /\ DataTypeOK

(* The two tables agree on the writer and count the claims through every   *)
(* interleaving of creations, terminations, recoveries and deletions.      *)
Consistent == TypeOK /\ WriterBinding /\ GenerationCountsClaims

WorkersOf(w) == {s \in Sandbox : cont[s] # "none" /\ sb[s].ws = w}

(* A workspace volume is mounted by one worker container at most, whatever *)
(* the creations, terminations, reaping, failed removals, crashes and      *)
(* restarts that led there: the database hands out one writer at a time,   *)
(* and no path may finish a sandbox while its container still exists.      *)
SingleWriter ==
    \A r, s \in Sandbox :
        cont[r] # "none" /\ cont[s] # "none" /\ sb[r].ws = sb[s].ws => r = s

(* A container never outlives its sandbox row's activity.  terminate() and *)
(* startup remove the container first and finish the sandbox afterwards;   *)
(* a container whose removal fails keeps its row active.                   *)
ContainersAreActive == \A s \in Sandbox : cont[s] # "none" => IsActive(s)

(* While a storage container reads or rewrites a workspace -- snapshot,    *)
(* restore, retirement -- no worker container exists for it.  Claims do    *)
(* not take the workspace lock; only the row's status keeps them out.      *)
StorageStepsAreQuiescent ==
    \A w \in Workspace :
        lock[w].pc \in {"snapshot", "commit", "restore", "restored", "erase", "discard"}
            => WorkersOf(w) = {}

(* A committed head can be restored: its snapshot is in the repository     *)
(* until the workspace is being retired, also when a checkpoint failed     *)
(* after storing its snapshot, or the manager died in between.             *)
HeadIsStored ==
    \A w \in Workspace :
        ws[w].status \notin {"absent", "deleting"} /\ ws[w].head # None => ws[w].head \in repo[w]

(* A workspace with content no checkpoint has saved never has a succeeded  *)
(* checkpoint operation for its generation.  The checkpoint task returns   *)
(* at once when it finds one, so such a workspace would stay dirty for     *)
(* ever; the keys must not be reused across claims, crashes or deletions.  *)
DirtyIsNotReportedSaved ==
    \A w \in Workspace :
        ws[w].status \in {"running", "detached_dirty", "checkpointing"}
            => ops[CheckpointKey(w)] # "succeeded"

(* A retirement is never undone: a workspace that is 'deleting' is deleted *)
(* next, by whatever task, retry or restart, and no claim, restore or      *)
(* recovery brings it back with a repository that is already erased.       *)
DeletingIsFinal ==
    [][\A w \in Workspace :
         ws[w].status = "deleting" => ws'[w].status \in {"deleting", "absent"}]_vars

(* What the workers wrote last is never lost: it is in the volume while    *)
(* the workspace is running or dirty, and in the head's snapshot when the  *)
(* volume may go.  Every removal of a volume -- eviction, restore target,  *)
(* roll-back, recovery -- has to respect it.                               *)
LatestIsKept ==
    \A w \in Workspace \ Ephemeral :
        /\ ws[w].status \in {"running", "detached_dirty", "checkpointing"} /\ latest[w] # 0
              => vol[w] = latest[w]
        /\ ws[w].status \in {"detached_clean", "remote_only", "restoring"} /\ latest[w] # 0
              => ws[w].head = latest[w] /\ latest[w] \in repo[w]

(* A volume that holds content no snapshot has is never removed: it is the *)
(* only copy.                                                              *)
OnlyCopyIsKept ==
    [][\A w \in Workspace \ Ephemeral :
         vol[w] \notin {None, 0, Partial} \cup repo[w] => vol'[w] # None]_vars

(* A worker is given the content the previous one left, never an empty,    *)
(* older or half-restored volume.                                          *)
WorkerSeesLatest ==
    \A s \in Sandbox : cont[s] # "none" => vol[sb[s].ws] = latest[sb[s].ws]

(* Content no checkpoint has saved yet does not stay that way: the         *)
(* workspace is saved, claimed by a new writer or deleted.  A checkpoint   *)
(* may fail, be found half done by a restart, or lose its turn to a        *)
(* creation; the reaper and startup have to put it back each time.         *)
DirtyIsSaved ==
    \A w \in Workspace :
        ws[w].status = "detached_dirty" ~> ws[w].status \in {"detached_clean", "running", "absent"}

(* A workspace whose deletion is due is deleted, or claimed again, which   *)
(* calls the deletion off.  Dirty content is checkpointed first; erasing   *)
(* the repository and removing the volume may fail or be cut off by a      *)
(* crash and are taken up again from the row alone.  Clients have to stop  *)
(* asking for sandboxes on it: their prepare containers mount the volume   *)
(* also when the claim is going to be refused.                             *)
DueIsRetired ==
    \A w \in Workspace :
        <>[](\A s \in Sandbox : cr[s].ws # w) => (ws[w].del = "due" ~> ws[w].del # "due")

(* An ephemeral workspace no sandbox was started for is removed: by the    *)
(* creation that gave it up, or by the next startup.                       *)
UnusedEphemeralIsRemoved ==
    \A w \in Ephemeral : ws[w].status = "detached_clean" ~> ws[w].status # "detached_clean"

(* A sandbox whose lease has expired does not stay: it is renewed, or its  *)
(* container is removed and it is finished.  Creation may still be running *)
(* when the lease expires, and a removal may fail, in the reaper or before *)
(* it; the record the reaper goes by has to outlive every failure.         *)
ExpiredIsReaped ==
    \A s \in Sandbox :
        IsActive(s) /\ sb[s].lease = "expired" ~> ~IsActive(s) \/ sb[s].lease = "valid"

(* The persisted operations of a workspace come to an end: the Adapter     *)
(* polls one until it has succeeded or failed, and an unfinished one keeps *)
(* the reaper from evicting or retiring its workspace.                     *)
OperationsEnd == \A w \in Workspace \ Ephemeral : Incomplete(w) ~> ~Incomplete(w)

(* Every step of the manager is one transaction of the store, or none: no  *)
(* handler updates the two tables in a way StateStore does not offer, and  *)
(* no two of its transactions are assumed to be atomic together.           *)
ImplementsStore == StoreSpec
=============================================================================
