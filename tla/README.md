# TLA+ models of litellm-gateway

This directory holds TLA+ specifications of the Agent platform in this
repository, the TLC configurations that check them on small instances, and
TLAPS proofs of what matters most for every size of instance.  `PROJECT.json`
is the index: components, runs, the source lines every definition stands for,
hazards, findings and theorems.

    tlasany SandboxManager.tla                                   # parse
    tlc -workers 2 -config MCSandboxManager_safety.cfg MCSandboxManager
    tlapm SandboxManager_proofs.tla                              # prove

1. The system - 2. Modules - 3. Runs and bounds - 4. Fairness - 5. Where the
code and its documents differ - 6. Proofs - 7. Not modelled - 8. Plan

## 1. The system

A chat in Open WebUI is answered by a Codex agent that runs in a sandbox with a
persistent workspace.

    Browser -> Open WebUI + BFF -> LiteLLM gateway -> Responses Adapter -> Sandbox Worker (Codex)
                    |                                      |                    |
                    |                                      +--> Sandbox Manager-+ (Docker, volumes)
                    +--> Artifact Service <-- storage-ops containers <--+
                              |                        |
                              +------ object storage --+

| Component | State it keeps | Operations | What is hard | What makes it correct |
|---|---|---|---|---|
| **State store** `sandbox_manager/state.py` | SQLite: `workspaces`, `sandboxes`, `operations`, `revisions`, `consumed_nonces` | one IMMEDIATE transaction per method: claim, mark running, renew, finish, transition, commit a revision, delete | callers interleave between transactions; a writer may be finished late or twice | one writer per workspace, both tables agree on it; generations never repeat |
| **Sandbox Manager backend** `sandbox_manager/docker_backend.py` | records of live sandboxes, one asyncio lock per workspace, background tasks, a reaper loop | create, renew, terminate a sandbox; create, release a workspace; checkpoint, restore; evict, retire; checkout, publish; startup reconciliation | every Docker call is an await; the claim is not under the workspace lock; any step can fail; a crash at any await; the reaper works on old lists | one worker container per volume; no storage step beside a worker; content never lost; dirty content saved in the end; operations end |
| **Operation runner** `sandbox_manager/operation_runner.py` | none: one-shot containers and their credentials | checkpoint, restore, retire, prepare, checkout, capture, upload | a container may time out after it did its work, and outlives a manager crash | a failed step leaves nothing that is taken for a good one |
| **storage-ops** `storage_ops/cli.py` | workspace files, spool directory | the same operations, inside the container | a crash between staging, fsync and rename; retries; the agent writes meanwhile | a capture is whole or fails; the stable copy is kept until it is uploaded |
| **Grants and nonces** `sandbox_api/` | consumed nonces in the Manager and in the BFF | verify, consume once | the purge of the table against the expiry check | a grant is used once |
| **Artifact Service** `artifact_service/` | objects: staging, content, manifest | upload and commit, inspect, download, delete | concurrent uploads between copy and conditional put; lost answers | one Artifact has one content, for as long as it is kept |
| **Sandbox Worker** `sandbox_worker/` | bounded event log, pending server requests and calls, a Codex process | rpc, event stream with a cursor, resolve a request | bounded history, process death, a reader that breaks | a reader sees every event in order or learns of the gap; nobody waits for a dead process |
| **Responses Adapter** `codex_responses_adapter/service.py`, `store.py` | responses, active executions, a semaphore, subscribers | create, cancel, delete; drive a turn | driver, client cancel, delete, timeouts and disconnects race | a response ends once, its subscriber sees the end, permits and sandboxes are given back |
| **Event builder** `codex_responses_adapter/events.py` | output items of a response | consume a notification | late, repeated and missing notifications | stream and record tell the same; one terminal event |
| **MCP Apps** `codex_responses_adapter/mcp_apps.py` | interactions, sessions, event history | create, resolve, expire, cancel | a user answers as the timeout fires; bounded history | one answer per question, the one the user was told |
| **BFF** `deploy/open-webui/agent_open_webui/` | chat workspaces, response bindings, publish intents | record a terminal response, drive intents, barriers | click, terminal event, reconciler and restart drive one intent | one upload and one binding; no turn passes a capture barrier |

Interactions: the BFF signs grants; the Adapter passes them to the Manager and
talks to Workers over HTTP; the Manager starts Workers and storage containers
through Docker; storage containers exchange bytes with object storage, the
Artifact Service and the BFF.  Inside each process the coroutines share the
database and memory; an action of a model is what one coroutine does from one
await to the next, with the outcome of the call it awaited.

## 2. Modules

Wrong variants of an operator, placed before it and introduced by the word
"Deviation", show that a property can fail; no specification uses them.  Every
`Max...` constant marked "bound" and the set `Inputs` or `Faults` limit an
instance and are named as such where they are declared.

### StateStore

State: `ws` and `sb`, the rows of the two tables.  Each action is one
transaction; `XOK` is the condition under which it commits.  Timestamps are
abstracted to what queries compare: `delete_after` is none, in its grace
period or due; `updated_at` is old enough for eviction or not; a lease is
valid or expired.  `StoreSpec` lets the callers do anything, so its properties
rest on the transactions alone.  It is the abstract specification that
`SandboxManager` implements (`ImplementsStore`).

### SandboxManager

`cr[s]` is the program counter of a `create()` call, `term[c]` of a
`terminate()` call, `lock[w]` the workspace lock with the program counter and
the local variables of the coroutine that holds it, `sched` the background
tasks that have not got the lock, `reap` the reaper's loop, `boot` the stage of
startup.  `vol`, `cont` and `repo` are Docker's volumes and containers and the
backup repositories; they survive a crash.  Volume content is a number: 0 is
empty, each write by a worker makes the next number, `Partial` is a restore
that was cut off.  `latest` is a ghost: what the last worker left.

A container or volume call may fail, a storage container may fail after doing
its work, Docker creates a missing volume when a container mounts it and
refuses to remove a mounted one, workers write at any time and may die, leases,
grace and retention periods end at any time, and the manager may crash at any
await.  A graceful shutdown cancels the tasks, none of which handles
`CancelledError` by touching state, and is a crash here.

### FileOperations

The publish and checkout operations of one workspace: the row that is found by
its idempotency key (`op`), the task that executes it (`task`), the storage-ops
containers with their place in `cli.py`, the spool with its content, part and
manifest files, the attachments, and the committed Artifacts.  A container is
named after its operation and role, so an operation has two at most: the one
that captures or checks out (`box`) and the one that uploads (`sender`).  It
goes on when the Manager crashes, and when its removal failed, an error the
Manager suppresses; `left` is a ghost that remembers which ones.  While it is
there its name is taken, and a retry fails before it has a container
(`refused`, `unsent`); startup removes all of them.  A container can be cut off
at every step, which leaves its parts.  File contents are versions, `Torn` a
mixture of two.  What the Artifact Service promises is ArtifactMap's contract;
checkpoints and restores take part only as holders of the workspace lock.

### ArtifactMap, ArtifactStore

`ArtifactMap` is the promise: an identifier is bound once and stays bound until
its owner gives it up.  `ArtifactStore` has one step per call to the object
store: multipart upload, completion, copy, conditional put, the inspection that
follows a refused put, clean-up, and the two reads and the batch of `delete()`.
A call fails, or is carried out and its answer lost, or the service crashes
(`MaxFaults` in all).  `Binding` maps manifest and content to the abstract map
(`ImplementsMap`).  The BFF deletes an Artifact only after releasing it, which
is the guard of the deletion.

### Grants

Verification of a grant (`iat`, `exp`, clock skew, lifetime), the consumption
of its nonce with the purge of the table, and the record of what it allows are
three steps; the clock runs in between and the service may restart.  The
Manager and the BFF run the same protocol on a database of their own.

### EventSequence, EventStream

`EventSequence` is the abstract reader of a turn: it consumes what was sent, in
order, or reports a failure; "all" means all.  `EventStream` has the Codex
process, its pipe and reader, the pump into the bounded `EventLog`, the tasks of
server requests, pending calls, and the driver of the Adapter with its
connection, cursor and reconnection.  Notifications are numbered; those of other
turns, which the driver skips, are left out.  `ImplementsSequence` is the
refinement.

### ResponsesAdapter

`_start` step by step, the driver, `cancel()` with its three attempts,
`delete()`, subscribers, permits and sandboxes.  A sandbox has the name of the
response it was created for; a creation that fails may have been carried out.
The end of a turn reaches the record (`builder.consume`) in one step and the
subscriber (after `app/read`) in another, and the deadline may pass between the
two: `cut` has the responses of which it did.  What else a driver does with
events is in EventStream, so a turn has only its end here; a gap, a failed
session or a lease error is `StreamBreaks`.

### EventBuilder

The translation of notifications as a function of the builder's state (`b`), and
the driver that publishes a batch after `app/read`.  Codex may send
notifications of calls and of messages in any order it can send them in; the
response has one message item, whichever of Codex's messages its text comes
from.  Usage, arguments and metadata are data no property is about.

### McpApps

The sections of `McpAppsState`, one step each: a question is created, announced,
answered by a user, taken, expired, told to the Worker; `_cleanup` in its five
steps; streams of side events with their cursors over the bounded history.  A
call that is to answer the Worker may fail; `told` then says `lost`, since it is
not tried again, whether or not it arrived.  One streamed response.

### PublishIntents

The BFF: the terminal event with its grant and its two retries, the response
binding, the rows of the publish intents with their back-off,
`_drive_intent` step by step, the reconciler, the message of the chat with its
lock, the barrier the next turn waits for, crashes.  Behind the Adapter stands
the publish operation (`op`): its phase, its target, and where its stable copy
comes from.  A copy is the answer's own or, when it is taken while the next turn
runs, a later one; behind an upload it may be removed without the Manager
learning that the upload succeeded, and the retry captures again.  `stored` has
the Artifacts with the copy they were made from; an id that is taken keeps its
content (`Takes`).  The Adapter refuses a capture when it has forgotten the
response (`forgotten`), the Manager when the sandbox has ended (`released`), and
the chat may be deleted (`gone`).

### MC modules

`MCSandboxManager`, `MCFileOperations`, `MCEventStream`, `MCPublishIntents`,
`MCResponsesAdapter` and `MCMcpApps` instantiate one module each.  `MCServices`
extends Grants, ArtifactStore and EventBuilder, side by side; they share no state,
and a behaviour runs the one it chose at the start (`part`), so the states of
the run are the sum of theirs.  Symmetry is used in runs without liveness only.
`OneUse` restricts what clients of the run `progress` ask for (section 5, *orphan*); it
is a conjunct of the next-state relation, and no coroutine's step depends on it.
`CleanupAvoidsCreations` of `SandboxManager` says of a step that the reaper does
not take the lock of a workspace between the preparation and the claim of a
creation.  It is the action constraint of the run `content` and a conjunct of
`ContentSpec`, the specification whose theorems state the same properties;
without it they are false (section 5, *eviction*).

`CHECK_DEADLOCK FALSE` stands where the system may really come to rest: all
turns, uploads, intents and requests of an instance are done and nobody asks for
more.  The Manager never rests (its reaper loops), so deadlock is checked there.

## 3. Runs and bounds

| Run | Instance | Shows |
|---|---|---|
| `safety` | 1 workspace, 2 sandboxes, 1 write, 1 crash; leases, renewals, terminations, dying workers, checkpoint requests, releases, grace | types, writer binding and claim counts (`Consistent`); `SingleWriter`, `ContainersAreActive`; storage steps meet no worker; heads are stored; dirty is never reported saved; deletion is final; every step is a `StateStore` transaction |
| `content` | 2 sandboxes, 2 writes, 1 crash; terminations, restores, retention | content is kept and handed to the next worker, if the reaper does not evict inside a creation |
| `progress` | 1 sandbox, 1 crash; releases and grace, or retention and restores; fair | dirty content is saved, due deletions happen, operations end |
| `leases` | 2 ephemeral workspaces, 2 sandboxes, 1 crash; leases; fair | unused ephemeral workspaces are removed, expired sandboxes are finished, whatever fails on the way |
| `eviction` | 2 sandboxes, 1 write, no crash; **violation** | section 5 |
| `files` | 1 publish, 1 checkout of two files, 2 versions, 1 sandbox that may end, 1 fault in any container or its removal, 2 crashes, a capture asked for ahead of its upload; fair | captures are whole, what succeeded is there, no two containers on the volume but for those whose removal failed (`FileInvariant`); the stable copy is kept; attachments appear together; operations end |
| `stream` | 2 notifications, 1 question, 1 call, a log of 2, 1 broken connection; exit, closing Worker, lost lease, deadline, over-long line, time-outs, lost reply; fair | the driver sees a sequence or reports a failure (`ImplementsSequence`); a gap is reported only where one is; questions are answered; calls fail with their process; a completed turn ends |
| `executions` | 2 responses, 2 permits, 1 fault; cancel, delete, disconnect; fair | permits, sandboxes, drivers and records stay together; a continuation runs after what it continues; streams are whole but for a terminal event that is cut off; executions end |
| `services` | 3 requests for 4 grants up to time 4, 1 restart; 3 transfers of 2 files for 1 Artifact, 2 faults, a deletion; 2 calls and 2 messages of one delta, deadline and cancel | a grant is consumed once before it expires; an Artifact is a map entry that is bound once; the stream tells the record |
| `questions` | 2 questions, a history of 3, 1 stream that breaks; cancel, delete | what the Worker is told is what was accepted; no question outlives its response; no stream misses a question or the end |
| `publish` | 2 files, 2 attempts, 2 targets, 1 fault, 1 crash; a click, a failing event or binding, a deleted chat | ready files are stored, bound and shown; retries keep their target; only the binding is retried |
| `intents` | 1 file, 2 attempts, 2 targets, 2 faults, 1 crash; the next turn, a click, a failing event or binding, an Adapter restart, the end of the sandbox, a deleted chat; fair | the barrier holds; every intent becomes ready or failed, but for what is refused for good (section 5, *refused*, *deleted chat*) |

Why the bounds suffice.  *Manager*: the hazards need a writer and a successor (2
sandboxes), content that differs between them (2 writes), and one crash; after
a crash the memory is the initial one, and what a second crash finds in the
database is what the first one can leave behind.  In `progress` workers write
nothing: a claim makes a workspace dirty whether or not its worker writes, and
`content` looks at the content.  Workspaces share nothing but the reaper and
startup, so one suffices, except in `leases`, where the reaper finds two
sandboxes expired at once.  *Files*: all file
operations of a workspace take turns at its lock, so two of different kinds meet
in every way.  One fault lets a step fail or leaves a container behind; two
crashes cut an operation and its recovery off.  A publish is
asked for with one Artifact id, since the callers keep the id of an operation:
`RetriesKeepTheTarget` (in `IntentInvariant`) shows it of the BFF; section 5
says what happens otherwise.  *Stream*: a log of 2 overflows with three events
and one reconnection can find the gap; a second disconnection finds what the
first one can leave.  The fault "cancel" differs from "lease" only in the
reason the driver gives, and is left out of the instance.  *Executions*: a
response and its continuation, or two that are independent; with 2 permits
both can hold one, and a permit that is given back twice or never breaks the
count at once.  *Services*: the second and third presentation of one grant
before, at and after its expiry; two transfers that contend for one Artifact and
a third after them; two messages with a text each, of which the second replaces
the first.  *Questions*: the second question overlaps the events of the
first in a history of 3, which makes it forget.  *Publish*: two files of one
message contend for its lock and are attached side by side; the next turn is of
no concern to what that run shows and is left to `intents`, where one file does:
captures of two files share nothing.  There two faults make a recapture fail:
the first hides an upload from the Manager, the second breaks the capture after
it.

## 4. Fairness

Safety runs assume none.  The others assume what the scheduler of the code
gives, and nothing of users, clients, deadlines, faults and crashes:

* asyncio runs every task that can run: weak fairness of the steps of tasks
  (`Start`, `Follow`, `Cancelling` in ResponsesAdapter; `Drive`, `HandleEvent`,
  `Reconcile` in PublishIntents; `Execute` and the containers in
  FileOperations; readers, pumps and the driver in EventStream; coroutines,
  startup and terminations in SandboxManager);
* `asyncio.Lock` and `asyncio.Semaphore` are first-come first-served: strong
  fairness for their waiters (`Acquire`, `TakeLock`, `ReadMessage`,
  `StartCheckpoint`, `StartRetire`, ...);
* a process that is down is restarted by Docker's restart policy (`Startup`);
* in SandboxManager, storage and container removal do not fail for ever (strong
  fairness of success); the reaper loops for ever;
* in ResponsesAdapter a turn ends; in EventStream nothing says that Codex goes
  on, only that what it has written is read, and that a question is answered or
  times out;
* in FileOperations nothing is asked of clients: an operation that was accepted
  ends, asked for again or not (`Startup`, `StorageUnlocks`, and per operation
  `Execute`, `TakeLock`, `ContainerRuns`); `DueIsRetired` assumes that clients stop asking for a
  workspace that is being deleted: their prepare containers mount its volume,
  and while one does the volume cannot be removed.

## 5. Where the code and its documents differ

The run `eviction` shows one of these; the models contain the others, and the
properties are stated so that they hold beside them.

Sandbox Manager:

* *eviction* (run, `OnlyCopyIsKept`): `_cleanup_local_workspace` checks the row
  and then awaits the removal of the volume, while `claim_workspace` takes no
  workspace lock: the workspace can be claimed, written to and dirty again when
  the volume goes (`docs/sandbox-manager.md:73`).
* *claim*: `create()` claims the row after it has released the workspace lock,
  and the claim accepts `remote_only`: after an eviction in between Docker gives
  the worker an empty volume (`docs/storage.md:152`).
* *orphan*: a checkpoint operation is accepted as pending, a claim gets in
  before its task, and the task returns without ending it; it stays pending
  until the next restart (`docs/sandbox-manager.md:181`).  So does a requested
  restore that waits for the lock while the workspace is being retired:
  `_prepare_workspace` returns, and nobody ends the operation, which moreover
  keeps the reaper from taking a failed retirement up again.  `progress`
  therefore keeps to clients that do not ask for checkpoints, and do not release
  a workspace and restore it at once.
* *reaper*: a sandbox whose renewal was acknowledged is terminated, because it
  is still in the list the reaper made when it woke up.
* *late checkout*: a checkout runs when it gets the lock, although the sandbox
  that asked for it has ended (`docs/sandbox-manager.md:21`).
* *retarget*: a publish that is refused for another `artifact_id` stores that
  id, so the check of the target holds once only (`docs/storage.md:137`).
* *leftover*: `.content.part` is opened with `"xb"` and removed by nobody: after
  a time-out every retry of that capture fails (`docs/sandbox-manager.md:174`).
* *released*: `create_operation` refuses the retry of an upload when its sandbox
  has ended, although the stable copy is there (`docs/storage.md:132`).
* *recapture*: the stable copy is removed before the success is recorded; when
  the Manager crashes in between, the retry captures the live file
  (`docs/sandbox-manager.md:164`).  When that has changed since, the Artifact
  Service refuses it, for the id is taken, and the retries end at their limit.
* *leftover container*: an error of `container.remove` is suppressed
  (`operation_runner.py:318`), and the lock is given back with the container
  running; it may write beside the next operation of the workspace
  (`docs/sandbox-manager.md:20`).  Since its name is taken
  (`operation_runner.py:266`), every retry of its own operation fails until the
  Manager starts again.  `OneContainerPerVolume` speaks of the others.
* *recorded*: the nonce is consumed in a transaction of its own; a restart
  before the operation is recorded uses the grant up
  (`docs/sandbox-manager.md:131`).
* *boundary*: a grant that is verified just before its expiry and consumed just
  after it finds its nonce purged, so it can be accepted twice at that second
  (`docs/sandbox-manager.md:124`); `OnceBeforeExpiry` is what does hold.

Artifact Service:

* *reused capability*: the digest is taken from the stream, the content from a
  staging object two transfers under one capability share; a second transfer
  with other bytes can replace it (`docs/storage.md:38`).  The instance sends
  one file per capability unless its digest is expected.

Sandbox Worker:

* *pending calls*: a reader that breaks on an over-long line then waits for the
  process (`codex_protocol.py:236`); until that ends, pending calls wait for
  `request_timeout_seconds`.  `RpcFailsWithProcess` speaks of the end of the
  process.

Responses Adapter and MCP Apps:

* *lost sandbox*: when `create_sandbox` is carried out and its answer lost, or
  the request is cancelled while it waits, `created_sandbox_id` is not set
  (`service.py:399`) and nobody terminates the sandbox but the reaper at the end
  of its lease (`docs/design.md:168`); `SandboxHasOwner` speaks of the ones
  whose creation was answered.
* *unsent*: the user is told that an answer is taken when the interaction is
  resolved; the driver then sends it.  When the deadline passes in between, or
  the call fails, it is not sent, and a question that is asked anew may be
  answered "cancel" (`docs/mcp-apps.md:21`).  `AcceptedAnswerIsTold` says what
  does hold: no driver goes on without a call having been made, and whatever the
  Worker is told is what the user was told.
* *branch*: two continuations of one response may run turns in the same sandbox
  (`docs/sandbox-manager.md:21`); `TurnFollowsPrevious` is what does hold.
* *cancel*: a cancelled response whose stream breaks ends as incomplete, and its
  turn runs on in a sandbox nobody terminates (`docs/design.md:168`).
* *answer*: the answer to a question reaches the Worker and its reply is lost:
  the question is delivered again and its answer refused, up to the deadline
  (`docs/mcp-apps.md:21`); hence `AskedAgain` in `TurnEnds`.
* *end*: when the deadline passes during `app/read` and the batch holds the end
  of the response, the subscriber gets no terminal event
  (`docs/protocol-mapping.md:101`); the record has ended (`EndIsRecorded`).
  `StreamIsWhole` has this as its one exception.
* *replaced*: when a second message of Codex completes, its text replaces that
  of the first in the record (`events.py:298`), while the subscriber has the
  deltas of both (`docs/protocol-mapping.md:96`).  The text that closes the
  message is that of the record in either case; the deltas add up to it when one
  message has a text (`OneSpeaker`).
* *done*: the done events of a completed message are sent when the turn ends
  (`docs/protocol-mapping.md:97`).
* *closed*: the event of a resolution may follow `mcp_app.response.closed`
  (`tests/test_mcp_apps.py:102` asserts that the latter is last).

BFF:

* *barrier*: the response binding is committed before the intents exist, and the
  next turn may pass the barrier in between (`docs/storage.md:131`); it goes on
  without a binding, too.  `BarrierHolds` speaks of intents that were recorded
  before the turn passed.
* *binding*: a statement that raises while binding is taken for a failed upload
  (`docs/sandbox-manager.md:164`), the exception in `OnlyTheBindingIsRetried`.
* *refused*: a capture the Adapter refuses because it has forgotten the
  response, or the Manager because the sandbox is no longer the active one
  (`docker_backend.py:290`, ahead of the idempotency key), stays pending and is
  retried for ever (`workspace.py:450`, `674`), and the barrier stays
  (`docs/storage.md:131`).  It is the first exception in `IntentsEnd`.  A grant
  without `sandbox_id` is taken for the sandbox that is active now; the Adapter
  then rejects the answer (`service.py:172`).
* *deleted chat*: without the chat `require_chat_write` raises before an attempt
  is counted (`workspace.py:504`), and the binding finds no message
  (`workspace.py:605`): such an intent is retried for ever, the second exception
  in `IntentsEnd` (`docs/storage.md:135`).
* *event*: the grant of the terminal event is consumed before the work it
  allows; when that fails, both retries are refused and no intent is recorded
  (`docs/storage.md:125`).

## 6. Proofs

Checked by TLAPS for any sets and bounds that meet the named assumptions; where
a theorem needs more, its paragraph says so.  A theorem that states a property
of a run has that property in its `PROJECT.json` row.

**SandboxManager_proofs** begins with the store (`StoreAssumption`): `StoreTypeOK` and `WriterBinding`
are inductive together (`StoreInv`); one lemma per transaction, and two lemmas
about row updates for the transactions that touch neither the writer nor the
status of a sandbox.  `GenerationCountsClaims` needs more (`Counting`): an absent
sandbox row counts for no workspace, an absent workspace has generation 0, and
the set of rows that count for a workspace is finite; then a claim adds one
element (`FS_AddElement`), a deletion leaves none, and every other transaction
keeps the set (`CountKept`).

Then the Manager (`StoreAssumption`, `ManagerAssumption`): `TypeOK`,
`ContainersAreActive`, `SingleWriter`, `ImplementsStore`, `Consistent` and
`DeletingIsFinal` (a workspace that is being deleted has no writer, so no late
finish revives it: `DeletingStays`).  The inductive
invariant `Inv` is `StoreInv`, the types, and `Ownership`.
`ContainersAreActive` is not inductive: that a late `FinishTerminated` or
`FinishFailedCreation` meets no container depends on who may touch a sandbox.
`Ownership` says it: between its claim and its end a creation has the
`starting` row and no in-memory record (`CreationOwned`); `terminate()` starts
from a record, so never on a sandbox that is being created, and finishes it
with the container gone (`TerminationOwned`); a creation waiting inside
`_prepare_workspace` holds the lock of its own workspace and no other
(`LockOwned`); and nothing is being created while startup reconciles.  For each
action the proof shows three things (`Preserved`): the step is a transaction of
the store or leaves the tables alone; the types hold afterwards; and so does
`Ownership`.  `StoreInv` follows once for all actions from the lemma about the
store, and so does, through the refinement, what StateStore promises
(`ManagerConsistent`).

Its last part is about storage work (the same assumptions):
`StorageStepsAreQuiescent`, `HeadIsStored` and `DirtyIsNotReportedSaved`, then
`LatestIsKept` and `WorkerSeesLatest`.  A claim does not take the workspace lock, so the lock
alone keeps no worker away from a snapshot, a restore or a retirement.  What
does is the row: where the holder of the lock stands, the row has the status
the holder gave it (`checkpointing`, `restoring`, `deleting`) or is gone
(`Guarded`), no claim accepts these, and a row with a writer is `running`.
`Stored` adds that the snapshot about to become the head is in the repository.
`BootQuiet`, which says that nothing runs beside the startup reconciliation,
is needed because that reconciliation takes rows out of those statuses without
the lock.  Most steps are of no concern to the holder of the lock (`Quiet`),
which one lemma settles.  The third rests on `Saved`: a checkpoint key that
succeeded belongs to an earlier generation of its workspace, or to this one
while the row is not dirty.  A row becomes dirty by a claim, which begins a new
generation; a key succeeds with the commit that saves its generation, or by a
request that finds the workspace clean; a deletion, which lets generations start
again at 0, takes the keys along.  That the current generation has a key at all
needs a finite set of sandboxes and `GenerationCountsClaims`.

The last two are about the content of the volume, and are theorems of
`ContentSpec`: the Manager, with workers that die, crashes and failing Docker
calls, except that the reaper does not take the workspace lock between the
preparation and the claim of a creation.  Without that the two are false, as
section 5 (*eviction*) shows; the theorems say that no other interleaving of the
model loses content.  `Kept` is the statement itself, by the
status of the row: the volume holds what the last worker wrote, or the head
does.  It is kept because the local copy of the row that the holder of the lock
goes by still says what matters although the row may have been claimed since
(`Inspecting`), because the status and the volume fit the place where the holder
stands (`Standing`), and because a workspace that is about to be claimed has its
volume (`Ready`) and keeps it while a container has it mounted (`InPlace`).  A
volume that is there but empty is right only while nobody has written, hence
`Requested`, `Transient` and `Alone`, about workspaces whose creation is still
under way and about ephemeral ones.  A step concerns one workspace; for the
others `Still` and `Calm` say what they have to find unchanged.

**FileOperations_proofs** (`FileAssumption`).  `FileInvariant`,
`StableCopyIsKept` and `AllOrNothing`.  The task, the container and the row of
an operation move separately, and a crash of the Manager takes the task and
leaves the other two.  So each pair of them has its invariant: `Paired` (task and
container), `Recorded` (task and row), and `Working` (container and row, the one
that is left while the Manager is down).  `CopyIsWhole`: a container that copies
finds no manifest, and the manifest it writes is that of the content in the
spool, at each of its steps; so the file that changes under the copy makes
the capture fail and is never captured torn.  `CopyIsSent`: up to the upload the
spool has the captured version, from the upload on the Artifact Service has it,
so the clean-up that removes the copy comes after the transfer whatever is cut
off.  `BatchIsWhole`: attachments are all in the staging directory before the
one rename.  Two containers use the volume at once only when the removal of one
failed: the lock belongs to the task that runs one (`LockIsHeld`), and a
container that is left behind meets no second one of its operation, for its name
is taken (`Paired`).  Such a container may still capture, or upload, when its
operation has failed, so `CopyIsWhole` and `CopyIsSent` speak of containers,
whether or not a task waits for them.

**EventStream_proofs** (`StreamAssumption`).  `StreamInvariant` and the
refinement `ImplementsSequence`.  What the pump has published is not in the
state once the bounded log has dropped it, so the invariant says that there are
a sequence `pub`, all events ever published, and two numbers, how many
notifications the reader has read and how many the pump has published (`Flow`).
`Travel`: pipe, queue and `pub` hold consecutive notifications without gap or
repetition.  `Logged`: the log is the end of `pub`.  `Carried`: what the
connection has is part of `pub`, increasing from the cursor, and it skips only
what the log has dropped.  `Consumed`: the driver has consumed exactly the
notifications up to its cursor, so the comparison with the cursor finds every gap, also the one a
reconnection makes.  `Ends`: nothing follows the end of a session.  For the
refinement, writing a notification is `Send`, handling one is `Deliver`, a
failure or the end of the turn is `End`, and every other step stutters.

**PublishIntents_proofs** (`IntentAssumption`).  `IntentInvariant`,
`BarrierHolds` and `OnlyTheBindingIsRetried`.  A task works on a row it read
some awaits ago; nothing else moves it on meanwhile, so the place of the task
tells the state of the row (`Follows`).  `Progress` relates the row to the
operation of the Manager, `Backed` to what has been stored, attached and
bound: an intent past its capture has an operation past it, so neither a retry nor a
restart captures again.  The message of the chat is rewritten from what was read
under its lock, and nobody else writes it meanwhile (`Exclusive`); so two files
that become ready side by side are both attached.  `Behind` is the barrier: an
intent that is still pending when the next turn has passed was recorded after
the turn looked (*barrier* in section 5).  A capture can be made again only
behind an upload of the first copy, which left its Artifact behind: the id is
taken, so a copy of what the later turn wrote is never stored under it.

**ResponsesAdapter_proofs** (`AdapterAssumption`).  `AdapterInvariant`, of which
`PermitsAreConserved` is a part, `TurnFollowsPrevious` and `StreamIsWhole`.  A
permit taken or given back is a response added to or removed from the finite set
of those that hold one.  `Stages` says what a response has at each stage of its
start, above all that it has no driver before it has started, so that the driver
gives back the permit the start took.  `Chains` carries what a continuation
checked about the previous response (it has ended and its driver is done)
through the awaits up to its turn; a deletion in between does not undo it.
A turn follows the response it continues, not that response's turn: after a
deadline whose interrupt failed, that one may run on in the same sandbox.
`Stream` says what the subscriber has got at each stage of the driver: cancel,
deadline, end of the turn and deletion race, and only the driver sends, so each
event comes once and they come in order, and the terminal one is missing exactly
when the deadline cut its publication off (`cut`).

**McpApps_proofs** (`McpAssumption`).  `AcceptedAnswerIsTold`,
`NoQuestionIsLeft`, `AppsInvariant` and `QuestionsReachReaders`.  An interaction
is settled while it is pending and only then, so its result is written once:
what the driver has taken and what the Worker was told remain the result when an
answer, the timeout and a cancellation cross (`Answers`).  That a driver which
goes on has answered, or has a failed call behind it, comes from the order of its
steps: it leaves a question only by that call or by the end of the response.
`Ends` says who is
left when a response is no longer active: its driver is past the last question,
and the cleanup cancels what is pending before the record can be deleted.

The last two need `HistoryHolds`: the history has room for more events than the
response asks questions (512 in the code).  Resolutions are announced after the
question is settled and possibly much later, so they can push out the question
that is open now.  `QuestionKept` counts: behind the open question come at most
the resolutions of earlier ones, less those announced already; `CloseKept` says
the same of the end of the response.

**EventBuilder_proofs** (`BuilderAssumption`).  `BuilderInvariant` and
`StreamTellsRecord`.  The translation of
a notification is a function of the builder, and each operation has a lemma that
says what it keeps and what it adds.  `Good`: what was emitted is numbered in
order, each item has its place, begins with its `added` and ends with its
`done`, and each end is noted when it is sent.  `Told`: every item was shown and
every end sent.  The invariant adds where the emitted events are: all of them in
the stream and the batch (`Kept`), or the deadline passed during app/read and a
batch was lost (`Lost`); then `Told` no longer holds, but the response has ended
and nothing follows.  That its end is nevertheless in order needs to know that a
batch that can be lost while the response goes on is all of calls (`OneKind`),
so the `added` of the message was published before.  For the texts, `ClosedIs`
says that a message is closed with the text of the record and only when the
response ends, which is true of any number of messages; that the deltas add up
to it (`Spoken`, `SaidIs`) holds while one message has a text.

What `_complete_turn` does to the calls it lists, and what the texts of a stream
add up to, are inductions over sequences.  The prover cannot instantiate the
library's induction theorems, which take an operator; `Induction` says the same
of a set of numbers and follows from the well-founded order of finite sets
(`FS_StrictSubsetOrderingWellFounded`).  So the recursive functions of
`CompleteCalls` and `FlattenSeq` are unfolded step by step
(`CompleteCallsSteps`, `FlattenSteps`).

**Services_proofs** has the two services without shared state.  Grants
(`GrantsAssumption`): `OnceBeforeExpiry`.  The purge is the only step that
removes nonces, and it removes those that have expired, so the nonce of every
consumed grant is in the table until the grant expires (`NoncesAreKept`), and a
second consumption comes too late.

ArtifactStore (`ArtifactAssumption`, and `OneFilePerTicket`: a capability stands
for one file, cf. *reused capability* in section 5): the refinement
`ImplementsMap`, what uploads and downloads answer, and `StoreInvariant`.  An
upload looks at the manifest in one step and acts in a later one.  That it may
rests on the manifest of an Artifact being removed only after its release, and
on nothing being uploaded by then (`Upheld`): so a transfer that drops its
content still finds a manifest that names other content, and one that is about
to put its manifest has its content in place (`Contents`), because staging holds
the one file of the capability (`Files`).  With this invariant each step is one
`Commit` or `Remove` of the map or none.  That a service without faults leaves
nothing behind (`StoreConsistent`) needs an owner for every object that no
manifest names: a transfer in its place before the clean-up (`Clean`).

Stays with TLC, and why:

* `OnlyCopyIsKept`, which is violated.
* Liveness under fairness, of which the prover has no notion: `DirtyIsSaved`,
  `DueIsRetired`, `OperationsEnd`, `UnusedEphemeralIsRemoved`, `ExpiredIsReaped`,
  `RequestsAreAnswered`, `TurnEnds`, `RpcFailsWithProcess`, `IntentsEnd`,
  `ExecutionsEnd`.

## 7. Not modelled

* The revisions table except for the head, runtime-state volumes (named by
  sandbox, never shared), container options and execution settings, the graceful
  shutdown of the Adapter.
* Database errors: a failing candidate query outside the try statements of
  `_reaper` would end the reaper task.
* Sandbox ids are unique by assumption: the code draws them at random or takes
  them from a signed grant that can be used once.
* In SandboxManager: a storage container that timed out and could not be removed
  (`operation_runner.py:318`; FileOperations has it for its own operations) is
  gone when its step is over, and a `containers.create` that fails after Docker
  made the container leaves none (`docker_backend.py:661`, `688`); startup
  removes both.
* In FileOperations: a failure of `rmtree` half way.
* In EventStream: the initialize handshake and which methods are passed on.
* In ResponsesAdapter: app bindings (EventBuilder and McpApps have them),
  `retrieve`, resource and tool calls of apps, responses that are not streamed.
* In PublishIntents: the table of chat workspaces (its primary key decides in one
  statement who creates one), the attachment index, uploads of files by users.
* HTTP routing, settings, input mapping, CSP, STS signing, HMAC and canonical
  encoding: functions of one request without shared state.
* The browser code, deployment files and network policy: no program logic of
  their own.

## 8. Plan

Done: `StateStore`, `SandboxManager`, `FileOperations`, `ArtifactStore`,
`EventStream`, `ResponsesAdapter`, `McpApps`, `EventBuilder`, `Grants`,
`PublishIntents`, with the abstract specifications `StateStore`, `ArtifactMap`
and `EventSequence`.

Every safety property of a passing run is stated by a theorem.

Next, in this order: the table of chat workspaces of the BFF; a refinement from
FileOperations to the phases of an operation that PublishIntents assumes;
properties for the hazards that have none.
