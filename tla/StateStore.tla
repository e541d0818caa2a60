----------------------------- MODULE StateStore -----------------------------
(***************************************************************************)
(* The `workspaces` and `sandboxes` tables of the Sandbox Manager          *)
(* (sandbox_manager/state.py).  Every StateStore method is one SQLite      *)
(* IMMEDIATE transaction, so every method is one atomic action here.  XOK  *)
(* is the condition under which X commits; when it is false the method     *)
(* raises and rolls back, which changes nothing.                           *)
(*                                                                         *)
(* Read on its own, the module is the contract of the store: whatever the  *)
(* callers do, in whatever order, StoreSpec is all that can happen to the  *)
(* two tables.  SandboxManager is shown to implement it.  The operations   *)
(* table has no effect on these two and is modelled by SandboxManager.     *)
(***************************************************************************)
EXTENDS Naturals, FiniteSets

CONSTANTS
    Workspace,   \* workspace ids
    Ephemeral,   \* the workspaces of kind 'ephemeral'; the others are 'recoverable'
    Sandbox,     \* sandbox ids
    Revision,    \* snapshot ids of the backup repositories
    None         \* SQL NULL

ASSUME StoreAssumption ==
    /\ Ephemeral \subseteq Workspace
    /\ None \notin Workspace \cup Sandbox \cup Revision

VARIABLES
    ws,   \* workspaces: id -> row
    sb    \* sandboxes: id -> row

storeVars == <<ws, sb>>

WsStatus == {"absent", "running", "detached_dirty", "checkpointing",
             "detached_clean", "remote_only", "restoring", "deleting"}
SbStatus == {"absent", "starting", "running", "failed", "terminated"}
ActiveStatus == {"starting", "running"}

(* delete_after is NULL, in the future or past; updated_at is older than   *)
(* the local retention period or not.  kind and volume_name are functions  *)
(* of the id and are not stored.                                           *)
WsRow == [status : WsStatus, gen : Nat, head : Revision \cup {None},
          active : Sandbox \cup {None}, del : {"none", "grace", "due"},
          aged : BOOLEAN]
SbRow == [status : SbStatus, ws : Workspace \cup {None},
          lease : {"none", "valid", "expired"}]

NoWorkspace == [status |-> "absent", gen |-> 0, head |-> None,
                active |-> None, del |-> "none", aged |-> FALSE]
NoSandbox == [status |-> "absent", ws |-> None, lease |-> "none"]

Exists(w) == ws[w].status # "absent"
IsActive(s) == sb[s].status \in ActiveStatus

StoreInit ==
    /\ ws = [w \in Workspace |-> NoWorkspace]
    /\ sb = [s \in Sandbox |-> NoSandbox]

-----------------------------------------------------------------------------
(* INSERT ... ON CONFLICT(id) DO NOTHING *)
CreateWorkspace(w) ==
    /\ ws' = IF Exists(w) THEN ws
             ELSE [ws EXCEPT ![w] = [NoWorkspace EXCEPT !.status = "detached_clean"]]
    /\ UNCHANGED sb

(* Deviations, for testing the properties: a claim that ignores the        *)
(* status, and one that keeps the generation.                              *)
ClaimIgnoresStatus(w, s) ==
    /\ Exists(w)
    /\ ws[w].active \in {None, s}
    /\ sb[s].status = "absent"

(* A row with the sandbox id makes the INSERT fail. *)
ClaimOK(w, s) ==
    /\ Exists(w)
    /\ ws[w].active \in {None, s}
    /\ ws[w].status \notin {"checkpointing", "restoring", "deleting"}
    /\ sb[s].status = "absent"

ClaimKeepsGeneration(w, s) ==
    /\ ClaimOK(w, s)
    /\ sb' = [sb EXCEPT ![s] = [status |-> "starting", ws |-> w, lease |-> "valid"]]
    /\ ws' = [ws EXCEPT ![w] = [@ EXCEPT !.status = "running", !.active = s,
                                         !.del = "none", !.aged = FALSE]]

ClaimWorkspace(w, s) ==
    /\ ClaimOK(w, s)
    /\ sb' = [sb EXCEPT ![s] = [status |-> "starting", ws |-> w, lease |-> "valid"]]
    /\ ws' = [ws EXCEPT ![w] = [@ EXCEPT !.status = "running", !.active = s,
                                         !.gen = ws[w].gen + 1, !.del = "none", !.aged = FALSE]]

MarkSandboxRunning(s) ==
    /\ sb[s].status = "starting"
    /\ sb' = [sb EXCEPT ![s].status = "running"]
    /\ ws' = [w \in Workspace |->
                IF ws[w].active = s THEN [ws[w] EXCEPT !.aged = FALSE] ELSE ws[w]]

RenewSandbox(s) ==
    /\ sb[s].status = "running"
    /\ sb' = [sb EXCEPT ![s].lease = "valid"]
    /\ UNCHANGED ws

(* Deviation: the workspace row is updated whoever is active. *)
FinishUnguarded(s, status, wstatus) ==
    /\ sb[s].status # "absent"
    /\ sb' = [sb EXCEPT ![s] = [@ EXCEPT !.status = status, !.lease = "none"]]
    /\ ws' = [w \in Workspace |->
                IF w = sb[s].ws
                THEN [ws[w] EXCEPT !.status = wstatus, !.active = None, !.aged = FALSE]
                ELSE ws[w]]

(* The workspace row is updated only WHERE active_sandbox_id = s. *)
FinishSandbox(s, status, wstatus) ==
    /\ sb[s].status # "absent"
    /\ sb' = [sb EXCEPT ![s] = [@ EXCEPT !.status = status, !.lease = "none"]]
    /\ ws' = [w \in Workspace |->
                IF w = sb[s].ws /\ ws[w].active = s
                THEN [ws[w] EXCEPT !.status = wstatus, !.active = None, !.aged = FALSE]
                ELSE ws[w]]

(* Deleting an absent row is a no-op; a row with a writer is refused. *)
DeleteOK(w) == ws[w].active = None

DeleteWorkspace(w) ==
    /\ DeleteOK(w)
    /\ ws' = [ws EXCEPT ![w] = NoWorkspace]
    /\ sb' = [s \in Sandbox |-> IF sb[s].ws = w THEN NoSandbox ELSE sb[s]]

ScheduleWorkspaceDelete(w) ==
    /\ Exists(w) /\ w \notin Ephemeral
    /\ ws' = [ws EXCEPT ![w] = [@ EXCEPT !.del = "grace", !.aged = FALSE]]
    /\ UNCHANGED sb

TransitionOK(w, expected) ==
    /\ ws[w].status \in expected
    /\ ws[w].active = None

TransitionWorkspace(w, expected, status) ==
    /\ TransitionOK(w, expected)
    /\ ws' = [ws EXCEPT ![w] = [@ EXCEPT !.status = status, !.aged = FALSE]]
    /\ UNCHANGED sb

CommitOK(w, gen) ==
    /\ ws[w].status = "checkpointing"
    /\ ws[w].active = None
    /\ ws[w].gen = gen

CommitRevision(w, gen, rev) ==
    /\ CommitOK(w, gen)
    /\ ws' = [ws EXCEPT ![w] = [@ EXCEPT !.head = rev, !.status = "detached_clean",
                                         !.aged = FALSE]]
    /\ UNCHANGED sb

-----------------------------------------------------------------------------
(* Time, as far as the queries over the tables can see it pass. *)
LeaseExpires(s) ==
    /\ sb[s].lease = "valid"
    /\ sb' = [sb EXCEPT ![s].lease = "expired"]
    /\ UNCHANGED ws

GraceEnds(w) ==
    /\ ws[w].del = "grace"
    /\ ws' = [ws EXCEPT ![w].del = "due"]
    /\ UNCHANGED sb

RetentionEnds(w) ==
    /\ Exists(w) /\ ~ws[w].aged
    /\ ws' = [ws EXCEPT ![w].aged = TRUE]
    /\ UNCHANGED sb

-----------------------------------------------------------------------------
(* The transitions callers ask for: from, to. *)
Transitions ==
    { <<{"detached_dirty"}, "checkpointing">>,
      <<{"checkpointing"}, "detached_dirty">>,
      <<{"detached_clean"}, "remote_only">>,
      <<{"remote_only"}, "restoring">>,
      <<{"restoring"}, "detached_clean">>,
      <<{"restoring"}, "remote_only">>,
      <<{"detached_clean", "remote_only"}, "deleting">> }

FinishedStatus(w) == IF w \in Ephemeral THEN "deleting" ELSE "detached_dirty"

StoreNext ==
    \/ \E w \in Workspace :
        \/ CreateWorkspace(w)
        \/ DeleteWorkspace(w)
        \/ ScheduleWorkspaceDelete(w)
        \/ \E t \in Transitions : TransitionWorkspace(w, t[1], t[2])
        \/ \E rev \in Revision : CommitRevision(w, ws[w].gen, rev)
        \/ GraceEnds(w)
        \/ RetentionEnds(w)
        \/ \E s \in Sandbox : ClaimWorkspace(w, s)
    \/ \E s \in Sandbox :
        \/ MarkSandboxRunning(s)
        \/ RenewSandbox(s)
        \/ \E st \in {"failed", "terminated"}, w \in Workspace :
              sb[s].ws = w /\ FinishSandbox(s, st, FinishedStatus(w))
        \/ LeaseExpires(s)

StoreSpec == StoreInit /\ [][StoreNext]_storeVars

-----------------------------------------------------------------------------
StoreTypeOK ==
    /\ ws \in [Workspace -> WsRow]
    /\ sb \in [Sandbox -> SbRow]

WorkspaceBound(w) ==
    /\ ws[w].active # None => /\ sb[ws[w].active].ws = w
                              /\ IsActive(ws[w].active)
                              /\ ws[w].status = "running"
    /\ ws[w].status = "running" => ws[w].active # None
SandboxBound(s) ==
    IsActive(s) => sb[s].ws \in Workspace /\ ws[sb[s].ws].active = s

(* The two tables agree on who writes to a workspace: a workspace with an  *)
(* active_sandbox_id is 'running' and names a sandbox that is starting or  *)
(* running on it; a running workspace has such a sandbox; and every        *)
(* starting or running sandbox is the one its workspace names.  The claim  *)
(* relies on it to refuse a second writer; a sandbox finished twice, or    *)
(* late, after another has claimed the workspace, would break it.          *)
WriterBinding ==
    /\ \A w \in Workspace : WorkspaceBound(w)
    /\ \A s \in Sandbox : SandboxBound(s)

(* The generation of a workspace is the number of claims since its row was *)
(* created.  Checkpoint idempotency keys are built from it, so it may      *)
(* neither repeat for a later writer nor survive the row that counted it.  *)
GenerationCountsClaims ==
    \A w \in Workspace : ws[w].gen = Cardinality({s \in Sandbox : sb[s].ws = w})
=============================================================================
