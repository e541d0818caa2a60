----------------------- MODULE SandboxManager_proofs -----------------------
(***************************************************************************)
(* First the store: every behaviour the Sandbox Manager's tables allow     *)
(* keeps their types and the writer binding (StoreInv).                    *)
(*                                                                         *)
(* Then the safety core of the Sandbox Manager, for any number of workspaces, *)
(* sandboxes, clients, writes and crashes: types, one container per        *)
(* volume, and the refinement of StateStore; and last what its storage     *)
(* work keeps.                                                             *)
(*                                                                         *)
(* The inductive invariant is Inv: the rows of the store are typed and     *)
(* bound (StoreInv), the rest of the state is typed (MemTypeOK), and every *)
(* coroutine owns what it works on (Ownership).  One lemma per group of    *)
(* actions shows that a step is Preserved; NextInv puts them together.     *)
(***************************************************************************)
EXTENDS SandboxManager, FiniteSetTheorems, TLAPS

-----------------------------------------------------------------------------
(* StateStore. *)
StoreInv == StoreTypeOK /\ WriterBinding

LEMMA StoreInitInv == StoreInit => StoreInv
<1> SUFFICES ASSUME StoreInit PROVE StoreInv
  OBVIOUS
<1>1. NoWorkspace \in WsRow /\ NoSandbox \in SbRow
  BY DEF NoWorkspace, NoSandbox, WsRow, SbRow, WsStatus, SbStatus
<1>2. StoreTypeOK
  BY <1>1 DEF StoreInit, StoreTypeOK
<1>3. WriterBinding
  BY DEF StoreInit, WriterBinding, WorkspaceBound, SandboxBound, NoWorkspace, NoSandbox, IsActive, ActiveStatus
<1> QED BY <1>2, <1>3 DEF StoreInv

(* Most transactions rewrite one workspace row and leave its writer alone. *)
LEMMA RowUpdateInv ==
  ASSUME StoreInv, NEW w \in Workspace, NEW row \in WsRow,
         row.active = ws[w].active,
         (row.status = "running") <=> (ws[w].status = "running"),
         ws' = [ws EXCEPT ![w] = row], sb' = sb
  PROVE  StoreInv'
<1>1. StoreTypeOK'
  BY DEF StoreInv, StoreTypeOK
<1>2. \A v \in Workspace : /\ ws'[v].active = ws[v].active
                          /\ (ws'[v].status = "running") <=> (ws[v].status = "running")
  BY DEF StoreInv, StoreTypeOK
<1>3. WriterBinding'
  BY <1>2 DEF StoreInv, WriterBinding, WorkspaceBound, SandboxBound, IsActive
<1> QED BY <1>1, <1>3 DEF StoreInv

(* The fields of a workspace row, for rewriting it field by field. *)
LEMMA WsRowFields ==
  ASSUME StoreInv, NEW w \in Workspace
  PROVE  /\ ws[w] \in WsRow
         /\ ws[w].status \in WsStatus /\ ws[w].gen \in Nat
         /\ ws[w].active \in Sandbox \cup {None}
BY DEF StoreInv, StoreTypeOK, WsRow

(* One lemma per transaction: the store's rows stay typed and bound. *)
LEMMA CreateWorkspaceInv ==
  ASSUME StoreInv, NEW w \in Workspace, CreateWorkspace(w)
  PROVE  StoreInv'
<1>1. CASE Exists(w)
  BY <1>1 DEF CreateWorkspace, StoreInv, StoreTypeOK, WriterBinding, WorkspaceBound, SandboxBound, IsActive
<1>2. CASE ~Exists(w)
  <2> DEFINE row == [NoWorkspace EXCEPT !.status = "detached_clean"]
  <2>1. row \in WsRow /\ row.active = None /\ row.status = "detached_clean"
    BY DEF NoWorkspace, WsRow, WsStatus
  <2>2. ws[w].active = None /\ ws[w].status # "running"
    BY <1>2 DEF Exists, StoreInv, WriterBinding, WorkspaceBound, SandboxBound
  <2>3. ws' = [ws EXCEPT ![w] = row] /\ sb' = sb
    BY <1>2 DEF CreateWorkspace
  <2> HIDE DEF row
  <2> QED BY <2>1, <2>2, <2>3, RowUpdateInv
<1> QED BY <1>1, <1>2

LEMMA ClaimWorkspaceInv ==
  ASSUME StoreInv, NEW w \in Workspace, NEW s \in Sandbox, ClaimWorkspace(w, s)
  PROVE  StoreInv'
<1> DEFINE row == [ws[w] EXCEPT !.status = "running", !.active = s,
                                !.gen = ws[w].gen + 1, !.del = "none", !.aged = FALSE]
           srow == [status |-> "starting", ws |-> w, lease |-> "valid"]
<1>1. row \in WsRow /\ row.active = s /\ row.status = "running"
  <2>1. ws[w] \in WsRow /\ ws[w].gen + 1 \in Nat
    BY WsRowFields
  <2> QED BY <2>1 DEF WsRow, WsStatus
<1>2. srow \in SbRow /\ srow.ws = w /\ srow.status = "starting"
  BY DEF SbRow, SbStatus
<1>3. ws' = [ws EXCEPT ![w] = row] /\ sb' = [sb EXCEPT ![s] = srow]
  BY DEF ClaimWorkspace
<1>4. ws[w].active = None /\ sb[s].status = "absent"
  BY DEF ClaimWorkspace, ClaimOK, StoreInv, WriterBinding, WorkspaceBound, SandboxBound, IsActive, ActiveStatus
<1> HIDE DEF row, srow
<1>5. /\ ws'[w] = row /\ sb'[s] = srow
      /\ \A v \in Workspace : v # w => ws'[v] = ws[v]
      /\ \A t \in Sandbox : t # s => sb'[t] = sb[t]
  BY <1>3 DEF StoreInv, StoreTypeOK
<1>6. StoreTypeOK'
  BY <1>1, <1>2, <1>3 DEF StoreInv, StoreTypeOK
<1>7. ASSUME NEW v \in Workspace
      PROVE  WorkspaceBound(v)'
  <2>1. CASE v = w
    BY <1>1, <1>2, <1>5, <2>1, StoreAssumption DEF WorkspaceBound, IsActive, ActiveStatus
  <2>2. CASE v # w
    <3>1. ws[v].active # s
      BY <1>4, StoreAssumption, <2>2 DEF StoreInv, WriterBinding, WorkspaceBound, SandboxBound, IsActive, ActiveStatus
    <3>2. ws[v].active # None => ws[v].active \in Sandbox
      BY WsRowFields
    <3> QED BY <1>5, <2>2, <3>1, <3>2 DEF StoreInv, WriterBinding, WorkspaceBound, SandboxBound, IsActive
  <2> QED BY <2>1, <2>2
<1>8. ASSUME NEW t \in Sandbox PROVE SandboxBound(t)'
  <2> SUFFICES ASSUME IsActive(t)' PROVE sb'[t].ws \in Workspace /\ ws'[sb'[t].ws].active = t
    BY DEF SandboxBound
  <2>1. CASE t = s
    BY <1>1, <1>2, <1>5, <2>1
  <2>2. CASE t # s
    <3>1. sb[t].ws \in Workspace /\ ws[sb[t].ws].active = t
      BY <1>5, <2>2 DEF StoreInv, WriterBinding, WorkspaceBound, SandboxBound, IsActive
    <3>2. sb[t].ws # w
      BY <1>4, <3>1, StoreAssumption
    <3> QED BY <1>5, <2>2, <3>1, <3>2
  <2> QED BY <2>1, <2>2
<1> QED BY <1>6, <1>7, <1>8 DEF StoreInv, WriterBinding

LEMMA MarkSandboxRunningInv ==
  ASSUME StoreInv, NEW s \in Sandbox, MarkSandboxRunning(s)
  PROVE  StoreInv'
<1>1. /\ sb'[s].status = "running" /\ sb'[s].ws = sb[s].ws
      /\ \A t \in Sandbox : t # s => sb'[t] = sb[t]
  BY DEF MarkSandboxRunning, StoreInv, StoreTypeOK, SbRow
<1>2. sb' \in [Sandbox -> SbRow]
  BY DEF MarkSandboxRunning, StoreInv, StoreTypeOK, SbRow, SbStatus
<1>3. \A w \in Workspace : /\ ws'[w] \in WsRow /\ ws'[w].active = ws[w].active
                          /\ ws'[w].status = ws[w].status
  BY WsRowFields DEF MarkSandboxRunning, WsRow
<1>4. ws' \in [Workspace -> WsRow]
  BY <1>3 DEF MarkSandboxRunning
<1>5. IsActive(s) /\ \A t \in Sandbox : /\ IsActive(t)' <=> IsActive(t)
                                       /\ sb'[t].ws = sb[t].ws
  BY <1>1 DEF MarkSandboxRunning, IsActive, ActiveStatus
<1>6. \A w \in Workspace : ws[w].active # None => ws[w].active \in Sandbox
  BY WsRowFields
<1>7. \A w \in Workspace : WorkspaceBound(w)'
  BY <1>3, <1>5, <1>6 DEF StoreInv, WriterBinding, WorkspaceBound, SandboxBound, IsActive
<1>8. \A t \in Sandbox : SandboxBound(t)'
  BY <1>3, <1>5 DEF StoreInv, WriterBinding, WorkspaceBound, SandboxBound
<1> QED BY <1>2, <1>4, <1>7, <1>8 DEF StoreInv, StoreTypeOK, WriterBinding

(* Changing a lease leaves the binding alone. *)
LEMMA LeaseUpdateInv ==
  ASSUME StoreInv, NEW s \in Sandbox, NEW lease \in {"none", "valid", "expired"},
         sb' = [sb EXCEPT ![s].lease = lease], ws' = ws
  PROVE  StoreInv'
<1>1. sb' \in [Sandbox -> SbRow]
  BY DEF StoreInv, StoreTypeOK, SbRow
<1>2. \A t \in Sandbox : sb'[t].status = sb[t].status /\ sb'[t].ws = sb[t].ws
  BY DEF StoreInv, StoreTypeOK, SbRow
<1>3. \A w \in Workspace : ws[w].active # None => ws[w].active \in Sandbox
  BY WsRowFields
<1>4. \A w \in Workspace : WorkspaceBound(w)'
  BY <1>2, <1>3 DEF StoreInv, WriterBinding, WorkspaceBound, IsActive
<1>5. \A t \in Sandbox : SandboxBound(t)'
  BY <1>2 DEF StoreInv, WriterBinding, SandboxBound, IsActive
<1> QED BY <1>1, <1>4, <1>5 DEF StoreInv, StoreTypeOK, WriterBinding

LEMMA RenewSandboxInv ==
  ASSUME StoreInv, NEW s \in Sandbox, RenewSandbox(s)
  PROVE  StoreInv'
BY LeaseUpdateInv DEF RenewSandbox

(* The guard on active_sandbox_id is what makes a late or repeated finish  *)
(* harmless: a workspace another sandbox has claimed since is left alone.  *)
LEMMA FinishSandboxInv ==
  ASSUME StoreInv, NEW s \in Sandbox, NEW st \in {"failed", "terminated"},
         NEW wst \in {"deleting", "detached_dirty"}, FinishSandbox(s, st, wst)
  PROVE  StoreInv'
<1>1. /\ sb'[s].status = st /\ sb' \in [Sandbox -> SbRow]
      /\ \A t \in Sandbox : t # s => sb'[t] = sb[t]
  BY DEF FinishSandbox, StoreInv, StoreTypeOK, SbRow, SbStatus
<1>2. ~IsActive(s)'
  BY <1>1 DEF IsActive, ActiveStatus
<1>3. ASSUME NEW w \in Workspace
      PROVE  /\ ws'[w] \in WsRow
             /\ ws'[w].active # None => ws'[w] = ws[w] /\ ws[w].active # s
             /\ ws'[w].status = "running" => ws'[w] = ws[w]
             /\ ws[w].active \notin {None, s} => ws'[w] = ws[w]
  <2>1. CASE w = sb[s].ws /\ ws[w].active = s
    <3>1. ws'[w] = [ws[w] EXCEPT !.status = wst, !.active = None, !.aged = FALSE]
      BY <2>1 DEF FinishSandbox
    <3>2. ws'[w] \in WsRow /\ ws'[w].active = None /\ ws'[w].status = wst
      BY <3>1, WsRowFields DEF WsRow, WsStatus
    <3> QED BY <2>1, <3>2
  <2>2. CASE ~(w = sb[s].ws /\ ws[w].active = s)
    <3>1. ws'[w] = ws[w]
      BY <2>2 DEF FinishSandbox
    <3>2. ws[w].active # None => ws[w].active # s
      BY <2>2 DEF StoreInv, WriterBinding, WorkspaceBound, SandboxBound
    <3> QED BY <3>1, <3>2, WsRowFields
  <2> QED BY <2>1, <2>2
<1>4. ws' \in [Workspace -> WsRow]
  BY <1>3 DEF FinishSandbox
<1>5. ASSUME NEW t \in Sandbox PROVE SandboxBound(t)'
  <2> SUFFICES ASSUME IsActive(t)' PROVE sb'[t].ws \in Workspace /\ ws'[sb'[t].ws].active = t
    BY DEF SandboxBound
  <2>1. t # s /\ IsActive(t)
    BY <1>1, <1>2 DEF IsActive
  <2>2. sb[t].ws \in Workspace /\ ws[sb[t].ws].active = t
    BY <2>1 DEF StoreInv, WriterBinding, WorkspaceBound, SandboxBound
  <2>3. ws'[sb[t].ws] = ws[sb[t].ws]
    BY <1>3, <2>1, <2>2, StoreAssumption
  <2> QED BY <1>1, <2>1, <2>2, <2>3
<1>6. ASSUME NEW w \in Workspace PROVE WorkspaceBound(w)'
  <2> SUFFICES ASSUME ws'[w].active # None \/ ws'[w].status = "running"
               PROVE  WorkspaceBound(w)'
    BY DEF WorkspaceBound
  <2>1. ws'[w] = ws[w] /\ ws[w].active \in Sandbox \ {s, None}
    BY <1>3, WsRowFields DEF StoreInv, WriterBinding, WorkspaceBound
  <2> QED BY <1>1, <2>1 DEF StoreInv, WriterBinding, WorkspaceBound, SandboxBound, IsActive
<1> QED BY <1>1, <1>4, <1>5, <1>6 DEF StoreInv, StoreTypeOK, WriterBinding

LEMMA DeleteWorkspaceInv ==
  ASSUME StoreInv, NEW w \in Workspace, DeleteWorkspace(w)
  PROVE  StoreInv'
<1>1. NoWorkspace \in WsRow /\ NoSandbox \in SbRow
  BY DEF NoWorkspace, NoSandbox, WsRow, SbRow, WsStatus, SbStatus
<1>2. ws' \in [Workspace -> WsRow] /\ sb' \in [Sandbox -> SbRow]
  BY <1>1 DEF DeleteWorkspace, StoreInv, StoreTypeOK
<1>3. /\ ws'[w] = NoWorkspace
      /\ \A v \in Workspace : v # w => ws'[v] = ws[v]
      /\ \A s \in Sandbox : sb'[s] = IF sb[s].ws = w THEN NoSandbox ELSE sb[s]
  BY DEF DeleteWorkspace, StoreInv, StoreTypeOK
<1>4. \A s \in Sandbox : IsActive(s) => sb[s].ws # w
  BY StoreAssumption DEF DeleteWorkspace, DeleteOK, StoreInv, WriterBinding, WorkspaceBound, SandboxBound
<1>5. ASSUME NEW s \in Sandbox PROVE SandboxBound(s)'
  <2> SUFFICES ASSUME IsActive(s)' PROVE sb'[s].ws \in Workspace /\ ws'[sb'[s].ws].active = s
    BY DEF SandboxBound
  <2>1. sb'[s] = sb[s] /\ IsActive(s)
    BY <1>3 DEF IsActive, ActiveStatus, NoSandbox
  <2> QED BY <1>3, <1>4, <2>1 DEF StoreInv, WriterBinding, WorkspaceBound, SandboxBound
<1>6. ASSUME NEW v \in Workspace
      PROVE  WorkspaceBound(v)'
  <2>1. CASE v = w
    BY <1>3, <2>1 DEF NoWorkspace, WorkspaceBound
  <2>2. CASE v # w
    <3>1. ws[v].active # None => /\ ws[v].active \in Sandbox
                                 /\ sb'[ws[v].active] = sb[ws[v].active]
      BY <1>3, <2>2, WsRowFields DEF StoreInv, WriterBinding, WorkspaceBound, SandboxBound
    <3> QED BY <1>3, <2>2, <3>1 DEF StoreInv, WriterBinding, WorkspaceBound, SandboxBound, IsActive
  <2> QED BY <2>1, <2>2
<1> QED BY <1>2, <1>5, <1>6 DEF StoreInv, StoreTypeOK, WriterBinding

LEMMA ScheduleWorkspaceDeleteInv ==
  ASSUME StoreInv, NEW w \in Workspace, ScheduleWorkspaceDelete(w)
  PROVE  StoreInv'
<1> DEFINE row == [ws[w] EXCEPT !.del = "grace", !.aged = FALSE]
<1>1. row \in WsRow /\ row.active = ws[w].active /\ row.status = ws[w].status
  BY WsRowFields DEF WsRow
<1>2. ws' = [ws EXCEPT ![w] = row] /\ sb' = sb
  BY DEF ScheduleWorkspaceDelete
<1> HIDE DEF row
<1> QED BY <1>1, <1>2, RowUpdateInv

LEMMA TransitionWorkspaceInv ==
  ASSUME StoreInv, NEW w \in Workspace, NEW expected,
         NEW status \in WsStatus \ {"running"}, TransitionWorkspace(w, expected, status)
  PROVE  StoreInv'
<1> DEFINE row == [ws[w] EXCEPT !.status = status, !.aged = FALSE]
<1>1. row \in WsRow /\ row.active = ws[w].active /\ row.status = status
  BY WsRowFields DEF WsRow
<1>2. ws' = [ws EXCEPT ![w] = row] /\ sb' = sb
  BY DEF TransitionWorkspace
<1>3. ws[w].status # "running"
  BY DEF TransitionWorkspace, TransitionOK, StoreInv, WriterBinding, WorkspaceBound, SandboxBound
<1> HIDE DEF row
<1> QED BY <1>1, <1>2, <1>3, RowUpdateInv

LEMMA CommitRevisionInv ==
  ASSUME StoreInv, NEW w \in Workspace, NEW gen, NEW rev \in Revision,
         CommitRevision(w, gen, rev)
  PROVE  StoreInv'
<1> DEFINE row == [ws[w] EXCEPT !.head = rev, !.status = "detached_clean", !.aged = FALSE]
<1>1. row \in WsRow /\ row.active = ws[w].active /\ row.status = "detached_clean"
  BY WsRowFields DEF WsRow, WsStatus
<1>2. ws' = [ws EXCEPT ![w] = row] /\ sb' = sb
  BY DEF CommitRevision
<1>3. ws[w].status # "running"
  BY DEF CommitRevision, CommitOK
<1> HIDE DEF row
<1> QED BY <1>1, <1>2, <1>3, RowUpdateInv

LEMMA ClockInv ==
  ASSUME StoreInv,
         \/ \E s \in Sandbox : LeaseExpires(s)
         \/ \E w \in Workspace : GraceEnds(w) \/ RetentionEnds(w)
  PROVE  StoreInv'
<1>1. ASSUME NEW s \in Sandbox, LeaseExpires(s) PROVE StoreInv'
  BY <1>1, LeaseUpdateInv DEF LeaseExpires
<1>2. ASSUME NEW w \in Workspace, GraceEnds(w) PROVE StoreInv'
  <2> DEFINE row == [ws[w] EXCEPT !.del = "due"]
  <2>1. row \in WsRow /\ row.active = ws[w].active /\ row.status = ws[w].status
    BY WsRowFields DEF WsRow
  <2>2. ws' = [ws EXCEPT ![w] = row] /\ sb' = sb
    BY <1>2 DEF GraceEnds
  <2> HIDE DEF row
  <2> QED BY <2>1, <2>2, RowUpdateInv
<1>3. ASSUME NEW w \in Workspace, RetentionEnds(w) PROVE StoreInv'
  <2> DEFINE row == [ws[w] EXCEPT !.aged = TRUE]
  <2>1. row \in WsRow /\ row.active = ws[w].active /\ row.status = ws[w].status
    BY WsRowFields DEF WsRow
  <2>2. ws' = [ws EXCEPT ![w] = row] /\ sb' = sb
    BY <1>3 DEF RetentionEnds
  <2> HIDE DEF row
  <2> QED BY <2>1, <2>2, RowUpdateInv
<1> QED BY <1>1, <1>2, <1>3

LEMMA StoreNextInv == StoreInv /\ [StoreNext]_storeVars => StoreInv'
<1> SUFFICES ASSUME StoreInv, [StoreNext]_storeVars PROVE StoreInv'
  OBVIOUS
<1>1. CASE UNCHANGED storeVars
  BY <1>1 DEF storeVars, StoreInv, StoreTypeOK, WriterBinding, WorkspaceBound, SandboxBound, IsActive
<1>2. ASSUME NEW w \in Workspace, NEW t \in Transitions, TransitionWorkspace(w, t[1], t[2])
      PROVE  StoreInv'
  <2>1. t[2] \in WsStatus \ {"running"}
    BY DEF Transitions, WsStatus
  <2> QED BY <1>2, <2>1, TransitionWorkspaceInv
<1>3. ASSUME NEW s \in Sandbox, NEW st \in {"failed", "terminated"}, NEW w \in Workspace,
             FinishSandbox(s, st, FinishedStatus(w))
      PROVE  StoreInv'
  <2>1. FinishedStatus(w) \in {"deleting", "detached_dirty"}
    BY DEF FinishedStatus
  <2> QED BY <1>3, <2>1, FinishSandboxInv
<1>4. CASE StoreNext
  BY <1>2, <1>3, <1>4, CreateWorkspaceInv, DeleteWorkspaceInv, ScheduleWorkspaceDeleteInv,
     CommitRevisionInv, ClaimWorkspaceInv, MarkSandboxRunningInv, RenewSandboxInv, ClockInv
     DEF StoreNext
<1> QED BY <1>1, <1>4

(* StateStore keeps its rows well-typed under any sequence of transactions. *)
THEOREM StoreTypeCorrect == StoreSpec => []StoreTypeOK
<1>1. StoreInv => StoreTypeOK
  BY DEF StoreInv
<1> QED BY <1>1, StoreInitInv, StoreNextInv, PTL DEF StoreSpec

(* No sequence of StateStore transactions, whatever the callers and their  *)
(* order, leaves the workspaces and sandboxes tables disagreeing about who *)
(* the writer of a workspace is.                                           *)
THEOREM StoreWriterBinding == StoreSpec => []WriterBinding
<1>1. StoreInv => WriterBinding
  BY DEF StoreInv
<1> QED BY <1>1, StoreInitInv, StoreNextInv, PTL DEF StoreSpec
-----------------------------------------------------------------------------
(* A workspace that is being deleted has no writer, so no late finish of a *)
(* sandbox can put another status in its row, and no transition starts     *)
(* from 'deleting'.                                                        *)
LEMMA DeletingStays ==
  ASSUME StoreInv, [StoreNext]_storeVars, NEW w \in Workspace, ws[w].status = "deleting"
  PROVE  ws'[w].status \in {"deleting", "absent"}
<1>0. ws \in [Workspace -> WsRow] /\ ws[w] \in WsRow /\ ws[w].active = None
  BY DEF StoreInv, StoreTypeOK, WriterBinding, WorkspaceBound
<1>1. CASE UNCHANGED storeVars
  BY <1>1 DEF storeVars
<1>2. ASSUME NEW v \in Workspace,
             CreateWorkspace(v) \/ DeleteWorkspace(v) \/ ScheduleWorkspaceDelete(v)
      PROVE  ws'[w].status \in {"deleting", "absent"}
  <2>1. CASE CreateWorkspace(v)
    BY <1>0, <2>1 DEF CreateWorkspace, Exists
  <2>2. CASE DeleteWorkspace(v)
    BY <1>0, <2>2 DEF DeleteWorkspace, NoWorkspace
  <2>3. CASE ScheduleWorkspaceDelete(v)
    BY <1>0, <2>3 DEF ScheduleWorkspaceDelete, WsRow
  <2> QED BY <1>2, <2>1, <2>2, <2>3
<1>3. ASSUME NEW v \in Workspace,
             \/ \E t \in Transitions : TransitionWorkspace(v, t[1], t[2])
             \/ \E rev \in Revision : CommitRevision(v, ws[v].gen, rev)
             \/ \E s \in Sandbox : ClaimWorkspace(v, s)
      PROVE  ws'[w].status \in {"deleting", "absent"}
  <2>1. v # w
    <3>1. \A t \in Transitions : "deleting" \notin t[1]
      BY DEF Transitions
    <3> QED BY <1>3, <3>1 DEF TransitionWorkspace, TransitionOK, CommitRevision, CommitOK,
                               ClaimWorkspace, ClaimOK
  <2>2. ws'[w] = ws[w]
    BY <1>0, <1>3, <2>1 DEF TransitionWorkspace, CommitRevision, ClaimWorkspace
  <2> QED BY <2>2
<1>4. ASSUME NEW v \in Workspace, GraceEnds(v) \/ RetentionEnds(v)
      PROVE  ws'[w].status \in {"deleting", "absent"}
  BY <1>0, <1>4 DEF GraceEnds, RetentionEnds, WsRow
<1>5. ASSUME NEW s \in Sandbox,
             \/ MarkSandboxRunning(s) \/ RenewSandbox(s) \/ LeaseExpires(s)
             \/ \E st \in {"failed", "terminated"}, v \in Workspace :
                   FinishSandbox(s, st, FinishedStatus(v))
      PROVE  ws'[w].status \in {"deleting", "absent"}
  <2>1. ws[w].active # s
    BY <1>0, StoreAssumption
  <2>2. ws'[w] = ws[w]
    BY <1>5, <2>1 DEF MarkSandboxRunning, RenewSandbox, LeaseExpires, FinishSandbox
  <2> QED BY <2>2
<1> QED BY <1>1, <1>2, <1>3, <1>4, <1>5 DEF StoreNext

-----------------------------------------------------------------------------
(* Counting claims.  A row that was never claimed, or was deleted with its *)
(* workspace, counts for no workspace; a claim adds exactly its own row.   *)
Claimed(w) == {s \in Sandbox : sb[s].ws = w}

Counting ==
    /\ \A s \in Sandbox : sb[s].status = "absent" => sb[s].ws = None
    /\ \A w \in Workspace : ~Exists(w) => ws[w].gen = 0
    /\ \A w \in Workspace : IsFiniteSet(Claimed(w)) /\ ws[w].gen = Cardinality(Claimed(w))

CountInv == StoreInv /\ Counting

LEMMA CountInit == StoreInit => Counting
<1> SUFFICES ASSUME StoreInit PROVE Counting
  OBVIOUS
<1>1. \A w \in Workspace : Claimed(w) = {}
  BY StoreAssumption DEF StoreInit, NoSandbox, Claimed
<1>2. \A s \in Sandbox : sb[s].ws = None
  BY DEF StoreInit, NoSandbox
<1>3. \A w \in Workspace : ws[w].gen = 0
  BY DEF StoreInit, NoWorkspace
<1> QED BY <1>1, <1>2, <1>3, FS_EmptySet DEF Counting

(* A transaction that neither claims nor deletes keeps the count: it moves *)
(* no sandbox to another workspace and leaves the generations alone.       *)
LEMMA CountKept ==
  ASSUME Counting,
         \A s \in Sandbox : /\ sb'[s].ws = sb[s].ws
                            /\ sb'[s].status = "absent" => sb[s].status = "absent",
         \A w \in Workspace : /\ ws'[w].gen = ws[w].gen
                              /\ ws'[w].status = "absent" => ws[w].status = "absent"
  PROVE  Counting'
<1>1. \A w \in Workspace : Claimed(w)' = Claimed(w)
  BY DEF Claimed
<1> QED BY <1>1 DEF Counting, Exists

(* The generation goes up by one with the sandbox that claims.             *)
LEMMA ClaimCounts ==
  ASSUME CountInv, NEW w \in Workspace, NEW s \in Sandbox, ClaimWorkspace(w, s)
  PROVE  Counting'
<1>1. /\ sb'[s].ws = w /\ sb'[s].status = "starting"
      /\ \A t \in Sandbox : t # s => sb'[t] = sb[t]
  BY DEF ClaimWorkspace, CountInv, StoreInv, StoreTypeOK
<1>2. /\ ws'[w].gen = ws[w].gen + 1 /\ ws'[w].status = "running"
      /\ \A v \in Workspace : v # w => ws'[v] = ws[v]
  BY WsRowFields DEF ClaimWorkspace, CountInv, StoreInv, StoreTypeOK, WsRow
<1>3. sb[s].ws = None
  BY DEF ClaimWorkspace, ClaimOK, CountInv, Counting
<1>4. Claimed(w)' = Claimed(w) \cup {s} /\ s \notin Claimed(w)
  BY <1>1, <1>3, StoreAssumption DEF Claimed
<1>5. ASSUME NEW v \in Workspace, v # w PROVE Claimed(v)' = Claimed(v)
  BY <1>1, <1>3, <1>5, StoreAssumption DEF Claimed
<1>6. /\ IsFiniteSet(Claimed(w)')
      /\ Cardinality(Claimed(w)') = Cardinality(Claimed(w)) + 1
  BY <1>4, FS_AddElement DEF CountInv, Counting
<1>7. \A v \in Workspace : IsFiniteSet(Claimed(v))' /\ ws'[v].gen = Cardinality(Claimed(v)')
  BY <1>2, <1>5, <1>6 DEF CountInv, Counting
<1>8. \A t \in Sandbox : sb'[t].status = "absent" => sb'[t].ws = None
  BY <1>1 DEF CountInv, Counting
<1>9. \A v \in Workspace : ws'[v].status = "absent" => ws'[v].gen = 0
  BY <1>2 DEF CountInv, Counting, Exists
<1> QED BY <1>7, <1>8, <1>9 DEF Counting, Exists

(* Deleting a workspace deletes every row that counted for it.             *)
LEMMA DeleteCounts ==
  ASSUME CountInv, NEW w \in Workspace, DeleteWorkspace(w)
  PROVE  Counting'
<1>1. \A s \in Sandbox : sb'[s] = IF sb[s].ws = w THEN NoSandbox ELSE sb[s]
  BY DEF DeleteWorkspace
<1>2. /\ ws'[w].gen = 0
      /\ \A v \in Workspace : v # w => ws'[v] = ws[v]
  BY DEF DeleteWorkspace, NoWorkspace, CountInv, StoreInv, StoreTypeOK
<1>3. Claimed(w)' = {}
  BY <1>1, StoreAssumption DEF Claimed, NoSandbox
<1>4. ASSUME NEW v \in Workspace, v # w PROVE Claimed(v)' = Claimed(v)
  BY <1>1, <1>4, StoreAssumption DEF Claimed, NoSandbox
<1>5. \A v \in Workspace : IsFiniteSet(Claimed(v))' /\ ws'[v].gen = Cardinality(Claimed(v)')
  BY <1>2, <1>3, <1>4, FS_EmptySet DEF CountInv, Counting
<1>6. \A s \in Sandbox : sb'[s].status = "absent" => sb'[s].ws = None
  BY <1>1 DEF NoSandbox, CountInv, Counting
<1>7. \A v \in Workspace : ws'[v].status = "absent" => ws'[v].gen = 0
  BY <1>2 DEF CountInv, Counting, Exists
<1> QED BY <1>5, <1>6, <1>7 DEF Counting, Exists

LEMMA CreateCounts ==
  ASSUME CountInv, NEW w \in Workspace, CreateWorkspace(w)
  PROVE  Counting'
<1>1. CASE Exists(w)
  BY <1>1, CountKept DEF CreateWorkspace, CountInv
<1>2. CASE ~Exists(w)
  <2>1. /\ ws'[w].gen = 0 /\ ws'[w].status = "detached_clean"
        /\ \A v \in Workspace : v # w => ws'[v] = ws[v]
    BY <1>2 DEF CreateWorkspace, NoWorkspace, CountInv, StoreInv, StoreTypeOK
  <2>2. \A v \in Workspace : ws'[v].gen = ws[v].gen
    BY <1>2, <2>1 DEF CountInv, Counting
  <2>3. sb' = sb
    BY DEF CreateWorkspace
  <2> QED BY <2>1, <2>2, <2>3, CountKept DEF CountInv
<1> QED BY <1>1, <1>2

(* Changing one row of workspaces, but not its generation.                 *)
LEMMA RowCounts ==
  ASSUME CountInv, NEW w \in Workspace, NEW row \in WsRow,
         row.gen = ws[w].gen, row.status # "absent",
         ws' = [ws EXCEPT ![w] = row], sb' = sb
  PROVE  Counting'
<1>1. \A v \in Workspace : /\ ws'[v].gen = ws[v].gen
                           /\ ws'[v].status = "absent" => ws[v].status = "absent"
  BY DEF CountInv, StoreInv, StoreTypeOK
<1> QED BY <1>1, CountKept DEF CountInv

LEMMA FinishCounts ==
  ASSUME CountInv, NEW s \in Sandbox, NEW st \in {"failed", "terminated"},
         NEW wst \in {"deleting", "detached_dirty"}, FinishSandbox(s, st, wst)
  PROVE  Counting'
<1>1. \A t \in Sandbox : /\ sb'[t].ws = sb[t].ws
                         /\ sb'[t].status = "absent" => sb[t].status = "absent"
  BY DEF FinishSandbox, CountInv, StoreInv, StoreTypeOK, SbRow
<1>2. \A v \in Workspace : /\ ws'[v].gen = ws[v].gen
                           /\ ws'[v].status = "absent" => ws[v].status = "absent"
  BY WsRowFields DEF FinishSandbox, WsRow, CountInv
<1> QED BY <1>1, <1>2, CountKept DEF CountInv

(* The transactions of one sandbox that is not absent: marking it running, *)
(* renewing it, and the passing of its lease.                              *)
LEMMA SandboxCounts ==
  ASSUME CountInv, NEW s \in Sandbox,
         MarkSandboxRunning(s) \/ RenewSandbox(s) \/ LeaseExpires(s)
  PROVE  Counting'
<1>1. \A t \in Sandbox : /\ sb'[t].ws = sb[t].ws
                         /\ sb'[t].status = "absent" => sb[t].status = "absent"
  BY DEF MarkSandboxRunning, RenewSandbox, LeaseExpires, CountInv, StoreInv, StoreTypeOK, SbRow
<1>2. \A v \in Workspace : /\ ws'[v].gen = ws[v].gen
                           /\ ws'[v].status = "absent" => ws[v].status = "absent"
  BY WsRowFields DEF MarkSandboxRunning, RenewSandbox, LeaseExpires, WsRow, CountInv
<1> QED BY <1>1, <1>2, CountKept DEF CountInv

LEMMA RowSteps ==
  ASSUME CountInv, NEW w \in Workspace,
         \/ ScheduleWorkspaceDelete(w) \/ GraceEnds(w) \/ RetentionEnds(w)
         \/ \E t \in Transitions : TransitionWorkspace(w, t[1], t[2])
         \/ \E rev \in Revision : CommitRevision(w, ws[w].gen, rev)
  PROVE  Counting'
<1>0. ws[w] \in WsRow /\ StoreInv /\ ws \in [Workspace -> WsRow]
  BY WsRowFields DEF CountInv, StoreInv, StoreTypeOK
<1>1. ASSUME ScheduleWorkspaceDelete(w) PROVE Counting'
  <2> DEFINE row == [ws[w] EXCEPT !.del = "grace", !.aged = FALSE]
  <2>1. row \in WsRow /\ row.gen = ws[w].gen /\ row.status = ws[w].status
    BY <1>0 DEF WsRow
  <2>2. ws' = [ws EXCEPT ![w] = row] /\ sb' = sb /\ ws[w].status # "absent"
    BY <1>1 DEF ScheduleWorkspaceDelete, Exists
  <2> HIDE DEF row
  <2> QED BY <2>1, <2>2, RowCounts
<1>2. ASSUME GraceEnds(w) PROVE Counting'
  <2>1. \A v \in Workspace : ws'[v].gen = ws[v].gen /\ ws'[v].status = ws[v].status
    BY <1>0, <1>2 DEF GraceEnds, WsRow
  <2> QED BY <1>2, <2>1, CountKept DEF GraceEnds, CountInv
<1>3. ASSUME RetentionEnds(w) PROVE Counting'
  <2>1. \A v \in Workspace : ws'[v].gen = ws[v].gen /\ ws'[v].status = ws[v].status
    BY <1>0, <1>3 DEF RetentionEnds, WsRow
  <2> QED BY <1>3, <2>1, CountKept DEF RetentionEnds, CountInv
<1>4. ASSUME NEW t \in Transitions, TransitionWorkspace(w, t[1], t[2]) PROVE Counting'
  <2> DEFINE row == [ws[w] EXCEPT !.status = t[2], !.aged = FALSE]
  <2>1. t[2] \in WsStatus \ {"absent"}
    BY DEF Transitions, WsStatus
  <2>2. row \in WsRow /\ row.gen = ws[w].gen /\ row.status = t[2]
    BY <1>0, <2>1 DEF WsRow
  <2>3. ws' = [ws EXCEPT ![w] = row] /\ sb' = sb
    BY <1>4 DEF TransitionWorkspace
  <2> HIDE DEF row
  <2> QED BY <2>1, <2>2, <2>3, RowCounts
<1>5. ASSUME NEW rev \in Revision, CommitRevision(w, ws[w].gen, rev) PROVE Counting'
  <2> DEFINE row == [ws[w] EXCEPT !.head = rev, !.status = "detached_clean", !.aged = FALSE]
  <2>1. row \in WsRow /\ row.gen = ws[w].gen /\ row.status = "detached_clean"
    BY <1>0 DEF WsRow, WsStatus
  <2>2. ws' = [ws EXCEPT ![w] = row] /\ sb' = sb
    BY <1>5 DEF CommitRevision
  <2> HIDE DEF row
  <2> QED BY <2>1, <2>2, RowCounts
<1> QED BY <1>1, <1>2, <1>3, <1>4, <1>5

LEMMA CountNext == CountInv /\ [StoreNext]_storeVars => CountInv'
<1> SUFFICES ASSUME CountInv, [StoreNext]_storeVars PROVE Counting'
  BY StoreNextInv DEF CountInv
<1>1. CASE UNCHANGED storeVars
  BY <1>1, CountKept DEF storeVars, CountInv
<1>2. ASSUME NEW s \in Sandbox, NEW st \in {"failed", "terminated"}, NEW w \in Workspace,
             FinishSandbox(s, st, FinishedStatus(w))
      PROVE  Counting'
  BY <1>2, FinishCounts DEF FinishedStatus
<1>3. CASE StoreNext
  BY <1>2, <1>3, CreateCounts, DeleteCounts, RowSteps, ClaimCounts, SandboxCounts
     DEF StoreNext
<1> QED BY <1>1, <1>3

(* The generation of a workspace counts the claims since its row was       *)
(* created, so no two claims of a workspace share one.                     *)
THEOREM StoreGenerationCounts == StoreSpec => []GenerationCountsClaims
<1>1. CountInv => GenerationCountsClaims
  BY DEF CountInv, Counting, Claimed, GenerationCountsClaims
<1> QED BY <1>1, StoreInitInv, CountInit, CountNext, PTL DEF StoreSpec, CountInv

-----------------------------------------------------------------------------
(* Types of the operators the actions are built from. *)
(* An empty volume is content like any other.                              *)
LEMMA EmptyVolume == 0 \in Revision /\ 0 \in Content
<1>1. MaxWrites \in Nat /\ Revision = (0 .. MaxWrites) \cup {Partial}
  BY ManagerAssumption
<1>2. 0 \in 0 .. MaxWrites
  BY <1>1
<1> QED BY <1>1, <1>2 DEF Content

(* The writes to an operation row.                                         *)
LEMMA OpsUpdate ==
  ASSUME NEW o \in OpsType, NEW key,
         NEW status \in {"absent", "pending", "running", "succeeded", "failed"}
  PROVE  /\ CreateOperation(o, key) \in OpsType
         /\ UpdateOperation(o, key, status) \in OpsType
         /\ [o EXCEPT ![key] = status] \in OpsType
BY DEF OpsType, CreateOperation, UpdateOperation

(* Docker and volumes: what mounting or removing one can leave.            *)
LEMMA MountedType ==
  ASSUME DataTypeOK, NEW w \in Workspace
  PROVE  /\ Mounted(w) \in [Workspace -> Content]
         /\ Mounted(w)[w] \in Revision
         /\ RemovableVolumes(w) \subseteq Content
BY EmptyVolume DEF DataTypeOK, Mounted, RemovableVolumes, Content

LEMMA RemoveVolumeType ==
  ASSUME DataTypeOK, NEW w \in Workspace, RemoveVolume(w)
  PROVE  vol' \in [Workspace -> Content]
BY MountedType DEF DataTypeOK, RemoveVolume

(* The ways a workspace lock changes hands or moves on.                    *)
LEMMA FreeType == Free \in LockRow
<1>1. NoWorkspace \in WsRow
  BY DEF NoWorkspace, WsRow, WsStatus
<1> QED BY <1>1, EmptyVolume DEF Free, LockRow, LockPc

LEMMA LockSteps ==
  ASSUME LockTypeOK, StoreTypeOK, NEW w \in Workspace,
         \/ Unlock(w)
         \/ \E pc \in LockPc : Goto(w, pc)
         \/ \E by \in Sandbox \cup Task \cup {"cleanup"}, pc \in LockPc, rev \in Revision :
               LockTaken(w, by, pc, rev)
  PROVE  LockTypeOK'
<1>1. CASE Unlock(w)
  BY <1>1, FreeType DEF Unlock, LockTypeOK, LockRow
<1>2. ASSUME NEW pc \in LockPc, Goto(w, pc) PROVE LockTypeOK'
  BY <1>2 DEF Goto, LockTypeOK, LockRow
<1>3. ASSUME NEW by \in Sandbox \cup Task \cup {"cleanup"}, NEW pc \in LockPc,
             NEW rev \in Revision, LockTaken(w, by, pc, rev)
      PROVE LockTypeOK'
  BY <1>3 DEF LockTaken, LockTypeOK, LockRow, StoreTypeOK
<1> QED BY <1>1, <1>2, <1>3

(* The ways a create() request moves on.                                   *)
LEMMA CrUpdate ==
  ASSUME RequestTypeOK, UNCHANGED term, records' \in [Sandbox -> {"none", "valid", "expired"}],
         NEW s \in Sandbox,
         \/ cr' = [cr EXCEPT ![s] = NoCreate]
         \/ /\ \E pc \in CreatePc : cr' = [cr EXCEPT ![s].pc = pc]
            /\ cr[s].pc # "idle"
         \/ \E w \in Workspace, pc \in CreatePc : cr' = [cr EXCEPT ![s] = [pc |-> pc, ws |-> w]]
  PROVE  RequestTypeOK'
<1>1. CASE cr' = [cr EXCEPT ![s] = NoCreate]
  BY <1>1 DEF RequestTypeOK, NoCreate, CreatePc
<1>2. CASE cr[s].pc # "idle" /\ \E pc \in CreatePc : cr' = [cr EXCEPT ![s].pc = pc]
  BY <1>2 DEF RequestTypeOK, CreatePc
<1>3. ASSUME NEW w \in Workspace, NEW pc \in CreatePc,
             cr' = [cr EXCEPT ![s] = [pc |-> pc, ws |-> w]]
      PROVE  RequestTypeOK'
  BY <1>3 DEF RequestTypeOK, CreatePc
<1> QED BY <1>1, <1>2, <1>3

(* The ways a terminate() call moves on.                                   *)
LEMMA TermUpdate ==
  ASSUME RequestTypeOK, UNCHANGED cr, records' \in [Sandbox -> {"none", "valid", "expired"}],
         NEW c \in Caller,
         \/ term' = [term EXCEPT ![c] = NoTerm]
         \/ term' = [term EXCEPT ![c].pc = "finish"] /\ term[c].sb \in Sandbox
         \/ term' = [term EXCEPT ![c].pc = "schedule"] /\ term[c].ws \in Workspace
         \/ \E s \in Sandbox, w \in Workspace \cup {None} :
               term' = [term EXCEPT ![c] = [pc |-> "remove", sb |-> s, ws |-> w]]
  PROVE  RequestTypeOK'
<1>1. CASE term' = [term EXCEPT ![c] = NoTerm]
  BY <1>1 DEF RequestTypeOK, NoTerm
<1>2. CASE term' = [term EXCEPT ![c].pc = "finish"] /\ term[c].sb \in Sandbox
  BY <1>2 DEF RequestTypeOK
<1>3. CASE term' = [term EXCEPT ![c].pc = "schedule"] /\ term[c].ws \in Workspace
  BY <1>3 DEF RequestTypeOK
<1>4. ASSUME NEW s \in Sandbox, NEW w \in Workspace \cup {None},
             term' = [term EXCEPT ![c] = [pc |-> "remove", sb |-> s, ws |-> w]]
      PROVE  RequestTypeOK'
  BY <1>4 DEF RequestTypeOK
<1> QED BY <1>1, <1>2, <1>3, <1>4

(* The two ways out of _prepare_workspace.                                 *)
LEMMA PrepareReturnsTypes ==
  ASSUME StoreTypeOK, RequestTypeOK, LockTypeOK, UNCHANGED <<records, term>>,
         \A v \in Workspace : lock[v].by \in Sandbox => cr[lock[v].by].pc # "idle",
         NEW w \in Workspace, PrepareReturns(w)
  PROVE  RequestTypeOK' /\ LockTypeOK'
<1>1. LockTypeOK'
  BY LockSteps DEF PrepareReturns
<1>2. RequestTypeOK'
  <2>1. CASE lock[w].by \in Sandbox
    BY <2>1, CrUpdate DEF PrepareReturns, CreatePc, RequestTypeOK
  <2>2. CASE lock[w].by \notin Sandbox
    BY <2>2 DEF PrepareReturns, RequestTypeOK
  <2> QED BY <2>1, <2>2
<1> QED BY <1>1, <1>2

LEMMA PrepareRaisesTypes ==
  ASSUME StoreTypeOK, RequestTypeOK, LockTypeOK, QueueTypeOK,
         UNCHANGED <<boot, records, term, sched, mk, reap>>,
         NEW w \in Workspace, NEW o \in OpsType, PrepareRaises(w, o)
  PROVE  RequestTypeOK' /\ LockTypeOK' /\ QueueTypeOK'
<1>1. LockTypeOK'
  BY LockSteps DEF PrepareRaises
<1>2. CASE lock[w].by \in Sandbox /\ cr' = [cr EXCEPT ![lock[w].by] = NoCreate]
           /\ drop' = drop \cup ({w} \cap Ephemeral) /\ ops' = o
  <2>1. RequestTypeOK'
    BY <1>2, CrUpdate DEF RequestTypeOK
  <2>2. QueueTypeOK'
    BY <1>2 DEF QueueTypeOK, OpsType
  <2> QED BY <1>1, <2>1, <2>2
<1>3. CASE UNCHANGED <<cr, drop>> /\ ops' = UpdateOperation(o, RestoreKey(w, lock[w].rev), "failed")
  <2>1. RequestTypeOK'
    BY <1>3 DEF RequestTypeOK
  <2>2. QueueTypeOK'
    BY <1>3, OpsUpdate DEF QueueTypeOK, OpsType
  <2> QED BY <1>1, <2>1, <2>2
<1> QED BY <1>2, <1>3 DEF PrepareRaises

-----------------------------------------------------------------------------
(* A create() request is alone with its sandbox: no record lists it, from  *)
(* the claim on the row is starting and stays so, and there is no          *)
(* container yet, or none any more, when it is about to create one or to   *)
(* finish the row.                                                         *)
CreationOwned(s) ==
    /\ cr[s].pc # "idle" => records[s] = "none"
    /\ cr[s].pc \in {"create", "start", "wait", "unwind", "failed"}
          => sb[s].status = "starting" /\ sb[s].ws = cr[s].ws
    /\ cr[s].pc \in {"create", "failed"} => cont[s] = "none"
(* A terminate() call works on a sandbox whose creation is over, and       *)
(* finishes its row with the container gone.                               *)
TerminationOwned(c) ==
    /\ term[c].pc \in {"remove", "finish"} => cr[term[c].sb].pc = "idle"
    /\ term[c].pc = "finish" => cont[term[c].sb] = "none"
(* A create() request that holds a lock is waiting inside                  *)
(* _prepare_workspace for that very workspace.                             *)
LockOwned(w) ==
    lock[w].by \in Sandbox => cr[lock[w].by].pc = "locked" /\ cr[lock[w].by].ws = w

Ownership ==
    /\ \A s \in Sandbox : CreationOwned(s)
    /\ \A c \in Caller : TerminationOwned(c)
    /\ \A w \in Workspace : LockOwned(w)
    /\ boot # "up" => \A s \in Sandbox : cr[s].pc = "idle"
    /\ ContainersAreActive

MemTypeOK == QueueTypeOK /\ RequestTypeOK /\ LockTypeOK /\ DataTypeOK
Inv == StoreInv /\ MemTypeOK /\ Ownership

(* No background task passes for a sandbox that holds the lock. *)
LEMMA TaskHolder ==
  ASSUME LockTypeOK, NEW w \in Workspace, NEW by \in Task \cup {"cleanup"}, NEW pc, NEW rev,
         LockTaken(w, by, pc, rev)
  PROVE  \A v \in Workspace : lock'[v].by = lock[v].by \/ lock'[v].by \notin Sandbox
<1>1. by \notin Sandbox
  BY ManagerAssumption DEF Task
<1> QED BY <1>1 DEF LockTypeOK, LockTaken

LEMMA GotoHolder ==
  ASSUME LockTypeOK, NEW w \in Workspace,
         Unlock(w) \/ \E pc : Goto(w, pc)
  PROVE  \A v \in Workspace : lock'[v].by = lock[v].by \/ lock'[v].by \notin Sandbox
BY StoreAssumption DEF LockTypeOK, LockRow, Goto, Unlock, Free

(* A step that touches no record, request, termination or container, and   *)
(* lets active rows be, leaves the owners alone.                           *)
LEMMA QuietOwnership ==
  ASSUME RequestTypeOK, Ownership, UNCHANGED <<records, cr, term, cont>>,
         \A s \in Sandbox : IsActive(s) => sb'[s].status = sb[s].status /\ sb'[s].ws = sb[s].ws,
         \A w \in Workspace : lock'[w].by = lock[w].by \/ lock'[w].by \notin Sandbox,
         boot' = boot \/ boot # "up"
  PROVE  Ownership'
<1>1. \A s \in Sandbox : CreationOwned(s)'
  BY DEF Ownership, CreationOwned, IsActive, ActiveStatus
<1>2. \A c \in Caller : TerminationOwned(c)'
  BY DEF Ownership, TerminationOwned, RequestTypeOK
<1>3. \A w \in Workspace : LockOwned(w)'
  BY DEF Ownership, LockOwned
<1>4. boot' # "up" => \A s \in Sandbox : cr'[s].pc = "idle"
  BY DEF Ownership
<1>5. ContainersAreActive'
  BY DEF Ownership, ContainersAreActive, IsActive
<1> QED BY <1>1, <1>2, <1>3, <1>4, <1>5 DEF Ownership

(* Deleting a workspace takes no active sandbox with it.                   *)
LEMMA StoreKeepsActive ==
  ASSUME StoreInv, NEW w \in Workspace, DeleteWorkspace(w)
  PROVE  \A s \in Sandbox : IsActive(s) => sb'[s] = sb[s]
BY StoreAssumption DEF DeleteWorkspace, DeleteOK, StoreInv, WriterBinding, WorkspaceBound, SandboxBound

(* Leaving _prepare_workspace gives the lock back and wakes its creation.  *)
LEMMA PrepareOwnership ==
  ASSUME RequestTypeOK, LockTypeOK, Ownership, UNCHANGED <<sb, boot, records, term, cont>>,
         NEW w \in Workspace, PrepareReturns(w) \/ \E o : PrepareRaises(w, o)
  PROVE  Ownership'
<1>1. lock' = [lock EXCEPT ![w] = Free] /\ Free.by \notin Sandbox
  BY StoreAssumption DEF PrepareReturns, PrepareRaises, Unlock, Free
<1>2. CASE cr' = cr
  BY <1>1, <1>2, QuietOwnership DEF LockTypeOK
<1>3. CASE /\ lock[w].by \in Sandbox
           /\ \/ cr' = [cr EXCEPT ![lock[w].by] = NoCreate]
              \/ cr' = [cr EXCEPT ![lock[w].by].pc = "mount"]
  <2> DEFINE r == lock[w].by
  <2>1. /\ r \in Sandbox /\ cr[r].pc = "locked" /\ cr[r].ws = w
        /\ cr'[r].pc \in {"idle", "mount"}
        /\ \A s \in Sandbox \ {r} : cr'[s] = cr[s]
    BY <1>3 DEF Ownership, LockOwned, RequestTypeOK, NoCreate
  <2> HIDE DEF r
  <2>2. \A s \in Sandbox : CreationOwned(s)'
    BY <2>1 DEF Ownership, CreationOwned
  <2>3. \A c \in Caller : TerminationOwned(c)'
    BY <2>1 DEF Ownership, TerminationOwned, RequestTypeOK
  <2>4. \A v \in Workspace : LockOwned(v)'
    BY <1>1, <2>1 DEF Ownership, LockOwned, LockTypeOK
  <2>5. ContainersAreActive' /\ boot = "up" /\ boot' = boot
    BY <2>1 DEF Ownership, ContainersAreActive, IsActive
  <2> QED BY <2>2, <2>3, <2>4, <2>5 DEF Ownership
<1> QED BY <1>2, <1>3 DEF PrepareReturns, PrepareRaises

-----------------------------------------------------------------------------
(* Every row transition the manager asks for is one the store offers. *)
LEMMA StoreTransitions ==
  ASSUME NEW w \in Workspace
  PROVE  /\ TransitionWorkspace(w, {"detached_dirty"}, "checkpointing") => StoreNext
         /\ TransitionWorkspace(w, {"checkpointing"}, "detached_dirty") => StoreNext
         /\ TransitionWorkspace(w, {"detached_clean"}, "remote_only") => StoreNext
         /\ TransitionWorkspace(w, {"remote_only"}, "restoring") => StoreNext
         /\ TransitionWorkspace(w, {"restoring"}, "detached_clean") => StoreNext
         /\ TransitionWorkspace(w, {"restoring"}, "remote_only") => StoreNext
         /\ TransitionWorkspace(w, {"detached_clean", "remote_only"}, "deleting") => StoreNext
<1>1. ASSUME NEW t \in Transitions, TransitionWorkspace(w, t[1], t[2]) PROVE StoreNext
  BY <1>1 DEF StoreNext
<1>2. /\ <<{"detached_dirty"}, "checkpointing">> \in Transitions
      /\ <<{"checkpointing"}, "detached_dirty">> \in Transitions
      /\ <<{"detached_clean"}, "remote_only">> \in Transitions
      /\ <<{"remote_only"}, "restoring">> \in Transitions
      /\ <<{"restoring"}, "detached_clean">> \in Transitions
      /\ <<{"restoring"}, "remote_only">> \in Transitions
      /\ <<{"detached_clean", "remote_only"}, "deleting">> \in Transitions
  BY DEF Transitions
<1> QED BY <1>1, <1>2

(* What each lemma below shows of a step.                                  *)
Preserved == [StoreNext]_storeVars /\ MemTypeOK' /\ Ownership'

(* What an action leaves alone keeps its type. *)
LEMMA Frames ==
  ASSUME MemTypeOK
  PROVE  /\ UNCHANGED <<ops, boot, sched, drop, mk, reap>> => QueueTypeOK'
         /\ UNCHANGED <<records, cr, term>> => RequestTypeOK'
         /\ UNCHANGED lock => LockTypeOK'
         /\ UNCHANGED <<cont, vol, repo, latest, writes, crashes>> => DataTypeOK'
BY DEF MemTypeOK, QueueTypeOK, RequestTypeOK, LockTypeOK, DataTypeOK

(* What the type part of the invariant says, for citing.                   *)
LEMMA InvTypes ==
  ASSUME Inv
  PROVE  /\ StoreTypeOK /\ QueueTypeOK /\ RequestTypeOK /\ LockTypeOK /\ DataTypeOK
         /\ ops \in OpsType /\ ws \in [Workspace -> WsRow]
         /\ \A w \in Workspace : /\ lock[w].cur.head \in Content
                                 /\ ws[w].head \in Content
         /\ \A w \in Workspace : lock[w].by \in Sandbox => cr[lock[w].by].pc # "idle"
BY DEF Inv, MemTypeOK, QueueTypeOK, LockTypeOK, LockRow, StoreInv, StoreTypeOK, WsRow, Content,
       Ownership, LockOwned

(* Requests on workspaces change tables and queues only.                   *)
LEMMA WorkspaceRequests ==
  ASSUME Inv, NEW w \in Workspace,
         RequestWorkspace(w) \/ EnsureRequested(w) \/ RequestCheckpoint(w) \/ RequestRestore(w)
  PROVE  Preserved
<1>1. CASE RequestWorkspace(w)
  <2>1. StoreNext /\ UNCHANGED sb
    BY <1>1 DEF RequestWorkspace, StoreNext, CreateWorkspace
  <2>2. MemTypeOK'
    BY <1>1 DEF RequestWorkspace, Inv, MemTypeOK, QueueTypeOK, RequestTypeOK, LockTypeOK,
                DataTypeOK, opVars, dockerVars, ghostVars
  <2>3. Ownership'
    BY <1>1, <2>1, QuietOwnership, InvTypes DEF RequestWorkspace, Inv, opVars, dockerVars
  <2> QED BY <2>1, <2>2, <2>3 DEF Preserved
<1>2. CASE EnsureRequested(w)
  <2>1. vol' \in [Workspace -> Content]
    BY <1>2, MountedType, InvTypes DEF EnsureRequested, DataTypeOK
  <2>2. MemTypeOK'
    BY <1>2, <2>1 DEF EnsureRequested, Inv, MemTypeOK, QueueTypeOK, RequestTypeOK, LockTypeOK,
                DataTypeOK, opVars, ghostVars
  <2>3. Ownership'
    BY <1>2, QuietOwnership, InvTypes DEF EnsureRequested, Inv, storeVars
  <2> QED BY <1>2, <2>2, <2>3 DEF Preserved, EnsureRequested
<1>3. CASE RequestCheckpoint(w) \/ RequestRestore(w)
  <2>1. ops' \in OpsType
    <3>1. \/ ops' = [ops EXCEPT ![CheckpointKey(w)] = "succeeded"]
          \/ ops' = [ops EXCEPT ![CheckpointKey(w)] = "pending"]
          \/ ops' = [ops EXCEPT ![RestoreKey(w, ws[w].head)] = "pending"]
      BY <1>3 DEF RequestCheckpoint, RequestRestore
    <3>2. \A key : /\ [ops EXCEPT ![key] = "succeeded"] \in OpsType
                   /\ [ops EXCEPT ![key] = "pending"] \in OpsType
      BY InvTypes, OpsUpdate
    <3> QED BY <3>1, <3>2
  <2>2. sched' \in SUBSET (Task \X Workspace \X Revision)
    BY <1>3, InvTypes, EmptyVolume DEF RequestCheckpoint, RequestRestore, QueueTypeOK, Task, Content
  <2>3. MemTypeOK'
    BY <1>3, <2>1, <2>2, Frames DEF RequestCheckpoint, RequestRestore, Inv, MemTypeOK,
                QueueTypeOK, dockerVars, ghostVars
  <2>4. Ownership'
    BY <1>3, QuietOwnership, InvTypes
       DEF RequestCheckpoint, RequestRestore, Inv, storeVars, dockerVars
  <2> QED BY <1>3, <2>3, <2>4 DEF Preserved, RequestCheckpoint, RequestRestore
<1> QED BY <1>1, <1>2, <1>3

(* A background task that gets the lock.                                   *)
LEMMA TaskStarts ==
  ASSUME Inv, NEW w \in Workspace, TaskStart(w)
  PROVE  Preserved
<1>1. CASE StartCheckpoint(w)
  <2>1. [StoreNext]_storeVars /\ UNCHANGED sb
    BY <1>1, StoreTransitions DEF StartCheckpoint, TransitionWorkspace, storeVars
  <2>2. ops' \in OpsType
    BY <1>1, InvTypes, OpsUpdate DEF StartCheckpoint
  <2>3. LockTypeOK'
    BY <1>1, InvTypes, LockSteps, EmptyVolume, Frames DEF StartCheckpoint, Task, LockPc, Inv
  <2>4. MemTypeOK'
    BY <1>1, <2>2, <2>3, Frames DEF StartCheckpoint, Inv, MemTypeOK, QueueTypeOK, dockerVars, ghostVars
  <2>5. \A v \in Workspace : lock'[v].by = lock[v].by \/ lock'[v].by \notin Sandbox
    BY <1>1, InvTypes, TaskHolder DEF StartCheckpoint, Task
  <2>6. Ownership'
    BY <1>1, <2>1, <2>5, QuietOwnership, InvTypes DEF StartCheckpoint, Inv, dockerVars
  <2> QED BY <2>1, <2>4, <2>6 DEF Preserved
<1>2. CASE StartRetire(w)
  <2>1. [StoreNext]_storeVars /\ UNCHANGED sb
    BY <1>2, StoreTransitions DEF StartRetire, TransitionWorkspace, storeVars
  <2>2. ops' \in OpsType
    BY <1>2, InvTypes, OpsUpdate DEF StartRetire
  <2>3. LockTypeOK'
    BY <1>2, InvTypes, LockSteps, EmptyVolume, Frames DEF StartRetire, Task, LockPc, Inv
  <2>4. MemTypeOK'
    BY <1>2, <2>2, <2>3, Frames DEF StartRetire, Inv, MemTypeOK, QueueTypeOK, dockerVars, ghostVars
  <2>5. \A v \in Workspace : lock'[v].by = lock[v].by \/ lock'[v].by \notin Sandbox
    BY <1>2, InvTypes, TaskHolder DEF StartRetire, Task
  <2>6. Ownership'
    BY <1>2, <2>1, <2>5, QuietOwnership, InvTypes DEF StartRetire, Inv, dockerVars
  <2> QED BY <2>1, <2>4, <2>6 DEF Preserved
<1>3. ASSUME NEW rev \in Revision, StartRestore(w, rev) PROVE Preserved
  <2>1. ops' \in OpsType
    BY <1>3, InvTypes, OpsUpdate DEF StartRestore
  <2>2. sched' \in SUBSET (Task \X Workspace \X Revision)
    BY <1>3, InvTypes DEF StartRestore, QueueTypeOK, Task
  <2>3. MemTypeOK'
    BY <1>3, <2>1, <2>2, Frames DEF StartRestore, Inv, MemTypeOK, QueueTypeOK, dockerVars, ghostVars
  <2>4. Ownership'
    BY <1>3, QuietOwnership, InvTypes DEF StartRestore, Inv, storeVars, dockerVars
  <2> QED BY <1>3, <2>3, <2>4 DEF Preserved, StartRestore
<1>4. ASSUME NEW rev \in Revision, LockForRestore(w, rev) PROVE Preserved
  <2>1. LockTypeOK'
    BY <1>4, InvTypes, LockSteps, Frames DEF LockForRestore, Task, LockPc, Inv
  <2>2. MemTypeOK'
    BY <1>4, <2>1, Frames DEF LockForRestore, Inv, MemTypeOK, QueueTypeOK, opVars, dockerVars, ghostVars
  <2>3. \A v \in Workspace : lock'[v].by = lock[v].by \/ lock'[v].by \notin Sandbox
    BY <1>4, InvTypes, TaskHolder DEF LockForRestore, Task
  <2>4. Ownership'
    BY <1>4, <2>3, QuietOwnership, InvTypes DEF LockForRestore, Inv, storeVars, dockerVars
  <2> QED BY <1>4, <2>2, <2>4 DEF Preserved, LockForRestore
<1> QED BY <1>1, <1>2, <1>3, <1>4 DEF TaskStart

(* _prepare_workspace, from the lock to its return.                        *)
LEMMA PrepareSteps ==
  ASSUME Inv, NEW w \in Workspace, PrepareStep(w)
  PROVE  Preserved
<1>1. CASE PrepareFails(w) \/ InspectFound(w)
  <2>1. QueueTypeOK' /\ RequestTypeOK' /\ LockTypeOK'
    BY <1>1, InvTypes, PrepareReturnsTypes, PrepareRaisesTypes, Frames
       DEF PrepareFails, InspectFound, Inv, opVars
  <2>2. DataTypeOK'
    BY <1>1, Frames DEF PrepareFails, InspectFound, Inv, dockerVars, ghostVars
  <2>3. Ownership'
    BY <1>1, InvTypes, PrepareOwnership
       DEF PrepareFails, InspectFound, Inv, storeVars, dockerVars
  <2> QED BY <1>1, <2>1, <2>2, <2>3 DEF Preserved, MemTypeOK, PrepareFails, InspectFound
<1>2. CASE InspectRemote(w)
  <2>1. LockTypeOK'
    BY <1>2, InvTypes, LockSteps DEF InspectRemote, LockPc
  <2>2. MemTypeOK'
    BY <1>2, <2>1, Frames DEF InspectRemote, Inv, MemTypeOK, opVars, dockerVars, ghostVars
  <2>3. Ownership'
    BY <1>2, InvTypes, GotoHolder, QuietOwnership DEF InspectRemote, Inv, storeVars, dockerVars
  <2> QED BY <1>2, <2>2, <2>3 DEF Preserved, InspectRemote
<1>3. CASE InspectLost(w)
  <2>1. [StoreNext]_storeVars /\ UNCHANGED sb
    BY <1>3, StoreTransitions DEF InspectLost, TransitionWorkspace, storeVars
  <2>2. DataTypeOK'
    BY <1>3, Frames DEF InspectLost, Inv, dockerVars, ghostVars
  <2>3. CASE Goto(w, "clear") /\ UNCHANGED <<ops, cr, drop>>
    <3>1. LockTypeOK'
      BY <2>3, InvTypes, LockSteps DEF LockPc
    <3>2. MemTypeOK'
      BY <1>3, <2>2, <2>3, <3>1, Frames DEF InspectLost, Inv, MemTypeOK
    <3>3. Ownership'
      BY <1>3, <2>1, <2>3, InvTypes, GotoHolder, QuietOwnership DEF InspectLost, Inv, dockerVars
    <3> QED BY <2>1, <3>2, <3>3 DEF Preserved
  <2>4. CASE PrepareRaises(w, ops)
    <3>1. QueueTypeOK' /\ RequestTypeOK' /\ LockTypeOK'
      BY <1>3, <2>4, InvTypes, PrepareRaisesTypes DEF InspectLost
    <3>2. Ownership'
      BY <1>3, <2>1, <2>4, InvTypes, PrepareOwnership DEF InspectLost, Inv, dockerVars
    <3> QED BY <2>1, <2>2, <3>1, <3>2 DEF Preserved, MemTypeOK
  <2> QED BY <1>3, <2>3, <2>4 DEF InspectLost
<1>4. CASE InspectMissing(w)
  <2>1. UNCHANGED storeVars
    BY <1>4 DEF InspectMissing
  <2>2. DataTypeOK'
    BY <1>4, Frames DEF InspectMissing, Inv, dockerVars, ghostVars
  <2>3. CASE Goto(w, "materialize") /\ UNCHANGED <<ops, cr, drop>>
    <3>1. LockTypeOK'
      BY <2>3, InvTypes, LockSteps DEF LockPc
    <3>2. MemTypeOK'
      BY <1>4, <2>2, <2>3, <3>1, Frames DEF InspectMissing, Inv, MemTypeOK
    <3>3. Ownership'
      BY <1>4, <2>1, <2>3, InvTypes, GotoHolder, QuietOwnership
         DEF InspectMissing, Inv, storeVars, dockerVars
    <3> QED BY <2>1, <3>2, <3>3 DEF Preserved
  <2>4. CASE PrepareRaises(w, ops)
    <3>1. QueueTypeOK' /\ RequestTypeOK' /\ LockTypeOK'
      BY <1>4, <2>4, InvTypes, PrepareRaisesTypes DEF InspectMissing
    <3>2. Ownership'
      BY <1>4, <2>1, <2>4, InvTypes, PrepareOwnership
         DEF InspectMissing, Inv, storeVars, dockerVars
    <3> QED BY <2>1, <2>2, <3>1, <3>2 DEF Preserved, MemTypeOK
  <2> QED BY <1>4, <2>3, <2>4 DEF InspectMissing
<1>5. CASE Materialize(w)
  <2>1. QueueTypeOK' /\ RequestTypeOK' /\ LockTypeOK'
    BY <1>5, InvTypes, PrepareReturnsTypes, Frames DEF Materialize, Inv, opVars
  <2>2. DataTypeOK'
    BY <1>5, InvTypes, MountedType DEF Materialize, DataTypeOK, ghostVars
  <2>3. Ownership'
    BY <1>5, InvTypes, PrepareOwnership DEF Materialize, Inv, storeVars
  <2> QED BY <1>5, <2>1, <2>2, <2>3 DEF Preserved, MemTypeOK, Materialize
<1>6. CASE ClearTarget(w)
  <2>1. LockTypeOK'
    BY <1>6, InvTypes, LockSteps DEF ClearTarget, LockPc
  <2>2. DataTypeOK'
    BY <1>6, InvTypes, RemoveVolumeType DEF ClearTarget, DataTypeOK, ghostVars
  <2>3. MemTypeOK'
    BY <1>6, <2>1, <2>2, Frames DEF ClearTarget, Inv, MemTypeOK, opVars
  <2>4. Ownership'
    BY <1>6, InvTypes, GotoHolder, QuietOwnership DEF ClearTarget, Inv, storeVars
  <2> QED BY <1>6, <2>3, <2>4 DEF Preserved, ClearTarget
<1>7. CASE EnsureTarget(w)
  <2>1. [StoreNext]_storeVars /\ UNCHANGED sb
    BY <1>7, StoreTransitions DEF EnsureTarget, TransitionWorkspace, storeVars
  <2>2. ops' \in OpsType
    BY <1>7, InvTypes, OpsUpdate DEF EnsureTarget
  <2>3. DataTypeOK'
    BY <1>7, InvTypes, MountedType DEF EnsureTarget, DataTypeOK, ghostVars
  <2>4. Goto(w, "restore") \/ Goto(w, "rollback")
    BY <1>7 DEF EnsureTarget
  <2>5. LockTypeOK'
    BY <2>4, InvTypes, LockSteps DEF LockPc
  <2>6. MemTypeOK'
    BY <1>7, <2>2, <2>3, <2>5, Frames DEF EnsureTarget, Inv, MemTypeOK, QueueTypeOK
  <2>7. Ownership'
    BY <1>7, <2>1, <2>4, InvTypes, GotoHolder, QuietOwnership DEF EnsureTarget, Inv
  <2> QED BY <2>1, <2>6, <2>7 DEF Preserved
<1>8. CASE RunRestore(w)
  <2>1. Goto(w, "restored") \/ Goto(w, "rollback")
    BY <1>8 DEF RunRestore
  <2>2. LockTypeOK'
    BY <2>1, InvTypes, LockSteps DEF LockPc
  <2>3. vol' \in [Workspace -> Content]
    <3>1. Partial \in Content
      BY ManagerAssumption DEF Content
    <3> QED BY <1>8, <3>1, InvTypes, MountedType DEF RunRestore, DataTypeOK
  <2>4. MemTypeOK'
    BY <1>8, <2>2, <2>3, Frames DEF RunRestore, Inv, MemTypeOK, DataTypeOK, opVars, ghostVars
  <2>5. Ownership'
    BY <1>8, <2>1, InvTypes, GotoHolder, QuietOwnership DEF RunRestore, Inv, storeVars
  <2> QED BY <1>8, <2>4, <2>5 DEF Preserved, RunRestore
<1>9. CASE FinishRestore(w)
  <2>1. StoreNext /\ UNCHANGED sb
    BY <1>9, StoreTransitions DEF FinishRestore, TransitionWorkspace
  <2>2. ops' \in OpsType
    BY <1>9, InvTypes, OpsUpdate DEF FinishRestore
  <2>3. RequestTypeOK' /\ LockTypeOK'
    BY <1>9, InvTypes, PrepareReturnsTypes DEF FinishRestore
  <2>4. MemTypeOK'
    BY <1>9, <2>2, <2>3, Frames DEF FinishRestore, Inv, MemTypeOK, QueueTypeOK, dockerVars, ghostVars
  <2>5. Ownership'
    BY <1>9, <2>1, InvTypes, PrepareOwnership DEF FinishRestore, Inv, dockerVars
  <2> QED BY <2>1, <2>4, <2>5 DEF Preserved
<1>10. CASE RollBack(w)
  <2>1. [StoreNext]_storeVars /\ UNCHANGED sb
    BY <1>10, StoreTransitions DEF RollBack, TransitionWorkspace, storeVars
  <2>2. UpdateOperation(ops, RestoreKey(w, lock[w].cur.head), "failed") \in OpsType
    BY InvTypes, OpsUpdate
  <2>3. QueueTypeOK' /\ RequestTypeOK' /\ LockTypeOK'
    BY <1>10, <2>2, InvTypes, PrepareRaisesTypes DEF RollBack
  <2>4. DataTypeOK'
    BY <1>10, InvTypes, RemoveVolumeType DEF RollBack, DataTypeOK, ghostVars
  <2>5. Ownership'
    BY <1>10, <2>1, InvTypes, PrepareOwnership DEF RollBack, Inv
  <2> QED BY <2>1, <2>3, <2>4, <2>5 DEF Preserved, MemTypeOK
<1> QED BY <1>1, <1>2, <1>3, <1>4, <1>5, <1>6, <1>7, <1>8, <1>9, <1>10 DEF PrepareStep

(* Deleting the rows of a workspace.                                       *)
LEMMA DeleteRowsTypes ==
  ASSUME Inv, NEW w \in Workspace, DeleteRows(w)
  PROVE  /\ StoreNext /\ ops' \in OpsType /\ latest' \in [Workspace -> Revision]
         /\ \A s \in Sandbox : IsActive(s) => sb'[s] = sb[s]
<1>1. StoreNext
  BY DEF DeleteRows, StoreNext
<1>2. ops' \in OpsType
  BY InvTypes DEF DeleteRows, OpsType
<1>3. latest' \in [Workspace -> Revision]
  BY InvTypes, EmptyVolume DEF DeleteRows, DataTypeOK
<1> QED BY <1>1, <1>2, <1>3, StoreKeepsActive DEF DeleteRows, Inv

(* _checkpoint_workspace: the snapshot and its commit.                     *)
LEMMA CheckpointSteps ==
  ASSUME Inv, NEW w \in Workspace, CheckpointStep(w)
  PROVE  Preserved
<1>1. CASE RunCheckpoint(w)
  <2>1. vol' = Mounted(w) /\ vol' \in [Workspace -> Content] /\ vol'[w] \in Revision
    BY <1>1, InvTypes, MountedType DEF RunCheckpoint
  <2>2. repo' \in [Workspace -> SUBSET Revision]
    BY <1>1, <2>1, InvTypes DEF RunCheckpoint, DataTypeOK
  <2>3. DataTypeOK'
    BY <1>1, <2>1, <2>2, InvTypes DEF RunCheckpoint, DataTypeOK, ghostVars
  <2>4. CASE lock' = [lock EXCEPT ![w].pc = "commit", ![w].rev = vol'[w]] /\ UNCHANGED <<storeVars, ops>>
    <3>1. LockTypeOK' /\ \A v \in Workspace : lock'[v].by = lock[v].by
      <4>1. lock \in [Workspace -> LockRow] /\ "commit" \in LockPc
        BY InvTypes DEF LockTypeOK, LockPc
      <4>2. lock[w] \in LockRow
        BY <4>1
      <4>3. /\ lock'[w] = [lock[w] EXCEPT !.pc = "commit", !.rev = vol'[w]]
            /\ \A v \in Workspace \ {w} : lock'[v] = lock[v]
            /\ lock' = [v \in Workspace |-> lock'[v]]
        BY <2>4, <4>1
      <4>4. lock'[w] \in LockRow /\ lock'[w].by = lock[w].by
        BY <2>1, <4>1, <4>2, <4>3 DEF LockRow
      <4>5. \A v \in Workspace : lock'[v] \in LockRow /\ lock'[v].by = lock[v].by
        BY <4>1, <4>3, <4>4
      <4> QED BY <4>3, <4>5 DEF LockTypeOK
    <3>2. MemTypeOK'
      BY <1>1, <2>3, <2>4, <3>1, Frames DEF RunCheckpoint, Inv, MemTypeOK
    <3>3. Ownership'
      BY <1>1, <2>4, <3>1, InvTypes, QuietOwnership DEF RunCheckpoint, Inv, storeVars
    <3> QED BY <2>4, <3>2, <3>3 DEF Preserved
  <2>5. CASE CheckpointFails(w)
    <3>1. StoreNext /\ UNCHANGED sb
      BY <2>5, StoreTransitions DEF CheckpointFails, TransitionWorkspace
    <3>2. ops' \in OpsType
      BY <2>5, InvTypes, OpsUpdate DEF CheckpointFails
    <3>3. LockTypeOK'
      BY <2>5, InvTypes, LockSteps DEF CheckpointFails
    <3>4. MemTypeOK'
      BY <1>1, <2>3, <3>2, <3>3, Frames DEF RunCheckpoint, Inv, MemTypeOK, QueueTypeOK
    <3>5. Ownership'
      BY <1>1, <2>5, <3>1, InvTypes, GotoHolder, QuietOwnership
         DEF RunCheckpoint, CheckpointFails, Inv
    <3> QED BY <3>1, <3>4, <3>5 DEF Preserved
  <2> QED BY <1>1, <2>4, <2>5 DEF RunCheckpoint
<1>2. CASE CommitCheckpoint(w)
  <2>1. StoreNext /\ UNCHANGED sb
    <3>1. lock[w].rev \in Revision /\ lock[w].cur.gen = ws[w].gen
      BY <1>2, InvTypes DEF CommitCheckpoint, CommitRevision, CommitOK, LockTypeOK, LockRow
    <3> QED BY <1>2, <3>1 DEF CommitCheckpoint, CommitRevision, StoreNext
  <2>2. ops' \in OpsType
    BY <1>2, InvTypes, OpsUpdate DEF CommitCheckpoint
  <2>3. LockTypeOK'
    BY <1>2, InvTypes, LockSteps DEF CommitCheckpoint
  <2>4. MemTypeOK'
    BY <1>2, <2>2, <2>3, Frames DEF CommitCheckpoint, Inv, MemTypeOK, QueueTypeOK, dockerVars, ghostVars
  <2>5. Ownership'
    BY <1>2, <2>1, InvTypes, GotoHolder, QuietOwnership DEF CommitCheckpoint, Inv, dockerVars
  <2> QED BY <2>1, <2>4, <2>5 DEF Preserved
<1> QED BY <1>1, <1>2 DEF CheckpointStep

(* _retire_workspace: the repository, then the volume and the row.         *)
LEMMA RetireSteps ==
  ASSUME Inv, NEW w \in Workspace, RetireStep(w)
  PROVE  Preserved
<1>1. CASE EraseRepository(w)
  <2>1. repo' \in [Workspace -> SUBSET Revision]
    BY <1>1, InvTypes DEF EraseRepository, DataTypeOK
  <2>2. ops' \in OpsType
    <3>1. \/ ops' = UpdateOperation(ops, RetireKey(w), "succeeded")
          \/ ops' = UpdateOperation(ops, RetireKey(w), "failed")
      BY <1>1 DEF EraseRepository
    <3> QED BY <3>1, InvTypes, OpsUpdate
  <2>3. Unlock(w) \/ Goto(w, "discard")
    BY <1>1 DEF EraseRepository
  <2>4. LockTypeOK'
    BY <2>3, InvTypes, LockSteps DEF LockPc
  <2>5. MemTypeOK'
    BY <1>1, <2>1, <2>2, <2>4, Frames
       DEF EraseRepository, Inv, MemTypeOK, QueueTypeOK, DataTypeOK, dockerVars, ghostVars
  <2>6. Ownership'
    BY <1>1, <2>3, InvTypes, GotoHolder, QuietOwnership
       DEF EraseRepository, Inv, storeVars, dockerVars
  <2> QED BY <1>1, <2>5, <2>6 DEF Preserved, EraseRepository
<1>2. CASE DiscardRetired(w)
  <2>1. LockTypeOK'
    BY <1>2, InvTypes, LockSteps DEF DiscardRetired
  <2>2. CASE DeleteRows(w) /\ vol' = [vol EXCEPT ![w] = None]
    <3>1. DataTypeOK'
      BY <1>2, <2>2, InvTypes, DeleteRowsTypes DEF DiscardRetired, DataTypeOK, Content
    <3>2. MemTypeOK'
      BY <1>2, <2>1, <2>2, <3>1, DeleteRowsTypes, Frames DEF DiscardRetired, Inv, MemTypeOK, QueueTypeOK
    <3>3. Ownership'
      BY <1>2, <2>2, InvTypes, DeleteRowsTypes, GotoHolder, QuietOwnership DEF DiscardRetired, Inv
    <3> QED BY <2>2, <3>2, <3>3, DeleteRowsTypes DEF Preserved
  <2>3. CASE /\ ops' = UpdateOperation(ops, RetireKey(w), "failed")
             /\ UNCHANGED <<storeVars, vol, latest>>
    <3>1. ops' \in OpsType
      BY <2>3, InvTypes, OpsUpdate
    <3>2. MemTypeOK'
      BY <1>2, <2>1, <2>3, <3>1, Frames DEF DiscardRetired, Inv, MemTypeOK, QueueTypeOK
    <3>3. Ownership'
      BY <1>2, <2>3, InvTypes, GotoHolder, QuietOwnership DEF DiscardRetired, Inv, storeVars
    <3> QED BY <2>3, <3>2, <3>3 DEF Preserved
  <2> QED BY <1>2, <2>2, <2>3 DEF DiscardRetired
<1> QED BY <1>1, <1>2 DEF RetireStep

(* _cleanup_local_workspace: the volume, then the row.                     *)
LEMMA CleanupSteps ==
  ASSUME Inv, NEW w \in Workspace, StartCleanup(w) \/ CleanupStep(w)
  PROVE  Preserved
<1>1. CASE StartCleanup(w)
  <2>1. LockTypeOK'
    BY <1>1, InvTypes, LockSteps, EmptyVolume, Frames DEF StartCleanup, LockPc, Inv
  <2>2. QueueTypeOK'
    BY <1>1, InvTypes DEF StartCleanup, QueueTypeOK, opVars
  <2>3. MemTypeOK'
    BY <1>1, <2>1, <2>2, Frames DEF StartCleanup, Inv, MemTypeOK, dockerVars, ghostVars
  <2>4. \A v \in Workspace : lock'[v].by = lock[v].by \/ lock'[v].by \notin Sandbox
    BY <1>1, InvTypes, TaskHolder DEF StartCleanup
  <2>5. Ownership'
    BY <1>1, <2>4, InvTypes, QuietOwnership DEF StartCleanup, Inv, storeVars, dockerVars
  <2> QED BY <1>1, <2>3, <2>5 DEF Preserved, StartCleanup
<1>2. CASE EvictVolume(w)
  <2>1. Unlock(w) \/ Goto(w, "evicted")
    BY <1>2 DEF EvictVolume
  <2>2. LockTypeOK'
    BY <2>1, InvTypes, LockSteps DEF LockPc
  <2>3. DataTypeOK'
    BY <1>2, InvTypes DEF EvictVolume, DataTypeOK, Content, ghostVars
  <2>4. MemTypeOK'
    BY <1>2, <2>2, <2>3, Frames DEF EvictVolume, Inv, MemTypeOK, opVars
  <2>5. Ownership'
    BY <1>2, <2>1, InvTypes, GotoHolder, QuietOwnership DEF EvictVolume, Inv, storeVars
  <2> QED BY <1>2, <2>4, <2>5 DEF Preserved, EvictVolume
<1>3. CASE FinishCleanup(w)
  <2>1. [StoreNext]_storeVars /\ UNCHANGED sb
    BY <1>3, StoreTransitions DEF FinishCleanup, TransitionWorkspace, storeVars
  <2>2. LockTypeOK'
    BY <1>3, InvTypes, LockSteps DEF FinishCleanup
  <2>3. MemTypeOK'
    BY <1>3, <2>2, Frames DEF FinishCleanup, Inv, MemTypeOK, opVars, dockerVars, ghostVars
  <2>4. Ownership'
    BY <1>3, <2>1, InvTypes, GotoHolder, QuietOwnership DEF FinishCleanup, Inv, dockerVars
  <2> QED BY <2>1, <2>3, <2>4 DEF Preserved
<1> QED BY <1>1, <1>2, <1>3 DEF CleanupStep

(* The end of an ephemeral workspace.                                      *)
LEMMA DropSteps ==
  ASSUME Inv, NEW w \in Workspace, DropEphemeral(w)
  PROVE  Preserved
<1>1. vol' \in [Workspace -> Content]
  BY InvTypes, RemoveVolumeType DEF DropEphemeral
<1>2. /\ [StoreNext]_storeVars /\ ops' \in OpsType /\ latest' \in [Workspace -> Revision]
      /\ \A s \in Sandbox : IsActive(s) => sb'[s] = sb[s]
  BY InvTypes, DeleteRowsTypes DEF DropEphemeral, DataTypeOK, storeVars
<1>3. QueueTypeOK'
  BY <1>2, InvTypes DEF DropEphemeral, QueueTypeOK
<1>4. MemTypeOK'
  BY <1>1, <1>2, <1>3, Frames DEF DropEphemeral, Inv, MemTypeOK, DataTypeOK
<1>5. Ownership'
  BY <1>2, InvTypes, QuietOwnership DEF DropEphemeral, Inv
<1> QED BY <1>2, <1>4, <1>5 DEF Preserved

(* Deadlines that pass and workers that write.                             *)
LEMMA WorldSteps ==
  ASSUME Inv,
         \/ \E w \in Workspace : PassGrace(w) \/ PassRetention(w)
         \/ \E s \in Sandbox : WorkerWrites(s)
  PROVE  Preserved
<1>1. ASSUME NEW w \in Workspace, PassGrace(w) \/ PassRetention(w) PROVE Preserved
  <2>1. StoreNext /\ UNCHANGED sb
    BY <1>1 DEF PassGrace, PassRetention, GraceEnds, RetentionEnds, StoreNext
  <2>2. MemTypeOK'
    BY <1>1, Frames DEF PassGrace, PassRetention, Inv, MemTypeOK, opVars, memVars, dockerVars, ghostVars
  <2>3. Ownership'
    BY <1>1, <2>1, InvTypes, QuietOwnership
       DEF PassGrace, PassRetention, Inv, memVars, dockerVars
  <2> QED BY <2>1, <2>2, <2>3 DEF Preserved
<1>2. ASSUME NEW s \in Sandbox, WorkerWrites(s) PROVE Preserved
  <2>1. writes' \in 0 .. MaxWrites /\ writes' \in Content /\ writes' \in Revision
    <3>1. MaxWrites \in Nat /\ Revision = (0 .. MaxWrites) \cup {Partial}
      BY ManagerAssumption
    <3>2. writes \in 0 .. MaxWrites /\ writes < MaxWrites /\ writes' = writes + 1
      BY <1>2, InvTypes DEF WorkerWrites, DataTypeOK
    <3>3. writes' \in 0 .. MaxWrites
      BY <3>1, <3>2
    <3> QED BY <3>1, <3>3 DEF Content
  <2>2. DataTypeOK'
    BY <1>2, <2>1, InvTypes DEF WorkerWrites, DataTypeOK
  <2>3. MemTypeOK'
    BY <1>2, <2>2, Frames DEF WorkerWrites, Inv, MemTypeOK, opVars, memVars
  <2>4. Ownership'
    BY <1>2, InvTypes, QuietOwnership DEF WorkerWrites, Inv, storeVars, memVars
  <2> QED BY <1>2, <2>3, <2>4 DEF Preserved, WorkerWrites
<1> QED BY <1>1, <1>2

(* The creations: each change of cr[s] keeps what the others rely on. *)
LEMMA CreationOwnership ==
  ASSUME RequestTypeOK, LockTypeOK, Ownership, UNCHANGED <<term, lock>>, NEW s \in Sandbox,
         cr[s].pc \notin {"idle", "locked"},
         cr' = [cr EXCEPT ![s] = NoCreate] \/ \E pc \in CreatePc \ {"idle"} : cr' = [cr EXCEPT ![s].pc = pc],
         boot' = boot,
         \A r \in Sandbox \ {s} :
            /\ records'[r] = records[r] /\ cont'[r] = cont[r]
            /\ IsActive(r) => sb'[r].status = sb[r].status /\ sb'[r].ws = sb[r].ws,
         CreationOwned(s)',
         cont'[s] # "none" => IsActive(s)'
  PROVE  Ownership'
<1>1. /\ cr'[s].pc = "idle" \/ cr'[s].ws = cr[s].ws
      /\ \A r \in Sandbox \ {s} : cr'[r] = cr[r]
  BY DEF RequestTypeOK, NoCreate
<1>2. \A r \in Sandbox : CreationOwned(r)'
  <2>1. ASSUME NEW r \in Sandbox \ {s} PROVE CreationOwned(r)'
    <3>1. /\ cr'[r] = cr[r] /\ records'[r] = records[r] /\ cont'[r] = cont[r]
          /\ sb[r].status = "starting" => sb'[r].status = sb[r].status /\ sb'[r].ws = sb[r].ws
      BY <1>1 DEF IsActive, ActiveStatus
    <3>2. CreationOwned(r)
      BY DEF Ownership
    <3> QED BY <3>1, <3>2 DEF CreationOwned
  <2> QED BY <2>1
<1>3. \A c \in Caller : TerminationOwned(c)'
  <2>1. ASSUME NEW c \in Caller, term[c].pc \in {"remove", "finish"}
        PROVE  TerminationOwned(c)'
    <3>1. term[c].sb \in Sandbox /\ TerminationOwned(c)
      BY <2>1 DEF Ownership, RequestTypeOK
    <3>2. term[c].sb # s
      BY <2>1, <3>1 DEF TerminationOwned
    <3> QED BY <1>1, <3>1, <3>2 DEF TerminationOwned
  <2> QED BY <2>1 DEF TerminationOwned
<1>4. \A w \in Workspace : LockOwned(w)'
  BY <1>1 DEF Ownership, LockOwned
<1>5. boot' = "up"
  BY DEF Ownership
<1>6. ContainersAreActive'
  <2>1. ASSUME NEW r \in Sandbox \ {s}, cont'[r] # "none" PROVE IsActive(r)'
    <3>1. IsActive(r) /\ sb'[r].status = sb[r].status
      BY <2>1 DEF Ownership, ContainersAreActive
    <3> QED BY <3>1 DEF IsActive
  <2> QED BY <2>1 DEF ContainersAreActive
<1> QED BY <1>2, <1>3, <1>4, <1>5, <1>6 DEF Ownership

(* create() draws an id nothing refers to.                                 *)
LEMMA SandboxRequests ==
  ASSUME Inv, NEW s \in Sandbox, NEW w \in Workspace, RequestSandbox(s, w)
  PROVE  Preserved
<1>1. [StoreNext]_storeVars /\ UNCHANGED sb
  BY DEF RequestSandbox, StoreNext, CreateWorkspace, storeVars
<1>2. cr' = [cr EXCEPT ![s] = [pc |-> "prepare", ws |-> w]]
  BY DEF RequestSandbox
<1>3. RequestTypeOK'
  BY <1>2, InvTypes, CrUpdate DEF RequestSandbox, RequestTypeOK, CreatePc
<1>4. MemTypeOK'
  BY <1>3, Frames DEF RequestSandbox, Inv, MemTypeOK, opVars, dockerVars, ghostVars
<1>5. /\ cr[s].pc = "idle" /\ records[s] = "none" /\ \A c \in Caller : term[c].sb # s
      /\ boot = "up" /\ UNCHANGED <<boot, records, term, lock, cont>>
  BY DEF RequestSandbox, FreshSandbox, Up, dockerVars
<1>6. cr'[s].pc = "prepare" /\ \A r \in Sandbox \ {s} : cr'[r] = cr[r]
  BY <1>2, InvTypes DEF RequestTypeOK
<1>7. Ownership'
  <2>1. \A r \in Sandbox : CreationOwned(r)'
    BY <1>1, <1>5, <1>6 DEF Inv, Ownership, CreationOwned
  <2>2. \A c \in Caller : TerminationOwned(c)'
    BY <1>5, <1>6, InvTypes DEF Inv, Ownership, TerminationOwned, RequestTypeOK
  <2>3. \A v \in Workspace : LockOwned(v)'
    BY <1>5, <1>6 DEF Inv, Ownership, LockOwned
  <2>4. ContainersAreActive'
    BY <1>1, <1>5 DEF Inv, Ownership, ContainersAreActive, IsActive
  <2> QED BY <1>5, <2>1, <2>2, <2>3, <2>4 DEF Ownership
<1> QED BY <1>1, <1>4, <1>7 DEF Preserved

(* create() up to the claim.                                               *)
LEMMA PreparationSteps ==
  ASSUME Inv, NEW s \in Sandbox,
         \/ LockForCreate(s) \/ StartPrepare(s) \/ FinishPrepare(s) \/ PrepareContainerFails(s)
         \/ ClaimRefused(s)
  PROVE  Preserved
<1>1. CASE LockForCreate(s)
  <2> DEFINE w == cr[s].ws
  <2>1. w \in Workspace /\ cr[s].pc = "prepare" /\ UNCHANGED storeVars
    BY <1>1, InvTypes DEF LockForCreate, RequestTypeOK
  <2>2. CASE LockTaken(w, s, "inspect", 0) /\ cr' = [cr EXCEPT ![s].pc = "locked"]
    <3>1. LockTypeOK'
      BY <2>1, <2>2, InvTypes, LockSteps, EmptyVolume DEF LockPc
    <3>2. RequestTypeOK'
      BY <1>1, <2>1, <2>2, InvTypes, CrUpdate DEF LockForCreate, RequestTypeOK, CreatePc
    <3>3. MemTypeOK'
      BY <1>1, <3>1, <3>2, Frames DEF LockForCreate, Inv, MemTypeOK, opVars, dockerVars, ghostVars
    <3>4. /\ cr'[s].pc = "locked" /\ cr'[s].ws = w /\ \A r \in Sandbox \ {s} : cr'[r] = cr[r]
          /\ lock'[w].by = s /\ \A v \in Workspace \ {w} : lock'[v] = lock[v]
          /\ UNCHANGED <<sb, boot, records, term, cont>>
      BY <1>1, <2>1, <2>2, InvTypes
         DEF LockForCreate, RequestTypeOK, LockTypeOK, LockTaken, storeVars, dockerVars
    <3> HIDE DEF w
    <3>5. \A r \in Sandbox : CreationOwned(r)'
      BY <2>1, <3>4 DEF Inv, Ownership, CreationOwned
    <3>6. \A c \in Caller : TerminationOwned(c)'
      BY <2>1, <3>4, InvTypes DEF Inv, Ownership, TerminationOwned, RequestTypeOK
    <3>7. \A v \in Workspace : LockOwned(v)'
      BY <2>1, <3>4 DEF Inv, Ownership, LockOwned
    <3>8. ContainersAreActive' /\ boot' = "up"
      BY <2>1, <3>4 DEF Inv, Ownership, ContainersAreActive, IsActive
    <3> QED BY <2>1, <3>3, <3>5, <3>6, <3>7, <3>8 DEF Preserved, Ownership
  <2>3. CASE cr' = [cr EXCEPT ![s] = NoCreate] /\ UNCHANGED lock
    <3>1. RequestTypeOK'
      BY <1>1, <2>3, InvTypes, CrUpdate DEF LockForCreate, RequestTypeOK
    <3>2. MemTypeOK'
      BY <1>1, <2>3, <3>1, Frames DEF LockForCreate, Inv, MemTypeOK, opVars, dockerVars, ghostVars
    <3>3. UNCHANGED <<sb, boot, records, term, cont>> /\ cr'[s].pc = "idle"
      BY <1>1, <2>1, <2>3, InvTypes
         DEF LockForCreate, RequestTypeOK, NoCreate, storeVars, dockerVars
    <3>4. CreationOwned(s)' /\ (cont'[s] # "none" => IsActive(s)')
      BY <3>3 DEF CreationOwned, Inv, Ownership, ContainersAreActive, IsActive
    <3>5. Ownership'
      BY <2>1, <2>3, <3>3, <3>4, InvTypes, CreationOwnership DEF Inv
    <3> QED BY <2>1, <3>2, <3>5 DEF Preserved
  <2> QED BY <1>1, <2>2, <2>3 DEF LockForCreate
<1>2. CASE StartPrepare(s) \/ FinishPrepare(s) \/ PrepareContainerFails(s) \/ ClaimRefused(s)
  <2>1. /\ UNCHANGED <<ws, sb, ops, boot, records, term, lock, sched, mk, reap, cont, repo,
                       latest, writes, crashes>>
        /\ cr[s].pc \in {"mount", "preparing", "claim"}
    BY <1>2 DEF StartPrepare, FinishPrepare, PrepareContainerFails, ClaimRefused,
                storeVars, opVars, dockerVars, ghostVars
  <2>2. \/ cr' = [cr EXCEPT ![s] = NoCreate]
        \/ \E pc \in {"preparing", "claim"} : cr' = [cr EXCEPT ![s].pc = pc]
    BY <1>2 DEF StartPrepare, FinishPrepare, PrepareContainerFails, ClaimRefused, CreateGivesUp
  <2>3. RequestTypeOK'
    BY <2>1, <2>2, InvTypes, CrUpdate DEF RequestTypeOK, CreatePc
  <2>4. vol' \in [Workspace -> Content]
    BY <1>2, InvTypes, MountedType
       DEF StartPrepare, FinishPrepare, PrepareContainerFails, ClaimRefused, dockerVars,
           RequestTypeOK, DataTypeOK
  <2>5. drop' \in SUBSET Ephemeral
    BY <1>2, InvTypes DEF StartPrepare, FinishPrepare, PrepareContainerFails, ClaimRefused,
                CreateGivesUp, QueueTypeOK
  <2>6. MemTypeOK'
    BY <2>1, <2>3, <2>4, <2>5, Frames DEF Inv, MemTypeOK, QueueTypeOK, DataTypeOK
  <2>7. cr'[s].pc \in {"idle", "preparing", "claim"} /\ (cr'[s].pc # "idle" => cr[s].pc # "idle")
    BY <2>1, <2>2, InvTypes DEF RequestTypeOK, NoCreate
  <2>8. CreationOwned(s)' /\ (cont'[s] # "none" => IsActive(s)')
    BY <2>1, <2>7 DEF CreationOwned, Inv, Ownership, ContainersAreActive, IsActive
  <2>9. Ownership'
    BY <2>1, <2>2, <2>8, InvTypes, CreationOwnership DEF Inv, CreatePc
  <2> QED BY <2>1, <2>6, <2>9 DEF Preserved, storeVars
<1> QED BY <1>1, <1>2

(* create() from the claim to a running worker, or to its removal.         *)
LEMMA LaunchSteps ==
  ASSUME Inv, NEW s \in Sandbox,
         \/ Claim(s) \/ CreateContainer(s) \/ StartContainer(s) \/ LaunchFails(s)
         \/ RemoveFailedContainer(s)
  PROVE  Preserved
<1>1. CASE Claim(s)
  <2>1. StoreNext
    BY <1>1, InvTypes DEF Claim, RequestTypeOK, StoreNext
  <2>2. /\ sb' = [sb EXCEPT ![s] = [status |-> "starting", ws |-> cr[s].ws, lease |-> "valid"]]
        /\ cr' = [cr EXCEPT ![s].pc = "create"]
        /\ cr[s].pc = "claim" /\ sb[s].status = "absent"
        /\ UNCHANGED <<boot, records, term, lock, cont>>
    BY <1>1 DEF Claim, ClaimWorkspace, ClaimOK, dockerVars
  <2>3. RequestTypeOK'
    BY <2>2, InvTypes, CrUpdate DEF RequestTypeOK, CreatePc
  <2>4. MemTypeOK'
    BY <1>1, <2>3, Frames DEF Claim, Inv, MemTypeOK, opVars, dockerVars, ghostVars
  <2>5. /\ sb'[s].status = "starting" /\ sb'[s].ws = cr[s].ws
        /\ cr'[s].pc = "create" /\ cr'[s].ws = cr[s].ws
        /\ \A r \in Sandbox \ {s} : sb'[r] = sb[r]
    BY <2>2, InvTypes DEF RequestTypeOK, StoreTypeOK
  <2>6. CreationOwned(s)' /\ (cont'[s] # "none" => IsActive(s)')
    BY <2>2, <2>5 DEF CreationOwned, Inv, Ownership, ContainersAreActive, IsActive, ActiveStatus
  <2>7. Ownership'
    BY <2>2, <2>5, <2>6, InvTypes, CreationOwnership DEF Inv, CreatePc
  <2> QED BY <2>1, <2>4, <2>7 DEF Preserved
<1>2. CASE CreateContainer(s) \/ StartContainer(s) \/ LaunchFails(s)
  <2>1. /\ UNCHANGED <<ws, sb, ops, boot, records, term, lock, sched, drop, mk, reap, repo,
                       latest, writes, crashes>>
        /\ cr[s].pc \in {"create", "start", "wait"}
    BY <1>2 DEF CreateContainer, StartContainer, LaunchFails, storeVars, opVars, dockerVars, ghostVars
  <2>2. /\ \E pc \in {"start", "wait", "failed", "unwind"} :
              /\ cr' = [cr EXCEPT ![s].pc = pc]
              /\ pc = "failed" => cont'[s] = "none"
        /\ \/ UNCHANGED cont
           \/ \E st \in {"stopped", "running"} : cont' = [cont EXCEPT ![s] = st]
    BY <1>2 DEF CreateContainer, StartContainer, LaunchFails, dockerVars
  <2>3. RequestTypeOK'
    BY <2>1, <2>2, InvTypes, CrUpdate DEF RequestTypeOK, CreatePc
  <2>4. vol' \in [Workspace -> Content]
    BY <1>2, InvTypes, MountedType
       DEF CreateContainer, StartContainer, LaunchFails, dockerVars, RequestTypeOK, DataTypeOK
  <2>5. MemTypeOK'
    BY <2>1, <2>2, <2>3, <2>4, InvTypes, Frames DEF Inv, MemTypeOK, DataTypeOK
  <2>6. /\ cr'[s].pc \in {"start", "wait", "failed", "unwind"} /\ cr'[s].ws = cr[s].ws
        /\ cr'[s].pc = "failed" => cont'[s] = "none"
        /\ \A r \in Sandbox \ {s} : cont'[r] = cont[r]
    BY <2>2, InvTypes DEF RequestTypeOK, DataTypeOK
  <2>7. CreationOwned(s)' /\ IsActive(s)'
    BY <2>1, <2>6 DEF CreationOwned, Inv, Ownership, IsActive, ActiveStatus
  <2>8. Ownership'
    BY <2>1, <2>2, <2>6, <2>7, InvTypes, CreationOwnership DEF Inv, CreatePc
  <2> QED BY <2>1, <2>5, <2>8 DEF Preserved, storeVars
<1>3. CASE RemoveFailedContainer(s)
  <2>1. /\ UNCHANGED <<ws, sb, ops, boot, term, lock, sched, drop, mk, reap, vol, repo,
                       latest, writes, crashes>>
        /\ cr[s].pc = "unwind"
    BY <1>3 DEF RemoveFailedContainer, storeVars, opVars, ghostVars
  <2>2. \/ /\ cr' = [cr EXCEPT ![s].pc = "failed"] /\ UNCHANGED records
           /\ cont' = [cont EXCEPT ![s] = "none"]
        \/ /\ cr' = [cr EXCEPT ![s] = NoCreate] /\ UNCHANGED cont
           /\ records' = [records EXCEPT ![s] = "expired"]
    BY <1>3 DEF RemoveFailedContainer
  <2>3. RequestTypeOK'
    BY <2>1, <2>2, InvTypes, CrUpdate DEF RequestTypeOK, CreatePc
  <2>4. MemTypeOK'
    BY <2>1, <2>2, <2>3, InvTypes, Frames DEF Inv, MemTypeOK, DataTypeOK
  <2>5. /\ \/ cr'[s].pc = "idle" /\ cont'[s] = cont[s]
           \/ /\ cr'[s].pc = "failed" /\ cr'[s].ws = cr[s].ws /\ cont'[s] = "none"
              /\ records'[s] = records[s]
        /\ \A r \in Sandbox \ {s} : cont'[r] = cont[r] /\ records'[r] = records[r]
    BY <2>2, InvTypes DEF RequestTypeOK, DataTypeOK, NoCreate
  <2>6. CreationOwned(s)' /\ IsActive(s)'
    BY <2>1, <2>5 DEF CreationOwned, Inv, Ownership, IsActive, ActiveStatus
  <2>7. Ownership'
    BY <2>1, <2>2, <2>5, <2>6, InvTypes, CreationOwnership DEF Inv, CreatePc
  <2> QED BY <2>1, <2>4, <2>7 DEF Preserved, storeVars
<1> QED BY <1>1, <1>2, <1>3

(* create() hands the sandbox over, or finishes it.                        *)
LEMMA EndOfCreation ==
  ASSUME Inv, NEW s \in Sandbox, WorkerReady(s) \/ FinishFailedCreation(s)
  PROVE  Preserved
<1>1. CASE WorkerReady(s)
  <2>1. StoreNext
    BY <1>1 DEF WorkerReady, StoreNext
  <2>2. records' \in [Sandbox -> {"none", "valid", "expired"}]
    BY <1>1, InvTypes DEF WorkerReady, RequestTypeOK, StoreTypeOK, SbRow
  <2>3. RequestTypeOK'
    BY <1>1, <2>2, InvTypes, CrUpdate DEF WorkerReady
  <2>4. MemTypeOK'
    BY <1>1, <2>3, Frames DEF WorkerReady, Inv, MemTypeOK, opVars, dockerVars, ghostVars
  <2>5. /\ cr'[s].pc = "idle" /\ sb'[s].status = "running"
        /\ \A r \in Sandbox \ {s} : sb'[r] = sb[r] /\ records'[r] = records[r]
        /\ UNCHANGED <<boot, term, lock, cont>> /\ cr[s].pc = "wait"
    BY <1>1, InvTypes
       DEF WorkerReady, MarkSandboxRunning, RequestTypeOK, StoreTypeOK, SbRow, NoCreate, dockerVars
  <2>6. CreationOwned(s)' /\ IsActive(s)'
    BY <2>5 DEF CreationOwned, IsActive, ActiveStatus
  <2>7. Ownership'
    BY <1>1, <2>5, <2>6, InvTypes, CreationOwnership DEF WorkerReady, Inv
  <2> QED BY <2>1, <2>4, <2>7 DEF Preserved
<1>2. CASE FinishFailedCreation(s)
  <2>1. /\ cr[s].pc = "failed" /\ cr' = [cr EXCEPT ![s] = NoCreate]
        /\ sb[s].ws = cr[s].ws /\ cr[s].ws \in Workspace /\ cont[s] = "none"
        /\ UNCHANGED <<boot, records, term, lock, cont>>
    BY <1>2, InvTypes
       DEF FinishFailedCreation, CreateGivesUp, Inv, Ownership, CreationOwned, RequestTypeOK, dockerVars
  <2>2. StoreNext
    BY <1>2, <2>1 DEF FinishFailedCreation, StoreNext
  <2>3. RequestTypeOK'
    BY <2>1, InvTypes, CrUpdate DEF RequestTypeOK
  <2>4. QueueTypeOK'
    BY <1>2, InvTypes DEF FinishFailedCreation, CreateGivesUp, QueueTypeOK, opVars
  <2>5. MemTypeOK'
    BY <1>2, <2>3, <2>4, Frames DEF FinishFailedCreation, Inv, MemTypeOK, dockerVars, ghostVars
  <2>6. cr'[s].pc = "idle" /\ \A r \in Sandbox \ {s} : sb'[r] = sb[r]
    BY <1>2, <2>1, InvTypes
       DEF FinishFailedCreation, FinishSandbox, RequestTypeOK, StoreTypeOK, NoCreate
  <2>7. CreationOwned(s)'
    BY <2>6 DEF CreationOwned
  <2>8. Ownership'
    BY <2>1, <2>6, <2>7, InvTypes, CreationOwnership DEF Inv
  <2> QED BY <2>2, <2>5, <2>8 DEF Preserved
<1> QED BY <1>1, <1>2

(* Steps that change no creation and no lock: what they change about one   *)
(* sandbox must leave it owned.                                            *)
LEMMA RecordOwnership ==
  ASSUME RequestTypeOK, Ownership, UNCHANGED <<cr, lock, boot>>,
         \A s \in Sandbox :
            /\ cr[s].pc # "idle" => /\ records'[s] = records[s]
                                    /\ sb'[s].status = sb[s].status /\ sb'[s].ws = sb[s].ws
                                    /\ cont[s] = "none" => cont'[s] = "none"
            /\ cont'[s] # "none" => sb'[s].status \in ActiveStatus,
         \A c \in Caller : TerminationOwned(c)'
  PROVE  Ownership'
<1>1. \A s \in Sandbox : CreationOwned(s)'
  BY DEF Ownership, CreationOwned
<1>2. \A w \in Workspace : LockOwned(w)'
  BY DEF Ownership, LockOwned
<1>3. ContainersAreActive'
  BY DEF ContainersAreActive, IsActive
<1> QED BY <1>1, <1>2, <1>3 DEF Ownership

(* A terminate() call starts for a sandbox with a record, so its creation  *)
(* is over.                                                                *)
LEMMA TerminationStarts ==
  ASSUME Inv, NEW c \in Caller, NEW s \in Sandbox, NEW w \in Workspace \cup {None},
         records[s] # "none", term' = [term EXCEPT ![c] = [pc |-> "remove", sb |-> s, ws |-> w]],
         UNCHANGED <<sb, boot, records, cr, lock, cont>>
  PROVE  RequestTypeOK' /\ Ownership'
<1>1. RequestTypeOK'
  BY InvTypes, TermUpdate DEF RequestTypeOK
<1>2. \A d \in Caller : TerminationOwned(d)'
  <2>1. cr[s].pc = "idle"
    BY DEF Inv, Ownership, CreationOwned
  <2>2. term'[c].sb = s /\ term'[c].pc = "remove" /\ \A d \in Caller \ {c} : term'[d] = term[d]
    BY InvTypes DEF RequestTypeOK
  <2> QED BY <2>1, <2>2 DEF Inv, Ownership, TerminationOwned
<1>3. Ownership'
  BY <1>2, InvTypes, RecordOwnership DEF Inv, Ownership, ContainersAreActive, IsActive
<1> QED BY <1>1, <1>3

(* terminate() and release_workspace, as requested.                        *)
LEMMA TerminationRequests ==
  ASSUME Inv, NEW c \in Client,
         \/ \E s \in Sandbox : RequestTerminate(c, s)
         \/ \E w \in Workspace : RequestRelease(c, w)
  PROVE  Preserved
<1>0. c \in Caller
  BY DEF Caller
<1>1. ASSUME NEW s \in Sandbox, RequestTerminate(c, s) PROVE Preserved
  <2>1. RequestTypeOK' /\ Ownership'
    BY <1>0, <1>1, TerminationStarts DEF RequestTerminate, storeVars, dockerVars
  <2>2. MemTypeOK'
    BY <1>1, <2>1, Frames DEF RequestTerminate, Inv, MemTypeOK, opVars, dockerVars, ghostVars
  <2> QED BY <1>1, <2>1, <2>2 DEF Preserved, RequestTerminate
<1>2. ASSUME NEW w \in Workspace, RequestRelease(c, w) PROVE Preserved
  <2>1. [StoreNext]_storeVars /\ UNCHANGED sb
    BY <1>2 DEF RequestRelease, ScheduleWorkspaceDelete, StoreNext, storeVars
  <2>2. CASE ws[w].active # None /\ records[ws[w].active] # "none"
    <3>1. ws[w].active \in Sandbox
      BY <2>2, WsRowFields DEF Inv
    <3>2. term' = [term EXCEPT ![c] = [pc |-> "remove", sb |-> ws[w].active, ws |-> w]]
      BY <1>2, <2>2 DEF RequestRelease
    <3>3. RequestTypeOK' /\ Ownership'
      BY <1>0, <1>2, <2>1, <2>2, <3>1, <3>2, TerminationStarts DEF RequestRelease, dockerVars
    <3> QED BY <1>2, <2>1, <3>3, Frames
            DEF Preserved, RequestRelease, Inv, MemTypeOK, opVars, dockerVars, ghostVars
  <2>3. CASE UNCHANGED term
    <3>1. MemTypeOK'
      BY <1>2, <2>3, Frames DEF RequestRelease, Inv, MemTypeOK, opVars, dockerVars, ghostVars
    <3>2. Ownership'
      BY <1>2, <2>1, <2>3, InvTypes, QuietOwnership DEF RequestRelease, Inv, dockerVars
    <3> QED BY <2>1, <3>1, <3>2 DEF Preserved
  <2> QED BY <1>2, <2>2, <2>3 DEF RequestRelease
<1> QED BY <1>1, <1>2

(* terminate(): the container, the row, the deletion it was asked for.     *)
LEMMA TerminateSteps ==
  ASSUME Inv, NEW c \in Caller, TerminateStep(c)
  PROVE  Preserved
<1>1. CASE RemoveContainer(c)
  <2> DEFINE s == term[c].sb
  <2>1. s \in Sandbox /\ cr[s].pc = "idle" /\ UNCHANGED <<ws, sb, boot, cr, lock>>
    BY <1>1, InvTypes DEF RemoveContainer, Inv, Ownership, TerminationOwned, RequestTypeOK, storeVars
  <2>2. \/ /\ cont' = [cont EXCEPT ![s] = "none"] /\ records' = [records EXCEPT ![s] = "none"]
           /\ term' = [term EXCEPT ![c].pc = "finish"]
        \/ term' = [term EXCEPT ![c] = NoTerm] /\ UNCHANGED <<cont, records>>
    BY <1>1 DEF RemoveContainer
  <2>3. RequestTypeOK'
    BY <2>1, <2>2, InvTypes, TermUpdate DEF RequestTypeOK
  <2>4. DataTypeOK'
    BY <1>1, <2>2, InvTypes DEF RemoveContainer, DataTypeOK, ghostVars
  <2>5. MemTypeOK'
    BY <1>1, <2>3, <2>4, Frames DEF RemoveContainer, Inv, MemTypeOK, opVars
  <2>6. /\ \A r \in Sandbox \ {s} : cont'[r] = cont[r] /\ records'[r] = records[r]
        /\ cont'[s] \in {cont[s], "none"}
        /\ \A d \in Caller \ {c} : term'[d] = term[d]
        /\ \/ term'[c].pc = "idle"
           \/ term'[c].pc = "finish" /\ term'[c].sb = s /\ cont'[s] = "none"
    BY <2>1, <2>2, InvTypes DEF RequestTypeOK, DataTypeOK, NoTerm
  <2> HIDE DEF s
  <2>7. \A d \in Caller : TerminationOwned(d)'
    <3>1. TerminationOwned(c)'
      BY <2>1, <2>6 DEF TerminationOwned
    <3>2. ASSUME NEW d \in Caller \ {c} PROVE TerminationOwned(d)'
      <4>1. TerminationOwned(d) /\ (term[d].pc = "finish" => term[d].sb \in Sandbox)
        BY InvTypes DEF Inv, Ownership, RequestTypeOK
      <4> QED BY <2>1, <2>6, <4>1 DEF TerminationOwned
    <3> QED BY <3>1, <3>2
  <2>8. Ownership'
    BY <2>1, <2>6, <2>7, InvTypes, RecordOwnership DEF Inv, Ownership, ContainersAreActive, IsActive
  <2> QED BY <2>1, <2>5, <2>8 DEF Preserved, storeVars
<1>2. CASE FinishTerminated(c)
  <2> DEFINE s == term[c].sb
  <2>1. /\ s \in Sandbox /\ cr[s].pc = "idle" /\ cont[s] = "none" /\ term[c].pc = "finish"
        /\ UNCHANGED <<boot, records, cr, lock, cont>>
    BY <1>2, InvTypes
       DEF FinishTerminated, Inv, Ownership, TerminationOwned, RequestTypeOK, dockerVars
  <2>2. [StoreNext]_storeVars /\ \A r \in Sandbox \ {s} : sb'[r] = sb[r]
    <3>1. sb[s].ws \in Workspace \cup {None}
      BY <2>1, InvTypes DEF StoreTypeOK, SbRow
    <3>2. CASE UNCHANGED storeVars
      BY <3>2 DEF storeVars
    <3>3. CASE sb[s].ws # None /\ FinishSandbox(s, "terminated", FinishedStatus(sb[s].ws))
      <4>1. StoreNext
        BY <2>1, <3>1, <3>3 DEF StoreNext
      <4>2. \A r \in Sandbox \ {s} : sb'[r] = sb[r]
        BY <2>1, <3>3, InvTypes DEF FinishSandbox, StoreTypeOK
      <4> QED BY <4>1, <4>2
    <3> QED BY <1>2, <3>2, <3>3 DEF FinishTerminated
  <2>3. \/ term' = [term EXCEPT ![c] = NoTerm]
        \/ term' = [term EXCEPT ![c] = [@ EXCEPT !.pc = "schedule"]] /\ term[c].ws \in Workspace
    BY <1>2, InvTypes DEF FinishTerminated, RequestTypeOK
  <2>4. RequestTypeOK'
    BY <2>1, <2>3, InvTypes, TermUpdate DEF RequestTypeOK
  <2>5. QueueTypeOK'
    <3>1. sb[s].ws # None => sb[s].ws \in Workspace
      BY <2>1, InvTypes DEF StoreTypeOK, SbRow
    <3>2. drop' \in SUBSET Ephemeral
      BY <1>2, InvTypes DEF FinishTerminated, QueueTypeOK
    <3>3. sched' \in SUBSET (Task \X Workspace \X Revision)
      BY <1>2, <3>1, InvTypes, EmptyVolume DEF FinishTerminated, QueueTypeOK, Task
    <3> QED BY <1>2, <3>2, <3>3, InvTypes DEF FinishTerminated, QueueTypeOK, opVars
  <2>6. MemTypeOK'
    BY <1>2, <2>4, <2>5, Frames DEF FinishTerminated, Inv, MemTypeOK, dockerVars, ghostVars
  <2>7. \A d \in Caller \ {c} : term'[d] = term[d]
    BY <2>3, InvTypes DEF RequestTypeOK
  <2>8. term'[c].pc \notin {"remove", "finish"}
    BY <2>3, InvTypes DEF RequestTypeOK, NoTerm
  <2>9. \A d \in Caller : TerminationOwned(d)'
    BY <2>1, <2>7, <2>8 DEF Inv, Ownership, TerminationOwned
  <2> HIDE DEF s
  <2>10. Ownership'
    BY <2>1, <2>2, <2>9, InvTypes, RecordOwnership DEF Inv, Ownership, ContainersAreActive, IsActive
  <2> QED BY <2>2, <2>6, <2>10 DEF Preserved
<1>3. CASE ScheduleDelete(c)
  <2>1. [StoreNext]_storeVars /\ UNCHANGED sb
    BY <1>3, InvTypes
       DEF ScheduleDelete, ScheduleWorkspaceDelete, RequestTypeOK, StoreNext, storeVars
  <2>2. term' = [term EXCEPT ![c] = NoTerm] /\ UNCHANGED <<boot, records, cr, lock, cont>>
    BY <1>3 DEF ScheduleDelete, dockerVars
  <2>3. RequestTypeOK'
    BY <2>2, InvTypes, TermUpdate DEF RequestTypeOK
  <2>4. MemTypeOK'
    BY <1>3, <2>3, Frames DEF ScheduleDelete, Inv, MemTypeOK, opVars, dockerVars, ghostVars
  <2>5. term'[c].pc = "idle" /\ \A d \in Caller \ {c} : term'[d] = term[d]
    BY <2>2, InvTypes DEF RequestTypeOK, NoTerm
  <2>6. \A d \in Caller : TerminationOwned(d)'
    BY <2>2, <2>5 DEF Inv, Ownership, TerminationOwned
  <2>7. Ownership'
    BY <2>1, <2>2, <2>6, InvTypes, RecordOwnership DEF Inv, Ownership, ContainersAreActive, IsActive
  <2> QED BY <2>1, <2>4, <2>7 DEF Preserved
<1> QED BY <1>1, <1>2, <1>3 DEF TerminateStep

(* Renewals, expiries and workers that die.                                *)
LEMMA LeaseSteps ==
  ASSUME Inv, NEW s \in Sandbox, Renew(s) \/ PassLease(s) \/ WorkerDies(s)
  PROVE  Preserved
<1>1. [StoreNext]_storeVars
  BY DEF Renew, PassLease, WorkerDies, StoreNext
<1>2. /\ UNCHANGED <<ops, boot, cr, term, lock, sched, drop, mk, reap, vol, repo, latest, writes,
                    crashes>>
      /\ records' \in [Sandbox -> {"none", "valid", "expired"}]
      /\ cont' \in [Sandbox -> {"none", "stopped", "running"}]
  BY InvTypes DEF Renew, PassLease, WorkerDies, RequestTypeOK, DataTypeOK, opVars, memVars,
                  dockerVars, ghostVars
<1>3. \A r \in Sandbox : /\ records[r] = "none" => records'[r] = "none"
                         /\ cont'[r] = "none" <=> cont[r] = "none"
  BY InvTypes DEF Renew, PassLease, WorkerDies, RequestTypeOK, DataTypeOK, memVars, dockerVars
<1>4. \A r \in Sandbox : sb'[r].status = sb[r].status /\ sb'[r].ws = sb[r].ws
  <2>1. \/ UNCHANGED sb
        \/ sb' = [sb EXCEPT ![s].lease = "valid"]
        \/ sb' = [sb EXCEPT ![s].lease = "expired"]
    BY DEF Renew, PassLease, WorkerDies, RenewSandbox, LeaseExpires, storeVars
  <2> QED BY <2>1, InvTypes DEF StoreTypeOK, SbRow
<1>5. MemTypeOK'
  BY <1>2, InvTypes DEF MemTypeOK, QueueTypeOK, RequestTypeOK, LockTypeOK, DataTypeOK
<1>6. \A c \in Caller : TerminationOwned(c)'
  BY <1>2, <1>3, InvTypes DEF Inv, Ownership, TerminationOwned, RequestTypeOK
<1>7. Ownership'
  BY <1>2, <1>3, <1>4, <1>6, InvTypes, RecordOwnership
     DEF Inv, Ownership, CreationOwned, ContainersAreActive, IsActive
<1> QED BY <1>1, <1>5, <1>7 DEF Preserved

(* The reaper loop.                                                        *)
LEMMA ReaperSteps ==
  ASSUME Inv, ReaperStep
  PROVE  Preserved
<1>0. "reaper" \in Caller
  BY DEF Caller
<1>1. ASSUME NEW s \in Sandbox, ReaperTerminating(s), records[s] # "none",
             reap' \in [pc : {"sleep", "reap", "clean"}, todo : SUBSET (Sandbox \cup Workspace)],
             UNCHANGED <<ws, sb, ops, boot, records, cr, lock, sched, drop, mk, cont, vol, repo,
                         latest, writes, crashes>>
      PROVE  Preserved
  <2>1. RequestTypeOK' /\ Ownership'
    BY <1>0, <1>1, TerminationStarts DEF ReaperTerminating
  <2>2. MemTypeOK'
    BY <1>1, <2>1, InvTypes, Frames DEF Inv, MemTypeOK, QueueTypeOK
  <2> QED BY <1>1, <2>1, <2>2 DEF Preserved, storeVars
<1>2. ASSUME reap' \in [pc : {"sleep", "reap", "clean"}, todo : SUBSET (Sandbox \cup Workspace)],
             sched' \in SUBSET (Task \X Workspace \X Revision),
             UNCHANGED <<ws, sb, ops, boot, records, cr, term, lock, drop, mk, cont, vol, repo,
                         latest, writes, crashes>>
      PROVE  Preserved
  <2>1. MemTypeOK'
    BY <1>2, InvTypes, Frames DEF Inv, MemTypeOK, QueueTypeOK
  <2>2. Ownership'
    BY <1>2, InvTypes, QuietOwnership DEF Inv
  <2> QED BY <1>2, <2>1, <2>2 DEF Preserved, storeVars
<1>3. CASE ReaperWakes
  <2>1. reap' \in [pc : {"sleep", "reap", "clean"}, todo : SUBSET (Sandbox \cup Workspace)]
    BY <1>3 DEF ReaperWakes
  <2> QED BY <1>1, <1>2, <1>3, <2>1, InvTypes
          DEF ReaperWakes, QueueTypeOK, storeVars, opVars, dockerVars, ghostVars
<1>4. ASSUME NEW s \in Sandbox, ReaperTerminates(s) PROVE Preserved
  <2>1. reap' \in [pc : {"sleep", "reap", "clean"}, todo : SUBSET (Sandbox \cup Workspace)]
    BY <1>4, InvTypes DEF ReaperTerminates, QueueTypeOK
  <2> QED BY <1>1, <1>2, <1>4, <2>1, InvTypes
          DEF ReaperTerminates, QueueTypeOK, storeVars, opVars, dockerVars, ghostVars
<1>5. CASE ReaperSchedules
  <2>1. sched' \in SUBSET (Task \X Workspace \X Revision)
    BY <1>5, InvTypes, EmptyVolume DEF ReaperSchedules, QueueTypeOK, Task
  <2>2. reap' \in [pc : {"sleep", "reap", "clean"}, todo : SUBSET (Sandbox \cup Workspace)]
    BY <1>5 DEF ReaperSchedules
  <2> QED BY <1>2, <1>5, <2>1, <2>2
          DEF ReaperSchedules, storeVars, opVars, dockerVars, ghostVars
<1>6. CASE ReaperSleeps
  BY <1>2, <1>6, InvTypes
     DEF ReaperSleeps, Asleep, QueueTypeOK, storeVars, opVars, dockerVars, ghostVars
<1> QED BY <1>3, <1>4, <1>5, <1>6, CleanupSteps DEF ReaperStep

(* A process without memory owns nothing.                                  *)
LEMMA ForgetOwnership ==
  ASSUME Inv, Forget
  PROVE  /\ RequestTypeOK' /\ LockTypeOK'
         /\ boot' \in {"up", "down", "reconcile", "operations", "workspaces"} /\ ops' = ops
               => QueueTypeOK'
         /\ UNCHANGED sb /\ (\A s \in Sandbox : cont'[s] # "none" => cont[s] # "none")
               => Ownership'
<1>1. /\ \A s \in Sandbox : cr'[s].pc = "idle" /\ cr'[s] = NoCreate
      /\ \A c \in Caller : term'[c].pc = "idle" /\ term'[c] = NoTerm
      /\ \A w \in Workspace : lock'[w].by = None /\ lock'[w] = Free
  BY DEF Forget, NoCreate, NoTerm, Free
<1>2. RequestTypeOK'
  BY <1>1 DEF Forget, RequestTypeOK, NoCreate, NoTerm, CreatePc
<1>3. LockTypeOK'
  BY FreeType DEF Forget, LockTypeOK
<1>4. ASSUME boot' \in {"up", "down", "reconcile", "operations", "workspaces"}, ops' = ops
      PROVE  QueueTypeOK'
  BY <1>4, InvTypes DEF Forget, QueueTypeOK, Asleep
<1>5. ASSUME UNCHANGED sb, \A s \in Sandbox : cont'[s] # "none" => cont[s] # "none"
      PROVE  Ownership'
  <2>1. \A s \in Sandbox : CreationOwned(s)'
    BY <1>1 DEF CreationOwned
  <2>2. \A c \in Caller : TerminationOwned(c)'
    BY <1>1 DEF TerminationOwned
  <2>3. \A w \in Workspace : LockOwned(w)'
    BY <1>1, StoreAssumption DEF LockOwned
  <2>4. ContainersAreActive'
    BY <1>5 DEF Inv, Ownership, ContainersAreActive, IsActive
  <2> QED BY <1>1, <2>1, <2>2, <2>3, <2>4 DEF Ownership
<1> QED BY <1>2, <1>3, <1>4, <1>5

(* A crash keeps the tables and the containers.                            *)
LEMMA CrashSteps ==
  ASSUME Inv, Crash
  PROVE  Preserved
<1>1. crashes' \in 0 .. MaxCrashes
  <2>1. MaxCrashes \in Nat
    BY ManagerAssumption
  <2> QED BY <2>1, InvTypes DEF Crash, DataTypeOK
<1>2. vol' \in [Workspace -> Content] /\ repo' \in [Workspace -> SUBSET Revision]
  BY DEF Crash, Content
<1>3. DataTypeOK'
  BY <1>1, <1>2, InvTypes DEF Crash, DataTypeOK, ghostVars
<1>4. MemTypeOK' /\ Ownership'
  BY <1>3, ForgetOwnership DEF Crash, MemTypeOK, opVars, storeVars
<1> QED BY <1>4 DEF Preserved, Crash

(* startup(): nothing is being created while containers and rows are       *)
(* reconciled.                                                             *)
LEMMA StartupSteps ==
  ASSUME Inv, StartupStep
  PROVE  Preserved
<1>1. CASE Boot \/ PurgeOrphans \/ RecoverOperations \/ Booted
  <2>1. /\ boot # "up" /\ boot' \in {"up", "down", "reconcile", "operations", "workspaces"}
        /\ UNCHANGED <<ws, sb, records, cr, term, lock, sched, mk, reap, cont, vol, repo,
                       latest, writes, crashes>>
    BY <1>1 DEF Boot, PurgeOrphans, RecoverOperations, Booted, storeVars, memVars, dockerVars, ghostVars
  <2>2. drop' \in SUBSET Ephemeral
    BY <1>1, InvTypes DEF Boot, PurgeOrphans, RecoverOperations, Booted, QueueTypeOK, memVars
  <2>3. ops' \in OpsType
    BY <1>1, InvTypes DEF Boot, PurgeOrphans, RecoverOperations, Booted, OpsType, opVars
  <2>4. MemTypeOK'
    BY <2>1, <2>2, <2>3, InvTypes, Frames DEF Inv, MemTypeOK, QueueTypeOK
  <2>5. Ownership'
    BY <2>1, InvTypes, QuietOwnership DEF Inv
  <2> QED BY <2>1, <2>4, <2>5 DEF Preserved, storeVars
<1>2. ASSUME NEW w \in Workspace, RecoverWorkspace(w) PROVE Preserved
  <2>1. StoreNext /\ UNCHANGED sb
    BY <1>2, StoreTransitions DEF RecoverWorkspace, TransitionWorkspace
  <2>2. vol' \in [Workspace -> Content]
    BY <1>2, InvTypes, RemoveVolumeType DEF RecoverWorkspace, DataTypeOK
  <2>3. MemTypeOK'
    BY <1>2, <2>2, InvTypes, Frames
       DEF RecoverWorkspace, Inv, MemTypeOK, DataTypeOK, opVars, memVars, ghostVars
  <2>4. Ownership'
    BY <1>2, <2>1, InvTypes, QuietOwnership DEF RecoverWorkspace, Inv, memVars
  <2> QED BY <2>1, <2>3, <2>4 DEF Preserved
<1>3. ASSUME NEW s \in Sandbox, AdoptContainer(s) PROVE Preserved
  <2>1. [StoreNext]_storeVars
    BY <1>3 DEF AdoptContainer, StoreNext
  <2>2. RequestTypeOK'
    BY <1>3, InvTypes DEF AdoptContainer, RequestTypeOK
  <2>3. MemTypeOK'
    BY <1>3, <2>2, Frames DEF AdoptContainer, Inv, MemTypeOK, opVars, dockerVars, ghostVars
  <2>4. \A r \in Sandbox : cr[r].pc = "idle"
    BY <1>3 DEF AdoptContainer, Inv, Ownership
  <2>5. \A r \in Sandbox : sb'[r].status = sb[r].status \/ sb'[r].status = "running"
    BY <1>3, InvTypes DEF AdoptContainer, MarkSandboxRunning, StoreTypeOK, SbRow, storeVars
  <2>6. \A c \in Caller : TerminationOwned(c)'
    BY <1>3 DEF AdoptContainer, Inv, Ownership, TerminationOwned, dockerVars
  <2>7. Ownership'
    BY <1>3, <2>4, <2>5, <2>6, InvTypes, RecordOwnership
       DEF AdoptContainer, Inv, Ownership, ContainersAreActive, IsActive, ActiveStatus, dockerVars
  <2> QED BY <2>1, <2>3, <2>7 DEF Preserved
<1>4. ASSUME NEW s \in Sandbox, RemoveStrayContainer(s) PROVE Preserved
  <2>1. UNCHANGED storeVars /\ \A r \in Sandbox : cont'[r] # "none" => cont[r] # "none"
    BY <1>4, InvTypes DEF RemoveStrayContainer, DataTypeOK
  <2>2. DataTypeOK'
    BY <1>4, InvTypes DEF RemoveStrayContainer, DataTypeOK, ghostVars
  <2>3. CASE cont' = [cont EXCEPT ![s] = "none"] /\ UNCHANGED <<boot, memVars>>
    <3>1. MemTypeOK'
      BY <1>4, <2>2, <2>3, Frames DEF RemoveStrayContainer, Inv, MemTypeOK, opVars, memVars
    <3>2. \A c \in Caller : TerminationOwned(c)'
      BY <2>1, <2>3, InvTypes DEF Inv, Ownership, TerminationOwned, RequestTypeOK, DataTypeOK, memVars
    <3>3. Ownership'
      BY <1>4, <2>1, <2>3, <3>2, InvTypes, RecordOwnership
         DEF RemoveStrayContainer, Inv, Ownership, ContainersAreActive, IsActive, storeVars, memVars
    <3> QED BY <2>1, <3>1, <3>3 DEF Preserved
  <2>4. CASE boot' = "down" /\ Forget
    BY <1>4, <2>1, <2>2, <2>4, ForgetOwnership
       DEF RemoveStrayContainer, Preserved, MemTypeOK, opVars, storeVars
  <2> QED BY <1>4, <2>3, <2>4 DEF RemoveStrayContainer
<1>5. ASSUME NEW s \in Sandbox, FinishReconciled(s) PROVE Preserved
  <2>1. sb[s].ws \in Workspace
    BY <1>5 DEF FinishReconciled, Inv, StoreInv, WriterBinding, SandboxBound
  <2>2. StoreNext
    BY <1>5, <2>1 DEF FinishReconciled, StoreNext
  <2>3. \A r \in Sandbox \ {s} : sb'[r] = sb[r]
    BY <1>5, InvTypes DEF FinishReconciled, FinishSandbox, StoreTypeOK
  <2>4. QueueTypeOK'
    BY <1>5, InvTypes DEF FinishReconciled, QueueTypeOK, opVars
  <2>5. MemTypeOK'
    BY <1>5, <2>4, Frames DEF FinishReconciled, Inv, MemTypeOK, dockerVars, ghostVars
  <2>6. /\ cont[s] = "none" /\ \A r \in Sandbox : cr[r].pc = "idle"
        /\ UNCHANGED <<boot, records, cr, term, lock, cont>>
    BY <1>5 DEF FinishReconciled, Inv, Ownership, dockerVars
  <2>7. \A c \in Caller : TerminationOwned(c)'
    BY <2>6 DEF Inv, Ownership, TerminationOwned
  <2>8. Ownership'
    BY <2>3, <2>6, <2>7, InvTypes, RecordOwnership DEF Inv, Ownership, ContainersAreActive, IsActive
  <2> QED BY <2>2, <2>5, <2>8 DEF Preserved
<1> QED BY <1>1, <1>2, <1>3, <1>4, <1>5 DEF StartupStep

-----------------------------------------------------------------------------
(* The empty system.                                                       *)
LEMMA InitInv == Init => Inv
<1> SUFFICES ASSUME Init PROVE Inv
  OBVIOUS
<1>1. StoreInv
  BY StoreInitInv DEF Init
<1>2. QueueTypeOK
  BY DEF Init, QueueTypeOK, OpsType, Asleep
<1>3. RequestTypeOK
  BY DEF Init, RequestTypeOK, NoCreate, NoTerm, CreatePc
<1>4. LockTypeOK
  BY FreeType DEF Init, LockTypeOK
<1>5. DataTypeOK
  <2>1. writes \in 0 .. MaxWrites /\ crashes \in 0 .. MaxCrashes
    <3>1. MaxWrites \in Nat /\ MaxCrashes \in Nat
      BY ManagerAssumption
    <3> QED BY <3>1 DEF Init
  <2> QED BY <2>1, EmptyVolume DEF Init, DataTypeOK, Content
<1>6. Ownership
  BY StoreAssumption DEF Init, Ownership, CreationOwned, TerminationOwned, LockOwned,
                         ContainersAreActive, NoCreate, NoTerm, Free
<1> QED BY <1>1, <1>2, <1>3, <1>4, <1>5, <1>6 DEF Inv, MemTypeOK

(* Every step of the manager is a transaction of the store or leaves the   *)
(* tables alone, and keeps the invariant.                                  *)
LEMMA NextInv == Inv /\ [Next]_vars => Inv' /\ [StoreNext]_storeVars
<1> SUFFICES ASSUME Inv, [Next]_vars PROVE Inv' /\ [StoreNext]_storeVars
  OBVIOUS
<1>1. Preserved
  <2>1. CASE UNCHANGED vars
    <3>1. UNCHANGED storeVars /\ MemTypeOK'
      BY <2>1, Frames DEF vars, storeVars, Inv, MemTypeOK
    <3>2. Ownership'
      BY <2>1, InvTypes, QuietOwnership DEF vars, Inv
    <3> QED BY <3>1, <3>2 DEF Preserved
  <2>2. ASSUME NEW w \in Workspace,
               \/ WorkspaceRequest(w) \/ TaskStart(w) \/ HolderStep(w)
               \/ EnsureRequested(w) \/ DropEphemeral(w)
               \/ PassGrace(w) \/ PassRetention(w)
        PROVE  Preserved
    BY <2>2, WorkspaceRequests, SandboxRequests, TerminationRequests, TaskStarts, PrepareSteps,
       CheckpointSteps, RetireSteps, CleanupSteps, DropSteps, WorldSteps
       DEF WorkspaceRequest, HolderStep
  <2>3. ASSUME NEW s \in Sandbox,
               \/ SandboxRequest(s) \/ CreateStep(s)
               \/ WorkerWrites(s) \/ WorkerDies(s) \/ PassLease(s)
        PROVE  Preserved
    BY <2>3, LeaseSteps, TerminationRequests, PreparationSteps, LaunchSteps, EndOfCreation,
       WorldSteps DEF SandboxRequest, CreateStep
  <2>4. ASSUME NEW c \in Caller, TerminateStep(c) PROVE Preserved
    BY <2>4, TerminateSteps
  <2> QED BY <2>1, <2>2, <2>3, <2>4, ReaperSteps, CrashSteps, StartupSteps DEF Next
<1>2. StoreInv'
  BY <1>1, StoreNextInv DEF Preserved, Inv
<1> QED BY <1>1, <1>2 DEF Preserved, Inv

(* The manager's state keeps its types: among others, a row of an          *)
(* operation, a lock or a request never holds a value of another kind.     *)
THEOREM ManagerTypeCorrect == Spec => []TypeOK
<1>1. Inv => TypeOK
  BY DEF Inv, MemTypeOK, StoreInv, TypeOK
<1> QED BY <1>1, InitInv, NextInv, PTL DEF Spec

(* For any workspaces, sandboxes, clients, crashes and faults: a container *)
(* exists only for a sandbox whose row is active.                          *)
THEOREM ManagerContainersAreActive == Spec => []ContainersAreActive
<1>1. Inv => ContainersAreActive
  BY DEF Inv, Ownership
<1> QED BY <1>1, InitInv, NextInv, PTL DEF Spec

(* For any workspaces, sandboxes, clients, crashes and faults: a workspace *)
(* volume is mounted by one worker container at most.  A container's row   *)
(* is active, and the tables name one active sandbox per workspace.        *)
THEOREM ManagerSingleWriter == Spec => []SingleWriter
<1>1. Inv => SingleWriter
  BY DEF Inv, StoreInv, WriterBinding, SandboxBound, Ownership, ContainersAreActive, SingleWriter
<1> QED BY <1>1, InitInv, NextInv, PTL DEF Spec

(* No handler, retry, late finish or restart revives a workspace that is   *)
(* being deleted: its volume may be gone already.                          *)
THEOREM ManagerDeletingIsFinal == Spec => DeletingIsFinal
<1>1. ASSUME Inv, [Next]_vars
      PROVE  [\A w \in Workspace :
                 ws[w].status = "deleting" => ws'[w].status \in {"deleting", "absent"}]_vars
  BY <1>1, NextInv, DeletingStays DEF Inv
<1> QED BY <1>1, InitInv, NextInv, PTL DEF Spec, DeletingIsFinal

(* The Sandbox Manager uses the tables only through the transactions of    *)
(* StateStore, so all that StateStore promises holds of the manager.       *)
THEOREM ManagerImplementsStore == Spec => ImplementsStore
<1>1. Init => StoreInit
  BY DEF Init
<1> QED BY <1>1, InitInv, NextInv, PTL DEF Spec, StoreSpec, ImplementsStore

(* For any workspaces, sandboxes, clients, crashes and faults: the types,  *)
(* the binding of every workspace to its writer, and one generation per    *)
(* claim.  The last two are what StateStore promises.                      *)
THEOREM ManagerConsistent == Spec => []Consistent
<1>1. ImplementsStore => [](StoreTypeOK /\ WriterBinding /\ GenerationCountsClaims)
  BY StoreTypeCorrect, StoreWriterBinding, StoreGenerationCounts, PTL DEF ImplementsStore
<1>2. TypeOK /\ StoreTypeOK /\ WriterBinding /\ GenerationCountsClaims => Consistent
  BY DEF Consistent
<1> QED BY <1>1, <1>2, ManagerTypeCorrect, ManagerImplementsStore, PTL

-----------------------------------------------------------------------------
(***************************************************************************)
(* Storage work runs on workspaces without a worker, never erases a        *)
(* snapshot a row still names, never takes a checkpoint of an earlier      *)
(* writer for one of the present content, and, when the reaper keeps out   *)
(* of creations, never loses what a worker wrote.                          *)
(*                                                                         *)
(* A claim does not take the workspace lock.  What keeps it out is that    *)
(* the coroutine which holds the lock for storage work has put the row     *)
(* into a status of its own, and no other coroutine takes the row out of   *)
(* that status before it gives the lock back (Guarded).  What the holder   *)
(* goes by is a copy of the row, read when it took the lock; as far as it  *)
(* matters, the copy is still true when it is used (Inspecting).           *)
(***************************************************************************)


\* While startup has not finished, no coroutine of a request or of the reaper exists.
BootQuiet ==
    boot # "up" => /\ sched = {} /\ reap = Asleep
                   /\ \A c \in Caller : term[c] = NoTerm
                   /\ \A w \in Workspace : lock[w] = Free

\* Where the holder of the lock stands, the row has the status it gave it,
\* or has been deleted.
Guarded(w) ==
    /\ IsFree(w) => lock[w].pc = "free"
    /\ lock[w].pc \in {"snapshot", "commit"} => ws[w].status \in {"checkpointing", "absent"}
    /\ lock[w].pc \in {"restore", "restored"} => ws[w].status \in {"restoring", "absent"}
    /\ lock[w].pc \in {"erase", "discard"} => ws[w].status \in {"deleting", "absent"}

\* The snapshot that is about to become the head is stored, and so is the head.
Given == {"absent", "deleting"}
Stored(w) ==
    /\ lock[w].pc = "commit" => lock[w].rev \in repo[w]
    /\ ws[w].status \notin Given /\ ws[w].head # None => ws[w].head \in repo[w]

StorageInv == Inv /\ BootQuiet /\ \A w \in Workspace : Guarded(w) /\ Stored(w)
Advanced == BootQuiet' /\ \A w \in Workspace : Guarded(w)' /\ Stored(w)'

-----------------------------------------------------------------------------
(* The steps that are no concern of the lock's holder: the row keeps       *)
(* status and head, is deleted, had no status of a holder, or has no       *)
(* holder.                                                                 *)
Loose == {"running", "detached_dirty", "detached_clean", "remote_only"}

RowQuiet(v) ==
    \/ ws'[v].status = ws[v].status /\ ws'[v].head = ws[v].head
    \/ ws'[v].status = "absent"
    \/ ws[v].status \in Loose /\ ws'[v].head = ws[v].head
    \/ lock[v].pc = "free" /\ ws'[v].head = None
    \/ lock[v].pc = "free" /\ ws'[v].head = ws[v].head /\ ws[v].status \notin Given

Quiet(v) == lock'[v] = lock[v] /\ repo[v] \subseteq repo'[v] /\ RowQuiet(v)

LEMMA QuietKeeps ==
  ASSUME StorageInv, NEW v \in Workspace, Quiet(v)
  PROVE  Guarded(v)' /\ Stored(v)'
<1>1. Guarded(v) /\ Stored(v)
  BY DEF StorageInv
<1>2. Guarded(v)'
  BY <1>1 DEF Quiet, RowQuiet, Guarded, IsFree, Loose
<1>3. Stored(v)'
  BY <1>1 DEF Quiet, RowQuiet, Stored, Loose, Given
<1> QED BY <1>2, <1>3

\* The row of a workspace whose lock moves on or is given back.
RowHeld(v) ==
    /\ ws'[v].head = ws[v].head
    /\ ws'[v].status \in Given \/ ws[v].status \notin Given

Storing == {"snapshot", "commit", "restore", "restored", "erase", "discard"}

LEMMA LeavingKeeps ==
  ASSUME StorageInv, NEW v \in Workspace, repo[v] \subseteq repo'[v],
         RowHeld(v) \/ ws'[v].status = "absent",
         lock'[v].pc \notin Storing, lock'[v].by = None => lock'[v].pc = "free"
  PROVE  Guarded(v)' /\ Stored(v)'
<1>1. Stored(v)
  BY DEF StorageInv
<1> QED BY <1>1 DEF Guarded, Stored, RowHeld, Storing, IsFree, Given

\* What a transaction on one row does to the others.
LEMMA OneRow ==
  ASSUME Inv, NEW w \in Workspace,
         \/ CreateWorkspace(w) \/ DeleteWorkspace(w) \/ ScheduleWorkspaceDelete(w)
         \/ \E e, st : TransitionWorkspace(w, e, st)
         \/ \E g, rev : CommitRevision(w, g, rev)
         \/ \E s \in Sandbox : ClaimWorkspace(w, s)
         \/ UNCHANGED storeVars
  PROVE  \A v \in Workspace \ {w} : ws'[v] = ws[v]
BY InvTypes DEF CreateWorkspace, DeleteWorkspace, ScheduleWorkspaceDelete, TransitionWorkspace,
     CommitRevision, ClaimWorkspace, storeVars

LEMMA TransitionRow ==
  ASSUME Inv, NEW w \in Workspace, NEW e, NEW st, TransitionWorkspace(w, e, st)
  PROVE  /\ ws[w].status \in e /\ ws'[w].status = st
         /\ ws'[w].head = ws[w].head
BY InvTypes DEF TransitionWorkspace, TransitionOK, WsRow

LEMMA FinishRows ==
  ASSUME Inv, NEW s \in Sandbox, NEW st, NEW wst, FinishSandbox(s, st, wst)
  PROVE  \A v \in Workspace : /\ ws'[v].head = ws[v].head
                              /\ ws'[v].status = ws[v].status \/ ws[v].status = "running"
<1>1. \A v \in Workspace : ws[v].active = s => ws[v].status = "running"
  BY StoreAssumption DEF Inv, StoreInv, WriterBinding, WorkspaceBound
<1> QED BY <1>1, InvTypes DEF FinishSandbox, WsRow

\* A step that leaves the memory of the locks and of the tasks alone is quiet
\* when it is quiet for the rows.
LEMMA QuietStep ==
  ASSUME StorageInv, UNCHANGED lock, \A v \in Workspace : repo[v] \subseteq repo'[v],
         \A v \in Workspace : RowQuiet(v),
         boot = "up" => boot' = boot,
         boot # "up" => UNCHANGED <<sched, reap, term>>
  PROVE  Advanced
<1>1. BootQuiet'
  BY DEF StorageInv, BootQuiet
<1>2. \A v \in Workspace : Quiet(v)
  BY DEF Quiet
<1> QED BY <1>1, <1>2, QuietKeeps DEF Advanced

-----------------------------------------------------------------------------
(* Requests, creations, terminations and the world: quiet steps. *)
LEMMA WorkspaceRequestSteps ==
  ASSUME StorageInv, NEW w \in Workspace,
         \/ RequestWorkspace(w) \/ EnsureRequested(w) \/ RequestCheckpoint(w) \/ RequestRestore(w)
         \/ \E s \in Sandbox : RequestSandbox(s, w)
         \/ \E c \in Client : RequestRelease(c, w)
  PROVE  Advanced
<1>1. UNCHANGED <<lock, repo, boot>>
  BY DEF RequestWorkspace, EnsureRequested, RequestCheckpoint, RequestRestore, RequestSandbox,
         RequestRelease
<1>2. boot = "up" \/ UNCHANGED <<sched, reap, term>>
  BY DEF RequestWorkspace, EnsureRequested, RequestCheckpoint, RequestRestore, RequestSandbox,
         RequestRelease, Up
<1>3. \A v \in Workspace : RowQuiet(v)
  <2>1. CASE UNCHANGED storeVars
    BY <2>1 DEF RowQuiet, storeVars
  <2>2. CASE CreateWorkspace(w) /\ FreshWorkspace(w)
    <3>1. lock[w].pc = "free"
      BY <2>2 DEF FreshWorkspace, StorageInv, Guarded
    <3>2. ws'[w].head = None
      BY <2>2, InvTypes DEF CreateWorkspace, FreshWorkspace, NoWorkspace, StorageInv
    <3> QED BY <2>2, <3>1, <3>2, OneRow DEF RowQuiet, StorageInv
  <2>3. CASE ScheduleWorkspaceDelete(w)
    <3>1. ws'[w].status = ws[w].status /\ ws'[w].head = ws[w].head
      BY <2>3, InvTypes DEF ScheduleWorkspaceDelete, WsRow, StorageInv
    <3> QED BY <2>3, <3>1, OneRow DEF RowQuiet, StorageInv
  <2> QED BY <2>1, <2>2, <2>3 DEF RequestWorkspace, EnsureRequested, RequestCheckpoint,
             RequestRestore, RequestSandbox, RequestRelease
<1> QED BY <1>1, <1>2, <1>3, QuietStep

LEMMA CreateSteps ==
  ASSUME StorageInv, NEW s \in Sandbox, CreateStep(s), ~LockForCreate(s)
  PROVE  Advanced
<1>1. UNCHANGED <<lock, repo, boot, sched, reap, term>>
  BY DEF CreateStep, StartPrepare, FinishPrepare, PrepareContainerFails, Claim, ClaimRefused,
         CreateContainer, StartContainer, WorkerReady, LaunchFails, RemoveFailedContainer,
         FinishFailedCreation
<1>2. \A v \in Workspace : RowQuiet(v)
  <2>1. CASE UNCHANGED storeVars
    BY <2>1 DEF RowQuiet, storeVars
  <2>2. CASE Claim(s)
    <3> DEFINE w == cr[s].ws
    <3>1. w \in Workspace /\ ClaimWorkspace(w, s)
      BY <2>2, InvTypes DEF Claim, StorageInv, RequestTypeOK
    <3>2. ws[w].status \in Loose /\ ws'[w].head = ws[w].head
      BY <3>1, InvTypes DEF ClaimWorkspace, ClaimOK, Exists, Loose, WsRow, WsStatus, StorageInv
    <3> QED BY <3>1, <3>2, OneRow DEF RowQuiet, StorageInv
  <2>3. CASE WorkerReady(s)
    BY <2>3, InvTypes DEF WorkerReady, MarkSandboxRunning, RowQuiet, StorageInv, WsRow
  <2>4. CASE FinishFailedCreation(s)
    BY <2>4, FinishRows DEF FinishFailedCreation, RowQuiet, StorageInv, Loose
  <2> QED BY <2>1, <2>2, <2>3, <2>4 DEF CreateStep, StartPrepare, FinishPrepare,
             PrepareContainerFails, ClaimRefused, CreateContainer, StartContainer, LaunchFails,
             RemoveFailedContainer
<1> QED BY <1>1, <1>2, QuietStep

LEMMA TerminatingSteps ==
  ASSUME StorageInv, NEW c \in Caller, TerminateStep(c)
  PROVE  Advanced
<1>1. UNCHANGED <<lock, repo, boot>> /\ boot = "up"
  <2>1. term[c] # NoTerm
    BY DEF TerminateStep, RemoveContainer, FinishTerminated, ScheduleDelete, NoTerm
  <2> QED BY <2>1 DEF TerminateStep, RemoveContainer, FinishTerminated, ScheduleDelete,
             StorageInv, BootQuiet
<1>2. \A v \in Workspace : RowQuiet(v)
  <2>1. CASE UNCHANGED storeVars
    BY <2>1 DEF RowQuiet, storeVars
  <2>2. CASE term[c].pc = "finish" /\ FinishSandbox(term[c].sb, "terminated", FinishedStatus(sb[term[c].sb].ws))
    <3>1. term[c].sb \in Sandbox
      BY <2>2, InvTypes DEF StorageInv, RequestTypeOK
    <3> QED BY <2>2, <3>1, FinishRows DEF RowQuiet, StorageInv, Loose
  <2>3. CASE term[c].pc = "schedule" /\ ScheduleWorkspaceDelete(term[c].ws)
    <3> DEFINE w == term[c].ws
    <3>1. w \in Workspace
      BY <2>3, InvTypes DEF StorageInv, RequestTypeOK
    <3>2. ws'[w].status = ws[w].status /\ ws'[w].head = ws[w].head
      BY <2>3, <3>1, InvTypes DEF ScheduleWorkspaceDelete, WsRow, StorageInv
    <3> QED BY <2>3, <3>1, <3>2, OneRow DEF RowQuiet, StorageInv
  <2> QED BY <2>1, <2>2, <2>3 DEF TerminateStep, RemoveContainer, FinishTerminated, ScheduleDelete
<1> QED BY <1>1, <1>2, QuietStep

LEMMA OutsideSteps ==
  ASSUME StorageInv,
         \/ \E w \in Workspace : DropEphemeral(w) \/ PassGrace(w) \/ PassRetention(w)
         \/ \E s \in Sandbox : WorkerWrites(s) \/ WorkerDies(s) \/ PassLease(s) \/ SandboxRequest(s)
  PROVE  Advanced
<1>1. UNCHANGED <<lock, repo, boot>> /\ (boot = "up" \/ UNCHANGED <<sched, reap, term>>)
  BY DEF DropEphemeral, PassGrace, PassRetention, WorkerWrites, WorkerDies, PassLease,
         SandboxRequest, Renew, RequestTerminate, memVars, Up
<1>2. \A v \in Workspace : RowQuiet(v)
  <2>1. CASE UNCHANGED ws
    BY <2>1 DEF RowQuiet
  <2>2. ASSUME NEW w \in Workspace, DropEphemeral(w) PROVE \A v \in Workspace : RowQuiet(v)
    <3>1. CASE DeleteWorkspace(w)
      <4>1. ws'[w].status = "absent"
        BY <3>1, InvTypes DEF DeleteWorkspace, NoWorkspace, StorageInv
      <4> QED BY <3>1, <4>1, OneRow DEF RowQuiet, StorageInv
    <3> QED BY <2>1, <2>2, <3>1 DEF DropEphemeral, DeleteRows, storeVars
  <2>3. ASSUME NEW w \in Workspace, GraceEnds(w) \/ RetentionEnds(w)
        PROVE  \A v \in Workspace : RowQuiet(v)
    BY <2>3, InvTypes DEF GraceEnds, RetentionEnds, RowQuiet, WsRow, StorageInv
  <2> QED BY <2>1, <2>2, <2>3 DEF PassGrace, PassRetention, WorkerWrites, WorkerDies, PassLease,
             SandboxRequest, Renew, RequestTerminate, RenewSandbox, LeaseExpires, storeVars
<1> QED BY <1>1, <1>2, QuietStep

-----------------------------------------------------------------------------
(* The holder of a lock: it takes it, moves on, and gives it back. *)
LEMMA NoneHolds == None \notin Task \cup {"cleanup"} \cup Sandbox
BY StoreAssumption, ManagerAssumption DEF Task

\* The locks of the other workspaces, and their rows, are as they were.
LEMMA HolderStepKeeps ==
  ASSUME StorageInv, NEW w \in Workspace, boot = "up", boot' = boot,
         \A v \in Workspace \ {w} : lock'[v] = lock[v] /\ ws'[v] = ws[v] /\ repo[v] \subseteq repo'[v],
         Guarded(w)' /\ Stored(w)'
  PROVE  Advanced
<1>1. BootQuiet'
  BY DEF BootQuiet
<1>2. \A v \in Workspace \ {w} : Guarded(v)' /\ Stored(v)'
  BY QuietKeeps DEF Quiet, RowQuiet
<1> QED BY <1>1, <1>2 DEF Advanced

\* A holder is past the free lock, and the manager is up.
LEMMA Holding ==
  ASSUME StorageInv, NEW w \in Workspace, lock[w].pc # "free"
  PROVE  boot = "up" /\ lock[w].by # None
BY DEF StorageInv, BootQuiet, Free, Guarded, IsFree

\* A holder takes a free lock, or goes on to where it does no storage work.
LEMMA OnwardKeeps ==
  ASSUME StorageInv, NEW w \in Workspace, boot = "up", boot' = boot, UNCHANGED repo,
         \A v \in Workspace \ {w} : ws'[v] = ws[v],
         RowHeld(w) \/ ws'[w].status = "absent",
         \/ Unlock(w)
         \/ lock[w].pc # "free" /\ \E pc : pc \notin Storing /\ Goto(w, pc)
         \/ \E by \in Task \cup {"cleanup"} \cup Sandbox : \E pc, rev :
               pc \notin Storing /\ LockTaken(w, by, pc, rev)
  PROVE  Advanced
<1>1. \A v \in Workspace \ {w} : lock'[v] = lock[v]
  BY InvTypes DEF Unlock, Goto, LockTaken, StorageInv, LockTypeOK
<1>2. lock'[w].pc \notin Storing /\ (lock'[w].by = None => lock'[w].pc = "free")
  <2>1. CASE Unlock(w)
    BY <2>1, InvTypes DEF Unlock, StorageInv, LockTypeOK, Free, Storing
  <2>2. CASE lock[w].pc # "free" /\ \E pc : pc \notin Storing /\ Goto(w, pc)
    BY <2>2, InvTypes, Holding DEF Goto, StorageInv, LockTypeOK, LockRow
  <2>3. ASSUME NEW by \in Task \cup {"cleanup"} \cup Sandbox, NEW pc, NEW rev,
               pc \notin Storing /\ LockTaken(w, by, pc, rev)
        PROVE  lock'[w].pc \notin Storing /\ (lock'[w].by = None => lock'[w].pc = "free")
    BY <2>3, InvTypes, NoneHolds DEF LockTaken, StorageInv, LockTypeOK
  <2> QED BY <2>1, <2>2, <2>3
<1>3. Guarded(w)' /\ Stored(w)'
  BY <1>2, LeavingKeeps
<1> QED BY <1>1, <1>3, HolderStepKeeps

LEMMA LockForCreateSteps ==
  ASSUME StorageInv, NEW s \in Sandbox, LockForCreate(s)
  PROVE  Advanced
<1> DEFINE w == cr[s].ws
<1>1. w \in Workspace /\ boot = "up" /\ boot' = boot /\ UNCHANGED <<ws, sb, repo>>
  BY InvTypes DEF LockForCreate, StorageInv, RequestTypeOK, Inv, Ownership, storeVars
<1>2. CASE UNCHANGED lock
  BY <1>1, <1>2, QuietStep DEF RowQuiet
<1>3. CASE LockTaken(w, s, "inspect", 0)
  BY <1>1, <1>3, OnwardKeeps DEF RowHeld, Storing
<1> QED BY <1>2, <1>3 DEF LockForCreate

LEMMA TaskStartSteps ==
  ASSUME StorageInv, NEW w \in Workspace, TaskStart(w)
  PROVE  Advanced
<1>1. boot = "up" /\ boot' = boot /\ UNCHANGED repo
  <2>1. sched # {}
    BY DEF TaskStart, StartCheckpoint, StartRetire, StartRestore, LockForRestore
  <2> QED BY <2>1 DEF TaskStart, StartCheckpoint, StartRetire, StartRestore, LockForRestore,
             StorageInv, BootQuiet
<1>2. CASE UNCHANGED <<ws, sb, lock>>
  BY <1>1, <1>2, QuietStep DEF RowQuiet
<1>3. ASSUME TransitionWorkspace(w, {"detached_dirty"}, "checkpointing"),
             LockTaken(w, "checkpoint", "snapshot", 0)
      PROVE  Advanced
  <2>1. Guarded(w)' /\ Stored(w)'
    <3>1. lock'[w].by # None /\ lock'[w].pc = "snapshot"
      BY <1>3, InvTypes, NoneHolds DEF LockTaken, StorageInv, LockTypeOK, Task
    <3>2. /\ ws'[w].status = "checkpointing" /\ ws[w].status = "detached_dirty"
          /\ ws'[w].head = ws[w].head
      BY <1>3, TransitionRow DEF StorageInv
    <3> QED BY <1>1, <3>1, <3>2 DEF Guarded, Stored, IsFree, StorageInv, Given
  <2>2. \A v \in Workspace \ {w} : lock'[v] = lock[v] /\ ws'[v] = ws[v]
    BY <1>3, InvTypes, OneRow DEF LockTaken, StorageInv, LockTypeOK
  <2> QED BY <1>1, <2>1, <2>2, HolderStepKeeps
<1>4. ASSUME NEW pc \in {"erase", "discard"}, LockTaken(w, "retire", pc, 0),
             \/ TransitionWorkspace(w, {"detached_clean", "remote_only"}, "deleting")
             \/ ws[w].status = "deleting" /\ UNCHANGED storeVars
      PROVE  Advanced
  <2>1. Guarded(w)' /\ Stored(w)'
    <3>1. lock'[w].by # None /\ lock'[w].pc = pc
      BY <1>4, InvTypes, NoneHolds DEF LockTaken, StorageInv, LockTypeOK, Task
    <3>2. ws'[w].status = "deleting"
      BY <1>4, TransitionRow DEF StorageInv, storeVars
    <3> QED BY <3>1, <3>2 DEF Guarded, Stored, IsFree, Given
  <2>2. \A v \in Workspace \ {w} : lock'[v] = lock[v] /\ ws'[v] = ws[v]
    BY <1>4, InvTypes, OneRow DEF LockTaken, StorageInv, LockTypeOK
  <2> QED BY <1>1, <2>1, <2>2, HolderStepKeeps
<1>5. ASSUME NEW rev \in Revision, UNCHANGED storeVars, LockTaken(w, "restore", "inspect", rev)
      PROVE  Advanced
  <2>1. UNCHANGED ws
    BY <1>5 DEF storeVars
  <2> QED BY <1>1, <1>5, <2>1, OnwardKeeps DEF RowHeld, Storing, Task
<1>6. CASE StartCheckpoint(w)
  BY <1>2, <1>3, <1>6 DEF StartCheckpoint, storeVars
<1>7. CASE StartRetire(w)
  BY <1>2, <1>4, <1>7 DEF StartRetire, storeVars
<1>8. ASSUME NEW rev \in Revision, StartRestore(w, rev) \/ LockForRestore(w, rev)
      PROVE  Advanced
  BY <1>2, <1>5, <1>8 DEF StartRestore, LockForRestore, storeVars
<1> QED BY <1>6, <1>7, <1>8 DEF TaskStart

\* _prepare_workspace: storage work is what lies between EnsureTarget and the end.
LEMMA PrepareStorage ==
  ASSUME StorageInv, NEW w \in Workspace, PrepareStep(w)
  PROVE  Advanced
<1>1. lock[w].pc # "free" /\ boot' = boot /\ UNCHANGED repo
  BY DEF PrepareStep, PrepareFails, InspectFound, InspectRemote, InspectLost, InspectMissing,
         Materialize, ClearTarget, EnsureTarget, RunRestore, FinishRestore, RollBack
<1>2. boot = "up" /\ lock[w].by # None
  BY <1>1, Holding
<1>3. CASE PrepareFails(w) \/ InspectFound(w) \/ InspectRemote(w) \/ InspectMissing(w)
           \/ Materialize(w) \/ ClearTarget(w)
  <2>1. UNCHANGED ws
    BY <1>3 DEF PrepareFails, InspectFound, InspectRemote, InspectMissing, Materialize,
                ClearTarget, storeVars
  <2>2. \/ Unlock(w)
        \/ \E pc : pc \notin Storing /\ Goto(w, pc)
    BY <1>3 DEF PrepareFails, InspectFound, InspectRemote, InspectMissing, Materialize,
                ClearTarget, PrepareReturns, PrepareRaises, Storing
  <2> QED BY <1>1, <1>2, <2>1, <2>2, OnwardKeeps DEF RowHeld
<1>4. CASE InspectLost(w) \/ FinishRestore(w) \/ RollBack(w)
  <2>1. /\ \A v \in Workspace \ {w} : ws'[v] = ws[v]
        /\ RowHeld(w)
    <3>1. CASE UNCHANGED storeVars
      BY <3>1 DEF storeVars, RowHeld
    <3>2. ASSUME NEW e, NEW st, TransitionWorkspace(w, e, st), e \cap Given = {}
          PROVE  (\A v \in Workspace \ {w} : ws'[v] = ws[v]) /\ RowHeld(w)
      BY <3>2, OneRow, TransitionRow DEF RowHeld, StorageInv
    <3> QED BY <1>4, <3>1, <3>2 DEF InspectLost, FinishRestore, RollBack, Given
  <2>2. Unlock(w) \/ Goto(w, "clear")
    BY <1>4 DEF InspectLost, FinishRestore, RollBack, PrepareReturns, PrepareRaises
  <2> QED BY <1>1, <1>2, <2>1, <2>2, OnwardKeeps DEF Storing
<1>5. CASE EnsureTarget(w)
  <2>1. CASE TransitionWorkspace(w, {"remote_only"}, "restoring") /\ Goto(w, "restore")
    <3>1. /\ ws'[w].status = "restoring" /\ ws[w].status = "remote_only"
          /\ ws'[w].head = ws[w].head
      BY <2>1, TransitionRow DEF StorageInv
    <3>2. lock'[w].pc = "restore" /\ lock'[w].by = lock[w].by
      BY <2>1, InvTypes DEF Goto, StorageInv, LockTypeOK, LockRow
    <3>3. Guarded(w)' /\ Stored(w)'
      BY <1>1, <1>2, <3>1, <3>2 DEF Guarded, Stored, IsFree, StorageInv, Given
    <3>4. \A v \in Workspace \ {w} : lock'[v] = lock[v] /\ ws'[v] = ws[v]
      BY <2>1, InvTypes, OneRow DEF Goto, StorageInv, LockTypeOK
    <3> QED BY <1>1, <1>2, <3>3, <3>4, HolderStepKeeps
  <2>2. CASE UNCHANGED storeVars /\ Goto(w, "rollback")
    <3>1. UNCHANGED ws
      BY <2>2 DEF storeVars
    <3> QED BY <1>1, <1>2, <2>2, <3>1, OnwardKeeps DEF RowHeld, Storing
  <2> QED BY <1>5, <2>1, <2>2 DEF EnsureTarget
<1>6. CASE RunRestore(w)
  <2>1. UNCHANGED ws
    BY <1>6 DEF RunRestore, storeVars
  <2>2. CASE Goto(w, "restored")
    <3>1. lock'[w].pc = "restored" /\ lock'[w].by = lock[w].by
      BY <2>2, InvTypes DEF Goto, StorageInv, LockTypeOK, LockRow
    <3>2. Guarded(w)' /\ Stored(w)'
      BY <1>1, <1>2, <1>6, <2>1, <3>1 DEF RunRestore, Guarded, Stored, IsFree, StorageInv
    <3>3. \A v \in Workspace \ {w} : lock'[v] = lock[v]
      BY <2>2, InvTypes DEF Goto, StorageInv, LockTypeOK
    <3> QED BY <1>1, <1>2, <2>1, <3>2, <3>3, HolderStepKeeps
  <2>3. CASE Goto(w, "rollback")
    BY <1>1, <1>2, <2>1, <2>3, OnwardKeeps DEF RowHeld, Storing
  <2> QED BY <1>6, <2>2, <2>3 DEF RunRestore
<1> QED BY <1>3, <1>4, <1>5, <1>6 DEF PrepareStep

\* _checkpoint_workspace stores before it commits, and nothing is erased meanwhile.
LEMMA CheckpointStorage ==
  ASSUME StorageInv, NEW w \in Workspace, CheckpointStep(w)
  PROVE  Advanced
<1>1. lock[w].pc \in {"snapshot", "commit"} /\ boot' = boot
  BY DEF CheckpointStep, RunCheckpoint, CommitCheckpoint
<1>2. boot = "up" /\ lock[w].by # None
  BY <1>1, Holding
<1>3. CASE RunCheckpoint(w)
  <2>1. \A v \in Workspace : repo[v] \subseteq repo'[v]
    BY <1>3, InvTypes DEF RunCheckpoint, StorageInv, DataTypeOK
  <2>2. ASSUME repo' = [repo EXCEPT ![w] = @ \cup {vol'[w]}],
               lock' = [lock EXCEPT ![w].pc = "commit", ![w].rev = vol'[w]],
               UNCHANGED ws
        PROVE  Advanced
    <3>1. /\ lock'[w].pc = "commit" /\ lock'[w].by = lock[w].by /\ lock'[w].rev = vol'[w]
          /\ \A v \in Workspace \ {w} : lock'[v] = lock[v]
      BY <2>2, InvTypes DEF StorageInv, LockTypeOK, LockRow
    <3>2. vol'[w] \in repo'[w]
      BY <2>2, InvTypes DEF StorageInv, DataTypeOK
    <3>3. Guarded(w)'
      BY <1>2, <1>3, <2>2, <3>1 DEF Guarded, IsFree, StorageInv, RunCheckpoint
    <3>4. Stored(w)'
      BY <2>1, <2>2, <3>1, <3>2 DEF Stored, StorageInv
    <3> QED BY <1>1, <1>2, <2>1, <2>2, <3>1, <3>3, <3>4, HolderStepKeeps
  <2>3. CASE CheckpointFails(w)
    <3>1. Unlock(w) /\ TransitionWorkspace(w, {"checkpointing"}, "detached_dirty")
      BY <2>3 DEF CheckpointFails
    <3>2. RowHeld(w) /\ \A v \in Workspace \ {w} : ws'[v] = ws[v]
      BY <3>1, TransitionRow, OneRow DEF StorageInv, RowHeld, Given
    <3>3. lock'[w] = Free /\ \A v \in Workspace \ {w} : lock'[v] = lock[v]
      BY <3>1, InvTypes DEF Unlock, StorageInv, LockTypeOK
    <3>4. Guarded(w)' /\ Stored(w)'
      BY <2>1, <3>2, <3>3, LeavingKeeps DEF Free, Storing
    <3> QED BY <1>1, <1>2, <2>1, <3>2, <3>3, <3>4, HolderStepKeeps
  <2> QED BY <1>3, <2>2, <2>3 DEF RunCheckpoint, storeVars
<1>4. CASE CommitCheckpoint(w)
  <2>1. CommitRevision(w, lock[w].cur.gen, lock[w].rev) /\ Unlock(w) /\ UNCHANGED repo
    BY <1>4 DEF CommitCheckpoint
  <2>2. ws'[w].head = lock[w].rev /\ \A v \in Workspace \ {w} : ws'[v] = ws[v]
    BY <2>1, OneRow, InvTypes DEF CommitRevision, StorageInv, WsRow
  <2>3. lock'[w] = Free /\ \A v \in Workspace \ {w} : lock'[v] = lock[v]
    BY <2>1, InvTypes DEF Unlock, StorageInv, LockTypeOK
  <2>4. lock[w].rev \in repo[w]
    BY <1>4 DEF CommitCheckpoint, StorageInv, Stored
  <2>5. Guarded(w)' /\ Stored(w)'
    BY <2>1, <2>2, <2>3, <2>4 DEF Guarded, Stored, Free
  <2> QED BY <1>1, <1>2, <2>1, <2>2, <2>3, <2>5, HolderStepKeeps
<1> QED BY <1>3, <1>4 DEF CheckpointStep

\* _retire_workspace erases when the row is deleting, or gone.
LEMMA RetireStorage ==
  ASSUME StorageInv, NEW w \in Workspace, RetireStep(w)
  PROVE  Advanced
<1>1. lock[w].pc \in {"erase", "discard"} /\ boot' = boot
  BY DEF RetireStep, EraseRepository, DiscardRetired
<1>2. boot = "up" /\ lock[w].by # None /\ ws[w].status \in Given
  BY <1>1, Holding DEF StorageInv, Guarded, Given
<1>3. /\ \A v \in Workspace \ {w} : lock'[v] = lock[v] /\ repo'[v] = repo[v]
      /\ lock'[w] # Free => lock'[w].pc = "discard" /\ lock'[w].by = lock[w].by
  <2>1. Unlock(w) \/ Goto(w, "discard")
    BY DEF RetireStep, EraseRepository, DiscardRetired
  <2>2. \A v \in Workspace \ {w} : repo'[v] = repo[v]
    BY InvTypes DEF RetireStep, EraseRepository, DiscardRetired, StorageInv, DataTypeOK
  <2>3. CASE Unlock(w)
    BY <2>2, <2>3, InvTypes DEF Unlock, StorageInv, LockTypeOK
  <2>4. CASE Goto(w, "discard")
    BY <2>2, <2>4, InvTypes DEF Goto, StorageInv, LockTypeOK, LockRow
  <2> QED BY <2>1, <2>3, <2>4
<1>4. ws'[w].status \in Given /\ \A v \in Workspace \ {w} : ws'[v] = ws[v]
  <2>1. CASE UNCHANGED storeVars
    BY <1>2, <2>1 DEF storeVars
  <2>2. CASE DeleteWorkspace(w)
    BY <2>2, OneRow, InvTypes DEF DeleteWorkspace, NoWorkspace, StorageInv, Given
  <2> QED BY <2>1, <2>2 DEF RetireStep, EraseRepository, DiscardRetired, DeleteRows
<1>5. Guarded(w)' /\ Stored(w)'
  BY <1>2, <1>3, <1>4 DEF Guarded, Stored, Free, IsFree, Given
<1> QED BY <1>1, <1>2, <1>3, <1>4, <1>5, HolderStepKeeps

LEMMA CleanupStorage ==
  ASSUME StorageInv, NEW w \in Workspace, CleanupStep(w)
  PROVE  Advanced
<1>1. lock[w].pc # "free" /\ boot' = boot /\ UNCHANGED repo
  BY DEF CleanupStep, EvictVolume, FinishCleanup
<1>2. boot = "up"
  BY <1>1, Holding
<1>3. (\A v \in Workspace \ {w} : ws'[v] = ws[v]) /\ RowHeld(w)
  <2>1. CASE UNCHANGED storeVars
    BY <2>1 DEF storeVars, RowHeld
  <2>2. CASE TransitionWorkspace(w, {"detached_clean"}, "remote_only")
    BY <2>2, OneRow, TransitionRow DEF RowHeld, StorageInv, Given
  <2> QED BY <2>1, <2>2 DEF CleanupStep, EvictVolume, FinishCleanup
<1>4. Unlock(w) \/ Goto(w, "evicted")
  BY DEF CleanupStep, EvictVolume, FinishCleanup
<1> QED BY <1>1, <1>2, <1>3, <1>4, OnwardKeeps DEF Storing

LEMMA ReaperStorage ==
  ASSUME StorageInv, ReaperStep
  PROVE  Advanced
<1>1. boot = "up" /\ boot' = boot /\ UNCHANGED <<ws, sb, repo>>
  <2>1. boot = "up" \/ reap.pc # "sleep"
    BY DEF ReaperStep, ReaperWakes, ReaperSchedules, ReaperSleeps, ReaperTerminates,
           StartCleanup, Up
  <2>2. boot = "up"
    BY <2>1 DEF StorageInv, BootQuiet, Asleep
  <2> QED BY <2>2 DEF ReaperStep, ReaperWakes, ReaperSchedules, ReaperSleeps, ReaperTerminates,
             StartCleanup, storeVars
<1>2. CASE UNCHANGED lock
  BY <1>1, <1>2, QuietStep DEF RowQuiet
<1>3. ASSUME NEW w \in Workspace, LockTaken(w, "cleanup", "evict", 0) PROVE Advanced
  BY <1>1, <1>3, OnwardKeeps DEF RowHeld, Storing
<1> QED BY <1>2, <1>3 DEF ReaperStep, ReaperWakes, ReaperSchedules, ReaperSleeps,
           ReaperTerminates, StartCleanup

-----------------------------------------------------------------------------
(* Crash and startup: the locks are forgotten, the rows are put back. *)
LEMMA Forgotten ==
  ASSUME Forget, UNCHANGED ws, boot' # "up",
         \A v \in Workspace : /\ ws[v].status \notin Given /\ ws[v].head # None
                                    => ws[v].head \in repo'[v]
  PROVE  Advanced
<1>1. BootQuiet'
  BY DEF Forget, BootQuiet
<1>2. \A v \in Workspace : Guarded(v)' /\ Stored(v)'
  BY DEF Forget, Guarded, Stored, Free
<1> QED BY <1>1, <1>2 DEF Advanced

\* The storage container that outlives the manager may go on erasing only what
\* is being retired.
LEMMA CrashStorage ==
  ASSUME StorageInv, Crash
  PROVE  Advanced
<1>1. ASSUME NEW v \in Workspace, ws[v].status \notin Given
      PROVE  repo[v] \subseteq repo'[v]
  <2>1. lock[v].pc # "erase"
    BY <1>1 DEF StorageInv, Guarded, Given
  <2>2. repo'[v] \in OrphanRepositories(v)
    BY DEF Crash
  <2> QED BY <2>1, <2>2 DEF OrphanRepositories
<1>2. \A v \in Workspace :
         ws[v].status \notin Given /\ ws[v].head # None => ws[v].head \in repo'[v]
  BY <1>1 DEF StorageInv, Stored
<1>3. Forget /\ UNCHANGED ws /\ boot' # "up"
  BY DEF Crash, storeVars
<1> QED BY <1>2, <1>3, Forgotten

LEMMA StartupStorage ==
  ASSUME StorageInv, StartupStep
  PROVE  Advanced
<1>1. boot # "up" /\ UNCHANGED repo
  BY DEF StartupStep, Boot, PurgeOrphans, RecoverOperations, Booted, AdoptContainer,
         RemoveStrayContainer, FinishReconciled, RecoverWorkspace
<1>2. CASE Forget /\ UNCHANGED ws /\ boot' = "down"
  BY <1>1, <1>2, Forgotten DEF StorageInv, Stored
<1>3. ASSUME UNCHANGED <<lock, sched, reap, term>>, \A v \in Workspace : RowQuiet(v)
      PROVE  Advanced
  BY <1>1, <1>3, QuietStep
<1>4. CASE UNCHANGED ws /\ UNCHANGED <<lock, sched, reap, term>>
  BY <1>3, <1>4 DEF RowQuiet
<1>5. ASSUME NEW s \in Sandbox, MarkSandboxRunning(s) PROVE \A v \in Workspace : RowQuiet(v)
  BY <1>5, InvTypes DEF MarkSandboxRunning, RowQuiet, StorageInv, WsRow
<1>6. ASSUME NEW s \in Sandbox, FinishReconciled(s) PROVE Advanced
  <2>1. \A v \in Workspace : RowQuiet(v)
    BY <1>6, FinishRows DEF FinishReconciled, RowQuiet, StorageInv, Loose
  <2> QED BY <1>3, <1>6, <2>1 DEF FinishReconciled
<1>7. ASSUME NEW w \in Workspace, RecoverWorkspace(w) PROVE Advanced
  <2>1. ASSUME NEW e, NEW st, TransitionWorkspace(w, e, st), e \cap Given = {}
        PROVE  \A v \in Workspace : RowQuiet(v)
    <3>1. \A v \in Workspace : lock[v].pc = "free"
      BY <1>1 DEF StorageInv, BootQuiet, Free
    <3> QED BY <2>1, <3>1, OneRow, TransitionRow DEF RowQuiet, StorageInv
  <2>2. \A v \in Workspace : RowQuiet(v)
    BY <1>7, <2>1 DEF RecoverWorkspace, Given
  <2> QED BY <1>3, <1>7, <2>2 DEF RecoverWorkspace, memVars
<1>8. ASSUME NEW s \in Sandbox, AdoptContainer(s) PROVE Advanced
  BY <1>3, <1>4, <1>5, <1>8 DEF AdoptContainer, storeVars
<1> QED BY <1>2, <1>4, <1>6, <1>7, <1>8
       DEF StartupStep, Boot, PurgeOrphans, RecoverOperations, Booted, RemoveStrayContainer,
           storeVars, memVars

-----------------------------------------------------------------------------
LEMMA StorageInit == Init => StorageInv
<1> SUFFICES ASSUME Init PROVE StorageInv
  OBVIOUS
<1>1. BootQuiet
  BY DEF Init, BootQuiet
<1>2. \A w \in Workspace : Guarded(w) /\ Stored(w)
  BY DEF Init, StoreInit, NoWorkspace, Guarded, Stored, Free, Given
<1> QED BY <1>1, <1>2, InitInv DEF StorageInv

LEMMA StorageNext == StorageInv /\ [Next]_vars => StorageInv'
<1> SUFFICES ASSUME StorageInv, [Next]_vars PROVE StorageInv'
  OBVIOUS
<1>1. Advanced
  <2>1. CASE UNCHANGED vars
    <3>1. UNCHANGED <<lock, repo, boot, sched, reap, term, ws>>
      BY <2>1 DEF vars
    <3> QED BY <3>1, QuietStep DEF RowQuiet
  <2>2. ASSUME NEW w \in Workspace,
               \/ WorkspaceRequest(w) \/ TaskStart(w) \/ HolderStep(w)
               \/ EnsureRequested(w) \/ DropEphemeral(w)
               \/ PassGrace(w) \/ PassRetention(w)
        PROVE  Advanced
    BY <2>2, WorkspaceRequestSteps, TaskStartSteps, PrepareStorage, CheckpointStorage,
       RetireStorage, CleanupStorage, OutsideSteps DEF WorkspaceRequest, HolderStep
  <2>3. ASSUME NEW s \in Sandbox,
               \/ SandboxRequest(s) \/ CreateStep(s)
               \/ WorkerWrites(s) \/ WorkerDies(s) \/ PassLease(s)
        PROVE  Advanced
    BY <2>3, LockForCreateSteps, CreateSteps, OutsideSteps
  <2>4. ASSUME NEW c \in Caller, TerminateStep(c) PROVE Advanced
    BY <2>4, TerminatingSteps
  <2> QED BY <2>1, <2>2, <2>3, <2>4, ReaperStorage, CrashStorage, StartupStorage DEF Next
<1>2. Inv'
  BY NextInv DEF StorageInv
<1> QED BY <1>1, <1>2 DEF Advanced, StorageInv

LEMMA StorageInvariance == Spec => []StorageInv
BY StorageInit, StorageNext, PTL DEF Spec

(* A snapshot, a restore or a retirement works on a workspace without a    *)
(* worker container, although claims do not take the lock: the row has the *)
(* status the storage step gave it, and a row with a writer is 'running'.  *)
THEOREM ManagerStorageIsQuiescent == Spec => []StorageStepsAreQuiescent
<1>1. StorageInv => StorageStepsAreQuiescent
  <2>1. SUFFICES ASSUME StorageInv, NEW w \in Workspace, lock[w].pc \in Storing,
                        NEW s \in Sandbox, cont[s] # "none", sb[s].ws = w
                 PROVE  FALSE
    BY DEF StorageStepsAreQuiescent, Storing, WorkersOf
  <2>2. ws[w].active = s
    BY <2>1 DEF StorageInv, Inv, Ownership, ContainersAreActive, StoreInv, WriterBinding,
                SandboxBound
  <2>3. ws[w].status = "running"
    BY <2>1, <2>2, StoreAssumption DEF StorageInv, Inv, StoreInv, WriterBinding, WorkspaceBound
  <2>4. Guarded(w)
    BY <2>1 DEF StorageInv
  <2> QED BY <2>1, <2>3, <2>4 DEF Guarded, Storing
<1> QED BY <1>1, StorageInvariance, PTL

(* The head of a workspace that is not being retired is in its repository, *)
(* through failed checkpoints, crashes during one, and retirements that    *)
(* were cut off.                                                           *)
THEOREM ManagerHeadIsStored == Spec => []HeadIsStored
<1>1. StorageInv => HeadIsStored
  BY DEF StorageInv, Stored, HeadIsStored, Given
<1> QED BY <1>1, StorageInvariance, PTL

-----------------------------------------------------------------------------
(* Idempotency keys of checkpoints.  One that succeeded belongs to an      *)
(* earlier generation, or to this one after the workspace was saved.       *)
Dirty == {"running", "detached_dirty", "checkpointing"}
Generation == 0 .. Cardinality(Sandbox)
Reported(o, w, g) == o[<<"checkpoint", w, g>>] = "succeeded"

Saved(w) ==
    /\ ws[w].status = "absent" => ws[w].gen = 0
    /\ \A g \in Generation : Reported(ops, w, g) =>
          g < ws[w].gen \/ (g = ws[w].gen /\ ws[w].status \notin Dirty)

SavedInv == Inv /\ \A w \in Workspace : Saved(w)

\* A row whose generation grows, or that does not become dirty.
RowGrows(v) ==
    \/ /\ ws'[v].gen = ws[v].gen
       /\ ws'[v].status \in Dirty => ws[v].status \in Dirty
       /\ ws'[v].status = "absent" => ws[v].status = "absent"
    \/ ws'[v].gen = ws[v].gen + 1 /\ ws'[v].status # "absent"
    \/ ws[v].status = "absent" /\ ws'[v].gen = 0 /\ ws'[v].status = "detached_clean"

\* No checkpoint succeeds between o and p.
Quieter(p, o) == \A w \in Workspace, g \in Generation : Reported(p, w, g) => Reported(o, w, g)

LEMMA GenerationsAreNumbers == \A g \in Generation : g \in Int
<1>1. IsFiniteSet(Sandbox)
  BY ManagerAssumption, Zenon
<1> QED BY <1>1, FS_CardinalityType DEF Generation

LEMMA GrowingKeeps ==
  ASSUME SavedInv, NEW v \in Workspace, RowGrows(v),
         \A g \in Generation : Reported(ops', v, g) => Reported(ops, v, g)
  PROVE  Saved(v)'
<1>1. ws[v].gen \in Nat /\ Saved(v)
  BY InvTypes DEF SavedInv, WsRow
<1>2. \A g \in Generation : g \in Int
  BY GenerationsAreNumbers
<1>3. ws'[v].status = "absent" => ws'[v].gen = 0
  BY <1>1 DEF RowGrows, Saved
<1>4. ASSUME NEW g \in Generation, Reported(ops', v, g)
      PROVE  g < ws'[v].gen \/ (g = ws'[v].gen /\ ws'[v].status \notin Dirty)
  BY <1>1, <1>2, <1>4 DEF RowGrows, Saved, Dirty
<1> QED BY <1>3, <1>4 DEF Saved, Reported

LEMMA GrowingStep ==
  ASSUME SavedInv, \A v \in Workspace : RowGrows(v), Quieter(ops', ops)
  PROVE  \A v \in Workspace : Saved(v)'
BY GrowingKeeps DEF Quieter

LEMMA OpsQuieter ==
  ASSUME NEW o \in OpsType, NEW key, NEW status \in {"pending", "running", "succeeded", "failed"}
  PROVE  /\ Quieter(CreateOperation(o, key), o)
         /\ status # "succeeded" => Quieter(UpdateOperation(o, key, status), o)
         /\ (\A w \in Workspace, g \in Generation : key # <<"checkpoint", w, g>>)
               => Quieter(UpdateOperation(o, key, status), o)
<1> SUFFICES ASSUME NEW w \in Workspace, NEW g \in Generation
             PROVE  LET k == <<"checkpoint", w, g>> IN
                    /\ CreateOperation(o, key)[k] = "succeeded" => o[k] = "succeeded"
                    /\ status # "succeeded" \/ key # k =>
                         (UpdateOperation(o, key, status)[k] = "succeeded" => o[k] = "succeeded")
  BY DEF Quieter, Reported
<1> DEFINE k == <<"checkpoint", w, g>>
<1>1. k \in OpKey
  BY DEF OpKey, Generation
<1> HIDE DEF k
<1>2. CreateOperation(o, key)[k] = "succeeded" => o[k] = "succeeded"
  BY <1>1 DEF CreateOperation, OpsType
<1>3. status # "succeeded" \/ key # k =>
         (UpdateOperation(o, key, status)[k] = "succeeded" => o[k] = "succeeded")
  BY <1>1 DEF UpdateOperation, OpsType
<1> QED BY <1>2, <1>3 DEF k

LEMMA OtherKeys ==
  ASSUME NEW v, NEW rev
  PROVE  \A w \in Workspace, g \in Generation :
            RestoreKey(v, rev) # <<"checkpoint", w, g>> /\ RetireKey(v) # <<"checkpoint", w, g>>
BY DEF RestoreKey, RetireKey

\* The rows, without the rest of the types.
LEMMA Rows ==
  ASSUME Inv
  PROVE  ws \in [Workspace -> WsRow] /\ \A v \in Workspace : ws[v] \in WsRow
BY InvTypes

\* One row is rewritten, and keeps its generation and its status.
LEMMA RewrittenGrows ==
  ASSUME Inv, NEW w \in Workspace, NEW row, row.gen = ws[w].gen, row.status = ws[w].status,
         ws' = [ws EXCEPT ![w] = row]
  PROVE  \A v \in Workspace : RowGrows(v)
<1>1. \A v \in Workspace : ws'[v].gen = ws[v].gen /\ ws'[v].status = ws[v].status
  BY Rows
<1> QED BY <1>1 DEF RowGrows

\* The transactions that neither commit a revision nor delete a row.
LEMMA FinishGrows ==
  ASSUME Inv, NEW s \in Sandbox, NEW st, NEW wst \in {"deleting", "detached_dirty"},
         FinishSandbox(s, st, wst)
  PROVE  \A v \in Workspace : RowGrows(v)
<1> DEFINE row(v) == [ws[v] EXCEPT !.status = wst, !.active = None, !.aged = FALSE]
<1>1. \A v \in Workspace : row(v).gen = ws[v].gen /\ row(v).status = wst
  BY Rows DEF WsRow
<1>2. ws' = [v \in Workspace |-> IF v = sb[s].ws /\ ws[v].active = s THEN row(v) ELSE ws[v]]
  BY Zenon DEF FinishSandbox
<1> HIDE DEF row
<1>3. \A v \in Workspace : ws[v].active = s => ws[v].status = "running"
  BY StoreAssumption DEF Inv, StoreInv, WriterBinding, WorkspaceBound
<1>4. ASSUME NEW v \in Workspace
      PROVE  \/ ws'[v] = ws[v]
             \/ ws'[v].gen = ws[v].gen /\ ws'[v].status = wst /\ ws[v].status = "running"
  BY <1>1, <1>2, <1>3
<1> QED BY <1>4 DEF RowGrows, Dirty

LEMMA FinishedStatuses == \A w : FinishedStatus(w) \in {"deleting", "detached_dirty"}
BY DEF FinishedStatus

LEMMA TransitionGrows ==
  ASSUME Inv, NEW w \in Workspace, NEW e, NEW st, TransitionWorkspace(w, e, st),
         st # "absent", st \in Dirty => e \subseteq Dirty
  PROVE  \A v \in Workspace : RowGrows(v)
BY InvTypes DEF TransitionWorkspace, TransitionOK, WsRow, RowGrows

LEMMA ClaimGrows ==
  ASSUME Inv, NEW w \in Workspace, NEW s \in Sandbox, ClaimWorkspace(w, s)
  PROVE  \A v \in Workspace : RowGrows(v)
<1> DEFINE row == [ws[w] EXCEPT !.status = "running", !.active = s,
                                !.gen = ws[w].gen + 1, !.del = "none", !.aged = FALSE]
<1>1. row.gen = ws[w].gen + 1 /\ row.status = "running"
  BY Rows DEF WsRow
<1>2. ws' = [ws EXCEPT ![w] = row]
  BY DEF ClaimWorkspace
<1> HIDE DEF row
<1>3. ws'[w] = row /\ \A v \in Workspace \ {w} : ws'[v] = ws[v]
  BY <1>2, Rows
<1> QED BY <1>1, <1>3 DEF RowGrows

LEMMA DeadlineGrows ==
  ASSUME Inv, NEW w \in Workspace, GraceEnds(w) \/ RetentionEnds(w)
  PROVE  \A v \in Workspace : RowGrows(v)
<1>1. \A v \in Workspace : ws'[v].gen = ws[v].gen /\ ws'[v].status = ws[v].status
  BY Rows DEF GraceEnds, RetentionEnds, WsRow
<1> QED BY <1>1 DEF RowGrows

LEMMA ScheduleGrows ==
  ASSUME Inv, NEW w \in Workspace, ScheduleWorkspaceDelete(w)
  PROVE  \A v \in Workspace : RowGrows(v)
<1> DEFINE row == [ws[w] EXCEPT !.del = "grace", !.aged = FALSE]
<1>1. row.gen = ws[w].gen /\ row.status = ws[w].status
  BY Rows DEF WsRow
<1>2. ws' = [ws EXCEPT ![w] = row]
  BY DEF ScheduleWorkspaceDelete
<1> HIDE DEF row
<1> QED BY <1>1, <1>2, RewrittenGrows

LEMMA MarkGrows ==
  ASSUME Inv, NEW s \in Sandbox, MarkSandboxRunning(s)
  PROVE  \A v \in Workspace : RowGrows(v)
BY Rows DEF MarkSandboxRunning, WsRow, RowGrows

LEMMA RowsGrow ==
  ASSUME Inv, UNCHANGED ws \/ \E w \in Workspace : CreateWorkspace(w)
  PROVE  \A v \in Workspace : RowGrows(v)
BY Rows DEF CreateWorkspace, Exists, NoWorkspace, RowGrows

-----------------------------------------------------------------------------
AllSaved == \A v \in Workspace : Saved(v)'

\* Steps that leave the operations alone.
LEMMA QuietOpsSteps ==
  ASSUME SavedInv, UNCHANGED ops, \A v \in Workspace : RowGrows(v)
  PROVE  AllSaved
BY GrowingStep DEF Quieter, AllSaved

LEMMA SavedRequests ==
  ASSUME SavedInv, NEW w \in Workspace, WorkspaceRequest(w) \/ EnsureRequested(w)
  PROVE  AllSaved
<1>1. CASE RequestCheckpoint(w)
  <2>1. UNCHANGED ws /\ ops \in OpsType /\ ws[w].gen \in Nat
    BY <1>1, InvTypes DEF RequestCheckpoint, storeVars, SavedInv, WsRow
  <2>2. CASE ws[w].status = "detached_clean" /\ ops' = [ops EXCEPT ![CheckpointKey(w)] = "succeeded"]
    <3>1. ASSUME NEW v \in Workspace, NEW g \in Generation, Reported(ops', v, g)
          PROVE  Reported(ops, v, g) \/ (v = w /\ g = ws[w].gen)
      <4>1. <<"checkpoint", v, g>> \in OpKey
        BY DEF OpKey, Generation
      <4>2. Reported(ops, v, g) \/ <<"checkpoint", v, g>> = CheckpointKey(w)
        BY <2>1, <2>2, <3>1, <4>1 DEF Reported, OpsType
      <4> QED BY <4>2 DEF CheckpointKey
    <3>2. ASSUME NEW v \in Workspace PROVE Saved(v)'
      <4>1. \A g \in Generation : Reported(ops', v, g) =>
               g < ws[v].gen \/ (g = ws[v].gen /\ ws[v].status \notin Dirty)
        BY <2>2, <3>1 DEF SavedInv, Saved, Dirty
      <4> QED BY <2>1, <4>1 DEF SavedInv, Saved, Reported
    <3> QED BY <3>2 DEF AllSaved
  <2>3. CASE ops' = [ops EXCEPT ![CheckpointKey(w)] = "pending"]
    <3>1. Quieter(ops', ops)
      <4>1. SUFFICES ASSUME NEW v \in Workspace, NEW g \in Generation, Reported(ops', v, g)
                     PROVE  Reported(ops, v, g)
        BY DEF Quieter
      <4>2. <<"checkpoint", v, g>> \in OpKey
        BY DEF OpKey, Generation
      <4> QED BY <2>1, <2>3, <4>1, <4>2 DEF Reported, OpsType
    <3> QED BY <2>1, <3>1, RowsGrow, GrowingStep DEF SavedInv, AllSaved
  <2> QED BY <1>1, <2>2, <2>3 DEF RequestCheckpoint
<1>2. CASE RequestRestore(w)
  <2> DEFINE key == RestoreKey(w, ws[w].head)
  <2>1. ops' = [ops EXCEPT ![key] = "pending"] /\ UNCHANGED ws /\ ops \in OpsType
    BY <1>2, InvTypes DEF RequestRestore, storeVars, SavedInv
  <2>2. Quieter(ops', ops)
    <3>1. SUFFICES ASSUME NEW v \in Workspace, NEW g \in Generation, Reported(ops', v, g)
                   PROVE  Reported(ops, v, g)
      BY DEF Quieter
    <3>2. <<"checkpoint", v, g>> \in OpKey
      BY DEF OpKey, Generation
    <3> QED BY <2>1, <3>1, <3>2 DEF Reported, OpsType
  <2> QED BY <2>1, <2>2, RowsGrow, GrowingStep DEF SavedInv, AllSaved
<1>3. CASE RequestWorkspace(w) \/ EnsureRequested(w) \/ (\E s \in Sandbox : RequestSandbox(s, w))
           \/ \E c \in Client : RequestRelease(c, w)
  <2>1. /\ UNCHANGED ops
        /\ UNCHANGED ws \/ CreateWorkspace(w) \/ ScheduleWorkspaceDelete(w)
    BY <1>3 DEF RequestWorkspace, EnsureRequested, RequestSandbox, RequestRelease, opVars, storeVars
  <2> QED BY <2>1, RowsGrow, ScheduleGrows, QuietOpsSteps DEF SavedInv
<1> QED BY <1>1, <1>2, <1>3 DEF WorkspaceRequest

LEMMA SavedCreations ==
  ASSUME SavedInv, NEW s \in Sandbox, CreateStep(s)
  PROVE  AllSaved
<1>1. UNCHANGED ops
  BY DEF CreateStep, LockForCreate, StartPrepare, FinishPrepare, PrepareContainerFails, Claim,
         ClaimRefused, CreateContainer, StartContainer, WorkerReady, LaunchFails,
         RemoveFailedContainer, FinishFailedCreation, opVars
<1>2. CASE UNCHANGED storeVars
  BY <1>1, <1>2, RowsGrow, QuietOpsSteps DEF storeVars, SavedInv
<1>3. CASE Claim(s)
  <2>1. cr[s].ws \in Workspace /\ ClaimWorkspace(cr[s].ws, s)
    BY <1>3, InvTypes DEF Claim, SavedInv, RequestTypeOK
  <2> QED BY <1>1, <2>1, ClaimGrows, QuietOpsSteps DEF SavedInv
<1>4. CASE WorkerReady(s)
  BY <1>1, <1>4, MarkGrows, QuietOpsSteps DEF WorkerReady, SavedInv
<1>5. CASE FinishFailedCreation(s)
  BY <1>1, <1>5, FinishGrows, FinishedStatuses, QuietOpsSteps DEF FinishFailedCreation, SavedInv
<1> QED BY <1>2, <1>3, <1>4, <1>5 DEF CreateStep, LockForCreate, StartPrepare, FinishPrepare,
           PrepareContainerFails, ClaimRefused, CreateContainer, StartContainer, LaunchFails,
           RemoveFailedContainer

LEMMA SavedTerminations ==
  ASSUME SavedInv, NEW c \in Caller, TerminateStep(c)
  PROVE  AllSaved
<1>1. UNCHANGED ops
  BY DEF TerminateStep, RemoveContainer, FinishTerminated, ScheduleDelete, opVars
<1>2. CASE UNCHANGED storeVars
  BY <1>1, <1>2, RowsGrow, QuietOpsSteps DEF storeVars, SavedInv
<1>3. CASE term[c].pc = "finish"
           /\ FinishSandbox(term[c].sb, "terminated", FinishedStatus(sb[term[c].sb].ws))
  <2>1. term[c].sb \in Sandbox
    BY <1>3, InvTypes DEF SavedInv, RequestTypeOK
  <2> QED BY <1>1, <1>3, <2>1, FinishGrows, FinishedStatuses, QuietOpsSteps DEF SavedInv
<1>4. CASE term[c].pc = "schedule" /\ ScheduleWorkspaceDelete(term[c].ws)
  <2>1. term[c].ws \in Workspace
    BY <1>4, InvTypes DEF SavedInv, RequestTypeOK
  <2> QED BY <1>1, <1>4, <2>1, ScheduleGrows, QuietOpsSteps DEF SavedInv
<1> QED BY <1>2, <1>3, <1>4 DEF TerminateStep, RemoveContainer, FinishTerminated, ScheduleDelete

\* Deleting a row takes its operations along, so its keys can be used again.
LEMMA SavedDeletion ==
  ASSUME SavedInv, NEW w \in Workspace, DeleteRows(w)
  PROVE  AllSaved
<1>1. ws'[w] = NoWorkspace /\ \A v \in Workspace \ {w} : ws'[v] = ws[v]
  BY Rows DEF DeleteRows, DeleteWorkspace, SavedInv
<1>2. ASSUME NEW v \in Workspace, NEW g \in Generation, Reported(ops', v, g)
      PROVE  v # w /\ Reported(ops, v, g)
  <2>1. <<"checkpoint", v, g>> \in OpKey
    BY DEF OpKey, Generation
  <2> QED BY <1>2, <2>1 DEF DeleteRows, Reported
<1>3. Saved(w)'
  BY <1>1, <1>2 DEF Saved, NoWorkspace, Reported
<1>4. ASSUME NEW v \in Workspace \ {w} PROVE Saved(v)'
  BY <1>1, <1>2, <1>4 DEF SavedInv, Saved, Reported
<1> QED BY <1>3, <1>4 DEF AllSaved

LEMMA SavedOutside ==
  ASSUME SavedInv,
         \/ \E w \in Workspace : DropEphemeral(w) \/ PassGrace(w) \/ PassRetention(w)
         \/ \E s \in Sandbox : WorkerWrites(s) \/ WorkerDies(s) \/ PassLease(s) \/ SandboxRequest(s)
         \/ ReaperStep \/ Crash
  PROVE  AllSaved
<1>1. ASSUME NEW w \in Workspace, DropEphemeral(w) PROVE AllSaved
  <2>1. CASE UNCHANGED <<storeVars, ops>>
    BY <2>1, RowsGrow, QuietOpsSteps DEF storeVars, SavedInv
  <2> QED BY <1>1, <2>1, SavedDeletion DEF DropEphemeral
<1>2. ASSUME NEW w \in Workspace, PassGrace(w) \/ PassRetention(w) PROVE AllSaved
  BY <1>2, DeadlineGrows, QuietOpsSteps DEF PassGrace, PassRetention, opVars, SavedInv
<1>3. ASSUME NEW s \in Sandbox,
             WorkerWrites(s) \/ WorkerDies(s) \/ PassLease(s) \/ SandboxRequest(s)
      PROVE  UNCHANGED <<ws, ops>>
  <2>1. CASE WorkerDies(s)
    BY <2>1, Zenon DEF WorkerDies, storeVars, opVars
  <2> QED BY <1>3, <2>1 DEF WorkerWrites, PassLease, SandboxRequest, Renew, RequestTerminate,
             RenewSandbox, LeaseExpires, storeVars, opVars
<1>4. CASE ReaperStep
  BY <1>4, RowsGrow, QuietOpsSteps
     DEF ReaperStep, ReaperWakes, ReaperSchedules, ReaperSleeps, ReaperTerminates, StartCleanup,
         storeVars, opVars, SavedInv
<1>5. CASE Crash
  BY <1>5, RowsGrow, QuietOpsSteps DEF Crash, storeVars, opVars, SavedInv
<1> QED BY <1>1, <1>2, <1>3, <1>4, <1>5, RowsGrow, QuietOpsSteps DEF SavedInv

LEMMA SavedStartup ==
  ASSUME SavedInv, StartupStep
  PROVE  AllSaved
<1>1. CASE RecoverOperations
  <2>1. Quieter(ops', ops)
    <3>1. SUFFICES ASSUME NEW v \in Workspace, NEW g \in Generation, Reported(ops', v, g)
                   PROVE  Reported(ops, v, g)
      BY DEF Quieter
    <3>2. <<"checkpoint", v, g>> \in OpKey
      BY DEF OpKey, Generation
    <3> QED BY <1>1, <3>1, <3>2 DEF RecoverOperations, Reported
  <2> QED BY <1>1, <2>1, RowsGrow, GrowingStep DEF RecoverOperations, storeVars, SavedInv, AllSaved
<1>2. CASE UNCHANGED <<storeVars, ops>>
  BY <1>2, RowsGrow, QuietOpsSteps DEF storeVars, SavedInv
<1>3. ASSUME NEW s \in Sandbox, AdoptContainer(s) PROVE AllSaved
  BY <1>2, <1>3, MarkGrows, QuietOpsSteps DEF AdoptContainer, opVars, SavedInv
<1>4. ASSUME NEW s \in Sandbox, FinishReconciled(s) PROVE AllSaved
  BY <1>4, FinishGrows, FinishedStatuses, QuietOpsSteps DEF FinishReconciled, opVars, SavedInv
<1>5. ASSUME NEW w \in Workspace, RecoverWorkspace(w) PROVE AllSaved
  BY <1>5, TransitionGrows, QuietOpsSteps DEF RecoverWorkspace, opVars, SavedInv, Dirty
<1> QED BY <1>1, <1>2, <1>3, <1>4, <1>5
       DEF StartupStep, Boot, PurgeOrphans, Booted, RemoveStrayContainer, opVars

-----------------------------------------------------------------------------
(* Coroutines that hold a lock, or take one. *)
LEMMA QuietWrites ==
  ASSUME SavedInv, NEW key, NEW st \in {"pending", "running", "failed"}
  PROVE  /\ Quieter(CreateOperation(ops, key), ops)
         /\ Quieter(UpdateOperation(ops, key, st), ops)
         /\ Quieter(UpdateOperation(CreateOperation(ops, key), key, st), ops)
<1> DEFINE created == CreateOperation(ops, key)
<1>1. ops \in OpsType
  BY InvTypes DEF SavedInv
<1>2. created \in OpsType
  BY <1>1, OpsUpdate
<1>3. Quieter(created, ops) /\ Quieter(UpdateOperation(ops, key, st), ops)
  BY <1>1, OpsQuieter
<1>4. Quieter(UpdateOperation(created, key, st), created)
  BY <1>2, OpsQuieter
<1>5. Quieter(UpdateOperation(created, key, st), ops)
  BY <1>3, <1>4 DEF Quieter
<1> QED BY <1>3, <1>5

LEMMA RestoreWrites ==
  ASSUME SavedInv, NEW v, NEW rev, NEW st \in {"pending", "running", "failed", "succeeded"}
  PROVE  Quieter(UpdateOperation(ops, RestoreKey(v, rev), st), ops)
<1>1. ops \in OpsType
  BY InvTypes DEF SavedInv
<1> QED BY <1>1, OtherKeys, OpsQuieter

LEMMA SavedTaskStarts ==
  ASSUME SavedInv, NEW w \in Workspace, TaskStart(w)
  PROVE  AllSaved
<1>1. CASE StartCheckpoint(w)
  <2>1. \A v \in Workspace : RowGrows(v)
    <3>1. CASE UNCHANGED storeVars
      BY <3>1, RowsGrow DEF storeVars, SavedInv
    <3>2. CASE TransitionWorkspace(w, {"detached_dirty"}, "checkpointing")
      BY <3>2, TransitionGrows DEF SavedInv, Dirty
    <3> QED BY <1>1, <3>1, <3>2 DEF StartCheckpoint
  <2> DEFINE key == CheckpointKey(w)
  <2>2. UNCHANGED ops \/ ops' = UpdateOperation(CreateOperation(ops, key), key, "running")
    BY <1>1 DEF StartCheckpoint
  <2> HIDE DEF key
  <2>3. Quieter(ops', ops)
    BY <2>2, QuietWrites DEF Quieter
  <2> QED BY <2>1, <2>3, GrowingStep DEF AllSaved
<1>2. CASE StartRetire(w)
  <2> DEFINE key == RetireKey(w)
             running == UpdateOperation(CreateOperation(ops, key), key, "running")
  <2>1. \A v \in Workspace : RowGrows(v)
    <3>1. CASE UNCHANGED storeVars
      BY <3>1, RowsGrow DEF storeVars, SavedInv
    <3>2. CASE TransitionWorkspace(w, {"detached_clean", "remote_only"}, "deleting")
      BY <3>2, TransitionGrows DEF SavedInv, Dirty
    <3> QED BY <1>2, <3>1, <3>2 DEF StartRetire
  <2>2. CASE ops' \in {ops, running}
    <3> HIDE DEF key
    <3>1. Quieter(ops', ops)
      BY <2>2, QuietWrites DEF Quieter
    <3> QED BY <2>1, <3>1, GrowingStep DEF AllSaved
  <2>3. CASE ops' = UpdateOperation(running, key, "succeeded")
    <3>1. ops \in OpsType
      BY InvTypes DEF SavedInv
    <3>2. CreateOperation(ops, key) \in OpsType
      BY <3>1, OpsUpdate
    <3>3. running \in OpsType
      BY <3>2, OpsUpdate
    <3>4. /\ Quieter(ops', running) /\ Quieter(running, CreateOperation(ops, key))
          /\ Quieter(CreateOperation(ops, key), ops)
      BY <2>3, <3>1, <3>2, <3>3, OtherKeys, OpsQuieter
    <3>5. Quieter(ops', ops)
      BY <3>4 DEF Quieter
    <3> QED BY <2>1, <3>5, GrowingStep DEF AllSaved
  <2> QED BY <1>2, <2>2, <2>3 DEF StartRetire
<1>3. ASSUME NEW rev \in Revision, StartRestore(w, rev) PROVE AllSaved
  <2>1. UNCHANGED ws
    BY <1>3 DEF StartRestore, storeVars
  <2>2. \/ UNCHANGED ops
        \/ ops' = UpdateOperation(ops, RestoreKey(w, rev), "succeeded")
        \/ ops' = UpdateOperation(ops, RestoreKey(w, rev), "failed")
    BY <1>3 DEF StartRestore
  <2>3. Quieter(ops', ops)
    BY <2>2, RestoreWrites DEF Quieter
  <2> QED BY <2>1, <2>3, RowsGrow, GrowingStep DEF SavedInv, AllSaved
<1>4. ASSUME NEW rev \in Revision, LockForRestore(w, rev) PROVE AllSaved
  BY <1>4, RowsGrow, QuietOpsSteps DEF LockForRestore, storeVars, opVars, SavedInv
<1> QED BY <1>1, <1>2, <1>3, <1>4 DEF TaskStart

LEMMA SavedPreparations ==
  ASSUME SavedInv, NEW w \in Workspace, PrepareStep(w)
  PROVE  AllSaved
<1>1. \A v \in Workspace : RowGrows(v)
  <2>1. CASE UNCHANGED storeVars
    BY <2>1, RowsGrow DEF storeVars, SavedInv
  <2>2. ASSUME NEW e, NEW st \in {"remote_only", "restoring", "detached_clean"},
               TransitionWorkspace(w, e, st)
        PROVE  \A v \in Workspace : RowGrows(v)
    BY <2>2, TransitionGrows DEF SavedInv, Dirty
  <2> QED BY <2>1, <2>2 DEF PrepareStep, PrepareFails, InspectFound, InspectRemote, InspectLost,
             InspectMissing, Materialize, ClearTarget, EnsureTarget, RunRestore, FinishRestore,
             RollBack
<1> DEFINE key == RestoreKey(w, lock[w].cur.head)
<1>2. ASSUME NEW o, PrepareRaises(w, o)
      PROVE  ops' = o \/ ops' = UpdateOperation(o, RestoreKey(w, lock[w].rev), "failed")
  BY <1>2 DEF PrepareRaises
<1>3. CASE UNCHANGED ops
  BY <1>1, <1>3, QuietOpsSteps
<1>4. CASE PrepareRaises(w, ops)
  <2>1. UNCHANGED ops \/ ops' = UpdateOperation(ops, RestoreKey(w, lock[w].rev), "failed")
    BY <1>2, <1>4
  <2>2. Quieter(ops', ops)
    BY <2>1, RestoreWrites DEF Quieter
  <2> QED BY <1>1, <2>2, GrowingStep DEF AllSaved
<1>5. CASE RollBack(w)
  <2> DEFINE rolled == UpdateOperation(ops, key, "failed")
  <2>1. ops \in OpsType
    BY InvTypes DEF SavedInv
  <2>2. rolled \in OpsType
    BY <2>1, OpsUpdate
  <2>3. Quieter(rolled, ops)
    BY <2>1, OpsQuieter
  <2>4. \A k : Quieter(UpdateOperation(rolled, k, "failed"), rolled)
    BY <2>2, OpsQuieter
  <2>5. ops' = rolled \/ ops' = UpdateOperation(rolled, RestoreKey(w, lock[w].rev), "failed")
    BY <1>2, <1>5 DEF RollBack
  <2>6. Quieter(ops', ops)
    BY <2>3, <2>4, <2>5 DEF Quieter
  <2> QED BY <1>1, <2>6, GrowingStep DEF AllSaved
<1>6. CASE EnsureTarget(w)
  <2>1. \/ ops' = UpdateOperation(CreateOperation(ops, key), key, "running")
        \/ ops' = CreateOperation(ops, key)
    BY <1>6 DEF EnsureTarget
  <2> HIDE DEF key
  <2>2. Quieter(ops', ops)
    BY <2>1, QuietWrites
  <2> QED BY <1>1, <2>2, GrowingStep DEF AllSaved
<1>7. CASE FinishRestore(w)
  <2>1. ops' = UpdateOperation(ops, key, "succeeded")
    BY <1>7 DEF FinishRestore
  <2>2. Quieter(ops', ops)
    BY <2>1, RestoreWrites
  <2> QED BY <1>1, <2>2, GrowingStep DEF AllSaved
<1> QED BY <1>3, <1>4, <1>5, <1>6, <1>7
       DEF PrepareStep, PrepareFails, InspectFound, InspectRemote, InspectLost, InspectMissing,
           Materialize, ClearTarget, RunRestore, opVars

\* The commit saves the generation it was taken for: the row is still of that generation.
LEMMA SavedCommit ==
  ASSUME SavedInv, NEW w \in Workspace, CommitCheckpoint(w)
  PROVE  AllSaved
<1> DEFINE gen == lock[w].cur.gen
           row == [ws[w] EXCEPT !.head = lock[w].rev, !.status = "detached_clean", !.aged = FALSE]
<1>1. CommitRevision(w, gen, lock[w].rev) /\ ops' = UpdateOperation(ops, <<"checkpoint", w, gen>>, "succeeded")
  BY DEF CommitCheckpoint
<1>2. ws[w].gen = gen /\ ws[w].status = "checkpointing" /\ ws' = [ws EXCEPT ![w] = row]
  BY <1>1 DEF CommitRevision, CommitOK
<1>3. row.gen = ws[w].gen /\ row.status = "detached_clean"
  BY Rows DEF WsRow, SavedInv
<1> HIDE DEF row
<1>4. /\ ws'[w].gen = gen /\ ws'[w].status = "detached_clean"
      /\ \A v \in Workspace \ {w} : ws'[v] = ws[v]
  BY <1>2, <1>3, Rows DEF SavedInv
<1>5. ASSUME NEW v \in Workspace, NEW g \in Generation, Reported(ops', v, g)
      PROVE  Reported(ops, v, g) \/ (v = w /\ g = gen)
  <2>1. <<"checkpoint", v, g>> \in OpKey /\ ops \in OpsType
    BY InvTypes DEF OpKey, Generation, SavedInv
  <2>2. Reported(ops, v, g) \/ <<"checkpoint", v, g>> = <<"checkpoint", w, gen>>
    BY <1>1, <1>5, <2>1 DEF Reported, OpsType, UpdateOperation
  <2> QED BY <2>2
<1>6. Saved(w)'
  <2>1. ASSUME NEW g \in Generation, Reported(ops', w, g) PROVE g < gen \/ g = gen
    BY <1>2, <1>5, <2>1 DEF SavedInv, Saved
  <2> QED BY <1>4, <2>1 DEF Saved, Reported, Dirty
<1>7. ASSUME NEW v \in Workspace \ {w} PROVE Saved(v)'
  BY <1>4, <1>5, <1>7 DEF SavedInv, Saved, Reported
<1> QED BY <1>6, <1>7 DEF AllSaved

LEMMA SavedHolders ==
  ASSUME SavedInv, NEW w \in Workspace, CheckpointStep(w) \/ RetireStep(w) \/ CleanupStep(w)
  PROVE  AllSaved
<1>1. CASE RunCheckpoint(w)
  <2>1. CASE UNCHANGED <<storeVars, ops>>
    BY <2>1, RowsGrow, QuietOpsSteps DEF storeVars, SavedInv
  <2>2. CASE CheckpointFails(w)
    <3>1. \A v \in Workspace : RowGrows(v)
      BY <2>2, TransitionGrows DEF CheckpointFails, SavedInv, Dirty
    <3>2. \E key : ops' = UpdateOperation(ops, key, "failed")
      BY <2>2 DEF CheckpointFails
    <3>3. Quieter(ops', ops)
      BY <3>2, QuietWrites
    <3> QED BY <3>1, <3>3, GrowingStep DEF AllSaved
  <2> QED BY <1>1, <2>1, <2>2 DEF RunCheckpoint
<1>2. CASE EraseRepository(w)
  <2>1. UNCHANGED ws /\ ops \in OpsType
    BY <1>2, InvTypes DEF EraseRepository, storeVars, SavedInv
  <2>2. ops' = UpdateOperation(ops, RetireKey(w), "succeeded")
           \/ ops' = UpdateOperation(ops, RetireKey(w), "failed")
    BY <1>2 DEF EraseRepository
  <2>3. Quieter(ops', ops)
    BY <2>1, <2>2, OtherKeys, OpsQuieter
  <2> QED BY <2>1, <2>3, RowsGrow, GrowingStep DEF SavedInv, AllSaved
<1>3. CASE DiscardRetired(w)
  <2>1. CASE UNCHANGED storeVars /\ ops' = UpdateOperation(ops, RetireKey(w), "failed")
    <3>1. \A v \in Workspace : RowGrows(v)
      BY <2>1, RowsGrow DEF storeVars, SavedInv
    <3>2. Quieter(ops', ops)
      BY <2>1, QuietWrites
    <3> QED BY <3>1, <3>2, GrowingStep DEF AllSaved
  <2> QED BY <1>3, <2>1, SavedDeletion DEF DiscardRetired
<1>4. CASE CleanupStep(w)
  <2>1. UNCHANGED ops
    BY <1>4 DEF CleanupStep, EvictVolume, FinishCleanup, opVars
  <2>2. CASE UNCHANGED storeVars
    BY <2>1, <2>2, RowsGrow, QuietOpsSteps DEF storeVars, SavedInv
  <2>3. CASE TransitionWorkspace(w, {"detached_clean"}, "remote_only")
    BY <2>1, <2>3, TransitionGrows, QuietOpsSteps DEF SavedInv, Dirty
  <2> QED BY <1>4, <2>2, <2>3 DEF CleanupStep, EvictVolume, FinishCleanup
<1> QED BY <1>1, <1>2, <1>3, <1>4, SavedCommit DEF CheckpointStep, RetireStep

-----------------------------------------------------------------------------
LEMMA SavedInit == Init => SavedInv
<1> SUFFICES ASSUME Init PROVE SavedInv
  OBVIOUS
<1>1. ASSUME NEW w \in Workspace, NEW g \in Generation PROVE ~Reported(ops, w, g)
  <2>1. <<"checkpoint", w, g>> \in OpKey
    BY DEF OpKey, Generation
  <2> QED BY <2>1 DEF Init, Reported
<1>2. \A w \in Workspace : ws[w].gen = 0
  BY DEF Init, StoreInit, NoWorkspace
<1> QED BY <1>1, <1>2, InitInv DEF SavedInv, Saved

LEMMA SavedNext == SavedInv /\ [Next]_vars => SavedInv'
<1> SUFFICES ASSUME SavedInv, [Next]_vars PROVE SavedInv'
  OBVIOUS
<1>1. AllSaved
  <2>1. CASE UNCHANGED vars
    <3>1. UNCHANGED <<ws, ops>>
      BY <2>1 DEF vars
    <3> QED BY <3>1, RowsGrow, QuietOpsSteps DEF SavedInv
  <2>2. ASSUME NEW w \in Workspace,
               \/ WorkspaceRequest(w) \/ TaskStart(w) \/ HolderStep(w)
               \/ EnsureRequested(w) \/ DropEphemeral(w)
               \/ PassGrace(w) \/ PassRetention(w)
        PROVE  AllSaved
    BY <2>2, SavedRequests, SavedTaskStarts, SavedPreparations, SavedHolders, SavedOutside
       DEF HolderStep
  <2>3. ASSUME NEW s \in Sandbox,
               \/ SandboxRequest(s) \/ CreateStep(s)
               \/ WorkerWrites(s) \/ WorkerDies(s) \/ PassLease(s)
        PROVE  AllSaved
    BY <2>3, SavedCreations, SavedOutside
  <2>4. ASSUME NEW c \in Caller, TerminateStep(c) PROVE AllSaved
    BY <2>4, SavedTerminations
  <2> QED BY <2>1, <2>2, <2>3, <2>4, SavedOutside, SavedStartup DEF Next
<1>2. Inv'
  BY NextInv DEF SavedInv
<1> QED BY <1>1, <1>2 DEF AllSaved, SavedInv

\* There are as many generations as keys: a generation counts sandboxes.
LEMMA GenerationIsKeyed == GenerationCountsClaims => \A w \in Workspace : ws[w].gen \in Generation
<1> SUFFICES ASSUME GenerationCountsClaims, NEW w \in Workspace PROVE ws[w].gen \in Generation
  OBVIOUS
<1> DEFINE claimed == {s \in Sandbox : sb[s].ws = w}
<1>1. IsFiniteSet(Sandbox)
  BY ManagerAssumption, Zenon
<1>2. Cardinality(claimed) \in 0 .. Cardinality(Sandbox)
  <2>1. claimed \subseteq Sandbox
    OBVIOUS
  <2>2. IsFiniteSet(claimed) /\ Cardinality(claimed) <= Cardinality(Sandbox)
    BY <1>1, <2>1, FS_Subset
  <2> HIDE DEF claimed
  <2> QED BY <1>1, <2>2, FS_CardinalityType
<1> QED BY <1>2 DEF GenerationCountsClaims, Generation

(* A workspace with unsaved content has no succeeded checkpoint of its     *)
(* generation, so the checkpoint task does not take it for saved: a key    *)
(* succeeds with the commit that saves its generation, a claim begins a    *)
(* new one, and a deletion takes the keys along.                           *)
THEOREM ManagerDirtyIsNotReportedSaved == Spec => []DirtyIsNotReportedSaved
<1>1. SavedInv /\ Consistent => DirtyIsNotReportedSaved
  <2>1. SUFFICES ASSUME SavedInv, GenerationCountsClaims, NEW w \in Workspace,
                        ws[w].status \in Dirty, Reported(ops, w, ws[w].gen)
                 PROVE  FALSE
    BY DEF Consistent, DirtyIsNotReportedSaved, Dirty, Reported, CheckpointKey
  <2>2. ws[w].gen \in Generation /\ ws[w].gen \in Int
    BY <2>1, GenerationIsKeyed, GenerationsAreNumbers
  <2> QED BY <2>1, <2>2 DEF SavedInv, Saved
<1>2. Spec => []SavedInv
  BY SavedInit, SavedNext, PTL DEF Spec
<1> QED BY <1>1, <1>2, ManagerConsistent, PTL

-----------------------------------------------------------------------------
(* Content: the volume, the head and the repository agree on what the      *)
(* workers wrote last, as long as the reaper stays away from workspaces    *)
(* that are about to be claimed (ContentSpec).                             *)

\* The volume holds the latest content, or the head does.
Away == {"remote_only", "restoring"}
Kept(w) ==
    /\ ws[w].status \in Dirty => vol[w] = latest[w] \/ (vol[w] = None /\ latest[w] = 0)
    /\ ws[w].status = "detached_clean" =>
          /\ vol[w] \in {latest[w], None}
          /\ ws[w].head = latest[w] \/ (ws[w].head = None /\ latest[w] = 0)
    /\ ws[w].status \in Away => ws[w].head = latest[w]
    /\ ws[w].status = "absent" => latest[w] = 0

\* What the holder of the lock read of the row still holds, as far as
\* _prepare_workspace goes by it.
Inspecting(w) ==
    /\ lock[w].pc # "free" => ws[w].head = lock[w].cur.head
    /\ lock[w].pc = "inspect" =>
          /\ ws[w].status \in Away <=> lock[w].cur.status = "remote_only"
          /\ ws[w].status # "restoring"
    /\ lock[w].pc = "materialize" => ws[w].status \notin Away
    /\ lock[w].pc = "materialize" \/ (lock[w].pc = "inspect" /\ lock[w].cur.active # None) =>
          ws[w].head = None \/ ws[w].status \in {"running", "detached_dirty"}

\* The status of the row, and the volume, where the holder of the lock stands.
Restores == {"restore", "restored", "rollback"}
Evicts == {"evict", "evicted"}
Standing(w) ==
    /\ lock[w].pc \in {"clear", "ensure"} => ws[w].status = "remote_only"
    /\ lock[w].pc \in Restores => ws[w].status = "restoring"
    /\ lock[w].pc = "restored" => vol[w] = ws[w].head /\ vol[w] # None
    /\ lock[w].pc \in Evicts => ws[w].status = "detached_clean" /\ ws[w].head # None
    /\ lock[w].pc \in {"snapshot", "commit"} => ws[w].status = "checkpointing"
    /\ lock[w].pc = "commit" => vol[w] = latest[w] /\ lock[w].rev = latest[w]
    /\ boot = "up" /\ ws[w].status = "restoring" => lock[w].pc \in Restores

\* Between _prepare_workspace and the claim a workspace has its volume.
Ready(w) ==
    (\E s \in Sandbox : cr[s].ws = w /\ cr[s].pc \in Window) =>
        /\ ws[w].status \notin Away
        /\ ws[w].status = "detached_clean" /\ w \notin Ephemeral => vol[w] # None
        /\ lock[w].pc \notin Evicts

\* A container's volume exists.
Holds(s) == cont[s] # "none" \/ cr[s].pc = "start"
InPlace(w) == (\E s \in Sandbox : sb[s].ws = w /\ Holds(s)) => vol[w] # None

\* Nobody writes to a workspace before the request that creates it has returned.
Requested(w) ==
    w \in mk => latest[w] = 0 /\ ws[w].status # "running" /\ \A s \in Sandbox : cr[s].ws # w

\* An ephemeral workspace has no snapshot, one creation and one sandbox, and
\* is dropped when they are done with it.
Before == {"prepare", "locked"} \cup Window
Transient(w) ==
    /\ ws[w].head = None
    /\ ws[w].status \in {"absent", "detached_clean", "running", "deleting"}
Alone(w) ==
    /\ \A r, s \in Sandbox : cr[r].ws = w /\ cr[s].ws = w => r = s
    /\ \A s \in Sandbox : cr[s].ws = w /\ cr[s].pc \in Before =>
          w \notin drop /\ \A r \in Sandbox : sb[r].ws # w
    /\ \A r \in Sandbox : sb[r].ws = w => Exists(w) /\ ws[w].active \in {None, r}
    /\ w \in drop => ws[w].status # "running"

Sound(w) ==
    /\ Kept(w) /\ Inspecting(w) /\ Standing(w) /\ Ready(w) /\ InPlace(w) /\ Requested(w)
    /\ w \in Ephemeral => Transient(w) /\ Alone(w)
AllSound == \A w \in Workspace : Sound(w)
ContentInv == StorageInv /\ AllSound
StaysSound == \A w \in Workspace : Sound(w)'

-----------------------------------------------------------------------------
(* What a step may leave alone.                                            *)
SameRow(v) ==
    ws'[v].status = ws[v].status /\ ws'[v].head = ws[v].head /\ ws'[v].active = ws[v].active
SameData(v) == vol'[v] = vol[v] /\ latest'[v] = latest[v]
SameBoot(v) == boot' = "up" /\ ws'[v].status = "restoring" => boot = "up"
Still(v) == SameRow(v) /\ SameData(v) /\ SameBoot(v) /\ lock'[v] = lock[v]

\* No creation reaches v or moves back, no sandbox or container is new to it.
Fewer(v) ==
    \A s \in Sandbox : cr'[s].ws = v =>
        /\ cr[s].ws = v
        /\ cr'[s].pc \in Window => cr[s].pc \in Window
        /\ cr'[s].pc \in Before => cr[s].pc \in Before
NoneNew(v) == \A s \in Sandbox : sb'[s].ws = v => sb[s].ws = v /\ (Holds(s)' => Holds(s))
Settled(v) == Fewer(v) /\ NoneNew(v) /\ (v \in mk' => v \in mk)
Calm(v) == Settled(v) /\ (v \in drop' => v \in drop)

LEMMA SameParts ==
  ASSUME NEW v \in Workspace, Sound(v)
  PROVE  /\ SameRow(v) /\ SameData(v) => Kept(v)'
         /\ SameRow(v) /\ lock'[v] = lock[v] => Inspecting(v)'
         /\ Still(v) => Standing(v)'
         /\ SameRow(v) /\ (v \in Ephemeral => Transient(v)) => (v \in Ephemeral => Transient(v)')
BY DEF Sound, Kept, Inspecting, Standing, Transient, Still, SameRow, SameData, SameBoot

LEMMA SettledParts ==
  ASSUME NEW v \in Workspace, Sound(v), Settled(v)
  PROVE  /\ /\ ws'[v].status \notin Away
            /\ ws'[v].status = "detached_clean" /\ v \notin Ephemeral => vol'[v] # None
            /\ lock'[v].pc \notin Evicts
            => Ready(v)'
         /\ SameRow(v) /\ (vol[v] # None => vol'[v] # None)
                       /\ (lock'[v].pc \in Evicts => lock[v].pc \in Evicts)
               => Ready(v)'
         /\ (vol[v] # None => vol'[v] # None) => InPlace(v)'
         /\ latest'[v] = latest[v] /\ (ws'[v].status = "running" => ws[v].status = "running")
               => Requested(v)'
         /\ v \in Ephemeral /\ SameRow(v) /\ (v \in drop' => v \in drop) => Alone(v)'
<1>1. /\ ws'[v].status \notin Away
      /\ ws'[v].status = "detached_clean" /\ v \notin Ephemeral => vol'[v] # None
      /\ lock'[v].pc \notin Evicts
      => Ready(v)'
  BY DEF Ready
<1>2. ASSUME SameRow(v), vol[v] # None => vol'[v] # None,
             lock'[v].pc \in Evicts => lock[v].pc \in Evicts
      PROVE  Ready(v)'
  BY <1>2 DEF Sound, Ready, Settled, Fewer, SameRow
<1>3. ASSUME vol[v] # None => vol'[v] # None PROVE InPlace(v)'
  BY <1>3 DEF Sound, InPlace, Settled, NoneNew
<1>4. ASSUME latest'[v] = latest[v], ws'[v].status = "running" => ws[v].status = "running"
      PROVE  Requested(v)'
  BY <1>4 DEF Sound, Requested, Settled, Fewer
<1>5. ASSUME v \in Ephemeral, SameRow(v), v \in drop' => v \in drop PROVE Alone(v)'
  <2>1. Alone(v)
    BY <1>5 DEF Sound
  <2> QED BY <1>5, <2>1 DEF Alone, Settled, Fewer, NoneNew, SameRow, Exists
<1> QED BY <1>1, <1>2, <1>3, <1>4, <1>5

LEMMA SettledKeeps ==
  ASSUME NEW v \in Workspace, Sound(v), Still(v), Settled(v), v \in Ephemeral => Alone(v)'
  PROVE  Sound(v)'
<1>1. Kept(v)' /\ Inspecting(v)' /\ Standing(v)' /\ (v \in Ephemeral => Transient(v)')
  BY SameParts DEF Still, Sound
<1>2. Ready(v)' /\ InPlace(v)' /\ Requested(v)'
  BY SettledParts DEF Still, SameData, SameRow
<1> QED BY <1>1, <1>2 DEF Sound

LEMMA UntouchedKeeps ==
  ASSUME NEW v \in Workspace, Sound(v), Still(v), Calm(v)
  PROVE  Sound(v)'
<1>1. v \in Ephemeral => Alone(v)'
  BY SettledParts DEF Still, Calm
<1> QED BY <1>1, SettledKeeps DEF Calm

LEMMA OneWorkspace ==
  ASSUME AllSound, NEW w \in Workspace, Sound(w)',
         \A v \in Workspace \ {w} : Still(v) /\ Calm(v)
  PROVE  StaysSound
BY UntouchedKeeps DEF AllSound, StaysSound

-----------------------------------------------------------------------------
(* Steps that change nothing here: deadlines, leases, records, and most    *)
(* requests.                                                               *)
LEMMA SameRows ==
  ASSUME Inv,
         \/ \E w \in Workspace : ScheduleWorkspaceDelete(w) \/ GraceEnds(w) \/ RetentionEnds(w)
         \/ \E s \in Sandbox : MarkSandboxRunning(s) \/ RenewSandbox(s) \/ LeaseExpires(s)
         \/ UNCHANGED storeVars
  PROVE  (\A v \in Workspace : SameRow(v)) /\ (\A s \in Sandbox : sb'[s].ws = sb[s].ws)
<1>0. ws \in [Workspace -> WsRow] /\ sb \in [Sandbox -> SbRow]
  BY DEF Inv, StoreInv, StoreTypeOK
<1>1. ASSUME NEW w \in Workspace, GraceEnds(w) \/ RetentionEnds(w)
      PROVE  (\A v \in Workspace : SameRow(v)) /\ sb' = sb
  BY <1>0, <1>1 DEF GraceEnds, RetentionEnds, SameRow, WsRow
<1>2. ASSUME NEW w \in Workspace, ScheduleWorkspaceDelete(w)
      PROVE  (\A v \in Workspace : SameRow(v)) /\ sb' = sb
  <2> DEFINE row == [ws[w] EXCEPT !.del = "grace", !.aged = FALSE]
  <2>1. row.status = ws[w].status /\ row.head = ws[w].head /\ row.active = ws[w].active
    BY <1>0 DEF WsRow
  <2>2. ws' = [ws EXCEPT ![w] = row] /\ sb' = sb
    BY <1>2, Zenon DEF ScheduleWorkspaceDelete
  <2> HIDE DEF row
  <2> QED BY <1>0, <2>1, <2>2 DEF SameRow
<1>4. ASSUME NEW s \in Sandbox, RenewSandbox(s) \/ LeaseExpires(s)
      PROVE  ws' = ws /\ (\A r \in Sandbox : sb'[r].ws = sb[r].ws)
  BY <1>0, <1>4 DEF RenewSandbox, LeaseExpires, SbRow
<1>5. ASSUME NEW s \in Sandbox, MarkSandboxRunning(s)
      PROVE  (\A v \in Workspace : SameRow(v)) /\ (\A r \in Sandbox : sb'[r].ws = sb[r].ws)
  <2>1. \A v \in Workspace : SameRow(v)
    BY <1>0, <1>5 DEF MarkSandboxRunning, SameRow, WsRow
  <2>2. \A r \in Sandbox : sb'[r].ws = sb[r].ws
    BY <1>0, <1>5 DEF MarkSandboxRunning, SbRow
  <2> QED BY <2>1, <2>2
<1>3. CASE UNCHANGED storeVars
  BY <1>3 DEF storeVars, SameRow
<1> QED BY <1>1, <1>2, <1>3, <1>4, <1>5 DEF SameRow

\* Creations go on or give up, and nothing else is new.
Onward(s) ==
    \/ cr'[s] = cr[s]
    \/ cr'[s] = NoCreate
    \/ /\ cr'[s].ws = cr[s].ws
       /\ cr'[s].pc \in Window => cr[s].pc \in Window
       /\ cr'[s].pc \in Before => cr[s].pc \in Before

LEMMA CalmStep ==
  ASSUME \A s \in Sandbox : Onward(s) /\ (Holds(s)' => Holds(s)),
         \A s \in Sandbox : sb'[s].ws \in {sb[s].ws, None},
         drop' \subseteq drop, mk' \subseteq mk
  PROVE  \A v \in Workspace : Calm(v)
<1>1. None \notin Workspace
  BY StoreAssumption
<1>2. \A v \in Workspace : Fewer(v)
  BY <1>1 DEF Onward, Fewer, NoCreate
<1>3. \A v \in Workspace : NoneNew(v)
  BY <1>1 DEF NoneNew
<1> QED BY <1>2, <1>3 DEF Calm, Settled

LEMMA QuietContent ==
  ASSUME AllSound, UNCHANGED <<lock, vol, latest>>, boot' = "up" => boot = "up",
         \A v \in Workspace : SameRow(v) /\ Calm(v)
  PROVE  StaysSound
<1>1. \A v \in Workspace : Still(v)
  BY DEF Still, SameData, SameBoot
<1> QED BY <1>1, UntouchedKeeps DEF AllSound, StaysSound

LEMMA DyingWorker ==
  ASSUME ContentInv, NEW s \in Sandbox, WorkerDies(s)
  PROVE  StaysSound
<1>1. /\ UNCHANGED <<storeVars, memVars, boot, vol, ghostVars>>
      /\ cont[s] = "running" /\ cont' = [cont EXCEPT ![s] = "stopped"]
  BY Zenon DEF WorkerDies
<1>2. UNCHANGED <<lock, vol, latest, boot, cr, drop, mk, ws, sb>>
  BY <1>1 DEF storeVars, memVars, ghostVars
<1>3. \A r \in Sandbox : Holds(r)' => Holds(r)
  BY <1>1, <1>2, InvTypes DEF Holds, ContentInv, StorageInv, DataTypeOK
<1>4. \A v \in Workspace : Calm(v)
  BY <1>2, <1>3, CalmStep DEF Onward
<1> QED BY <1>2, <1>4, QuietContent DEF ContentInv, SameRow

LEMMA QuietRequests ==
  ASSUME ContentInv,
         \/ \E w \in Workspace : \/ RequestCheckpoint(w) \/ RequestRestore(w)
                                 \/ PassGrace(w) \/ PassRetention(w)
                                 \/ \E c \in Client : RequestRelease(c, w)
                                 \/ \E rev \in Revision : StartRestore(w, rev)
         \/ \E s \in Sandbox : PassLease(s) \/ SandboxRequest(s)
         \/ \E c \in Caller : RemoveContainer(c) \/ ScheduleDelete(c)
         \/ ReaperWakes \/ ReaperSchedules \/ ReaperSleeps
         \/ \E s \in Sandbox : ReaperTerminates(s)
  PROVE  StaysSound
<1>0. Inv
  BY DEF ContentInv, StorageInv
<1>1. UNCHANGED <<lock, vol, latest, boot, cr, drop, mk>>
  BY DEF RequestCheckpoint, RequestRestore, PassGrace, PassRetention, RequestRelease, StartRestore,
         PassLease, SandboxRequest, Renew, RequestTerminate, RemoveContainer,
         ScheduleDelete, ReaperWakes, ReaperSchedules, ReaperSleeps, ReaperTerminates,
         dockerVars, ghostVars, memVars
<1>2. (\A v \in Workspace : SameRow(v)) /\ (\A s \in Sandbox : sb'[s].ws = sb[s].ws)
  <2>1. \A c \in Caller : term[c].pc = "schedule" => term[c].ws \in Workspace
    BY <1>0, InvTypes DEF RequestTypeOK
  <2>2. ASSUME NEW c \in Caller, ScheduleDelete(c)
        PROVE  UNCHANGED storeVars \/ \E w \in Workspace : ScheduleWorkspaceDelete(w)
    BY <2>1, <2>2 DEF ScheduleDelete
  <2> QED BY <1>0, <2>2, SameRows
      DEF RequestCheckpoint, RequestRestore, PassGrace, PassRetention, RequestRelease, StartRestore,
          PassLease, SandboxRequest, Renew, RequestTerminate, RemoveContainer,
          ReaperWakes, ReaperSchedules, ReaperSleeps, ReaperTerminates
<1>3. \A s \in Sandbox : cont'[s] = "none" \/ cont'[s] = cont[s] \/ cont[s] = "running"
  <2>1. \A c \in Caller : term[c].pc = "remove" => term[c].sb \in Sandbox
    BY <1>0, InvTypes DEF RequestTypeOK
  <2>2. cont \in [Sandbox -> {"none", "stopped", "running"}]
    BY <1>0, InvTypes DEF DataTypeOK
  <2> QED BY <2>1, <2>2
      DEF RequestCheckpoint, RequestRestore, PassGrace, PassRetention, RequestRelease, StartRestore,
          PassLease, SandboxRequest, Renew, RequestTerminate, RemoveContainer,
          ScheduleDelete, ReaperWakes, ReaperSchedules, ReaperSleeps, ReaperTerminates, dockerVars
<1>4. \A v \in Workspace : Calm(v)
  BY <1>1, <1>2, <1>3, CalmStep DEF Onward, Holds
<1> QED BY <1>1, <1>2, <1>4, QuietContent DEF ContentInv

-----------------------------------------------------------------------------
(* Creations and the volumes they mount. *)
LEMMA CreationFacts ==
  ASSUME ContentInv, NEW s \in Sandbox, cr[s].pc # "idle"
  PROVE  /\ cr[s].ws \in Workspace
         /\ cr[s].pc \in {"create", "start", "wait", "unwind", "failed"} =>
              /\ sb[s].ws = cr[s].ws
              /\ ws[cr[s].ws].active = s /\ ws[cr[s].ws].status = "running"
<1>1. cr[s].ws \in Workspace
  BY InvTypes DEF ContentInv, StorageInv, RequestTypeOK
<1>2. ASSUME cr[s].pc \in {"create", "start", "wait", "unwind", "failed"}
      PROVE  sb[s].ws = cr[s].ws /\ IsActive(s)
  BY <1>2 DEF ContentInv, StorageInv, Inv, Ownership, CreationOwned, IsActive, ActiveStatus
<1>3. \A w \in Workspace : ws[w].active = s => ws[w].status = "running"
  BY StoreAssumption DEF ContentInv, StorageInv, Inv, StoreInv, WriterBinding, WorkspaceBound
<1> QED BY <1>1, <1>2, <1>3
       DEF ContentInv, StorageInv, Inv, StoreInv, WriterBinding, SandboxBound

\* How creations move.
LEMMA MovedCreation ==
  ASSUME Inv, NEW s \in Sandbox, NEW pc, cr' = [cr EXCEPT ![s].pc = pc],
         pc \in Window => cr[s].pc \in Window, pc \in Before => cr[s].pc \in Before
  PROVE  /\ \A r \in Sandbox : Onward(r)
         /\ cr'[s].pc = pc /\ \A r \in Sandbox \ {s} : cr'[r] = cr[r]
BY InvTypes DEF RequestTypeOK, Onward

LEMMA QuietCreations ==
  ASSUME ContentInv, NEW s \in Sandbox,
         \/ FinishPrepare(s) \/ StartContainer(s) \/ WorkerReady(s) \/ LaunchFails(s)
         \/ RemoveFailedContainer(s)
  PROVE  StaysSound
<1>0. Inv
  BY DEF ContentInv, StorageInv
<1>1. UNCHANGED <<lock, vol, latest, boot, drop, mk>>
  BY DEF FinishPrepare, StartContainer, WorkerReady, LaunchFails, RemoveFailedContainer,
         dockerVars, ghostVars
<1>2. (\A v \in Workspace : SameRow(v)) /\ (\A r \in Sandbox : sb'[r].ws = sb[r].ws)
  BY <1>0, SameRows DEF FinishPrepare, StartContainer, WorkerReady, LaunchFails,
     RemoveFailedContainer
<1>3. \A r \in Sandbox : Onward(r) /\ (Holds(r)' => Holds(r))
  <2>1. cont \in [Sandbox -> {"none", "stopped", "running"}]
    BY <1>0, InvTypes DEF DataTypeOK
  <2>2. cr \in [Sandbox -> [pc : CreatePc, ws : Workspace \cup {None}]]
    BY <1>0, InvTypes DEF RequestTypeOK
  <2>3. CASE FinishPrepare(s)
    <3>1. cr' = [cr EXCEPT ![s].pc = "claim"] /\ cr[s].pc = "preparing" /\ cont' = cont
      BY <2>3 DEF FinishPrepare, dockerVars
    <3>2. /\ \A r \in Sandbox : Onward(r)
          /\ cr'[s].pc = "claim" /\ \A r \in Sandbox \ {s} : cr'[r] = cr[r]
      BY <1>0, <3>1, MovedCreation DEF Window, Before
    <3> QED BY <3>1, <3>2 DEF Holds
  <2>4. CASE StartContainer(s)
    <3>1. /\ cr' = [cr EXCEPT ![s].pc = "wait"] /\ cr[s].pc = "start"
          /\ cont' = [cont EXCEPT ![s] = "running"]
      BY <2>4 DEF StartContainer
    <3>2. /\ \A r \in Sandbox : Onward(r)
          /\ cr'[s].pc = "wait" /\ \A r \in Sandbox \ {s} : cr'[r] = cr[r]
      BY <1>0, <3>1, MovedCreation DEF Window, Before
    <3> QED BY <2>1, <3>1, <3>2 DEF Holds
  <2>5. CASE LaunchFails(s)
    <3>1. /\ cr' = [cr EXCEPT ![s].pc = IF cont[s] = "none" THEN "failed" ELSE "unwind"]
          /\ cont' = cont
      BY <2>5 DEF LaunchFails, dockerVars
    <3> QED BY <1>0, <3>1, MovedCreation DEF Window, Before, Holds
  <2>6. CASE /\ cr' = [cr EXCEPT ![s].pc = "failed"] /\ cont' = [cont EXCEPT ![s] = "none"]
    BY <1>0, <2>1, <2>6, MovedCreation DEF Window, Before, Holds
  <2>7. CASE cr' = [cr EXCEPT ![s] = NoCreate] /\ cont' = cont
    BY <2>2, <2>7 DEF Onward, Holds, NoCreate
  <2> QED BY <2>3, <2>4, <2>5, <2>6, <2>7 DEF WorkerReady, RemoveFailedContainer, dockerVars
<1>4. \A v \in Workspace : Calm(v)
  BY <1>1, <1>2, <1>3, CalmStep
<1> QED BY <1>1, <1>2, <1>4, QuietContent DEF ContentInv

LEMMA SnapshotsAreNotNone == \A w \in Workspace : Inv => latest[w] # None /\ latest[w] \in Revision
BY StoreAssumption, InvTypes DEF DataTypeOK

\* A volume is mounted; it is created, empty, when it was missing.
LEMMA MountedContent ==
  ASSUME ContentInv, NEW w \in Workspace, vol' = Mounted(w),
         UNCHANGED <<lock, ws, sb, latest>>, boot' = "up" => boot = "up",
         ws[w].status = "detached_clean" /\ vol[w] = None => latest[w] = 0,
         \A v \in Workspace : Fewer(v), \A v \in Workspace \ {w} : NoneNew(v),
         drop' \subseteq drop, mk' \subseteq mk
  PROVE  StaysSound
<1>0. Inv /\ Sound(w) /\ vol \in [Workspace -> Content] /\ latest[w] # None
  BY InvTypes, SnapshotsAreNotNone DEF ContentInv, StorageInv, AllSound, DataTypeOK
<1>1. /\ vol'[w] = IF vol[w] = None THEN 0 ELSE vol[w]
      /\ \A v \in Workspace \ {w} : vol'[v] = vol[v]
  BY <1>0 DEF Mounted
<1>2. vol'[w] # None
  <2>1. 0 # None
    BY EmptyVolume, StoreAssumption
  <2> QED BY <1>1, <2>1
<1>3. \A v \in Workspace \ {w} : Still(v) /\ Calm(v)
  BY <1>1 DEF Still, SameRow, SameData, SameBoot, Calm, Settled
<1>4. SameRow(w) /\ SameBoot(w)
  BY DEF SameRow, SameBoot
<1>5. Kept(w)' /\ Inspecting(w)' /\ Standing(w)'
  <2>1. Kept(w)'
    BY <1>0, <1>1 DEF Sound, Kept, Dirty, Away
  <2>2. Standing(w)'
    BY <1>0, <1>1, <1>4 DEF Sound, Standing, SameRow, SameBoot
  <2> QED BY <1>0, <1>4, <2>1, <2>2, SameParts
<1>6. Ready(w)' /\ InPlace(w)' /\ Requested(w)'
  <2>1. Ready(w)'
    BY <1>0, <1>2 DEF Sound, Ready, Fewer
  <2>2. Requested(w)'
    BY <1>0 DEF Sound, Requested, Fewer
  <2> QED BY <1>2, <2>1, <2>2 DEF InPlace
<1>7. w \in Ephemeral => Transient(w)' /\ Alone(w)'
  BY <1>0 DEF Sound, Transient, Alone, Fewer, Exists
<1> QED BY <1>0, <1>3, <1>5, <1>6, <1>7, OneWorkspace DEF Sound, ContentInv

LEMMA Preparing ==
  ASSUME ContentInv, NEW s \in Sandbox, StartPrepare(s)
  PROVE  StaysSound
<1> DEFINE w == cr[s].ws
<1>0. w \in Workspace /\ Inv /\ Sound(w) /\ latest[w] # None
  BY CreationFacts, SnapshotsAreNotNone DEF StartPrepare, ContentInv, StorageInv, AllSound
<1>1. cr' = [cr EXCEPT ![s].pc = "preparing"] /\ cr[s].pc = "mount"
  BY DEF StartPrepare
<1>2. \A r \in Sandbox : Onward(r)
  BY <1>0, <1>1, MovedCreation DEF Window, Before
<1>3. \A r \in Sandbox : Holds(r)' => Holds(r)
  BY <1>0, <1>1, InvTypes DEF StartPrepare, Holds, RequestTypeOK
<1>4. \A v \in Workspace : Calm(v)
  BY <1>2, <1>3, CalmStep DEF StartPrepare, storeVars
<1>5. ws[w].status = "detached_clean" /\ vol[w] = None => latest[w] = 0
  BY <1>0, <1>1 DEF Sound, Ready, Transient, Kept, Window
<1>6. vol' = Mounted(w) /\ UNCHANGED <<lock, ws, sb, latest, boot, drop, mk>>
  BY DEF StartPrepare, storeVars, ghostVars
<1> HIDE DEF w
<1> QED BY <1>0, <1>4, <1>5, <1>6, MountedContent DEF Calm, Settled

LEMMA CreatingContainer ==
  ASSUME ContentInv, NEW s \in Sandbox, CreateContainer(s)
  PROVE  StaysSound
<1> DEFINE w == cr[s].ws
<1>0. w \in Workspace /\ Inv /\ sb[s].ws = w /\ ws[w].status = "running"
  BY CreationFacts DEF CreateContainer, ContentInv, StorageInv
<1>1. cr' = [cr EXCEPT ![s].pc = "start"] /\ cont' = [cont EXCEPT ![s] = "stopped"]
  BY DEF CreateContainer
<1>2. (\A r \in Sandbox : Onward(r)) /\ \A r \in Sandbox \ {s} : cr'[r] = cr[r]
  BY <1>0, <1>1, MovedCreation DEF Window, Before
<1>3. vol' = Mounted(w) /\ UNCHANGED <<lock, ws, sb, latest, boot, drop, mk>>
  BY DEF CreateContainer, storeVars, ghostVars
<1>4. \A v \in Workspace : Fewer(v)
  BY <1>2, StoreAssumption DEF Onward, Fewer, NoCreate
<1>5. \A v \in Workspace \ {w} : NoneNew(v)
  BY <1>0, <1>1, <1>2, <1>3, InvTypes DEF NoneNew, Holds, DataTypeOK
<1> HIDE DEF w
<1> QED BY <1>0, <1>3, <1>4, <1>5, MountedContent

LEMMA EnsuringRequested ==
  ASSUME ContentInv, NEW w \in Workspace, EnsureRequested(w)
  PROVE  StaysSound
<1>1. UNCHANGED <<lock, ws, sb, latest, boot, drop, cr, cont>> /\ mk' \subseteq mk
  BY DEF EnsureRequested, storeVars, ghostVars
<1>2. \A v \in Workspace : Calm(v)
  BY <1>1, CalmStep DEF Onward, Holds
<1>3. latest[w] = 0
  BY DEF EnsureRequested, ContentInv, AllSound, Sound, Requested
<1>4. CASE vol' = Mounted(w)
  BY <1>1, <1>2, <1>3, <1>4, MountedContent DEF Calm, Settled
<1>5. CASE vol' = vol
  BY <1>1, <1>2, <1>5, QuietContent DEF SameRow, ContentInv
<1> QED BY <1>4, <1>5 DEF EnsureRequested

-----------------------------------------------------------------------------
(* The claim, and creations that end without one. *)
LEMMA ClaimRows ==
  ASSUME Inv, NEW w \in Workspace, NEW s \in Sandbox, ClaimWorkspace(w, s)
  PROVE  /\ ws'[w].status = "running" /\ ws'[w].active = s /\ ws'[w].head = ws[w].head
         /\ \A v \in Workspace \ {w} : ws'[v] = ws[v]
         /\ sb'[s].ws = w /\ \A r \in Sandbox \ {s} : sb'[r] = sb[r]
         /\ ws[w].status \in {"detached_dirty", "detached_clean", "remote_only"}
         /\ cont[s] = "none"
<1> DEFINE row == [ws[w] EXCEPT !.status = "running", !.active = s,
                                !.gen = ws[w].gen + 1, !.del = "none", !.aged = FALSE]
<1>1. row.status = "running" /\ row.active = s /\ row.head = ws[w].head
  BY Rows DEF WsRow
<1>2. ws' = [ws EXCEPT ![w] = row]
  BY DEF ClaimWorkspace
<1> HIDE DEF row
<1>3. ws'[w] = row /\ \A v \in Workspace \ {w} : ws'[v] = ws[v]
  BY <1>2, Rows
<1>4. sb'[s].ws = w /\ \A r \in Sandbox \ {s} : sb'[r] = sb[r]
  BY InvTypes DEF ClaimWorkspace, StoreTypeOK
<1>5. sb[s].status = "absent" /\ Exists(w) /\ ws[w].active \in {None, s}
      /\ ws[w].status \notin {"checkpointing", "restoring", "deleting"}
  BY DEF ClaimWorkspace, ClaimOK
<1>6. ws[w].status # "running"
  <2>1. ~IsActive(s)
    BY <1>5 DEF IsActive, ActiveStatus
  <2> QED BY <1>5, <2>1 DEF Inv, StoreInv, WriterBinding, WorkspaceBound
<1>7. cont[s] = "none"
  BY <1>5 DEF Inv, Ownership, ContainersAreActive, IsActive, ActiveStatus
<1>8. ws[w].status \in WsStatus
  BY Rows DEF WsRow
<1> QED BY <1>1, <1>3, <1>4, <1>5, <1>6, <1>7, <1>8 DEF Exists, WsStatus

LEMMA Claiming ==
  ASSUME ContentInv, NEW s \in Sandbox, Claim(s)
  PROVE  StaysSound
<1>5. PICK w \in Workspace : cr[s].ws = w
  BY CreationFacts DEF Claim
<1>0. Inv /\ Sound(w) /\ latest[w] # None
  BY SnapshotsAreNotNone DEF ContentInv, StorageInv, AllSound
<1>1. cr' = [cr EXCEPT ![s].pc = "create"] /\ cr[s].pc = "claim" /\ ClaimWorkspace(w, s)
  BY <1>5 DEF Claim
<1>2. (\A r \in Sandbox : Onward(r)) /\ cr'[s].pc = "create" /\ \A r \in Sandbox \ {s} : cr'[r] = cr[r]
  BY <1>0, <1>1, MovedCreation DEF Window, Before
<1>3. UNCHANGED <<lock, vol, latest, boot, drop, mk, cont>>
  BY DEF Claim, dockerVars, ghostVars
<1>4. \A v \in Workspace : Fewer(v)
  BY <1>2, StoreAssumption DEF Onward, Fewer, NoCreate
<1>6. /\ ws'[w].status = "running" /\ ws'[w].active = s /\ ws'[w].head = ws[w].head
      /\ \A v \in Workspace \ {w} : ws'[v] = ws[v]
      /\ sb'[s].ws = w /\ \A r \in Sandbox \ {s} : sb'[r] = sb[r]
      /\ ws[w].status \in {"detached_dirty", "detached_clean"}
      /\ cont[s] = "none"
  <2>1. ws[w].status \notin Away
    BY <1>0, <1>1, <1>5 DEF Sound, Ready, Window
  <2> QED BY <1>0, <1>1, <2>1, ClaimRows DEF Away
<1>7. \A v \in Workspace \ {w} : Still(v) /\ Calm(v)
  <2>1. \A v \in Workspace \ {w} : Still(v)
    BY <1>3, <1>6 DEF Still, SameRow, SameData, SameBoot
  <2>2. \A v \in Workspace \ {w} : NoneNew(v)
    BY <1>2, <1>3, <1>6 DEF NoneNew, Holds
  <2> QED BY <1>3, <1>4, <2>1, <2>2 DEF Calm, Settled
<1>8. Kept(w)'
  <2>1. ws[w].status = "detached_clean" => vol[w] = latest[w] \/ (vol[w] = None /\ latest[w] = 0)
    BY <1>0, <1>1, <1>5 DEF Sound, Kept, Ready, Transient, Window
  <2> QED BY <1>0, <1>3, <1>6, <2>1 DEF Sound, Kept, Dirty, Away
<1>9. Inspecting(w)' /\ Standing(w)'
  <2>1. lock[w].pc \notin Evicts
    BY <1>0, <1>1, <1>5 DEF Sound, Ready, Window
  <2>2. Inspecting(w)'
    BY <1>0, <1>3, <1>6 DEF Sound, Inspecting, Away
  <2>3. Standing(w)'
    BY <1>0, <1>3, <1>6, <2>1 DEF Sound, Standing, Restores, Evicts
  <2> QED BY <2>2, <2>3
<1>10. Ready(w)' /\ InPlace(w)' /\ Requested(w)'
  <2>1. lock[w].pc \notin Evicts
    BY <1>0, <1>1, <1>5 DEF Sound, Ready, Window
  <2>2. Ready(w)'
    BY <1>3, <1>6, <2>1 DEF Ready, Away
  <2>3. InPlace(w)'
    <3>1. ~Holds(s)'
      BY <1>2, <1>3, <1>6 DEF Holds
    <3>2. \A r \in Sandbox \ {s} : sb'[r].ws = w /\ Holds(r)' => sb[r].ws = w /\ Holds(r)
      BY <1>2, <1>3, <1>6 DEF Holds
    <3> QED BY <1>0, <1>3, <3>1, <3>2 DEF Sound, InPlace
  <2>4. Requested(w)'
    BY <1>0, <1>3, <1>5 DEF Sound, Requested
  <2> QED BY <2>2, <2>3, <2>4
<1>11. w \in Ephemeral => Transient(w)' /\ Alone(w)'
  <2>1. SUFFICES ASSUME w \in Ephemeral PROVE Transient(w)' /\ Alone(w)'
    OBVIOUS
  <2>2. Transient(w)'
    BY <1>0, <1>6, <2>1 DEF Sound, Transient
  <2>3. Alone(w)'
    <3>1. Alone(w)
      BY <1>0, <2>1 DEF Sound
    <3>2. w \notin drop /\ \A r \in Sandbox : sb[r].ws # w
      BY <1>1, <1>5, <3>1 DEF Alone, Before, Window
    <3>3. \A r \in Sandbox : cr'[r].ws = w => cr[r].ws = w
      BY <1>4, <1>0 DEF Fewer
    <3>4. \A r \in Sandbox : cr'[r].ws = w => r = s
      BY <1>5, <3>1, <3>3 DEF Alone
    <3>5. \A r \in Sandbox : sb'[r].ws = w => r = s
      BY <1>6, <3>2
    <3>6. cr'[s].pc \notin Before
      BY <1>2 DEF Before, Window
    <3> QED BY <1>3, <1>6, <3>2, <3>4, <3>5, <3>6 DEF Alone, Exists
  <2> QED BY <2>2, <2>3
<1> QED BY <1>0, <1>7, <1>8, <1>9, <1>10, <1>11, OneWorkspace DEF Sound, ContentInv

\* A creation that ends before its claim has left no sandbox on the workspace.
LEMMA GivenUp ==
  ASSUME ContentInv, NEW s \in Sandbox, NEW w \in Workspace, cr[s].ws = w, cr[s].pc \in Before,
         cr' = [cr EXCEPT ![s] = NoCreate], drop' = drop \cup ({w} \cap Ephemeral),
         UNCHANGED <<sb, cont, mk>>
  PROVE  /\ \A v \in Workspace : Settled(v)
         /\ \A v \in Workspace \ {w} : Calm(v)
         /\ w \in Ephemeral /\ SameRow(w) => Alone(w)'
<1>0. Inv /\ Sound(w) /\ cr \in [Sandbox -> [pc : CreatePc, ws : Workspace \cup {None}]]
  BY InvTypes DEF ContentInv, StorageInv, AllSound, RequestTypeOK
<1>1. cr'[s] = NoCreate /\ \A r \in Sandbox \ {s} : cr'[r] = cr[r]
  BY <1>0
<1>2. \A v \in Workspace : Fewer(v)
  BY <1>1, StoreAssumption DEF Fewer, NoCreate
<1>3. \A v \in Workspace : NoneNew(v)
  BY <1>1 DEF NoneNew, Holds, NoCreate
<1>4. (\A v \in Workspace : Settled(v)) /\ \A v \in Workspace \ {w} : Calm(v)
  BY <1>2, <1>3 DEF Settled, Calm
<1>5. ASSUME w \in Ephemeral, SameRow(w) PROVE Alone(w)'
  <2>1. Alone(w)
    BY <1>0, <1>5 DEF Sound
  <2>2. \A r \in Sandbox : sb[r].ws # w
    BY <2>1 DEF Alone
  <2>3. \A r \in Sandbox : cr'[r].ws # w
    <3>1. \A r \in Sandbox \ {s} : cr[r].ws # w
      BY <2>1 DEF Alone
    <3> QED BY <1>1, <3>1, StoreAssumption DEF NoCreate
  <2>4. ws[w].status # "running"
    BY <2>2, <1>0 DEF Inv, StoreInv, WriterBinding, WorkspaceBound, StoreTypeOK, WsRow
  <2> QED BY <1>5, <2>2, <2>3, <2>4 DEF Alone, SameRow
<1> QED BY <1>4, <1>5

LEMMA GivingUp ==
  ASSUME ContentInv, NEW s \in Sandbox, PrepareContainerFails(s) \/ ClaimRefused(s)
  PROVE  StaysSound
<1>1. PICK w \in Workspace : cr[s].ws = w
  BY CreationFacts DEF PrepareContainerFails, ClaimRefused
<1>2. /\ cr' = [cr EXCEPT ![s] = NoCreate] /\ drop' = drop \cup ({w} \cap Ephemeral)
      /\ cr[s].pc \in Before
      /\ UNCHANGED <<ws, sb, lock, vol, latest, boot, cont, mk>>
  BY <1>1 DEF PrepareContainerFails, ClaimRefused, CreateGivesUp, Before, Window, storeVars,
     dockerVars, ghostVars
<1>3. \A v \in Workspace : Still(v)
  BY <1>2 DEF Still, SameRow, SameData, SameBoot
<1>4. /\ \A v \in Workspace : Settled(v)
      /\ \A v \in Workspace \ {w} : Calm(v)
      /\ w \in Ephemeral => Alone(w)'
  BY <1>1, <1>2, <1>3, GivenUp DEF Still
<1>5. Sound(w)'
  BY <1>3, <1>4, SettledKeeps DEF ContentInv, AllSound
<1> QED BY <1>3, <1>4, <1>5, OneWorkspace DEF ContentInv

-----------------------------------------------------------------------------
(* The end of a sandbox: its row is finished, and the workspace's row with *)
(* it if it is still the writer.                                           *)
LEMMA FinishedRows ==
  ASSUME Inv, NEW s \in Sandbox, NEW w \in Workspace, sb[s].ws = w, NEW st,
         FinishSandbox(s, st, FinishedStatus(w))
  PROVE  /\ \A v \in Workspace \ {w} : ws'[v] = ws[v]
         /\ ws[w].active # s => ws'[w] = ws[w]
         /\ ws[w].active = s => /\ ws[w].status = "running"
                                /\ ws'[w].head = ws[w].head /\ ws'[w].active = None
                                /\ ws'[w].status = FinishedStatus(w)
         /\ \A r \in Sandbox : sb'[r].ws = sb[r].ws
<1> DEFINE row == [ws[w] EXCEPT !.status = FinishedStatus(w), !.active = None, !.aged = FALSE]
<1>1. row.status = FinishedStatus(w) /\ row.active = None /\ row.head = ws[w].head
  BY Rows DEF WsRow
<1>2. \A v \in Workspace : ws'[v] = IF v = w /\ ws[w].active = s THEN row ELSE ws[v]
  BY Zenon DEF FinishSandbox
<1> HIDE DEF row
<1>3. ws[w].active = s => ws[w].status = "running"
  BY StoreAssumption DEF Inv, StoreInv, WriterBinding, WorkspaceBound
<1>4. \A r \in Sandbox : sb'[r].ws = sb[r].ws
  <2> DEFINE srow == [sb[s] EXCEPT !.status = st, !.lease = "none"]
  <2>1. sb \in [Sandbox -> SbRow]
    BY InvTypes DEF StoreTypeOK
  <2>2. srow.ws = sb[s].ws
    BY <2>1 DEF SbRow
  <2>3. sb' = [sb EXCEPT ![s] = srow]
    BY Zenon DEF FinishSandbox
  <2> HIDE DEF srow
  <2> QED BY <2>1, <2>2, <2>3
<1> QED BY <1>1, <1>2, <1>3, <1>4

LEMMA FinishedContent ==
  ASSUME ContentInv, NEW s \in Sandbox, NEW w \in Workspace, sb[s].ws = w, NEW st,
         FinishSandbox(s, st, FinishedStatus(w)),
         UNCHANGED <<lock, vol, latest, mk, boot>>,
         \A r \in Sandbox : Onward(r) /\ (Holds(r)' => Holds(r)),
         drop' \subseteq drop \cup ({w} \cap Ephemeral)
  PROVE  StaysSound
<1>0. Inv /\ Sound(w)
  BY DEF ContentInv, StorageInv, AllSound
<1>1. /\ \A v \in Workspace \ {w} : ws'[v] = ws[v]
      /\ ws[w].active # s => ws'[w] = ws[w]
      /\ ws[w].active = s => /\ ws[w].status = "running"
                             /\ ws'[w].head = ws[w].head /\ ws'[w].active = None
                             /\ ws'[w].status = FinishedStatus(w)
      /\ \A r \in Sandbox : sb'[r].ws = sb[r].ws
  BY <1>0, FinishedRows
<1>2. \A v \in Workspace : Settled(v)
  <2>1. \A v \in Workspace : Fewer(v)
    BY StoreAssumption DEF Onward, Fewer, NoCreate
  <2>2. \A v \in Workspace : NoneNew(v)
    BY <1>1 DEF NoneNew
  <2> QED BY <2>1, <2>2 DEF Settled
<1>3. \A v \in Workspace \ {w} : Still(v) /\ Calm(v)
  BY <1>1, <1>2 DEF Still, SameRow, SameData, SameBoot, Calm
<1>4. w \in Ephemeral => Alone(w)'
  <2>1. SUFFICES ASSUME w \in Ephemeral PROVE Alone(w)'
    OBVIOUS
  <2>2. Alone(w)
    BY <1>0, <2>1 DEF Sound
  <2>3. /\ \A r \in Sandbox : cr'[r].ws = w => cr[r].ws = w /\ cr[r].pc \notin Before
        /\ \A r \in Sandbox : cr'[r].ws = w => cr'[r].pc \notin Before
    BY <1>2, <2>2 DEF Alone, Settled, Fewer
  <2>4. ws[w].active = s => ws'[w].status = "deleting" /\ ws'[w].active = None
    BY <1>1, <2>1 DEF FinishedStatus
  <2>5. ws[w].active # s => ws'[w] = ws[w] /\ ws[w].status # "running"
    BY <1>0, <1>1, <2>2 DEF Alone, Inv, StoreInv, WriterBinding, WorkspaceBound
  <2>6. \A r \in Sandbox : sb'[r].ws = w => sb[r].ws = w
    BY <1>1
  <2> QED BY <2>2, <2>3, <2>4, <2>5, <2>6 DEF Alone, Exists
<1>5. Sound(w)'
  <2>1. CASE ws[w].active # s
    <3>1. Still(w)
      BY <1>1, <2>1 DEF Still, SameRow, SameData, SameBoot
    <3> QED BY <1>0, <1>2, <1>4, <3>1, SettledKeeps
  <2>2. CASE ws[w].active = s
    <3>1. /\ ws'[w].status = IF w \in Ephemeral THEN "deleting" ELSE "detached_dirty"
          /\ ws'[w].head = ws[w].head /\ ws[w].status = "running"
      BY <1>1, <2>2 DEF FinishedStatus
    <3>2. Kept(w)'
      BY <1>0, <3>1 DEF Sound, Kept, Dirty, Away
    <3>3. Inspecting(w)'
      BY <1>0, <3>1 DEF Sound, Inspecting, Away, Transient
    <3>4. Standing(w)'
      BY <1>0, <3>1 DEF Sound, Standing, Restores, Evicts
    <3>5. lock'[w].pc \notin Evicts
      BY <1>0, <3>1 DEF Sound, Standing
    <3>6. Ready(w)' /\ InPlace(w)' /\ Requested(w)'
      BY <1>0, <1>2, <3>1, <3>5, SettledParts DEF Away
    <3>7. w \in Ephemeral => Transient(w)'
      BY <1>0, <3>1 DEF Sound, Transient
    <3> QED BY <1>4, <3>2, <3>3, <3>4, <3>6, <3>7 DEF Sound
  <2> QED BY <2>1, <2>2
<1> QED BY <1>3, <1>5, OneWorkspace DEF ContentInv

LEMMA FinishingCreation ==
  ASSUME ContentInv, NEW s \in Sandbox, FinishFailedCreation(s)
  PROVE  StaysSound
<1>1. PICK w \in Workspace : cr[s].ws = w /\ sb[s].ws = w
  BY CreationFacts DEF FinishFailedCreation
<1>2. FinishSandbox(s, "failed", FinishedStatus(w))
  BY <1>1 DEF FinishFailedCreation
<1>3. /\ UNCHANGED <<lock, vol, latest, mk, boot, cont>> /\ drop' = drop \cup ({w} \cap Ephemeral)
      /\ cr' = [cr EXCEPT ![s] = NoCreate]
  BY <1>1 DEF FinishFailedCreation, CreateGivesUp, dockerVars, ghostVars
<1>4. \A r \in Sandbox : Onward(r) /\ (Holds(r)' => Holds(r))
  BY <1>3, InvTypes DEF Onward, Holds, NoCreate, RequestTypeOK, ContentInv, StorageInv
<1> QED BY <1>1, <1>2, <1>3, <1>4, FinishedContent

LEMMA FinishingTerminated ==
  ASSUME ContentInv, NEW c \in Caller, FinishTerminated(c)
  PROVE  StaysSound
<1>0. Inv
  BY DEF ContentInv, StorageInv
<1>1. PICK s \in Sandbox : term[c].sb = s
  BY <1>0, InvTypes DEF FinishTerminated, RequestTypeOK
<1>2. UNCHANGED <<lock, vol, latest, mk, boot, cont, cr>>
  BY DEF FinishTerminated, dockerVars, ghostVars
<1>3. \A r \in Sandbox : Onward(r) /\ (Holds(r)' => Holds(r))
  BY <1>2 DEF Onward, Holds
<1>4. CASE UNCHANGED <<ws, sb, drop>>
  <2>1. \A v \in Workspace : Calm(v)
    BY <1>2, <1>3, <1>4, CalmStep
  <2> QED BY <1>2, <1>4, <2>1, QuietContent DEF SameRow, ContentInv
<1>5. CASE sb[s].ws # None
  <2>1. PICK w \in Workspace : sb[s].ws = w
    BY <1>0, <1>5, InvTypes DEF StoreTypeOK, SbRow
  <2>2. CASE FinishSandbox(s, "terminated", FinishedStatus(w)) /\ drop' \subseteq drop \cup ({w} \cap Ephemeral)
    BY <1>2, <1>3, <2>1, <2>2, FinishedContent
  <2> QED BY <1>1, <1>4, <1>5, <2>1, <2>2 DEF FinishTerminated, storeVars
<1> QED BY <1>1, <1>4, <1>5 DEF FinishTerminated, storeVars

-----------------------------------------------------------------------------
(* New workspaces and new creations. *)
LEMMA NoHolder ==
  ASSUME ContentInv, NEW w \in Workspace, ws[w].status # "running"
  PROVE  \A s \in Sandbox : sb[s].ws = w => ~Holds(s)
<1>1. \A s \in Sandbox : IsActive(s) /\ sb[s].ws = w => ws[w].active = s
  BY DEF ContentInv, StorageInv, Inv, StoreInv, WriterBinding, SandboxBound
<1>2. \A s \in Sandbox : ws[w].active # s
  BY StoreAssumption DEF ContentInv, StorageInv, Inv, StoreInv, WriterBinding, WorkspaceBound
<1>3. \A s \in Sandbox : Holds(s) => IsActive(s)
  BY DEF ContentInv, StorageInv, Inv, Ownership, CreationOwned, ContainersAreActive, Holds,
         IsActive, ActiveStatus
<1> QED BY <1>1, <1>2, <1>3

LEMMA NewWorkspace ==
  ASSUME ContentInv, NEW w \in Workspace, FreshWorkspace(w), CreateWorkspace(w)
  PROVE  /\ ws'[w].status = "detached_clean" /\ ws'[w].head = None /\ ws'[w].active = None
         /\ \A v \in Workspace \ {w} : ws'[v] = ws[v]
         /\ sb' = sb
         /\ vol[w] = None /\ latest[w] = 0 /\ lock[w].pc = "free"
         /\ ws[w].status = "absent"
         /\ w \notin drop \cup mk /\ \A s \in Sandbox : cr[s].ws # w
<1>0. Inv /\ Sound(w) /\ Guarded(w)
  BY DEF ContentInv, StorageInv, AllSound
<1>1. ws[w].status = "absent" /\ vol[w] = None /\ IsFree(w) /\ w \notin drop \cup mk
      /\ \A s \in Sandbox : cr[s].ws # w
  BY DEF FreshWorkspace, Exists
<1>2. ws' = [ws EXCEPT ![w] = [NoWorkspace EXCEPT !.status = "detached_clean"]] /\ sb' = sb
  BY <1>1 DEF CreateWorkspace, Exists
<1>3. latest[w] = 0 /\ lock[w].pc = "free"
  BY <1>0, <1>1 DEF Sound, Kept, Guarded
<1> QED BY <1>0, <1>1, <1>2, <1>3, Rows DEF NoWorkspace

LEMMA RequestingWorkspace ==
  ASSUME ContentInv, NEW w \in Workspace, RequestWorkspace(w)
  PROVE  StaysSound
<1>1. /\ UNCHANGED <<lock, vol, latest, boot, cr, cont, drop>> /\ mk' = mk \cup {w}
      /\ w \notin Ephemeral
  BY DEF RequestWorkspace, dockerVars, ghostVars
<1>2. /\ ws'[w].status = "detached_clean" /\ ws'[w].head = None /\ ws'[w].active = None
      /\ \A v \in Workspace \ {w} : ws'[v] = ws[v]
      /\ sb' = sb
      /\ vol[w] = None /\ latest[w] = 0 /\ lock[w].pc = "free"
      /\ ws[w].status = "absent"
      /\ w \notin drop \cup mk /\ \A s \in Sandbox : cr[s].ws # w
  BY NewWorkspace DEF RequestWorkspace
<1>3. \A v \in Workspace \ {w} : Still(v) /\ Calm(v)
  <2>1. \A v \in Workspace : Fewer(v) /\ NoneNew(v)
    BY <1>1, <1>2 DEF Fewer, NoneNew, Holds
  <2> QED BY <1>1, <1>2, <2>1 DEF Still, SameRow, SameData, SameBoot, Calm, Settled
<1>4. Kept(w)' /\ Inspecting(w)' /\ Standing(w)' /\ Ready(w)' /\ Requested(w)'
  BY <1>1, <1>2 DEF Kept, Dirty, Away, Inspecting, Standing, Restores, Evicts, Ready, Requested
<1>5. InPlace(w)'
  BY <1>1, <1>2, NoHolder DEF InPlace, Holds
<1> QED BY <1>1, <1>3, <1>4, <1>5, OneWorkspace DEF Sound, ContentInv

LEMMA RequestingSandbox ==
  ASSUME ContentInv, NEW s \in Sandbox, NEW w \in Workspace, RequestSandbox(s, w)
  PROVE  StaysSound
<1>0. Inv /\ Sound(w) /\ cr \in [Sandbox -> [pc : CreatePc, ws : Workspace \cup {None}]]
  BY InvTypes DEF ContentInv, StorageInv, AllSound, RequestTypeOK
<1>1. /\ UNCHANGED <<lock, vol, latest, boot, cont, drop, mk, repo>>
      /\ cr' = [cr EXCEPT ![s] = [pc |-> "prepare", ws |-> w]]
  BY DEF RequestSandbox, dockerVars, ghostVars
<1>2. cr'[s].pc = "prepare" /\ cr'[s].ws = w /\ \A r \in Sandbox \ {s} : cr'[r] = cr[r]
  BY <1>0, <1>1
<1>3. /\ \A v \in Workspace \ {w} : ws'[v] = ws[v]
      /\ sb' = sb
  <2>1. CASE UNCHANGED storeVars
    BY <2>1 DEF storeVars
  <2>2. CASE FreshWorkspace(w) /\ CreateWorkspace(w)
    BY <2>2, NewWorkspace
  <2> QED BY <2>1, <2>2 DEF RequestSandbox
<1>4. \A r \in Sandbox : Holds(r)' => Holds(r)
  BY <1>1, <1>2 DEF Holds
<1>5. \A v \in Workspace \ {w} : Still(v) /\ Calm(v)
  <2>1. \A v \in Workspace \ {w} : Fewer(v) /\ NoneNew(v)
    BY <1>2, <1>3, <1>4 DEF Fewer, NoneNew
  <2> QED BY <1>1, <1>3, <2>1 DEF Still, SameRow, SameData, SameBoot, Calm, Settled
<1>6. w \notin mk
  BY DEF RequestSandbox, FreshWorkspace
<1>7. CASE UNCHANGED storeVars /\ w \notin Ephemeral
  <2>1. Still(w)
    BY <1>1, <1>7 DEF Still, SameRow, SameData, SameBoot, storeVars
  <2>2. Kept(w)' /\ Inspecting(w)' /\ Standing(w)'
    BY <1>0, <2>1, SameParts DEF Still
  <2>3. Ready(w)'
    BY <1>0, <1>1, <1>2, <1>7 DEF Sound, Ready, Window, storeVars
  <2>4. InPlace(w)' /\ Requested(w)'
    BY <1>0, <1>1, <1>3, <1>4, <1>6 DEF Sound, InPlace, Requested
  <2> QED BY <1>5, <1>7, <2>2, <2>3, <2>4, OneWorkspace DEF Sound, ContentInv
<1>8. CASE w \in Ephemeral /\ FreshWorkspace(w) /\ CreateWorkspace(w)
  <2>1. /\ ws'[w].status = "detached_clean" /\ ws'[w].head = None /\ ws'[w].active = None
        /\ vol[w] = None /\ latest[w] = 0 /\ lock[w].pc = "free"
        /\ ws[w].status = "absent"
        /\ w \notin drop \cup mk /\ \A r \in Sandbox : cr[r].ws # w
    BY <1>8, NewWorkspace
  <2>2. Kept(w)' /\ Inspecting(w)' /\ Standing(w)' /\ Requested(w)'
    BY <1>1, <2>1 DEF Kept, Dirty, Away, Inspecting, Standing, Restores, Evicts, Requested
  <2>3. Ready(w)'
    BY <1>2, <2>1 DEF Ready, Window
  <2>4. InPlace(w)'
    BY <1>1, <1>3, <1>4, <2>1, NoHolder DEF InPlace
  <2>5. Transient(w)'
    BY <2>1 DEF Transient
  <2>6. Alone(w)'
    <3>1. \A r \in Sandbox : sb[r].ws # w
      BY <1>0, <1>8, <2>1 DEF Sound, Alone, Exists
    <3> QED BY <1>1, <1>2, <1>3, <2>1, <3>1 DEF Alone, Exists
  <2> QED BY <1>5, <2>2, <2>3, <2>4, <2>5, <2>6, OneWorkspace DEF Sound, ContentInv
<1> QED BY <1>7, <1>8 DEF RequestSandbox

-----------------------------------------------------------------------------
(* The holder of the lock: it takes it, moves on, and gives it back. *)
LEMMA LockMoved ==
  ASSUME ContentInv, NEW w \in Workspace,
         \A v \in Workspace \ {w} : Still(v) /\ Calm(v),
         SameRow(w), SameData(w), Settled(w), w \in Ephemeral => Alone(w)',
         Inspecting(w)', Standing(w)', lock'[w].pc \in Evicts => lock[w].pc \in Evicts
  PROVE  StaysSound
<1>0. Sound(w)
  BY DEF ContentInv, AllSound
<1>1. Kept(w)' /\ (w \in Ephemeral => Transient(w)')
  BY <1>0, SameParts DEF Sound
<1>2. Ready(w)' /\ InPlace(w)' /\ Requested(w)'
  BY <1>0, SettledParts DEF SameRow, SameData
<1> QED BY <1>1, <1>2, OneWorkspace DEF Sound, ContentInv

\* What a lock is after each kind of move.
LEMMA TakenLock ==
  ASSUME Inv, NEW w \in Workspace, NEW by, NEW pc, NEW rev, LockTaken(w, by, pc, rev)
  PROVE  /\ lock'[w].pc = pc /\ lock'[w].cur = ws[w] /\ lock'[w].by = by /\ lock'[w].rev = rev
         /\ \A v \in Workspace \ {w} : lock'[v] = lock[v]
BY InvTypes DEF LockTaken, LockTypeOK

LEMMA MovedLock ==
  ASSUME Inv, NEW w \in Workspace, NEW pc, Goto(w, pc)
  PROVE  /\ lock'[w].pc = pc /\ lock'[w].cur = lock[w].cur /\ lock'[w].rev = lock[w].rev
         /\ \A v \in Workspace \ {w} : lock'[v] = lock[v]
BY InvTypes DEF Goto, LockTypeOK, LockRow

LEMMA FreedLock ==
  ASSUME Inv, NEW w \in Workspace, Unlock(w)
  PROVE  lock'[w].pc = "free" /\ \A v \in Workspace \ {w} : lock'[v] = lock[v]
BY InvTypes DEF Unlock, LockTypeOK, Free

LEMMA FreedParts ==
  ASSUME NEW w \in Workspace, lock'[w].pc = "free"
  PROVE  Inspecting(w)' /\ (ws'[w].status # "restoring" => Standing(w)')
BY DEF Inspecting, Standing, Restores, Evicts

\* A free lock is taken to prepare the workspace.
LEMMA InspectionStarts ==
  ASSUME ContentInv, NEW w \in Workspace, NEW by, NEW rev, IsFree(w), boot = "up", UNCHANGED boot,
         LockTaken(w, by, "inspect", rev), UNCHANGED <<ws, sb, vol, latest>>,
         \A v \in Workspace : Calm(v)
  PROVE  StaysSound
<1>0. Inv /\ Sound(w) /\ Guarded(w)
  BY DEF ContentInv, StorageInv, AllSound
<1>1. /\ lock'[w].pc = "inspect" /\ lock'[w].cur = ws[w]
      /\ \A v \in Workspace \ {w} : lock'[v] = lock[v]
  BY <1>0, TakenLock
<1>2. ws[w].status # "restoring"
  BY <1>0 DEF Sound, Standing, Guarded, Restores
<1>3. ws[w].active # None => ws[w].status = "running"
  BY <1>0 DEF Inv, StoreInv, WriterBinding, WorkspaceBound
<1>4. Inspecting(w)' /\ Standing(w)'
  BY <1>1, <1>2, <1>3 DEF Inspecting, Standing, Away, Restores, Evicts
<1>5. \A v \in Workspace : SameRow(v) /\ SameData(v) /\ SameBoot(v)
  BY DEF SameRow, SameData, SameBoot
<1>6. w \in Ephemeral => Alone(w)'
  BY <1>0, <1>5, SettledParts DEF Calm
<1> QED BY <1>1, <1>4, <1>5, <1>6, LockMoved DEF Still, Calm, Evicts

LEMMA LockingForCreate ==
  ASSUME ContentInv, NEW s \in Sandbox, LockForCreate(s)
  PROVE  StaysSound
<1>0. Inv /\ cr \in [Sandbox -> [pc : CreatePc, ws : Workspace \cup {None}]]
  BY InvTypes DEF ContentInv, StorageInv, RequestTypeOK
<1>1. PICK w \in Workspace : cr[s].ws = w
  BY CreationFacts DEF LockForCreate
<1>2. /\ UNCHANGED <<ws, sb, vol, latest, boot, drop, mk, cont>>
      /\ cr[s].pc = "prepare" /\ IsFree(w)
  BY <1>1 DEF LockForCreate, storeVars, dockerVars, ghostVars
<1>3. cr' = [cr EXCEPT ![s].pc = "locked"] \/ cr' = [cr EXCEPT ![s] = NoCreate]
  BY DEF LockForCreate
<1>4. \A r \in Sandbox : Onward(r) /\ (Holds(r)' => Holds(r))
  BY <1>0, <1>2, <1>3 DEF Onward, Holds, NoCreate, Window, Before
<1>5. \A v \in Workspace : Calm(v)
  BY <1>2, <1>4, CalmStep
<1>6. boot = "up"
  BY <1>0, <1>2 DEF Inv, Ownership
<1>7. CASE LockTaken(w, s, "inspect", 0)
  BY <1>2, <1>5, <1>6, <1>7, InspectionStarts
<1>8. CASE UNCHANGED lock
  BY <1>2, <1>5, <1>8, QuietContent DEF SameRow, ContentInv
<1> QED BY <1>1, <1>7, <1>8 DEF LockForCreate

LEMMA LockingForRestore ==
  ASSUME ContentInv, NEW w \in Workspace, NEW rev \in Revision, LockForRestore(w, rev)
  PROVE  StaysSound
<1>1. /\ UNCHANGED <<ws, sb, vol, latest, boot, drop, mk, cont, cr>>
      /\ IsFree(w) /\ sched # {}
  BY DEF LockForRestore, storeVars, dockerVars, ghostVars
<1>2. \A v \in Workspace : Calm(v)
  BY <1>1, CalmStep DEF Onward, Holds
<1>3. boot = "up"
  BY <1>1 DEF ContentInv, StorageInv, BootQuiet
<1>4. CASE LockTaken(w, "restore", "inspect", rev)
  BY <1>1, <1>2, <1>3, <1>4, InspectionStarts
<1>5. CASE UNCHANGED lock
  BY <1>1, <1>2, <1>5, QuietContent DEF SameRow, ContentInv
<1> QED BY <1>4, <1>5 DEF LockForRestore

\* Leaving _prepare_workspace: what it means for creations.
LEMMA RaisedCreation ==
  ASSUME ContentInv, NEW w \in Workspace, NEW o, PrepareRaises(w, o), UNCHANGED <<sb, cont, mk>>
  PROVE  /\ lock'[w].pc = "free" /\ \A v \in Workspace \ {w} : lock'[v] = lock[v]
         /\ \A v \in Workspace : Settled(v)
         /\ \A v \in Workspace \ {w} : Calm(v)
         /\ w \in Ephemeral /\ SameRow(w) => Alone(w)'
<1>0. Inv /\ Sound(w)
  BY DEF ContentInv, StorageInv, AllSound
<1>1. lock'[w].pc = "free" /\ \A v \in Workspace \ {w} : lock'[v] = lock[v]
  BY <1>0, FreedLock DEF PrepareRaises
<1>2. CASE UNCHANGED <<cr, drop>>
  <2>1. \A v \in Workspace : Calm(v)
    BY <1>2, CalmStep DEF Onward, Holds
  <2>2. w \in Ephemeral /\ SameRow(w) => Alone(w)'
    BY <1>0, <1>2, <2>1, SettledParts DEF Calm
  <2> QED BY <1>1, <2>1, <2>2 DEF Calm
<1>3. ASSUME NEW s \in Sandbox, lock[w].by = s, cr' = [cr EXCEPT ![s] = NoCreate],
             drop' = drop \cup ({w} \cap Ephemeral)
      PROVE  /\ \A v \in Workspace : Settled(v)
             /\ \A v \in Workspace \ {w} : Calm(v)
             /\ w \in Ephemeral /\ SameRow(w) => Alone(w)'
  <2>1. cr[s].pc \in Before /\ cr[s].ws = w
    BY <1>0, <1>3 DEF Inv, Ownership, LockOwned, Before
  <2> QED BY <1>3, <2>1, GivenUp
<1> QED BY <1>1, <1>2, <1>3 DEF PrepareRaises

LEMMA ReturnedCreation ==
  ASSUME ContentInv, NEW w \in Workspace, PrepareReturns(w), UNCHANGED <<sb, cont, drop, mk>>
  PROVE  /\ lock'[w].pc = "free" /\ \A v \in Workspace \ {w} : lock'[v] = lock[v]
         /\ \A v \in Workspace \ {w} : Calm(v)
         /\ (vol[w] # None => vol'[w] # None) => InPlace(w)'
         /\ latest'[w] = latest[w] /\ (ws'[w].status = "running" => ws[w].status = "running")
               => Requested(w)'
         /\ w \in Ephemeral /\ SameRow(w) => Alone(w)'
<1>0. Inv /\ Sound(w) /\ cr \in [Sandbox -> [pc : CreatePc, ws : Workspace \cup {None}]]
  BY InvTypes DEF ContentInv, StorageInv, AllSound, RequestTypeOK
<1>1. lock'[w].pc = "free" /\ \A v \in Workspace \ {w} : lock'[v] = lock[v]
  BY <1>0, FreedLock DEF PrepareReturns
<1>2. \A s \in Sandbox : cr'[s] = cr[s] \/ (/\ cr[s].ws = w /\ cr'[s].ws = w
                                            /\ cr[s].pc = "locked" /\ cr'[s].pc = "mount")
  BY <1>0 DEF PrepareReturns, Inv, Ownership, LockOwned
<1>3. \A s \in Sandbox : Holds(s)' => Holds(s)
  BY <1>2 DEF Holds
<1>4. \A v \in Workspace \ {w} : Calm(v)
  BY <1>2, <1>3 DEF Calm, Settled, Fewer, NoneNew
<1>5. ASSUME vol[w] # None => vol'[w] # None PROVE InPlace(w)'
  BY <1>0, <1>3, <1>5 DEF Sound, InPlace
<1>6. ASSUME latest'[w] = latest[w], ws'[w].status = "running" => ws[w].status = "running"
      PROVE  Requested(w)'
  BY <1>0, <1>2, <1>6 DEF Sound, Requested
<1>7. ASSUME w \in Ephemeral, SameRow(w) PROVE Alone(w)'
  <2>1. Alone(w)
    BY <1>0, <1>7 DEF Sound
  <2>2. \A s \in Sandbox : cr'[s].ws = cr[s].ws /\ (cr'[s].pc \in Before => cr[s].pc \in Before)
    BY <1>2 DEF Before
  <2> QED BY <1>7, <2>1, <2>2 DEF Alone, SameRow, Exists
<1> QED BY <1>1, <1>4, <1>5, <1>6, <1>7

-----------------------------------------------------------------------------
(* _prepare_workspace, on a workspace that is away or being restored. *)
LEMMA OthersAreStill ==
  ASSUME NEW w \in Workspace, UNCHANGED boot,
         \A v \in Workspace \ {w} : /\ ws'[v] = ws[v] /\ lock'[v] = lock[v]
                                    /\ vol'[v] = vol[v] /\ latest'[v] = latest[v]
  PROVE  \A v \in Workspace \ {w} : Still(v)
BY DEF Still, SameRow, SameData, SameBoot

LEMMA MovedRow ==
  ASSUME Inv, NEW w \in Workspace, NEW e, NEW st, TransitionWorkspace(w, e, st)
  PROVE  /\ ws[w].status \in e /\ ws'[w].status = st
         /\ ws'[w].head = ws[w].head /\ ws'[w].active = ws[w].active
         /\ sb' = sb /\ \A v \in Workspace \ {w} : ws'[v] = ws[v]
BY InvTypes DEF TransitionWorkspace, TransitionOK, WsRow

\* The volume of one workspace is removed, or not.
LEMMA RemovedVolume ==
  ASSUME Inv, NEW w \in Workspace, RemoveVolume(w)
  PROVE  /\ \A v \in Workspace \ {w} : vol'[v] = vol[v]
         /\ vol'[w] \in {None, vol[w]}
BY InvTypes DEF RemoveVolume, RemovableVolumes, DataTypeOK

LEMMA MountedVolume ==
  ASSUME Inv, NEW w \in Workspace, vol' = Mounted(w)
  PROVE  /\ \A v \in Workspace \ {w} : vol'[v] = vol[v]
         /\ vol'[w] = IF vol[w] = None THEN 0 ELSE vol[w]
         /\ vol'[w] # None
<1>1. 0 # None
  BY EmptyVolume, StoreAssumption
<1> QED BY <1>1, InvTypes DEF Mounted, DataTypeOK

\* A row that is not 'running' has no writer, so its transition is allowed.
LEMMA NoWriter ==
  ASSUME Inv, NEW w \in Workspace, ws[w].status # "running"
  PROVE  ws[w].active = None /\ \A e : ws[w].status \in e => TransitionOK(w, e)
BY DEF Inv, StoreInv, WriterBinding, WorkspaceBound, TransitionOK

LEMMA AwayMoves ==
  ASSUME ContentInv, NEW w \in Workspace, ws[w].status \in Away, ws'[w].status \in Away,
         ws'[w].head = ws[w].head, latest'[w] = latest[w], Settled(w),
         \A v \in Workspace \ {w} : Still(v) /\ Calm(v),
         Inspecting(w)', Standing(w)'
  PROVE  StaysSound
<1>0. Sound(w) /\ ws[w].status # "running" /\ ws'[w].status # "running"
  BY DEF ContentInv, AllSound, Away
<1>1. Kept(w)'
  BY <1>0 DEF Sound, Kept, Away, Dirty
<1>2. Ready(w)'
  BY <1>0 DEF Sound, Ready, Settled, Fewer
<1>3. InPlace(w)'
  BY <1>0, NoHolder DEF InPlace, Settled, NoneNew
<1>4. Requested(w)'
  BY <1>0, SettledParts
<1>5. w \notin Ephemeral
  BY <1>0 DEF Sound, Transient, Away
<1> QED BY <1>1, <1>2, <1>3, <1>4, <1>5, OneWorkspace DEF Sound, ContentInv

\* Steps that leave creations, containers and requests alone are calm.
LEMMA CalmHolder ==
  ASSUME UNCHANGED <<cr, cont, drop, mk, sb>>
  PROVE  \A v \in Workspace : Calm(v) /\ Settled(v)
BY CalmStep DEF Onward, Holds, Calm

LEMMA AwayGoes ==
  ASSUME ContentInv, NEW w \in Workspace, NEW pc, ws[w].status \in Away, ws'[w].status \in Away,
         ws'[w].head = ws[w].head, lock[w].pc # "free", Goto(w, pc),
         pc \in {"clear", "ensure", "restore", "restored", "rollback"},
         UNCHANGED <<boot, latest, cr, cont, drop, mk, sb>>,
         \A v \in Workspace \ {w} : ws'[v] = ws[v] /\ vol'[v] = vol[v],
         pc \in {"clear", "ensure"} => ws'[w].status = "remote_only",
         pc \in Restores => ws'[w].status = "restoring",
         pc = "restored" => vol'[w] = ws[w].head /\ vol'[w] # None
  PROVE  StaysSound
<1>0. Inv /\ Sound(w)
  BY DEF ContentInv, StorageInv, AllSound
<1>1. /\ lock'[w].pc = pc /\ lock'[w].cur = lock[w].cur
      /\ \A v \in Workspace \ {w} : lock'[v] = lock[v]
  BY <1>0, MovedLock
<1>2. \A v \in Workspace \ {w} : Still(v)
  BY <1>1, OthersAreStill
<1>3. \A v \in Workspace : Calm(v) /\ Settled(v)
  BY CalmHolder
<1>4. Inspecting(w)'
  BY <1>0, <1>1 DEF Sound, Inspecting
<1>5. Standing(w)'
  BY <1>1 DEF Standing, Restores, Evicts, Away
<1> QED BY <1>2, <1>3, <1>4, <1>5, AwayMoves

LEMMA InspectingRemote ==
  ASSUME ContentInv, NEW w \in Workspace, InspectRemote(w)
  PROVE  StaysSound
<1>0. Sound(w)
  BY DEF ContentInv, AllSound
<1>1. /\ UNCHANGED <<ws, sb, vol, latest, boot, cr, cont, drop, mk>>
      /\ lock[w].pc = "inspect" /\ lock[w].cur.status = "remote_only" /\ Goto(w, "clear")
  BY DEF InspectRemote, storeVars, dockerVars, ghostVars
<1>2. ws[w].status = "remote_only"
  BY <1>0, <1>1 DEF Sound, Inspecting, Away
<1> QED BY <1>1, <1>2, AwayGoes DEF Away, Restores

LEMMA ClearingTarget ==
  ASSUME ContentInv, NEW w \in Workspace, ClearTarget(w)
  PROVE  StaysSound
<1>0. Sound(w) /\ Inv
  BY DEF ContentInv, StorageInv, AllSound
<1>1. /\ UNCHANGED <<ws, sb, latest, boot, cr, cont, drop, mk>>
      /\ lock[w].pc = "clear" /\ Goto(w, "ensure")
      /\ \A v \in Workspace \ {w} : vol'[v] = vol[v]
  BY <1>0, RemovedVolume DEF ClearTarget, storeVars, ghostVars
<1>2. ws[w].status = "remote_only"
  BY <1>0, <1>1 DEF Sound, Standing
<1> QED BY <1>1, <1>2, AwayGoes DEF Away, Restores

LEMMA EnsuringTarget ==
  ASSUME ContentInv, NEW w \in Workspace, EnsureTarget(w)
  PROVE  StaysSound
<1>0. Sound(w) /\ Inv
  BY DEF ContentInv, StorageInv, AllSound
<1>1. /\ UNCHANGED <<latest, boot, cr, cont, drop, mk>>
      /\ lock[w].pc = "ensure" /\ vol' = Mounted(w)
  BY DEF EnsureTarget, ghostVars
<1>2. ws[w].status = "remote_only"
  BY <1>0, <1>1 DEF Sound, Standing
<1>3. TransitionOK(w, {"remote_only"})
  BY <1>0, <1>2, NoWriter
<1>4. TransitionWorkspace(w, {"remote_only"}, "restoring") /\ Goto(w, "restore")
  BY <1>3 DEF EnsureTarget
<1>5. /\ ws'[w].status = "restoring" /\ ws'[w].head = ws[w].head
      /\ sb' = sb /\ \A v \in Workspace \ {w} : ws'[v] = ws[v] /\ vol'[v] = vol[v]
  BY <1>0, <1>1, <1>4, MovedRow, MountedVolume
<1> QED BY <1>1, <1>2, <1>4, <1>5, AwayGoes DEF Away, Restores

LEMMA RunningRestore ==
  ASSUME ContentInv, NEW w \in Workspace, RunRestore(w)
  PROVE  StaysSound
<1>0. Sound(w) /\ Inv /\ vol \in [Workspace -> Content] /\ repo \in [Workspace -> SUBSET Revision]
  BY InvTypes DEF ContentInv, StorageInv, AllSound, DataTypeOK
<1>1. /\ UNCHANGED <<ws, sb, latest, boot, cr, cont, drop, mk>> /\ lock[w].pc = "restore"
  BY DEF RunRestore, storeVars, ghostVars
<1>2. ws[w].status = "restoring" /\ ws[w].head = lock[w].cur.head
  BY <1>0, <1>1 DEF Sound, Standing, Inspecting, Restores
<1>3. \A v \in Workspace \ {w} : vol'[v] = vol[v]
  <2>1. CASE vol' = Mounted(w)
    BY <1>0, <2>1, MountedVolume
  <2>2. ASSUME NEW x, vol' = [vol EXCEPT ![w] = x] PROVE \A v \in Workspace \ {w} : vol'[v] = vol[v]
    BY <1>0, <2>2
  <2>3. CASE vol' = [vol EXCEPT ![w] = IF Mounted(w)[w] = 0 THEN Partial ELSE @]
    BY <1>0, <2>3
  <2> QED BY <2>1, <2>2, <2>3 DEF RunRestore
<1>4. CASE Goto(w, "rollback")
  BY <1>1, <1>2, <1>3, <1>4, AwayGoes DEF Away, Restores
<1>5. CASE /\ Goto(w, "restored") /\ lock[w].cur.head \in repo[w]
           /\ vol' = [vol EXCEPT ![w] = lock[w].cur.head]
  <2>1. vol'[w] = ws[w].head /\ vol'[w] # None
    BY <1>0, <1>2, <1>5, StoreAssumption
  <2> QED BY <1>1, <1>2, <1>3, <1>5, <2>1, AwayGoes DEF Away, Restores
<1> QED BY <1>4, <1>5 DEF RunRestore

LEMMA RollingBack ==
  ASSUME ContentInv, NEW w \in Workspace, RollBack(w)
  PROVE  StaysSound
<1>0. Sound(w) /\ Inv
  BY DEF ContentInv, StorageInv, AllSound
<1>1. UNCHANGED <<latest, boot, cont, mk>> /\ lock[w].pc = "rollback"
  BY DEF RollBack, ghostVars
<1>2. ws[w].status = "restoring"
  BY <1>0, <1>1 DEF Sound, Standing, Restores
<1>3. TransitionWorkspace(w, {"restoring"}, "remote_only")
  BY <1>0, <1>2, NoWriter DEF RollBack
<1>4. /\ ws'[w].status = "remote_only" /\ ws'[w].head = ws[w].head
      /\ sb' = sb /\ \A v \in Workspace \ {w} : ws'[v] = ws[v] /\ vol'[v] = vol[v]
  BY <1>0, <1>3, MovedRow, RemovedVolume DEF RollBack
<1>5. /\ lock'[w].pc = "free" /\ \A v \in Workspace \ {w} : lock'[v] = lock[v]
      /\ \A v \in Workspace : Settled(v)
      /\ \A v \in Workspace \ {w} : Calm(v)
  BY <1>1, <1>4, RaisedCreation DEF RollBack
<1>6. \A v \in Workspace \ {w} : Still(v)
  BY <1>1, <1>4, <1>5, OthersAreStill
<1>7. Inspecting(w)' /\ Standing(w)'
  BY <1>4, <1>5, FreedParts
<1> QED BY <1>1, <1>2, <1>4, <1>5, <1>6, <1>7, AwayMoves DEF Away

-----------------------------------------------------------------------------
(* _prepare_workspace raises, goes on, or returns. *)
LEMMA Raising ==
  ASSUME ContentInv, NEW w \in Workspace, NEW o, PrepareRaises(w, o),
         UNCHANGED <<ws, sb, cont, mk, vol, latest, boot>>, ws[w].status # "restoring"
  PROVE  StaysSound
<1>1. /\ lock'[w].pc = "free" /\ \A v \in Workspace \ {w} : lock'[v] = lock[v]
      /\ \A v \in Workspace : Settled(v)
      /\ \A v \in Workspace \ {w} : Calm(v)
      /\ w \in Ephemeral /\ SameRow(w) => Alone(w)'
  BY RaisedCreation
<1>2. \A v \in Workspace \ {w} : Still(v)
  BY <1>1, OthersAreStill
<1>3. SameRow(w) /\ SameData(w)
  BY DEF SameRow, SameData
<1>4. Inspecting(w)' /\ Standing(w)' /\ lock'[w].pc \notin Evicts
  BY <1>1, FreedParts DEF Evicts
<1> QED BY <1>1, <1>2, <1>3, <1>4, LockMoved

LEMMA PreparingFails ==
  ASSUME ContentInv, NEW w \in Workspace, PrepareFails(w)
  PROVE  StaysSound
<1>1. ws[w].status # "restoring"
  BY DEF PrepareFails, ContentInv, AllSound, Sound, Inspecting, Standing, Away
<1>2. UNCHANGED <<ws, sb, cont, mk, vol, latest, boot>> /\ PrepareRaises(w, ops)
  BY DEF PrepareFails, storeVars, dockerVars, ghostVars
<1> QED BY <1>1, <1>2, Raising

LEMMA InspectingMissing ==
  ASSUME ContentInv, NEW w \in Workspace, InspectMissing(w)
  PROVE  StaysSound
<1>0. Inv /\ Sound(w)
  BY DEF ContentInv, StorageInv, AllSound
<1>1. /\ UNCHANGED <<ws, sb, cont, mk, vol, latest, boot>>
      /\ lock[w].pc = "inspect" /\ lock[w].cur.status # "remote_only"
      /\ lock[w].cur.head = None \/ lock[w].cur.active # None
  BY DEF InspectMissing, storeVars, dockerVars, ghostVars
<1>2. ws[w].status \notin Away
  BY <1>0, <1>1 DEF Sound, Inspecting
<1>3. CASE PrepareRaises(w, ops)
  BY <1>1, <1>2, <1>3, Raising DEF Away
<1>4. CASE Goto(w, "materialize") /\ UNCHANGED <<cr, drop>>
  <2>1. /\ lock'[w].pc = "materialize" /\ lock'[w].cur = lock[w].cur
        /\ \A v \in Workspace \ {w} : lock'[v] = lock[v]
    BY <1>0, <1>4, MovedLock
  <2>2. \A v \in Workspace : Calm(v) /\ Settled(v)
    BY <1>1, <1>4, CalmHolder
  <2>3. \A v \in Workspace \ {w} : Still(v)
    BY <1>1, <2>1, OthersAreStill
  <2>4. SameRow(w) /\ SameData(w)
    BY <1>1 DEF SameRow, SameData
  <2>5. Inspecting(w)' /\ Standing(w)'
    BY <1>0, <1>1, <1>2, <2>1 DEF Sound, Inspecting, Standing, Away, Restores, Evicts
  <2>6. w \in Ephemeral => Alone(w)'
    BY <1>0, <2>2, <2>4, SettledParts DEF Calm
  <2> QED BY <2>1, <2>2, <2>3, <2>4, <2>5, <2>6, LockMoved DEF Evicts
<1> QED BY <1>3, <1>4 DEF InspectMissing

LEMMA InspectingLost ==
  ASSUME ContentInv, NEW w \in Workspace, InspectLost(w)
  PROVE  StaysSound
<1>0. Inv /\ Sound(w)
  BY DEF ContentInv, StorageInv, AllSound
<1>1. /\ UNCHANGED <<cont, mk, vol, latest, boot>>
      /\ lock[w].pc = "inspect" /\ lock[w].cur.status # "remote_only"
      /\ lock[w].cur.head # None /\ vol[w] = None
  BY DEF InspectLost, dockerVars, ghostVars
<1>2. ws[w].status \notin Away /\ ws[w].head # None
  BY <1>0, <1>1 DEF Sound, Inspecting
<1>3. CASE PrepareRaises(w, ops) /\ UNCHANGED storeVars
  BY <1>1, <1>2, <1>3, Raising DEF Away, storeVars
<1>4. CASE /\ TransitionWorkspace(w, {"detached_clean"}, "remote_only")
           /\ Goto(w, "clear") /\ UNCHANGED <<cr, drop>>
  <2>1. /\ lock'[w].pc = "clear" /\ lock'[w].cur = lock[w].cur
        /\ \A v \in Workspace \ {w} : lock'[v] = lock[v]
    BY <1>0, <1>4, MovedLock
  <2>2. /\ ws[w].status = "detached_clean" /\ ws'[w].status = "remote_only"
        /\ ws'[w].head = ws[w].head
        /\ sb' = sb /\ \A v \in Workspace \ {w} : ws'[v] = ws[v]
    BY <1>0, <1>4, MovedRow
  <2>3. \A v \in Workspace : Calm(v) /\ Settled(v)
    BY <1>1, <1>4, <2>2, CalmHolder
  <2>4. \A v \in Workspace \ {w} : Still(v)
    BY <1>1, <2>1, <2>2, OthersAreStill
  <2>5. Inspecting(w)' /\ Standing(w)'
    BY <1>0, <1>1, <2>1, <2>2 DEF Sound, Inspecting, Standing, Away, Restores, Evicts
  <2>6. w \notin Ephemeral
    BY <1>0, <1>2 DEF Sound, Transient
  <2>7. Kept(w)'
    BY <1>0, <1>1, <1>2, <2>2 DEF Sound, Kept, Dirty, Away
  <2>8. Ready(w)'
    BY <1>0, <1>1, <1>4, <2>2, <2>6 DEF Sound, Ready
  <2>9. InPlace(w)' /\ Requested(w)'
    BY <1>0, <1>1, <2>2, <2>3, SettledParts
  <2> QED BY <2>3, <2>4, <2>5, <2>6, <2>7, <2>8, <2>9, OneWorkspace DEF Sound, ContentInv
<1> QED BY <1>3, <1>4 DEF InspectLost

LEMMA Returning ==
  ASSUME ContentInv, NEW w \in Workspace, PrepareReturns(w),
         UNCHANGED <<sb, cont, drop, mk, boot, latest>>,
         \A v \in Workspace \ {w} : ws'[v] = ws[v] /\ vol'[v] = vol[v],
         SameRow(w) \/ (w \notin Ephemeral /\ ws'[w].status # "running"),
         ws'[w].status \notin Away, vol'[w] # None, Kept(w)'
  PROVE  StaysSound
<1>0. Inv /\ Sound(w)
  BY DEF ContentInv, StorageInv, AllSound
<1>1. /\ lock'[w].pc = "free" /\ \A v \in Workspace \ {w} : lock'[v] = lock[v]
      /\ \A v \in Workspace \ {w} : Calm(v)
      /\ InPlace(w)'
      /\ w \in Ephemeral => Alone(w)'
  BY ReturnedCreation
<1>2. Requested(w)'
  BY ReturnedCreation DEF SameRow
<1>3. \A v \in Workspace \ {w} : Still(v)
  BY <1>1, OthersAreStill
<1>4. Inspecting(w)' /\ Standing(w)'
  BY <1>1, FreedParts DEF Away
<1>5. Ready(w)'
  BY <1>1 DEF Ready, Evicts
<1>6. w \in Ephemeral => Transient(w)'
  BY <1>0 DEF Sound, Transient, SameRow
<1> QED BY <1>1, <1>2, <1>3, <1>4, <1>5, <1>6, OneWorkspace DEF Sound, ContentInv

LEMMA InspectingFound ==
  ASSUME ContentInv, NEW w \in Workspace, InspectFound(w)
  PROVE  StaysSound
<1>0. Sound(w)
  BY DEF ContentInv, AllSound
<1>1. /\ UNCHANGED <<ws, sb, vol, latest, boot, cont, drop, mk>> /\ PrepareReturns(w)
      /\ lock[w].pc = "inspect" /\ lock[w].cur.status # "remote_only" /\ vol[w] # None
  BY DEF InspectFound, storeVars, dockerVars, ghostVars
<1>2. ws[w].status \notin Away
  BY <1>0, <1>1 DEF Sound, Inspecting
<1>3. SameRow(w) /\ SameData(w)
  BY <1>1 DEF SameRow, SameData
<1>4. Kept(w)'
  BY <1>0, <1>3, SameParts
<1> QED BY <1>1, <1>2, <1>3, <1>4, Returning

LEMMA Materializing ==
  ASSUME ContentInv, NEW w \in Workspace, Materialize(w)
  PROVE  StaysSound
<1>0. Inv /\ Sound(w) /\ latest[w] # None
  BY SnapshotsAreNotNone DEF ContentInv, StorageInv, AllSound
<1>1. /\ UNCHANGED <<ws, sb, latest, boot, cont, drop, mk>> /\ PrepareReturns(w)
      /\ lock[w].pc = "materialize" /\ vol' = Mounted(w)
  BY DEF Materialize, storeVars, ghostVars
<1>2. /\ \A v \in Workspace \ {w} : vol'[v] = vol[v]
      /\ vol'[w] = IF vol[w] = None THEN 0 ELSE vol[w]
      /\ vol'[w] # None
  BY <1>0, <1>1, MountedVolume
<1>3. /\ ws[w].status \notin Away
      /\ ws[w].head = None \/ ws[w].status \in {"running", "detached_dirty"}
  BY <1>0, <1>1 DEF Sound, Inspecting
<1>4. Kept(w)'
  BY <1>0, <1>1, <1>2, <1>3 DEF Sound, Kept, Dirty, Away
<1>5. SameRow(w)
  BY <1>1 DEF SameRow
<1> QED BY <1>1, <1>2, <1>3, <1>4, <1>5, Returning

LEMMA FinishingRestore ==
  ASSUME ContentInv, NEW w \in Workspace, FinishRestore(w)
  PROVE  StaysSound
<1>0. Inv /\ Sound(w)
  BY DEF ContentInv, StorageInv, AllSound
<1>1. /\ UNCHANGED <<vol, latest, boot, cont, drop, mk>> /\ PrepareReturns(w)
      /\ lock[w].pc = "restored" /\ TransitionWorkspace(w, {"restoring"}, "detached_clean")
  BY DEF FinishRestore, dockerVars, ghostVars
<1>2. /\ ws[w].status = "restoring" /\ ws'[w].status = "detached_clean"
      /\ ws'[w].head = ws[w].head
      /\ sb' = sb /\ \A v \in Workspace \ {w} : ws'[v] = ws[v]
  BY <1>0, <1>1, MovedRow
<1>3. vol[w] = ws[w].head /\ vol[w] # None
  BY <1>0, <1>1 DEF Sound, Standing
<1>4. Kept(w)'
  BY <1>0, <1>1, <1>2, <1>3 DEF Sound, Kept, Dirty, Away
<1>5. w \notin Ephemeral
  BY <1>0, <1>2 DEF Sound, Transient
<1> QED BY <1>1, <1>2, <1>3, <1>4, <1>5, Returning DEF Away

LEMMA PrepareStepContent ==
  ASSUME ContentInv, NEW w \in Workspace, PrepareStep(w)
  PROVE  StaysSound
BY PreparingFails, InspectingFound, InspectingRemote, InspectingLost, InspectingMissing,
   Materializing, ClearingTarget, EnsuringTarget, RunningRestore, FinishingRestore, RollingBack
   DEF PrepareStep

-----------------------------------------------------------------------------
(* Checkpoints, retirements and cleanups. *)
LEMMA HolderMoves ==
  ASSUME ContentInv, NEW w \in Workspace, UNCHANGED <<cr, cont, drop, mk, sb, boot, latest>>,
         \A v \in Workspace \ {w} : ws'[v] = ws[v] /\ vol'[v] = vol[v] /\ lock'[v] = lock[v],
         Kept(w)', Inspecting(w)', Standing(w)', Ready(w)',
         (vol[w] # None => vol'[w] # None) \/ ws[w].status # "running",
         ws'[w].status # "running" /\ ws'[w].active = ws[w].active,
         w \in Ephemeral => ws'[w].status = "deleting" /\ ws'[w].head = ws[w].head
  PROVE  StaysSound
<1>0. Sound(w)
  BY DEF ContentInv, AllSound
<1>1. \A v \in Workspace \ {w} : Still(v)
  BY OthersAreStill
<1>2. \A v \in Workspace : Calm(v) /\ Settled(v)
  BY CalmHolder
<1>3. InPlace(w)'
  <2>1. CASE ws[w].status # "running"
    BY <2>1, NoHolder DEF InPlace, Holds
  <2>2. CASE vol[w] # None => vol'[w] # None
    BY <1>0, <1>2, <2>2, SettledParts
  <2> QED BY <2>1, <2>2
<1>4. Requested(w)'
  BY <1>0, <1>2, SettledParts
<1>5. w \in Ephemeral => Transient(w)' /\ Alone(w)'
  BY <1>0 DEF Sound, Transient, Alone, Exists
<1> QED BY <1>1, <1>2, <1>3, <1>4, <1>5, OneWorkspace DEF Sound, ContentInv

LEMMA StartingCheckpoint ==
  ASSUME ContentInv, NEW w \in Workspace, StartCheckpoint(w)
  PROVE  StaysSound
<1>0. Inv /\ Sound(w)
  BY DEF ContentInv, StorageInv, AllSound
<1>1. UNCHANGED <<cr, cont, drop, mk, boot, latest, vol>>
  BY DEF StartCheckpoint, dockerVars, ghostVars
<1>2. CASE UNCHANGED <<ws, sb, lock>>
  BY <1>1, <1>2, CalmHolder, QuietContent DEF SameRow, ContentInv
<1>3. CASE /\ TransitionWorkspace(w, {"detached_dirty"}, "checkpointing")
           /\ LockTaken(w, "checkpoint", "snapshot", 0)
  <2>1. /\ ws[w].status = "detached_dirty" /\ ws'[w].status = "checkpointing"
        /\ ws'[w].head = ws[w].head /\ ws'[w].active = ws[w].active
        /\ sb' = sb /\ \A v \in Workspace \ {w} : ws'[v] = ws[v]
    BY <1>0, <1>3, MovedRow
  <2>2. /\ lock'[w].pc = "snapshot" /\ lock'[w].cur = ws[w]
        /\ \A v \in Workspace \ {w} : lock'[v] = lock[v]
    BY <1>0, <1>3, TakenLock
  <2>3. Kept(w)' /\ Inspecting(w)' /\ Standing(w)' /\ Ready(w)'
    BY <1>0, <1>1, <2>1, <2>2
       DEF Sound, Kept, Dirty, Away, Inspecting, Standing, Restores, Evicts, Ready
  <2>4. w \notin Ephemeral
    BY <1>0, <2>1 DEF Sound, Transient
  <2> QED BY <1>1, <2>1, <2>2, <2>3, <2>4, HolderMoves
<1> QED BY <1>2, <1>3 DEF StartCheckpoint, storeVars

LEMMA RunningCheckpoint ==
  ASSUME ContentInv, NEW w \in Workspace, RunCheckpoint(w)
  PROVE  StaysSound
<1>0. Inv /\ Sound(w) /\ latest[w] # None /\ lock \in [Workspace -> LockRow]
  BY SnapshotsAreNotNone, InvTypes DEF ContentInv, StorageInv, AllSound, LockTypeOK
<1>1. /\ UNCHANGED <<cr, cont, drop, mk, boot, latest>>
      /\ lock[w].pc = "snapshot" /\ vol' = Mounted(w)
  BY DEF RunCheckpoint, ghostVars
<1>2. ws[w].status = "checkpointing" /\ ws[w].head = lock[w].cur.head
  BY <1>0, <1>1 DEF Sound, Standing, Inspecting
<1>3. /\ \A v \in Workspace \ {w} : vol'[v] = vol[v]
      /\ vol'[w] = latest[w] /\ vol'[w] # None
  <2>1. vol[w] = latest[w] \/ (vol[w] = None /\ latest[w] = 0)
    BY <1>0, <1>2 DEF Sound, Kept, Dirty
  <2> QED BY <1>0, <1>1, <2>1, MountedVolume
<1>4. w \notin Ephemeral
  BY <1>0, <1>2 DEF Sound, Transient
<1>5. CASE /\ lock' = [lock EXCEPT ![w].pc = "commit", ![w].rev = vol'[w]]
           /\ UNCHANGED <<ws, sb>>
  <2>1. /\ lock'[w].pc = "commit" /\ lock'[w].cur = lock[w].cur /\ lock'[w].rev = vol'[w]
        /\ \A v \in Workspace \ {w} : lock'[v] = lock[v]
    BY <1>0, <1>5 DEF LockRow
  <2>2. Kept(w)' /\ Inspecting(w)' /\ Standing(w)' /\ Ready(w)'
    BY <1>0, <1>1, <1>2, <1>3, <1>5, <2>1
       DEF Sound, Kept, Dirty, Away, Inspecting, Standing, Restores, Evicts, Ready
  <2> QED BY <1>1, <1>2, <1>3, <1>4, <1>5, <2>1, <2>2, HolderMoves
<1>6. CASE CheckpointFails(w)
  <2>1. /\ ws'[w].status = "detached_dirty"
        /\ ws'[w].head = ws[w].head /\ ws'[w].active = ws[w].active
        /\ sb' = sb /\ \A v \in Workspace \ {w} : ws'[v] = ws[v]
    BY <1>0, <1>6, MovedRow DEF CheckpointFails
  <2>2. lock'[w].pc = "free" /\ \A v \in Workspace \ {w} : lock'[v] = lock[v]
    BY <1>0, <1>6, FreedLock DEF CheckpointFails
  <2>3. Kept(w)' /\ Inspecting(w)' /\ Standing(w)' /\ Ready(w)'
    BY <1>0, <1>1, <1>2, <1>3, <2>1, <2>2
       DEF Kept, Dirty, Away, Inspecting, Standing, Restores, Evicts, Ready
  <2> QED BY <1>1, <1>2, <1>3, <1>4, <2>1, <2>2, <2>3, HolderMoves
<1> QED BY <1>5, <1>6 DEF RunCheckpoint, storeVars

LEMMA CommittedRow ==
  ASSUME Inv, NEW w \in Workspace, NEW g, NEW rev, CommitRevision(w, g, rev)
  PROVE  /\ ws'[w].status = "detached_clean" /\ ws'[w].head = rev
         /\ ws'[w].active = ws[w].active
         /\ sb' = sb /\ \A v \in Workspace \ {w} : ws'[v] = ws[v]
<1> DEFINE row == [ws[w] EXCEPT !.head = rev, !.status = "detached_clean", !.aged = FALSE]
<1>1. row.status = "detached_clean" /\ row.head = rev /\ row.active = ws[w].active
  BY Rows DEF WsRow
<1>2. ws' = [ws EXCEPT ![w] = row] /\ sb' = sb
  BY Zenon DEF CommitRevision
<1> HIDE DEF row
<1> QED BY <1>1, <1>2, Rows

LEMMA Committing ==
  ASSUME ContentInv, NEW w \in Workspace, CommitCheckpoint(w)
  PROVE  StaysSound
<1>0. Inv /\ Sound(w) /\ latest[w] # None
  BY SnapshotsAreNotNone DEF ContentInv, StorageInv, AllSound
<1>1. UNCHANGED <<cr, cont, drop, mk, boot, latest, vol>> /\ lock[w].pc = "commit"
  BY DEF CommitCheckpoint, dockerVars, ghostVars
<1>2. lock[w].rev = latest[w] /\ vol[w] = latest[w] /\ ws[w].status = "checkpointing"
  BY <1>0, <1>1 DEF Sound, Standing
<1>3. /\ ws'[w].status = "detached_clean" /\ ws'[w].head = latest[w]
      /\ ws'[w].active = ws[w].active
      /\ sb' = sb /\ \A v \in Workspace \ {w} : ws'[v] = ws[v]
  BY <1>0, <1>2, CommittedRow DEF CommitCheckpoint
<1>4. lock'[w].pc = "free" /\ \A v \in Workspace \ {w} : lock'[v] = lock[v]
  BY <1>0, FreedLock DEF CommitCheckpoint
<1>5. Kept(w)' /\ Inspecting(w)' /\ Standing(w)' /\ Ready(w)'
  BY <1>0, <1>1, <1>2, <1>3, <1>4
     DEF Kept, Dirty, Away, Inspecting, Standing, Restores, Evicts, Ready
<1>6. w \notin Ephemeral
  BY <1>0, <1>2 DEF Sound, Transient
<1> QED BY <1>1, <1>3, <1>4, <1>5, <1>6, HolderMoves

LEMMA StartingRetire ==
  ASSUME ContentInv, NEW w \in Workspace, StartRetire(w)
  PROVE  StaysSound
<1>0. Inv /\ Sound(w)
  BY DEF ContentInv, StorageInv, AllSound
<1>1. UNCHANGED <<cr, cont, drop, mk, boot, latest, vol>>
  BY DEF StartRetire, dockerVars, ghostVars
<1>2. CASE UNCHANGED <<ws, sb, lock>>
  BY <1>1, <1>2, CalmHolder, QuietContent DEF SameRow, ContentInv
<1>3. ASSUME NEW pc \in {"erase", "discard"}, LockTaken(w, "retire", pc, 0),
             \/ TransitionWorkspace(w, {"detached_clean", "remote_only"}, "deleting")
             \/ ws[w].status = "deleting" /\ UNCHANGED storeVars
      PROVE  StaysSound
  <2>1. /\ ws'[w].status = "deleting"
        /\ ws'[w].head = ws[w].head /\ ws'[w].active = ws[w].active
        /\ sb' = sb /\ \A v \in Workspace \ {w} : ws'[v] = ws[v]
    BY <1>0, <1>3, MovedRow DEF storeVars
  <2>2. /\ lock'[w].pc = pc /\ lock'[w].cur = ws[w]
        /\ \A v \in Workspace \ {w} : lock'[v] = lock[v]
    BY <1>0, <1>3, TakenLock
  <2>3. Kept(w)' /\ Inspecting(w)' /\ Standing(w)' /\ Ready(w)'
    BY <1>3, <2>1, <2>2 DEF Kept, Dirty, Away, Inspecting, Standing, Restores, Evicts, Ready
  <2> QED BY <1>1, <2>1, <2>2, <2>3, HolderMoves
<1> QED BY <1>2, <1>3 DEF StartRetire, storeVars

LEMMA Erasing ==
  ASSUME ContentInv, NEW w \in Workspace, EraseRepository(w)
  PROVE  StaysSound
<1>0. Inv /\ Sound(w) /\ Guarded(w)
  BY DEF ContentInv, StorageInv, AllSound
<1>1. /\ UNCHANGED <<cr, cont, drop, mk, boot, latest, vol, ws, sb>>
      /\ lock[w].pc = "erase" /\ ws[w].status # "restoring"
  BY <1>0 DEF EraseRepository, dockerVars, ghostVars, storeVars, Guarded
<1>2. /\ \A v \in Workspace \ {w} : lock'[v] = lock[v]
      /\ \/ lock'[w].pc = "free"
         \/ lock'[w].pc = "discard" /\ lock'[w].cur = lock[w].cur
  BY <1>0, MovedLock, FreedLock DEF EraseRepository
<1>3. \A v \in Workspace \ {w} : Still(v)
  BY <1>1, <1>2, OthersAreStill
<1>4. \A v \in Workspace : Calm(v) /\ Settled(v)
  BY <1>1, CalmHolder
<1>5. SameRow(w) /\ SameData(w)
  BY <1>1 DEF SameRow, SameData
<1>6. Inspecting(w)' /\ Standing(w)' /\ lock'[w].pc \notin Evicts
  BY <1>0, <1>1, <1>2 DEF Sound, Inspecting, Standing, Restores, Evicts
<1>7. w \in Ephemeral => Alone(w)'
  BY <1>0, <1>4, <1>5, SettledParts DEF Calm
<1> QED BY <1>3, <1>4, <1>5, <1>6, <1>7, LockMoved

\* A workspace is deleted with its sandboxes.
LEMMA DeletedRow ==
  ASSUME Inv, NEW w \in Workspace, DeleteRows(w)
  PROVE  /\ ws'[w].status = "absent" /\ ws'[w].head = None /\ ws'[w].active = None
         /\ \A v \in Workspace \ {w} : ws'[v] = ws[v] /\ latest'[v] = latest[v]
         /\ latest'[w] = 0
         /\ \A s \in Sandbox : sb'[s].ws # w /\ (sb'[s].ws # None => sb'[s].ws = sb[s].ws)
<1>1. ws' = [ws EXCEPT ![w] = NoWorkspace] /\ latest' = [latest EXCEPT ![w] = 0]
      /\ sb' = [s \in Sandbox |-> IF sb[s].ws = w THEN NoSandbox ELSE sb[s]]
  BY DEF DeleteRows, DeleteWorkspace
<1>2. ws'[w] = NoWorkspace /\ latest'[w] = 0
      /\ \A v \in Workspace \ {w} : ws'[v] = ws[v] /\ latest'[v] = latest[v]
  BY <1>1, InvTypes DEF DataTypeOK
<1>3. \A s \in Sandbox : sb'[s] = IF sb[s].ws = w THEN NoSandbox ELSE sb[s]
  BY <1>1
<1>4. \A s \in Sandbox : sb'[s].ws # w /\ (sb'[s].ws # None => sb'[s].ws = sb[s].ws)
  BY <1>3, StoreAssumption DEF NoSandbox
<1> QED BY <1>2, <1>4 DEF NoWorkspace

LEMMA Deleting ==
  ASSUME ContentInv, NEW w \in Workspace, DeleteRows(w),
         \A v \in Workspace \ {w} : vol'[v] = vol[v] /\ lock'[v] = lock[v],
         UNCHANGED <<cr, cont, mk, boot>>, drop' \subseteq drop,
         Inspecting(w)', Standing(w)'
  PROVE  StaysSound
<1>0. Inv /\ Sound(w)
  BY DEF ContentInv, StorageInv, AllSound
<1>1. /\ ws'[w].status = "absent" /\ ws'[w].head = None /\ ws'[w].active = None
      /\ \A v \in Workspace \ {w} : ws'[v] = ws[v] /\ latest'[v] = latest[v]
      /\ latest'[w] = 0
      /\ \A s \in Sandbox : sb'[s].ws # w /\ (sb'[s].ws # None => sb'[s].ws = sb[s].ws)
  BY <1>0, DeletedRow
<1>2. \A v \in Workspace \ {w} : Still(v)
  BY <1>1, OthersAreStill
<1>3. \A v \in Workspace : Calm(v)
  <2>1. \A v \in Workspace : Fewer(v)
    BY DEF Fewer
  <2>2. \A v \in Workspace : NoneNew(v)
    BY <1>1, StoreAssumption DEF NoneNew, Holds
  <2> QED BY <2>1, <2>2 DEF Calm, Settled
<1>4. Kept(w)'
  BY <1>1 DEF Kept, Dirty, Away
<1>5. Ready(w)'
  <2>1. lock'[w].pc \notin Evicts
    BY <1>1 DEF Standing
  <2> QED BY <1>1, <2>1 DEF Ready, Away
<1>6. InPlace(w)'
  BY <1>1 DEF InPlace
<1>7. Requested(w)'
  BY <1>0, <1>1 DEF Sound, Requested
<1>8. w \in Ephemeral => Transient(w)' /\ Alone(w)'
  BY <1>0, <1>1 DEF Sound, Transient, Alone, Exists
<1> QED BY <1>2, <1>3, <1>4, <1>5, <1>6, <1>7, <1>8, OneWorkspace DEF Sound, ContentInv

LEMMA Discarding ==
  ASSUME ContentInv, NEW w \in Workspace, DiscardRetired(w)
  PROVE  StaysSound
<1>0. Inv /\ Sound(w) /\ Guarded(w)
  BY DEF ContentInv, StorageInv, AllSound
<1>1. /\ UNCHANGED <<cr, cont, drop, mk, boot>>
      /\ lock[w].pc = "discard" /\ ws[w].status # "restoring"
  BY <1>0 DEF DiscardRetired, Guarded
<1>2. lock'[w].pc = "free" /\ \A v \in Workspace \ {w} : lock'[v] = lock[v]
  BY <1>0, FreedLock DEF DiscardRetired
<1>3. CASE vol' = [vol EXCEPT ![w] = None] /\ DeleteRows(w)
  <2>1. ws'[w].status # "restoring"
    BY <1>0, <1>3, DeletedRow
  <2>2. Inspecting(w)' /\ Standing(w)'
    BY <1>2, <2>1, FreedParts
  <2>3. \A v \in Workspace \ {w} : vol'[v] = vol[v]
    BY <1>0, <1>3, InvTypes DEF DataTypeOK
  <2> QED BY <1>1, <1>2, <1>3, <2>2, <2>3, Deleting
<1>4. CASE UNCHANGED <<storeVars, vol, latest>>
  <2>1. UNCHANGED <<ws, sb, vol, latest>>
    BY <1>4 DEF storeVars
  <2>2. \A v \in Workspace \ {w} : Still(v)
    BY <1>1, <1>2, <2>1, OthersAreStill
  <2>3. \A v \in Workspace : Calm(v) /\ Settled(v)
    BY <1>1, <2>1, CalmHolder
  <2>4. SameRow(w) /\ SameData(w)
    BY <2>1 DEF SameRow, SameData
  <2>5. Inspecting(w)' /\ Standing(w)' /\ lock'[w].pc \notin Evicts
    BY <1>1, <1>2, <2>1, FreedParts DEF Evicts
  <2>6. w \in Ephemeral => Alone(w)'
    BY <1>0, <2>3, <2>4, SettledParts DEF Calm
  <2> QED BY <2>2, <2>3, <2>4, <2>5, <2>6, LockMoved
<1> QED BY <1>3, <1>4 DEF DiscardRetired

LEMMA Dropping ==
  ASSUME ContentInv, NEW w \in Workspace, DropEphemeral(w)
  PROVE  StaysSound
<1>0. Inv /\ Sound(w) /\ w \in Ephemeral
  BY InvTypes DEF DropEphemeral, ContentInv, StorageInv, AllSound, QueueTypeOK
<1>1. /\ UNCHANGED <<cr, cont, mk, boot, lock>> /\ w \in drop /\ drop' = drop \ {w}
      /\ RemoveVolume(w)
  BY DEF DropEphemeral
<1>2. ws[w].status # "running"
  BY <1>0, <1>1 DEF Sound, Alone
<1>3. DeleteRows(w)
  BY <1>0, <1>2, NoWriter DEF DropEphemeral, DeleteOK
<1>4. ws'[w].status = "absent" /\ ws'[w].head = None
  BY <1>0, <1>3, DeletedRow
<1>5. ws[w].head = None /\ ws[w].status \in {"absent", "detached_clean", "deleting"}
  BY <1>0, <1>2 DEF Sound, Transient
<1>6. Inspecting(w)'
  BY <1>0, <1>1, <1>4, <1>5 DEF Sound, Inspecting, Away
<1>7. Standing(w)'
  BY <1>0, <1>1, <1>4, <1>5 DEF Sound, Standing, Restores, Evicts
<1>8. \A v \in Workspace \ {w} : vol'[v] = vol[v]
  BY <1>0, <1>1, RemovedVolume
<1> QED BY <1>1, <1>3, <1>6, <1>7, <1>8, Deleting

LEMMA StartingCleanup ==
  ASSUME ContentInv, NEW w \in Workspace, StartCleanup(w), CleanupAvoidsCreations
  PROVE  StaysSound
<1>0. Inv /\ Sound(w)
  BY DEF ContentInv, StorageInv, AllSound
<1>1. UNCHANGED <<ws, sb, cr, cont, drop, mk, boot, latest, vol>>
  BY DEF StartCleanup, dockerVars, ghostVars, storeVars
<1>2. CASE UNCHANGED lock
  BY <1>1, <1>2, CalmHolder, QuietContent DEF SameRow, ContentInv
<1>3. CASE Evictable(w) /\ LockTaken(w, "cleanup", "evict", 0)
  <2>1. ws[w].status = "detached_clean" /\ ws[w].head # None
    BY <1>3 DEF Evictable
  <2>2. /\ lock'[w].pc = "evict" /\ lock'[w].cur = ws[w] /\ lock'[w].by = "cleanup"
        /\ \A v \in Workspace \ {w} : lock'[v] = lock[v]
    BY <1>0, <1>3, TakenLock
  <2>3. Ready(w)'
    BY <1>1, <2>2 DEF CleanupAvoidsCreations, Ready
  <2>4. Kept(w)' /\ Inspecting(w)' /\ Standing(w)'
    BY <1>0, <1>1, <2>1, <2>2
       DEF Sound, Kept, Dirty, Away, Inspecting, Standing, Restores, Evicts
  <2>5. w \notin Ephemeral
    BY <1>0, <2>1 DEF Sound, Transient
  <2> QED BY <1>1, <2>1, <2>2, <2>3, <2>4, <2>5, HolderMoves
<1> QED BY <1>2, <1>3 DEF StartCleanup

LEMMA EvictingVolume ==
  ASSUME ContentInv, NEW w \in Workspace, CleanupStep(w)
  PROVE  StaysSound
<1>0. Inv /\ Sound(w)
  BY DEF ContentInv, StorageInv, AllSound
<1>1. /\ UNCHANGED <<cr, cont, drop, mk, boot, latest>> /\ lock[w].pc \in Evicts
  BY DEF CleanupStep, EvictVolume, FinishCleanup, dockerVars, ghostVars, Evicts
<1>2. /\ ws[w].status = "detached_clean" /\ ws[w].head # None
      /\ \A s \in Sandbox : ~(cr[s].ws = w /\ cr[s].pc \in Window)
  BY <1>0, <1>1 DEF Sound, Standing, Ready
<1>3. /\ ws'[w].status \in {"detached_clean", "remote_only"}
      /\ ws'[w].head = ws[w].head /\ ws'[w].active = ws[w].active
      /\ sb' = sb /\ \A v \in Workspace \ {w} : ws'[v] = ws[v]
      /\ ws'[w].status = "detached_clean" \/ lock'[w].pc = "free"
  <2>1. CASE EvictVolume(w)
    BY <1>2, <2>1 DEF EvictVolume, storeVars
  <2>2. CASE FinishCleanup(w)
    <3>1. TransitionWorkspace(w, {"detached_clean"}, "remote_only")
      BY <1>0, <1>2, <2>2, NoWriter DEF FinishCleanup
    <3>2. lock'[w].pc = "free"
      BY <1>0, <2>2, FreedLock DEF FinishCleanup
    <3> QED BY <1>0, <3>1, <3>2, MovedRow
  <2> QED BY <2>1, <2>2 DEF CleanupStep
<1>4. /\ \A v \in Workspace \ {w} : vol'[v] = vol[v]
      /\ vol'[w] \in {None, vol[w]}
  BY <1>0, InvTypes DEF CleanupStep, EvictVolume, FinishCleanup, DataTypeOK, dockerVars
<1>5. /\ \A v \in Workspace \ {w} : lock'[v] = lock[v]
      /\ \/ lock'[w].pc = "free"
         \/ lock'[w].pc = "evicted" /\ lock'[w].cur = lock[w].cur
  BY <1>0, MovedLock, FreedLock DEF CleanupStep, EvictVolume, FinishCleanup
<1>6. Ready(w)'
  BY <1>1, <1>2 DEF Ready
<1>7. Kept(w)'
  BY <1>0, <1>1, <1>2, <1>3, <1>4 DEF Sound, Kept, Dirty, Away
<1>8. Inspecting(w)' /\ Standing(w)'
  BY <1>0, <1>1, <1>2, <1>3, <1>5 DEF Sound, Inspecting, Standing, Restores, Evicts
<1>9. w \notin Ephemeral
  BY <1>0, <1>2 DEF Sound, Transient
<1> QED BY <1>1, <1>2, <1>3, <1>4, <1>5, <1>6, <1>7, <1>8, <1>9, HolderMoves

LEMMA Writing ==
  ASSUME ContentInv, NEW s \in Sandbox, WorkerWrites(s)
  PROVE  StaysSound
<1>0. Inv /\ vol \in [Workspace -> Content] /\ latest \in [Workspace -> Revision]
      /\ writes \in 0 .. MaxWrites
  BY InvTypes DEF ContentInv, StorageInv, DataTypeOK
<1>1. PICK w \in Workspace : sb[s].ws = w /\ ws[w].active = s
  BY <1>0 DEF WorkerWrites, Inv, Ownership, ContainersAreActive, StoreInv, WriterBinding, SandboxBound
<1>2. ws[w].status = "running"
  BY <1>0, <1>1, StoreAssumption DEF Inv, StoreInv, WriterBinding, WorkspaceBound
<1>3. PICK x \in Revision : vol' = [vol EXCEPT ![w] = x] /\ latest' = [latest EXCEPT ![w] = x]
  <2>1. MaxWrites \in Nat /\ Revision = (0 .. MaxWrites) \cup {Partial}
    BY ManagerAssumption, Zenon
  <2>2. /\ writes < MaxWrites /\ writes' = writes + 1
        /\ vol' = [vol EXCEPT ![sb[s].ws] = writes'] /\ latest' = [latest EXCEPT ![sb[s].ws] = writes']
    BY DEF WorkerWrites
  <2>3. writes' \in Revision
    BY <1>0, <2>1, <2>2
  <2> QED BY <1>1, <2>2, <2>3
<1>4. /\ vol'[w] = x /\ latest'[w] = x /\ x # None
      /\ \A v \in Workspace \ {w} : vol'[v] = vol[v] /\ latest'[v] = latest[v]
  BY <1>0, <1>3, StoreAssumption
<1>5. UNCHANGED <<ws, sb, cr, cont, drop, mk, boot, lock>> /\ Sound(w)
  BY DEF WorkerWrites, storeVars, memVars, ContentInv, AllSound
<1>6. \A v \in Workspace : Calm(v) /\ Settled(v)
  BY <1>5, CalmHolder
<1>7. \A v \in Workspace \ {w} : Still(v)
  BY <1>4, <1>5, OthersAreStill
<1>8. SameRow(w)
  BY <1>5 DEF SameRow
<1>9. Kept(w)'
  BY <1>2, <1>4, <1>5 DEF Kept, Dirty, Away
<1>10. Inspecting(w)' /\ Standing(w)'
  BY <1>2, <1>5 DEF Sound, Inspecting, Standing, Restores, Evicts
<1>11. Ready(w)' /\ InPlace(w)'
  BY <1>4, <1>5, <1>6, <1>8, SettledParts
<1>12. Requested(w)'
  BY <1>2, <1>5 DEF Sound, Requested
<1>13. w \in Ephemeral => Transient(w)' /\ Alone(w)'
  BY <1>5, <1>6, <1>8, SettledParts DEF Sound, Transient, Calm
<1> QED BY <1>6, <1>7, <1>9, <1>10, <1>11, <1>12, <1>13, OneWorkspace DEF Sound, ContentInv

-----------------------------------------------------------------------------
(* Crash and startup. *)
LEMMA ForgottenContent ==
  ASSUME ContentInv, Forget, boot' # "up", UNCHANGED <<ws, sb, cont, latest>>,
         \A w \in Workspace : vol'[w] = vol[w] \/ ws[w].status = "restoring"
  PROVE  StaysSound
<1> SUFFICES ASSUME NEW w \in Workspace PROVE Sound(w)'
  BY DEF StaysSound
<1>0. Sound(w)
  BY DEF ContentInv, AllSound
<1>1. /\ lock'[w].pc = "free" /\ drop' = {} /\ mk' = {}
      /\ \A s \in Sandbox : cr'[s].pc = "idle" /\ cr'[s].ws # w
  BY StoreAssumption DEF Forget, Free, NoCreate
<1>2. Kept(w)'
  BY <1>0 DEF Sound, Kept, Dirty, Away
<1>3. Inspecting(w)' /\ Standing(w)'
  BY <1>1 DEF Inspecting, Standing, Restores, Evicts
<1>4. Ready(w)' /\ Requested(w)'
  BY <1>1 DEF Ready, Requested
<1>5. InPlace(w)'
  <2>1. \A s \in Sandbox : Holds(s)' => Holds(s)
    BY <1>1 DEF Holds
  <2> QED BY <1>0, <2>1, NoHolder DEF Sound, InPlace
<1>6. w \in Ephemeral => Transient(w)' /\ Alone(w)'
  BY <1>0, <1>1 DEF Sound, Transient, Alone, Exists
<1> QED BY <1>2, <1>3, <1>4, <1>5, <1>6 DEF Sound

LEMMA Crashing ==
  ASSUME ContentInv, Crash
  PROVE  StaysSound
<1>1. Forget /\ boot' # "up" /\ UNCHANGED <<ws, sb, cont, latest>>
  BY DEF Crash, storeVars, ghostVars
<1>2. \A w \in Workspace : vol'[w] = vol[w] \/ ws[w].status = "restoring"
  <2>1. \A w \in Workspace : vol'[w] \in OrphanVolumes(w)
    BY DEF Crash
  <2>2. \A w \in Workspace : lock[w].pc = "restore" => ws[w].status = "restoring"
    BY DEF ContentInv, AllSound, Sound, Standing, Restores
  <2> QED BY <2>1, <2>2 DEF OrphanVolumes
<1> QED BY <1>1, <1>2, ForgottenContent

LEMMA Reconciling ==
  ASSUME ContentInv, NEW s \in Sandbox,
         AdoptContainer(s) \/ RemoveStrayContainer(s) \/ FinishReconciled(s)
  PROVE  StaysSound
<1>0. Inv
  BY DEF ContentInv, StorageInv
<1>1. CASE AdoptContainer(s)
  <2>1. UNCHANGED <<lock, vol, latest, boot, cr, cont, drop, mk>>
    BY <1>1 DEF AdoptContainer, dockerVars, ghostVars
  <2>2. (\A v \in Workspace : SameRow(v)) /\ (\A r \in Sandbox : sb'[r].ws = sb[r].ws)
    BY <1>0, <1>1, SameRows DEF AdoptContainer
  <2>3. \A v \in Workspace : Calm(v)
    BY <2>1, <2>2, CalmStep DEF Onward, Holds
  <2> QED BY <2>1, <2>2, <2>3, QuietContent DEF ContentInv
<1>2. CASE RemoveStrayContainer(s)
  <2>1. UNCHANGED <<ws, sb, vol, latest>>
    BY <1>2 DEF RemoveStrayContainer, storeVars, ghostVars
  <2>2. CASE Forget /\ boot' = "down" /\ cont' = cont
    BY <2>1, <2>2, ForgottenContent
  <2>3. CASE cont' = [cont EXCEPT ![s] = "none"] /\ UNCHANGED <<boot, memVars>>
    <3>1. UNCHANGED <<lock, boot, cr, drop, mk>>
      BY <2>3 DEF memVars
    <3>2. \A r \in Sandbox : Holds(r)' => Holds(r)
      BY <1>0, <2>3, <3>1, InvTypes DEF Holds, DataTypeOK
    <3>3. \A v \in Workspace : Calm(v)
      BY <2>1, <3>1, <3>2, CalmStep DEF Onward
    <3> QED BY <2>1, <3>1, <3>3, QuietContent DEF SameRow, ContentInv
  <2> QED BY <1>2, <2>2, <2>3 DEF RemoveStrayContainer
<1>3. CASE FinishReconciled(s)
  <2>1. PICK w \in Workspace : sb[s].ws = w
    BY <1>0, <1>3 DEF FinishReconciled, Inv, StoreInv, WriterBinding, SandboxBound
  <2>2. /\ FinishSandbox(s, "failed", FinishedStatus(w))
        /\ drop' = drop \cup ({w} \cap Ephemeral)
        /\ UNCHANGED <<lock, vol, latest, mk, boot, cr, cont>>
    BY <1>3, <2>1 DEF FinishReconciled, dockerVars, ghostVars
  <2>3. \A r \in Sandbox : Onward(r) /\ (Holds(r)' => Holds(r))
    BY <2>2 DEF Onward, Holds
  <2> QED BY <2>1, <2>2, <2>3, FinishedContent
<1> QED BY <1>1, <1>2, <1>3

LEMMA Purging ==
  ASSUME ContentInv, PurgeOrphans
  PROVE  StaysSound
<1>1. /\ UNCHANGED <<lock, ws, sb, vol, latest, cr, cont, mk>> /\ boot' # "up"
      /\ \A s \in Sandbox : cr[s].pc = "idle"
      /\ \A w \in drop' : ws[w].status = "detached_clean"
  BY DEF PurgeOrphans, storeVars, dockerVars, ghostVars, ContentInv, StorageInv, Inv, Ownership
<1> SUFFICES ASSUME NEW w \in Workspace PROVE Sound(w)'
  BY DEF StaysSound
<1>2. Sound(w)
  BY DEF ContentInv, AllSound
<1>3. Still(w) /\ Settled(w)
  BY <1>1 DEF Still, SameRow, SameData, SameBoot, Settled, Fewer, NoneNew, Holds
<1>4. w \in Ephemeral => Alone(w)'
  BY <1>1, <1>2 DEF Sound, Alone, Exists, Before, Window
<1> QED BY <1>2, <1>3, <1>4, SettledKeeps

LEMMA RecoveringWorkspace ==
  ASSUME ContentInv, NEW w \in Workspace, RecoverWorkspace(w)
  PROVE  StaysSound
<1>0. Inv /\ Sound(w)
  BY DEF ContentInv, StorageInv, AllSound
<1>1. /\ UNCHANGED <<lock, latest, cr, cont, drop, mk, boot>> /\ boot # "up"
  BY DEF RecoverWorkspace, memVars, ghostVars
<1>2. lock[w].pc = "free" /\ \A s \in Sandbox : cr[s].pc = "idle"
  BY <1>1 DEF ContentInv, StorageInv, BootQuiet, Free, Inv, Ownership
<1>3. /\ ws'[w].head = ws[w].head /\ ws'[w].active = ws[w].active
      /\ sb' = sb /\ \A v \in Workspace \ {w} : ws'[v] = ws[v]
      /\ \/ /\ ws[w].status = "checkpointing" /\ ws'[w].status = "detached_dirty"
            /\ vol' = vol
         \/ /\ ws[w].status = "restoring" /\ ws'[w].status = "remote_only"
  BY <1>0, MovedRow DEF RecoverWorkspace
<1>4. \A v \in Workspace \ {w} : vol'[v] = vol[v]
  BY <1>0, RemovedVolume DEF RecoverWorkspace
<1>5. Kept(w)'
  BY <1>0, <1>1, <1>3 DEF Sound, Kept, Dirty, Away
<1>6. Inspecting(w)' /\ Standing(w)'
  BY <1>1, <1>2 DEF Inspecting, Standing, Restores, Evicts
<1>7. Ready(w)'
  BY <1>1, <1>2 DEF Ready, Window
<1>8. w \notin Ephemeral
  BY <1>0, <1>3 DEF Sound, Transient
<1> QED BY <1>1, <1>3, <1>4, <1>5, <1>6, <1>7, <1>8, HolderMoves

LEMMA StartingUp ==
  ASSUME ContentInv, StartupStep
  PROVE  StaysSound
<1>1. ASSUME UNCHANGED <<lock, ws, sb, vol, latest, cr, cont, drop, mk>>,
             \A v \in Workspace : SameBoot(v)
      PROVE  StaysSound
  <2>1. \A v \in Workspace : Still(v) /\ Calm(v)
    BY <1>1, CalmHolder DEF Still, SameRow, SameData
  <2> QED BY <2>1, UntouchedKeeps DEF StaysSound, ContentInv, AllSound
<1>2. CASE Boot \/ RecoverOperations
  <2>1. UNCHANGED <<lock, ws, sb, vol, latest, cr, cont, drop, mk>> /\ boot' # "up"
    BY <1>2 DEF Boot, RecoverOperations, storeVars, memVars, dockerVars, ghostVars
  <2> QED BY <1>1, <2>1 DEF SameBoot
<1>3. CASE Booted
  <2>1. /\ UNCHANGED <<lock, ws, sb, vol, latest, cr, cont, drop, mk>>
        /\ \A v \in Workspace : ws[v].status # "restoring"
    BY <1>3 DEF Booted, storeVars, memVars, dockerVars, ghostVars
  <2> QED BY <1>1, <2>1 DEF SameBoot
<1> QED BY <1>2, <1>3, Reconciling, Purging, RecoveringWorkspace DEF StartupStep

-----------------------------------------------------------------------------
LEMMA ContentInit == Init => ContentInv
<1> SUFFICES ASSUME Init PROVE ContentInv
  OBVIOUS
<1>1. \A w \in Workspace : /\ ws[w] = NoWorkspace /\ lock[w] = Free /\ vol[w] = None
                           /\ latest[w] = 0
  BY DEF Init, StoreInit
<1>2. drop = {} /\ mk = {} /\ \A s \in Sandbox : /\ cr[s].ws = None /\ sb[s].ws = None
                                                /\ cont[s] = "none" /\ cr[s].pc = "idle"
  BY DEF Init, StoreInit, NoCreate, NoSandbox
<1>3. ASSUME NEW w \in Workspace PROVE Sound(w)
  <2>1. Kept(w) /\ Inspecting(w) /\ Standing(w) /\ Ready(w) /\ InPlace(w) /\ Requested(w)
    BY <1>1, <1>2 DEF Kept, Dirty, Away, Inspecting, Standing, Restores, Evicts, Ready, Window,
       InPlace, Holds, Requested, NoWorkspace, Free
  <2>2. Transient(w) /\ Alone(w)
    BY <1>1, <1>2, StoreAssumption DEF Transient, Alone, NoWorkspace
  <2> QED BY <2>1, <2>2 DEF Sound
<1> QED BY <1>3, StorageInit DEF ContentInv, AllSound

LEMMA ContentNext == ContentInv /\ [Next /\ CleanupAvoidsCreations]_vars => ContentInv'
<1> SUFFICES ASSUME ContentInv, [Next /\ CleanupAvoidsCreations]_vars PROVE ContentInv'
  OBVIOUS
<1>1. StaysSound
  <2>1. CASE UNCHANGED vars
    <3>1. UNCHANGED <<lock, ws, sb, vol, latest, cr, cont, drop, mk, boot>>
      BY <2>1 DEF vars
    <3> QED BY <3>1, CalmHolder, QuietContent DEF SameRow, ContentInv
  <2>2. ASSUME NEW w \in Workspace,
               \/ WorkspaceRequest(w) \/ TaskStart(w) \/ HolderStep(w)
               \/ EnsureRequested(w) \/ DropEphemeral(w)
               \/ PassGrace(w) \/ PassRetention(w)
        PROVE  StaysSound
    <3>1. CASE WorkspaceRequest(w) \/ TaskStart(w) \/ PassGrace(w) \/ PassRetention(w)
      BY <3>1, RequestingWorkspace, RequestingSandbox, QuietRequests, StartingCheckpoint,
         StartingRetire, LockingForRestore DEF WorkspaceRequest, TaskStart
    <3>2. CASE HolderStep(w) \/ EnsureRequested(w) \/ DropEphemeral(w)
      BY <3>2, PrepareStepContent, RunningCheckpoint, Committing, Erasing, Discarding,
         EvictingVolume, EnsuringRequested, Dropping DEF HolderStep, CheckpointStep, RetireStep
    <3> QED BY <2>2, <3>1, <3>2
  <2>3. ASSUME NEW s \in Sandbox,
               \/ SandboxRequest(s) \/ CreateStep(s)
               \/ WorkerWrites(s) \/ WorkerDies(s) \/ PassLease(s)
        PROVE  StaysSound
    BY <2>3, QuietRequests, LockingForCreate, Preparing, GivingUp, Claiming, CreatingContainer,
       QuietCreations, FinishingCreation, Writing, DyingWorker DEF CreateStep
  <2>4. ASSUME NEW c \in Caller, TerminateStep(c) PROVE StaysSound
    BY <2>4, QuietRequests, FinishingTerminated DEF TerminateStep
  <2>5. CASE ReaperStep /\ CleanupAvoidsCreations
    BY <2>5, QuietRequests, StartingCleanup DEF ReaperStep
  <2> QED BY <2>1, <2>2, <2>3, <2>4, <2>5, Crashing, StartingUp DEF Next
<1>2. StorageInv'
  BY StorageNext DEF ContentInv
<1> QED BY <1>1, <1>2 DEF ContentInv, StaysSound, AllSound

LEMMA ContentInvariance == ContentSpec => []ContentInv
BY ContentInit, ContentNext, PTL DEF ContentSpec

(* What the workers wrote last is in the volume, or in the head's snapshot *)
(* and that in the repository, as long as the reaper does not take the     *)
(* lock of a workspace between its preparation and its claim.              *)
THEOREM ManagerLatestIsKept == ContentSpec => []LatestIsKept
<1>1. ContentInv => LatestIsKept
  <2>1. SUFFICES ASSUME ContentInv, NEW w \in Workspace \ Ephemeral, latest[w] # 0
                 PROVE  /\ ws[w].status \in Dirty => vol[w] = latest[w]
                        /\ ws[w].status \in {"detached_clean", "remote_only", "restoring"}
                              => ws[w].head = latest[w] /\ latest[w] \in repo[w]
    BY DEF LatestIsKept, Dirty
  <2>2. Kept(w) /\ Stored(w) /\ latest[w] # None
    BY <2>1, SnapshotsAreNotNone DEF ContentInv, StorageInv, AllSound, Sound
  <2> QED BY <2>1, <2>2 DEF Kept, Stored, Given, Away
<1> QED BY <1>1, ContentInvariance, PTL

(* A worker container mounts a volume with the content its predecessor     *)
(* left, under the same condition.                                         *)
THEOREM ManagerWorkerSeesLatest == ContentSpec => []WorkerSeesLatest
<1>1. ContentInv => WorkerSeesLatest
  <2>1. SUFFICES ASSUME ContentInv, NEW s \in Sandbox, cont[s] # "none"
                 PROVE  vol[sb[s].ws] = latest[sb[s].ws]
    BY DEF WorkerSeesLatest
  <2>2. PICK w \in Workspace : sb[s].ws = w /\ ws[w].active = s
    BY <2>1 DEF ContentInv, StorageInv, Inv, Ownership, ContainersAreActive, StoreInv,
                WriterBinding, SandboxBound
  <2>3. ws[w].status = "running"
    BY <2>1, <2>2, StoreAssumption DEF ContentInv, StorageInv, Inv, StoreInv, WriterBinding,
                                       WorkspaceBound
  <2>4. Kept(w) /\ InPlace(w)
    BY <2>1 DEF ContentInv, AllSound, Sound
  <2> QED BY <2>1, <2>2, <2>3, <2>4 DEF Kept, InPlace, Holds, Dirty
<1> QED BY <1>1, ContentInvariance, PTL
===========================================================================
