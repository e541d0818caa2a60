-------------------------- MODULE MCSandboxManager --------------------------
(* SandboxManager on small instances. *)
EXTENDS SandboxManager, TLC

Symmetry == Permutations(Sandbox)

(* The clients release workspaces, or they leave them idle and restore     *)
(* them.  A restore that waits while its workspace is being retired        *)
(* returns and leaves its operation pending, and with it the deletion of   *)
(* the workspace, until the next startup: neither OperationsEnd nor        *)
(* DueIsRetired is true of clients that do both at once.                   *)
Restoring(w) ==
    \E task \in {"restore", "await_restore"}, rev \in Revision : <<task, w, rev>> \in sched'

OneUse ==
    \A w \in Workspace :
        ws'[w].del # "none" =>
            /\ ws[w].del # "none" \/ (~ws'[w].aged /\ ws'[w].status # "remote_only")
            /\ ws'[w].aged => ws[w].aged
            /\ ~Restoring(w)

OneUseSpec == Init /\ [][Next /\ OneUse]_vars /\ Fairness
=============================================================================
