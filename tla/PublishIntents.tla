---------------------------- MODULE PublishIntents ----------------------------
(***************************************************************************)
(* The BFF publishes the files an answer names.  The Adapter reports the   *)
(* end of the response with a single-use grant; the BFF records one intent *)
(* per candidate file and drives it: capture a stable copy, upload it to   *)
(* the Artifact Service, attach it to the message.  The terminal event, a  *)
(* click, the barrier of the next turn and a reconciler all schedule the   *)
(* same task; rows survive a crash of the BFF, tasks do not.               *)
(*                                                                         *)
(* Adapter, Manager and Artifact Service are external here: op[c] is the   *)
(* publish operation of candidate c, the only one with its idempotency key.*)
(***************************************************************************)
EXTENDS Naturals

CONSTANTS Candidate,    \* the sandbox: links of the answer
          RetryLimit,   \* publish_retry_limit
          MaxTargets,   \* bound: upload targets asked for
          MaxFaults,    \* bound: calls that fail
          MaxCrashes,   \* bound: crashes of the BFF
          Inputs,       \* bound: what happens in an instance
          None

ASSUME IntentAssumption ==
    /\ RetryLimit \in Nat \ {0} /\ MaxTargets \in Nat /\ MaxFaults \in Nat /\ MaxCrashes \in Nat
    /\ None \notin Candidate /\ None \notin 1 .. MaxTargets

VARIABLES
    event,      \* the terminal event: where its handler is
    posts,      \* deliveries the Adapter has tried
    nonce,      \* the grant of the event has been consumed
    binding,    \* the row of agent_response_binding
    it,         \* the rows of agent_publish_intent
    task,       \* _intent_tasks: where _drive_intent is, per intent
    chatLock,   \* the candidate whose task holds the lock of the chat
    read,       \* the files of the message as _bind_published_locked read them
    message,    \* the assistant message is in the chat
    files,      \* what is attached to it
    bound,      \* the rows of agent_message_artifact
    op,         \* the publish operations of the Manager
    stored,     \* committed Artifacts: candidate, id and the copy it was made from
    targets,    \* Artifact ids given out so far
    forgotten,  \* the Adapter was restarted and does not know the response
    released,   \* the sandbox of the response has ended
    gone,       \* the chat has been deleted
    turn,       \* the next turn of the chat
    faults, crashes

eventVars == <<event, posts, nonce, binding>>
messageVars == <<chatLock, read, message, files, bound>>
worldVars == <<forgotten, released, gone>>
serviceVars == <<op, stored, targets, worldVars>>
vars == <<eventVars, it, task, messageVars, serviceVars, turn, faults, crashes>>

Artifact == 1 .. MaxTargets
States == {"absent", "pending", "captured", "uploading", "uploaded", "ready",
           "retryable", "binding_retry", "failed"}
Final == {"ready", "failed"}
Uploaded == {"uploaded", "binding_retry", "ready"}
Row == [state : States, art : Artifact \cup {None}, attempts : 0 .. RetryLimit,
        due : BOOLEAN, created : {"before", "after"}]
Steps == {"none", "start", "capture", "capturing", "upload", "target", "publish",
          "wait", "bind", "attach", "check", "emit"}
\* The phases of an operation: "failed" has captured nothing, "uploadFailed" has.
Phases == {"none", "capturing", "captured", "failed", "uploading", "uploadFailed", "succeeded"}
\* The stable copy: what the answer left, what a later turn made of it, or
\* removed behind an upload.
Copies == {"none", "own", "later", "gone"}
Op == [phase : Phases, art : Artifact \cup {None}, copy : Copies]

TypeOK ==
    /\ event \in {"due", "handling", "recording", "delivered", "lost"} /\ posts \in 0 .. 3
    /\ nonce \in BOOLEAN /\ binding \in BOOLEAN /\ message \in BOOLEAN
    /\ forgotten \in BOOLEAN /\ released \in BOOLEAN /\ gone \in BOOLEAN
    /\ it \in [Candidate -> Row] /\ task \in [Candidate -> Steps]
    /\ chatLock \in Candidate \cup {None} /\ read \in SUBSET Candidate
    /\ files \in SUBSET Candidate /\ bound \in SUBSET Candidate
    /\ op \in [Candidate -> Op]
    /\ stored \in SUBSET (Candidate \X Artifact \X {"own", "later"}) /\ targets \in 0 .. MaxTargets
    /\ turn \in {"idle", "passed", "running"}
    /\ faults \in 0 .. MaxFaults /\ crashes \in 0 .. MaxCrashes

Init ==
    /\ event = "due" /\ posts = 0 /\ nonce = FALSE /\ binding = FALSE
    /\ it = [c \in Candidate |-> [state |-> "absent", art |-> None, attempts |-> 0,
                                  due |-> FALSE, created |-> "before"]]
    /\ task = [c \in Candidate |-> "none"]
    /\ chatLock = None /\ read = {} /\ message = FALSE /\ files = {} /\ bound = {}
    /\ op = [c \in Candidate |-> [phase |-> "none", art |-> None, copy |-> "none"]]
    /\ stored = {} /\ targets = 0 /\ forgotten = FALSE /\ released = FALSE /\ gone = FALSE
    /\ turn = "idle" /\ faults = 0 /\ crashes = 0

Go(c, step) == task' = [task EXCEPT ![c] = step]
Scheduled(C) == [c \in Candidate |-> IF c \in C /\ task[c] = "none" THEN "start" ELSE task[c]]
Fault == faults < MaxFaults /\ faults' = faults + 1
NoFault == UNCHANGED faults

-----------------------------------------------------------------------------
(* The terminal event.                                                     *)

\* _notify_terminal tries three times; the grant is the same each time.
DeliverEvent ==
    /\ event = "due" /\ posts < 3
    /\ posts' = posts + 1
    /\ IF nonce THEN UNCHANGED <<event, nonce>>                 \* 403
                ELSE event' = "handling" /\ nonce' = TRUE
    /\ UNCHANGED <<binding, it, task, messageVars, serviceVars, turn, faults, crashes>>

GiveUp ==
    /\ event = "due" /\ posts = 3
    /\ event' = "lost"
    /\ UNCHANGED <<posts, nonce, binding, it, task, messageVars, serviceVars, turn, faults, crashes>>

\* record_terminal_response fails: the database is in the way, or the chat is gone.
EventFails ==
    /\ \/ "event_error" \in Inputs /\ event \in {"handling", "recording"} /\ Fault
       \/ gone /\ event = "handling" /\ NoFault
    /\ event' = "due"
    /\ UNCHANGED <<posts, nonce, binding, it, task, messageVars, serviceVars, turn, crashes>>

PutBinding ==
    /\ event = "handling" /\ ~gone
    /\ binding' = TRUE /\ event' = "recording"
    /\ UNCHANGED <<posts, nonce, it, task, messageVars, serviceVars, turn, faults, crashes>>

\* create_publish_intent: the unique key keeps the row that is there.
Created(c) ==
    IF it[c].state # "absent" THEN it
    ELSE [it EXCEPT ![c].state = "pending", ![c].due = TRUE,
                    ![c].created = IF turn = "idle" THEN "before" ELSE "after"]

RecordIntent(c) ==
    /\ event = "recording" /\ it[c].state = "absent"
    /\ it' = Created(c)
    /\ task' = Scheduled({c})
    /\ UNCHANGED <<eventVars, messageVars, serviceVars, turn, faults, crashes>>

EventRecorded ==
    /\ event = "recording" /\ \A c \in Candidate : it[c].state # "absent"
    /\ event' = "delivered"
    /\ UNCHANGED <<posts, nonce, binding, it, task, messageVars, serviceVars, turn, faults, crashes>>

-----------------------------------------------------------------------------
(* Who else schedules an intent.                                           *)

\* advance_candidate
Click(c) ==
    /\ "click" \in Inputs /\ message /\ ~gone /\ task[c] = "none" /\ it[c].state \notin Final
    /\ binding' = TRUE
    /\ it' = IF it[c].state = "retryable" THEN [it EXCEPT ![c].due = TRUE] ELSE Created(c)
    /\ task' = Scheduled({c})
    /\ UNCHANGED <<event, posts, nonce, messageVars, serviceVars, turn, faults, crashes>>

\* Deviation: intents whose operation has been captured are left to a click.
DueNotCaptured == {c \in Candidate : it[c].state \notin Final \cup {"absent", "captured"} /\ it[c].due}

Due == {c \in Candidate : it[c].state \notin Final \cup {"absent"} /\ it[c].due}

\* _publish_reconciler
Reconcile ==
    /\ \E c \in Due : task[c] = "none"
    /\ task' = Scheduled(Due)
    /\ UNCHANGED <<eventVars, it, messageVars, serviceVars, turn, faults, crashes>>

TimePasses(c) ==
    /\ it[c].state # "absent" /\ ~it[c].due
    /\ it' = [it EXCEPT ![c].due = TRUE]
    /\ UNCHANGED <<eventVars, task, messageVars, serviceVars, turn, faults, crashes>>

\* Deviation: only intents that are due hold the next turn up.
DueBarriers == {c \in Candidate : it[c].state = "pending" /\ it[c].due}

\* capture_barriers
Barriers == {c \in Candidate : it[c].state = "pending"}

\* inject_workspace_context: the next turn waits for the captures; those that
\* are due it schedules itself.
PollBarrier ==
    /\ "turn" \in Inputs /\ turn = "idle" /\ ~gone
    /\ \E c \in Barriers \cap Due : task[c] = "none"
    /\ task' = Scheduled(Barriers \cap Due)
    /\ UNCHANGED <<eventVars, it, messageVars, serviceVars, turn, faults, crashes>>

PassBarrier ==
    /\ "turn" \in Inputs /\ turn = "idle" /\ ~gone /\ Barriers = {}
    /\ turn' = "passed"
    /\ UNCHANGED <<eventVars, it, task, messageVars, serviceVars, faults, crashes>>

\* The Adapter accepts the continuation when the previous execution is over,
\* and it is over when its terminal event has been delivered or given up; what
\* does not continue it needs a sandbox of its own, once that one has ended.
StartTurn ==
    /\ turn = "passed" /\ (event \in {"delivered", "lost"} \/ released)
    /\ turn' = "running"
    /\ UNCHANGED <<eventVars, it, task, messageVars, serviceVars, faults, crashes>>

-----------------------------------------------------------------------------
(* _drive_intent.                                                          *)

\* _retry_intent
RetryRow(c) == [it EXCEPT ![c].due = FALSE,
                          ![c].state = IF it[c].attempts >= RetryLimit THEN "failed" ELSE "retryable"]
\* _retry_capture_intent
RetryCapture(c) == [it EXCEPT ![c].due = FALSE]

\* Deviation: a failed binding is retried like a failed upload.
BindFailedAsUpload(c) == RetryRow(c)

\* _retry_intent(binding=True)
BindFailed(c) == [it EXCEPT ![c].due = FALSE, ![c].state = "binding_retry"]

Start(c) ==
    /\ task[c] = "start"
    /\ Go(c, CASE it[c].state \in Final -> "none"
               [] it[c].state \in {"uploaded", "binding_retry"} -> "bind"
               [] it[c].state = "uploading" -> "wait"
               [] it[c].state = "pending" -> "capture"
               [] it[c].state \in {"captured", "retryable"} -> "upload")
    /\ UNCHANGED <<eventVars, it, messageVars, serviceVars, turn, faults, crashes>>

\* create_operation of the Manager: a new or a failed operation is started, one
\* that has been captured goes on when it gets a target, and looks for its copy.
Submitted(c, art) ==
    LET o == op[c] IN
    IF o.phase \in {"none", "failed"} THEN [op EXCEPT ![c].phase = "capturing", ![c].art = art]
    ELSE IF o.phase \in {"captured", "uploadFailed"} /\ art # None /\ o.art \in {None, art}
      THEN [op EXCEPT ![c].phase = IF o.copy = "gone" THEN "capturing" ELSE "uploading",
                      ![c].art = art]
    ELSE op

\* The Adapter knows the response, and its sandbox is the active one.
Accepted == ~forgotten /\ ~released

Asked(c) == IF task[c] = "capture" THEN Submitted(c, None)
            ELSE IF task[c] = "publish" THEN Submitted(c, it[c].art) ELSE op

\* A call fails, or its answer is lost: the except clauses.  A refused capture
\* may start in the sandbox that is active now; the Adapter drops its answer.
CallFails(c) ==
    /\ task[c] \in {"capture", "capturing", "upload", "publish", "wait"}
    /\ \/ Fault /\ (UNCHANGED op \/ (Accepted /\ op' = Asked(c)))
       \/ /\ ~Accepted /\ task[c] \in {"capture", "publish"} /\ NoFault
          /\ UNCHANGED op \/ (~forgotten /\ task[c] = "capture" /\ op' = Asked(c))
    /\ it' = IF it[c].state = "pending" THEN RetryCapture(c) ELSE RetryRow(c)
    /\ Go(c, "none")
    /\ UNCHANGED <<eventVars, messageVars, stored, targets, worldVars, turn, crashes>>

\* _capture_intent
RequestCapture(c) ==
    /\ task[c] = "capture" /\ Accepted
    /\ op' = Asked(c)
    /\ Go(c, "capturing")
    /\ UNCHANGED <<eventVars, it, messageVars, stored, targets, worldVars, turn, faults, crashes>>

CaptureReported(c) ==
    /\ task[c] = "capturing" /\ op[c].phase # "capturing"
    /\ IF op[c].phase = "failed"
         THEN /\ it' = [it EXCEPT ![c].state = "failed"]
              /\ Go(c, "none")
         ELSE /\ it' = [it EXCEPT ![c].state = "captured"]
              /\ Go(c, "upload")
    /\ UNCHANGED <<eventVars, messageVars, serviceVars, turn, faults, crashes>>

\* _upload_intent up to the upload target: the Artifact id of an earlier
\* attempt is asked for again.  Without the owner the intent fails, without the
\* chat it is retried, and no attempt is counted.
RequestTarget(c) ==
    /\ task[c] = "upload"
    /\ \/ /\ it[c].attempts >= RetryLimit \/ gone
          /\ it' = [it EXCEPT ![c].state = "failed"]
          /\ Go(c, "none") /\ UNCHANGED targets
       \/ /\ it[c].attempts < RetryLimit /\ gone
          /\ it' = RetryRow(c)
          /\ Go(c, "none") /\ UNCHANGED targets
       \/ /\ it[c].attempts < RetryLimit /\ ~gone
          /\ it[c].art = None => targets < MaxTargets
          /\ targets' = IF it[c].art = None THEN targets + 1 ELSE targets
          /\ Go(c, "target") /\ UNCHANGED it
    /\ UNCHANGED <<eventVars, messageVars, op, stored, worldVars, turn, faults, crashes>>

Attempt(c, art) == [it EXCEPT ![c].art = art, ![c].attempts = @ + 1, ![c].due = FALSE]

SaveTarget(c) ==
    /\ task[c] = "target"
    /\ \E art \in 1 .. targets :
        /\ IF it[c].art # None THEN art = it[c].art ELSE \A d \in Candidate : it[d].art # art
        /\ it' = Attempt(c, art)
    /\ Go(c, "publish")
    /\ UNCHANGED <<eventVars, messageVars, serviceVars, turn, faults, crashes>>

\* The call of the Adapter with the target; it answers at once.
RequestUpload(c) ==
    /\ task[c] = "publish" /\ Accepted
    /\ op' = Asked(c)
    /\ it' = [it EXCEPT ![c].state = "uploading"]
    /\ Go(c, "wait")
    /\ UNCHANGED <<eventVars, messageVars, stored, targets, worldVars, turn, faults, crashes>>

\* _wait_publish_operation and _finish_publish_operation
UploadReported(c) ==
    /\ task[c] = "wait" /\ op[c].phase \in {"failed", "uploadFailed", "succeeded"}
    /\ IF op[c].phase = "succeeded" /\ op[c].art = it[c].art
         THEN /\ it' = [it EXCEPT ![c].state = "uploaded"]
              /\ Go(c, "bind")
         ELSE /\ it' = IF op[c].phase = "failed"
                         THEN [it EXCEPT ![c].state = "failed"] ELSE RetryRow(c)
              /\ Go(c, "none")
    /\ UNCHANGED <<eventVars, messageVars, serviceVars, turn, faults, crashes>>

\* Deviation: nobody waits for the chat.
ChatUnlocked(c) == TRUE

ChatFree(c) == chatLock = None

\* _bind_published_locked reads the message ...
ReadMessage(c) ==
    /\ task[c] = "bind" /\ ChatFree(c)
    /\ IF message /\ ~gone
         THEN /\ chatLock' = c /\ read' = files
              /\ Go(c, "attach")
              /\ UNCHANGED it
         ELSE /\ it' = BindFailed(c)
              /\ Go(c, "none")
              /\ UNCHANGED <<chatLock, read>>
    /\ UNCHANGED <<eventVars, message, files, bound, serviceVars, turn, faults, crashes>>

\* ... writes it back with the new file ...
AttachFile(c) ==
    /\ task[c] = "attach"
    /\ IF gone
         THEN /\ it' = BindFailed(c)
              /\ Go(c, "none") /\ chatLock' = None
              /\ UNCHANGED files
         ELSE /\ files' = read \cup {c}
              /\ Go(c, "check")
              /\ UNCHANGED <<it, chatLock>>
    /\ UNCHANGED <<eventVars, read, message, bound, serviceVars, turn, faults, crashes>>

\* ... reads it again, binds the Artifact and marks the intent ready.
CheckAttachment(c) ==
    /\ task[c] = "check" /\ ~gone
    /\ IF c \in files
         THEN /\ bound' = bound \cup {c}
              /\ it' = [it EXCEPT ![c].state = "ready"]
              /\ Go(c, "emit")
              /\ UNCHANGED chatLock
         ELSE /\ it' = BindFailed(c)
              /\ Go(c, "none")
              /\ chatLock' = None
              /\ UNCHANGED bound
    /\ UNCHANGED <<eventVars, read, message, files, serviceVars, turn, faults, crashes>>

EmitFiles(c) ==
    /\ task[c] = "emit"
    /\ chatLock' = None /\ Go(c, "none")
    /\ UNCHANGED <<eventVars, it, read, message, files, bound, serviceVars, turn, faults, crashes>>

\* A statement of the binding raises, or the message is gone when it is read
\* again; the except clause knows no binding.
BindRaises(c) ==
    /\ \/ "bind_error" \in Inputs /\ task[c] \in {"attach", "check", "emit"} /\ Fault
       \/ gone /\ task[c] = "check" /\ NoFault
    /\ it' = RetryRow(c)
    /\ chatLock' = None /\ Go(c, "none")
    /\ UNCHANGED <<eventVars, read, message, files, bound, serviceVars, turn, crashes>>

-----------------------------------------------------------------------------
(* The Manager, the Artifact Service, Open WebUI and the process.          *)

\* What is captured while the next turn runs may be what that turn wrote.  A
\* capture after the copy was removed is a second one; if it fails, the row
\* still has the first.
OpCaptures(c) ==
    /\ op[c].phase = "capturing"
    /\ \/ \E copy \in {"own", "later"} :
            /\ copy = "later" => turn = "running"
            /\ op' = [op EXCEPT ![c].copy = copy,
                                ![c].phase = IF op[c].art = None THEN "captured" ELSE "uploading"]
            /\ NoFault
       \/ Fault /\ op' = [op EXCEPT ![c].phase = IF op[c].copy = "gone" THEN "uploadFailed"
                                                                      ELSE "failed"]
    /\ UNCHANGED <<eventVars, it, task, messageVars, stored, targets, worldVars, turn, crashes>>

\* The Artifact Service: an id that is taken keeps its content.
Takes(s) == \A t \in stored : t[2] = s[2] => t = s

\* An upload may fail after the Artifact was committed, and after the copy was
\* removed, when the Manager does not learn of it.
OpUploads(c) ==
    LET s == <<c, op[c].art, op[c].copy>> IN
    /\ op[c].phase = "uploading"
    /\ \/ /\ Takes(s) /\ stored' = stored \cup {s}
          /\ \/ op' = [op EXCEPT ![c].phase = "succeeded"] /\ NoFault
             \/ /\ Fault
                /\ \E copy \in {op[c].copy, "gone"} :
                        op' = [op EXCEPT ![c].phase = "uploadFailed", ![c].copy = copy]
       \/ /\ Fault \/ (~Takes(s) /\ NoFault)
          /\ op' = [op EXCEPT ![c].phase = "uploadFailed"] /\ UNCHANGED stored
    /\ UNCHANGED <<eventVars, it, task, messageVars, targets, worldVars, turn, crashes>>

SaveMessage ==
    /\ ~message /\ ~gone
    /\ message' = TRUE
    /\ UNCHANGED <<eventVars, it, task, chatLock, read, files, bound, serviceVars, turn, faults, crashes>>

RestartAdapter ==
    /\ "adapter_restart" \in Inputs /\ ~forgotten /\ event \in {"delivered", "lost"}
    /\ forgotten' = TRUE
    /\ UNCHANGED <<eventVars, it, task, messageVars, op, stored, targets, released, gone,
                   turn, faults, crashes>>

SandboxEnds ==
    /\ "sandbox_end" \in Inputs /\ ~released
    /\ released' = TRUE
    /\ UNCHANGED <<eventVars, it, task, messageVars, op, stored, targets, forgotten, gone,
                   turn, faults, crashes>>

DeleteChat ==
    /\ "delete" \in Inputs /\ ~gone
    /\ gone' = TRUE
    /\ UNCHANGED <<eventVars, it, task, messageVars, op, stored, targets, forgotten, released,
                   turn, faults, crashes>>

\* The tasks and the locks are gone; the Adapter sees a failed delivery.
Crash ==
    /\ crashes < MaxCrashes
    /\ crashes' = crashes + 1
    /\ task' = [c \in Candidate |-> "none"]
    /\ chatLock' = None /\ read' = {}
    /\ event' = IF event \in {"handling", "recording"} THEN "due" ELSE event
    /\ UNCHANGED <<posts, nonce, binding, it, message, files, bound, serviceVars, turn, faults>>

-----------------------------------------------------------------------------
HandleEvent ==
    \/ DeliverEvent \/ GiveUp \/ PutBinding \/ EventRecorded \/ (gone /\ EventFails)
    \/ \E c \in Candidate : RecordIntent(c)

Drive(c) ==
    \/ Start(c) \/ RequestCapture(c) \/ CaptureReported(c) \/ RequestTarget(c) \/ SaveTarget(c)
    \/ RequestUpload(c) \/ UploadReported(c)
    \/ AttachFile(c) \/ CheckAttachment(c) \/ EmitFiles(c)
    \/ ~Accepted /\ CallFails(c)
    \/ gone /\ BindRaises(c)

Environment ==
    \/ EventFails \/ RestartAdapter \/ SandboxEnds \/ DeleteChat \/ Crash
    \/ PollBarrier \/ PassBarrier \/ StartTurn
    \/ \E c \in Candidate : Click(c) \/ CallFails(c) \/ BindRaises(c)

Services(c) == OpCaptures(c) \/ OpUploads(c) \/ TimePasses(c)

Next ==
    \/ HandleEvent \/ Reconcile \/ SaveMessage \/ Environment
    \/ \E c \in Candidate : Drive(c) \/ ReadMessage(c) \/ Services(c)

Spec == Init /\ [][Next]_vars

\* The event is delivered, tasks run, the reconciler loops, time passes,
\* operations end, Open WebUI saves the message.  asyncio.Lock is first-come
\* first-served: strong fairness for the chat lock.
Fairness ==
    /\ WF_vars(HandleEvent) /\ WF_vars(Reconcile) /\ WF_vars(SaveMessage)
    /\ \A c \in Candidate : /\ WF_vars(Drive(c)) /\ SF_vars(ReadMessage(c))
                            /\ WF_vars(OpCaptures(c)) /\ WF_vars(OpUploads(c))
                            /\ WF_vars(TimePasses(c))

FairSpec == Spec /\ Fairness

-----------------------------------------------------------------------------
\* A ready file can be downloaded and seen: its Artifact is committed, it is
\* bound to the message and attached to it.
ReadyIsBacked ==
    \A c \in Candidate : it[c].state = "ready" =>
        /\ c \in files /\ c \in bound
        /\ \E s \in stored : s[1] = c /\ s[2] = it[c].art

\* The operation of an intent has the Artifact id the row tells: a retry that
\* came with another would be refused for ever, one file would become two.
RetriesKeepTheTarget ==
    \A c \in Candidate : op[c].art # None => op[c].art = it[c].art

\* Files that are shown exist, and an intent is uploaded to one Artifact only.
IntentInvariant == TypeOK /\ ReadyIsBacked /\ RetriesKeepTheTarget

\* A file whose intent was recorded before the next turn passed the barrier is
\* captured before that turn runs: no Artifact has what that turn wrote, and only
\* behind the upload of its own copy may another be taken.
BarrierHolds ==
    \A c \in Candidate : it[c].created = "before" =>
        /\ \A s \in stored : s[1] = c => s[3] = "own"
        /\ op[c].copy = "later" => \E s \in stored : s[1] = c

\* What has been uploaded is not uploaded again: only the binding is retried,
\* and a ready file stays ready (docs/sandbox-manager.md), unless a statement of
\* the binding raises, which the except clause takes for a failed upload.
OnlyTheBindingIsRetried ==
    [][\A c \in Candidate :
        it[c].state \in Uploaded => it'[c].state \in Uploaded \/ BindRaises(c)]_vars

\* Every intent ends, through crashes of the BFF and failing calls, but for two
\* kinds that are retried for ever: a capture the Adapter or the Manager refuses,
\* for the response is forgotten or its sandbox has ended, and, when the chat is
\* deleted, what was neither failed nor attached.
IntentsEnd ==
    \A c \in Candidate :
        it[c].state # "absent" ~>
            \/ it[c].state \in Final
            \/ it[c].state = "pending" /\ ~Accepted
            \/ it[c].state \in {"retryable", "binding_retry"} /\ gone
=============================================================================
