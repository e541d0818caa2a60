------------------------ MODULE PublishIntents_proofs ------------------------
(***************************************************************************)
(* The files an answer names, for any number of candidates, upload         *)
(* targets, faults and crashes: what is shown is stored, an intent has one *)
(* Artifact, and the next turn cannot change what is captured.             *)
(*                                                                         *)
(* A task works on the row it has read steps before.  Nothing else moves   *)
(* the row on meanwhile, so where the task is tells the state (Follows).   *)
(* A row that is past its capture has an operation that is (Progress); the *)
(* capture is made again only behind an upload that removed the copy, and  *)
(* what it takes finds the Artifact there (Behind).                        *)
(***************************************************************************)
EXTENDS PublishIntents, TLAPS

Reading == {"attach", "check"}
Binding == Reading \cup {"emit"}
PastCapture == {"captured", "retryable", "uploading"} \cup Uploaded

\* The task of an intent, and the state its steps rely on.
Follows(c) ==
    /\ it[c].state = "absent" => task[c] = "none"
    /\ task[c] \in {"capture", "capturing"} => it[c].state = "pending"
    /\ task[c] \in {"upload", "target", "publish"} => it[c].state \in {"captured", "retryable"}
    /\ task[c] = "wait" => it[c].state = "uploading"
    /\ task[c] \in {"bind"} \cup Reading => it[c].state \in {"uploaded", "binding_retry"}
    /\ task[c] = "emit" => it[c].state = "ready"
    /\ task[c] = "target" => it[c].attempts < RetryLimit
    /\ task[c] = "publish" => it[c].art # None
    /\ task[c] = "capturing" => op[c].phase # "none"

\* The intent and the operation of the Manager; a capture behind an upload is
\* the second one of its operation.
Captured == {"captured", "uploading", "uploadFailed", "succeeded"}
Recaptures(c) == op[c].phase = "capturing" /\ op[c].copy = "gone"
Progress(c) ==
    /\ it[c].state = "absent" =>
          it[c].art = None /\ op[c].phase = "none" /\ op[c].art = None /\ op[c].copy = "none"
    /\ op[c].phase = "capturing" => it[c].state = "pending" \/ op[c].copy = "gone"
    /\ it[c].state \in PastCapture => op[c].phase \in Captured \/ Recaptures(c)
    /\ op[c].phase \in {"uploading", "succeeded"} => op[c].art # None
    /\ op[c].phase \in Captured => op[c].copy # "none"
    /\ op[c].phase \notin Captured => op[c].copy \in {"none", "gone"}
    /\ op[c].copy = "gone" => op[c].phase \in {"capturing", "uploadFailed"}
    /\ op[c].art # None => op[c].art = it[c].art

\* What an intent has stored, attached and bound.
Of(c) == {s \in stored : s[1] = c}
Has(c, art) == \E s \in Of(c) : s[2] = art
Backed(c) ==
    /\ it[c].state = "absent" => Of(c) = {}
    /\ op[c].phase = "succeeded" => Has(c, op[c].art)
    /\ it[c].state \in Uploaded => Has(c, it[c].art)
    /\ it[c].state = "ready" => c \in files /\ c \in bound

\* One task at a time rewrites the message, from what it has read.
Exclusive(c) ==
    /\ task[c] \in Binding => chatLock = c
    /\ task[c] = "attach" => read = files

\* When the next turn has passed the barrier, nothing before it is uncaptured;
\* another copy is taken behind an upload only, and finds its Artifact taken.
Again(c) == op[c].art # None /\ Has(c, op[c].art)
Behind(c) ==
    /\ turn # "idle" /\ it[c].state = "pending" => it[c].created = "after"
    /\ op[c].copy = "gone" => Again(c)
    /\ it[c].created = "before" =>
          /\ \A s \in Of(c) : s[3] = "own"
          /\ op[c].copy = "later" => Again(c)

Good(c) == Follows(c) /\ Progress(c) /\ Backed(c) /\ Exclusive(c) /\ Behind(c)
Inv == TypeOK /\ \A c \in Candidate : Good(c)

-----------------------------------------------------------------------------
LEMMA InitInv == Init => Inv
<1> SUFFICES ASSUME Init PROVE Inv
  OBVIOUS
<1>1. TypeOK
  <2>1. /\ RetryLimit \in Nat /\ MaxTargets \in Nat /\ MaxFaults \in Nat /\ MaxCrashes \in Nat
    BY IntentAssumption
  <2>2. it \in [Candidate -> Row] /\ task \in [Candidate -> Steps]
    BY <2>1 DEF Init, Row, States, Steps
  <2>3. op \in [Candidate -> Op]
    BY DEF Init, Op, Phases, Copies
  <2>4. /\ nonce \in BOOLEAN /\ binding \in BOOLEAN /\ message \in BOOLEAN
        /\ forgotten \in BOOLEAN /\ released \in BOOLEAN /\ gone \in BOOLEAN
    BY Zenon DEF Init
  <2>41. event = "due" /\ turn = "idle" /\ chatLock = None /\ posts = 0
    BY DEF Init
  <2>5. read = {} /\ files = {} /\ bound = {} /\ stored = {}
    BY DEF Init
  <2>6. targets \in 0 .. MaxTargets /\ faults \in 0 .. MaxFaults /\ crashes \in 0 .. MaxCrashes
    BY <2>1 DEF Init
  <2> QED BY <2>2, <2>3, <2>4, <2>41, <2>5, <2>6 DEF TypeOK
<1>2. ASSUME NEW c \in Candidate PROVE Good(c)
  BY DEF Init, Good, Follows, Progress, Backed, Exclusive, Behind, Captured, Recaptures, Again, Has, Of, PastCapture, Uploaded,
         Binding, Reading
<1> QED BY <1>1, <1>2 DEF Inv

\* What the types say about one intent.
LEMMA RowTypes ==
  ASSUME TypeOK, NEW c \in Candidate
  PROVE  /\ it[c] \in Row /\ task[c] \in Steps
         /\ op[c] \in Op
         /\ it[c].art # None => it[c].art \in Artifact
         /\ op[c].art # None => op[c].art \in Artifact
BY DEF TypeOK, Row, Op

\* An intent whose row, task and operation a step leaves alone.
LEMMA Untouched ==
  ASSUME NEW c \in Candidate, Good(c),
         it'[c] = it[c], task'[c] = task[c], op'[c] = op[c],
         Of(c)' = Of(c), files \subseteq files', bound \subseteq bound',
         turn' = turn,
         task[c] \in Binding => UNCHANGED <<chatLock, read, files>>
  PROVE  Good(c)'
<1>1. Follows(c)' /\ Progress(c)' /\ Behind(c)'
  BY DEF Good, Follows, Progress, Behind, Captured, Recaptures, Again, Has
<1>2. Backed(c)'
  BY DEF Good, Backed, Has
<1>3. Exclusive(c)'
  BY DEF Good, Exclusive, Binding, Reading
<1> QED BY <1>1, <1>2, <1>3 DEF Good

\* A step of one intent.
LEMMA OneIntent ==
  ASSUME Inv, NEW c \in Candidate, TypeOK', Good(c)',
         \A d \in Candidate \ {c} : it'[d] = it[d] /\ task'[d] = task[d] /\ op'[d] = op[d],
         stored' = stored \/ \E s : s[1] = c /\ stored' = stored \cup {s},
         files \subseteq files', bound \subseteq bound',
         turn' = turn,
         \/ UNCHANGED <<chatLock, read, files>>
         \/ \A d \in Candidate \ {c} : task[d] \notin Binding
  PROVE  Inv'
<1>1. ASSUME NEW d \in Candidate \ {c} PROVE Good(d)'
  <2>1. Of(d)' = Of(d)
    BY DEF Of
  <2> QED BY <2>1, Untouched DEF Inv
<1> QED BY <1>1 DEF Inv

\* Holding the lock of the chat keeps the other tasks out of the message.
LEMMA OneBinds ==
  ASSUME Inv, NEW c \in Candidate, chatLock \in {None, c}
  PROVE  \A d \in Candidate \ {c} : task[d] \notin Binding
BY IntentAssumption DEF Inv, Good, Exclusive

-----------------------------------------------------------------------------
\* Steps that touch neither rows, tasks nor operations, nor the message.
LEMMA EventSteps ==
  ASSUME Inv, DeliverEvent \/ GiveUp \/ EventFails \/ PutBinding \/ EventRecorded
                \/ SaveMessage \/ RestartAdapter \/ SandboxEnds \/ DeleteChat
  PROVE  Inv'
<1>1. UNCHANGED <<it, task, op, stored, files, bound, chatLock, read, turn, targets>>
  BY DEF DeliverEvent, GiveUp, EventFails, PutBinding, EventRecorded, SaveMessage, RestartAdapter,
         SandboxEnds, DeleteChat, messageVars, serviceVars, eventVars
<1>11. /\ event' \in {"due", "handling", "recording", "delivered", "lost"}
       /\ nonce' \in BOOLEAN /\ binding' \in BOOLEAN /\ message' \in BOOLEAN
       /\ forgotten' \in BOOLEAN /\ released' \in BOOLEAN /\ gone' \in BOOLEAN
  <2>1. event' \in {"due", "handling", "recording", "delivered", "lost"}
    BY DEF Inv, TypeOK, DeliverEvent, GiveUp, EventFails, PutBinding, EventRecorded, SaveMessage,
           RestartAdapter, SandboxEnds, DeleteChat, messageVars, serviceVars, worldVars, eventVars
  <2>2. nonce' \in BOOLEAN /\ binding' \in BOOLEAN
    BY DEF Inv, TypeOK, DeliverEvent, GiveUp, EventFails, PutBinding, EventRecorded, SaveMessage,
           RestartAdapter, SandboxEnds, DeleteChat, messageVars, serviceVars, worldVars, eventVars
  <2>3. message' \in BOOLEAN /\ forgotten' \in BOOLEAN
    BY DEF Inv, TypeOK, DeliverEvent, GiveUp, EventFails, PutBinding, EventRecorded, SaveMessage,
           RestartAdapter, SandboxEnds, DeleteChat, messageVars, serviceVars, worldVars, eventVars
  <2>4. released' \in BOOLEAN /\ gone' \in BOOLEAN
    BY DEF Inv, TypeOK, DeliverEvent, GiveUp, EventFails, PutBinding, EventRecorded, SaveMessage,
           RestartAdapter, SandboxEnds, DeleteChat, messageVars, serviceVars, worldVars, eventVars
  <2> QED BY <2>1, <2>2, <2>3, <2>4
<1>12. posts' \in 0 .. 3 /\ faults' \in 0 .. MaxFaults /\ crashes' = crashes
  BY IntentAssumption
     DEF Inv, TypeOK, DeliverEvent, GiveUp, EventFails, PutBinding, EventRecorded, SaveMessage,
         RestartAdapter, SandboxEnds, DeleteChat, Fault, NoFault, messageVars, serviceVars, eventVars
<1>2. TypeOK'
  BY <1>1, <1>11, <1>12 DEF Inv, TypeOK
<1>3. ASSUME NEW c \in Candidate PROVE Good(c)'
  <2>1. Of(c)' = Of(c)
    BY <1>1 DEF Of
  <2> QED BY <1>1, <1>3, <2>1, Untouched DEF Inv
<1> QED BY <1>2, <1>3 DEF Inv

\* Steps that start tasks, of intents that have a row.
LEMMA ScheduleSteps ==
  ASSUME Inv, NEW C, \A c \in C \cap Candidate : it[c].state # "absent",
         task' = Scheduled(C),
         UNCHANGED <<eventVars, it, messageVars, serviceVars, turn, faults, crashes>>
  PROVE  Inv'
<1>1. TypeOK'
  BY DEF Inv, TypeOK, Scheduled, Steps, eventVars, messageVars, serviceVars, worldVars
<1>2. UNCHANGED <<it, op, stored, files, bound, chatLock, read, turn>>
  BY DEF messageVars, serviceVars
<1>3. ASSUME NEW c \in Candidate PROVE Good(c)'
  <2>1. CASE task'[c] = task[c]
    <3>1. Of(c)' = Of(c)
      BY <1>2 DEF Of
    <3> QED BY <1>2, <2>1, <3>1, Untouched DEF Inv
  <2>2. CASE task[c] = "none" /\ task'[c] = "start" /\ it[c].state # "absent"
    BY <1>2, <2>2 DEF Inv, Good, Follows, Progress, Backed, Exclusive, Behind, Captured, Recaptures, Again, Has, Of, Binding, Reading
  <2> QED BY <2>1, <2>2 DEF Scheduled
<1> QED BY <1>1, <1>3 DEF Inv

-----------------------------------------------------------------------------
\* One row is written.
LEMMA RowWritten ==
  ASSUME TypeOK, NEW c \in Candidate, NEW row \in Row, it' = [it EXCEPT ![c] = row]
  PROVE  it' \in [Candidate -> Row] /\ it'[c] = row /\ \A d \in Candidate \ {c} : it'[d] = it[d]
BY DEF TypeOK

\* Only the deadline of a row moves.
LEMMA DueWritten ==
  ASSUME TypeOK, NEW c \in Candidate,
         it' = [it EXCEPT ![c].due = TRUE] \/ it' = [it EXCEPT ![c].due = FALSE]
  PROVE  /\ it' \in [Candidate -> Row]
         /\ \A d \in Candidate \ {c} : it'[d] = it[d]
         /\ it'[c].state = it[c].state /\ it'[c].art = it[c].art
         /\ it'[c].created = it[c].created /\ it'[c].attempts = it[c].attempts
<1> DEFINE late == [it[c] EXCEPT !.due = TRUE]
           early == [it[c] EXCEPT !.due = FALSE]
<1>1. it[c] \in Row
  BY DEF TypeOK
<1>2. late \in Row /\ early \in Row
  BY <1>1 DEF Row
<1>3. /\ late.state = it[c].state /\ late.art = it[c].art
      /\ late.created = it[c].created /\ late.attempts = it[c].attempts
      /\ early.state = it[c].state /\ early.art = it[c].art
      /\ early.created = it[c].created /\ early.attempts = it[c].attempts
  BY <1>1 DEF Row
<1>4. it' = [it EXCEPT ![c] = late] \/ it' = [it EXCEPT ![c] = early]
  OBVIOUS
<1> HIDE DEF late, early
<1> QED BY <1>2, <1>3, <1>4, RowWritten

\* create_publish_intent gives an absent row, and only that, its first state.
LEMMA CreatedRow ==
  ASSUME Inv, NEW c \in Candidate, it[c].state = "absent"
  PROVE  /\ Created(c) \in [Candidate -> Row]
         /\ \A d \in Candidate \ {c} : Created(c)[d] = it[d]
         /\ Created(c)[c].state = "pending" /\ Created(c)[c].art = it[c].art
         /\ turn # "idle" => Created(c)[c].created = "after"
<1> DEFINE created == IF turn = "idle" THEN "before" ELSE "after"
           row == [it[c] EXCEPT !.state = "pending", !.due = TRUE, !.created = created]
<1>1. it[c] \in Row /\ it \in [Candidate -> Row]
  BY DEF Inv, TypeOK
<1>2. row \in Row
  BY <1>1 DEF Row, States
<1>3. Created(c) = [it EXCEPT ![c] = row]
  BY <1>1 DEF Created
<1>4. row.state = "pending" /\ row.art = it[c].art /\ row.created = created
  BY <1>1 DEF Row
<1> HIDE DEF row
<1> QED BY <1>1, <1>2, <1>3, <1>4

\* The intent and its task begin.
LEMMA CreateKeeps ==
  ASSUME Inv, NEW c \in Candidate, it[c].state = "absent",
         it' = Created(c), task' = Scheduled({c}),
         binding' \in BOOLEAN,
         UNCHANGED <<event, posts, nonce, messageVars, serviceVars, turn, faults, crashes>>
  PROVE  Inv'
<1>1. UNCHANGED <<op, stored, files, bound, chatLock, read, turn>>
  BY DEF messageVars, serviceVars
<1>2. task[c] = "none" /\ task'[c] = "start" /\ \A d \in Candidate \ {c} : task'[d] = task[d]
  BY DEF Inv, Good, Follows, Scheduled
<1>3. TypeOK'
  <2>1. it' \in [Candidate -> Row]
    BY CreatedRow
  <2>2. task' \in [Candidate -> Steps]
    BY DEF Inv, TypeOK, Scheduled, Steps
  <2> QED BY <2>1, <2>2 DEF Inv, TypeOK, messageVars, serviceVars, worldVars
<1>4. Good(c)'
  <2>1. /\ it'[c].state = "pending" /\ it'[c].art = it[c].art
        /\ turn # "idle" => it'[c].created = "after"
    BY CreatedRow
  <2>2. Good(c)
    BY DEF Inv
  <2> QED BY <1>1, <1>2, <2>1, <2>2
          DEF Good, Follows, Progress, Backed, Exclusive, Behind, Captured, Recaptures, Again, Has, Of, Binding, Reading, PastCapture, Uploaded
<1>5. \A d \in Candidate \ {c} : it'[d] = it[d]
  BY CreatedRow
<1> QED BY <1>1, <1>2, <1>3, <1>4, <1>5, OneIntent

LEMMA RecordKeeps ==
  ASSUME Inv, NEW c \in Candidate, RecordIntent(c)
  PROVE  Inv'
<1>1. /\ it[c].state = "absent" /\ it' = Created(c) /\ task' = Scheduled({c})
      /\ UNCHANGED <<event, posts, nonce, binding, messageVars, serviceVars, turn, faults, crashes>>
  BY DEF RecordIntent, eventVars
<1>2. binding' \in BOOLEAN
  BY <1>1 DEF Inv, TypeOK
<1> QED BY <1>1, <1>2, CreateKeeps

\* An intent gets another deadline, and its task may begin.
LEMMA DueKeeps ==
  ASSUME Inv, NEW c \in Candidate,
         it' = [it EXCEPT ![c].due = TRUE] \/ it' = [it EXCEPT ![c].due = FALSE],
         TypeOK',
         task' = task \/ (task' = Scheduled({c}) /\ it[c].state # "absent"),
         UNCHANGED <<messageVars, serviceVars, turn>>
  PROVE  Inv'
<1>1. UNCHANGED <<op, stored, files, bound, chatLock, read, turn>>
  BY DEF messageVars, serviceVars
<1>2. /\ \A d \in Candidate \ {c} : it'[d] = it[d]
      /\ it'[c].state = it[c].state /\ it'[c].art = it[c].art
      /\ it'[c].created = it[c].created /\ it'[c].attempts = it[c].attempts
  BY DueWritten DEF Inv
<1>3. /\ \A d \in Candidate \ {c} : task'[d] = task[d]
      /\ task'[c] = task[c] \/ (task[c] = "none" /\ task'[c] = "start" /\ it[c].state # "absent")
  BY DEF Inv, TypeOK, Scheduled
<1>4. Good(c)'
  <2>1. Good(c)
    BY DEF Inv
  <2> QED BY <1>1, <1>2, <1>3, <2>1
          DEF Good, Follows, Progress, Backed, Exclusive, Behind, Captured, Recaptures, Again, Has, Of, Binding, Reading
<1> QED BY <1>1, <1>2, <1>3, <1>4, OneIntent

LEMMA ClickKeeps ==
  ASSUME Inv, NEW c \in Candidate, Click(c)
  PROVE  Inv'
<1>1. /\ task[c] = "none" /\ task' = Scheduled({c}) /\ binding' \in BOOLEAN
      /\ UNCHANGED <<event, posts, nonce, messageVars, serviceVars, turn, faults, crashes>>
  BY DEF Click
<1>2. CASE it[c].state = "absent"
  <2>1. it' = Created(c)
    BY <1>2 DEF Click
  <2> QED BY <1>1, <1>2, <2>1, CreateKeeps
<1>3. CASE it[c].state # "absent" /\ it' = it
  <2>1. TypeOK'
    BY <1>1, <1>3 DEF Inv, TypeOK, Scheduled, Steps, messageVars, serviceVars, worldVars
  <2>2. ASSUME NEW d \in Candidate PROVE Good(d)'
    <3>1. Good(d) /\ UNCHANGED <<op, it, stored, files, bound, chatLock, read, turn>>
      BY <1>1, <1>3 DEF Inv, messageVars, serviceVars
    <3>2. task'[d] = task[d] \/ (task[d] = "none" /\ task'[d] = "start" /\ it[d].state # "absent")
      BY <1>1, <1>3 DEF Scheduled
    <3> QED BY <3>1, <3>2
            DEF Good, Follows, Progress, Backed, Exclusive, Behind, Captured, Recaptures, Again, Has, Of, Binding, Reading
  <2> QED BY <2>1, <2>2 DEF Inv
<1>4. CASE it[c].state = "retryable" /\ it' = [it EXCEPT ![c].due = TRUE]
  <2>1. TypeOK'
    <3>1. it' \in [Candidate -> Row]
      BY <1>4, DueWritten DEF Inv
    <3>2. task' \in [Candidate -> Steps]
      BY <1>1 DEF Inv, TypeOK, Scheduled, Steps
    <3> QED BY <1>1, <3>1, <3>2 DEF Inv, TypeOK, messageVars, serviceVars, worldVars
  <2> QED BY <1>1, <1>4, <2>1, DueKeeps
<1> QED BY <1>2, <1>3, <1>4 DEF Click, Created

LEMMA TimePassesKeeps ==
  ASSUME Inv, NEW c \in Candidate, TimePasses(c)
  PROVE  Inv'
<1>1. /\ it' = [it EXCEPT ![c].due = TRUE] /\ UNCHANGED <<messageVars, serviceVars, turn, task>>
      /\ UNCHANGED <<eventVars, faults, crashes>>
  BY DEF TimePasses
<1>2. it' \in [Candidate -> Row]
  BY <1>1, DueWritten DEF Inv
<1>3. TypeOK'
  BY <1>1, <1>2 DEF Inv, TypeOK, eventVars, messageVars, serviceVars, worldVars
<1> QED BY <1>1, <1>3, DueKeeps

-----------------------------------------------------------------------------
(* The next turn, and the reconciler.                                      *)
LEMMA TurnKeeps ==
  ASSUME Inv, Reconcile \/ PollBarrier \/ PassBarrier \/ StartTurn
  PROVE  Inv'
<1>1. CASE Reconcile
  BY <1>1, ScheduleSteps DEF Reconcile, Due
<1>2. CASE PollBarrier
  BY <1>2, ScheduleSteps DEF PollBarrier, Barriers, Due
<1>3. CASE PassBarrier \/ StartTurn
  <2>1. /\ UNCHANGED <<eventVars, it, task, messageVars, serviceVars, faults, crashes>>
        /\ turn' \in {"passed", "running"}
    BY <1>3 DEF PassBarrier, StartTurn
  <2>2. TypeOK'
    BY <2>1 DEF Inv, TypeOK, eventVars, messageVars, serviceVars, worldVars
  <2>3. turn = "idle" => \A c \in Candidate : it[c].state # "pending"
    BY <1>3 DEF PassBarrier, StartTurn, Barriers
  <2>4. ASSUME NEW c \in Candidate PROVE Good(c)'
    <3>1. UNCHANGED <<it, task, op, stored, files, bound, chatLock, read>>
      BY <2>1 DEF messageVars, serviceVars
    <3>2. Of(c)' = Of(c)
      BY <3>1 DEF Of
    <3>3. Behind(c)'
      BY <2>3, <3>1, <3>2 DEF Inv, Good, Behind, Again, Has
    <3> QED BY <3>1, <3>2, <3>3 DEF Inv, Good, Follows, Progress, Captured, Recaptures, Backed, Has, Exclusive
  <2> QED BY <2>2, <2>4 DEF Inv
<1> QED BY <1>1, <1>2, <1>3

LEMMA CrashKeeps ==
  ASSUME Inv, Crash
  PROVE  Inv'
<1>1. /\ task' = [c \in Candidate |-> "none"] /\ chatLock' = None /\ read' = {}
      /\ UNCHANGED <<it, op, stored, files, bound, turn>>
  BY DEF Crash, serviceVars
<1>2. TypeOK'
  <2>1. task' \in [Candidate -> Steps] /\ crashes' \in 0 .. MaxCrashes
    BY <1>1, IntentAssumption DEF Inv, TypeOK, Crash, Steps
  <2>2. event' \in {"due", "handling", "recording", "delivered", "lost"}
    BY DEF Inv, TypeOK, Crash
  <2> QED BY <1>1, <2>1, <2>2 DEF Inv, TypeOK, Crash, serviceVars, worldVars
<1>3. ASSUME NEW c \in Candidate PROVE Good(c)'
  BY <1>1 DEF Inv, Good, Follows, Progress, Backed, Exclusive, Behind, Captured, Recaptures, Again, Has, Of, Binding, Reading
<1> QED BY <1>2, <1>3 DEF Inv

-----------------------------------------------------------------------------
(* _drive_intent.                                                          *)

\* The task goes to another step.
LEMMA TaskMoved ==
  ASSUME TypeOK, NEW c \in Candidate, NEW step \in Steps, Go(c, step)
  PROVE  /\ task' \in [Candidate -> Steps] /\ task'[c] = step
         /\ \A d \in Candidate \ {c} : task'[d] = task[d]
BY DEF TypeOK, Go

\* What the except clauses write.
LEMMA RetryWritten ==
  ASSUME TypeOK, NEW c \in Candidate, it' = RetryRow(c) \/ it' = BindFailed(c)
  PROVE  /\ it' \in [Candidate -> Row]
         /\ \A d \in Candidate \ {c} : it'[d] = it[d]
         /\ it' = RetryRow(c) => it'[c].state \in {"failed", "retryable"}
         /\ it' = BindFailed(c) => it'[c].state = "binding_retry"
         /\ it'[c].art = it[c].art /\ it'[c].created = it[c].created
         /\ it'[c].attempts = it[c].attempts
<1> DEFINE state == IF it[c].attempts >= RetryLimit THEN "failed" ELSE "retryable"
           retried == [it[c] EXCEPT !.due = FALSE, !.state = state]
           unbound == [it[c] EXCEPT !.due = FALSE, !.state = "binding_retry"]
<1>1. it[c] \in Row
  BY DEF TypeOK
<1>2. retried \in Row /\ unbound \in Row
  BY <1>1 DEF Row, States
<1>3. /\ retried.art = it[c].art /\ retried.created = it[c].created
      /\ retried.attempts = it[c].attempts /\ retried.state \in {"failed", "retryable"}
      /\ unbound.art = it[c].art /\ unbound.created = it[c].created
      /\ unbound.attempts = it[c].attempts /\ unbound.state = "binding_retry"
  BY <1>1 DEF Row
<1>4. RetryRow(c) = [it EXCEPT ![c] = retried] /\ BindFailed(c) = [it EXCEPT ![c] = unbound]
  BY DEF RetryRow, BindFailed, TypeOK
<1> HIDE DEF retried, unbound
<1> QED BY <1>2, <1>3, <1>4, RowWritten

\* A row with another state.
LEMMA StateWritten ==
  ASSUME TypeOK, NEW c \in Candidate, NEW state \in States, it' = [it EXCEPT ![c].state = state]
  PROVE  /\ it' \in [Candidate -> Row]
         /\ \A d \in Candidate \ {c} : it'[d] = it[d]
         /\ it'[c].state = state /\ it'[c].art = it[c].art /\ it'[c].created = it[c].created
         /\ it'[c].attempts = it[c].attempts
<1> DEFINE row == [it[c] EXCEPT !.state = state]
<1>1. it[c] \in Row
  BY DEF TypeOK
<1>2. /\ row \in Row /\ row.state = state /\ row.art = it[c].art /\ row.created = it[c].created
      /\ row.attempts = it[c].attempts
  BY <1>1 DEF Row
<1>3. it' = [it EXCEPT ![c] = row]
  OBVIOUS
<1> HIDE DEF row
<1> QED BY <1>2, <1>3, RowWritten

LEMMA StartKeeps ==
  ASSUME Inv, NEW c \in Candidate, Start(c)
  PROVE  Inv'
<1>1. UNCHANGED <<it, op, stored, files, bound, chatLock, read, turn>>
  BY DEF Start, messageVars, serviceVars
<1>2. Good(c) /\ it[c].state \in States /\ it[c].state # "absent"
  BY DEF Inv, TypeOK, Row, Good, Follows, Start
<1>3. \E step \in {"none", "bind", "wait", "capture", "upload"} :
        /\ Go(c, step)
        /\ step = "bind" => it[c].state \in {"uploaded", "binding_retry"}
        /\ step = "wait" => it[c].state = "uploading"
        /\ step = "capture" => it[c].state = "pending"
        /\ step = "upload" => it[c].state \in {"captured", "retryable"}
  BY <1>2 DEF Start, States, Final
<1>4. PICK step \in {"none", "bind", "wait", "capture", "upload"} :
        /\ Go(c, step)
        /\ step = "bind" => it[c].state \in {"uploaded", "binding_retry"}
        /\ step = "wait" => it[c].state = "uploading"
        /\ step = "capture" => it[c].state = "pending"
        /\ step = "upload" => it[c].state \in {"captured", "retryable"}
  BY <1>3
<1>5. /\ task' \in [Candidate -> Steps] /\ task'[c] = step
      /\ \A d \in Candidate \ {c} : task'[d] = task[d]
  BY <1>4, TaskMoved DEF Inv, Steps
<1>6. TypeOK'
  BY <1>5 DEF Inv, TypeOK, Start, eventVars, messageVars, serviceVars, worldVars
<1>7. Good(c)'
  BY <1>1, <1>2, <1>4, <1>5
     DEF Good, Follows, Progress, Backed, Exclusive, Behind, Captured, Recaptures, Again, Has, Of, Binding, Reading
<1> QED BY <1>1, <1>5, <1>6, <1>7, OneIntent

\* What create_operation of the Manager makes of an operation.
LEMMA Submission ==
  ASSUME Inv, NEW c \in Candidate, NEW art \in Artifact \cup {None}, op' = Submitted(c, art)
  PROVE  /\ op' \in [Candidate -> Op] /\ \A d \in Candidate \ {c} : op'[d] = op[d]
         /\ op'[c].copy = op[c].copy
         /\ \/ op[c].phase \notin {"none", "failed"} /\ op'[c] = op[c]
            \/ /\ op[c].phase \in {"none", "failed"}
               /\ op'[c].phase = "capturing" /\ op'[c].art = art
            \/ /\ op[c].phase \in {"captured", "uploadFailed"} /\ art # None /\ op'[c].art = art
               /\ op'[c].phase = IF op[c].copy = "gone" THEN "capturing" ELSE "uploading"
<1> DEFINE started == [op[c] EXCEPT !.phase = "capturing", !.art = art]
           step == IF op[c].copy = "gone" THEN "capturing" ELSE "uploading"
           resumed == [op[c] EXCEPT !.phase = step, !.art = art]
<1>1. op[c] \in Op /\ op \in [Candidate -> Op]
  BY DEF Inv, TypeOK
<1>2. step \in Phases
  BY DEF Phases
<1>3. /\ started \in Op /\ started.phase = "capturing" /\ started.art = art
      /\ started.copy = op[c].copy
  BY <1>1 DEF Op, Phases
<1>4. /\ resumed \in Op /\ resumed.phase = step /\ resumed.art = art
      /\ resumed.copy = op[c].copy
  <2> HIDE DEF step
  <2> QED BY <1>1, <1>2 DEF Op
<1>5. CASE op[c].phase \in {"none", "failed"}
  <2>1. op' = [op EXCEPT ![c] = started]
    BY <1>1, <1>5 DEF Submitted
  <2> HIDE DEF started, resumed
  <2> QED BY <1>1, <1>3, <1>5, <2>1
<1>6. CASE op[c].phase \in {"captured", "uploadFailed"} /\ art # None /\ op[c].art \in {None, art}
  <2>1. op' = [op EXCEPT ![c] = resumed]
    BY <1>1, <1>6 DEF Submitted
  <2>2. op' \in [Candidate -> Op] /\ op'[c] = resumed /\ \A d \in Candidate \ {c} : op'[d] = op[d]
    <3> HIDE DEF started, resumed
    <3> QED BY <1>1, <1>4, <2>1
  <2> HIDE DEF started, resumed
  <2> QED BY <1>4, <1>6, <2>2
<1>7. CASE /\ op[c].phase \notin {"none", "failed"}
           /\ ~(op[c].phase \in {"captured", "uploadFailed"} /\ art # None /\ op[c].art \in {None, art})
  <2>1. op' = op
    BY <1>7 DEF Submitted
  <2> HIDE DEF started, resumed
  <2> QED BY <1>1, <1>7, <2>1
<1> HIDE DEF started, resumed
<1> QED BY <1>5, <1>6, <1>7

\* A call that reaches the Manager, for a row that is pending or has been
\* captured: what the operation and the row promise each other stays.
LEMMA Asks ==
  ASSUME Inv, NEW c \in Candidate, task[c] \in {"capture", "publish"}, op' = Asked(c),
         it'[c].art = it[c].art, it'[c].created = it[c].created,
         IF it[c].state = "pending" THEN it'[c].state = "pending"
                                    ELSE it'[c].state \in {"failed", "retryable", "uploading"},
         UNCHANGED <<stored, files, bound, turn>>
  PROVE  /\ op' \in [Candidate -> Op] /\ \A d \in Candidate \ {c} : op'[d] = op[d]
         /\ op'[c].phase # "none"
         /\ Progress(c)' /\ Backed(c)' /\ Behind(c)'
<1> DEFINE art == IF task[c] = "capture" THEN None ELSE it[c].art
<1>1. Good(c) /\ op[c] \in Op /\ it[c].art \in Artifact \cup {None}
  BY DEF Inv, TypeOK, Row
<1>2. art \in Artifact \cup {None} /\ op' = Submitted(c, art)
  BY <1>1 DEF Asked
<1>3. /\ op' \in [Candidate -> Op] /\ \A d \in Candidate \ {c} : op'[d] = op[d]
      /\ op'[c].copy = op[c].copy
      /\ \/ op[c].phase \notin {"none", "failed"} /\ op'[c] = op[c]
         \/ /\ op[c].phase \in {"none", "failed"}
            /\ op'[c].phase = "capturing" /\ op'[c].art = art
         \/ /\ op[c].phase \in {"captured", "uploadFailed"} /\ art # None /\ op'[c].art = art
            /\ op'[c].phase = IF op[c].copy = "gone" THEN "capturing" ELSE "uploading"
  <2> HIDE DEF art
  <2> QED BY <1>2, Submission
<1>4. it[c].state = "pending" \/ it[c].state \in {"captured", "retryable"}
  BY <1>1 DEF Good, Follows
<1>5. art # None => art = it[c].art
  OBVIOUS
<1>51. op[c].phase \in {"none", "failed"} => it[c].state = "pending" /\ art = None
  BY <1>1, <1>4 DEF Good, Follows, Progress, PastCapture, Captured, Recaptures
<1> HIDE DEF art
<1>6. op'[c].phase # "none"
  BY <1>3
<1>7. Of(c)' = Of(c)
  BY DEF Of
<1>8. Progress(c)'
  BY <1>1, <1>3, <1>4, <1>5, <1>51 DEF Good, Progress, PastCapture, Captured, Recaptures, Uploaded
<1>9. Backed(c)'
  BY <1>1, <1>3, <1>4, <1>7 DEF Good, Backed, Has, Uploaded
<1>10. Behind(c)'
  <2>1. op[c].phase \in {"none", "failed"} => op[c].copy = "none"
    BY <1>1 DEF Good, Progress, Captured
  <2>2. Again(c) => Again(c)' \/ op[c].copy = "none"
    BY <1>1, <1>3, <1>5, <1>7, <2>1 DEF Good, Progress, Again, Has
  <2> QED BY <1>1, <1>3, <1>4, <1>7, <2>1, <2>2 DEF Good, Behind
<1> QED BY <1>3, <1>6, <1>8, <1>9, <1>10

LEMMA RequestCaptureKeeps ==
  ASSUME Inv, NEW c \in Candidate, RequestCapture(c)
  PROVE  Inv'
<1>1. /\ UNCHANGED <<it, stored, files, bound, chatLock, read, turn>>
      /\ op' = Asked(c) /\ task[c] = "capture"
  BY DEF RequestCapture, messageVars
<1>2. /\ task' \in [Candidate -> Steps] /\ task'[c] = "capturing"
      /\ \A d \in Candidate \ {c} : task'[d] = task[d]
  BY TaskMoved DEF Inv, RequestCapture, Steps
<1>3. Good(c) /\ it[c].state = "pending"
  BY <1>1 DEF Inv, Good, Follows
<1>4. /\ op' \in [Candidate -> Op] /\ \A d \in Candidate \ {c} : op'[d] = op[d]
      /\ op'[c].phase # "none"
      /\ Progress(c)' /\ Backed(c)' /\ Behind(c)'
  BY <1>1, <1>3, Asks
<1>5. TypeOK'
  BY <1>2, <1>4 DEF Inv, TypeOK, RequestCapture, eventVars, messageVars, worldVars
<1>6. Follows(c)' /\ Exclusive(c)'
  BY <1>1, <1>2, <1>3, <1>4 DEF Follows, Exclusive, Binding, Reading
<1> QED BY <1>1, <1>2, <1>4, <1>5, <1>6, OneIntent DEF Good

LEMMA CallFailsKeeps ==
  ASSUME Inv, NEW c \in Candidate, CallFails(c)
  PROVE  Inv'
<1>1. /\ UNCHANGED <<stored, files, bound, chatLock, read, turn>>
      /\ task' = [task EXCEPT ![c] = "none"]
      /\ task[c] \in {"capture", "capturing", "upload", "publish", "wait"}
      /\ op' = op \/ op' = Asked(c)
  BY DEF CallFails, Go, messageVars
<1>2. /\ task' \in [Candidate -> Steps] /\ task'[c] = "none"
      /\ \A d \in Candidate \ {c} : task'[d] = task[d]
  BY TaskMoved DEF Inv, CallFails, Steps
<1>3. Good(c) /\ it[c].state \in {"pending", "captured", "retryable", "uploading"}
  BY <1>1 DEF Inv, Good, Follows
<1>4. /\ it' \in [Candidate -> Row]
      /\ \A d \in Candidate \ {c} : it'[d] = it[d]
      /\ it'[c].art = it[c].art /\ it'[c].created = it[c].created
      /\ IF it[c].state = "pending" THEN it'[c].state = "pending"
                                    ELSE it'[c].state \in {"failed", "retryable"}
  <2>1. CASE it[c].state = "pending"
    <3>1. it' = [it EXCEPT ![c].due = FALSE]
      BY <2>1 DEF CallFails, RetryCapture
    <3> QED BY <2>1, <3>1, DueWritten DEF Inv
  <2>2. CASE it[c].state # "pending"
    <3>1. it' = RetryRow(c)
      BY <2>2 DEF CallFails
    <3> QED BY <2>2, <3>1, RetryWritten DEF Inv
  <2> QED BY <2>1, <2>2
<1>5. /\ op' \in [Candidate -> Op] /\ \A d \in Candidate \ {c} : op'[d] = op[d]
      /\ Progress(c)' /\ Backed(c)' /\ Behind(c)'
  <2>1. CASE op' = op
    <3>1. op' \in [Candidate -> Op]
      BY <2>1 DEF Inv, TypeOK
    <3>2. Progress(c)' /\ Backed(c)' /\ Behind(c)'
      BY <1>1, <1>3, <1>4, <2>1
         DEF Good, Progress, Backed, Behind, Captured, Recaptures, Again, Has, Of, PastCapture, Uploaded
    <3> QED BY <2>1, <3>1, <3>2
  <2>2. CASE op' = Asked(c) /\ task[c] \in {"capture", "publish"}
    BY <1>1, <1>4, <2>2, Asks
  <2> QED BY <1>1, <2>1, <2>2 DEF Asked
<1>6. TypeOK'
  <2>1. faults' \in 0 .. MaxFaults
    BY IntentAssumption DEF Inv, TypeOK, CallFails, Fault, NoFault
  <2> QED BY <1>2, <1>4, <1>5, <2>1 DEF Inv, TypeOK, CallFails, eventVars, messageVars, worldVars
<1>7. Follows(c)' /\ Exclusive(c)'
  BY <1>2, <1>3, <1>4 DEF Follows, Exclusive, Binding, Reading
<1> QED BY <1>1, <1>2, <1>4, <1>5, <1>6, <1>7, OneIntent DEF Good

LEMMA CaptureReportedKeeps ==
  ASSUME Inv, NEW c \in Candidate, CaptureReported(c)
  PROVE  Inv'
<1>1. /\ UNCHANGED <<op, stored, files, bound, chatLock, read, turn>>
      /\ task[c] = "capturing" /\ op[c].phase # "capturing"
  BY DEF CaptureReported, messageVars, serviceVars
<1>2. \/ op[c].phase = "failed" /\ it' = [it EXCEPT ![c].state = "failed"] /\ Go(c, "none")
      \/ op[c].phase # "failed" /\ it' = [it EXCEPT ![c].state = "captured"] /\ Go(c, "upload")
  BY DEF CaptureReported
<1>3. \E state \in {"failed", "captured"}, step \in {"none", "upload"} :
        /\ it' = [it EXCEPT ![c].state = state] /\ Go(c, step)
        /\ state = "captured" <=> op[c].phase # "failed"
        /\ state = "captured" <=> step = "upload"
  BY <1>2
<1>4. PICK state \in {"failed", "captured"}, step \in {"none", "upload"} :
        /\ it' = [it EXCEPT ![c].state = state] /\ Go(c, step)
        /\ state = "captured" <=> op[c].phase # "failed"
        /\ state = "captured" <=> step = "upload"
  BY <1>3
<1>5. /\ task' \in [Candidate -> Steps] /\ task'[c] = step
      /\ \A d \in Candidate \ {c} : task'[d] = task[d]
  BY <1>4, TaskMoved DEF Inv, Steps
<1>6. /\ it' \in [Candidate -> Row]
      /\ \A d \in Candidate \ {c} : it'[d] = it[d]
      /\ it'[c].state = state /\ it'[c].art = it[c].art /\ it'[c].created = it[c].created
  BY <1>4, StateWritten DEF Inv, States
<1>7. TypeOK'
  BY <1>5, <1>6 DEF Inv, TypeOK, CaptureReported, eventVars, messageVars, serviceVars, worldVars
<1>8. Good(c)'
  <2>1. Good(c) /\ op[c].phase \in Phases
    BY DEF Inv, TypeOK, Op
  <2> QED BY <1>1, <1>4, <1>5, <1>6, <2>1
          DEF Good, Follows, Progress, Backed, Exclusive, Behind, Captured, Recaptures, Again, Has, Of, Binding, Reading, PastCapture,
              Uploaded, Phases
<1> QED BY <1>1, <1>5, <1>6, <1>7, <1>8, OneIntent

LEMMA RequestTargetKeeps ==
  ASSUME Inv, NEW c \in Candidate, RequestTarget(c)
  PROVE  Inv'
<1>1. /\ UNCHANGED <<op, stored, files, bound, chatLock, read, turn>>
      /\ task[c] = "upload"
  BY DEF RequestTarget, messageVars
<1>2. targets' \in 0 .. MaxTargets
  BY IntentAssumption DEF Inv, TypeOK, RequestTarget
<1>3. Good(c) /\ it[c].state \in {"captured", "retryable"}
  BY <1>1 DEF Inv, Good, Follows
<1>4. CASE (it' = [it EXCEPT ![c].state = "failed"] \/ it' = RetryRow(c)) /\ Go(c, "none")
  <2>1. /\ task' \in [Candidate -> Steps] /\ task'[c] = "none"
        /\ \A d \in Candidate \ {c} : task'[d] = task[d]
    BY <1>4, TaskMoved DEF Inv, Steps
  <2>2. /\ it' \in [Candidate -> Row]
        /\ \A d \in Candidate \ {c} : it'[d] = it[d]
        /\ it'[c].state \in {"failed", "retryable"}
        /\ it'[c].art = it[c].art /\ it'[c].created = it[c].created
    BY <1>4, StateWritten, RetryWritten DEF Inv, States
  <2>3. TypeOK'
    BY <1>2, <2>1, <2>2 DEF Inv, TypeOK, RequestTarget, eventVars, messageVars, worldVars
  <2>4. Good(c)'
    BY <1>1, <1>3, <2>1, <2>2
       DEF Good, Follows, Progress, Backed, Exclusive, Behind, Captured, Recaptures, Again, Has, Of, Binding, Reading, PastCapture, Uploaded
  <2> QED BY <1>1, <2>1, <2>2, <2>3, <2>4, OneIntent
<1>5. CASE it[c].attempts < RetryLimit /\ it' = it /\ Go(c, "target")
  <2>1. /\ task' \in [Candidate -> Steps] /\ task'[c] = "target"
        /\ \A d \in Candidate \ {c} : task'[d] = task[d]
    BY <1>5, TaskMoved DEF Inv, Steps
  <2>2. TypeOK'
    BY <1>2, <1>5, <2>1 DEF Inv, TypeOK, RequestTarget, eventVars, messageVars, worldVars
  <2>3. Good(c)'
    BY <1>1, <1>3, <1>5, <2>1
       DEF Good, Follows, Progress, Backed, Exclusive, Behind, Captured, Recaptures, Again, Has, Of, Binding, Reading, PastCapture, Uploaded
  <2> QED BY <1>1, <1>5, <2>1, <2>2, <2>3, OneIntent
<1> QED BY <1>4, <1>5 DEF RequestTarget

\* The Artifact of an attempt is the one of the attempt before.
LEMMA SaveTargetKeeps ==
  ASSUME Inv, NEW c \in Candidate, SaveTarget(c)
  PROVE  Inv'
<1>1. /\ UNCHANGED <<op, stored, files, bound, chatLock, read, turn>>
      /\ task[c] = "target" /\ Go(c, "publish")
  BY DEF SaveTarget, messageVars, serviceVars
<1>2. PICK art \in Artifact : (it[c].art # None => art = it[c].art) /\ it' = Attempt(c, art)
  <2>1. 1 .. targets \subseteq Artifact
    BY IntentAssumption DEF Inv, TypeOK, Artifact
  <2> QED BY <2>1 DEF SaveTarget
<1>3. Good(c) /\ it[c].attempts < RetryLimit
  BY <1>1 DEF Inv, Good, Follows
<1> DEFINE row == [it[c] EXCEPT !.art = art, !.attempts = it[c].attempts + 1, !.due = FALSE]
<1>4. it[c] \in Row /\ it[c].attempts + 1 \in 0 .. RetryLimit
  BY <1>3, IntentAssumption DEF Inv, TypeOK, Row
<1>5. row \in Row /\ row.art = art /\ row.state = it[c].state /\ row.created = it[c].created
  BY <1>4 DEF Row
<1>6. it' = [it EXCEPT ![c] = row]
  BY <1>2 DEF Attempt, Inv, TypeOK
<1> HIDE DEF row
<1>7. /\ it' \in [Candidate -> Row]
      /\ \A d \in Candidate \ {c} : it'[d] = it[d]
      /\ it'[c].art = art /\ it'[c].state = it[c].state /\ it'[c].created = it[c].created
  BY <1>5, <1>6, RowWritten DEF Inv
<1>8. /\ task' \in [Candidate -> Steps] /\ task'[c] = "publish"
      /\ \A d \in Candidate \ {c} : task'[d] = task[d]
  BY <1>1, TaskMoved DEF Inv, Steps
<1>9. TypeOK'
  BY <1>7, <1>8 DEF Inv, TypeOK, SaveTarget, eventVars, messageVars, serviceVars, worldVars
<1>10. Good(c)'
  <2>1. art # None /\ (op[c].art # None => op[c].art = art)
    BY <1>2, <1>3, IntentAssumption DEF Good, Progress, Artifact
  <2>2. it[c].state \in {"captured", "retryable"}
    BY <1>1, <1>3 DEF Good, Follows
  <2> QED BY <1>1, <1>3, <1>7, <1>8, <2>1, <2>2
          DEF Good, Follows, Progress, Backed, Exclusive, Behind, Captured, Recaptures, Again, Has, Of, Binding, Reading, PastCapture, Uploaded
<1> QED BY <1>1, <1>7, <1>8, <1>9, <1>10, OneIntent

LEMMA RequestUploadKeeps ==
  ASSUME Inv, NEW c \in Candidate, RequestUpload(c)
  PROVE  Inv'
<1>1. /\ UNCHANGED <<stored, files, bound, chatLock, read, turn>>
      /\ task[c] = "publish" /\ Go(c, "wait") /\ it' = [it EXCEPT ![c].state = "uploading"]
      /\ op' = Asked(c)
  BY DEF RequestUpload, messageVars
<1>2. Good(c) /\ it[c].state \in {"captured", "retryable"}
  BY <1>1 DEF Inv, Good, Follows
<1>3. /\ task' \in [Candidate -> Steps] /\ task'[c] = "wait"
      /\ \A d \in Candidate \ {c} : task'[d] = task[d]
  BY <1>1, TaskMoved DEF Inv, Steps
<1>4. /\ it' \in [Candidate -> Row]
      /\ \A d \in Candidate \ {c} : it'[d] = it[d]
      /\ it'[c].state = "uploading" /\ it'[c].art = it[c].art /\ it'[c].created = it[c].created
  BY <1>1, StateWritten DEF Inv, States
<1>5. /\ op' \in [Candidate -> Op] /\ \A d \in Candidate \ {c} : op'[d] = op[d]
      /\ Progress(c)' /\ Backed(c)' /\ Behind(c)'
  BY <1>1, <1>2, <1>4, Asks
<1>6. TypeOK'
  BY <1>3, <1>4, <1>5 DEF Inv, TypeOK, RequestUpload, eventVars, messageVars, worldVars
<1>7. Follows(c)' /\ Exclusive(c)'
  BY <1>3, <1>4 DEF Follows, Exclusive, Binding, Reading
<1> QED BY <1>1, <1>3, <1>4, <1>5, <1>6, <1>7, OneIntent DEF Good

LEMMA UploadReportedKeeps ==
  ASSUME Inv, NEW c \in Candidate, UploadReported(c)
  PROVE  Inv'
<1>1. /\ UNCHANGED <<op, stored, files, bound, chatLock, read, turn>>
      /\ task[c] = "wait"
  BY DEF UploadReported, messageVars, serviceVars
<1>2. Good(c) /\ it[c].state = "uploading"
  BY <1>1 DEF Inv, Good, Follows
<1>3. /\ it' \in [Candidate -> Row] /\ task' \in [Candidate -> Steps]
      /\ \A d \in Candidate \ {c} : it'[d] = it[d] /\ task'[d] = task[d]
      /\ it'[c].art = it[c].art /\ it'[c].created = it[c].created
      /\ \/ /\ op[c].phase = "succeeded" /\ op[c].art = it[c].art
            /\ it'[c].state = "uploaded" /\ task'[c] = "bind"
         \/ it'[c].state \in {"failed", "retryable"} /\ task'[c] = "none"
  <2>1. CASE op[c].phase = "succeeded" /\ op[c].art = it[c].art
    <3>1. it' = [it EXCEPT ![c].state = "uploaded"] /\ Go(c, "bind")
      BY <2>1 DEF UploadReported
    <3>2. task' \in [Candidate -> Steps] /\ task'[c] = "bind" /\ \A d \in Candidate \ {c} : task'[d] = task[d]
      BY <3>1, TaskMoved DEF Inv, Steps
    <3>3. /\ it' \in [Candidate -> Row] /\ \A d \in Candidate \ {c} : it'[d] = it[d]
          /\ it'[c].state = "uploaded" /\ it'[c].art = it[c].art /\ it'[c].created = it[c].created
      BY <3>1, StateWritten DEF Inv, States
    <3> QED BY <2>1, <3>2, <3>3
  <2>2. CASE ~(op[c].phase = "succeeded" /\ op[c].art = it[c].art)
    <3>1. /\ it' = [it EXCEPT ![c].state = "failed"] \/ it' = RetryRow(c)
          /\ Go(c, "none")
      BY <2>2 DEF UploadReported
    <3>2. task' \in [Candidate -> Steps] /\ task'[c] = "none" /\ \A d \in Candidate \ {c} : task'[d] = task[d]
      BY <3>1, TaskMoved DEF Inv, Steps
    <3>3. CASE it' = [it EXCEPT ![c].state = "failed"]
      BY <3>2, <3>3, StateWritten DEF Inv, States
    <3>4. CASE it' = RetryRow(c)
      BY <3>2, <3>4, RetryWritten DEF Inv
    <3> QED BY <3>1, <3>3, <3>4
  <2> QED BY <2>1, <2>2
<1>4. TypeOK'
  BY <1>3 DEF Inv, TypeOK, UploadReported, eventVars, messageVars, serviceVars, worldVars
<1>5. Good(c)'
  BY <1>1, <1>2, <1>3
     DEF Good, Follows, Progress, Backed, Exclusive, Behind, Captured, Recaptures, Again, Has, Of, Binding, Reading, PastCapture, Uploaded
<1> QED BY <1>1, <1>3, <1>4, <1>5, OneIntent

-----------------------------------------------------------------------------
(* The binding: one task between its reading and its writing the message.  *)
LEMMA ReadMessageKeeps ==
  ASSUME Inv, NEW c \in Candidate, ReadMessage(c)
  PROVE  Inv'
<1>1. /\ UNCHANGED <<op, stored, files, bound, turn>>
      /\ task[c] = "bind" /\ chatLock = None
  BY DEF ReadMessage, ChatFree, serviceVars
<1>2. Good(c) /\ it[c].state \in {"uploaded", "binding_retry"}
  BY <1>1 DEF Inv, Good, Follows
<1>3. \A d \in Candidate \ {c} : task[d] \notin Binding
  BY <1>1, OneBinds
<1>4. CASE message /\ ~gone
  <2>1. chatLock' = c /\ read' = files /\ Go(c, "attach") /\ UNCHANGED it
    BY <1>4 DEF ReadMessage
  <2>2. /\ task' \in [Candidate -> Steps] /\ task'[c] = "attach"
        /\ \A d \in Candidate \ {c} : task'[d] = task[d]
    BY <2>1, TaskMoved DEF Inv, Steps
  <2>3. TypeOK'
    BY <2>1, <2>2 DEF Inv, TypeOK, ReadMessage, eventVars, serviceVars, worldVars
  <2>4. Good(c)'
    BY <1>1, <1>2, <2>1, <2>2
       DEF Good, Follows, Progress, Backed, Exclusive, Behind, Captured, Recaptures, Again, Has, Of, Binding, Reading
  <2> QED BY <1>1, <1>3, <2>1, <2>2, <2>3, <2>4, OneIntent
<1>5. CASE ~(message /\ ~gone)
  <2>1. UNCHANGED <<chatLock, read>> /\ Go(c, "none") /\ it' = BindFailed(c)
    BY <1>5 DEF ReadMessage
  <2>2. /\ task' \in [Candidate -> Steps] /\ task'[c] = "none"
        /\ \A d \in Candidate \ {c} : task'[d] = task[d]
    BY <2>1, TaskMoved DEF Inv, Steps
  <2>3. /\ it' \in [Candidate -> Row]
        /\ \A d \in Candidate \ {c} : it'[d] = it[d]
        /\ it'[c].state = "binding_retry" /\ it'[c].art = it[c].art /\ it'[c].created = it[c].created
    BY <2>1, RetryWritten DEF Inv
  <2>4. TypeOK'
    BY <2>1, <2>2, <2>3 DEF Inv, TypeOK, ReadMessage, eventVars, serviceVars, worldVars
  <2>5. Good(c)'
    BY <1>1, <1>2, <2>1, <2>2, <2>3
       DEF Good, Follows, Progress, Backed, Exclusive, Behind, Captured, Recaptures, Again, Has, Of, Binding, Reading, PastCapture, Uploaded
  <2> QED BY <1>1, <2>1, <2>2, <2>3, <2>4, <2>5, OneIntent
<1> QED BY <1>4, <1>5

\* Nothing that was attached is lost: what is written back is what is there.
LEMMA AttachFileKeeps ==
  ASSUME Inv, NEW c \in Candidate, AttachFile(c)
  PROVE  Inv'
<1>1. /\ UNCHANGED <<op, stored, bound, read, turn>>
      /\ task[c] = "attach"
  BY DEF AttachFile, serviceVars
<1>2. /\ Good(c) /\ chatLock = c /\ read = files
      /\ it[c].state \in {"uploaded", "binding_retry"}
  BY <1>1 DEF Inv, Good, Exclusive, Follows, Binding, Reading
<1>3. \A d \in Candidate \ {c} : task[d] \notin Binding
  BY <1>2, OneBinds
<1>4. CASE ~gone
  <2>1. files' = read \cup {c} /\ Go(c, "check") /\ UNCHANGED <<it, chatLock>>
    BY <1>4 DEF AttachFile
  <2>2. /\ task' \in [Candidate -> Steps] /\ task'[c] = "check"
        /\ \A d \in Candidate \ {c} : task'[d] = task[d]
    BY <2>1, TaskMoved DEF Inv, Steps
  <2>3. TypeOK'
    BY <1>1, <1>2, <2>1, <2>2 DEF Inv, TypeOK, AttachFile, eventVars, serviceVars, worldVars
  <2>4. Good(c)'
    BY <1>1, <1>2, <2>1, <2>2
       DEF Good, Follows, Progress, Backed, Exclusive, Behind, Captured, Recaptures, Again, Has, Of, Binding, Reading
  <2> QED BY <1>1, <1>2, <1>3, <2>1, <2>2, <2>3, <2>4, OneIntent
<1>5. CASE gone
  <2>1. chatLock' = None /\ Go(c, "none") /\ it' = BindFailed(c) /\ UNCHANGED files
    BY <1>5 DEF AttachFile
  <2>2. /\ task' \in [Candidate -> Steps] /\ task'[c] = "none"
        /\ \A d \in Candidate \ {c} : task'[d] = task[d]
    BY <2>1, TaskMoved DEF Inv, Steps
  <2>3. /\ it' \in [Candidate -> Row]
        /\ \A d \in Candidate \ {c} : it'[d] = it[d]
        /\ it'[c].state = "binding_retry" /\ it'[c].art = it[c].art /\ it'[c].created = it[c].created
    BY <2>1, RetryWritten DEF Inv
  <2>4. TypeOK'
    BY <1>1, <2>1, <2>2, <2>3 DEF Inv, TypeOK, AttachFile, eventVars, serviceVars, worldVars
  <2>5. Good(c)'
    BY <1>1, <1>2, <2>1, <2>2, <2>3
       DEF Good, Follows, Progress, Backed, Exclusive, Behind, Captured, Recaptures, Again, Has, Of, Binding, Reading, PastCapture, Uploaded
  <2> QED BY <1>1, <1>3, <2>1, <2>2, <2>3, <2>4, <2>5, OneIntent
<1> QED BY <1>4, <1>5

LEMMA CheckAttachmentKeeps ==
  ASSUME Inv, NEW c \in Candidate, CheckAttachment(c)
  PROVE  Inv'
<1>1. UNCHANGED <<op, stored, files, read, turn>> /\ task[c] = "check"
  BY DEF CheckAttachment, serviceVars
<1>2. Good(c) /\ chatLock = c /\ it[c].state \in {"uploaded", "binding_retry"}
  BY <1>1 DEF Inv, Good, Exclusive, Follows, Binding, Reading
<1>3. \A d \in Candidate \ {c} : task[d] \notin Binding
  BY <1>2, OneBinds
<1>4. CASE c \in files
  <2>1. /\ bound' = bound \cup {c} /\ it' = [it EXCEPT ![c].state = "ready"]
        /\ Go(c, "emit") /\ UNCHANGED chatLock
    BY <1>4 DEF CheckAttachment
  <2>2. /\ task' \in [Candidate -> Steps] /\ task'[c] = "emit"
        /\ \A d \in Candidate \ {c} : task'[d] = task[d]
    BY <2>1, TaskMoved DEF Inv, Steps
  <2>3. /\ it' \in [Candidate -> Row]
        /\ \A d \in Candidate \ {c} : it'[d] = it[d]
        /\ it'[c].state = "ready" /\ it'[c].art = it[c].art /\ it'[c].created = it[c].created
    BY <2>1, StateWritten DEF Inv, States
  <2>4. TypeOK'
    BY <2>1, <2>2, <2>3 DEF Inv, TypeOK, CheckAttachment, eventVars, serviceVars, worldVars
  <2>5. Good(c)'
    BY <1>1, <1>2, <1>4, <2>1, <2>2, <2>3
       DEF Good, Follows, Progress, Backed, Exclusive, Behind, Captured, Recaptures, Again, Has, Of, Binding, Reading, PastCapture, Uploaded
  <2> QED BY <1>1, <1>3, <2>1, <2>2, <2>3, <2>4, <2>5, OneIntent
<1>5. CASE c \notin files
  <2>1. chatLock' = None /\ Go(c, "none") /\ it' = BindFailed(c) /\ UNCHANGED bound
    BY <1>5 DEF CheckAttachment
  <2>2. /\ task' \in [Candidate -> Steps] /\ task'[c] = "none"
        /\ \A d \in Candidate \ {c} : task'[d] = task[d]
    BY <2>1, TaskMoved DEF Inv, Steps
  <2>3. /\ it' \in [Candidate -> Row]
        /\ \A d \in Candidate \ {c} : it'[d] = it[d]
        /\ it'[c].state = "binding_retry" /\ it'[c].art = it[c].art /\ it'[c].created = it[c].created
    BY <2>1, RetryWritten DEF Inv
  <2>4. TypeOK'
    BY <2>1, <2>2, <2>3 DEF Inv, TypeOK, CheckAttachment, eventVars, serviceVars, worldVars
  <2>5. Good(c)'
    BY <1>1, <1>2, <2>1, <2>2, <2>3
       DEF Good, Follows, Progress, Backed, Exclusive, Behind, Captured, Recaptures, Again, Has, Of, Binding, Reading, PastCapture, Uploaded
  <2> QED BY <1>1, <1>3, <2>1, <2>2, <2>3, <2>4, <2>5, OneIntent
<1> QED BY <1>4, <1>5

LEMMA LeaveBinding ==
  ASSUME Inv, NEW c \in Candidate, EmitFiles(c) \/ BindRaises(c)
  PROVE  Inv'
<1>1. /\ UNCHANGED <<op, stored, files, bound, read, turn>>
      /\ task[c] \in Binding /\ chatLock' = None /\ Go(c, "none")
  BY DEF EmitFiles, BindRaises, serviceVars, Binding, Reading
<1>2. Good(c) /\ chatLock = c
  BY <1>1 DEF Inv, Good, Exclusive
<1>3. \A d \in Candidate \ {c} : task[d] \notin Binding
  BY <1>2, OneBinds
<1>4. /\ task' \in [Candidate -> Steps] /\ task'[c] = "none"
      /\ \A d \in Candidate \ {c} : task'[d] = task[d]
  BY <1>1, TaskMoved DEF Inv, Steps
<1>5. /\ it' \in [Candidate -> Row]
      /\ \A d \in Candidate \ {c} : it'[d] = it[d]
      /\ it'[c].art = it[c].art /\ it'[c].created = it[c].created
      /\ it'[c].state = it[c].state \/ it'[c].state \in {"failed", "retryable"}
  <2>1. it' = it \/ it' = RetryRow(c)
    BY DEF EmitFiles, BindRaises
  <2> QED BY <2>1, RetryWritten DEF Inv, TypeOK
<1>6. TypeOK'
  <2>1. faults' \in 0 .. MaxFaults
    BY IntentAssumption DEF Inv, TypeOK, EmitFiles, BindRaises, Fault, NoFault
  <2> QED BY <1>1, <1>4, <1>5, <2>1 DEF Inv, TypeOK, EmitFiles, BindRaises, eventVars, serviceVars, worldVars
<1>7. Good(c)'
  <2>1. it[c].state \in {"uploaded", "binding_retry", "ready"}
    BY <1>1, <1>2 DEF Good, Follows, Binding, Reading
  <2> QED BY <1>1, <1>2, <1>4, <1>5, <2>1
          DEF Good, Follows, Progress, Backed, Exclusive, Behind, Captured, Recaptures, Again, Has, Of, Binding, Reading, PastCapture, Uploaded
<1> QED BY <1>1, <1>3, <1>4, <1>5, <1>6, <1>7, OneIntent

-----------------------------------------------------------------------------
(* The operations of the Manager.                                          *)

\* A copy is taken of a pending intent, before the turn behind the barrier, or
\* behind the upload of the one before.
LEMMA OpCapturesKeeps ==
  ASSUME Inv, NEW c \in Candidate, OpCaptures(c)
  PROVE  Inv'
<1>1. /\ UNCHANGED <<it, task, stored, files, bound, chatLock, read, turn>>
      /\ op[c].phase = "capturing"
  BY DEF OpCaptures, messageVars
<1>2. Good(c) /\ (it[c].state = "pending" \/ op[c].copy = "gone")
  BY <1>1 DEF Inv, Good, Progress
<1> DEFINE next == IF op[c].art = None THEN "captured" ELSE "uploading"
           copied(copy) == [op[c] EXCEPT !.copy = copy, !.phase = next]
           end == IF op[c].copy = "gone" THEN "uploadFailed" ELSE "failed"
           broken == [op[c] EXCEPT !.phase = end]
<1>3. op \in [Candidate -> Op] /\ op[c] \in Op
  BY DEF Inv, TypeOK
<1>4. next \in Phases /\ end \in Phases
  BY DEF Phases
<1>5. ASSUME NEW copy \in {"own", "later"}
      PROVE  /\ copied(copy) \in Op /\ copied(copy).art = op[c].art
             /\ copied(copy).copy = copy /\ copied(copy).phase = next
  <2> HIDE DEF next
  <2> QED BY <1>3, <1>4 DEF Op, Copies
<1>6. broken \in Op /\ broken.art = op[c].art /\ broken.copy = op[c].copy /\ broken.phase = end
  <2> HIDE DEF end
  <2> QED BY <1>3, <1>4 DEF Op
<1>7. /\ op' \in [Candidate -> Op] /\ \A d \in Candidate \ {c} : op'[d] = op[d]
      /\ op'[c].art = op[c].art
      /\ \/ /\ op'[c].copy \in {"own", "later"} /\ op'[c].phase = next
            /\ op'[c].copy = "later" => turn = "running"
         \/ op'[c].copy = op[c].copy /\ op'[c].phase = end
  <2>1. CASE \E copy \in {"own", "later"} :
                (copy = "later" => turn = "running") /\ op' = [op EXCEPT ![c] = copied(copy)]
    <3>1. PICK copy \in {"own", "later"} :
                (copy = "later" => turn = "running") /\ op' = [op EXCEPT ![c] = copied(copy)]
      BY <2>1
    <3>2. op' \in [Candidate -> Op] /\ op'[c] = copied(copy) /\ \A d \in Candidate \ {c} : op'[d] = op[d]
      <4> HIDE DEF copied
      <4> QED BY <1>3, <1>5, <3>1
    <3> HIDE DEF copied, next, end
    <3> QED BY <1>5, <3>1, <3>2
  <2>2. CASE op' = [op EXCEPT ![c] = broken]
    <3>1. op' \in [Candidate -> Op] /\ op'[c] = broken /\ \A d \in Candidate \ {c} : op'[d] = op[d]
      <4> HIDE DEF broken
      <4> QED BY <1>3, <1>6, <2>2
    <3> HIDE DEF broken, next, end
    <3> QED BY <1>6, <3>1
  <2> QED BY <1>3, <2>1, <2>2 DEF OpCaptures
<1>8. TypeOK'
  <2>1. faults' \in 0 .. MaxFaults
    BY IntentAssumption DEF Inv, TypeOK, OpCaptures, Fault, NoFault
  <2> QED BY <1>7, <2>1 DEF Inv, TypeOK, OpCaptures, eventVars, messageVars, worldVars
<1>9. Good(c)'
  <2>1. Follows(c)' /\ Backed(c)' /\ Exclusive(c)'
    BY <1>1, <1>2, <1>7 DEF Good, Follows, Backed, Exclusive, Has, Of
  <2>2. op[c].copy = "gone" => op[c].art # None /\ Again(c)
    BY <1>2 DEF Good, Behind, Again
  <2>3. Progress(c)'
    BY <1>1, <1>2, <1>7, <2>2 DEF Good, Progress, Captured, Recaptures, PastCapture, Uploaded
  <2>4. Again(c) => Again(c)'
    BY <1>1, <1>7 DEF Again, Has, Of
  <2>5. Behind(c)'
    BY <1>1, <1>2, <1>7, <2>2, <2>4 DEF Good, Behind, Of
  <2> QED BY <2>1, <2>3, <2>5 DEF Good
<1> QED BY <1>1, <1>7, <1>8, <1>9, OneIntent

\* The Artifact Service keeps the first content of an id, so that another copy
\* of the file does not replace the one that was there.
LEMMA OpUploadsKeeps ==
  ASSUME Inv, NEW c \in Candidate, OpUploads(c)
  PROVE  Inv'
<1> DEFINE s == <<c, op[c].art, op[c].copy>>
<1>1. /\ UNCHANGED <<it, task, files, bound, chatLock, read, turn>>
      /\ op[c].phase = "uploading"
  BY DEF OpUploads, messageVars
<1>2. /\ Good(c) /\ op[c].art # None /\ op[c].art \in Artifact /\ op[c].art = it[c].art
      /\ op[c].copy \in {"own", "later"}
  <2>1. op[c] \in Op
    BY RowTypes DEF Inv
  <2> QED BY <1>1, <2>1, RowTypes DEF Inv, Good, Progress, Captured, Op, Copies
<1>3. op \in [Candidate -> Op] /\ op[c] \in Op
  BY DEF Inv, TypeOK
<1> DEFINE done == [op[c] EXCEPT !.phase = "succeeded"]
           broken(copy) == [op[c] EXCEPT !.phase = "uploadFailed", !.copy = copy]
<1>4. done \in Op /\ done.art = op[c].art /\ done.copy = op[c].copy /\ done.phase = "succeeded"
  BY <1>3 DEF Op, Phases
<1>5. ASSUME NEW copy \in {op[c].copy, "gone"}
      PROVE  /\ broken(copy) \in Op /\ broken(copy).art = op[c].art /\ broken(copy).copy = copy
             /\ broken(copy).phase = "uploadFailed"
  BY <1>3 DEF Op, Phases, Copies
<1>6. \/ op' = [op EXCEPT ![c] = done] /\ Takes(s) /\ stored' = stored \cup {s}
      \/ \E copy \in {op[c].copy, "gone"} :
            /\ op' = [op EXCEPT ![c] = broken(copy)]
            /\ \/ Takes(s) /\ stored' = stored \cup {s}
               \/ copy = op[c].copy /\ stored' = stored
  <2>1. [op[c] EXCEPT !.phase = "uploadFailed"] = broken(op[c].copy)
    BY <1>3 DEF Op
  <2> QED BY <1>3, <2>1 DEF OpUploads
<1>7. /\ op' \in [Candidate -> Op] /\ \A d \in Candidate \ {c} : op'[d] = op[d]
      /\ op'[c].art = op[c].art
      /\ stored' = stored \/ (Takes(s) /\ stored' = stored \cup {s})
      /\ \/ op'[c].copy = op[c].copy /\ op'[c].phase \in {"succeeded", "uploadFailed"}
         \/ op'[c].copy = "gone" /\ op'[c].phase = "uploadFailed"
      /\ op'[c].phase = "succeeded" \/ op'[c].copy = "gone" => s \in stored'
  <2>1. CASE op' = [op EXCEPT ![c] = done] /\ Takes(s) /\ stored' = stored \cup {s}
    <3>1. op' \in [Candidate -> Op] /\ op'[c] = done /\ \A d \in Candidate \ {c} : op'[d] = op[d]
      <4> HIDE DEF done
      <4> QED BY <1>3, <1>4, <2>1
    <3> HIDE DEF done, s
    <3> QED BY <1>4, <2>1, <3>1
  <2>2. ASSUME NEW copy \in {op[c].copy, "gone"}, op' = [op EXCEPT ![c] = broken(copy)],
               \/ Takes(s) /\ stored' = stored \cup {s}
               \/ copy = op[c].copy /\ stored' = stored
        PROVE  <1>7!1 /\ <1>7!2 /\ <1>7!3 /\ <1>7!4 /\ <1>7!5
    <3>1. op' \in [Candidate -> Op] /\ op'[c] = broken(copy) /\ \A d \in Candidate \ {c} : op'[d] = op[d]
      <4> HIDE DEF broken
      <4> QED BY <1>3, <1>5, <2>2
    <3> HIDE DEF broken, s
    <3> QED BY <1>2, <1>5, <2>2, <3>1
  <2> HIDE DEF done, broken, s
  <2> QED BY <1>6, <2>1, <2>2
<1>8. stored' \in SUBSET (Candidate \X Artifact \X {"own", "later"}) /\ stored \subseteq stored'
  BY <1>2, <1>7 DEF Inv, TypeOK
<1>9. TypeOK'
  <2>1. faults' \in 0 .. MaxFaults
    BY IntentAssumption DEF Inv, TypeOK, OpUploads, Fault, NoFault
  <2> QED BY <1>7, <1>8, <2>1 DEF Inv, TypeOK, OpUploads, eventVars, messageVars, worldVars
<1>10. s[1] = c /\ s[2] = op[c].art /\ s[3] = op[c].copy
  OBVIOUS
<1>11. Good(c)'
  <2> HIDE DEF s
  <2>1. Follows(c)' /\ Exclusive(c)'
    BY <1>1, <1>2, <1>7 DEF Good, Follows, Exclusive
  <2>2. Progress(c)'
    BY <1>1, <1>2, <1>7 DEF Good, Progress, Captured, Recaptures, PastCapture, Uploaded
  <2>3. \A art : Has(c, art) => Has(c, art)'
    BY <1>8 DEF Has, Of
  <2>4. s \in stored' => Has(c, op[c].art)'
    BY <1>7, <1>10 DEF Has, Of
  <2>5. Backed(c)'
    BY <1>1, <1>2, <1>7, <2>3, <2>4 DEF Good, Backed, Progress, Uploaded
  <2>6. (Again(c) => Again(c)') /\ (s \in stored' => Again(c)')
    BY <1>2, <1>7, <2>3, <2>4 DEF Again
  <2>7. (it[c].created = "before" /\ Takes(s)) => op[c].copy = "own"
    <3>1. SUFFICES ASSUME it[c].created = "before", Takes(s), op[c].copy = "later" PROVE FALSE
      BY <1>2
    <3>2. Again(c) /\ \A t \in Of(c) : t[3] = "own"
      BY <1>2, <3>1 DEF Good, Behind
    <3>3. PICK t \in Of(c) : t[2] = op[c].art
      BY <3>2 DEF Again, Has
    <3>4. t = s
      BY <1>10, <3>1, <3>3 DEF Of, Takes
    <3> QED BY <1>10, <3>1, <3>2, <3>4
  <2>8. it[c].created = "before" => \A t \in Of(c)' : t[3] = "own"
    BY <1>2, <1>7, <1>10, <2>7 DEF Good, Behind, Of
  <2>9. Behind(c)'
    BY <1>1, <1>2, <1>7, <2>6, <2>8 DEF Good, Behind
  <2> QED BY <2>1, <2>2, <2>5, <2>9 DEF Good
<1> HIDE DEF s
<1> QED BY <1>1, <1>7, <1>9, <1>10, <1>11, OneIntent

-----------------------------------------------------------------------------
LEMMA StutterKeeps ==
  ASSUME Inv, UNCHANGED vars
  PROVE  Inv'
<1>1. UNCHANGED <<it, task, op, stored, files, bound, chatLock, read, turn>>
  BY DEF vars, messageVars, serviceVars
<1>2. TypeOK'
  BY DEF Inv, TypeOK, vars, eventVars, messageVars, serviceVars, worldVars
<1>3. ASSUME NEW c \in Candidate PROVE Good(c)'
  <2>1. Of(c)' = Of(c)
    BY <1>1 DEF Of
  <2> QED BY <1>1, <2>1, Untouched DEF Inv
<1> QED BY <1>2, <1>3 DEF Inv

LEMMA NextInv == Inv /\ [Next]_vars => Inv'
<1> SUFFICES ASSUME Inv, [Next]_vars PROVE Inv'
  OBVIOUS
<1>1. CASE HandleEvent
  BY <1>1, EventSteps, RecordKeeps DEF HandleEvent
<1>2. CASE Reconcile
  BY <1>2, TurnKeeps
<1>3. CASE SaveMessage
  BY <1>3, EventSteps
<1>4. CASE Environment
  BY <1>4, EventSteps, CrashKeeps, TurnKeeps, ClickKeeps, CallFailsKeeps, LeaveBinding DEF Environment
<1>5. ASSUME NEW c \in Candidate, Drive(c) PROVE Inv'
  BY <1>5, StartKeeps, RequestCaptureKeeps, CaptureReportedKeeps, RequestTargetKeeps, SaveTargetKeeps,
     RequestUploadKeeps, UploadReportedKeeps, AttachFileKeeps, CheckAttachmentKeeps, LeaveBinding,
     CallFailsKeeps DEF Drive
<1>6. ASSUME NEW c \in Candidate, ReadMessage(c) \/ Services(c) PROVE Inv'
  BY <1>6, ReadMessageKeeps, OpCapturesKeeps, OpUploadsKeeps, TimePassesKeeps DEF Services
<1>7. CASE UNCHANGED vars
  BY <1>7, StutterKeeps
<1> QED BY <1>1, <1>2, <1>3, <1>4, <1>5, <1>6, <1>7 DEF Next

LEMMA InvHolds == Spec => []Inv
BY InitInv, NextInv, PTL DEF Spec

(* What is shown as ready is stored, attached and bound, and an intent has *)
(* one Artifact through retries, lost answers and crashes (_upload_intent, *)
(* _bind_published_locked).                                                *)
THEOREM IntentsConsistent == Spec => []IntentInvariant
<1>1. Inv => IntentInvariant
  BY DEF Inv, IntentInvariant, ReadyIsBacked, RetriesKeepTheTarget, Good, Progress, Backed, Uploaded, Has, Of
<1> QED BY <1>1, InvHolds, PTL

(* A file recorded before the next turn passed the barrier is captured     *)
(* before that turn runs (capture_barriers, inject_workspace_context).     *)
THEOREM BarrierKeepsTurnsApart == Spec => []BarrierHolds
<1>1. Inv => BarrierHolds
  BY DEF Inv, BarrierHolds, Good, Behind, Again, Has, Of
<1> QED BY <1>1, InvHolds, PTL
-----------------------------------------------------------------------------
(* What has been uploaded.                                                 *)

\* The steps of a task before the binding write the row of their own intent, which
\* is not uploaded.
LEMMA EarlierSteps ==
  ASSUME Inv, NEW c \in Candidate, it[c].state \in Uploaded, NEW d \in Candidate,
         \/ RequestTarget(d) \/ SaveTarget(d) \/ RequestUpload(d)
         \/ CaptureReported(d) \/ UploadReported(d) \/ CallFails(d)
  PROVE  it'[c] = it[c]
<1>1. task[d] \in {"capture", "capturing", "upload", "target", "publish", "wait"}
  BY DEF RequestTarget, SaveTarget, RequestUpload, CaptureReported, UploadReported, CallFails
<1>2. it[d].state \in {"pending", "captured", "retryable", "uploading"}
  BY <1>1 DEF Inv, Good, Follows
<1>3. d # c
  BY <1>2 DEF Uploaded
<1>4. CASE RequestTarget(d) \/ SaveTarget(d) \/ RequestUpload(d)
  <2>1. ASSUME NEW art, it' = Attempt(d, art) PROVE it'[c] = it[c]
    BY <1>3, <2>1 DEF Attempt, Inv, TypeOK
  <2>2. CASE SaveTarget(d)
    BY <2>1, <2>2 DEF SaveTarget
  <2>3. CASE RequestTarget(d)
    BY <1>3, <2>3 DEF RequestTarget, RetryRow, Inv, TypeOK
  <2>4. CASE RequestUpload(d)
    BY <1>3, <2>4 DEF RequestUpload, Inv, TypeOK
  <2> QED BY <1>4, <2>2, <2>3, <2>4
<1>5. CASE CaptureReported(d) \/ UploadReported(d) \/ CallFails(d)
  BY <1>3, <1>5
     DEF CaptureReported, UploadReported, CallFails, RetryRow, RetryCapture, Inv, TypeOK
<1> QED BY <1>4, <1>5

\* The binding of an intent leads to ready, or back to its own retry.
LEMMA BindingSteps ==
  ASSUME Inv, NEW c \in Candidate, it[c].state \in Uploaded, NEW d \in Candidate,
         ReadMessage(d) \/ AttachFile(d) \/ CheckAttachment(d) \/ BindRaises(d)
  PROVE  it'[c].state \in Uploaded \/ (d = c /\ BindRaises(c))
<1>1. \/ it' = it \/ it' = BindFailed(d) \/ it' = [it EXCEPT ![d].state = "ready"]
      \/ it' = RetryRow(d) /\ BindRaises(d)
  BY DEF ReadMessage, AttachFile, CheckAttachment, BindRaises
<1>2. CASE it' = it
  BY <1>2
<1>3. CASE it' = BindFailed(d)
  BY <1>3, RetryWritten DEF Inv, Uploaded
<1>4. CASE it' = [it EXCEPT ![d].state = "ready"]
  <2>1. "ready" \in States
    BY DEF States
  <2> QED BY <1>4, <2>1, StateWritten DEF Inv, Uploaded
<1>5. CASE it' = RetryRow(d) /\ BindRaises(d)
  BY <1>5, RetryWritten DEF Inv
<1> QED BY <1>1, <1>2, <1>3, <1>4, <1>5

\* A new row is one that was absent, and a deadline is not a state.
LEMMA RowSteps ==
  ASSUME Inv, NEW c \in Candidate, it[c].state \in Uploaded, NEW d \in Candidate,
         RecordIntent(d) \/ Click(d) \/ TimePasses(d)
  PROVE  it'[c].state = it[c].state
<1>1. it' = Created(d) \/ it' = [it EXCEPT ![d].due = TRUE]
  BY DEF RecordIntent, Click, TimePasses
<1>2. CASE it' = Created(d)
  <2>1. CASE it[d].state = "absent"
    BY <1>2, <2>1, CreatedRow DEF Uploaded
  <2>2. CASE it[d].state # "absent"
    BY <1>2, <2>2 DEF Created
  <2> QED BY <2>1, <2>2
<1>3. CASE it' = [it EXCEPT ![d].due = TRUE]
  BY <1>3, DueWritten DEF Inv
<1> QED BY <1>1, <1>2, <1>3

LEMMA UploadedStays ==
  ASSUME Inv, NEW c \in Candidate, it[c].state \in Uploaded, [Next]_vars
  PROVE  it'[c].state \in Uploaded \/ BindRaises(c)
<1>1. CASE UNCHANGED it
  BY <1>1
<1>2. CASE \E d \in Candidate :
              \/ RequestTarget(d) \/ SaveTarget(d) \/ RequestUpload(d)
              \/ CaptureReported(d) \/ UploadReported(d) \/ CallFails(d)
  BY <1>2, EarlierSteps
<1>3. CASE \E d \in Candidate : ReadMessage(d) \/ AttachFile(d) \/ CheckAttachment(d) \/ BindRaises(d)
  BY <1>3, BindingSteps
<1>4. CASE \E d \in Candidate : RecordIntent(d) \/ Click(d) \/ TimePasses(d)
  BY <1>4, RowSteps
<1>5. CASE \/ DeliverEvent \/ GiveUp \/ PutBinding \/ EventRecorded \/ EventFails
           \/ Reconcile \/ SaveMessage \/ RestartAdapter \/ SandboxEnds \/ DeleteChat \/ Crash
           \/ PollBarrier \/ PassBarrier \/ StartTurn \/ UNCHANGED vars
  BY <1>1, <1>5 DEF DeliverEvent, GiveUp, PutBinding, EventRecorded, EventFails, Reconcile, SaveMessage,
                   RestartAdapter, SandboxEnds, DeleteChat, Crash, PollBarrier, PassBarrier, StartTurn, vars
<1>6. CASE \E d \in Candidate : \/ Start(d) \/ RequestCapture(d) \/ EmitFiles(d)
                               \/ OpCaptures(d) \/ OpUploads(d)
  BY <1>1, <1>6 DEF Start, RequestCapture, EmitFiles, OpCaptures, OpUploads
<1> QED BY <1>2, <1>3, <1>4, <1>5, <1>6 DEF Next, HandleEvent, Environment, Drive, Services

(* An uploaded file is not uploaded again, whatever is retried, clicked or *)
(* cut off by a crash: only a statement of the binding that raises takes   *)
(* the row back (_retry_intent without binding=True).                      *)
THEOREM BindingRetriesKeepUploads == Spec => OnlyTheBindingIsRetried
<1>1. Inv /\ [Next]_vars =>
        [\A c \in Candidate :
            it[c].state \in Uploaded => it'[c].state \in Uploaded \/ BindRaises(c)]_vars
  BY UploadedStays
<1> QED BY <1>1, InvHolds, PTL DEF Spec, OnlyTheBindingIsRetried
=============================================================================
