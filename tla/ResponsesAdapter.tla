--------------------------- MODULE ResponsesAdapter ---------------------------
(***************************************************************************)
(* The Responses Adapter: a request waits for a permit, gets a sandbox of  *)
(* its own or that of the response it continues, starts a turn there, and  *)
(* leaves it to a driver, which follows the turn to its end, tells the     *)
(* subscriber and the BFF, and cleans up.  Clients cancel, delete and      *)
(* disconnect at any time.                                                 *)
(*                                                                         *)
(* One action runs from one await to the next: the locks of ResponseStore  *)
(* and ActiveExecution are never held across a suspension.  What a driver  *)
(* does with the events of a turn is in EventStream; here a turn has only  *)
(* its end.  A sandbox is named by the response it was created for.        *)
(***************************************************************************)
EXTENDS Naturals, Sequences, FiniteSets

CONSTANTS Response,
          MaxExecutions,  \* max_concurrent_executions
          MaxFaults,      \* bound: calls and streams that fail, sandboxes that die
          Inputs,         \* bound: what clients do in an instance
          None

ASSUME AdapterAssumption ==
    /\ IsFiniteSet(Response) /\ None \notin Response
    /\ MaxExecutions \in Nat \ {0} /\ MaxFaults \in Nat

VARIABLES
    at,         \* where _start of a response is
    prev,       \* previous_response_id
    permits,    \* _semaphore
    sandbox,    \* record.sandbox_id
    alive,      \* sandboxes that run
    turn,       \* the turn of a response in its Worker
    status,     \* record.status; "none" before put, "deleted" after delete
    active,     \* ResponseStore._active
    driver,     \* where _drive is
    canceller,  \* where cancel() is: none, the attempt, terminate
    requested,  \* cancel_requested
    subscribed, \* the subscriber of a response listens
    queue,      \* what its queue has had
    leaked,     \* sandboxes whose termination failed
    cut,        \* responses whose deadline passed while their end was published
    faults

startVars == <<at, prev, permits, sandbox>>
workerVars == <<alive, turn, leaked>>
recordVars == <<status, active, driver, cut>>
clientVars == <<canceller, requested, subscribed>>
vars == <<startVars, workerVars, recordVars, clientVars, queue, faults>>

Terminal == {"completed", "failed", "incomplete"}
Starting == {"checking", "creating", "renewing", "checkout", "thread", "turn", "undo"}
Driving == {"run", "publishing", "deadline", "notify"}

TypeOK ==
    /\ at \in [Response -> {"new", "waiting", "refused", "started"} \cup Starting]
    /\ prev \in [Response -> Response \cup {None}] /\ permits \in 0 .. MaxExecutions
    /\ sandbox \in [Response -> Response \cup {None}]
    /\ alive \subseteq Response /\ leaked \subseteq Response
    /\ turn \in [Response -> {"none", "running", "completed", "interrupted", "lost"}]
    /\ status \in [Response -> {"none", "in_progress", "deleted"} \cup Terminal]
    /\ active \subseteq Response
    /\ driver \in [Response -> {"none", "done"} \cup Driving] /\ cut \subseteq Response
    /\ canceller \in [Response -> 0 .. 4] /\ requested \subseteq Response
    /\ subscribed \subseteq Response
    /\ queue \in [Response -> Seq({"created", "terminal", "end"})]
    /\ faults \in 0 .. MaxFaults

Init ==
    /\ at = [r \in Response |-> "new"] /\ prev = [r \in Response |-> None]
    /\ permits = MaxExecutions /\ sandbox = [r \in Response |-> None]
    /\ alive = {} /\ leaked = {} /\ turn = [r \in Response |-> "none"]
    /\ status = [r \in Response |-> "none"] /\ active = {}
    /\ driver = [r \in Response |-> "none"] /\ cut = {}
    /\ canceller = [r \in Response |-> 0] /\ requested = {} /\ subscribed = {}
    /\ queue = [r \in Response |-> <<>>] /\ faults = 0

Fault == faults < MaxFaults /\ faults' = faults + 1
NoFault == UNCHANGED faults
Goes(r, step) == at' = [at EXCEPT ![r] = step]

-----------------------------------------------------------------------------
(* _start.                                                                 *)

\* A new conversation, or the continuation of a response the client knows.
Request(r) ==
    /\ at[r] = "new"
    /\ Goes(r, "waiting")
    /\ \E p \in {None} \cup {x \in Response : status[x] # "none"} :
        prev' = [prev EXCEPT ![r] = p]
    /\ \E s \in {subscribed, subscribed \cup {r}} : subscribed' = s
    /\ UNCHANGED <<permits, sandbox, workerVars, recordVars, canceller, requested, queue, faults>>

Acquire(r) ==
    /\ at[r] = "waiting" /\ permits > 0
    /\ permits' = permits - 1
    /\ Goes(r, "checking")
    /\ UNCHANGED <<prev, sandbox, workerVars, recordVars, clientVars, queue, faults>>

\* Deviation: a previous response that is being executed is not refused.
IdleAnyway(p) == status[p] # "deleted"

Idle(p) == status[p] # "deleted" /\ p \notin active

Check(r) ==
    /\ at[r] = "checking"
    /\ Goes(r, IF prev[r] = None THEN "creating" ELSE IF Idle(prev[r]) THEN "renewing" ELSE "undo")
    /\ UNCHANGED <<prev, permits, sandbox, workerVars, recordVars, clientVars, queue, faults>>

\* A call that fails, or whose reply is lost, may have created a sandbox that
\* created_sandbox_id never names.
CreateSandbox(r) ==
    /\ at[r] = "creating"
    /\ \/ /\ sandbox' = [sandbox EXCEPT ![r] = r] /\ alive' = alive \cup {r}
          /\ Goes(r, "checkout") /\ NoFault
       \/ /\ Fault /\ Goes(r, "undo")
          /\ alive' \in {alive, alive \cup {r}} /\ UNCHANGED sandbox
    /\ UNCHANGED <<prev, permits, turn, leaked, recordVars, clientVars, queue>>

\* authorize, inspect and renew the sandbox of the previous response
RenewSandbox(r) ==
    /\ at[r] = "renewing"
    /\ \/ /\ sandbox[prev[r]] \in alive
          /\ sandbox' = [sandbox EXCEPT ![r] = sandbox[prev[r]]]
          /\ Goes(r, "checkout") /\ NoFault
       \/ /\ (sandbox[prev[r]] \notin alive /\ NoFault) \/ Fault
          /\ Goes(r, "undo") /\ UNCHANGED sandbox
    /\ UNCHANGED <<prev, permits, workerVars, recordVars, clientVars, queue>>

\* The checkout operation, if there is one, is waited for.
Checkout(r) ==
    /\ at[r] = "checkout"
    /\ \/ sandbox[r] \in alive /\ Goes(r, "thread") /\ NoFault
       \/ ((sandbox[r] \notin alive /\ NoFault) \/ Fault) /\ Goes(r, "undo")
    /\ UNCHANGED <<prev, permits, sandbox, workerVars, recordVars, clientVars, queue>>

\* thread/start, or thread/fork from the turn that is continued
StartOrContinueThread(r) ==
    /\ at[r] = "thread"
    /\ \/ sandbox[r] \in alive /\ Goes(r, "turn") /\ NoFault
       \/ ((sandbox[r] \notin alive /\ NoFault) \/ Fault) /\ Goes(r, "undo")
    /\ UNCHANGED <<prev, permits, sandbox, workerVars, recordVars, clientVars, queue>>

\* turn/start; then, without a suspension, everything the response is known
\* by.  A call that fails may have started the turn.
StartTurn(r) ==
    /\ at[r] = "turn"
    /\ \/ /\ sandbox[r] \in alive /\ NoFault
          /\ Goes(r, "started")
          /\ turn' = [turn EXCEPT ![r] = "running"]
          /\ status' = [status EXCEPT ![r] = "in_progress"]
          /\ active' = active \cup {r}
          /\ driver' = [driver EXCEPT ![r] = "run"]
          /\ queue' = IF r \in subscribed THEN [queue EXCEPT ![r] = <<"created">>] ELSE queue
       \/ /\ (sandbox[r] \notin alive /\ NoFault) \/ Fault
          /\ Goes(r, "undo")
          /\ turn' \in {turn, IF sandbox[r] \in alive THEN [turn EXCEPT ![r] = "running"] ELSE turn}
          /\ UNCHANGED <<status, active, driver, queue>>
    /\ UNCHANGED <<prev, permits, sandbox, alive, leaked, cut, clientVars>>

Gone(s) == [r \in Response |-> IF sandbox[r] = s /\ turn[r] = "running" THEN "lost" ELSE turn[r]]

\* The sandbox this start knows it created is terminated, if that works.
TerminateCreated(r) ==
    IF sandbox[r] = r
      THEN \/ alive' = alive \ {r} /\ turn' = Gone(r) /\ UNCHANGED leaked
           \/ faults < MaxFaults /\ leaked' = leaked \cup {r} /\ UNCHANGED <<alive, turn>>
      ELSE UNCHANGED workerVars

\* Deviation: a start that has no sandbox yet keeps its permit.
WithSandbox(r) == IF sandbox[r] # None THEN permits + 1 ELSE permits

GivenBack(r) == permits + 1

\* The except clause: everything that was taken is given back.
Undo(r) ==
    /\ at[r] = "undo"
    /\ TerminateCreated(r)
    /\ permits' = GivenBack(r)
    /\ Goes(r, "refused")
    /\ faults' = IF leaked' # leaked THEN faults + 1 ELSE faults
    /\ UNCHANGED <<prev, sandbox, recordVars, clientVars, queue>>

-----------------------------------------------------------------------------
(* _drive.                                                                 *)

Told(r, e) == IF r \in subscribed THEN [queue EXCEPT ![r] = Append(@, e)] ELSE queue

\* builder.fail or incomplete, and what they return, published at once: only a
\* response in progress ends.
End(r, s) ==
    IF status[r] \in Terminal THEN UNCHANGED <<status, queue>>
    ELSE status' = [status EXCEPT ![r] = s] /\ queue' = Told(r, "terminal")

Drives(r, step) == driver' = [driver EXCEPT ![r] = step]

\* The end of the turn arrives and builder.consume puts it into the record.
SeeEnd(r) ==
    /\ driver[r] = "run"
    /\ \/ turn[r] = "completed" /\ status' = [status EXCEPT ![r] = "completed"]
       \/ turn[r] = "interrupted" /\ status' = [status EXCEPT ![r] = "incomplete"]
    /\ Drives(r, "publishing")
    /\ UNCHANGED <<startVars, workerVars, active, cut, clientVars, queue, faults>>

\* Its events wait for app/read, and are published then.
Publish(r) ==
    /\ driver[r] = "publishing"
    /\ queue' = Told(r, "terminal")
    /\ Drives(r, "notify")
    /\ UNCHANGED <<startVars, workerVars, status, active, cut, clientVars, faults>>

Outcome(r) == IF r \in requested THEN "incomplete" ELSE "failed"

\* Deviation: the driver connects to a sandbox that has gone for ever.
StreamRetried(r) ==
    /\ driver[r] = "run" /\ r \in requested /\ Fault
    /\ End(r, Outcome(r))
    /\ Drives(r, "notify")
    /\ UNCHANGED <<startVars, workerVars, active, cut, clientVars>>

\* Deviation: subscribers are not told how a broken response ended.
StreamBreaksSilently(r) ==
    /\ driver[r] = "run" /\ sandbox[r] \notin alive
    /\ status' = [status EXCEPT ![r] = Outcome(r)]
    /\ Drives(r, "notify")
    /\ UNCHANGED <<startVars, workerVars, active, cut, clientVars, queue, faults>>

\* The response ends with a stream that does not go on: its sandbox has gone,
\* or, with the sandbox there, it breaks while the response is cancelled, has a
\* gap or a failed session, or a lease, inspect or renew call fails.
StreamBreaks(r) ==
    /\ driver[r] = "run"
    /\ (sandbox[r] \notin alive /\ NoFault) \/ Fault
    /\ End(r, Outcome(r))
    /\ Drives(r, "notify")
    /\ UNCHANGED <<startVars, workerVars, active, cut, clientVars>>

\* request_timeout_seconds are over; the turn is interrupted, if that works.
\* An end that waits to be published is in the record already, and is dropped.
Deadline(r) ==
    /\ driver[r] \in {"run", "publishing"} /\ Fault
    /\ Drives(r, "deadline")
    /\ cut' = IF driver[r] = "publishing" THEN cut \cup {r} ELSE cut
    /\ UNCHANGED <<startVars, workerVars, status, active, clientVars, queue>>

Interrupted(r) ==
    IF turn[r] = "running" /\ sandbox[r] \in alive
      THEN [turn EXCEPT ![r] = "interrupted"] ELSE turn

AfterDeadline(r) ==
    /\ driver[r] = "deadline"
    /\ \/ turn' = Interrupted(r) /\ NoFault
       \/ Fault /\ UNCHANGED turn
    /\ End(r, Outcome(r))
    /\ Drives(r, "notify")
    /\ UNCHANGED <<startVars, alive, leaked, active, cut, clientVars>>

\* _notify_terminal takes its time, whether the BFF answers or not.
Notifying(r) == driver[r] = "notify"

\* _cleanup does not suspend.
Cleanup(r) ==
    /\ Notifying(r)
    /\ Drives(r, "done")
    /\ active' = active \ {r}
    /\ queue' = Told(r, "end")
    /\ permits' = permits + 1
    /\ UNCHANGED <<at, prev, sandbox, workerVars, status, cut, clientVars, faults>>

-----------------------------------------------------------------------------
(* Clients.                                                                *)

Cancel(r) ==
    /\ "cancel" \in Inputs /\ r \in active \ requested
    /\ requested' = requested \cup {r}
    /\ canceller' = [canceller EXCEPT ![r] = 1]
    /\ UNCHANGED <<startVars, workerVars, recordVars, subscribed, queue, faults>>

\* turn/interrupt, three times, while the response is in progress; then the
\* sandbox is terminated.
CancelAttempt(r) ==
    /\ canceller[r] \in 1 .. 3
    /\ \/ /\ turn' = Interrupted(r) /\ NoFault
          /\ canceller' = [canceller EXCEPT ![r] = 0]
       \/ /\ (turn[r] # "running" /\ NoFault) \/ Fault
          /\ canceller' = [canceller EXCEPT ![r] = IF status[r] # "in_progress" THEN 0 ELSE @ + 1]
          /\ UNCHANGED turn
    /\ UNCHANGED <<startVars, alive, leaked, recordVars, requested, subscribed, queue>>

CancelTerminates(r) ==
    /\ canceller[r] = 4
    /\ canceller' = [canceller EXCEPT ![r] = 0]
    /\ \/ /\ alive' = alive \ {sandbox[r]} /\ turn' = Gone(sandbox[r])
          /\ UNCHANGED leaked /\ NoFault
       \/ Fault /\ leaked' = leaked \cup {sandbox[r]} /\ UNCHANGED <<alive, turn>>
    /\ UNCHANGED <<startVars, recordVars, requested, subscribed, queue>>

Delete(r) ==
    /\ "delete" \in Inputs /\ status[r] \notin {"none", "deleted"} /\ r \notin active
    /\ status' = [status EXCEPT ![r] = "deleted"]
    /\ UNCHANGED <<startVars, workerVars, active, driver, cut, clientVars, queue, faults>>

Disconnect(r) ==
    /\ "disconnect" \in Inputs /\ r \in subscribed /\ at[r] = "started"
    /\ subscribed' = subscribed \ {r}
    /\ UNCHANGED <<startVars, workerVars, recordVars, canceller, requested, queue, faults>>

-----------------------------------------------------------------------------
(* Workers.                                                                *)

TurnEnds(r) ==
    /\ turn[r] = "running"
    /\ turn' = [turn EXCEPT ![r] = "completed"]
    /\ UNCHANGED <<startVars, alive, leaked, recordVars, clientVars, queue, faults>>

SandboxDies(s) ==
    /\ s \in alive /\ Fault
    /\ alive' = alive \ {s} /\ turn' = Gone(s)
    /\ UNCHANGED <<startVars, leaked, recordVars, clientVars, queue>>

-----------------------------------------------------------------------------
Start(r) ==
    Check(r) \/ CreateSandbox(r) \/ RenewSandbox(r) \/ Checkout(r)
    \/ StartOrContinueThread(r) \/ StartTurn(r) \/ Undo(r)

Follow(r) == SeeEnd(r) \/ Publish(r) \/ StreamBreaks(r) \/ AfterDeadline(r) \/ Cleanup(r)

Cancelling(r) == CancelAttempt(r) \/ CancelTerminates(r)

Next ==
    \E r \in Response :
        \/ Request(r) \/ Acquire(r) \/ Start(r) \/ Follow(r) \/ Deadline(r)
        \/ Cancel(r) \/ Cancelling(r) \/ Delete(r) \/ Disconnect(r)
        \/ TurnEnds(r) \/ SandboxDies(r)

Spec == Init /\ [][Next]_vars

\* Requests, drivers and cancellations run; a turn ends or hits the deadline
\* of its driver; asyncio.Semaphore is first-come first-served.
Fairness ==
    \A r \in Response :
        /\ WF_vars(Start(r)) /\ WF_vars(Follow(r)) /\ WF_vars(Cancelling(r))
        /\ WF_vars(TurnEnds(r)) /\ SF_vars(Acquire(r))

FairSpec == Spec /\ Fairness

-----------------------------------------------------------------------------
\* However a start fails and a driver ends, the permit it took comes back,
\* once (_semaphore).
Holding == {r \in Response : at[r] \in Starting \/ driver[r] \in Driving}

PermitsAreConserved == permits + Cardinality(Holding) = MaxExecutions

\* The store, the driver and the record agree: a response is active exactly
\* while a driver has it, in progress while the driver has not seen its end,
\* and deleted only when the driver is done.
ActiveIsDriven ==
    \A r \in Response :
        /\ r \in active <=> driver[r] \in Driving
        /\ status[r] = "in_progress" <=> driver[r] = "run" \/ (driver[r] = "deadline" /\ r \notin cut)
        /\ status[r] = "deleted" => driver[r] = "done"

Whole == <<"created", "terminal", "end">>
WithoutEnd == <<"created", "end">>

\* A subscriber that stays gets the first event, one terminal event and the
\* end of the stream, in this order; the terminal event is missing exactly when
\* the deadline passed between builder.consume and the publication.
StreamIsWhole ==
    \A r \in Response :
        /\ \E s \in {Whole, WithoutEnd} : \E n \in 0 .. Len(s) : queue[r] = SubSeq(s, 1, n)
        /\ r \in subscribed /\ driver[r] = "done" =>
              queue[r] = IF r \in cut THEN WithoutEnd ELSE Whole

\* A start that failed took back the sandbox it knows (created_sandbox_id),
\* unless that call failed.  Of one whose creation was never answered it does
\* not know.
SandboxHasOwner ==
    \A r \in Response :
        at[r] = "refused" /\ sandbox[r] = r /\ r \in alive => r \in leaked

\* Permits, sandboxes, drivers and records stay together.
AdapterInvariant == TypeOK /\ PermitsAreConserved /\ ActiveIsDriven /\ SandboxHasOwner

\* A turn runs only after the response it continues has ended.
TurnFollowsPrevious ==
    \A r \in Response : turn[r] # "none" /\ prev[r] # None =>
        status[prev[r]] \in Terminal \cup {"deleted"} /\ driver[prev[r]] = "done"

\* Every execution ends and is cleaned up, and every request is answered.
ExecutionsEnd ==
    \A r \in Response : at[r] = "waiting" ~> at[r] = "refused" \/ driver[r] = "done"
=============================================================================
