---------------------- MODULE ResponsesAdapter_proofs ----------------------
(***************************************************************************)
(* The bookkeeping of the Responses Adapter, for any number of responses,  *)
(* permits and faults: permits come back, records and drivers agree, a     *)
(* sandbox has an owner, turns of one conversation do not overlap, and     *)
(* every stream is whole.                                                  *)
(*                                                                         *)
(* Stages says what a response has at each stage of its start; Chain, what *)
(* the start has established about the response it continues; Stream, what *)
(* its subscriber has got when the driver is where it is.                  *)
(***************************************************************************)
EXTENDS ResponsesAdapter, FiniteSetTheorems, SequenceTheorems, TLAPS

Early == {"new", "waiting", "checking", "creating", "renewing"}
Ended(p) == status[p] \in Terminal \cup {"deleted"} /\ driver[p] = "done"

Stage(r) ==
    /\ driver[r] # "none" <=> at[r] = "started"
    /\ driver[r] # "none" <=> status[r] # "none"
    /\ canceller[r] # 0 => at[r] = "started"
    /\ at[r] \in {"checkout", "thread", "turn", "started"} => sandbox[r] # None
    /\ at[r] \in Early => turn[r] = "none"
    /\ r \in cut => driver[r] \in {"deadline", "notify", "done"}
    /\ at[r] = "creating" => prev[r] = None
    /\ at[r] = "renewing" => prev[r] # None

Chain(r) ==
    prev[r] # None =>
        /\ status[prev[r]] # "none"
        /\ at[r] \in {"renewing", "checkout", "thread", "turn"} \/ turn[r] # "none" => Ended(prev[r])

Stages == \A r \in Response : Stage(r)
Chains == \A r \in Response : Chain(r)

Inv == AdapterInvariant /\ Stages /\ Chains

-----------------------------------------------------------------------------
(* Permits: a response that starts or ends holding one is one element more *)
(* or less of a finite set.                                                *)
Holds(r) == at[r] \in Starting \/ driver[r] \in Driving

LEMMA HoldingIsFinite == IsFiniteSet(Holding) /\ IsFiniteSet(Holding)'
<1>1. Holding \subseteq Response /\ Holding' \subseteq Response
  BY DEF Holding
<1> QED BY <1>1, AdapterAssumption, FS_Subset

LEMMA PermitsKept ==
  ASSUME PermitsAreConserved, UNCHANGED permits, \A r \in Response : Holds(r)' <=> Holds(r)
  PROVE  PermitsAreConserved'
<1>1. Holding' = Holding
  BY DEF Holding, Holds, Driving
<1> QED BY <1>1 DEF PermitsAreConserved

LEMMA PermitTaken ==
  ASSUME TypeOK, PermitsAreConserved, NEW r \in Response, permits > 0, permits' = permits - 1,
         ~Holds(r), Holds(r)', \A q \in Response \ {r} : Holds(q)' <=> Holds(q)
  PROVE  PermitsAreConserved' /\ permits' \in 0 .. MaxExecutions
<1>1. Holding' = Holding \cup {r} /\ r \notin Holding
  BY DEF Holding, Holds, Driving
<1>2. Cardinality(Holding') = Cardinality(Holding) + 1
  BY <1>1, HoldingIsFinite, FS_AddElement
<1>3. permits \in 0 .. MaxExecutions /\ Cardinality(Holding) \in Nat
  BY HoldingIsFinite, FS_CardinalityType DEF TypeOK
<1> QED BY <1>2, <1>3, AdapterAssumption DEF PermitsAreConserved

LEMMA PermitReturned ==
  ASSUME TypeOK, PermitsAreConserved, NEW r \in Response, permits' = permits + 1,
         Holds(r), ~Holds(r)', \A q \in Response \ {r} : Holds(q)' <=> Holds(q)
  PROVE  PermitsAreConserved' /\ permits' \in 0 .. MaxExecutions
<1>1. Holding' = Holding \ {r} /\ r \in Holding
  BY DEF Holding, Holds, Driving
<1>2. Cardinality(Holding') = Cardinality(Holding) - 1
  BY <1>1, HoldingIsFinite, FS_RemoveElement
<1>3. /\ permits \in 0 .. MaxExecutions
      /\ Cardinality(Holding) \in Nat /\ Cardinality(Holding') \in Nat
  BY HoldingIsFinite, FS_CardinalityType DEF TypeOK
<1> QED BY <1>2, <1>3, AdapterAssumption DEF PermitsAreConserved

-----------------------------------------------------------------------------
(* _start, up to the turn: no record, driver or turn is touched. *)
LEMMA RequestInv == ASSUME Inv, NEW r \in Response, Request(r) PROVE Inv'
<1>1. TypeOK'
  BY DEF Inv, AdapterInvariant, TypeOK, Request, Goes, startVars, workerVars, recordVars
<1>2. PermitsAreConserved'
  BY PermitsKept DEF Inv, AdapterInvariant, TypeOK, Request, Goes, Holds, Starting, recordVars
<1>3. ActiveIsDriven' /\ SandboxHasOwner'
  BY DEF Inv, AdapterInvariant, TypeOK, ActiveIsDriven, SandboxHasOwner, Request, Goes,
         recordVars, workerVars
<1>4. Stages'
  BY DEF Inv, AdapterInvariant, TypeOK, Stages, Stage, Request, Goes, recordVars, workerVars, Early
<1>5. Chains'
  BY DEF Inv, AdapterInvariant, TypeOK, Stages, Stage, Chains, Chain, Ended, Request, Goes,
         recordVars, workerVars, Early
<1> QED BY <1>1, <1>2, <1>3, <1>4, <1>5 DEF Inv, AdapterInvariant

LEMMA AcquireInv == ASSUME Inv, NEW r \in Response, Acquire(r) PROVE Inv'
<1>1. PermitsAreConserved' /\ permits' \in 0 .. MaxExecutions
  <2>0. driver[r] = "none"
    BY DEF Inv, Stages, Stage, Acquire
  <2>1. ~Holds(r) /\ Holds(r)' /\ \A q \in Response \ {r} : Holds(q)' <=> Holds(q)
    BY <2>0 DEF Inv, AdapterInvariant, TypeOK, Acquire, Goes, Holds, Starting, Driving, recordVars
  <2> QED BY <2>1, PermitTaken DEF Inv, AdapterInvariant, Acquire
<1>2. TypeOK'
  BY <1>1 DEF Inv, AdapterInvariant, TypeOK, Acquire, Goes, Starting, workerVars, recordVars, clientVars
<1>3. ActiveIsDriven' /\ SandboxHasOwner'
  BY DEF Inv, AdapterInvariant, TypeOK, ActiveIsDriven, SandboxHasOwner, Acquire, Goes,
         recordVars, workerVars
<1>4. Stages' /\ Chains'
  BY DEF Inv, AdapterInvariant, TypeOK, Stages, Stage, Chains, Chain, Ended, Acquire, Goes,
         recordVars, workerVars, clientVars, Early
<1> QED BY <1>1, <1>2, <1>3, <1>4 DEF Inv, AdapterInvariant

\* A response that has a record and no driver at work has ended.
LEMMA IdleHasEnded ==
  ASSUME Inv, NEW p \in Response, Idle(p), status[p] # "none"
  PROVE  Ended(p)
<1>1. driver[p] = "done" /\ status[p] # "in_progress"
  BY DEF Inv, AdapterInvariant, TypeOK, ActiveIsDriven, Stages, Stage, Idle
<1> QED BY <1>1 DEF Inv, AdapterInvariant, TypeOK, Idle, Ended

\* The steps between the permit and the turn.
Underway(r) ==
    Check(r) \/ CreateSandbox(r) \/ RenewSandbox(r) \/ Checkout(r) \/ StartOrContinueThread(r)

LEMMA UnderwayInv == ASSUME Inv, NEW r \in Response, Underway(r) PROVE Inv'
<1>0. /\ at[r] \in {"checking", "creating", "renewing", "checkout", "thread"}
      /\ \E step \in Starting \ {"checking"} : at' = [at EXCEPT ![r] = step]
      /\ UNCHANGED <<cut, prev, permits, turn, leaked, status, active, driver, canceller, requested,
                     subscribed, queue>>
  BY DEF Underway, Check, CreateSandbox, RenewSandbox, Checkout, StartOrContinueThread, Goes,
         Starting, workerVars, recordVars, clientVars
<1>1. sandbox' \in [Response -> Response \cup {None}] /\ alive' \subseteq Response
  BY DEF Inv, AdapterInvariant, TypeOK, Underway, Check, CreateSandbox, RenewSandbox, Checkout,
         StartOrContinueThread, workerVars
<1>2. faults' \in 0 .. MaxFaults
  BY AdapterAssumption DEF Inv, AdapterInvariant, TypeOK, Underway, Check, CreateSandbox,
     RenewSandbox, Checkout, StartOrContinueThread, Fault, NoFault
<1>3. TypeOK'
  <2>1. at' \in [Response -> {"new", "waiting", "refused", "started"} \cup Starting]
    BY <1>0 DEF Inv, AdapterInvariant, TypeOK
  <2> QED BY <1>0, <1>1, <1>2, <2>1 DEF Inv, AdapterInvariant, TypeOK
<1>4. PermitsAreConserved'
  BY <1>0, PermitsKept DEF Inv, AdapterInvariant, TypeOK, Holds, Starting
<1>5. at'[r] \in Starting /\ \A q \in Response \ {r} : at'[q] = at[q] /\ sandbox'[q] = sandbox[q]
      /\ (q \in alive' <=> q \in alive)
  BY <1>0 DEF Inv, AdapterInvariant, TypeOK, Underway, Check, CreateSandbox, RenewSandbox,
     Checkout, StartOrContinueThread, workerVars
<1>6. ActiveIsDriven' /\ SandboxHasOwner'
  BY <1>0, <1>5 DEF Inv, AdapterInvariant, TypeOK, ActiveIsDriven, SandboxHasOwner, Starting
<1>7. Stage(r)'
  BY <1>0, <1>3, AdapterAssumption DEF Inv, AdapterInvariant, TypeOK, Stages, Stage, Underway,
     Check, CreateSandbox, RenewSandbox, Checkout, StartOrContinueThread, Goes, Early, workerVars
<1>8. Chain(r)'
  <2>1. CASE at[r] = "checking" /\ prev[r] # None
    BY <1>0, <2>1, IdleHasEnded DEF Inv, AdapterInvariant, TypeOK, Stages, Stage, Chains, Chain,
       Underway, Check, CreateSandbox, RenewSandbox, Checkout, StartOrContinueThread, Goes, Ended,
       Early
  <2>2. CASE at[r] # "checking"
    BY <1>0, <2>2 DEF Inv, AdapterInvariant, TypeOK, Stages, Stage, Chains, Chain, Ended
  <2> QED BY <1>0, <2>1, <2>2 DEF Chain
<1>9. \A q \in Response \ {r} : Stage(q)' /\ Chain(q)'
  BY <1>0, <1>5 DEF Inv, Stages, Stage, Chains, Chain, Ended
<1> QED BY <1>3, <1>4, <1>6, <1>7, <1>8, <1>9 DEF Inv, AdapterInvariant, Stages, Chains

LEMMA StartTurnInv == ASSUME Inv, NEW r \in Response, StartTurn(r) PROVE Inv'
<1>0. /\ at[r] = "turn" /\ sandbox[r] # None /\ driver[r] = "none" /\ status[r] = "none"
      /\ UNCHANGED <<cut, prev, permits, sandbox, alive, leaked, canceller, requested, subscribed>>
      /\ \A q \in Response \ {r} : /\ at'[q] = at[q] /\ turn'[q] = turn[q] /\ driver'[q] = driver[q]
                                   /\ status'[q] = status[q] /\ (q \in active' <=> q \in active)
  BY DEF Inv, AdapterInvariant, TypeOK, Stages, Stage, StartTurn, Goes, recordVars, clientVars
<1>1. \/ /\ at'[r] = "started" /\ turn'[r] = "running" /\ status'[r] = "in_progress"
         /\ r \in active' /\ driver'[r] = "run"
      \/ /\ at'[r] = "undo" /\ status'[r] = "none" /\ driver'[r] = "none"
         /\ (r \in active' <=> r \in active)
  BY <1>0 DEF Inv, AdapterInvariant, TypeOK, StartTurn, Goes, recordVars
<1>2. TypeOK'
  <2>1. faults' \in 0 .. MaxFaults
    BY AdapterAssumption DEF Inv, AdapterInvariant, TypeOK, StartTurn, Fault, NoFault
  <2>2. queue' \in [Response -> Seq({"created", "terminal", "end"})]
    <3>1. <<"created">> \in Seq({"created", "terminal", "end"})
      OBVIOUS
    <3>2. queue' \in {queue, [queue EXCEPT ![r] = <<"created">>]}
      BY DEF StartTurn
    <3>3. queue \in [Response -> Seq({"created", "terminal", "end"})]
      BY DEF Inv, AdapterInvariant, TypeOK
    <3> QED BY <3>1, <3>2, <3>3
  <2>3. /\ at' \in [Response -> {"new", "waiting", "refused", "started"} \cup Starting]
        /\ turn' \in [Response -> {"none", "running", "completed", "interrupted", "lost"}]
    BY DEF Inv, AdapterInvariant, TypeOK, StartTurn, Goes, Starting
  <2>4. /\ status' \in [Response -> {"none", "in_progress", "deleted"} \cup Terminal]
        /\ active' \subseteq Response
        /\ driver' \in [Response -> {"none", "done"} \cup Driving]
    BY DEF Inv, AdapterInvariant, TypeOK, StartTurn, recordVars, Driving
  <2> QED BY <1>0, <2>1, <2>2, <2>3, <2>4 DEF Inv, AdapterInvariant, TypeOK
<1>3. PermitsAreConserved'
  <2>1. \A q \in Response : Holds(q)' <=> Holds(q)
    BY <1>0, <1>1 DEF Holds, Starting, Driving
  <2> QED BY <1>0, <2>1, PermitsKept DEF Inv, AdapterInvariant
<1>4. ActiveIsDriven' /\ SandboxHasOwner'
  BY <1>0, <1>1 DEF Inv, AdapterInvariant, ActiveIsDriven, SandboxHasOwner, Stages, Stage, Driving
<1>5. Stages'
  BY <1>0, <1>1 DEF Inv, Stages, Stage, Early
<1>6. Chains'
  <2>1. ASSUME NEW q \in Response, prev[q] # None PROVE Chain(q)'
    <3>1. prev[q] \in Response /\ status[prev[q]] # "none" /\ prev[q] # r
      BY <1>0, <2>1 DEF Inv, AdapterInvariant, TypeOK, Chains, Chain
    <3>2. status'[prev[q]] = status[prev[q]] /\ driver'[prev[q]] = driver[prev[q]]
      BY <1>0, <3>1
    <3> QED BY <1>0, <2>1, <3>1, <3>2 DEF Inv, Chains, Chain, Ended
  <2> QED BY <1>0, <2>1 DEF Chains, Chain
<1> QED BY <1>2, <1>3, <1>4, <1>5, <1>6 DEF Inv, AdapterInvariant

\* A sandbox that goes takes its running turns with it.
LEMMA GoneTurns ==
  ASSUME TypeOK, NEW s
  PROVE  /\ Gone(s) \in [Response -> {"none", "running", "completed", "interrupted", "lost"}]
         /\ \A q \in Response : Gone(s)[q] = "none" <=> turn[q] = "none"
BY DEF TypeOK, Gone

LEMMA UndoInv == ASSUME Inv, NEW r \in Response, Undo(r) PROVE Inv'
<1>0. /\ at[r] = "undo" /\ at' = [at EXCEPT ![r] = "refused"]
      /\ driver[r] = "none" /\ permits' = permits + 1
      /\ UNCHANGED <<cut, prev, sandbox, status, active, driver, canceller, requested, subscribed,
                     queue>>
  BY DEF Inv, AdapterInvariant, TypeOK, Stages, Stage, Undo, Goes, GivenBack, recordVars, clientVars
<1>1. /\ alive' \subseteq alive /\ leaked \subseteq leaked' /\ leaked' \subseteq leaked \cup {r}
      /\ sandbox[r] = r /\ r \in alive' => r \in leaked'
      /\ leaked' # leaked => faults < MaxFaults
      /\ turn' \in [Response -> {"none", "running", "completed", "interrupted", "lost"}]
      /\ \A q \in Response : turn'[q] = "none" <=> turn[q] = "none"
  <2>1. CASE sandbox[r] = r
    BY <2>1, GoneTurns DEF Undo, TerminateCreated, Inv, AdapterInvariant, TypeOK
  <2>2. CASE sandbox[r] # r
    BY <2>2 DEF Undo, TerminateCreated, Inv, AdapterInvariant, TypeOK, workerVars
  <2> QED BY <2>1, <2>2
<1>2. PermitsAreConserved' /\ permits' \in 0 .. MaxExecutions
  <2>1. Holds(r) /\ ~Holds(r)' /\ \A q \in Response \ {r} : Holds(q)' <=> Holds(q)
    BY <1>0 DEF Inv, AdapterInvariant, TypeOK, Holds, Starting, Driving
  <2> QED BY <1>0, <2>1, PermitReturned DEF Inv, AdapterInvariant
<1>3. TypeOK'
  <2>1. faults' \in 0 .. MaxFaults
    BY <1>1, AdapterAssumption DEF Inv, AdapterInvariant, TypeOK, Undo
  <2> QED BY <1>0, <1>1, <1>2, <2>1 DEF Inv, AdapterInvariant, TypeOK
<1>4. ActiveIsDriven' /\ SandboxHasOwner'
  BY <1>0, <1>1 DEF Inv, AdapterInvariant, TypeOK, ActiveIsDriven, SandboxHasOwner
<1>5. Stages'
  BY <1>0, <1>1 DEF Inv, AdapterInvariant, TypeOK, Stages, Stage, Early
<1>6. Chains'
  BY <1>0, <1>1 DEF Inv, AdapterInvariant, TypeOK, Chains, Chain, Ended
<1> QED BY <1>2, <1>3, <1>4, <1>5, <1>6 DEF Inv, AdapterInvariant

-----------------------------------------------------------------------------
(* _drive: the steps that leave permits and starts alone. *)
LEMMA ToldType ==
  ASSUME TypeOK, NEW r \in Response, NEW e \in {"created", "terminal", "end"}
  PROVE  Told(r, e) \in [Response -> Seq({"created", "terminal", "end"})]
BY DEF TypeOK, Told

\* A response that ends is one the driver was following.
LEMMA EndsInProgress ==
  ASSUME Inv, NEW r \in Response, driver[r] \in {"run", "deadline"}, NEW s \in Terminal, End(r, s)
  PROVE  /\ IF r \in cut THEN UNCHANGED <<status, queue>>
                          ELSE status' = [status EXCEPT ![r] = s] /\ queue' = Told(r, "terminal")
         /\ queue' \in [Response -> Seq({"created", "terminal", "end"})]
<1>1. r \notin cut <=> status[r] = "in_progress"
  BY DEF Inv, AdapterInvariant, ActiveIsDriven, Stages, Stage
<1>2. r \in cut => status[r] \in Terminal
  <2>1. status[r] \in {"none", "in_progress", "deleted"} \cup Terminal
    BY DEF Inv, AdapterInvariant, TypeOK
  <2>2. status[r] # "none" /\ status[r] # "deleted"
    BY DEF Inv, AdapterInvariant, ActiveIsDriven, Stages, Stage, Driving
  <2> QED BY <1>1, <2>1, <2>2
<1>3. queue \in [Response -> Seq({"created", "terminal", "end"})]
  BY DEF Inv, AdapterInvariant, TypeOK
<1> QED BY <1>1, <1>2, <1>3, ToldType DEF End, Terminal, Inv, AdapterInvariant

\* The steps of a driver until it notifies the BFF.
Driver(r) == SeeEnd(r) \/ Publish(r) \/ StreamBreaks(r) \/ AfterDeadline(r) \/ Deadline(r)

\* What they do: see the end, publish it, end the response, or run out of time.
LEMMA DriverMoves ==
  ASSUME Inv, NEW r \in Response, Driver(r)
  PROVE  /\ \/ /\ driver[r] = "run" /\ driver' = [driver EXCEPT ![r] = "publishing"]
               /\ UNCHANGED <<cut, queue>>
               /\ \E s \in Terminal : status' = [status EXCEPT ![r] = s]
            \/ /\ driver[r] = "publishing" /\ driver' = [driver EXCEPT ![r] = "notify"]
               /\ UNCHANGED <<cut, status>> /\ queue' = Told(r, "terminal")
            \/ /\ driver[r] \in {"run", "deadline"} /\ driver' = [driver EXCEPT ![r] = "notify"]
               /\ r \notin cut /\ UNCHANGED cut /\ queue' = Told(r, "terminal")
               /\ \E s \in Terminal : status' = [status EXCEPT ![r] = s]
            \/ /\ driver[r] = "deadline" /\ driver' = [driver EXCEPT ![r] = "notify"]
               /\ r \in cut /\ UNCHANGED <<cut, status, queue>>
            \/ /\ driver[r] \in {"run", "publishing"} /\ driver' = [driver EXCEPT ![r] = "deadline"]
               /\ cut' = (IF driver[r] = "publishing" THEN cut \cup {r} ELSE cut)
               /\ UNCHANGED <<status, queue>>
         /\ queue' \in [Response -> Seq({"created", "terminal", "end"})]
<1>1. CASE SeeEnd(r)
  BY <1>1 DEF SeeEnd, Drives, Terminal, Inv, AdapterInvariant, TypeOK
<1>2. CASE Publish(r)
  BY <1>2, ToldType DEF Publish, Drives, Inv, AdapterInvariant
<1>3. CASE StreamBreaks(r) \/ AfterDeadline(r)
  <2>1. /\ driver[r] \in {"run", "deadline"} /\ Drives(r, "notify") /\ UNCHANGED cut
        /\ \E s \in Terminal : End(r, s)
    BY <1>3 DEF StreamBreaks, AfterDeadline, Outcome, Terminal
  <2>2. r \in cut => driver[r] # "run"
    BY DEF Inv, Stages, Stage
  <2> QED BY <2>1, <2>2, EndsInProgress DEF Drives
<1>4. CASE Deadline(r)
  BY <1>4 DEF Deadline, Drives, Inv, AdapterInvariant, TypeOK
<1> QED BY <1>1, <1>2, <1>3, <1>4 DEF Driver

LEMMA FollowInv == ASSUME Inv, NEW r \in Response, Driver(r) PROVE Inv'
<1>0. /\ driver[r] \in {"run", "publishing", "deadline"} /\ at[r] = "started" /\ r \in active
      /\ UNCHANGED <<at, prev, permits, sandbox, alive, leaked, active, canceller, requested,
                     subscribed>>
  BY DEF Inv, AdapterInvariant, ActiveIsDriven, Stages, Stage, Driver, SeeEnd, Publish, StreamBreaks,
         AfterDeadline, Deadline, startVars, workerVars, clientVars, Driving
<1>2. /\ turn' \in [Response -> {"none", "running", "completed", "interrupted", "lost"}]
      /\ \A q \in Response : turn'[q] = "none" <=> turn[q] = "none"
  BY DEF Inv, AdapterInvariant, TypeOK, Driver, SeeEnd, Publish, StreamBreaks, AfterDeadline,
         Deadline, Interrupted, workerVars
<1>4. /\ driver \in [Response -> {"none", "done"} \cup Driving]
      /\ status \in [Response -> {"none", "in_progress", "deleted"} \cup Terminal]
      /\ cut \subseteq Response
      /\ driver[r] \in {"run", "deadline"} /\ r \notin cut <=> status[r] = "in_progress"
      /\ status[r] \in {"in_progress"} \cup Terminal
      /\ r \in cut => driver[r] = "deadline"
  BY <1>0 DEF Inv, AdapterInvariant, TypeOK, ActiveIsDriven, Stages, Stage, Driving
<1>5. /\ driver' \in [Response -> {"none", "done"} \cup Driving]
      /\ status' \in [Response -> {"none", "in_progress", "deleted"} \cup Terminal]
      /\ cut' \subseteq Response
      /\ queue' \in [Response -> Seq({"created", "terminal", "end"})]
  <2>1. /\ driver' = [driver EXCEPT ![r] = driver'[r]] /\ driver'[r] \in Driving
        /\ cut' \subseteq cut \cup {r}
        /\ UNCHANGED status \/ \E s \in Terminal : status' = [status EXCEPT ![r] = s]
    BY <1>4, DriverMoves DEF Driving
  <2>2. queue' \in [Response -> Seq({"created", "terminal", "end"})]
    BY DriverMoves
  <2>3. status' \in [Response -> {"none", "in_progress", "deleted"} \cup Terminal]
    BY <1>4, <2>1
  <2> QED BY <1>4, <2>1, <2>2, <2>3
<1>6. /\ driver'[r] \in {"publishing", "deadline", "notify"}
      /\ status'[r] = "in_progress" <=> driver'[r] = "deadline" /\ r \notin cut'
      /\ status'[r] # "none" /\ status'[r] # "deleted"
      /\ r \in cut' => driver'[r] \in {"deadline", "notify"}
      /\ \A q \in Response \ {r} : /\ driver'[q] = driver[q] /\ status'[q] = status[q]
                                   /\ q \in cut' <=> q \in cut
  BY <1>4, DriverMoves DEF Terminal
<1>3. TypeOK'
  <2>1. faults' \in 0 .. MaxFaults
    BY AdapterAssumption DEF Inv, AdapterInvariant, TypeOK, Driver, SeeEnd, Publish, StreamBreaks,
       AfterDeadline, Deadline, Fault, NoFault
  <2> QED BY <1>0, <1>2, <1>5, <2>1 DEF Inv, AdapterInvariant, TypeOK
<1>7. PermitsAreConserved'
  <2>1. \A q \in Response : Holds(q)' <=> Holds(q)
    BY <1>0, <1>6 DEF Holds, Driving
  <2> QED BY <1>0, <2>1, PermitsKept DEF Inv, AdapterInvariant
<1>8. ActiveIsDriven' /\ SandboxHasOwner'
  BY <1>0, <1>6 DEF Inv, AdapterInvariant, ActiveIsDriven, SandboxHasOwner, Driving
<1>9. Stages'
  BY <1>0, <1>2, <1>6 DEF Inv, AdapterInvariant, Stages, Stage
<1>10. Chains'
  <2>1. ~Ended(r)
    BY <1>0 DEF Ended
  <2>2. ASSUME NEW q \in Response, prev[q] # None PROVE Chain(q)'
    <3>1. prev[q] \in Response /\ Chain(q)
      BY <2>2 DEF Inv, AdapterInvariant, TypeOK, Chains
    <3>2. CASE prev[q] = r
      BY <1>0, <1>2, <1>6, <2>1, <2>2, <3>1, <3>2 DEF Chain
    <3>3. CASE prev[q] # r
      BY <1>0, <1>2, <1>6, <2>2, <3>1, <3>3 DEF Chain, Ended
    <3> QED BY <3>2, <3>3
  <2> QED BY <1>0, <2>2 DEF Chains, Chain
<1> QED BY <1>3, <1>7, <1>8, <1>9, <1>10 DEF Inv, AdapterInvariant

LEMMA CleanupInv == ASSUME Inv, NEW r \in Response, Cleanup(r) PROVE Inv'
<1>0. /\ driver[r] = "notify" /\ driver' = [driver EXCEPT ![r] = "done"]
      /\ active' = active \ {r} /\ permits' = permits + 1
      /\ at[r] = "started"
      /\ UNCHANGED <<cut, at, prev, sandbox, alive, turn, leaked, status, canceller, requested,
                     subscribed, faults>>
  BY DEF Inv, Stages, Stage, Cleanup, Notifying, Drives, workerVars, clientVars
<1>1. PermitsAreConserved' /\ permits' \in 0 .. MaxExecutions
  <2>1. Holds(r) /\ ~Holds(r)' /\ \A q \in Response \ {r} : Holds(q)' <=> Holds(q)
    BY <1>0 DEF Inv, AdapterInvariant, TypeOK, Holds, Starting, Driving
  <2> QED BY <1>0, <2>1, PermitReturned DEF Inv, AdapterInvariant
<1>2. TypeOK'
  <2>1. queue' \in [Response -> Seq({"created", "terminal", "end"})]
    BY ToldType DEF Cleanup, Inv, AdapterInvariant
  <2> QED BY <1>0, <1>1, <2>1 DEF Inv, AdapterInvariant, TypeOK
<1>3. ActiveIsDriven' /\ SandboxHasOwner'
  BY <1>0 DEF Inv, AdapterInvariant, TypeOK, ActiveIsDriven, SandboxHasOwner, Driving
<1>4. Stages' /\ Chains'
  BY <1>0 DEF Inv, AdapterInvariant, TypeOK, Stages, Stage, Chains, Chain, Ended
<1> QED BY <1>1, <1>2, <1>3, <1>4 DEF Inv, AdapterInvariant

-----------------------------------------------------------------------------
(* Clients and Workers: no start, driver or permit is touched. *)
Elsewhere(r) ==
    \/ Cancel(r) \/ CancelAttempt(r) \/ CancelTerminates(r) \/ Disconnect(r)
    \/ TurnEnds(r) \/ SandboxDies(r)

LEMMA ElsewhereInv == ASSUME Inv, NEW r \in Response, Elsewhere(r) PROVE Inv'
<1>0. UNCHANGED <<cut, at, prev, permits, sandbox, status, active, driver, queue>>
  BY DEF Elsewhere, Cancel, CancelAttempt, CancelTerminates, Disconnect, TurnEnds, SandboxDies,
         startVars, recordVars
<1>1. canceller[r] # 0 => sandbox[r] \in Response
  BY DEF Inv, AdapterInvariant, TypeOK, Stages, Stage
<1>2. /\ turn' \in [Response -> {"none", "running", "completed", "interrupted", "lost"}]
      /\ \A q \in Response : turn'[q] = "none" <=> turn[q] = "none"
  <2>1. CASE \E s : turn' = Gone(s)
    BY <2>1, GoneTurns DEF Inv, AdapterInvariant
  <2>2. CASE turn' = Interrupted(r) \/ UNCHANGED turn
    BY <2>2 DEF Inv, AdapterInvariant, TypeOK, Interrupted
  <2>3. CASE TurnEnds(r)
    BY <2>3 DEF Inv, AdapterInvariant, TypeOK, TurnEnds
  <2> QED BY <2>1, <2>2, <2>3 DEF Elsewhere, Cancel, CancelAttempt, CancelTerminates, Disconnect,
             SandboxDies, workerVars
<1>3. /\ alive' \subseteq alive /\ leaked \subseteq leaked'
      /\ leaked' \subseteq Response
  BY <1>1 DEF Elsewhere, Cancel, CancelAttempt, CancelTerminates, Disconnect, TurnEnds,
     SandboxDies, Inv, AdapterInvariant, TypeOK, workerVars
<1>4. /\ canceller' \in [Response -> 0 .. 4]
      /\ \A q \in Response : canceller'[q] # 0 => at[q] = "started"
  <2>1. canceller \in [Response -> 0 .. 4] /\ \A q \in Response : canceller[q] # 0 => at[q] = "started"
    BY DEF Inv, AdapterInvariant, TypeOK, Stages, Stage
  <2>2. CASE Cancel(r)
    <3>1. at[r] = "started"
      BY <2>2 DEF Cancel, Inv, AdapterInvariant, ActiveIsDriven, Stages, Stage, Driving
    <3> QED BY <2>1, <2>2, <3>1 DEF Cancel
  <2>3. CASE CancelAttempt(r)
    BY <2>1, <2>3 DEF CancelAttempt
  <2>4. CASE CancelTerminates(r)
    BY <2>1, <2>4 DEF CancelTerminates
  <2>5. CASE UNCHANGED canceller
    BY <2>1, <2>5
  <2> QED BY <2>2, <2>3, <2>4, <2>5 DEF Elsewhere, Disconnect, TurnEnds, SandboxDies, clientVars
<1>5. TypeOK'
  <2>1. faults' \in 0 .. MaxFaults
    BY AdapterAssumption DEF Inv, AdapterInvariant, TypeOK, Elsewhere, Cancel, CancelAttempt,
       CancelTerminates, Disconnect, TurnEnds, SandboxDies, Fault, NoFault
  <2>2. requested' \subseteq Response /\ subscribed' \subseteq Response
    BY DEF Inv, AdapterInvariant, TypeOK, Elsewhere, Cancel, CancelAttempt, CancelTerminates,
           Disconnect, TurnEnds, SandboxDies, clientVars
  <2> QED BY <1>0, <1>2, <1>3, <1>4, <2>1, <2>2 DEF Inv, AdapterInvariant, TypeOK
<1>6. PermitsAreConserved'
  BY <1>0, PermitsKept DEF Inv, AdapterInvariant, Holds
<1>7. ActiveIsDriven' /\ SandboxHasOwner'
  BY <1>0, <1>3 DEF Inv, AdapterInvariant, ActiveIsDriven, SandboxHasOwner
<1>8. Stages' /\ Chains'
  BY <1>0, <1>2, <1>3, <1>4 DEF Inv, Stages, Stage, Chains, Chain, Ended
<1> QED BY <1>5, <1>6, <1>7, <1>8 DEF Inv, AdapterInvariant

LEMMA DeleteInv == ASSUME Inv, NEW r \in Response, Delete(r) PROVE Inv'
<1>0. /\ driver[r] = "done" /\ status' = [status EXCEPT ![r] = "deleted"]
      /\ UNCHANGED <<at, prev, permits, sandbox, alive, turn, leaked, active, driver, canceller,
                     requested, subscribed, queue, cut, faults>>
  BY DEF Inv, AdapterInvariant, TypeOK, ActiveIsDriven, Stages, Stage, Delete, startVars,
         workerVars, clientVars
<1>1. TypeOK'
  BY <1>0 DEF Inv, AdapterInvariant, TypeOK
<1>2. PermitsAreConserved'
  BY <1>0, PermitsKept DEF Inv, AdapterInvariant, Holds
<1>3. ActiveIsDriven' /\ SandboxHasOwner'
  BY <1>0 DEF Inv, AdapterInvariant, TypeOK, ActiveIsDriven, SandboxHasOwner, Driving
<1>4. Stages' /\ Chains'
  BY <1>0 DEF Inv, AdapterInvariant, TypeOK, Stages, Stage, Chains, Chain, Ended
<1> QED BY <1>1, <1>2, <1>3, <1>4 DEF Inv, AdapterInvariant

-----------------------------------------------------------------------------
LEMMA InitInv == Init => Inv
<1> SUFFICES ASSUME Init PROVE Inv
  OBVIOUS
<1>1. PermitsAreConserved
  <2>1. Holding = {}
    BY DEF Init, Holding, Starting, Driving
  <2> QED BY <2>1, FS_EmptySet, AdapterAssumption DEF Init, PermitsAreConserved
<1>2. TypeOK
  <2>1. <<>> \in Seq({"created", "terminal", "end"})
    OBVIOUS
  <2>2. permits \in 0 .. MaxExecutions /\ faults \in 0 .. MaxFaults
    BY AdapterAssumption DEF Init
  <2> QED BY <2>1, <2>2 DEF Init, TypeOK
<1>3. ActiveIsDriven /\ SandboxHasOwner /\ Stages /\ Chains
  BY AdapterAssumption
     DEF Init, ActiveIsDriven, SandboxHasOwner, Stages, Stage, Chains, Chain, Driving
<1> QED BY <1>1, <1>2, <1>3 DEF Inv, AdapterInvariant

LEMMA NextInv == Inv /\ [Next]_vars => Inv'
<1> SUFFICES ASSUME Inv, [Next]_vars PROVE Inv'
  OBVIOUS
<1>1. CASE UNCHANGED vars
  <2>1. UNCHANGED <<cut, at, prev, permits, sandbox, alive, turn, leaked, status, active, driver,
                    canceller, requested, subscribed, queue, cut, faults>>
    BY <1>1 DEF vars, startVars, workerVars, recordVars, clientVars
  <2>2. PermitsAreConserved'
    BY <2>1, PermitsKept DEF Inv, AdapterInvariant, Holds
  <2> QED BY <2>1, <2>2 DEF Inv, AdapterInvariant, TypeOK, ActiveIsDriven, SandboxHasOwner, Stages,
             Stage, Chains, Chain, Ended
<1>2. ASSUME NEW r \in Response, Start(r) PROVE Inv'
  BY <1>2, UnderwayInv, StartTurnInv, UndoInv DEF Start, Underway
<1>3. ASSUME NEW r \in Response,
             \/ Request(r) \/ Acquire(r) \/ Follow(r) \/ Deadline(r)
             \/ Cancel(r) \/ Cancelling(r) \/ Delete(r) \/ Disconnect(r)
             \/ TurnEnds(r) \/ SandboxDies(r)
      PROVE  Inv'
  BY <1>3, RequestInv, AcquireInv, FollowInv, CleanupInv, DeleteInv, ElsewhereInv
     DEF Follow, Driver, Cancelling, Elsewhere
<1> QED BY <1>1, <1>2, <1>3 DEF Next

-----------------------------------------------------------------------------
(* What the subscriber is sent: one event for each stage of the driver.    *)
(* Only the driver sends, and it passes each stage once.                   *)
Opened == <<"created">>
Settled == <<"created", "terminal">>

Stream(r) ==
    /\ queue[r] \in {<<>>, Opened, Settled, Whole, WithoutEnd}
    /\ driver[r] = "none" => queue[r] = <<>>
    /\ r \in subscribed =>
          /\ driver[r] \in {"run", "publishing", "deadline"} => queue[r] = Opened
          /\ driver[r] = "notify" => queue[r] = IF r \in cut THEN Opened ELSE Settled
          /\ driver[r] = "done" => queue[r] = IF r \in cut THEN WithoutEnd ELSE Whole

Streams == \A r \in Response : Stream(r)

LEMMA IsAppend ==
  ASSUME NEW S, NEW s \in Seq(S), NEW e \in S, NEW t \in Seq(S), Len(t) = Len(s) + 1,
         \A i \in 1 .. Len(s) : t[i] = s[i], t[Len(s) + 1] = e
  PROVE  Append(s, e) = t
<1>1. /\ Append(s, e) \in Seq(S) /\ Len(Append(s, e)) = Len(s) + 1
      /\ \A i \in 1 .. Len(s) : Append(s, e)[i] = s[i]
      /\ Append(s, e)[Len(s) + 1] = e
  BY AppendProperties
<1>2. \A i \in 1 .. Len(t) : Append(s, e)[i] = t[i]
  BY <1>1
<1> QED BY <1>1, <1>2, SeqEqual

LEMMA IsCut ==
  ASSUME NEW S, NEW s \in Seq(S), NEW t \in Seq(S), Len(t) <= Len(s),
         \A i \in 1 .. Len(t) : t[i] = s[i]
  PROVE  SubSeq(s, 1, Len(t)) = t
<1>1. /\ 1 \in Int /\ Len(t) \in Int /\ Len(t) >= 0
      /\ \A i \in 1 .. Len(t) : s[i] \in S
  BY ElementOfSeq
<1>2. /\ SubSeq(s, 1, Len(t)) \in Seq(S)
      /\ Len(SubSeq(s, 1, Len(t))) = IF 1 <= Len(t) THEN Len(t) - 1 + 1 ELSE 0
      /\ \A i \in 1 .. Len(t) - 1 + 1 : SubSeq(s, 1, Len(t))[i] = s[1 + i - 1]
  BY <1>1, SubSeqProperties
<1>3. /\ Len(SubSeq(s, 1, Len(t))) = Len(t)
      /\ \A i \in 1 .. Len(t) : SubSeq(s, 1, Len(t))[i] = t[i]
  BY <1>1, <1>2
<1> QED BY <1>2, <1>3, SeqEqual

Kinds == {"created", "terminal", "end"}

\* The stages go on from each other.
LEMMA StagesFollow ==
  /\ Append(Opened, "terminal") = Settled /\ Append(Settled, "end") = Whole
  /\ Append(Opened, "end") = WithoutEnd /\ SubSeq(WithoutEnd, 1, 2) = WithoutEnd
  /\ SubSeq(Whole, 1, 0) = <<>> /\ SubSeq(Whole, 1, 1) = Opened
  /\ SubSeq(Whole, 1, 2) = Settled /\ SubSeq(Whole, 1, 3) = Whole
<1>1. /\ Opened \in Seq(Kinds) /\ Settled \in Seq(Kinds) /\ Whole \in Seq(Kinds)
      /\ Len(Opened) = 1 /\ Len(Settled) = 2 /\ Len(Whole) = 3
      /\ "terminal" \in Kinds /\ "end" \in Kinds
  BY DEF Opened, Settled, Whole, Kinds
<1>2. /\ \A i \in 1 .. 1 : Settled[i] = Opened[i] /\ Whole[i] = Opened[i]
      /\ \A i \in 1 .. 2 : Whole[i] = Settled[i]
      /\ Settled[2] = "terminal" /\ Whole[3] = "end"
  BY DEF Opened, Settled, Whole
<1>3. Append(Opened, "terminal") = Settled /\ Append(Settled, "end") = Whole
  <2>1. /\ Len(Settled) = Len(Opened) + 1 /\ Settled[Len(Opened) + 1] = "terminal"
        /\ \A i \in 1 .. Len(Opened) : Settled[i] = Opened[i]
    BY <1>1, <1>2
  <2>2. /\ Len(Whole) = Len(Settled) + 1 /\ Whole[Len(Settled) + 1] = "end"
        /\ \A i \in 1 .. Len(Settled) : Whole[i] = Settled[i]
    BY <1>1, <1>2
  <2>3. Append(Opened, "terminal") = Settled
    BY <1>1, <2>1, IsAppend
  <2>4. Append(Settled, "end") = Whole
    BY <1>1, <2>2, IsAppend
  <2> QED BY <2>3, <2>4
<1>4. SubSeq(Whole, 1, 0) = <<>>
  BY DEF Whole
<1>5. SubSeq(Whole, 1, Len(Opened)) = Opened
  BY <1>1, <1>2, IsCut
<1>6. SubSeq(Whole, 1, Len(Settled)) = Settled
  BY <1>1, <1>2, IsCut
<1>7. SubSeq(Whole, 1, Len(Whole)) = Whole
  BY <1>1, IsCut
<1>8. Append(Opened, "end") = WithoutEnd /\ SubSeq(WithoutEnd, 1, 2) = WithoutEnd
  <2>1. /\ WithoutEnd \in Seq(Kinds) /\ Len(WithoutEnd) = 2 /\ "end" \in Kinds
        /\ Len(WithoutEnd) = Len(Opened) + 1 /\ WithoutEnd[Len(Opened) + 1] = "end"
        /\ \A i \in 1 .. Len(Opened) : WithoutEnd[i] = Opened[i]
    BY <1>1 DEF WithoutEnd, Opened, Kinds
  <2>2. Append(Opened, "end") = WithoutEnd
    BY <1>1, <2>1, IsAppend
  <2>3. SubSeq(WithoutEnd, 1, Len(WithoutEnd)) = WithoutEnd
    BY <2>1, IsCut
  <2> QED BY <2>1, <2>2, <2>3
<1> QED BY <1>1, <1>3, <1>4, <1>5, <1>6, <1>7, <1>8

\* A step that moves the driver of r on, and sends what belongs to the stage.
Sends(r, e) == queue'[r] = IF r \in subscribed THEN Append(queue[r], e) ELSE queue[r]

Moves(r) ==
    \/ /\ driver[r] = "none" /\ driver'[r] = "run" /\ UNCHANGED cut
       /\ queue'[r] = IF r \in subscribed THEN Opened ELSE queue[r]
    \/ /\ driver[r] = "run" /\ driver'[r] = "publishing" /\ UNCHANGED cut
       /\ queue'[r] = queue[r]
    \/ /\ driver[r] \in {"run", "publishing"} /\ driver'[r] = "deadline"
       /\ queue'[r] = queue[r]
    \/ /\ driver[r] \in {"run", "publishing", "deadline"} /\ driver'[r] = "notify"
       /\ r \notin cut /\ UNCHANGED cut /\ Sends(r, "terminal")
    \/ /\ driver[r] = "deadline" /\ driver'[r] = "notify"
       /\ r \in cut /\ UNCHANGED cut /\ queue'[r] = queue[r]
    \/ /\ driver[r] = "notify" /\ driver'[r] = "done" /\ UNCHANGED cut /\ Sends(r, "end")

LEMMA StageSent ==
  ASSUME Inv, Streams, NEW r \in Response, UNCHANGED subscribed, Moves(r),
         \A q \in Response \ {r} : /\ driver'[q] = driver[q] /\ queue'[q] = queue[q]
                                   /\ q \in cut' <=> q \in cut
  PROVE  Streams'
<1>1. /\ Append(Opened, "terminal") = Settled /\ Append(Settled, "end") = Whole
      /\ Append(Opened, "end") = WithoutEnd
  BY StagesFollow
<1>2. Stream(r)
  BY DEF Streams
<1>3. Stream(r)'
  BY <1>1, <1>2 DEF Stream, Moves, Sends
<1>4. ASSUME NEW q \in Response \ {r} PROVE Stream(q)'
  <2>1. q \in Response /\ q # r
    OBVIOUS
  <2>2. driver'[q] = driver[q] /\ queue'[q] = queue[q] /\ (q \in cut' <=> q \in cut)
    BY <2>1
  <2>3. Stream(q)
    BY <2>1 DEF Streams
  <2> QED BY <2>1, <2>2, <2>3 DEF Stream
<1> QED BY <1>3, <1>4 DEF Streams

LEMMA StreamsNext == ASSUME Inv, Streams, [Next]_vars PROVE Streams'
<1>1. ASSUME NEW r \in Response, StartTurn(r) PROVE Streams'
  <2>1. driver[r] = "none" /\ UNCHANGED <<subscribed, cut>>
    BY <1>1 DEF StartTurn, Inv, Stages, Stage, AdapterInvariant, TypeOK, clientVars
  <2>2. CASE driver' = [driver EXCEPT ![r] = "run"]
    <3>1. /\ queue'[r] = (IF r \in subscribed THEN Opened ELSE queue[r])
          /\ \A q \in Response \ {r} : queue'[q] = queue[q]
      BY <1>1, <2>1, <2>2 DEF StartTurn, recordVars, Inv, AdapterInvariant, TypeOK, Opened
    <3>2. driver'[r] = "run" /\ \A q \in Response \ {r} : driver'[q] = driver[q]
      BY <2>2 DEF Inv, AdapterInvariant, TypeOK
    <3>3. Moves(r)
      BY <2>1, <3>1, <3>2 DEF Moves
    <3> QED BY <2>1, <3>1, <3>2, <3>3, StageSent
  <2>3. CASE UNCHANGED <<cut, driver, queue>>
    BY <2>1, <2>3 DEF Streams, Stream
  <2> QED BY <1>1, <2>2, <2>3 DEF StartTurn, recordVars
<1>2. ASSUME NEW r \in Response, Driver(r) PROVE Streams'
  <2>1. UNCHANGED subscribed
    BY <1>2 DEF Driver, SeeEnd, Publish, StreamBreaks, AfterDeadline, Deadline, clientVars
  <2>2. /\ driver \in [Response -> {"none", "done"} \cup Driving]
        /\ queue \in [Response -> Seq({"created", "terminal", "end"})]
        /\ cut \subseteq Response
        /\ r \in cut => driver[r] \in {"deadline", "notify", "done"}
    BY DEF Inv, AdapterInvariant, TypeOK, Stages, Stage
  <2>3. /\ Told(r, "terminal")[r] =
              IF r \in subscribed THEN Append(queue[r], "terminal") ELSE queue[r]
        /\ \A q \in Response \ {r} : Told(r, "terminal")[q] = queue[q]
    BY <2>2 DEF Told
  <2>4. \A q \in Response \ {r} : /\ driver'[q] = driver[q] /\ queue'[q] = queue[q]
                                  /\ q \in cut' <=> q \in cut
    BY <1>2, <2>2, <2>3, DriverMoves
  <2>5. Moves(r)
    BY <1>2, <2>2, <2>3, DriverMoves DEF Moves, Sends
  <2> QED BY <2>1, <2>4, <2>5, StageSent
<1>4. ASSUME NEW r \in Response, Cleanup(r) PROVE Streams'
  <2>1. /\ driver[r] = "notify" /\ driver'[r] = "done" /\ UNCHANGED <<subscribed, cut>>
        /\ queue'[r] = IF r \in subscribed THEN Append(queue[r], "end") ELSE queue[r]
        /\ \A q \in Response \ {r} : driver'[q] = driver[q] /\ queue'[q] = queue[q]
    BY <1>4 DEF Cleanup, Notifying, Drives, Told, clientVars, Inv, AdapterInvariant, TypeOK
  <2>2. Moves(r)
    BY <2>1 DEF Moves, Sends
  <2> QED BY <2>1, <2>2, StageSent
<1>5. ASSUME NEW r \in Response, Request(r) PROVE Streams'
  <2>1. /\ driver[r] = "none" /\ subscribed' \subseteq subscribed \cup {r}
        /\ UNCHANGED <<cut, driver, queue>>
    BY <1>5 DEF Request, recordVars, Inv, AdapterInvariant, TypeOK, Stages, Stage
  <2> QED BY <2>1 DEF Streams, Stream
<1>6. ASSUME NEW r \in Response, Acquire(r) \/ Underway(r) \/ Undo(r) \/ Elsewhere(r) \/ Delete(r)
      PROVE  Streams'
  <2>1. subscribed' \subseteq subscribed /\ UNCHANGED <<cut, driver, queue>>
    BY <1>6 DEF Acquire, Underway, Check, CreateSandbox, RenewSandbox, Checkout,
       StartOrContinueThread, Undo, Elsewhere, Cancel, CancelAttempt, CancelTerminates, Disconnect,
       TurnEnds, SandboxDies, Delete, recordVars, clientVars
  <2> QED BY <2>1 DEF Streams, Stream
<1>7. CASE UNCHANGED vars
  BY <1>7 DEF Streams, Stream, vars, recordVars, clientVars
<1> QED
  BY <1>1, <1>2, <1>4, <1>5, <1>6, <1>7
     DEF Next, Start, Follow, Driver, Cancelling, Underway, Elsewhere

-----------------------------------------------------------------------------
\* The bookkeeping holds for any number of responses, permits and faults: every
\* permit of _semaphore is free or held by one start or driver; a response is active
\* while it is driven; and a start that failed took back the sandbox it knows of.
THEOREM AdapterConsistent == Spec => []AdapterInvariant
<1>1. Inv => AdapterInvariant
  BY DEF Inv
<1> QED BY <1>1, InitInv, NextInv, PTL DEF Spec

\* A turn starts only after the response it continues has ended and its driver has
\* cleaned up: _start looks at the previous response before it renews the sandbox,
\* and an ended response is never driven again.
THEOREM TurnsDoNotOverlap == Spec => []TurnFollowsPrevious
<1>1. Inv => TurnFollowsPrevious
  BY DEF Inv, Chains, Chain, Ended, TurnFollowsPrevious
<1> QED BY <1>1, InitInv, NextInv, PTL DEF Spec

\* A subscriber that stays gets the first event, one terminal event and the end of the
\* stream (ActiveExecution._queues), and goes without the terminal event only if the
\* deadline passed while it waited for app/read: each stage of the driver sends once,
\* and a record ends only while its driver follows the turn.
THEOREM StreamsAreWhole == Spec => []StreamIsWhole
<1>1. Init => Streams
  BY DEF Init, Streams, Stream
<1>2. Inv /\ Streams /\ [Next]_vars => Streams'
  BY StreamsNext
<1>3. Inv /\ Streams => StreamIsWhole
  <2> SUFFICES ASSUME Inv, Streams, NEW r \in Response
               PROVE  /\ \E s \in {Whole, WithoutEnd} :
                            \E n \in 0 .. Len(s) : queue[r] = SubSeq(s, 1, n)
                      /\ r \in subscribed /\ driver[r] = "done" =>
                            queue[r] = IF r \in cut THEN WithoutEnd ELSE Whole
    BY DEF StreamIsWhole
  <2>1. /\ SubSeq(Whole, 1, 0) = <<>> /\ SubSeq(Whole, 1, 1) = Opened
        /\ SubSeq(Whole, 1, 2) = Settled /\ SubSeq(Whole, 1, 3) = Whole
        /\ SubSeq(WithoutEnd, 1, 2) = WithoutEnd
    BY StagesFollow
  <2>2. Len(Whole) = 3 /\ Len(WithoutEnd) = 2
    BY DEF Whole, WithoutEnd
  <2>3. /\ queue[r] \in {<<>>, Opened, Settled, Whole, WithoutEnd}
        /\ r \in subscribed /\ driver[r] = "done" =>
              queue[r] = IF r \in cut THEN WithoutEnd ELSE Whole
    BY DEF Streams, Stream
  <2>4. CASE queue[r] = WithoutEnd
    <3>1. 2 \in 0 .. Len(WithoutEnd) /\ queue[r] = SubSeq(WithoutEnd, 1, 2)
      BY <2>1, <2>2, <2>4
    <3> QED BY <2>3, <3>1
  <2>5. CASE queue[r] # WithoutEnd
    <3>1. 0 \in 0 .. Len(Whole) /\ 1 \in 0 .. Len(Whole) /\ 2 \in 0 .. Len(Whole)
          /\ 3 \in 0 .. Len(Whole)
      BY <2>2
    <3>2. \E n \in 0 .. Len(Whole) : queue[r] = SubSeq(Whole, 1, n)
      BY <2>1, <2>3, <2>5, <3>1
    <3> QED BY <2>3, <3>2
  <2> QED BY <2>4, <2>5
<1> QED BY <1>1, <1>2, <1>3, InitInv, NextInv, PTL DEF Spec
============================================================================
