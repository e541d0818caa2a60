--------------------------- MODULE FileOperations_proofs ---------------------------
(***************************************************************************)
(* The file operations keep what they report, for any keys, files,         *)
(* versions, faults and crashes.                                           *)
(*                                                                         *)
(* Three actors share the state of a key: its task, its containers and its *)
(* row, and a crash takes the task and leaves the other two.  So the       *)
(* invariant ties each pair of them: task and container (Paired), task and *)
(* row (Recorded), and container and row (Working), which is the one that  *)
(* holds while the Manager is down and containers run on, and for one that *)
(* could not be removed.  From these, a container that copies finds no     *)
(* manifest, and a manifest always has its content (CopyIsWhole); the      *)
(* container that uploads has the captured version before it and leaves it *)
(* in the Artifact Service behind it (CopyIsSent).                         *)
(***************************************************************************)
EXTENDS FileOperations, FiniteSetTheorems, TLAPS

Holding == {"capture", "checkout", "refused"}        \* tasks that hold the lock
Busy == Capturing \cup CheckingOut

\* Task and container.  The name of a container that is left is taken.
Paired(k) ==
    /\ up /\ task[k].at \notin {"capture", "checkout"} => box[k].at = "none" \/ k \in left
    /\ task[k].at \in {"capture", "checkout"} => k \notin left
    /\ k \in left => box[k].at # "none"
    /\ task[k].at = "capture" => k \in Publish /\ box[k].at \in Capturing \cup {"ok", "error"}
    /\ task[k].at \in {"upload", "unsent"} => k \in Publish /\ box[k].at \in {"none", "ok"}
    /\ task[k].at = "checkout" => k \in Checkout /\ box[k].at \in CheckingOut \cup {"ok", "error"}
    /\ ~up => task[k].at = "idle"
    /\ box[k].at \in Capturing => k \in Publish
    /\ box[k].at \in CheckingOut => k \in Checkout

\* Task and row: a row with a task is not one that can be asked for again.
Recorded(k) ==
    /\ task[k].at = "new" => op[k].status = "pending"
    /\ task[k].at = "lock" /\ k \in Publish => op[k].status = "pending"
    /\ task[k].at = "lock" /\ k \in Checkout => op[k].status = "running"
    /\ task[k].at = "refused" => op[k].status = "running" /\ op[k].phase # "captured"
    /\ task[k].at = "capture" => op[k].status = "running" /\ op[k].phase = "capturing"
    /\ task[k].at \in {"upload", "unsent"} => op[k].status = "running" /\ op[k].phase = "uploading"
    /\ task[k].at = "checkout" => op[k].status = "running"
    /\ task[k].at # "idle" => task[k].cap = op[k].cap
    /\ k \in Checkout => op[k].phase = "none" /\ op[k].cap = None

\* Container and row.
Working(k) ==
    /\ box[k].at \in Busy => op[k].status # "succeeded"
    /\ op[k].cap # Torn

\* The copy: what is in the spool was in the file, and a manifest is written
\* for the content that is there.  A container that was not removed may
\* upload and remove a copy that was found again.
IsCopy(k, v) == spool[k].manifest = v /\ spool[k].content = v
Committed(k) == \E s \in stored : s[1] = k
CopyIsWhole(k) ==
    /\ spool[k].content # Torn /\ spool[k].content <= file[k]
    /\ spool[k].manifest \in {None, spool[k].content}
    /\ op[k].cap # None => op[k].cap <= file[k]
    /\ box[k].at \in Capturing \ {"check"} => spool[k].manifest = None
    /\ box[k].at \in {"copy", "install", "manifest", "commit"} =>
          box[k].v \in Version /\ box[k].v <= file[k]
    /\ box[k].at \in {"manifest", "commit"} => spool[k].content = box[k].v
    /\ task[k].at = "capture" /\ box[k].at = "ok" =>
          /\ box[k].v \in Version /\ box[k].v <= file[k]
          /\ IsCopy(k, box[k].v) \/ (sender[k].at = "ok" /\ Committed(k))

\* The upload: the captured version is before the container, then behind it.
Sent(k) == <<k, op[k].target, op[k].cap>> \in stored
CopyIsSent(k) ==
    /\ sender[k].at \in Uploading => IsCopy(k, op[k].cap) /\ op[k].cap # None /\ sender[k].v \in Artifact
    /\ sender[k].at = "clean" => <<k, sender[k].v, op[k].cap>> \in stored
    /\ task[k].at = "upload" =>
          /\ sender[k].at # "none"
          /\ sender[k].at # "error" => sender[k].v = op[k].target
          /\ sender[k].at = "ok" => Sent(k)
    /\ op[k].status = "succeeded" => Sent(k)
    /\ op[k].cap # None => IsCopy(k, op[k].cap) \/ Committed(k)

\* The batch of a checkout.
Whole(k) == uploads[k] = [files |-> Files, message |-> op[k].message]
BatchIsWhole(k) ==
    /\ uploads[k].files \in {0, Files}
    /\ box[k].at = "download" => staging[k] < Files
    /\ box[k].at = "rename" => staging[k] = Files
    /\ task[k].at = "checkout" /\ box[k].at = "ok" => Whole(k)
    /\ op[k].status = "succeeded" => Whole(k)

LockIsHeld == \A k \in Key : lock = k <=> task[k].at \in Holding
StoredWhole == \A s \in stored : s[3] # Torn

Of(k) ==
    /\ Paired(k) /\ Recorded(k) /\ Working(k)
    /\ k \in Publish => CopyIsWhole(k) /\ CopyIsSent(k)
    /\ k \in Checkout => BatchIsWhole(k)
Inv == TypeOK /\ LockIsHeld /\ StoredWhole /\ \A k \in Key : Of(k)

LEMMA InitInv == ASSUME FileAssumption, Init PROVE Inv
<1>1. TypeOK
  <2>1. 0 \in 0 .. MaxSandbox /\ 0 \in 0 .. Torn /\ 0 \in 0 .. Files /\ 1 \in Version
        /\ 0 \in 0 .. MaxFaults /\ 0 \in 0 .. MaxCrashes
    BY DEF FileAssumption, Torn, Version
  <2>2. op \in [Key -> OpRow] /\ task \in [Key -> Task]
    BY <2>1 DEF Init, OpRow, Task, Idle, None
  <2>3. NoBox \in Box /\ NoBox \in Sender /\ NoSpool \in Spool
    BY <2>1 DEF NoBox, NoSpool, Box, Sender, Spool, None
  <2>4. box \in [Key -> Box] /\ sender \in [Publish -> Sender] /\ left \subseteq Key /\ spool \in [Publish -> Spool] /\ file \in [Publish -> Version]
    BY <2>1, <2>3 DEF Init
  <2>5. staging \in [Checkout -> 0 .. Files]
        /\ uploads \in [Checkout -> [files : 0 .. Files, message : Message \cup {None}]]
    BY <2>1 DEF Init
  <2> QED BY <2>1, <2>2, <2>4, <2>5 DEF Init, TypeOK, None
<1>2. LockIsHeld /\ StoredWhole
  BY DEF Init, LockIsHeld, StoredWhole, Holding, Idle, FileAssumption
<1>3. ASSUME NEW k \in Key PROVE Of(k)
  <2>1. Paired(k) /\ Recorded(k) /\ Working(k)
    BY DEF Init, Paired, Recorded, Working, Idle, NoBox, Busy, Capturing,
           CheckingOut, None, Torn, FileAssumption, Key
  <2>2. k \in Publish => CopyIsWhole(k) /\ CopyIsSent(k)
    BY DEF Init, CopyIsWhole, CopyIsSent, Idle, NoBox, NoSpool, None, Torn, Capturing,
           Uploading, FileAssumption, Key
  <2>3. k \in Checkout => BatchIsWhole(k)
    BY DEF Init, BatchIsWhole, Idle, NoBox
  <2> QED BY <2>1, <2>2, <2>3 DEF Of
<1> QED BY <1>1, <1>2, <1>3 DEF Inv

-----------------------------------------------------------------------------
(* A step of one key leaves the others alone; commits only add.            *)
Local(k) ==
    /\ up' = up /\ stored \subseteq stored'
    /\ \A j \in Key \ {k} : op'[j] = op[j] /\ task'[j] = task[j] /\ box'[j] = box[j]
    /\ \A j \in Key \ {k} : j \in left' <=> j \in left
    /\ \A j \in Publish \ {k} : spool'[j] = spool[j] /\ file'[j] = file[j] /\ sender'[j] = sender[j]
    /\ \A j \in Checkout \ {k} : staging'[j] = staging[j] /\ uploads'[j] = uploads[j]

LEMMA OthersKept ==
  ASSUME FileAssumption, NEW k \in Key, Local(k), NEW j \in Key, j # k, Of(j)
  PROVE  Of(j)'
<1>1. /\ up' = up /\ op'[j] = op[j] /\ task'[j] = task[j] /\ box'[j] = box[j]
      /\ \A s \in stored : s \in stored'
      /\ j \in left' <=> j \in left
  BY DEF Local
<1>2. Paired(j)' /\ Recorded(j)' /\ Working(j)'
  BY <1>1 DEF Of, Paired, Recorded, Working
<1>3. ASSUME j \in Publish PROVE CopyIsWhole(j)' /\ CopyIsSent(j)'
  <2>1. spool'[j] = spool[j] /\ file'[j] = file[j] /\ sender'[j] = sender[j]
    BY <1>3 DEF Local
  <2>0. Committed(j) => Committed(j)'
    BY <1>1 DEF Committed
  <2>2. CopyIsWhole(j)'
    BY <1>1, <1>3, <2>0, <2>1 DEF Of, CopyIsWhole, IsCopy
  <2>3. CopyIsSent(j)'
    BY <1>1, <1>3, <2>0, <2>1 DEF Of, CopyIsSent, Sent, IsCopy
  <2> QED BY <2>2, <2>3
<1>4. ASSUME j \in Checkout PROVE BatchIsWhole(j)'
  <2>1. staging'[j] = staging[j] /\ uploads'[j] = uploads[j]
    BY <1>4 DEF Local
  <2> QED BY <1>1, <1>4, <2>1 DEF Of, BatchIsWhole, Whole
<1> QED BY <1>2, <1>3, <1>4 DEF Of

LEMMA StepKeeps ==
  ASSUME FileAssumption, Inv, NEW k \in Key, Local(k), TypeOK', LockIsHeld', StoredWhole', Of(k)'
  PROVE  Inv'
BY OthersKept DEF Inv

-----------------------------------------------------------------------------
LEMMA RowTypes ==
  ASSUME TypeOK, NEW k \in Key
  PROVE  /\ op[k] \in OpRow /\ task[k] \in Task /\ box[k] \in Box
         /\ op[k].sandbox \in 0 .. MaxSandbox /\ op[k].message \in Message \cup {None}
         /\ op[k].cap \in Version \cup {None, Torn} /\ op[k].target \in Artifact \cup {None}
         /\ task[k].cap \in Version \cup {None, Torn} /\ task[k].target \in Artifact \cup {None}
<1>1. op[k] \in OpRow /\ task[k] \in Task /\ box[k] \in Box
  BY DEF TypeOK
<1> QED BY <1>1 DEF OpRow, Task

(* Writes of the row, the task and the container of one key.               *)
LEMMA Writes ==
  ASSUME TypeOK, NEW k \in Key,
         NEW row \in OpRow, op' = [op EXCEPT ![k] = row],
         NEW work \in Task, task' = [task EXCEPT ![k] = work],
         NEW b \in Box, box' = [box EXCEPT ![k] = b]
  PROVE  /\ op' \in [Key -> OpRow] /\ task' \in [Key -> Task] /\ box' \in [Key -> Box]
         /\ op'[k] = row /\ task'[k] = work /\ box'[k] = b
         /\ \A j \in Key \ {k} : op'[j] = op[j] /\ task'[j] = task[j] /\ box'[j] = box[j]
BY DEF TypeOK

LEMMA NothingBoxed == ASSUME FileAssumption PROVE NoBox \in Box /\ NoBox \in Sender /\ Idle \in Task
<1>1. 0 \in 0 .. Torn
  BY DEF Torn, FileAssumption
<1> QED BY <1>1 DEF NoBox, Box, Sender, Idle, Task, None

LEMMA BoxMade ==
  ASSUME FileAssumption, NEW at \in {"none", "ok", "error"} \cup Busy,
         NEW v \in {None} \cup Version \cup 0 .. MaxSandbox
  PROVE  [at |-> at, v |-> v] \in Box
BY DEF Box, Busy, None, Version, Torn, FileAssumption

LEMMA CreateKeeps ==
  ASSUME FileAssumption, Inv, NEW k \in Key, NEW m \in Message, NEW a \in Artifact \cup {None},
         CreateOperation(k, m, a)
  PROVE  Inv'
<1> DEFINE row == [op[k] EXCEPT !.status = "pending", !.sandbox = writer, !.message = m]
           work == [at |-> "new", target |-> a, cap |-> op[k].cap, prior |-> op[k].target]
<1>1. /\ TypeOK /\ LockIsHeld /\ StoredWhole /\ Of(k)
      /\ op[k] \in OpRow /\ op[k].cap \in Version \cup {None, Torn}
      /\ op[k].target \in Artifact \cup {None}
  BY RowTypes DEF Inv
<1>2. row \in OpRow /\ work \in Task /\ writer \in 0 .. MaxSandbox
  BY <1>1 DEF OpRow, Task, TypeOK
<1>3. /\ row.status = "pending" /\ row.phase = op[k].phase /\ row.cap = op[k].cap
      /\ row.target = op[k].target /\ work.at = "new" /\ work.cap = op[k].cap
  BY <1>1 DEF OpRow
<1>4. /\ op' = [op EXCEPT ![k] = row] /\ task' = [task EXCEPT ![k] = work]
      /\ UNCHANGED <<up, lock, sandboxVars, boxVars, spool, volumeVars, stored, faults, crashes>>
      /\ up /\ Restarts(k, a)
  BY DEF CreateOperation
<1> HIDE DEF row, work
<1>5. /\ op' \in [Key -> OpRow] /\ task' \in [Key -> Task] /\ op'[k] = row /\ task'[k] = work
      /\ \A j \in Key \ {k} : op'[j] = op[j] /\ task'[j] = task[j]
  BY <1>1, <1>2, <1>4 DEF TypeOK
<1>6. TypeOK' /\ StoredWhole'
  BY <1>1, <1>4, <1>5 DEF TypeOK, StoredWhole, sandboxVars, volumeVars, boxVars
<1>7. Local(k)
  BY <1>4, <1>5 DEF Local, volumeVars, boxVars
<1>8. task[k].at = "idle"
  <2>1. \/ op[k].status \in {"none", "failed"}
        \/ op[k].status = "running" /\ op[k].phase = "captured"
    BY <1>4 DEF Restarts
  <2>2. task[k].at \in {"idle", "new", "lock", "capture", "upload", "checkout", "refused", "unsent"}
    BY <1>1 DEF TypeOK, Task
  <2>3. k \in Publish \/ (k \in Checkout /\ op[k].phase = "none")
    BY <1>1 DEF Of, Recorded, Key
  <2> QED BY <1>1, <2>1, <2>2, <2>3 DEF Of, Recorded, Paired
<1>9. LockIsHeld'
  BY <1>1, <1>3, <1>4, <1>5, <1>8 DEF LockIsHeld, Holding
<1>10. box' = box /\ sender' = sender /\ left' = left /\ op[k].status # "succeeded"
  BY <1>4 DEF boxVars, Restarts
<1>11. Paired(k)' /\ Recorded(k)' /\ Working(k)'
  BY <1>1, <1>3, <1>4, <1>5, <1>8, <1>10 DEF Of, Paired, Recorded, Working
<1>12. ASSUME k \in Publish PROVE CopyIsWhole(k)' /\ CopyIsSent(k)'
  BY <1>1, <1>3, <1>4, <1>5, <1>10, <1>12 DEF Of, CopyIsWhole, CopyIsSent, IsCopy, Committed, volumeVars
<1>13. ASSUME k \in Checkout PROVE BatchIsWhole(k)'
  BY <1>1, <1>3, <1>4, <1>5, <1>10, <1>13 DEF Of, BatchIsWhole, volumeVars
<1> QED BY <1>6, <1>7, <1>9, <1>11, <1>12, <1>13, StepKeeps DEF Of

LEMMA StartKeeps ==
  ASSUME FileAssumption, Inv, NEW k \in Key, Start(k)
  PROVE  Inv'
<1> DEFINE row == IF k \in Checkout THEN [op[k] EXCEPT !.status = "running"] ELSE op[k]
           work == [task[k] EXCEPT !.at = "lock"]
<1>1. /\ TypeOK /\ LockIsHeld /\ StoredWhole /\ Of(k) /\ op[k] \in OpRow /\ task[k] \in Task
  BY RowTypes DEF Inv
<1>2. row \in OpRow /\ work \in Task
  BY <1>1 DEF OpRow, Task
<1>3. /\ row.status = IF k \in Checkout THEN "running" ELSE op[k].status
      /\ row.phase = op[k].phase /\ row.cap = op[k].cap
      /\ row.target = op[k].target /\ row.message = op[k].message
      /\ work.at = "lock" /\ work.cap = task[k].cap
  BY <1>1 DEF OpRow, Task
<1>4. /\ op' = [op EXCEPT ![k] = row] /\ task' = [task EXCEPT ![k] = work]
      /\ UNCHANGED <<up, lock, sandboxVars, boxVars, spool, volumeVars, stored, faults, crashes>>
      /\ task[k].at = "new"
  BY <1>1 DEF Start, TypeOK
<1> HIDE DEF row, work
<1>5. /\ op' \in [Key -> OpRow] /\ task' \in [Key -> Task] /\ op'[k] = row /\ task'[k] = work
      /\ \A j \in Key \ {k} : op'[j] = op[j] /\ task'[j] = task[j]
  BY <1>1, <1>2, <1>4 DEF TypeOK
<1>6. TypeOK' /\ StoredWhole'
  BY <1>1, <1>4, <1>5 DEF TypeOK, StoredWhole, sandboxVars, volumeVars, boxVars
<1>7. Local(k)
  BY <1>4, <1>5 DEF Local, volumeVars, boxVars
<1>9. LockIsHeld'
  BY <1>1, <1>3, <1>4, <1>5 DEF LockIsHeld, Holding
<1>10. /\ up /\ op[k].status = "pending" /\ task[k].cap = op[k].cap
       /\ box' = box /\ sender' = sender /\ left' = left
  BY <1>1, <1>4 DEF Of, Paired, Recorded, TypeOK, boxVars
<1>11. Paired(k)' /\ Recorded(k)' /\ Working(k)'
  BY <1>1, <1>3, <1>4, <1>5, <1>10, FileAssumption DEF Of, Paired, Recorded, Working,
     FileAssumption, Key
<1>12. ASSUME k \in Publish PROVE CopyIsWhole(k)' /\ CopyIsSent(k)'
  BY <1>1, <1>3, <1>4, <1>5, <1>10, <1>12 DEF Of, CopyIsWhole, CopyIsSent, Sent, IsCopy, Committed,
     volumeVars, FileAssumption
<1>13. ASSUME k \in Checkout PROVE BatchIsWhole(k)'
  BY <1>1, <1>3, <1>4, <1>5, <1>10, <1>13 DEF Of, BatchIsWhole, Whole, volumeVars
<1> QED BY <1>6, <1>7, <1>9, <1>11, <1>12, <1>13, StepKeeps DEF Of

(* A task that ends gives up its lock, and its container unless that could *)
(* not be removed, and leaves a row that says what it knows.               *)
Reports(k, row) ==
    /\ k \in Checkout => row.phase = "none" /\ row.cap = None
    /\ row.cap # Torn
    /\ k \in Publish /\ row.cap # None =>
          row.cap <= file[k] /\ (IsCopy(k, row.cap) \/ Committed(k))
    /\ k \in Publish /\ sender[k].at \in Uploading => row.cap = op[k].cap
    /\ k \in Publish /\ row.status = "succeeded" => <<k, row.target, row.cap>> \in stored
    /\ k \in Checkout /\ row.status = "succeeded" =>
          uploads[k] = [files |-> Files, message |-> row.message]

\* What may become of the containers of a task.
Dropped(k) ==
    \/ task[k].at \in {"capture", "checkout"} /\ UNCHANGED sender /\ (Gone(k) \/ Left(k))
    \/ task[k].at = "upload" /\ sender' = [sender EXCEPT ![k] = NoBox] /\ UNCHANGED <<box, left>>
    \/ task[k].at \in {"upload", "refused", "unsent"} /\ UNCHANGED boxVars

LEMMA BoxDrops ==
  ASSUME FileAssumption, Inv, NEW k \in Key, task[k].at \in {"capture", "checkout"}, Gone(k) \/ Left(k)
  PROVE  /\ box' \in [Key -> Box] /\ left' \subseteq Key
         /\ \A j \in Key \ {k} : box'[j] = box[j] /\ (j \in left' <=> j \in left)
         /\ box'[k] \in {box[k], NoBox}
         /\ box'[k].at = "none" \/ k \in left'
         /\ k \in left' => box'[k].at # "none"
<1>1. TypeOK /\ Paired(k)
  BY DEF Inv, Of
<1>2. NoBox \in Box /\ NoBox.at = "none"
  BY NothingBoxed DEF NoBox
<1>3. k \notin left /\ box[k].at # "none"
  BY <1>1 DEF Paired, Capturing, CheckingOut
<1> QED BY <1>1, <1>2, <1>3 DEF TypeOK, Gone, Left

LEMMA Drops ==
  ASSUME FileAssumption, Inv, NEW k \in Key, Dropped(k)
  PROVE  /\ box' \in [Key -> Box] /\ sender' \in [Publish -> Sender] /\ left' \subseteq Key
         /\ \A j \in Key \ {k} : box'[j] = box[j] /\ (j \in left' <=> j \in left)
         /\ \A j \in Publish \ {k} : sender'[j] = sender[j]
         /\ box'[k] \in {box[k], NoBox} /\ (k \in Publish => sender'[k] \in {sender[k], NoBox})
         /\ box'[k].at = "none" \/ k \in left'
         /\ k \in left' => box'[k].at # "none"
         /\ up
<1>1. TypeOK /\ Paired(k)
  BY DEF Inv, Of
<1>2. NoBox \in Box /\ NoBox \in Sender /\ NoBox.at = "none"
  BY NothingBoxed DEF NoBox
<1>3. up /\ task[k].at \in {"capture", "checkout", "upload", "refused", "unsent"}
  BY <1>1 DEF Dropped, Paired, TypeOK
<1>4. CASE task[k].at \in {"capture", "checkout"} /\ UNCHANGED sender /\ (Gone(k) \/ Left(k))
  BY <1>1, <1>3, <1>4, BoxDrops DEF TypeOK
<1>6. CASE task[k].at = "upload" /\ sender' = [sender EXCEPT ![k] = NoBox] /\ UNCHANGED <<box, left>>
  BY <1>1, <1>2, <1>3, <1>6 DEF TypeOK, Paired
<1>7. CASE task[k].at \in {"upload", "refused", "unsent"} /\ UNCHANGED boxVars
  BY <1>1, <1>2, <1>3, <1>7 DEF TypeOK, Paired, boxVars
<1> QED BY <1>4, <1>6, <1>7 DEF Dropped

LEMMA EndKeeps ==
  ASSUME FileAssumption, Inv, NEW k \in Key, NEW row \in OpRow, Reports(k, row), Dropped(k),
         row.status = "succeeded" => box[k].at \notin Busy,
         op' = [op EXCEPT ![k] = row], task' = [task EXCEPT ![k] = Idle], lock' = Released(k),
         UNCHANGED <<up, sandboxVars, spool, volumeVars, stored, crashes>>,
         faults' \in 0 .. MaxFaults
  PROVE  Inv'
<1>1. /\ TypeOK /\ LockIsHeld /\ StoredWhole /\ Of(k)
  BY DEF Inv
<1>2. /\ op' \in [Key -> OpRow] /\ task' \in [Key -> Task] /\ op'[k] = row /\ task'[k] = Idle
      /\ \A j \in Key \ {k} : op'[j] = op[j] /\ task'[j] = task[j]
  BY <1>1, NothingBoxed DEF TypeOK
<1>3. lock' \in Key \cup {"free", "storage"}
  BY <1>1 DEF Released, TypeOK
<1>4. /\ box' \in [Key -> Box] /\ sender' \in [Publish -> Sender] /\ left' \subseteq Key
      /\ \A j \in Key \ {k} : box'[j] = box[j] /\ (j \in left' <=> j \in left)
      /\ \A j \in Publish \ {k} : sender'[j] = sender[j]
      /\ box'[k] \in {box[k], NoBox} /\ (k \in Publish => sender'[k] \in {sender[k], NoBox})
      /\ box'[k].at = "none" \/ k \in left'
      /\ k \in left' => box'[k].at # "none"
      /\ up
  BY Drops
<1>5. TypeOK' /\ StoredWhole'
  BY <1>1, <1>2, <1>3, <1>4 DEF TypeOK, StoredWhole, sandboxVars, volumeVars
<1>6. Local(k)
  BY <1>2, <1>4 DEF Local, volumeVars
<1>7. LockIsHeld'
  BY <1>1, <1>2 DEF LockIsHeld, Holding, Idle, Released, FileAssumption
<1>8. Idle.at = "idle" /\ NoBox.at = "none"
  BY DEF Idle, NoBox
<1>9. NoBox.at \notin Busy /\ NoBox.at \notin Capturing /\ NoBox.at \notin CheckingOut
      /\ NoBox.at \notin Uploading
  BY <1>8 DEF Busy, Capturing, CheckingOut, Uploading
<1>10. Paired(k)'
  BY <1>1, <1>2, <1>4, <1>8, <1>9 DEF Of, Paired
<1>11. Recorded(k)' /\ Working(k)'
  BY <1>1, <1>2, <1>4, <1>8, <1>9 DEF Of, Recorded, Working, Reports
<1>12. ASSUME k \in Publish PROVE CopyIsWhole(k)' /\ CopyIsSent(k)'
  <2>1. sender'[k] \in {sender[k], NoBox} /\ spool' = spool /\ file' = file /\ stored' = stored
    BY <1>4, <1>12 DEF volumeVars
  <2>2. CopyIsWhole(k)'
    BY <1>1, <1>2, <1>4, <1>8, <1>9, <1>12, <2>1 DEF Of, CopyIsWhole, IsCopy, Reports
  <2>3. CopyIsSent(k)'
    BY <1>1, <1>2, <1>8, <1>9, <1>12, <2>1 DEF Of, CopyIsSent, Sent, IsCopy, Committed, Reports,
       Uploading
  <2> QED BY <2>2, <2>3
<1>13. ASSUME k \in Checkout PROVE BatchIsWhole(k)'
  BY <1>1, <1>2, <1>4, <1>8, <1>13 DEF Of, BatchIsWhole, Whole, Reports, volumeVars
<1> QED BY <1>5, <1>6, <1>7, <1>10, <1>11, <1>12, <1>13, StepKeeps DEF Of

LEMMA FailKeeps ==
  ASSUME FileAssumption, Inv, NEW k \in Key, Fails(k), Dropped(k), faults' \in 0 .. MaxFaults
  PROVE  Inv'
<1> DEFINE captured == task[k].cap # None
           row == IF k \in Checkout THEN [op[k] EXCEPT !.status = "failed"]
                  ELSE [op[k] EXCEPT !.status = "failed", !.cap = task[k].cap,
                                     !.phase = IF captured THEN "captured" ELSE "capturing",
                                     !.target = IF captured THEN task[k].target ELSE None]
<1>1. /\ TypeOK /\ Of(k) /\ op[k] \in OpRow
      /\ task[k].cap \in Version \cup {None, Torn} /\ task[k].target \in Artifact \cup {None}
  BY RowTypes DEF Inv
<1>2. row \in OpRow
  BY <1>1 DEF OpRow
<1>3. op' = [op EXCEPT ![k] = row]
  BY <1>1 DEF Fails, Failed, TypeOK
<1>4. row.cap = op[k].cap /\ row.status = "failed" /\ (k \in Checkout => row.phase = op[k].phase)
  <2>1. task[k].cap = op[k].cap
    BY <1>1 DEF Of, Recorded, Dropped
  <2> QED BY <1>1, <2>1 DEF OpRow
<1> HIDE DEF row
<1>5. Reports(k, row)
  BY <1>1, <1>4 DEF Of, Reports, Recorded, Working, CopyIsWhole, CopyIsSent
<1> QED BY <1>2, <1>3, <1>4, <1>5, EndKeeps DEF Fails

LEMMA TimeoutKeeps ==
  ASSUME FileAssumption, Inv, NEW k \in Key, OperationFails(k) \/ TimesOut(k)
  PROVE  Inv'
<1>1. faults' \in 0 .. MaxFaults
  BY DEF OperationFails, TimesOut, Finally, Fault, Inv, TypeOK, FileAssumption
<1>2. Dropped(k)
  BY DEF OperationFails, TimesOut, Finally, Ends, Removed, NotRemoved, Dropped, boxVars
<1> QED BY <1>1, <1>2, FailKeeps DEF OperationFails, TimesOut

LEMMA SuccessKeeps ==
  ASSUME FileAssumption, Inv, NEW k \in Key, Succeeds(k)
  PROVE  Inv'
<1> DEFINE row == [op[k] EXCEPT !.status = "succeeded"]
<1>1. /\ TypeOK /\ Of(k) /\ op[k] \in OpRow
  BY RowTypes DEF Inv
<1>2. row \in OpRow
  BY <1>1 DEF OpRow
<1>3. op' = [op EXCEPT ![k] = row]
  BY <1>1 DEF Succeeds, TypeOK
<1>4. /\ row.cap = op[k].cap /\ row.phase = op[k].phase /\ row.target = op[k].target
      /\ row.message = op[k].message
  BY <1>1 DEF OpRow
<1> HIDE DEF row
<1>5. \/ task[k].at = "upload" /\ sender[k].at = "ok"
      \/ task[k].at = "checkout" /\ box[k].at = "ok"
  BY DEF Succeeds, Ends
<1>6. k \in Publish => <<k, op[k].target, op[k].cap>> \in stored
  BY <1>1, <1>5, FileAssumption DEF Of, Paired, CopyIsSent, Sent, FileAssumption
<1>7. k \in Checkout => uploads[k] = [files |-> Files, message |-> op[k].message]
  BY <1>1, <1>5, FileAssumption DEF Of, Paired, BatchIsWhole, Whole, FileAssumption
<1>8. Reports(k, row)
  BY <1>1, <1>4, <1>6, <1>7 DEF Of, Reports, Recorded, Working, CopyIsWhole, CopyIsSent
<1>9. faults' \in 0 .. MaxFaults
  BY <1>1 DEF Succeeds, Finally, Fault, TypeOK, FileAssumption
<1>10. Dropped(k)
  BY <1>5 DEF Succeeds, Finally, Removed, NotRemoved, Dropped, boxVars
<1>11. box[k].at \notin Busy
  BY <1>1, <1>5 DEF Of, Paired, Busy, Capturing, CheckingOut
<1> QED BY <1>2, <1>3, <1>8, <1>9, <1>10, <1>11, EndKeeps DEF Succeeds

(* The capture has succeeded: its version becomes the one of the row.  It  *)
(* is in the spool, unless a container that was not removed has uploaded it. *)
LEMMA CapturedKeeps ==
  ASSUME FileAssumption, Inv, NEW k \in Key, Captured(k)
  PROVE  Inv'
<1>1. PICK v : v = box[k].v
  OBVIOUS
<1>2. PICK t : t = task[k].target
  OBVIOUS
<1>3. /\ TypeOK /\ LockIsHeld /\ StoredWhole /\ Of(k) /\ op[k] \in OpRow /\ task[k] \in Task
      /\ t \in Artifact \cup {None}
  BY <1>2, RowTypes DEF Inv
<1>4. task[k].at = "capture" /\ box[k].at = "ok" /\ lock' = Released(k) /\ (Gone(k) \/ Left(k))
  BY DEF Captured
<1>5. k \in Publish /\ k \notin Checkout /\ op[k].status = "running" /\ CopyIsWhole(k) /\ CopyIsSent(k)
  BY <1>3, <1>4, FileAssumption DEF Of, Paired, Recorded, FileAssumption
<1>6. /\ v \in Version /\ v # Torn /\ v <= file[k] /\ v # None
      /\ IsCopy(k, v) \/ (sender[k].at = "ok" /\ Committed(k))
  <2>1. v \in Version /\ v <= file[k] /\ (IsCopy(k, v) \/ (sender[k].at = "ok" /\ Committed(k)))
    BY <1>1, <1>4, <1>5 DEF CopyIsWhole
  <2> QED BY <2>1, FileAssumption DEF Version, Torn, None, FileAssumption
<1>7. /\ UNCHANGED <<up, sandboxVars, spool, volumeVars, stored, crashes>>
      /\ faults' \in 0 .. MaxFaults
  BY <1>3, FileAssumption DEF Captured, Fault, TypeOK, FileAssumption
<1>8. sender[k].at \in Uploading => v = op[k].cap
  BY <1>5, <1>6 DEF CopyIsSent, IsCopy, Uploading
<1>9. CASE \/ op' = [op EXCEPT ![k].phase = "captured", ![k].cap = v]
              /\ task' = [task EXCEPT ![k] = Idle] /\ UNCHANGED sender
           \/ op' = [op EXCEPT ![k].status = "failed", ![k].phase = "captured",
                               ![k].cap = v, ![k].target = t]
              /\ task' = [task EXCEPT ![k] = Idle] /\ UNCHANGED sender
  <2> DEFINE rests == [op[k] EXCEPT !.phase = "captured", !.cap = v]
             other == [op[k] EXCEPT !.status = "failed", !.phase = "captured",
                                    !.cap = v, !.target = t]
  <2>1. op' = [op EXCEPT ![k] = rests] \/ op' = [op EXCEPT ![k] = other]
    BY <1>3, <1>9 DEF TypeOK
  <2>2. /\ rests \in OpRow /\ rests.cap = v /\ rests.status # "succeeded"
        /\ other \in OpRow /\ other.cap = v /\ other.status # "succeeded"
    BY <1>3, <1>5, <1>6 DEF OpRow
  <2> HIDE DEF rests, other
  <2>3. PICK row \in OpRow : /\ row.cap = v /\ row.status # "succeeded"
                             /\ op' = [op EXCEPT ![k] = row]
    BY <2>1, <2>2, Zenon
  <2>4. Reports(k, row)
    BY <1>5, <1>6, <1>8, <2>3 DEF Reports
  <2>5. Dropped(k) /\ task' = [task EXCEPT ![k] = Idle]
    BY <1>4, <1>9 DEF Dropped
  <2> QED BY <1>4, <1>7, <2>3, <2>4, <2>5, EndKeeps
<1>10. CASE /\ t # None
            /\ op' = [op EXCEPT ![k].phase = "uploading", ![k].cap = v, ![k].target = t]
            /\ \/ /\ sender[k].at = "none" /\ Send(k, "verify", t)
                  /\ task' = [task EXCEPT ![k].at = "upload", ![k].cap = v]
               \/ /\ sender[k].at # "none" /\ UNCHANGED sender
                  /\ task' = [task EXCEPT ![k].at = "unsent", ![k].cap = v]
  <2> DEFINE row == [op[k] EXCEPT !.phase = "uploading", !.cap = v, !.target = t]
             at == IF sender[k].at = "none" THEN "upload" ELSE "unsent"
             work == [task[k] EXCEPT !.at = at, !.cap = v]
             b == IF sender[k].at = "none" THEN [at |-> "verify", v |-> t] ELSE sender[k]
  <2>0. sender[k] \in Sender
    BY <1>3, <1>5 DEF TypeOK
  <2>1. row \in OpRow /\ work \in Task /\ sender[k] \in Sender
    <3>1. row \in OpRow
      BY <1>3, <1>6 DEF OpRow
    <3>2. at \in {"upload", "unsent"}
      OBVIOUS
    <3> HIDE DEF at
    <3>3. work \in Task
      BY <1>3, <1>6, <3>2 DEF Task
    <3> QED BY <2>0, <3>1, <3>3
  <2>2. b \in Sender
    BY <1>3, <1>10, <2>1 DEF Sender, Uploading
  <2>3. /\ row.status = "running" /\ row.phase = "uploading" /\ row.cap = v /\ row.target = t
        /\ work.at \in {"upload", "unsent"} /\ work.cap = v
        /\ \/ sender[k].at = "none" /\ work.at = "upload" /\ b.at = "verify" /\ b.v = t
           \/ sender[k].at # "none" /\ work.at = "unsent" /\ b = sender[k]
    BY <1>2, <1>3, <1>5 DEF OpRow, Task
  <2>4. /\ op' = [op EXCEPT ![k] = row] /\ task' = [task EXCEPT ![k] = work]
        /\ sender' = [sender EXCEPT ![k] = b]
    BY <1>3, <1>5, <1>10 DEF TypeOK, Send
  <2> HIDE DEF row, work, b
  <2>5. /\ op' \in [Key -> OpRow] /\ task' \in [Key -> Task] /\ sender' \in [Publish -> Sender]
        /\ op'[k] = row /\ task'[k] = work /\ sender'[k] = b
        /\ \A j \in Key \ {k} : op'[j] = op[j] /\ task'[j] = task[j]
        /\ \A j \in Publish \ {k} : sender'[j] = sender[j]
    BY <1>3, <1>5, <2>1, <2>2, <2>4 DEF TypeOK
  <2>6. /\ box' \in [Key -> Box] /\ left' \subseteq Key
        /\ \A j \in Key \ {k} : box'[j] = box[j] /\ (j \in left' <=> j \in left)
        /\ box'[k] \in {box[k], NoBox}
        /\ box'[k].at = "none" \/ k \in left'
        /\ k \in left' => box'[k].at # "none"
    BY <1>4, BoxDrops
  <2>7. lock' \in Key \cup {"free", "storage"}
    BY <1>3, <1>4 DEF Released, TypeOK
  <2>8. TypeOK' /\ StoredWhole'
    BY <1>3, <1>7, <2>5, <2>6, <2>7 DEF TypeOK, StoredWhole, sandboxVars, volumeVars
  <2>9. Local(k)
    BY <1>7, <2>5, <2>6 DEF Local, volumeVars
  <2>10. LockIsHeld'
    BY <1>3, <1>4, <2>3, <2>5, FileAssumption DEF LockIsHeld, Holding, Released, FileAssumption
  <2>11. up' /\ box'[k].at \in {"none", "ok"}
    BY <1>3, <1>4, <1>7, <2>6 DEF Of, Paired, TypeOK, NoBox
  <2>12. Paired(k)'
    BY <1>5, <2>3, <2>5, <2>6, <2>11 DEF Paired, Capturing, CheckingOut
  <2>13. Recorded(k)' /\ Working(k)'
    BY <1>5, <1>6, <2>3, <2>5, <2>11 DEF Recorded, Working, Busy, Capturing, CheckingOut
  <2>14. CopyIsWhole(k)'
    BY <1>5, <1>6, <1>7, <2>3, <2>5, <2>11 DEF CopyIsWhole, IsCopy, Capturing, volumeVars
  <2>15. CopyIsSent(k)'
    <3>1. /\ op'[k].cap = v /\ op'[k].target = t /\ op'[k].status = "running" /\ t \in Artifact
          /\ spool' = spool /\ stored' = stored
      BY <1>3, <1>7, <1>10, <2>3, <2>5
    <3>2. CASE sender[k].at = "none"
      BY <1>6, <2>3, <2>5, <3>1, <3>2 DEF CopyIsSent, IsCopy, Committed, Uploading
    <3>3. CASE sender[k].at # "none"
      BY <1>5, <1>6, <1>8, <2>3, <2>5, <3>1, <3>3 DEF CopyIsSent, IsCopy, Committed, Uploading
    <3> QED BY <3>2, <3>3
  <2> QED BY <1>5, <2>8, <2>9, <2>10, <2>12, <2>13, <2>14, <2>15, StepKeeps DEF Of
<1> QED BY <1>1, <1>2, <1>9, <1>10 DEF Captured

LEMMA LockKeeps ==
  ASSUME FileAssumption, Inv, NEW k \in Key, TakeLock(k)
  PROVE  Inv'
<1> DEFINE row == IF k \in Checkout THEN op[k]
                  ELSE [op[k] EXCEPT !.status = "running", !.phase = "capturing",
                                     !.cap = task[k].cap, !.target = None]
           free == box[k].at = "none"
           at == IF ~free THEN "refused" ELSE IF k \in Checkout THEN "checkout" ELSE "capture"
           work == [task[k] EXCEPT !.at = at]
           b == IF free THEN [at |-> IF k \in Checkout THEN "stage" ELSE "check", v |-> None]
                ELSE box[k]
<1>1. /\ TypeOK /\ LockIsHeld /\ StoredWhole /\ Of(k) /\ op[k] \in OpRow /\ task[k] \in Task
      /\ task[k].cap \in Version \cup {None, Torn} /\ 0 \in 0 .. Torn /\ box[k] \in Box
  BY RowTypes, FileAssumption DEF Inv, Torn, FileAssumption
<1>2. /\ task[k].at = "lock" /\ lock = "free" /\ lock' = k /\ stored' = stored
      /\ UNCHANGED <<up, sandboxVars, sender, left, spool, volumeVars, stored, faults, crashes>>
  BY DEF TakeLock, LockFree
<1>3. up /\ task[k].cap = op[k].cap /\ (box[k].at # "none" <=> k \in left)
  BY <1>1, <1>2 DEF Of, Paired, Recorded, TypeOK
<1>4. /\ k \in Checkout => k \notin Publish /\ op[k].phase = "none" /\ op[k].cap = None
                            /\ op[k].status = "running"
      /\ k \notin Checkout => k \in Publish
  BY <1>1, <1>2, FileAssumption DEF Of, Recorded, FileAssumption, Key
<1>5. row \in OpRow /\ work \in Task /\ b \in Box
  <2>1. [at |-> "stage", v |-> None] \in Box /\ [at |-> "check", v |-> None] \in Box
    BY <1>1 DEF Box, Capturing, CheckingOut, None
  <2>2. row \in OpRow
    BY <1>1 DEF OpRow
  <2>3. at \in {"refused", "checkout", "capture"}
    OBVIOUS
  <2>4. b \in Box
    BY <1>1, <2>1
  <2> HIDE DEF at
  <2>5. work \in Task
    BY <1>1, <2>3 DEF Task
  <2> QED BY <2>2, <2>4, <2>5
<1>6. /\ op' = [op EXCEPT ![k] = row] /\ task' = [task EXCEPT ![k] = work]
      /\ box' = [box EXCEPT ![k] = b]
  BY <1>1 DEF TakeLock, Put, TypeOK
<1>7. /\ row.status = "running" /\ row.cap = op[k].cap /\ work.cap = op[k].cap
      /\ k \in Checkout => row = op[k]
      /\ k \notin Checkout => row.phase = "capturing"
      /\ \/ k \notin left /\ k \in Checkout /\ work.at = "checkout" /\ b.at = "stage"
         \/ k \notin left /\ k \notin Checkout /\ work.at = "capture" /\ b.at = "check"
         \/ k \in left /\ work.at = "refused" /\ b = box[k]
  BY <1>1, <1>3, <1>4 DEF OpRow, Task
<1> HIDE DEF row, work, b, at, free
<1>8. /\ op' \in [Key -> OpRow] /\ task' \in [Key -> Task] /\ box' \in [Key -> Box]
      /\ op'[k] = row /\ task'[k] = work /\ box'[k] = b
      /\ \A j \in Key \ {k} : op'[j] = op[j] /\ task'[j] = task[j] /\ box'[j] = box[j]
  BY <1>1, <1>5, <1>6, Writes
<1>9. TypeOK' /\ StoredWhole'
  BY <1>1, <1>2, <1>8 DEF TypeOK, StoredWhole, sandboxVars, volumeVars
<1>10. Local(k)
  BY <1>2, <1>8 DEF Local, volumeVars
<1>11. LockIsHeld'
  BY <1>1, <1>2, <1>7, <1>8, FileAssumption DEF LockIsHeld, Holding, FileAssumption
<1>12. Paired(k)'
  BY <1>1, <1>2, <1>3, <1>4, <1>7, <1>8 DEF Of, Paired, Capturing, CheckingOut
<1>13. Recorded(k)'
  BY <1>2, <1>4, <1>7, <1>8 DEF Recorded
<1>14. Working(k)'
  BY <1>1, <1>7, <1>8 DEF Of, Working
<1>15. ASSUME k \in Publish PROVE CopyIsWhole(k)' /\ CopyIsSent(k)'
  <2>1. spool' = spool /\ file' = file /\ stored' = stored /\ sender' = sender
    BY <1>2 DEF volumeVars
  <2>2. CopyIsWhole(k)'
    BY <1>1, <1>4, <1>7, <1>8, <1>15, <2>1 DEF Of, CopyIsWhole, IsCopy, Capturing
  <2>3. CopyIsSent(k)'
    BY <1>1, <1>4, <1>7, <1>8, <1>15, <2>1 DEF Of, CopyIsSent, IsCopy, Committed, Sent
  <2> QED BY <2>2, <2>3
<1>16. ASSUME k \in Checkout PROVE BatchIsWhole(k)'
  BY <1>1, <1>2, <1>4, <1>7, <1>8, <1>16 DEF Of, BatchIsWhole, Whole, volumeVars
<1> QED BY <1>9, <1>10, <1>11, <1>12, <1>13, <1>14, <1>15, <1>16, StepKeeps DEF Of

-----------------------------------------------------------------------------
(* Containers of publications: what a step of one needs to keep.           *)
LEMMA PublishBoxKeeps ==
  ASSUME FileAssumption, Inv, NEW k \in Publish,
         UNCHANGED <<managerVars, sandboxVars, left, crashes, volumeVars>>,
         NEW b \in Box, box' = [box EXCEPT ![k] = b],
         NEW d \in Sender, sender' = [sender EXCEPT ![k] = d],
         NEW s \in Spool, spool' = [spool EXCEPT ![k] = s],
         b = box[k] \/ (box[k].at \in Capturing /\ b.at \in Capturing \cup {"ok", "error"}),
         stored \subseteq stored', stored' \subseteq Publish \X Artifact \X Version,
         faults' \in 0 .. MaxFaults,
         CopyIsWhole(k)', CopyIsSent(k)'
  PROVE  Inv'
<1>1. /\ TypeOK /\ LockIsHeld /\ Of(k) /\ k \in Key /\ k \notin Checkout
  BY FileAssumption DEF Inv, Key, FileAssumption
<1>2. /\ box' \in [Key -> Box] /\ spool' \in [Publish -> Spool] /\ box'[k] = b /\ spool'[k] = s
      /\ sender' \in [Publish -> Sender]
      /\ \A j \in Key \ {k} : box'[j] = box[j]
      /\ \A j \in Publish \ {k} : spool'[j] = spool[j] /\ sender'[j] = sender[j]
  BY <1>1 DEF TypeOK
<1>3. op' = op /\ task' = task /\ up' = up /\ lock' = lock /\ left' = left
  BY DEF managerVars
<1>4. stored' \subseteq Publish \X Artifact \X (1 .. Torn) /\ StoredWhole'
  BY FileAssumption DEF StoredWhole, Version, Torn, FileAssumption
<1>5. TypeOK'
  BY <1>1, <1>2, <1>3, <1>4 DEF TypeOK, sandboxVars, volumeVars
<1>6. Local(k)
  BY <1>2, <1>3 DEF Local, volumeVars
<1>7. LockIsHeld'
  BY <1>1, <1>3 DEF LockIsHeld
<1>8. Recorded(k)' /\ Paired(k)' /\ Working(k)'
  <2>1. CASE b = box[k]
    BY <1>1, <1>2, <1>3, <2>1 DEF Of, Recorded, Paired, Working
  <2>2. CASE box[k].at \in Capturing /\ b.at \in Capturing \cup {"ok", "error"}
    <3>1. box[k].at \notin {"none", "ok", "error"} /\ b.at # "none"
      BY <2>2 DEF Capturing
    <3>2. Recorded(k)'
      BY <1>1, <1>3 DEF Of, Recorded
    <3>3. Paired(k)'
      BY <1>1, <1>2, <1>3, <2>2, <3>1 DEF Of, Paired, Capturing, CheckingOut
    <3>4. Working(k)'
      BY <1>1, <1>2, <1>3, <2>2 DEF Of, Working, Busy, Capturing, CheckingOut
    <3> QED BY <3>2, <3>3, <3>4
  <2> QED BY <2>1, <2>2
<1> QED BY <1>1, <1>4, <1>5, <1>6, <1>7, <1>8, StepKeeps DEF Of

\* What a container finds.
LEMMA Found ==
  ASSUME FileAssumption, Inv, NEW k \in Publish
  PROVE  /\ TypeOK /\ Of(k) /\ k \in Key /\ box[k] \in Box /\ spool[k] \in Spool
         /\ Working(k) /\ CopyIsWhole(k) /\ CopyIsSent(k) /\ Paired(k)
         /\ sender[k] \in Sender
         /\ box = [box EXCEPT ![k] = box[k]] /\ sender = [sender EXCEPT ![k] = sender[k]]
         /\ spool = [spool EXCEPT ![k] = spool[k]]
         /\ file[k] \in Version /\ spool[k].content \in 0 .. Torn
         /\ op[k].cap \in Version \cup {None, Torn} /\ op[k].target \in Artifact \cup {None}
         /\ faults \in 0 .. MaxFaults /\ stored \subseteq Publish \X Artifact \X Version
         /\ Version \subseteq Nat \ {0} /\ Torn \notin Version /\ Version \subseteq 0 .. Torn
<1>1. TypeOK /\ Of(k) /\ k \in Key /\ StoredWhole
  BY DEF Inv, Key
<1>2. spool[k] \in Spool /\ file[k] \in Version
  BY <1>1 DEF TypeOK
<1>3. Version \subseteq Nat \ {0} /\ Torn \notin Version /\ Version \subseteq 0 .. Torn
      /\ 1 .. Torn = Version \cup {Torn}
  BY FileAssumption DEF Version, Torn, FileAssumption
<1>4. stored \subseteq Publish \X Artifact \X Version
  BY <1>1, <1>3 DEF TypeOK, StoredWhole
<1>5. spool[k].content \in 0 .. Torn
  BY <1>2 DEF Spool
<1>6. faults \in 0 .. MaxFaults
  BY <1>1 DEF TypeOK
<1>7. /\ sender[k] \in Sender
      /\ box = [box EXCEPT ![k] = box[k]] /\ sender = [sender EXCEPT ![k] = sender[k]]
      /\ spool = [spool EXCEPT ![k] = spool[k]]
  BY <1>1 DEF TypeOK
<1> QED BY <1>1, <1>2, <1>3, <1>4, <1>5, <1>6, <1>7, RowTypes DEF Of

(* A step of the container that captures.                                  *)
LEMMA CaptureStep ==
  ASSUME FileAssumption, Inv, NEW k \in Publish,
         UNCHANGED <<managerVars, sandboxVars, sender, left, crashes, volumeVars, stored>>,
         NEW b \in Box, box' = [box EXCEPT ![k] = b],
         NEW s \in Spool, spool' = [spool EXCEPT ![k] = s],
         box[k].at \in Capturing, b.at \in Capturing \cup {"ok", "error"},
         faults' \in 0 .. MaxFaults,
         CopyIsWhole(k)', CopyIsSent(k)'
  PROVE  Inv'
<1>1. /\ sender[k] \in Sender /\ sender' = [sender EXCEPT ![k] = sender[k]]
      /\ stored' \subseteq Publish \X Artifact \X Version /\ stored \subseteq stored'
  BY Found
<1> QED BY <1>1, PublishBoxKeeps

\* A capture that stops with an error has touched nothing but its spool.
LEMMA ErrorKeeps ==
  ASSUME FileAssumption, Inv, NEW k \in Publish,
         box[k].at \in Capturing, Put(k, "error", None),
         UNCHANGED <<managerVars, sandboxVars, sender, left, crashes, volumeVars, spool, stored>>,
         faults' \in 0 .. MaxFaults
  PROVE  Inv'
<1> DEFINE b == [at |-> "error", v |-> None]
<1>1. /\ TypeOK /\ Of(k) /\ k \in Key /\ spool[k] \in Spool /\ CopyIsWhole(k) /\ CopyIsSent(k)
  BY Found
<1>2. b \in Box /\ b.at = "error"
  BY BoxMade
<1>3. box' = [box EXCEPT ![k] = b] /\ spool' = [spool EXCEPT ![k] = spool[k]]
  BY <1>1 DEF Put, TypeOK
<1> HIDE DEF b
<1>4. /\ box'[k] = b /\ op' = op /\ task' = task /\ file' = file /\ spool' = spool
      /\ sender' = sender /\ stored' = stored
  BY <1>1, <1>3 DEF TypeOK, managerVars, volumeVars
<1>5. CopyIsWhole(k)'
  BY <1>1, <1>2, <1>4 DEF CopyIsWhole, Capturing
<1>6. CopyIsSent(k)'
  BY <1>1, <1>4 DEF CopyIsSent, Sent, IsCopy, Committed
<1> QED BY <1>1, <1>2, <1>3, <1>5, <1>6, CaptureStep

(* A step of the container that uploads.                                   *)
LEMMA UploadStep ==
  ASSUME FileAssumption, Inv, NEW k \in Publish,
         UNCHANGED <<managerVars, sandboxVars, box, left, crashes, volumeVars>>,
         NEW d \in Sender, sender' = [sender EXCEPT ![k] = d],
         NEW s \in Spool, spool' = [spool EXCEPT ![k] = s],
         stored \subseteq stored', stored' \subseteq Publish \X Artifact \X Version,
         faults' \in 0 .. MaxFaults,
         CopyIsWhole(k)', CopyIsSent(k)'
  PROVE  Inv'
<1>1. box[k] \in Box /\ box' = [box EXCEPT ![k] = box[k]]
  BY Found
<1> QED BY <1>1, PublishBoxKeeps

LEMMA NotSent ==
  ASSUME FileAssumption, Inv, NEW k \in Publish,
         sender[k].at \in Uploading, Send(k, "error", None),
         UNCHANGED <<managerVars, sandboxVars, box, left, crashes, volumeVars, spool>>,
         stored \subseteq stored', stored' \subseteq Publish \X Artifact \X Version,
         faults' \in 0 .. MaxFaults
  PROVE  Inv'
<1> DEFINE d == [at |-> "error", v |-> None]
<1>1. /\ TypeOK /\ spool[k] \in Spool /\ CopyIsWhole(k) /\ CopyIsSent(k)
      /\ spool = [spool EXCEPT ![k] = spool[k]]
  BY Found
<1>2. d \in Sender /\ d.at = "error"
  BY DEF Sender
<1>3. sender' = [sender EXCEPT ![k] = d]
  BY DEF Send
<1> HIDE DEF d
<1>4. /\ sender'[k] = d /\ op' = op /\ task' = task /\ file' = file /\ spool' = spool /\ box' = box
      /\ Committed(k) => Committed(k)'
  BY <1>1, <1>3 DEF TypeOK, managerVars, volumeVars, Committed
<1>5. CopyIsWhole(k)'
  BY <1>1, <1>2, <1>4 DEF CopyIsWhole, IsCopy, Uploading
<1>6. CopyIsSent(k)'
  BY <1>1, <1>2, <1>4 DEF CopyIsSent, Sent, IsCopy, Uploading
<1> QED BY <1>1, <1>2, <1>3, <1>5, <1>6, UploadStep

LEMMA CheckKeeps ==
  ASSUME FileAssumption, Inv, NEW k \in Publish, CaptureChecks(k)
  PROVE  Inv'
<1>1. /\ TypeOK /\ Of(k) /\ k \in Key /\ box[k] \in Box /\ spool[k] \in Spool
      /\ CopyIsWhole(k) /\ CopyIsSent(k)
      /\ spool[k].content \in 0 .. Torn /\ Torn \notin Version /\ Version \subseteq 0 .. Torn
      /\ faults \in 0 .. MaxFaults /\ stored \subseteq Publish \X Artifact \X Version
  BY Found
<1>2. spool[k].content # None => spool[k].content \in Version
  BY <1>1, FileAssumption DEF CopyIsWhole, Version, Torn, None, FileAssumption
<1>3. /\ box[k].at = "check" /\ UNCHANGED <<managerVars, sandboxVars, sender, left, crashes>>
      /\ UNCHANGED <<spool, volumeVars, stored, faults>>
  BY DEF CaptureChecks, InBox
<1>4. spool' = [spool EXCEPT ![k] = spool[k]] /\ op' = op /\ task' = task /\ file' = file
  BY <1>1, <1>3 DEF TypeOK, managerVars, volumeVars
<1>5. CASE ~HasCopy(k)
  <2> DEFINE b == [at |-> "open", v |-> None]
  <2>1. b \in Box /\ b.at = "open"
    BY BoxMade DEF Busy, Capturing
  <2>2. box' = [box EXCEPT ![k] = b]
    BY <1>5 DEF CaptureChecks, Put
  <2> HIDE DEF b
  <2>3. box'[k] = b
    BY <1>1, <2>2 DEF TypeOK
  <2>4. spool[k].manifest = None
    BY <1>1, <1>5 DEF CopyIsWhole, HasCopy
  <2>5. CopyIsWhole(k)' /\ CopyIsSent(k)'
    BY <1>1, <1>3, <1>4, <2>1, <2>3, <2>4 DEF CopyIsWhole, CopyIsSent, Sent, IsCopy, Committed
  <2> QED BY <1>1, <1>3, <1>4, <2>1, <2>2, <2>5, CaptureStep DEF Capturing
<1>6. CASE HasCopy(k) /\ spool[k].content = spool[k].manifest
  <2> DEFINE b == [at |-> "ok", v |-> spool[k].manifest]
  <2>1. b \in Box /\ b.at = "ok" /\ b.v = spool[k].manifest
    BY <1>2, <1>6, BoxMade DEF HasCopy
  <2>2. box' = [box EXCEPT ![k] = b]
    BY <1>6 DEF CaptureChecks, Put
  <2> HIDE DEF b
  <2>3. box'[k] = b
    BY <1>1, <2>2 DEF TypeOK
  <2>4. CopyIsWhole(k)'
    BY <1>1, <1>2, <1>3, <1>4, <1>6, <2>1, <2>3 DEF CopyIsWhole, IsCopy, Capturing, HasCopy
  <2>5. CopyIsSent(k)'
    BY <1>1, <1>3, <1>4 DEF CopyIsSent, Sent, IsCopy, Committed
  <2> QED BY <1>1, <1>3, <1>4, <2>1, <2>2, <2>4, <2>5, CaptureStep DEF Capturing
<1>7. CASE HasCopy(k) /\ spool[k].content # spool[k].manifest
  BY <1>1, <1>3, <1>7, ErrorKeeps DEF CaptureChecks, Capturing
<1> QED BY <1>5, <1>6, <1>7

LEMMA OpenKeeps ==
  ASSUME FileAssumption, Inv, NEW k \in Publish, CaptureOpens(k)
  PROVE  Inv'
<1>1. /\ TypeOK /\ Of(k) /\ k \in Key /\ box[k] \in Box /\ spool[k] \in Spool
      /\ CopyIsWhole(k) /\ CopyIsSent(k) /\ Working(k) /\ file[k] \in Version
      /\ spool[k].content \in 0 .. Torn /\ Torn \notin Version /\ Version \subseteq 0 .. Torn
      /\ Version \subseteq Nat \ {0}
      /\ faults \in 0 .. MaxFaults /\ stored \subseteq Publish \X Artifact \X Version
  BY Found
<1>2. /\ box[k].at = "open" /\ UNCHANGED <<managerVars, sandboxVars, sender, left, crashes>>
      /\ UNCHANGED <<volumeVars, stored>> /\ faults' \in 0 .. MaxFaults
  BY <1>1, FileAssumption DEF CaptureOpens, InBox, Fault, FileAssumption
<1>3. CASE Put(k, "error", None) /\ UNCHANGED spool
  BY <1>1, <1>2, <1>3, ErrorKeeps DEF Capturing
<1>4. CASE Spooled(k, [spool[k] EXCEPT !.part = TRUE]) /\ Put(k, "copy", file[k])
  <2> DEFINE b == [at |-> "copy", v |-> file[k]]
             s == [spool[k] EXCEPT !.part = TRUE]
  <2>1. b \in Box /\ b.at = "copy" /\ b.v = file[k]
    BY <1>1, BoxMade DEF Busy, Capturing
  <2>2. s \in Spool /\ s.content = spool[k].content /\ s.manifest = spool[k].manifest
    BY <1>1 DEF Spool
  <2>3. box' = [box EXCEPT ![k] = b] /\ spool' = [spool EXCEPT ![k] = s]
    BY <1>4 DEF Put, Spooled
  <2> HIDE DEF b, s
  <2>4. box'[k] = b /\ spool'[k] = s /\ op' = op /\ task' = task /\ file' = file
    BY <1>1, <1>2, <2>3 DEF TypeOK, managerVars, volumeVars
  <2>5. CopyIsWhole(k)'
    <3>1. spool[k].manifest = None
      BY <1>1, <1>2 DEF CopyIsWhole, Capturing
    <3>2. file[k] \in Nat
      BY <1>1
    <3>3. file[k] <= file[k]
      BY <3>2
    <3> QED BY <1>1, <1>2, <2>1, <2>2, <2>4, <3>1, <3>3 DEF CopyIsWhole, Capturing
  <2>6. CopyIsSent(k)'
    BY <1>1, <1>2, <2>1, <2>2, <2>4 DEF CopyIsSent, Sent, IsCopy, Committed
  <2> QED BY <1>1, <1>2, <2>1, <2>2, <2>3, <2>5, <2>6, CaptureStep DEF Capturing
<1> QED BY <1>3, <1>4 DEF CaptureOpens

(* What is copied is what was in the file when it was opened.              *)
LEMMA CopyKeeps ==
  ASSUME FileAssumption, Inv, NEW k \in Publish, CaptureCopies(k)
  PROVE  Inv'
<1>1. /\ TypeOK /\ Of(k) /\ k \in Key /\ box[k] \in Box /\ spool[k] \in Spool
      /\ CopyIsWhole(k) /\ CopyIsSent(k) /\ Working(k) /\ file[k] \in Version
      /\ spool[k].content \in 0 .. Torn /\ Torn \notin Version /\ Version \subseteq 0 .. Torn
      /\ Version \subseteq Nat \ {0}
      /\ faults \in 0 .. MaxFaults /\ stored \subseteq Publish \X Artifact \X Version
  BY Found
<1>2. /\ box[k].at = "copy" /\ UNCHANGED <<managerVars, sandboxVars, sender, left, crashes>>
      /\ UNCHANGED <<spool, volumeVars, stored>> /\ faults' \in 0 .. MaxFaults
  BY <1>1, FileAssumption DEF CaptureCopies, InBox, Fault, FileAssumption
<1>3. CASE Put(k, "error", None)
  BY <1>1, <1>2, <1>3, ErrorKeeps DEF Capturing
<1>4. CASE UnchangedSince(k) /\ Put(k, "install", IF file[k] = box[k].v THEN file[k] ELSE Torn)
  <2> DEFINE b == [at |-> "install", v |-> file[k]]
  <2>1. b \in Box /\ b.at = "install" /\ b.v = file[k]
    BY <1>1, BoxMade DEF Busy, Capturing
  <2>2. box' = [box EXCEPT ![k] = b] /\ spool' = [spool EXCEPT ![k] = spool[k]]
    BY <1>1, <1>2, <1>4 DEF Put, UnchangedSince, TypeOK
  <2> HIDE DEF b
  <2>3. box'[k] = b /\ spool' = spool /\ op' = op /\ task' = task /\ file' = file
    BY <1>1, <1>2, <2>2 DEF TypeOK, managerVars, volumeVars
  <2>4. CopyIsWhole(k)'
    <3>1. spool[k].manifest = None
      BY <1>1, <1>2 DEF CopyIsWhole, Capturing
    <3>2. file[k] \in Nat
      BY <1>1
    <3>3. file[k] <= file[k]
      BY <3>2
    <3> QED BY <1>1, <1>2, <2>1, <2>3, <3>1, <3>3 DEF CopyIsWhole, Capturing
  <2>5. CopyIsSent(k)'
    BY <1>1, <1>2, <2>1, <2>3 DEF CopyIsSent, Sent, IsCopy, Committed
  <2> QED BY <1>1, <1>2, <2>1, <2>2, <2>4, <2>5, CaptureStep DEF Capturing
<1> QED BY <1>3, <1>4 DEF CaptureCopies

(* The copy replaces content that has no manifest: if a version was        *)
(* captured before, an Artifact has it.                                    *)
LEMMA InstallKeeps ==
  ASSUME FileAssumption, Inv, NEW k \in Publish, CaptureInstalls(k)
  PROVE  Inv'
<1>1. /\ TypeOK /\ Of(k) /\ k \in Key /\ box[k] \in Box /\ spool[k] \in Spool
      /\ CopyIsWhole(k) /\ CopyIsSent(k) /\ Working(k) /\ file[k] \in Version
      /\ spool[k].content \in 0 .. Torn /\ Torn \notin Version /\ Version \subseteq 0 .. Torn
      /\ Version \subseteq Nat \ {0}
      /\ faults \in 0 .. MaxFaults /\ stored \subseteq Publish \X Artifact \X Version
  BY Found
<1> DEFINE b == [at |-> "manifest", v |-> box[k].v]
           s == [spool[k] EXCEPT !.part = FALSE, !.content = box[k].v]
<1>2. /\ box[k].at = "install" /\ UNCHANGED <<managerVars, sandboxVars, sender, left, crashes>>
      /\ UNCHANGED <<volumeVars, stored, faults>>
      /\ box' = [box EXCEPT ![k] = b] /\ spool' = [spool EXCEPT ![k] = s]
  BY DEF CaptureInstalls, InBox, Put, Spooled
<1>3. box[k].v \in Version /\ box[k].v <= file[k] /\ spool[k].manifest = None
  BY <1>1, <1>2 DEF CopyIsWhole, Capturing
<1>4. b \in Box /\ b.at = "manifest" /\ b.v = box[k].v
  BY <1>1, <1>3, BoxMade DEF Busy, Capturing
<1>5. s \in Spool /\ s.content = box[k].v /\ s.manifest = None
  BY <1>1, <1>3 DEF Spool
<1> HIDE DEF b, s
<1>6. box'[k] = b /\ spool'[k] = s /\ op' = op /\ task' = task /\ file' = file
  BY <1>1, <1>2 DEF TypeOK, managerVars, volumeVars
<1>7. CopyIsWhole(k)'
  BY <1>1, <1>3, <1>4, <1>5, <1>6 DEF CopyIsWhole, Capturing
<1>8. CopyIsSent(k)'
  BY <1>1, <1>2, <1>3, <1>4, <1>5, <1>6 DEF CopyIsSent, Sent, IsCopy, Committed
<1> QED BY <1>1, <1>2, <1>4, <1>5, <1>7, <1>8, CaptureStep DEF Capturing

LEMMA ManifestKeeps ==
  ASSUME FileAssumption, Inv, NEW k \in Publish, CaptureWritesManifest(k)
  PROVE  Inv'
<1>1. /\ TypeOK /\ Of(k) /\ k \in Key /\ box[k] \in Box /\ spool[k] \in Spool
      /\ CopyIsWhole(k) /\ CopyIsSent(k) /\ Working(k) /\ file[k] \in Version
      /\ spool[k].content \in 0 .. Torn /\ Torn \notin Version /\ Version \subseteq 0 .. Torn
      /\ Version \subseteq Nat \ {0}
      /\ faults \in 0 .. MaxFaults /\ stored \subseteq Publish \X Artifact \X Version
  BY Found
<1>2. /\ box[k].at = "manifest" /\ UNCHANGED <<managerVars, sandboxVars, sender, left, crashes>>
      /\ UNCHANGED <<volumeVars, stored, faults>>
  BY DEF CaptureWritesManifest, InBox
<1>3. CASE spool[k].manifestPart
  BY <1>1, <1>2, <1>3, ErrorKeeps DEF CaptureWritesManifest, Capturing
<1>4. CASE ~spool[k].manifestPart
  <2> DEFINE b == [at |-> "commit", v |-> box[k].v]
             s == [spool[k] EXCEPT !.manifestPart = TRUE]
  <2>1. /\ box[k].v \in Version /\ box[k].v <= file[k] /\ spool[k].manifest = None
        /\ spool[k].content = box[k].v
    BY <1>1, <1>2 DEF CopyIsWhole, Capturing
  <2>2. b \in Box /\ b.at = "commit" /\ b.v = box[k].v
    BY <1>1, <2>1, BoxMade DEF Busy, Capturing
  <2>3. s \in Spool /\ s.content = spool[k].content /\ s.manifest = spool[k].manifest
    BY <1>1 DEF Spool
  <2>4. box' = [box EXCEPT ![k] = b] /\ spool' = [spool EXCEPT ![k] = s]
    BY <1>4 DEF CaptureWritesManifest, Put, Spooled
  <2> HIDE DEF b, s
  <2>5. box'[k] = b /\ spool'[k] = s /\ op' = op /\ task' = task /\ file' = file
    BY <1>1, <1>2, <2>4 DEF TypeOK, managerVars, volumeVars
  <2>6. CopyIsWhole(k)'
    BY <1>1, <2>1, <2>2, <2>3, <2>5 DEF CopyIsWhole, Capturing
  <2>7. CopyIsSent(k)'
    BY <1>1, <1>2, <2>2, <2>3, <2>5 DEF CopyIsSent, Sent, IsCopy, Committed
  <2> QED BY <1>1, <1>2, <2>2, <2>3, <2>4, <2>6, <2>7, CaptureStep DEF Capturing
<1> QED BY <1>3, <1>4

LEMMA CommitKeeps ==
  ASSUME FileAssumption, Inv, NEW k \in Publish, CaptureCommits(k)
  PROVE  Inv'
<1>1. /\ TypeOK /\ Of(k) /\ k \in Key /\ box[k] \in Box /\ spool[k] \in Spool
      /\ CopyIsWhole(k) /\ CopyIsSent(k) /\ Working(k) /\ file[k] \in Version
      /\ spool[k].content \in 0 .. Torn /\ Torn \notin Version /\ Version \subseteq 0 .. Torn
      /\ Version \subseteq Nat \ {0}
      /\ faults \in 0 .. MaxFaults /\ stored \subseteq Publish \X Artifact \X Version
  BY Found
<1> DEFINE b == [at |-> "ok", v |-> box[k].v]
           s == [spool[k] EXCEPT !.manifestPart = FALSE, !.manifest = box[k].v]
<1>2. /\ box[k].at = "commit" /\ UNCHANGED <<managerVars, sandboxVars, sender, left, crashes>>
      /\ UNCHANGED <<volumeVars, stored, faults>>
      /\ box' = [box EXCEPT ![k] = b] /\ spool' = [spool EXCEPT ![k] = s]
  BY DEF CaptureCommits, InBox, Put, Spooled
<1>3. /\ box[k].v \in Version /\ box[k].v <= file[k] /\ spool[k].manifest = None
      /\ spool[k].content = box[k].v
  BY <1>1, <1>2 DEF CopyIsWhole, Capturing
<1>4. b \in Box /\ b.at = "ok" /\ b.v = box[k].v
  BY <1>1, <1>3, BoxMade
<1>5. s \in Spool /\ s.content = box[k].v /\ s.manifest = box[k].v
  BY <1>1, <1>3 DEF Spool
<1> HIDE DEF b, s
<1>6. box'[k] = b /\ spool'[k] = s /\ op' = op /\ task' = task /\ file' = file
  BY <1>1, <1>2 DEF TypeOK, managerVars, volumeVars
<1>7. CopyIsWhole(k)'
  BY <1>1, <1>3, <1>4, <1>5, <1>6 DEF CopyIsWhole, IsCopy, Capturing
<1>9. CopyIsSent(k)'
  BY <1>1, <1>2, <1>3, <1>4, <1>5, <1>6 DEF CopyIsSent, Sent, IsCopy, Committed, None
<1> QED BY <1>1, <1>2, <1>4, <1>5, <1>7, <1>9, CaptureStep DEF Capturing

LEMMA VerifyKeeps ==
  ASSUME FileAssumption, Inv, NEW k \in Publish, UploadVerifies(k)
  PROVE  Inv'
<1>1. /\ TypeOK /\ spool[k] \in Spool /\ CopyIsWhole(k) /\ CopyIsSent(k)
      /\ spool = [spool EXCEPT ![k] = spool[k]]
      /\ faults \in 0 .. MaxFaults /\ stored \subseteq Publish \X Artifact \X Version
  BY Found
<1>2. /\ sender[k].at = "verify" /\ UNCHANGED <<managerVars, sandboxVars, box, left, crashes>>
      /\ UNCHANGED <<spool, volumeVars, stored, faults>>
  BY DEF UploadVerifies, InSender
<1>3. CASE Send(k, "error", None)
  BY <1>1, <1>2, <1>3, NotSent DEF Uploading
<1>4. CASE Send(k, "put", sender[k].v)
  <2> DEFINE d == [at |-> "put", v |-> sender[k].v]
  <2>1. sender[k].v \in Artifact
    BY <1>1, <1>2 DEF CopyIsSent, Uploading
  <2>2. d \in Sender /\ d.at = "put" /\ d.v = sender[k].v
    BY <2>1 DEF Sender, Uploading
  <2>3. sender' = [sender EXCEPT ![k] = d]
    BY <1>4 DEF Send
  <2> HIDE DEF d
  <2>4. /\ sender'[k] = d /\ op' = op /\ task' = task /\ file' = file /\ spool' = spool /\ box' = box
        /\ stored' = stored
    BY <1>1, <1>2, <2>3 DEF TypeOK, managerVars, volumeVars
  <2>5. CopyIsWhole(k)'
    BY <1>1, <1>2, <2>2, <2>4 DEF CopyIsWhole, IsCopy
  <2>6. CopyIsSent(k)'
    BY <1>1, <1>2, <2>2, <2>4 DEF CopyIsSent, Sent, IsCopy, Committed, Uploading
  <2> QED BY <1>1, <1>2, <2>2, <2>3, <2>5, <2>6, UploadStep
<1> QED BY <1>3, <1>4 DEF UploadVerifies

(* What reaches the Artifact Service is the captured version, under the    *)
(* target the container was started with.                                  *)
LEMMA PutKeeps ==
  ASSUME FileAssumption, Inv, NEW k \in Publish, UploadPuts(k)
  PROVE  Inv'
<1>1. /\ TypeOK /\ spool[k] \in Spool /\ CopyIsWhole(k) /\ CopyIsSent(k) /\ Working(k)
      /\ spool = [spool EXCEPT ![k] = spool[k]] /\ op[k].cap \in Version \cup {None, Torn}
      /\ faults \in 0 .. MaxFaults /\ stored \subseteq Publish \X Artifact \X Version
  BY Found
<1>2. /\ sender[k].at = "put" /\ UNCHANGED <<managerVars, sandboxVars, box, left, crashes>>
      /\ UNCHANGED <<spool, volumeVars>> /\ faults' \in 0 .. MaxFaults
  BY <1>1, FileAssumption DEF UploadPuts, InSender, Fault, FileAssumption
<1> DEFINE a == sender[k].v
<1>3. a \in Artifact /\ op[k].cap \in Version /\ spool[k].content = op[k].cap
  BY <1>1, <1>2 DEF Working, CopyIsSent, IsCopy, Uploading
<1>4. /\ stored' \in {stored, stored \cup {<<k, a, op[k].cap>>}}
      /\ \/ Send(k, "error", None)
         \/ Send(k, "clean", a) /\ stored' = stored \cup {<<k, a, op[k].cap>>}
  BY <1>3 DEF UploadPuts
<1>5. stored \subseteq stored' /\ stored' \subseteq Publish \X Artifact \X Version
  BY <1>1, <1>3, <1>4
<1>6. CASE Send(k, "error", None)
  BY <1>1, <1>2, <1>5, <1>6, NotSent DEF Uploading
<1>7. CASE Send(k, "clean", a) /\ stored' = stored \cup {<<k, a, op[k].cap>>}
  <2> DEFINE d == [at |-> "clean", v |-> a]
  <2>1. d \in Sender /\ d.at = "clean" /\ d.v = a
    BY <1>3 DEF Sender, Uploading
  <2>2. sender' = [sender EXCEPT ![k] = d]
    BY <1>7 DEF Send
  <2> HIDE DEF d
  <2>3. /\ sender'[k] = d /\ op' = op /\ task' = task /\ file' = file /\ spool' = spool /\ box' = box
    BY <1>1, <1>2, <2>2 DEF TypeOK, managerVars, volumeVars
  <2>4. <<k, d.v, op[k].cap>> \in stored' /\ (Committed(k) => Committed(k)')
    BY <1>5, <1>7, <2>1 DEF Committed
  <2>5. CopyIsWhole(k)'
    BY <1>1, <1>2, <2>3, <2>4 DEF CopyIsWhole, IsCopy
  <2>6. CopyIsSent(k)'
    BY <1>1, <1>2, <1>3, <1>5, <2>1, <2>3, <2>4 DEF CopyIsSent, Sent, IsCopy, Uploading
  <2> QED BY <1>1, <1>2, <1>5, <2>1, <2>2, <2>5, <2>6, UploadStep
<1> QED BY <1>4, <1>6, <1>7

(* The stable copy goes only when the Artifact Service has answered; no    *)
(* capture is at work then, for it would have found the copy.              *)
LEMMA CleanKeeps ==
  ASSUME FileAssumption, Inv, NEW k \in Publish, UploadCleans(k)
  PROVE  Inv'
<1>1. /\ TypeOK /\ spool[k] \in Spool /\ CopyIsWhole(k) /\ CopyIsSent(k) /\ file[k] \in Version
      /\ Version \subseteq Nat \ {0}
      /\ faults \in 0 .. MaxFaults /\ stored \subseteq Publish \X Artifact \X Version
  BY Found
<1> DEFINE d == [at |-> "ok", v |-> sender[k].v]
<1>2. /\ sender[k].at = "clean" /\ UNCHANGED <<managerVars, sandboxVars, box, left, crashes>>
      /\ UNCHANGED <<volumeVars, stored, faults>>
      /\ sender' = [sender EXCEPT ![k] = d] /\ spool' = [spool EXCEPT ![k] = NoSpool]
  BY DEF UploadCleans, InSender, Send, Spooled
<1>3. /\ sender[k].v \in Artifact /\ <<k, sender[k].v, op[k].cap>> \in stored
      /\ spool[k].manifest # None
  BY <1>1, <1>2 DEF CopyIsSent, IsCopy, Uploading
<1>4. d \in Sender /\ d.at = "ok" /\ d.v = sender[k].v
  BY <1>3 DEF Sender
<1>5. NoSpool \in Spool /\ NoSpool.content = None /\ NoSpool.manifest = None
  BY FileAssumption DEF NoSpool, Spool, None, Torn, FileAssumption
<1> HIDE DEF d
<1>6. /\ sender'[k] = d /\ spool'[k] = NoSpool /\ op' = op /\ task' = task /\ file' = file /\ box' = box
      /\ stored' = stored
  BY <1>1, <1>2 DEF TypeOK, managerVars, volumeVars
<1>7. Committed(k) /\ Committed(k)'
  BY <1>3, <1>6 DEF Committed
<1>8. None # Torn /\ None <= file[k]
  <2>1. file[k] \in Nat
    BY <1>1
  <2>2. None = 0 /\ Torn > 0
    BY FileAssumption DEF None, Torn, FileAssumption
  <2> QED BY <2>1, <2>2
<1>9. box[k].at \notin Capturing \ {"check"}
  BY <1>1, <1>3 DEF CopyIsWhole
<1>10. CopyIsWhole(k)'
  BY <1>1, <1>4, <1>5, <1>6, <1>7, <1>8, <1>9 DEF CopyIsWhole, Capturing
<1>11. CopyIsSent(k)'
  BY <1>1, <1>2, <1>3, <1>4, <1>5, <1>6, <1>7 DEF CopyIsSent, Sent, Uploading
<1> QED BY <1>1, <1>2, <1>4, <1>5, <1>10, <1>11, UploadStep

-----------------------------------------------------------------------------
(* Containers of checkouts.                                                *)
Batch == [files : 0 .. Files, message : Message \cup {None}]

LEMMA CheckoutBoxKeeps ==
  ASSUME FileAssumption, Inv, NEW k \in Checkout,
         UNCHANGED <<managerVars, sandboxVars, sender, left, crashes, spool, file, stored>>,
         box[k].at \in CheckingOut,
         NEW b \in Box, b.at \in CheckingOut \cup {"ok", "error"}, box' = [box EXCEPT ![k] = b],
         NEW n \in 0 .. Files, staging' = [staging EXCEPT ![k] = n],
         NEW u \in Batch, uploads' = [uploads EXCEPT ![k] = u],
         faults' \in 0 .. MaxFaults,
         u.files \in {0, Files},
         b.at = "download" => n < Files,
         b.at = "rename" => n = Files,
         b.at = "ok" => u = [files |-> Files, message |-> op[k].message]
  PROVE  Inv'
<1>1. /\ TypeOK /\ LockIsHeld /\ StoredWhole /\ Of(k) /\ k \in Key /\ k \notin Publish
  BY FileAssumption DEF Inv, Key, FileAssumption
<1>2. /\ box' \in [Key -> Box] /\ staging' \in [Checkout -> 0 .. Files]
      /\ uploads' \in [Checkout -> Batch]
      /\ box'[k] = b /\ staging'[k] = n /\ uploads'[k] = u
      /\ \A j \in Key \ {k} : box'[j] = box[j]
      /\ \A j \in Checkout \ {k} : staging'[j] = staging[j] /\ uploads'[j] = uploads[j]
  BY <1>1 DEF TypeOK, Batch
<1>3. op' = op /\ task' = task /\ up' = up /\ lock' = lock
  BY DEF managerVars
<1>4. TypeOK'
  BY <1>1, <1>2, <1>3 DEF TypeOK, sandboxVars, Batch
<1>5. Local(k) /\ StoredWhole' /\ LockIsHeld'
  BY <1>1, <1>2, <1>3 DEF Local, StoredWhole, LockIsHeld
<1>6. /\ box[k].at \notin {"none", "ok", "error"} \cup Capturing
      /\ b.at \notin {"none"} \cup Capturing
  BY DEF Capturing, CheckingOut
<1>7. Recorded(k)' /\ Working(k)'
  BY <1>1, <1>2, <1>3, <1>6 DEF Of, Recorded, Working, Busy
<1>8. Paired(k)'
  BY <1>1, <1>2, <1>3, <1>6 DEF Of, Paired
<1>9. BatchIsWhole(k)'
  <2>1. op[k].status # "succeeded"
    BY <1>1 DEF Of, Working, Busy
  <2> QED BY <1>1, <1>2, <1>3, <2>1 DEF BatchIsWhole, Whole
<1> QED BY <1>1, <1>4, <1>5, <1>7, <1>8, <1>9, StepKeeps DEF Of

\* What a checkout finds.
LEMMA Unpacked ==
  ASSUME FileAssumption, Inv, NEW k \in Checkout
  PROVE  /\ TypeOK /\ k \in Key /\ box[k] \in Box /\ BatchIsWhole(k)
         /\ staging[k] \in 0 .. Files /\ uploads[k] \in Batch /\ faults \in 0 .. MaxFaults
         /\ uploads[k].files \in {0, Files} /\ uploads[k].message \in Message \cup {None}
         /\ uploads[k] = [files |-> uploads[k].files, message |-> uploads[k].message]
         /\ op[k].sandbox \in 0 .. MaxSandbox /\ op[k].message \in Message \cup {None}
         /\ uploads = [uploads EXCEPT ![k] = uploads[k]] /\ staging = [staging EXCEPT ![k] = staging[k]]
         /\ 0 \in 0 .. Files /\ Files \in 0 .. Files /\ Files \in Nat \ {0}
<1>1. TypeOK /\ Of(k) /\ k \in Key
  BY DEF Inv, Key
<1>2. uploads[k] \in Batch /\ staging[k] \in 0 .. Files
  BY <1>1 DEF TypeOK, Batch
<1>3. BatchIsWhole(k)
  BY <1>1 DEF Of
<1>4. uploads = [uploads EXCEPT ![k] = uploads[k]] /\ staging = [staging EXCEPT ![k] = staging[k]]
  BY <1>1 DEF TypeOK
<1>5. faults \in 0 .. MaxFaults /\ 0 \in 0 .. Files /\ Files \in 0 .. Files /\ Files \in Nat \ {0}
  BY <1>1, FileAssumption DEF TypeOK, FileAssumption
<1>6. /\ uploads[k].message \in Message \cup {None}
      /\ uploads[k] = [files |-> uploads[k].files, message |-> uploads[k].message]
  BY <1>2 DEF Batch
<1> QED BY <1>1, <1>2, <1>3, <1>4, <1>5, <1>6, RowTypes DEF BatchIsWhole

LEMMA StageKeeps ==
  ASSUME FileAssumption, Inv, NEW k \in Checkout, CheckoutStages(k)
  PROVE  Inv'
<1>1. /\ TypeOK /\ k \in Key /\ staging[k] \in 0 .. Files /\ uploads[k] \in Batch
      /\ faults \in 0 .. MaxFaults /\ uploads[k].files \in {0, Files}
      /\ uploads[k] = [files |-> uploads[k].files, message |-> uploads[k].message]
      /\ op[k].sandbox \in 0 .. MaxSandbox
      /\ uploads = [uploads EXCEPT ![k] = uploads[k]] /\ staging = [staging EXCEPT ![k] = staging[k]]
      /\ 0 \in 0 .. Files /\ Files \in Nat \ {0}
  BY Unpacked
<1>2. /\ box[k].at = "stage" /\ UNCHANGED <<managerVars, sandboxVars, sender, left, crashes>>
      /\ UNCHANGED <<spool, file, uploads, stored, faults>>
  BY DEF CheckoutStages, InBox
<1>3. CASE uploads[k].files > 0
  <2>1. uploads[k].files = Files
    BY <1>1, <1>3
  <2>2. PICK at \in {"ok", "error"} :
          /\ at = "ok" => uploads[k].message = op[k].message
          /\ box' = [box EXCEPT ![k] = [at |-> at, v |-> None]] /\ staging' = staging
    BY <1>3 DEF CheckoutStages, Put
  <2>3. [at |-> at, v |-> None] \in Box
    BY BoxMade
  <2> DEFINE b == [at |-> at, v |-> None]
  <2>4. b \in Box /\ b.at = at /\ box' = [box EXCEPT ![k] = b]
    BY <2>2, <2>3
  <2> HIDE DEF b
  <2>5. at = "ok" => uploads[k] = [files |-> Files, message |-> op[k].message]
    BY <1>1, <2>1, <2>2
  <2>6. b.at \in CheckingOut \cup {"ok", "error"} /\ b.at # "download" /\ b.at # "rename"
    BY <2>2, <2>4
  <2>7. b.at = "ok" => uploads[k] = [files |-> Files, message |-> op[k].message]
    BY <2>4, <2>5
  <2> QED BY <1>1, <1>2, <2>2, <2>4, <2>6, <2>7, CheckoutBoxKeeps DEF CheckingOut
<1>4. CASE ~(uploads[k].files > 0)
  <2> DEFINE b == [at |-> "download", v |-> op[k].sandbox]
  <2>1. b \in Box /\ b.at = "download"
    BY <1>1, BoxMade DEF Busy, CheckingOut
  <2>2. box' = [box EXCEPT ![k] = b] /\ staging' = [staging EXCEPT ![k] = 0]
    BY <1>4 DEF CheckoutStages, Put
  <2> HIDE DEF b
  <2>3. 0 < Files
    BY <1>1
  <2> QED BY <1>1, <1>2, <2>1, <2>2, <2>3, CheckoutBoxKeeps DEF CheckingOut
<1> QED BY <1>3, <1>4

LEMMA DownloadKeeps ==
  ASSUME FileAssumption, Inv, NEW k \in Checkout, CheckoutDownloads(k)
  PROVE  Inv'
<1>1. /\ TypeOK /\ k \in Key /\ staging[k] \in 0 .. Files /\ uploads[k] \in Batch
      /\ box[k] \in Box /\ BatchIsWhole(k)
      /\ faults \in 0 .. MaxFaults /\ uploads[k].files \in {0, Files}
      /\ uploads = [uploads EXCEPT ![k] = uploads[k]]
      /\ 0 \in 0 .. Files /\ Files \in Nat \ {0}
  BY Unpacked
<1>2. /\ box[k].at = "download" /\ UNCHANGED <<managerVars, sandboxVars, sender, left, crashes>>
      /\ UNCHANGED <<spool, file, uploads, stored>> /\ faults' \in 0 .. MaxFaults
  BY <1>1, FileAssumption DEF CheckoutDownloads, InBox, Fault, FileAssumption
<1>3. staging[k] < Files
  BY <1>1, <1>2 DEF BatchIsWhole
<1>4. CASE Put(k, "error", None) /\ staging' = [staging EXCEPT ![k] = 0]
  <2> DEFINE b == [at |-> "error", v |-> None]
  <2>1. b \in Box /\ b.at = "error" /\ box' = [box EXCEPT ![k] = b]
    BY <1>4, BoxMade DEF Put
  <2> HIDE DEF b
  <2> QED BY <1>1, <1>2, <1>4, <2>1, CheckoutBoxKeeps DEF CheckingOut
<1>5. CASE /\ staging' = [staging EXCEPT ![k] = @ + 1]
           /\ Put(k, IF staging[k] + 1 = Files THEN "rename" ELSE "download", box[k].v)
  <2> DEFINE next == IF staging[k] + 1 = Files THEN "rename" ELSE "download"
             b == [at |-> next, v |-> box[k].v]
             n == staging[k] + 1
  <2>1. b \in Box /\ b.at = next
    BY <1>1 DEF Box, CheckingOut
  <2>2. box' = [box EXCEPT ![k] = b] /\ staging' = [staging EXCEPT ![k] = n]
    BY <1>5 DEF Put
  <2>3. n \in 0 .. Files /\ (next = "rename" => n = Files) /\ (next = "download" => n < Files)
    BY <1>1, <1>3
  <2>4. next \in {"rename", "download"}
    OBVIOUS
  <2> HIDE DEF b, n, next
  <2>5. /\ b.at \in CheckingOut \cup {"ok", "error"} /\ b.at # "ok"
        /\ (b.at = "rename" => n = Files) /\ (b.at = "download" => n < Files)
    BY <2>1, <2>3, <2>4 DEF CheckingOut
  <2> QED BY <1>1, <1>2, <2>1, <2>2, <2>3, <2>5, CheckoutBoxKeeps DEF CheckingOut
<1> QED BY <1>4, <1>5 DEF CheckoutDownloads

(* The files appear together, by the rename of the directory.              *)
LEMMA RenameKeeps ==
  ASSUME FileAssumption, Inv, NEW k \in Checkout, CheckoutRenames(k)
  PROVE  Inv'
<1> DEFINE u == [files |-> staging[k], message |-> op[k].message]
           b == [at |-> "ok", v |-> None]
<1>1. /\ TypeOK /\ k \in Key /\ staging[k] \in 0 .. Files /\ BatchIsWhole(k)
      /\ faults \in 0 .. MaxFaults /\ op[k].message \in Message \cup {None}
      /\ 0 \in 0 .. Files /\ Files \in 0 .. Files
  BY Unpacked
<1>2. /\ box[k].at = "rename" /\ UNCHANGED <<managerVars, sandboxVars, sender, left, crashes>>
      /\ UNCHANGED <<spool, file, stored, faults>>
      /\ box' = [box EXCEPT ![k] = b] /\ staging' = [staging EXCEPT ![k] = 0]
      /\ uploads' = [uploads EXCEPT ![k] = u]
  BY DEF CheckoutRenames, InBox, Put
<1>3. b \in Box /\ b.at = "ok"
  BY BoxMade
<1>4. staging[k] = Files
  BY <1>1, <1>2 DEF BatchIsWhole
<1>5. u \in Batch /\ u.files = Files /\ u = [files |-> Files, message |-> op[k].message]
  BY <1>1, <1>4 DEF Batch
<1> HIDE DEF u, b
<1> QED BY <1>1, <1>2, <1>3, <1>5, CheckoutBoxKeeps DEF CheckingOut

-----------------------------------------------------------------------------
(* Steps that touch no key: sandboxes, storage operations, stuttering.     *)
LEMMA QuietKeeps ==
  ASSUME FileAssumption, Inv, UNCHANGED <<up, op, task, boxVars, spool, volumeVars, stored, faults, crashes>>,
         writer' \in 0 .. MaxSandbox, last' \in 0 .. MaxSandbox,
         lock' = lock \/ {lock, lock'} = {"free", "storage"}
  PROVE  Inv'
<1>1. TypeOK /\ LockIsHeld /\ StoredWhole /\ \A k \in Key : Of(k)
  BY DEF Inv
<1>2. /\ op' = op /\ task' = task /\ box' = box /\ spool' = spool /\ file' = file /\ up' = up
      /\ staging' = staging /\ uploads' = uploads /\ stored' = stored
      /\ sender' = sender /\ left' = left
  BY DEF volumeVars, boxVars
<1>3. ASSUME NEW k \in Key PROVE Of(k)'
  <2>1. Paired(k)' /\ Recorded(k)' /\ Working(k)'
    BY <1>1, <1>2 DEF Of, Paired, Recorded, Working
  <2>2. k \in Publish => CopyIsWhole(k)'
    BY <1>1, <1>2 DEF Of, CopyIsWhole, IsCopy, Committed
  <2>3. k \in Publish => CopyIsSent(k)'
    BY <1>1, <1>2 DEF Of, CopyIsSent, Sent, IsCopy, Committed
  <2>4. k \in Checkout => BatchIsWhole(k)'
    BY <1>1, <1>2 DEF Of, BatchIsWhole, Whole
  <2> QED BY <2>1, <2>2, <2>3, <2>4 DEF Of
<1>4. lock' \in Key \cup {"free", "storage"}
  BY <1>1 DEF TypeOK
<1>5. TypeOK' /\ StoredWhole'
  BY <1>1, <1>2, <1>4 DEF TypeOK, StoredWhole
<1>6. LockIsHeld'
  BY <1>1, <1>2, FileAssumption DEF LockIsHeld, FileAssumption
<1> QED BY <1>3, <1>5, <1>6 DEF Inv

LEMMA SandboxKeeps ==
  ASSUME FileAssumption, Inv, NewSandbox \/ EndSandbox
  PROVE  Inv'
<1>1. /\ UNCHANGED <<up, op, task, boxVars, spool, volumeVars, stored, faults, crashes>> /\ lock' = lock
  BY DEF NewSandbox, EndSandbox, managerVars
<1>2. writer' \in 0 .. MaxSandbox /\ last' \in 0 .. MaxSandbox
  BY FileAssumption DEF NewSandbox, EndSandbox, Inv, TypeOK, None, FileAssumption
<1> QED BY <1>1, <1>2, QuietKeeps

LEMMA StorageKeeps ==
  ASSUME FileAssumption, Inv, StorageLocks \/ StorageUnlocks
  PROVE  Inv'
<1>1. UNCHANGED <<up, op, task, boxVars, spool, volumeVars, stored, faults, crashes>>
      /\ {lock, lock'} = {"free", "storage"}
  BY DEF StorageLocks, StorageUnlocks, LockFree
<1>2. writer' \in 0 .. MaxSandbox /\ last' \in 0 .. MaxSandbox
  BY DEF StorageLocks, StorageUnlocks, sandboxVars, Inv, TypeOK
<1> QED BY <1>1, <1>2, QuietKeeps

\* The agent may write at any moment: versions only grow.
LEMMA AgentKeeps ==
  ASSUME FileAssumption, Inv, NEW k \in Publish, AgentWrites(k)
  PROVE  Inv'
<1>1. /\ TypeOK /\ LockIsHeld /\ StoredWhole /\ Of(k) /\ k \in Key /\ k \notin Checkout
      /\ file[k] \in Version /\ spool[k] \in Spool /\ box[k] \in Box
      /\ spool[k].content \in 0 .. Torn /\ op[k].cap \in Version \cup {None, Torn}
      /\ Version \subseteq Nat \ {0} /\ Torn \notin Version
  BY Found, FileAssumption DEF Inv, Key, FileAssumption
<1>2. /\ UNCHANGED <<managerVars, sandboxVars, boxVars, spool, staging, uploads, stored, faults, crashes>>
      /\ file' = [file EXCEPT ![k] = @ + 1] /\ file[k] < MaxVersion
  BY DEF AgentWrites
<1>3. file[k] + 1 \in Version
  BY <1>1, <1>2, FileAssumption DEF Version, FileAssumption
<1>4. file' \in [Publish -> Version] /\ file'[k] = file[k] + 1 /\ \A j \in Publish \ {k} : file'[j] = file[j]
  BY <1>1, <1>2, <1>3 DEF TypeOK
<1>5. /\ op' = op /\ task' = task /\ up' = up /\ lock' = lock /\ box' = box /\ sender' = sender /\ left' = left
      /\ spool' = spool /\ stored' = stored
  BY <1>2 DEF managerVars, boxVars
<1>6. TypeOK' /\ StoredWhole' /\ LockIsHeld'
  BY <1>1, <1>2, <1>4, <1>5 DEF TypeOK, StoredWhole, LockIsHeld, sandboxVars
<1>7. Local(k)
  BY <1>2, <1>4, <1>5 DEF Local
<1>8. Paired(k)' /\ Recorded(k)' /\ Working(k)'
  BY <1>1, <1>2, <1>5 DEF Of, Paired, Recorded, Working
<1>9. CopyIsWhole(k)'
  <2>0. Torn \in Nat /\ None \in Nat
    BY FileAssumption DEF None, Torn, FileAssumption
  <2>1. file[k] \in Nat /\ spool[k].content \in Nat /\ op[k].cap \in Nat
    <3>1. spool[k].content \in Nat
      BY <1>1, <2>0
    <3>2. file[k] \in Nat
      BY <1>1
    <3>3. op[k].cap \in Version \cup {None, Torn}
      BY <1>1
    <3>4. op[k].cap \in Nat
      BY <1>1, <2>0, <3>3, Zenon
    <3> QED BY <3>1, <3>2, <3>4
  <2>2. \A v \in Nat : v <= file[k] => v <= file[k] + 1
    BY <2>1
  <2>3. \A v \in Version : v \in Nat
    BY <1>1
  <2> QED BY <1>1, <1>2, <1>4, <1>5, <2>1, <2>2, <2>3 DEF Of, CopyIsWhole, IsCopy, Committed
<1>10. CopyIsSent(k)'
  BY <1>1, <1>2, <1>5 DEF Of, CopyIsSent, Sent, IsCopy, Committed
<1> QED BY <1>1, <1>6, <1>7, <1>8, <1>9, <1>10, StepKeeps DEF Of

-----------------------------------------------------------------------------
(* The task goes, row and container stay: what ties these two needs no task. *)
LEMMA CrashKeeps ==
  ASSUME FileAssumption, Inv, Crash
  PROVE  Inv'
<1>1. TypeOK /\ LockIsHeld /\ StoredWhole /\ \A k \in Key : Of(k)
  BY DEF Inv
<1>2. /\ op' = op /\ box' = box /\ spool' = spool /\ file' = file /\ up' = FALSE
      /\ staging' = staging /\ uploads' = uploads /\ stored' = stored /\ lock' = "free"
      /\ \A k \in Key : task'[k].at = "idle"
      /\ sender' = sender /\ left' = left
  BY DEF Crash, volumeVars, boxVars, Idle
<1>3. Idle \in Task
  BY NothingBoxed
<1>4. TypeOK'
  <2>1. task' \in [Key -> Task] /\ crashes' \in 0 .. MaxCrashes
    BY <1>1, <1>3, FileAssumption DEF TypeOK, Crash, FileAssumption
  <2> QED BY <1>1, <1>2, <2>1 DEF TypeOK, Crash, sandboxVars
<1>5. StoredWhole' /\ LockIsHeld'
  BY <1>1, <1>2, FileAssumption DEF StoredWhole, LockIsHeld, Holding, FileAssumption
<1>6. ASSUME NEW k \in Key PROVE Of(k)'
  <2>1. Paired(k)' /\ Recorded(k)' /\ Working(k)'
    BY <1>1, <1>2 DEF Of, Paired, Recorded, Working
  <2>2. k \in Publish => CopyIsWhole(k)'
    BY <1>1, <1>2 DEF Of, CopyIsWhole, IsCopy, Committed
  <2>3. k \in Publish => CopyIsSent(k)'
    BY <1>1, <1>2 DEF Of, CopyIsSent, Sent, IsCopy, Committed
  <2>4. k \in Checkout => BatchIsWhole(k)'
    BY <1>1, <1>2 DEF Of, BatchIsWhole, Whole
  <2> QED BY <2>1, <2>2, <2>3, <2>4 DEF Of
<1> QED BY <1>4, <1>5, <1>6 DEF Inv

(* Startup finds no task, removes the containers and settles the rows.     *)
LEMMA StartupKeeps ==
  ASSUME FileAssumption, Inv, Startup
  PROVE  Inv'
<1>1. TypeOK /\ LockIsHeld /\ StoredWhole /\ \A k \in Key : Of(k)
  BY DEF Inv
<1>2. /\ task' = task /\ spool' = spool /\ file' = file /\ ~up /\ up' = TRUE
      /\ staging' = staging /\ uploads' = uploads /\ stored' = stored /\ lock' = lock
      /\ \A k \in Key : box'[k] = NoBox /\ op'[k] = Recovered(k)
      /\ \A p \in Publish : sender'[p] = NoBox
      /\ left' = {}
  BY DEF Startup, volumeVars
<1>3. ASSUME NEW k \in Key
      PROVE  /\ Recovered(k) \in OpRow /\ Recovered(k).cap = op[k].cap
             /\ Recovered(k).target = op[k].target /\ Recovered(k).message = op[k].message
             /\ Recovered(k).status = "succeeded" => op[k].status = "succeeded"
             /\ op[k].cap = None => Recovered(k).phase = op[k].phase
  BY <1>1, RowTypes DEF Recovered, OpRow
<1>4. TypeOK'
  BY <1>1, <1>2, <1>3, NothingBoxed DEF TypeOK, Startup, sandboxVars
<1>5. StoredWhole' /\ LockIsHeld'
  BY <1>1, <1>2 DEF StoredWhole, LockIsHeld
<1>6. ASSUME NEW k \in Key PROVE Of(k)'
  <2>1. task[k].at = "idle" /\ NoBox.at = "none"
    BY <1>1, <1>2 DEF Of, Paired, NoBox
  <2>2. Paired(k)' /\ Recorded(k)' /\ Working(k)'
    BY <1>1, <1>2, <1>3, <2>1 DEF Of, Paired, Recorded, Working, Busy, Capturing, Uploading, CheckingOut
  <2>3. k \in Publish => CopyIsWhole(k)'
    BY <1>1, <1>2, <1>3, <2>1 DEF Of, CopyIsWhole, IsCopy, Committed, Capturing
  <2>4. ASSUME k \in Publish PROVE CopyIsSent(k)'
    <3>1. sender'[k].at = "none" /\ op'[k] = Recovered(k) /\ task'[k].at = "idle" /\ spool'[k] = spool[k]
      BY <1>2, <2>1, <2>4
    <3>2. CopyIsSent(k) /\ stored' = stored
      BY <1>1, <1>2, <2>4 DEF Of
    <3> QED BY <1>3, <3>1, <3>2 DEF CopyIsSent, Sent, IsCopy, Committed, Uploading
  <2>5. k \in Checkout => BatchIsWhole(k)'
    BY <1>1, <1>2, <1>3, <2>1 DEF Of, BatchIsWhole, Whole
  <2> QED BY <2>2, <2>3, <2>4, <2>5 DEF Of
<1> QED BY <1>4, <1>5, <1>6 DEF Inv

-----------------------------------------------------------------------------
LEMMA NextInv ==
  ASSUME FileAssumption, Inv, [Next]_vars
  PROVE  Inv'
<1>1. ASSUME NEW k \in Publish, RequestPublish(k) \/ RequestCapture(k) PROVE Inv'
  <2>1. PICK m \in Message, a \in Artifact \cup {None} : CreateOperation(k, m, a)
    BY <1>1 DEF RequestPublish, RequestCapture
  <2> QED BY <2>1, CreateKeeps DEF Key
<1>2. ASSUME NEW k \in Checkout, RequestCheckout(k) PROVE Inv'
  <2>1. PICK m \in Message : CreateOperation(k, m, None)
    BY <1>2 DEF RequestCheckout
  <2> QED BY <2>1, CreateKeeps DEF Key
<1>3. ASSUME NEW k \in Key, Execute(k) \/ TakeLock(k) \/ TimesOut(k) PROVE Inv'
  BY <1>3, StartKeeps, CapturedKeeps, SuccessKeeps, TimeoutKeeps, LockKeeps DEF Execute
<1>4. ASSUME NEW k \in Publish, ContainerRuns(k) PROVE Inv'
  <2>1. k \notin Checkout
    BY FileAssumption DEF FileAssumption
  <2> QED BY <1>4, <2>1, CheckKeeps, OpenKeeps, CopyKeeps, InstallKeeps, ManifestKeeps,
             CommitKeeps, VerifyKeeps, PutKeeps, CleanKeeps DEF ContainerRuns
<1>5. ASSUME NEW k \in Checkout, ContainerRuns(k) PROVE Inv'
  <2>1. k \notin Publish
    BY FileAssumption DEF FileAssumption
  <2> QED BY <1>5, <2>1, StageKeeps, DownloadKeeps, RenameKeeps DEF ContainerRuns
<1>6. CASE UNCHANGED vars
  BY <1>6, QuietKeeps DEF vars, managerVars, sandboxVars, boxVars, Inv, TypeOK
<1> QED BY <1>1, <1>2, <1>3, <1>4, <1>5, <1>6, AgentKeeps, SandboxKeeps, StorageKeeps,
           CrashKeeps, StartupKeeps DEF Next, Key

LEMMA InvHolds == ASSUME FileAssumption PROVE Spec => []Inv
BY InitInv, NextInv, PTL DEF Spec

\* The lock keeps containers apart: two that write would both hold it.
Writing == {k \in Key \ left : box[k].at \in Capturing \cup CheckingOut}

LEMMA ContainersApart == ASSUME FileAssumption, Inv PROVE OneContainerPerVolume
<1>1. ASSUME up, NEW k \in Writing PROVE k \in Key /\ lock = k
  <2>0. k \in Key /\ k \notin left /\ box[k].at \in Capturing \cup CheckingOut
    BY DEF Writing
  <2>1. TypeOK /\ LockIsHeld /\ Paired(k) /\ task[k] \in Task
    BY <2>0, RowTypes DEF Inv, Of
  <2>2. task[k].at \in {"idle", "new", "lock", "capture", "upload", "checkout", "refused", "unsent"}
    BY <2>1 DEF Task
  <2>3. task[k].at \in Holding
    BY <1>1, <2>0, <2>1, <2>2 DEF Paired, Holding, Capturing, CheckingOut
  <2> QED BY <2>0, <2>1, <2>3 DEF LockIsHeld
<1>2. ASSUME up PROVE Cardinality(Writing) <= 1
  <2>1. Writing = {} \/ \E k : Writing = {k}
    BY <1>1, <1>2
  <2>2. CASE Writing = {}
    BY <2>2, FS_EmptySet
  <2>3. CASE \E k : Writing = {k}
    <3>1. PICK k : Writing = {k}
      BY <2>3
    <3>2. Cardinality({k}) = 1
      BY FS_Singleton
    <3> QED BY <3>1, <3>2
  <2> QED BY <2>1, <2>2, <2>3
<1> QED BY <1>2 DEF OneContainerPerVolume, Writing

(* What is reported is there and whole, and no container meets another     *)
(* (_execute_file_operation, _publish_file, _recover_incomplete_operations). *)
THEOREM FilesConsistent == ASSUME FileAssumption PROVE Spec => []FileInvariant
<1>1. Inv => FileInvariant
  <2> SUFFICES ASSUME Inv PROVE FileInvariant
    OBVIOUS
  <2>1. /\ \A k \in Publish : k \in Key /\ CopyIsWhole(k) /\ CopyIsSent(k) /\ Working(k)
        /\ \A k \in Checkout : k \in Key /\ BatchIsWhole(k)
    BY DEF Inv, Of, Key
  <2>2. NoTornCopy
    BY <2>1 DEF NoTornCopy, CopyIsWhole, Working, Inv, StoredWhole
  <2>3. SucceededIsThere
    BY <2>1 DEF SucceededIsThere, CopyIsSent, Sent, BatchIsWhole, Whole
  <2> QED BY <2>2, <2>3, ContainersApart DEF FileInvariant, Inv
<1> QED BY <1>1, InvHolds, PTL

(* A captured file survives until an Artifact has it (storage_ops capture, *)
(* upload_capture): the copy goes after the answer of the service only.    *)
THEOREM CapturedFilesSurvive == ASSUME FileAssumption PROVE Spec => []StableCopyIsKept
<1>1. Inv => StableCopyIsKept
  BY DEF Inv, Of, Key, CopyIsSent, IsCopy, Committed, CopyIsWhole, StableCopyIsKept, HasCopy
<1> QED BY <1>1, InvHolds, PTL

(* The agent sees all the attachments of a message or none (checkout_batch), *)
(* also when a container is killed between two files.                      *)
THEOREM CheckoutsAreAtomic == ASSUME FileAssumption PROVE Spec => []AllOrNothing
<1>1. Inv => AllOrNothing
  BY DEF Inv, Of, Key, BatchIsWhole, AllOrNothing
<1> QED BY <1>1, InvHolds, PTL
=============================================================================
