----------------------------- MODULE EventStream -----------------------------
(***************************************************************************)
(* One turn as it travels from the Codex process to the Adapter: the       *)
(* session of the Sandbox Worker reads the process's output and queues     *)
(* notifications, a pump publishes them in a bounded event log, server     *)
(* requests (questions to the user) are published by tasks of their own,   *)
(* and the driver of the Adapter follows the log over HTTP from a cursor,  *)
(* reconnecting when the stream breaks.                                    *)
(*                                                                         *)
(* The notifications of the turn are numbered as Codex writes them; those  *)
(* of other turns, which the driver skips, are left out.                   *)
(***************************************************************************)
EXTENDS Naturals, Sequences

CONSTANTS Request,      \* the server requests Codex may make
          Elicitation,  \* those the Worker passes on; it rejects the others
          Rpc,          \* calls to the process
          MaxHistory,   \* max_event_history: the length of the log
          MaxSent,      \* bound: notifications of the turn
          MaxDrops,     \* bound: broken connections
          Faults,       \* bound: what may go wrong
          None

ASSUME StreamAssumption ==
    /\ Elicitation \subseteq Request
    /\ MaxHistory \in Nat \ {0}
    /\ MaxSent \in Nat /\ MaxDrops \in Nat
    /\ None \notin Nat

VARIABLES
    proc,       \* the Codex process: "running" or "dead"
    sent,       \* notifications of the turn it has written
    complete,   \* the last of them was turn/completed
    pipe,       \* its output, not yet read
    reader,     \* _read_stdout: "reading", "broken" by an exception,
                \* "done", or "failed" after it was broken
    rpc,        \* _pending and the results of calls
    queue,      \* _notifications, "closed" being the $session/closed mark
    pump,       \* the task _pump_notifications runs
    req,        \* server requests; "waiting" is an entry of _pending_server_requests
    log,        \* EventLog._events
    nextId,     \* EventLog._next_id
    closed,     \* EventLog._closed
    up,         \* the Worker serves requests and the sandbox is running
    conn,       \* the event stream: what was sent and not yet handled
    dr,         \* the driver: pc, event_cursor, why it ended
    handled,    \* the notifications the builder has consumed
    abort,      \* cancel_requested, or lease_error, of the execution
    drops       \* broken connections so far

procVars == <<proc, sent, complete>>
sessionVars == <<pipe, reader, rpc, queue>>
workerVars == <<pump, req, log, nextId, closed, up>>
driverVars == <<conn, dr, handled, abort, drops>>
vars == <<procVars, sessionVars, workerVars, driverVars>>

Messages == [kind : {"note"}, of : Nat] \cup [kind : {"closed"}, of : {None}]
                \cup [kind : {"request"}, of : Request] \cup [kind : {"answer"}, of : Rpc]
Note(n) == [kind |-> "note", of |-> n]
Ask(r) == [kind |-> "request", of |-> r]
Answer(c) == [kind |-> "answer", of |-> c]
Closed == [kind |-> "closed", of |-> None]

Events == [id : Nat, kind : {"note", "request", "session_failed"},
           of : Nat \cup Request \cup {None}]

TypeOK ==
    /\ proc \in {"running", "dead"} /\ sent \in 0 .. MaxSent /\ complete \in BOOLEAN
    /\ pipe \in Seq(Messages) /\ queue \in Seq(Messages)
    /\ reader \in {"reading", "broken", "done", "failed"}
    /\ rpc \in [Rpc -> {"none", "pending", "ok", "failed"}]
    /\ pump \in BOOLEAN /\ closed \in BOOLEAN /\ up \in BOOLEAN
    /\ req \in [Request -> {"none", "sent", "task", "waiting", "answered", "rejected"}]
    /\ log \in Seq(Events) /\ Len(log) <= MaxHistory /\ nextId \in Nat
    /\ conn \in [buf : Seq(Events), at : Nat \cup {None}]
    /\ dr \in [pc : {"connect", "reading", "asking", "retry", "done", "failed"},
               cursor : Nat, why : {"none", "gap", "session_failed", "lease", "cancelled",
                                    "sandbox", "timeout"}]
    /\ handled \in Seq(Nat) /\ abort \in {"no", "cancel", "lease"} /\ drops \in 0 .. MaxDrops

\* Ids start at 1 here and at 0 in the code; the cursor of the driver is the
\* last_event_id the Worker reported before the turn started.
Init ==
    /\ proc = "running" /\ sent = 0 /\ complete = FALSE
    /\ pipe = <<>> /\ reader = "reading" /\ queue = <<>>
    /\ rpc = [c \in Rpc |-> "none"]
    /\ pump = TRUE /\ req = [r \in Request |-> "none"]
    /\ log = <<>> /\ nextId = 1 /\ closed = FALSE /\ up = TRUE
    /\ conn = [buf |-> <<>>, at |-> None]
    /\ dr = [pc |-> "connect", cursor |-> 0, why |-> "none"]
    /\ handled = <<>> /\ abort = "no" /\ drops = 0

-----------------------------------------------------------------------------
(* The Codex process.                                                      *)

EmitNote(last) ==
    /\ proc = "running" /\ ~complete /\ sent < MaxSent
    /\ sent' = sent + 1 /\ complete' = last
    /\ pipe' = Append(pipe, Note(sent + 1))
    /\ UNCHANGED <<proc, reader, rpc, queue, workerVars, driverVars>>

EmitRequest(r) ==
    /\ proc = "running" /\ req[r] = "none"
    /\ req' = [req EXCEPT ![r] = "sent"]
    /\ pipe' = Append(pipe, Ask(r))
    /\ UNCHANGED <<procVars, reader, rpc, queue, pump, log, nextId, closed, up, driverVars>>

EmitAnswer(c) ==
    /\ proc = "running" /\ rpc[c] = "pending" /\ \A i \in DOMAIN pipe : pipe[i] # Answer(c)
    /\ pipe' = Append(pipe, Answer(c))
    /\ UNCHANGED <<procVars, reader, rpc, queue, workerVars, driverVars>>

Exit ==
    /\ "exit" \in Faults /\ proc = "running"
    /\ proc' = "dead"
    /\ UNCHANGED <<sent, complete, sessionVars, workerVars, driverVars>>

-----------------------------------------------------------------------------
(* CodexAppServerSession.                                                  *)

\* request(): a write to a dead process fails.
CallRpc(c) ==
    /\ up /\ rpc[c] = "none"
    /\ rpc' = [rpc EXCEPT ![c] = IF proc = "running" THEN "pending" ELSE "failed"]
    /\ UNCHANGED <<procVars, pipe, reader, queue, workerVars, driverVars>>

\* The timeout of request(); the late answer finds no entry and is ignored.
RpcTimesOut(c) ==
    /\ "timeout" \in Faults /\ rpc[c] = "pending"
    /\ rpc' = [rpc EXCEPT ![c] = "failed"]
    /\ UNCHANGED <<procVars, pipe, reader, queue, workerVars, driverVars>>

\* _read_stdout takes a line and _dispatch sorts it.
ReadStdout ==
    /\ reader = "reading" /\ up /\ pipe # <<>>
    /\ LET message == Head(pipe) IN
        /\ queue' = IF message.kind = "note" THEN Append(queue, message) ELSE queue
        /\ req' = IF message.kind = "request" THEN [req EXCEPT ![message.of] = "task"] ELSE req
        /\ rpc' = IF message.kind = "answer" /\ rpc[message.of] = "pending"
                    THEN [rpc EXCEPT ![message.of] = "ok"] ELSE rpc
    /\ pipe' = Tail(pipe)
    /\ UNCHANGED <<procVars, reader, pump, log, nextId, closed, up, driverVars>>

\* readline() raises (a line longer than the stream's limit): the session is
\* reported closed at once, the calls in progress wait for the process.
ReaderBreaks ==
    /\ "long_line" \in Faults /\ reader = "reading" /\ up /\ pipe # <<>>
    /\ reader' = "broken" /\ pipe' = <<>>
    /\ queue' = Append(queue, Closed)
    /\ UNCHANGED <<procVars, rpc, workerVars, driverVars>>

\* Deviation: the calls in progress are left to their timeout.
KeepPending == rpc

FailPending == [c \in Rpc |-> IF rpc[c] = "pending" THEN "failed" ELSE rpc[c]]

\* The finally clause of _read_stdout, after the end of the output.
ReaderEnds ==
    /\ up /\ proc = "dead"
    /\ \/ reader = "reading" /\ pipe = <<>> /\ reader' = "done"
       \/ reader = "broken" /\ reader' = "failed"
    /\ rpc' = FailPending
    /\ queue' = Append(queue, Closed)
    /\ UNCHANGED <<procVars, pipe, workerVars, driverVars>>

-----------------------------------------------------------------------------
(* WorkerRuntime and EventLog.                                             *)

\* EventLog.publish: the deque drops its oldest event when it is full.
Published(kind, of) ==
    LET full == Append(log, [id |-> nextId, kind |-> kind, of |-> of])
    IN  /\ log' = IF Len(full) > MaxHistory THEN Tail(full) ELSE full
        /\ nextId' = nextId + 1

PumpNotification ==
    /\ pump /\ queue # <<>> /\ Head(queue) # Closed
    /\ Published(Head(queue).kind, Head(queue).of)
    /\ queue' = Tail(queue)
    /\ UNCHANGED <<procVars, pipe, reader, rpc, pump, req, closed, up, driverVars>>

PumpFails ==
    /\ pump /\ queue # <<>> /\ Head(queue) = Closed
    /\ Published("session_failed", None)
    /\ pump' = FALSE /\ closed' = TRUE
    /\ queue' = Tail(queue)
    /\ UNCHANGED <<procVars, pipe, reader, rpc, req, up, driverVars>>

\* The task of a server request writes the result or the error to Codex.
Reply(r, how) == req' = [req EXCEPT ![r] = how]

\* _handle_server_request publishes an elicitation and waits for its future.
PublishRequest(r) ==
    /\ up /\ req[r] = "task"
    /\ IF r \in Elicitation
         THEN /\ Published("request", r)
              /\ req' = [req EXCEPT ![r] = "waiting"]
         ELSE /\ Reply(r, "rejected")
              /\ UNCHANGED <<log, nextId>>
    /\ UNCHANGED <<procVars, sessionVars, pump, closed, up, driverVars>>

RequestTimesOut(r) ==
    /\ "timeout" \in Faults /\ up /\ req[r] = "waiting"
    /\ Reply(r, "rejected")
    /\ UNCHANGED <<procVars, sessionVars, pump, log, nextId, closed, up, driverVars>>

\* The container is stopped: close() fails what waits, cancels the pump and
\* the session and closes the log.
WorkerCloses ==
    /\ "close" \in Faults /\ up
    /\ up' = FALSE /\ pump' = FALSE /\ closed' = TRUE /\ proc' = "dead"
    /\ rpc' = FailPending
    /\ req' = [r \in Request |-> IF req[r] \in {"task", "waiting"} THEN "rejected" ELSE req[r]]
    /\ UNCHANGED <<sent, complete, pipe, reader, queue, log, nextId, driverVars>>

-----------------------------------------------------------------------------
(* The stream and the driver of the Adapter.                               *)

Active == dr.pc \notin {"done", "failed"}
Drive(pc) == dr' = [dr EXCEPT !.pc = pc]
Fail(why) == dr' = [dr EXCEPT !.pc = "failed", !.why = why]
NoStream == [buf |-> <<>>, at |-> None]
\* The events whose id is greater: ids ascend, so they are the end of the log.
Newer(id) ==
    LET first == CHOOSE i \in 1 .. Len(log) + 1 :
                    \A j \in DOMAIN log : log[j].id > id <=> i <= j
    IN  SubSeq(log, first, Len(log))
\* Deviation: off by one.
AfterNext(cursor) == Newer(cursor + 1)
After(cursor) == Newer(cursor)

Connect ==
    /\ dr.pc = "connect"
    /\ IF up THEN /\ conn' = [buf |-> <<>>, at |-> dr.cursor]
                  /\ Drive("reading")
             ELSE /\ conn' = NoStream /\ Drive("retry")
    /\ UNCHANGED <<procVars, sessionVars, workerVars, handled, abort, drops>>

\* event_stream: what the log still has after the position of the stream.
StreamReads ==
    /\ Active /\ conn.at # None /\ After(conn.at) # <<>>
    /\ conn' = [buf |-> conn.buf \o After(conn.at), at |-> nextId - 1]
    /\ UNCHANGED <<procVars, sessionVars, workerVars, dr, handled, abort, drops>>

\* The stream of a closed log ends; a connection may break at any time.
StreamEnds ==
    /\ dr.pc = "reading"
    /\ \/ /\ closed /\ conn.buf = <<>> /\ After(conn.at) = <<>>
          /\ UNCHANGED drops
       \/ /\ drops < MaxDrops
          /\ drops' = drops + 1
    /\ conn' = NoStream /\ Drive("retry")
    /\ UNCHANGED <<procVars, sessionVars, workerVars, handled, abort>>

\* Deviations: gaps are not looked for, or every event is one.
NoGap(e) == FALSE
AnyGap(e) == e.id > dr.cursor
IsGap(e) == e.id > dr.cursor + 1

Skip == [buf |-> Tail(conn.buf), at |-> conn.at]

\* The body of the loop of _drive up to its first await; leaving it closes the
\* stream.
HandleEvent ==
    /\ dr.pc = "reading" /\ conn.buf # <<>>
    /\ LET e == Head(conn.buf) IN
        \/ /\ abort = "lease"
           /\ Fail("lease")
           /\ conn' = NoStream /\ UNCHANGED handled
        \/ /\ abort # "lease" /\ IsGap(e)
           /\ Fail("gap")
           /\ conn' = NoStream /\ UNCHANGED handled
        \/ /\ abort # "lease" /\ ~IsGap(e) /\ e.kind = "session_failed"
           /\ Fail("session_failed")
           /\ conn' = NoStream /\ UNCHANGED handled
        \/ /\ abort # "lease" /\ ~IsGap(e) /\ e.kind = "request"
           /\ Drive("asking")
           /\ UNCHANGED <<conn, handled>>
        \/ /\ abort # "lease" /\ ~IsGap(e) /\ e.kind = "note"
           /\ handled' = Append(handled, e.of)
           /\ LET last == complete /\ e.of = sent IN
                /\ dr' = [dr EXCEPT !.cursor = e.id, !.pc = IF last THEN "done" ELSE "reading"]
                /\ conn' = IF last THEN NoStream ELSE Skip
    /\ UNCHANGED <<procVars, sessionVars, workerVars, abort, drops>>

\* resolve_server_request of the Worker raises unless the future is waiting.
Accepts(r) == up /\ req[r] = "waiting"

\* The user has answered, or the interaction has expired, and the Adapter
\* calls the Worker.  A request nobody waits for any more is an upstream error;
\* so is a reply that is lost on its way back.
ResolveRequest ==
    /\ dr.pc = "asking"
    /\ LET r == Head(conn.buf).of
           accepted == Accepts(r)
       IN  /\ IF accepted THEN Reply(r, "answered") ELSE UNCHANGED req
           /\ \/ /\ accepted
                 /\ dr' = [dr EXCEPT !.pc = "reading", !.cursor = Head(conn.buf).id]
                 /\ conn' = Skip
              \/ /\ ~accepted \/ "lost_reply" \in Faults
                 /\ Drive("retry") /\ conn' = NoStream
    /\ UNCHANGED <<procVars, sessionVars, pump, log, nextId, closed, up, handled, abort, drops>>

\* Deviation: the sandbox is not inspected before the driver reconnects.
RetryForEver ==
    /\ dr.pc = "retry"
    /\ \/ abort = "lease" /\ Fail("lease")
       \/ abort = "cancel" /\ Fail("cancelled")
       \/ abort = "no" /\ Drive("connect")
    /\ UNCHANGED <<procVars, sessionVars, workerVars, conn, handled, abort, drops>>

\* The handler of UpstreamProtocolError; the sandbox is inspected and renewed.
Retry ==
    /\ dr.pc = "retry"
    /\ \/ abort = "lease" /\ Fail("lease")
       \/ abort = "cancel" /\ Fail("cancelled")
       \/ abort = "no" /\ ~up /\ Fail("sandbox")
       \/ abort = "no" /\ up /\ Drive("connect")
    /\ UNCHANGED <<procVars, sessionVars, workerVars, conn, handled, abort, drops>>

Deadline ==
    /\ "deadline" \in Faults /\ Active
    /\ Fail("timeout") /\ conn' = NoStream
    /\ UNCHANGED <<procVars, sessionVars, workerVars, handled, abort, drops>>

Abort(how) ==
    /\ how \in Faults /\ abort = "no" /\ Active
    /\ abort' = how
    /\ UNCHANGED <<procVars, sessionVars, workerVars, conn, dr, handled, drops>>

-----------------------------------------------------------------------------
Emit ==
    \/ \E last \in BOOLEAN : EmitNote(last)
    \/ \E r \in Request : EmitRequest(r)
    \/ \E c \in Rpc : EmitAnswer(c)
    \/ Exit

Worker ==
    \/ ReadStdout \/ ReaderEnds \/ PumpNotification \/ PumpFails
    \/ \E r \in Request : PublishRequest(r)

Driver == Connect \/ StreamReads \/ StreamEnds \/ HandleEvent \/ ResolveRequest \/ Retry

Environment ==
    \/ ReaderBreaks \/ WorkerCloses \/ Deadline
    \/ \E c \in Rpc : CallRpc(c) \/ RpcTimesOut(c)
    \/ \E r \in Request : RequestTimesOut(r)
    \/ \E how \in {"cancel", "lease"} : Abort(how)

Next == Emit \/ Worker \/ Driver \/ Environment

Spec == Init /\ [][Next]_vars

\* The tasks of both processes run when they can and users answer; nothing
\* says that Codex goes on or that a fault or a timeout happens.
Fairness ==
    /\ WF_vars(ReadStdout) /\ WF_vars(ReaderEnds)
    /\ WF_vars(PumpNotification \/ PumpFails)
    /\ \A r \in Request : WF_vars(PublishRequest(r))
    /\ WF_vars(Connect) /\ WF_vars(StreamReads) /\ WF_vars(HandleEvent)
    /\ WF_vars(ResolveRequest) /\ WF_vars(Retry)
    /\ WF_vars(StreamEnds /\ closed)

FairSpec == Spec /\ Fairness

-----------------------------------------------------------------------------
\* The driver consumes the notifications of the turn once each and in the
\* order Codex wrote them, over broken connections, full logs and dying
\* processes, or reports a failure; and when it reports that the session
\* failed it has consumed all of them (unless the reader itself broke).
Sequence == INSTANCE EventSequence WITH
    Notification <- 1 .. MaxSent,
    sent <- [i \in 1 .. sent |-> i],
    got <- handled,
    outcome <- IF dr.pc = "done" THEN "all"
               ELSE IF dr.pc # "failed" THEN "open"
               ELSE IF dr.why = "session_failed" /\ reader = "done" THEN "all"
               ELSE "failed"
ImplementsSequence == Sequence!SequenceSpec

\* A turn is failed for a gap in the history only when the log has really
\* dropped the event that comes next.
GapIsReal ==
    dr.why = "gap" => /\ \A i \in DOMAIN log : log[i].id # dr.cursor + 1
                      /\ nextId - dr.cursor > MaxHistory

\* The log is bounded and holds the latest events in order, and the driver
\* reports a gap only where there is one.
StreamInvariant ==
    /\ TypeOK
    /\ \A i \in DOMAIN log : log[i].id = nextId - Len(log) + i - 1
    /\ GapIsReal

\* A question of the Agent gets its answer, or the turn it belongs to ends.
RequestsAreAnswered ==
    \A r \in Request : req[r] = "waiting" ~> req[r] # "waiting" \/ ~Active

\* The driver is at a question that nobody waits for any more: it puts it again
\* and again, up to the deadline.
AskedAgain == dr.pc = "asking" /\ ~Accepts(Head(conn.buf).of)

\* A turn that Codex has completed, or whose process is gone, comes to an end
\* in the Adapter without waiting for the deadline, or the driver is at a
\* question whose answer was lost or late.
TurnEnds == complete \/ proc = "dead" ~> ~Active \/ AskedAgain

\* No caller of the process waits for a process that has exited.
RpcFailsWithProcess == \A c \in Rpc : proc = "dead" ~> rpc[c] # "pending"
=============================================================================
