------------------------------- MODULE McpApps -------------------------------
(***************************************************************************)
(* The MCP Apps side of one response: questions Codex asks the user while  *)
(* a turn runs (interactions), the bounded history of side events that the *)
(* browser follows, and the AppSession an app is bound to.  The driver of  *)
(* the response handles a question before it reads on; users answer,       *)
(* cancel and delete from other tasks.  Every section of McpAppsState      *)
(* under its condition is a step: woken readers contend for it.            *)
(*                                                                         *)
(* McpAppsState keeps all of this per response, and this is the state of   *)
(* one streamed response.                                                  *)
(***************************************************************************)
EXTENDS Integers, Sequences, SequencesExt

CONSTANTS Choice,      \* what a user may answer; "cancel" is the refusal
          App,         \* descriptors of an app: its tools and resource
          Reader,      \* streams of side events
          MaxHistory,  \* max_event_history
          MaxAsked,    \* bound: questions, those asked again included
          Inputs,      \* what users do: "cancel", "delete"
          None

ASSUME McpAssumption ==
    /\ {"cancel", "lost"} \cap Choice = {} /\ None \notin App
    /\ None \notin Choice \cup {"cancel", "lost"}
    /\ MaxHistory \in Nat \ {0} /\ MaxAsked \in Nat

VARIABLES
    driver,     \* the driver of the response
    asked,      \* its interactions, in the order of their creation
    reply,      \* the result it will send
    told,       \* what the Worker was answered, per interaction; "lost": the call failed
    accepted,   \* the choice a resolving user was told is taken
    posting,    \* resolved interactions whose event is not yet published
    events,     \* _events: the history
    next,       \* _next_sequence
    closed,     \* the response is in _closed_responses
    active,     \* the response is registered as active
    record,     \* "stored", "deleting", "deleted"
    session,    \* the AppSession of its app call
    reader,     \* per stream: "out", "reading", "ended"
    cursor,     \* per stream: the last event it has sent
    seen        \* per stream: the events it has sent

turnVars == <<driver, asked, reply, told, accepted, posting>>
eventVars == <<events, next, closed>>
responseVars == <<active, record, session>>
readerVars == <<reader, cursor, seen>>
vars == <<turnVars, eventVars, responseVars, readerVars>>

Status == {"pending", "resolved", "expired", "cancelled"}
Kinds == {"requested", "resolved", "expired", "closed"}
Result == Choice \cup {"cancel", None}
Event == [number : Nat, kind : Kinds, of : Nat]
Handling == {"asked", "waiting", "expiring", "late", "answering", "binding"}
Ending == {"cleanup", "cancelling", "closing", "close"}

Init ==
    /\ driver = "running" /\ asked = <<>> /\ reply = None /\ told = <<>>
    /\ accepted = <<>> /\ posting = {} /\ events = <<>> /\ next = 0 /\ closed = FALSE
    /\ active = TRUE /\ record = "stored" /\ session = None
    /\ reader = [q \in Reader |-> "out"] /\ cursor = [q \in Reader |-> -1]
    /\ seen = [q \in Reader |-> {}]

Current == Len(asked)
Drive(from, to) == driver = from /\ driver' = to
Settled(status) == [status |-> status, result |-> "cancel"]

\* Deviation: a full history refuses new events.
PublishIfRoom(kind, i) ==
    /\ next' = next + 1 /\ UNCHANGED closed
    /\ events' = IF Len(events) < MaxHistory
                 THEN Append(events, [number |-> next, kind |-> kind, of |-> i]) ELSE events

\* publish: a full history forgets its first event.
Publish(kind, i) ==
    LET all == Append(events, [number |-> next, kind |-> kind, of |-> i]) IN
    /\ next' = next + 1 /\ UNCHANGED closed
    /\ events' = IF Len(all) > MaxHistory THEN Tail(all) ELSE all

-----------------------------------------------------------------------------
(* The driver.                                                             *)
Ask ==
    /\ Current < MaxAsked /\ Drive("running", "asked")
    /\ asked' = Append(asked, [status |-> "pending", result |-> None])
    /\ told' = Append(told, None) /\ accepted' = Append(accepted, None)
    /\ UNCHANGED <<reply, posting, eventVars, responseVars, readerVars>>

AnnounceQuestion ==
    /\ Drive("asked", "waiting") /\ Publish("requested", Current)
    /\ UNCHANGED <<asked, reply, told, accepted, posting, responseVars, readerVars>>

\* The shielded future is done.
TakeResult ==
    /\ Drive("waiting", "answering") /\ asked[Current].result # None
    /\ reply' = asked[Current].result
    /\ UNCHANGED <<asked, told, accepted, posting, eventVars, responseVars, readerVars>>

\* The wait times out, which the answer of a user may still overtake.
TimeOut ==
    /\ Drive("waiting", "expiring")
    /\ UNCHANGED <<asked, reply, told, accepted, posting, eventVars, responseVars, readerVars>>

\* Deviation: an interaction expires whether or not it is pending.
ExpireAnyway ==
    /\ Drive("expiring", "late")
    /\ asked' = [asked EXCEPT ![Current] = Settled("expired")]
    /\ reply' = "cancel"
    /\ UNCHANGED <<told, accepted, posting, eventVars, responseVars, readerVars>>

\* expire_interaction
Expire ==
    /\ Drive("expiring", "late")
    /\ asked' = IF asked[Current].status = "pending"
                THEN [asked EXCEPT ![Current] = Settled("expired")] ELSE asked
    /\ reply' = asked'[Current].result
    /\ UNCHANGED <<told, accepted, posting, eventVars, responseVars, readerVars>>

AnnounceExpiry ==
    /\ Drive("late", "answering") /\ Publish("expired", Current)
    /\ UNCHANGED <<asked, reply, told, accepted, posting, responseVars, readerVars>>

\* resolve_server_request.  When the call fails, which is not tried again, the driver
\* opens the stream again and the same question is asked once more.
AnswerWorker ==
    /\ Drive("answering", "running") /\ reply' = None
    /\ told' \in {[told EXCEPT ![Current] = reply], [told EXCEPT ![Current] = "lost"]}
    /\ UNCHANGED <<asked, accepted, posting, eventVars, responseVars, readerVars>>

\* An item of the turn names an app: its tools are read once.
Bind ==
    /\ driver = "running" /\ driver' = "binding" /\ session = None
    /\ UNCHANGED <<asked, reply, told, accepted, posting, eventVars, responseVars, readerVars>>

Register ==
    /\ Drive("binding", "running") /\ session' \in App
    /\ UNCHANGED <<asked, reply, told, accepted, posting, eventVars, active, record, readerVars>>

\* The turn is over; or its time is, or its lease, whatever the driver does.
TurnEnds ==
    /\ driver \in {"running"} \cup Handling /\ driver' = "cleanup"
    /\ UNCHANGED <<asked, reply, told, accepted, posting, eventVars, responseVars, readerVars>>

\* _cleanup, section by section.
Unregister ==
    /\ Drive("cleanup", "cancelling") /\ active' = FALSE
    /\ UNCHANGED <<asked, reply, told, accepted, posting, eventVars, record, session, readerVars>>

\* Deviation: the interactions of a response that ends are left as they are.
CancelNothing == UNCHANGED asked

\* cancel_response_interactions
CancelPending ==
    asked' = [i \in 1 .. Len(asked) |->
        IF asked[i].status = "pending" THEN Settled("cancelled") ELSE asked[i]]

CancelLast ==
    /\ Drive("cancelling", "closing") /\ CancelPending
    /\ UNCHANGED <<reply, told, accepted, posting, eventVars, responseVars, readerVars>>

AnnounceClose ==
    /\ Drive("closing", "close") /\ Publish("closed", 0)
    /\ UNCHANGED <<asked, reply, told, accepted, posting, responseVars, readerVars>>

Close ==
    /\ Drive("close", "done") /\ closed' = TRUE
    /\ UNCHANGED <<asked, reply, told, accepted, posting, events, next, responseVars, readerVars>>

Driver ==
    \/ Ask \/ AnnounceQuestion \/ TakeResult \/ TimeOut \/ Expire \/ AnnounceExpiry
    \/ AnswerWorker \/ Bind \/ Register \/ TurnEnds
    \/ Unregister \/ CancelLast \/ AnnounceClose \/ Close

-----------------------------------------------------------------------------
(* Users.                                                                  *)
Resolve(i) ==
    /\ asked[i].status = "pending" /\ record # "deleted"
    /\ \E c \in Choice \cup {"cancel"} :
          /\ asked' = [asked EXCEPT ![i] = [status |-> "resolved", result |-> c]]
          /\ accepted' = [accepted EXCEPT ![i] = c]
    /\ posting' = posting \cup {i}
    /\ UNCHANGED <<driver, reply, told, eventVars, responseVars, readerVars>>

\* The event of a resolution is published in a section of its own.
Post(i) ==
    /\ i \in posting /\ posting' = posting \ {i} /\ Publish("resolved", i)
    /\ UNCHANGED <<driver, asked, reply, told, accepted, responseVars, readerVars>>

Cancel ==
    /\ "cancel" \in Inputs /\ record = "stored" /\ CancelPending
    /\ UNCHANGED <<driver, reply, told, accepted, posting, eventVars, responseVars, readerVars>>

\* delete() takes the record of a response that is not active ...
StartDelete ==
    /\ "delete" \in Inputs /\ record = "stored" /\ ~active /\ record' = "deleting"
    /\ UNCHANGED <<turnVars, eventVars, active, session, readerVars>>

\* ... and then everything kept for it, that it is closed included.
DeleteState ==
    /\ record = "deleting" /\ record' = "deleted" /\ CancelPending
    /\ events' = <<>> /\ next' = 0 /\ closed' = FALSE /\ session' = None
    /\ UNCHANGED <<driver, reply, told, accepted, posting, active, readerVars>>

-----------------------------------------------------------------------------
(* A stream of side events; the browser opens it again where it broke off. *)
Open(q) ==
    /\ reader[q] = "out" /\ record = "stored"
    /\ reader' = [reader EXCEPT ![q] = "reading"]
    /\ UNCHANGED <<turnVars, eventVars, responseVars, cursor, seen>>

Break(q) ==
    /\ reader[q] = "reading" /\ reader' = [reader EXCEPT ![q] = "out"]
    /\ UNCHANGED <<turnVars, eventVars, responseVars, cursor, seen>>

New(q) == {e \in ToSet(events) : e.number > cursor[q]}
Ready(q) == New(q) # {} \/ closed

\* wait_for_events and app_events: without anything new it keeps waiting.
Read(q) ==
    /\ reader[q] = "reading" /\ Ready(q)
    /\ seen' = [seen EXCEPT ![q] = @ \cup New(q)]
    /\ cursor' = [cursor EXCEPT ![q] = IF New(q) = {} THEN @ ELSE Last(events).number]
    /\ reader' = [reader EXCEPT ![q] = IF closed THEN "ended" ELSE @]
    /\ UNCHANGED <<turnVars, eventVars, responseVars>>

User == \/ \E i \in 1 .. Len(asked) : Resolve(i) \/ Post(i)
        \/ Cancel \/ StartDelete \/ DeleteState

Next == Driver \/ User \/ \E q \in Reader : Open(q) \/ Break(q) \/ Read(q)

Spec == Init /\ [][Next]_vars

-----------------------------------------------------------------------------
TypeOK ==
    /\ driver \in {"running", "done"} \cup Handling \cup Ending
    /\ asked \in Seq([status : Status, result : Result]) /\ Len(asked) <= MaxAsked
    /\ \A i \in 1 .. Len(asked) : asked[i].status = "pending" <=> asked[i].result = None
    /\ reply \in Result /\ told \in Seq(Result \cup {"lost"}) /\ accepted \in Seq(Result)
    /\ posting \subseteq 1 .. Len(asked)
    /\ events \in Seq(Event) /\ Len(events) <= MaxHistory /\ next \in Nat
    /\ closed \in BOOLEAN /\ active \in BOOLEAN
    /\ record \in {"stored", "deleting", "deleted"} /\ session \in App \cup {None}
    /\ reader \in [Reader -> {"out", "reading", "ended"}]
    /\ cursor \in [Reader -> Int] /\ \A q \in Reader : seen[q] \subseteq Event

\* What the Worker is told agrees with what the user was told is taken, however the
\* answer raced with the timeout, a cancellation or the end; without such an answer
\* the Worker is told "cancel" (mcp-apps.md).  A driver that goes on after a question
\* has answered it or has a failed call behind it; only the end of the response, at
\* the deadline even right after an answer was taken, leaves a question unanswered.
AcceptedAnswerIsTold ==
    \A i \in 1 .. Len(told) :
        /\ told[i] \in {None, "lost"} \/
              told[i] = IF accepted[i] # None THEN accepted[i] ELSE "cancel"
        /\ i < Current \/ driver \in {"running", "binding"} => told[i] # None

\* When the response has ended, or is deleted, no question is left open that a
\* user could still answer; deleted, it has no AppSession either.
NoQuestionIsLeft ==
    /\ driver = "done" \/ record = "deleted" =>
         \A i \in 1 .. Len(asked) : asked[i].status # "pending"
    /\ record = "deleted" => session = None

\* While the driver waits for an answer, a stream that has nothing to send has sent
\* the question: the history has not forgotten it, and no cursor has passed it.
QuestionsReachReaders ==
    driver \in {"waiting", "expiring"} /\ asked[Current].status = "pending" =>
        \A q \in Reader : reader[q] = "reading" /\ ~Ready(q) =>
            \E e \in seen[q] : e.kind = "requested" /\ e.of = Current

\* A stream of a response that is not deleted ends only after the closing event:
\* the browser closes its EventSource on that event alone.
EndedReaderSawClose ==
    \A q \in Reader : reader[q] = "ended" /\ record = "stored" =>
        \E e \in seen[q] : e.kind = "closed"

\* No open question, open AppSession or unclosed stream outlives its response.
AppsInvariant == TypeOK /\ NoQuestionIsLeft /\ EndedReaderSawClose
=============================================================================
