---------------------------- MODULE EventBuilder -----------------------------
(***************************************************************************)
(* ResponsesEventBuilder translates the notifications of one Codex turn    *)
(* into the events of a response, and keeps the response record in step.   *)
(* What one notification yields is a batch; the driver binds the apps the  *)
(* batch names, which takes a call to the Worker, and then publishes it.   *)
(* The translation is a function of the builder's state; notifications     *)
(* come in any order Codex may send them.                                  *)
(***************************************************************************)
EXTENDS Naturals, Sequences, SequencesExt

CONSTANTS Call,      \* ids of MCP tool calls
          AppCall,   \* those that name an app
          Message,   \* ids of agent messages
          Word,      \* what a delta adds to a message
          MaxWords,  \* bound: deltas of a message
          Faults,    \* bound: "deadline", "cancel"
          NoItem

BuilderAssumption ==
    /\ IsFiniteSet(Call) /\ AppCall \subseteq Call
    /\ NoItem \notin Call \cup Message /\ Call \cap Message = {}

VARIABLES
    b,        \* the builder and its record
    driver,   \* "reading", "publishing", "failing", "ended"
    bound,    \* app calls that have an AppSession
    stream,   \* the events published to the subscriber
    call,     \* Codex: "new", "started", "ended", per call
    said,     \* Codex: the text of a message so far
    ended     \* Codex: messages that are completed

codexVars == <<call, said, ended>>
builderVars == <<b, driver, bound, stream, codexVars>>

Terminal == {"completed", "incomplete", "failed"}
ItemStatus == {"in_progress", "completed", "failed"}
Event == [number : Nat, type : {"added", "progress", "delta", "settled", "done"} \cup Terminal,
          item : Call \cup Message \cup {NoItem}, index : Nat, text : Seq(Word)]

\* output and text are of the record; out is the batch not yet published.
NewBuilder == [output |-> <<>>, text |-> <<>>, msg |-> NoItem, finished |-> FALSE,
               done |-> {}, status |-> "in_progress", number |-> 0, out |-> <<>>]

-----------------------------------------------------------------------------
(* The translation.                                                        *)
Has(s, id) == \E n \in 1 .. Len(s.output) : s.output[n].id = id
Index(s, id) == CHOOSE n \in 1 .. Len(s.output) : s.output[n].id = id

\* add_output_item: an item keeps its place.
Put(s, id, status) ==
    LET item == [id |-> id, status |-> status] IN
    [s EXCEPT !.output = IF Has(s, id) THEN [@ EXCEPT ![Index(s, id)] = item]
                         ELSE Append(@, item)]

Emit(s, type, id, text) ==
    [s EXCEPT !.number = @ + 1,
              !.out = Append(@, [number |-> s.number, type |-> type, item |-> id, text |-> text,
                                 index |-> IF id = NoItem THEN 0 ELSE Index(s, id)])]

Open(s, id) == Emit(Emit(Put(s, id, "in_progress"), "added", id, <<>>), "progress", id, <<>>)

\* Deviation: a call is opened whether or not it has an item.
OpenCallAnyway(s, c) == Open(s, c)

OpenCall(s, c) == IF Has(s, c) THEN s ELSE Open(s, c)

\* _complete_mcp_call: opened if it was not, and completed once.
CompleteCall(s, c, status) ==
    IF c \in s.done THEN s
    ELSE LET settled == Emit(Put(OpenCall(s, c), c, status), "settled", c, <<>>) IN
         [Emit(settled, "done", c, <<>>) EXCEPT !.done = @ \cup {c}]

\* _start_message: a response has one message, whatever messages Codex writes.
OpenMessage(s, m) == IF s.msg # NoItem THEN s ELSE Open([s EXCEPT !.msg = m], m)

AppendText(s, m, d) ==
    LET o == OpenMessage(s, m) IN Emit([o EXCEPT !.text = Append(@, d)], "delta", o.msg, <<d>>)

\* Deviation: the text of a completed message replaces what was streamed.
ReplaceText(s, m, text) == [OpenMessage(s, m) EXCEPT !.text = text]

\* _sync_completed_message: what is missing is sent; a text that does not go on
\* from the streamed one replaces it.
SyncMessage(s, m, text) ==
    LET o == OpenMessage(s, m)
        full == [o EXCEPT !.text = text] IN
    CASE text = <<>> \/ text = o.text -> o
      [] text # <<>> /\ text # o.text /\ IsPrefix(o.text, text) ->
            Emit(full, "delta", o.msg, SubSeq(text, Len(o.text) + 1, Len(text)))
      [] OTHER -> full

FinishMessage(s) ==
    IF s.msg = NoItem \/ s.finished THEN s
    ELSE LET f == Put([s EXCEPT !.finished = TRUE], s.msg, "completed") IN
         Emit(Emit(f, "settled", s.msg, s.text), "done", s.msg, <<>>)

\* fail, incomplete, and the end of _complete_turn: once.
End(s, status) ==
    IF s.status # "in_progress" THEN s
    ELSE Emit([FinishMessage(s) EXCEPT !.status = status], status, NoItem, <<>>)

\* _complete_turn: calls and the last message it lists are brought up to date.
CompleteCalls(s, calls) ==
    LET done[n \in 0 .. Len(calls)] ==
          IF n = 0 THEN s ELSE CompleteCall(done[n - 1], calls[n], "completed")
    IN done[Len(calls)]

CompleteTurn(s, calls, m, status) ==
    LET settled == CompleteCalls(s, calls) IN
    End(IF m = NoItem THEN settled ELSE SyncMessage(settled, m, said[m]), status)

-----------------------------------------------------------------------------
BuilderInit ==
    /\ b = NewBuilder /\ driver = "reading" /\ bound = {} /\ stream = <<>>
    /\ call = [c \in Call |-> "new"] /\ said = [m \in Message |-> <<>>] /\ ended = {}

\* The driver reads on until the builder is terminal.
Translate(s) ==
    /\ driver = "reading" /\ b.status = "in_progress"
    /\ b' = s /\ driver' = "publishing" /\ UNCHANGED <<bound, stream>>

CallStarted(c) ==
    /\ call[c] = "new" /\ call' = [call EXCEPT ![c] = "started"]
    /\ Translate(OpenCall(b, c)) /\ UNCHANGED <<said, ended>>

\* The notification that a call started may be missing.
CallCompleted(c) ==
    /\ call[c] # "ended" /\ call' = [call EXCEPT ![c] = "ended"]
    /\ \E status \in {"completed", "failed"} : Translate(CompleteCall(b, c, status))
    /\ UNCHANGED <<said, ended>>

Delta(m) ==
    /\ m \notin ended /\ Len(said[m]) < MaxWords
    /\ \E d \in Word : /\ said' = [said EXCEPT ![m] = Append(@, d)]
                       /\ Translate(AppendText(b, m, d))
    /\ UNCHANGED <<call, ended>>

\* The text of a completed message may go on from its deltas.
MessageCompleted(m) ==
    /\ m \notin ended /\ ended' = ended \cup {m}
    /\ \E rest \in {<<>>} \cup {<<d>> : d \in Word} :
          /\ said' = [said EXCEPT ![m] = @ \o rest]
          /\ Translate(SyncMessage(b, m, said'[m]))
    /\ UNCHANGED call

\* The turn lists its calls, also some whose notifications are missing; or none.
TurnCompleted ==
    \E listed \in SUBSET Call :
        /\ call' = [c \in Call |-> IF c \in listed THEN "ended" ELSE call[c]]
        /\ \E m \in {NoItem} \cup {n \in Message : said[n] # <<>>} :
           \E status \in Terminal : Translate(CompleteTurn(b, SetToSeq(listed), m, status))
        /\ UNCHANGED <<said, ended>>

Failure == {"failed"} \cup (IF "cancel" \in Faults THEN {"incomplete"} ELSE {})

\* error without willRetry; a broken stream; the deadline; a cancelled response.
Abort ==
    /\ \E status \in Failure : Translate(End(b, status))
    /\ UNCHANGED codexVars

\* The calls of the batch whose tools must be read before it is published.
Unbound == {c \in AppCall : c \notin bound /\
               \E n \in 1 .. Len(b.out) : b.out[n].item = c /\ b.out[n].type \in {"added", "done"}}

Publish ==
    /\ driver = "publishing" /\ stream' = stream \o b.out /\ b' = [b EXCEPT !.out = <<>>]
    /\ bound' = bound \cup Unbound
    /\ driver' = IF b.status = "in_progress" THEN "reading" ELSE "ended"
    /\ UNCHANGED codexVars

\* The deadline of the turn passes during app/read: the batch is never published,
\* and the driver fails the response, unless the builder has ended it already.
DeadlineInBind ==
    /\ "deadline" \in Faults /\ driver = "publishing" /\ Unbound # {}
    /\ \E status \in Failure : b' = End([b EXCEPT !.out = <<>>], status)
    /\ driver' = "failing"
    /\ UNCHANGED <<bound, stream, codexVars>>

PublishFailure ==
    /\ driver = "failing" /\ driver' = "ended"
    /\ stream' = stream \o b.out /\ b' = [b EXCEPT !.out = <<>>]
    /\ UNCHANGED <<bound, codexVars>>

BuilderNext ==
    \/ \E c \in Call : CallStarted(c) \/ CallCompleted(c)
    \/ \E m \in Message : Delta(m) \/ MessageCompleted(m)
    \/ TurnCompleted \/ Abort \/ Publish \/ DeadlineInBind \/ PublishFailure

BuilderSpec == BuilderInit /\ [][BuilderNext]_builderVars

-----------------------------------------------------------------------------
\* Types; and the record is in progress until the builder has emitted the end.
BuilderTypeOK ==
    /\ b.output \in Seq([id : Call \cup Message, status : ItemStatus])
    /\ b.text \in Seq(Word) /\ b.msg \in Message \cup {NoItem} /\ b.finished \in BOOLEAN
    /\ b.done \subseteq Call /\ b.status \in {"in_progress"} \cup Terminal
    /\ b.number \in Nat /\ b.out \in Seq(Event) /\ stream \in Seq(Event)
    /\ driver \in {"reading", "publishing", "failing", "ended"} /\ bound \subseteq AppCall
    /\ \A n \in 1 .. Len(stream) : stream[n].type \in Terminal => stream[n].type = b.status

\* The events a subscriber gets are a well-formed stream: numbered in order, nothing
\* after the end of the response, and for each item one "added" before everything
\* else, nothing after its "done", and its place in the record throughout.
StreamIsWellFormed ==
    \A i \in 1 .. Len(stream) :
        LET e == stream[i]
            before == {stream[j] : j \in 1 .. i - 1}
            same == {x \in before : x.item = e.item} IN
        /\ \A x \in before : x.number < e.number /\ x.type \notin Terminal
        /\ e.item # NoItem =>
              /\ e.index = Index(b, e.item)
              /\ e.type = "added" <=> same = {}
              /\ \A x \in same : x.type # "done"

Sent == {stream[n] : n \in 1 .. Len(stream)}
Whole == Len(stream) = b.number /\ \E e \in Sent : e.type \in Terminal
IsDone(id) == \E e \in Sent : e.item = id /\ e.type = "done"

\* A stream that ended, and of which no batch was lost, has finished the message and
\* every call that Codex completed, failed or cancelled as it may be.
ItemsAreFinished ==
    Whole => /\ b.msg # NoItem => IsDone(b.msg)
             /\ \A c \in Call : call[c] = "ended" => IsDone(c)

\* Codex wrote at most one message that has text.
OneSpeaker == \A m, n \in Message : said[m] # <<>> /\ said[n] # <<>> => m = n
Streamed == FlattenSeq([n \in 1 .. Len(stream) |->
                IF stream[n].type = "delta" THEN stream[n].text ELSE <<>>])

\* The text a stream closes its message with is that of the record.  Its deltas add up
\* to it, and it is the text Codex wrote, unless several messages had one: then the
\* deltas are of all of them, and the record keeps the text completed last.
TextIsStreamed ==
    Whole => /\ \A e \in Sent : e.item = b.msg /\ e.type = "settled" => e.text = b.text
             /\ OneSpeaker => /\ Streamed = b.text
                              /\ \A m \in Message : said[m] # <<>> => b.text = said[m]

\* However the turn ends, and whatever of its end is lost on the way, the record that
\* retrieve returns has ended, and its message with it.
EndIsRecorded ==
    driver = "ended" =>
        /\ b.status \in Terminal
        /\ \A n \in 1 .. Len(b.output) : b.output[n].id = b.msg => b.output[n].status = "completed"

\* The stream is in order and the record ends with its turn.
BuilderInvariant == BuilderTypeOK /\ StreamIsWellFormed /\ EndIsRecorded

\* A stream that was published whole tells what the record says: its items are
\* finished and its text is theirs.
StreamTellsRecord == ItemsAreFinished /\ TextIsStreamed
=============================================================================
