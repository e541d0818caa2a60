---------------------------- MODULE McpApps_proofs ----------------------------
(***************************************************************************)
(* What the Worker is told is the answer a user was told is taken, for any *)
(* number of questions, streams and any length of the history.             *)
(*                                                                         *)
(* A result is written once: settling an interaction is guarded by its     *)
(* being pending.  So what the driver has taken (reply) and what the       *)
(* Worker was told still are the result when a late answer, a timeout or a *)
(* cancellation comes by (Answers).  Ends says who is left when a response *)
(* has ended: a response that is not active is past its last question.     *)
(*                                                                         *)
(* The history forgets its oldest event first.  A question that waits for  *)
(* its answer, and the end of the response, stay in it while as many later *)
(* events are possible as there are questions without a posted resolution  *)
(* (QuestionKept, CloseKept); so a stream that starts late finds them.     *)
(***************************************************************************)
EXTENDS McpApps, FiniteSetTheorems, TLAPS

Asked == 1 .. Len(asked)

Types ==
    /\ TypeOK
    /\ Len(told) = Len(asked) /\ Len(accepted) = Len(asked)
    /\ seen \in [Reader -> SUBSET Event]
    /\ driver \in Handling \ {"binding"} => Len(asked) > 0

\* What the result of an interaction is, given what its user was told.
Outcome(i) == IF accepted[i] # None THEN accepted[i] ELSE "cancel"

Answers ==
    /\ \A i \in Asked : asked[i].result # None => asked[i].result = Outcome(i)
    /\ \A i \in Asked : asked[i].status = "pending" => accepted[i] = None
    /\ \A i \in Asked : told[i] \notin {None, "lost"} => told[i] = asked[i].result
    /\ driver \in {"late", "answering"} => reply # None /\ reply = asked[Len(asked)].result

Ends ==
    /\ ~active => driver \in {"cancelling", "closing", "close", "done"}
    /\ record # "stored" => ~active
    /\ driver \in {"closing", "close", "done"} =>
          \A i \in Asked : asked[i].status # "pending"
    /\ NoQuestionIsLeft

Inv == Types /\ Answers /\ Ends

\* A member of a sequence over S is in S.
LEMMA ElementIn == \A S : \A s \in Seq(S) : \A i \in 1 .. Len(s) : s[i] \in S
OBVIOUS

LEMMA InitInv == Init => Inv
<1> SUFFICES ASSUME Init PROVE Inv
  OBVIOUS
<1>1. Len(asked) = 0 /\ Len(told) = 0 /\ Len(accepted) = 0 /\ Len(events) = 0
  BY DEF Init
<1>2. seen \in [Reader -> SUBSET Event] /\ \A q \in Reader : seen[q] \subseteq Event
  BY DEF Init
<1>21. reader \in [Reader -> {"out", "reading", "ended"}] /\ cursor \in [Reader -> Int]
  BY DEF Init
<1>22. /\ asked \in Seq([status : Status, result : Result]) /\ events \in Seq(Event)
       /\ told \in Seq(Result \cup {"lost"}) /\ accepted \in Seq(Result)
  BY DEF Init
<1>3. Asked = {}
  BY <1>1 DEF Asked
<1>23. TypeOK
  <2>1. \A i \in Asked : asked[i].status = "pending" <=> asked[i].result = None
    BY <1>3
  <2>2. posting \subseteq Asked
    BY DEF Init
  <2>3. Len(asked) <= MaxAsked /\ Len(events) <= MaxHistory /\ next \in Nat
    BY <1>1, McpAssumption DEF Init
  <2>4. /\ driver \in {"running", "done"} \cup Handling \cup Ending
        /\ closed \in BOOLEAN /\ active \in BOOLEAN /\ reply \in Result
        /\ record \in {"stored", "deleting", "deleted"} /\ session \in App \cup {None}
    BY DEF Init, Result
  <2> QED BY <1>2, <1>21, <1>22, <2>1, <2>2, <2>3, <2>4 DEF TypeOK, Asked
<1>4. Types
  BY <1>1, <1>2, <1>23 DEF Init, Types, Handling
<1>5. Answers
  BY <1>3 DEF Init, Answers
<1>6. Ends
  BY <1>3 DEF Init, Ends, NoQuestionIsLeft
<1> QED BY <1>4, <1>5, <1>6 DEF Inv

-----------------------------------------------------------------------------
\* Publishing keeps the history typed and bounded.
LEMMA Published ==
  ASSUME TypeOK, NEW kind \in Kinds, NEW i \in Nat, Publish(kind, i)
  PROVE  events' \in Seq(Event) /\ Len(events') <= MaxHistory /\ next' \in Nat /\ closed' = closed
<1> DEFINE all == Append(events, [number |-> next, kind |-> kind, of |-> i])
<1>1. events \in Seq(Event) /\ next \in Nat /\ MaxHistory \in Nat \ {0} /\ Len(events) <= MaxHistory
  BY McpAssumption DEF TypeOK
<1>2. all \in Seq(Event) /\ Len(all) = Len(events) + 1
  BY <1>1 DEF Event
<1>3. Tail(all) \in Seq(Event) /\ Len(Tail(all)) = Len(events)
  BY <1>2
<1>4. events' = IF Len(all) > MaxHistory THEN Tail(all) ELSE all
  BY DEF Publish
<1>5. next' = next + 1 /\ closed' = closed
  BY DEF Publish
<1> QED BY <1>1, <1>2, <1>3, <1>4, <1>5

\* A step that only publishes, or only moves the driver along.
LEMMA Announcing ==
  ASSUME Inv, NEW kind \in Kinds, Publish(kind, IF kind = "closed" THEN 0 ELSE Len(asked)),
         UNCHANGED <<asked, reply, told, accepted, posting, responseVars, readerVars>>,
         \/ driver = "asked" /\ driver' = "waiting"
         \/ driver = "late" /\ driver' = "answering"
         \/ driver = "closing" /\ driver' = "close"
  PROVE  Inv'
<1>1. TypeOK /\ Len(asked) \in Nat
  BY DEF Inv, Types, TypeOK
<1>2. events' \in Seq(Event) /\ Len(events') <= MaxHistory /\ next' \in Nat /\ closed' = closed
  BY <1>1, Published
<1>3. TypeOK'
  BY <1>1, <1>2 DEF TypeOK, Handling, Ending, responseVars, readerVars
<1>4. Types'
  BY <1>3 DEF Inv, Types, Handling, readerVars
<1>5. Answers'
  BY DEF Inv, Answers, Outcome, Asked
<1>6. Ends'
  BY DEF Inv, Ends, NoQuestionIsLeft, Asked, responseVars
<1> QED BY <1>4, <1>5, <1>6 DEF Inv

\* The three steps of the driver that publish.
LEMMA AnnounceInv == ASSUME Inv, AnnounceQuestion \/ AnnounceExpiry \/ AnnounceClose PROVE Inv'
<1>1. CASE AnnounceQuestion
  BY <1>1, Announcing DEF AnnounceQuestion, Drive, Current, Kinds
<1>2. CASE AnnounceExpiry
  BY <1>2, Announcing DEF AnnounceExpiry, Drive, Current, Kinds
<1>3. CASE AnnounceClose
  BY <1>3, Announcing DEF AnnounceClose, Drive, Current, Kinds
<1> QED BY <1>1, <1>2, <1>3

-----------------------------------------------------------------------------
\* Appending a question: the three sequences grow together.
LEMMA AskInv == ASSUME Inv, Ask PROVE Inv'
<1> DEFINE new == [status |-> "pending", result |-> None]
           n == Len(asked)
<1>1. /\ asked \in Seq([status : Status, result : Result]) /\ new \in [status : Status, result : Result]
      /\ told \in Seq(Result \cup {"lost"}) /\ accepted \in Seq(Result) /\ None \in Result
      /\ Len(told) = n /\ Len(accepted) = n /\ n < MaxAsked
      /\ MaxAsked \in Nat /\ n \in Nat
  BY McpAssumption DEF Ask, Current, Inv, Types, TypeOK, Status, Result
<1>2. /\ asked' = Append(asked, new) /\ told' = Append(told, None) /\ accepted' = Append(accepted, None)
      /\ driver = "running" /\ driver' = "asked"
  BY DEF Ask, Drive
<1>3. new.status = "pending" /\ new.result = None
  OBVIOUS
<1> HIDE DEF new
<1>4. asked' \in Seq([status : Status, result : Result]) /\ Len(asked') = n + 1
  BY <1>1, <1>2
<1>5. /\ told' \in Seq(Result \cup {"lost"}) /\ Len(told') = n + 1
      /\ accepted' \in Seq(Result) /\ Len(accepted') = n + 1
  BY <1>1, <1>2
<1>6. /\ \A i \in 1 .. n : asked'[i] = asked[i]
      /\ asked'[n + 1] = new
  BY <1>1, <1>2
<1>7. /\ \A i \in 1 .. n : told'[i] = told[i] /\ accepted'[i] = accepted[i]
      /\ told'[n + 1] = None /\ accepted'[n + 1] = None
  BY <1>1, <1>2
<1>8. Asked = 1 .. n /\ Asked' = 1 .. n + 1
      /\ \A i \in 1 .. n + 1 : i \in 1 .. n \/ i = n + 1
  BY <1>1, <1>4 DEF Asked
<1> HIDE DEF n
<1>9. TypeOK /\ UNCHANGED <<reply, posting, eventVars, responseVars, readerVars>>
  BY DEF Ask, Inv, Types
<1>10. \A i \in Asked : asked[i].status = "pending" <=> asked[i].result = None
  BY <1>9 DEF TypeOK, Asked
<1>11. \A i \in Asked' : asked'[i].status = "pending" <=> asked'[i].result = None
  BY <1>3, <1>6, <1>8, <1>10
<1>12. posting' \subseteq Asked'
  BY <1>1, <1>8, <1>9 DEF TypeOK, Asked
<1>13. TypeOK'
  BY <1>1, <1>2, <1>4, <1>5, <1>9, <1>11, <1>12
     DEF TypeOK, Asked, Handling, eventVars, responseVars, readerVars
<1>14. Types'
  BY <1>1, <1>4, <1>5, <1>9, <1>13 DEF Inv, Types, readerVars
<1>15. Answers'
  <2>1. Answers
    BY DEF Inv
  <2>2. \A i \in Asked' : asked'[i].result # None => asked'[i].result = Outcome(i)'
    BY <1>3, <1>6, <1>7, <1>8, <2>1 DEF Answers, Outcome
  <2>3. \A i \in Asked' : asked'[i].status = "pending" => accepted'[i] = None
    BY <1>3, <1>6, <1>7, <1>8, <2>1 DEF Answers
  <2>4. \A i \in Asked' : told'[i] \notin {None, "lost"} => told'[i] = asked'[i].result
    BY <1>3, <1>6, <1>7, <1>8, <2>1 DEF Answers
  <2> QED BY <1>2, <2>2, <2>3, <2>4 DEF Answers
<1>16. active /\ record = "stored"
  BY <1>2 DEF Inv, Ends
<1>17. Ends'
  BY <1>2, <1>9, <1>16 DEF Ends, NoQuestionIsLeft, responseVars
<1> QED BY <1>14, <1>15, <1>17 DEF Inv

-----------------------------------------------------------------------------
\* What settling means for the interactions: those that were pending may have got
\* their result, which is the accepted answer or "cancel"; the others keep it.
Settles ==
    /\ asked' \in Seq([status : Status, result : Result]) /\ Len(asked') = Len(asked)
    /\ accepted' \in Seq(Result) /\ Len(accepted') = Len(accepted)
    /\ told' = told
    /\ \A i \in Asked :
          \/ asked'[i] = asked[i] /\ accepted'[i] = accepted[i]
          \/ /\ asked[i].status = "pending" /\ asked'[i].status # "pending"
             /\ asked'[i].result # None /\ asked'[i].result = Outcome(i)'

LEMMA SettledAnswers ==
  ASSUME Inv, Settles
  PROVE  /\ Asked' = Asked
         /\ \A i \in Asked : asked'[i].status = "pending" <=> asked'[i].result = None
         /\ \A i \in Asked : asked'[i].result # None => asked'[i].result = Outcome(i)'
         /\ \A i \in Asked : asked'[i].status = "pending" => accepted'[i] = None
         /\ \A i \in Asked : told'[i] \notin {None, "lost"} => told'[i] = asked'[i].result
         /\ \A i \in Asked : asked'[i].status = "pending" => asked[i].status = "pending"
         /\ \A i \in Asked : asked[i].result # None => asked'[i] = asked[i]
<1>1. Asked' = Asked
  BY DEF Settles, Asked
<1>2. \A i \in Asked : asked[i].status = "pending" <=> asked[i].result = None
  BY DEF Inv, Types, TypeOK, Asked
<1>3. Answers
  BY DEF Inv
<1>4. \A i \in Asked : asked'[i].status = "pending" <=> asked'[i].result = None
  BY <1>2 DEF Settles
<1>5. \A i \in Asked : asked'[i].result # None => asked'[i].result = Outcome(i)'
  BY <1>3 DEF Settles, Answers, Outcome
<1>6. \A i \in Asked : asked'[i].status = "pending" => accepted'[i] = None
  BY <1>3 DEF Settles, Answers
<1>7. \A i \in Asked : told'[i] \notin {None, "lost"} => told'[i] = asked'[i].result
  BY <1>2, <1>3 DEF Settles, Answers
<1>8. \A i \in Asked : asked'[i].status = "pending" => asked[i].status = "pending"
  BY DEF Settles
<1>9. \A i \in Asked : asked[i].result # None => asked'[i] = asked[i]
  BY <1>2 DEF Settles
<1> QED BY <1>1, <1>4, <1>5, <1>6, <1>7, <1>8, <1>9

\* The last interaction exists while the driver handles one.
LEMMA CurrentIsAsked ==
  ASSUME Inv, driver \in Handling \ {"binding"}
  PROVE  Current \in Asked
BY DEF Inv, Types, TypeOK, Current, Asked

LEMMA CancelSettles ==
  ASSUME Inv, CancelPending, UNCHANGED <<told, accepted>>
  PROVE  Settles /\ \A i \in Asked : asked'[i].status # "pending"
<1> DEFINE n == Len(asked)
<1>1. /\ asked \in Seq([status : Status, result : Result]) /\ n \in Nat
      /\ accepted \in Seq(Result)
      /\ Settled("cancelled") \in [status : Status, result : Result]
  BY DEF Inv, Types, TypeOK, Settled, Status, Result
<1>2. asked' = [i \in 1 .. n |-> IF asked[i].status = "pending" THEN Settled("cancelled") ELSE asked[i]]
  BY DEF CancelPending
<1>21. \A i \in 1 .. n : asked[i] \in [status : Status, result : Result]
  BY <1>1, ElementIn
<1>22. \A i \in 1 .. n :
         (IF asked[i].status = "pending" THEN Settled("cancelled") ELSE asked[i])
            \in [status : Status, result : Result]
  BY <1>1, <1>21
<1>3. asked' \in [1 .. n -> [status : Status, result : Result]]
  BY <1>2, <1>22
<1>4. asked' \in Seq([status : Status, result : Result]) /\ Len(asked') = n
  BY <1>1, <1>3
<1>5. \A i \in Asked : asked[i].status = "pending" => accepted[i] = None
  BY DEF Inv, Answers
<1>6. "cancel" # None
  BY McpAssumption
<1>7. \A i \in Asked :
        \/ asked'[i] = asked[i] /\ asked[i].status # "pending"
        \/ asked[i].status = "pending" /\ asked'[i] = Settled("cancelled")
  BY <1>2 DEF Asked
<1>8. Settled("cancelled").status = "cancelled" /\ Settled("cancelled").result = "cancel"
  BY DEF Settled
<1> QED BY <1>1, <1>4, <1>5, <1>6, <1>7, <1>8 DEF Settles, Outcome

LEMMA ExpireSettles ==
  ASSUME Inv, Expire
  PROVE  Settles /\ reply' = asked'[Current].result /\ reply' # None
<1>1. Current \in Asked /\ Current = Len(asked)
  BY CurrentIsAsked DEF Expire, Drive, Handling, Current
<1>2. /\ asked \in Seq([status : Status, result : Result]) /\ Len(asked) \in Nat
      /\ accepted \in Seq(Result)
      /\ Settled("expired") \in [status : Status, result : Result]
  BY DEF Inv, Types, TypeOK, Settled, Status, Result
<1>3. /\ asked[Current].status = "pending" => accepted[Current] = None
      /\ asked[Current].status # "pending" => asked[Current].result # None
  BY <1>1 DEF Inv, Answers, Types, TypeOK, Asked
<1>4. Settled("expired").status = "expired" /\ Settled("expired").result = "cancel" /\ "cancel" # None
  BY McpAssumption DEF Settled
<1>5. told' = told /\ accepted' = accepted /\ reply' = asked'[Current].result
  BY DEF Expire
<1>6. CASE asked[Current].status = "pending"
  <2>1. asked' = [asked EXCEPT ![Current] = Settled("expired")]
    BY <1>6 DEF Expire
  <2>2. asked' \in Seq([status : Status, result : Result]) /\ Len(asked') = Len(asked)
    BY <1>1, <1>2, <2>1 DEF Asked
  <2>3. asked'[Current] = Settled("expired") /\ \A i \in Asked : i # Current => asked'[i] = asked[i]
    BY <1>1, <1>2, <2>1 DEF Asked
  <2> QED BY <1>2, <1>3, <1>4, <1>5, <1>6, <2>2, <2>3 DEF Settles, Outcome
<1>7. CASE asked[Current].status # "pending"
  BY <1>2, <1>3, <1>5, <1>7 DEF Expire, Settles
<1> QED BY <1>6, <1>7

LEMMA ResolveSettles ==
  ASSUME Inv, NEW i \in Asked, Resolve(i)
  PROVE  Settles
<1> PICK c \in Choice \cup {"cancel"} :
        /\ asked' = [asked EXCEPT ![i] = [status |-> "resolved", result |-> c]]
        /\ accepted' = [accepted EXCEPT ![i] = c]
  BY DEF Resolve
<1> DEFINE new == [status |-> "resolved", result |-> c]
<1>1. /\ asked \in Seq([status : Status, result : Result]) /\ Len(asked) \in Nat
      /\ accepted \in Seq(Result) /\ Len(accepted) = Len(asked)
      /\ new \in [status : Status, result : Result] /\ c \in Result /\ c # None
  BY McpAssumption DEF Inv, Types, TypeOK, Status, Result
<1>2. new.status = "resolved" /\ new.result = c
  OBVIOUS
<1>3. asked[i].status = "pending" /\ told' = told
  BY DEF Resolve
<1> HIDE DEF new
<1>4. asked' = [asked EXCEPT ![i] = new]
  BY DEF new
<1>5. asked' \in Seq([status : Status, result : Result]) /\ Len(asked') = Len(asked)
  BY <1>1, <1>4 DEF Asked
<1>6. accepted' \in Seq(Result) /\ Len(accepted') = Len(accepted)
  BY <1>1 DEF Asked
<1>7. asked'[i] = new /\ accepted'[i] = c
  BY <1>1, <1>4 DEF Asked
<1>8. \A j \in Asked : j # i => asked'[j] = asked[j] /\ accepted'[j] = accepted[j]
  BY <1>1, <1>4 DEF Asked
<1> QED BY <1>1, <1>2, <1>3, <1>5, <1>6, <1>7, <1>8 DEF Settles, Outcome

-----------------------------------------------------------------------------
\* The steps that settle.
LEMMA ExpireInv == ASSUME Inv, Expire PROVE Inv'
<1>1. Settles /\ reply' = asked'[Current].result /\ reply' # None
  BY ExpireSettles
<1>2. Current \in Asked /\ Current = Len(asked)
  BY CurrentIsAsked DEF Expire, Drive, Handling, Current
<1>3. /\ driver = "expiring" /\ driver' = "late"
      /\ UNCHANGED <<posting, eventVars, responseVars, readerVars>>
  BY DEF Expire, Drive
<1>31. asked'[Current] \in [status : Status, result : Result]
  <2>1. /\ asked' \in Seq([status : Status, result : Result])
        /\ Current \in 1 .. Len(asked')
    BY <1>1, <1>2 DEF Settles, Asked
  <2> QED BY <2>1, ElementIn
<1>4. reply' \in Result
  BY <1>1, <1>31
<1>5. Types'
  BY <1>1, <1>2, <1>3, <1>4, SettledAnswers
     DEF Inv, Types, TypeOK, Settles, Asked, Handling, Ending, eventVars, responseVars, readerVars
<1>6. Answers'
  BY <1>1, <1>2, <1>3, SettledAnswers DEF Answers, Settles, Current
<1>7. Ends'
  BY <1>1, <1>3, SettledAnswers DEF Inv, Ends, NoQuestionIsLeft, responseVars, Asked
<1> QED BY <1>5, <1>6, <1>7 DEF Inv

LEMMA ResolveInv == ASSUME Inv, NEW i \in Asked, Resolve(i) PROVE Inv'
<1>1. Settles
  BY ResolveSettles
<1>2. /\ UNCHANGED <<driver, reply, eventVars, responseVars, readerVars>>
      /\ posting' = posting \cup {i} /\ asked[i].status = "pending" /\ record # "deleted"
  BY DEF Resolve
<1>3. Types'
  BY <1>1, <1>2, SettledAnswers
     DEF Inv, Types, TypeOK, Settles, Asked, Handling, Ending, eventVars, responseVars, readerVars
<1>4. Answers'
  <2>1. driver \in {"late", "answering"} => Len(asked) \in Asked
    BY CurrentIsAsked DEF Handling, Current
  <2> QED BY <1>1, <1>2, <2>1, SettledAnswers DEF Inv, Answers, Settles
<1>5. Ends'
  BY <1>1, <1>2, SettledAnswers DEF Inv, Ends, NoQuestionIsLeft, responseVars, Asked
<1> QED BY <1>3, <1>4, <1>5 DEF Inv

\* Cancelling, by the client, by the driver at the end or with the record.
LEMMA CancellingInv ==
  ASSUME Inv, CancelPending, UNCHANGED <<told, accepted, reply, posting, active, readerVars>>,
         \/ driver' = driver
         \/ driver = "cancelling" /\ driver' = "closing",
         \/ UNCHANGED <<eventVars, record, session>>
         \/ /\ record = "deleting" /\ record' = "deleted" /\ session' = None
            /\ events' = <<>> /\ next' = 0 /\ closed' = FALSE
  PROVE  Inv'
<1>1. Settles /\ \A i \in Asked : asked'[i].status # "pending"
  BY CancelSettles
<1>2. events' \in Seq(Event) /\ Len(events') <= MaxHistory /\ next' \in Nat /\ closed' \in BOOLEAN
  <2>1. CASE UNCHANGED eventVars
    BY <2>1 DEF Inv, Types, TypeOK, eventVars
  <2>2. CASE events' = <<>> /\ next' = 0 /\ closed' = FALSE
    <3>1. <<>> \in Seq(Event) /\ Len(<<>>) = 0
      OBVIOUS
    <3>2. Len(events') <= MaxHistory
      BY <2>2, <3>1, McpAssumption
    <3> QED BY <2>2, <3>1, <3>2
  <2> QED BY <2>1, <2>2
<1>3. record' \in {"stored", "deleting", "deleted"} /\ session' \in App \cup {None}
  BY DEF Inv, Types, TypeOK
<1>4. Types'
  BY <1>1, <1>2, <1>3, SettledAnswers
     DEF Inv, Types, TypeOK, Settles, Asked, Handling, Ending, readerVars
<1>5. Answers'
  <2>1. driver \in {"late", "answering"} => Len(asked) \in Asked
    BY CurrentIsAsked DEF Handling, Current
  <2> QED BY <1>1, <2>1, SettledAnswers DEF Inv, Answers, Settles
<1>6. Ends'
  BY <1>1, SettledAnswers DEF Inv, Ends, NoQuestionIsLeft, Asked
<1> QED BY <1>4, <1>5, <1>6 DEF Inv

-----------------------------------------------------------------------------
\* The steps that leave the interactions as they are.
LEMMA DriverInv ==
  ASSUME Inv, TakeResult \/ TimeOut \/ Bind \/ Register \/ TurnEnds \/ Unregister \/ Close
  PROVE  Inv'
<1>1. UNCHANGED <<asked, told, accepted, posting, events, next, record, readerVars>>
  BY DEF TakeResult, TimeOut, Bind, Register, TurnEnds, Unregister, Close, eventVars, responseVars
<1>2. /\ driver' \in {"running", "done"} \cup Handling \cup Ending
      /\ closed' \in BOOLEAN /\ active' \in BOOLEAN
      /\ driver' \in Handling \ {"binding"} => driver \in Handling \ {"binding"}
  BY DEF TakeResult, TimeOut, Bind, Register, TurnEnds, Unregister, Close, Drive, Handling, Ending,
         Inv, Types, TypeOK, eventVars, responseVars
<1>3. reply' \in Result
      /\ (driver' \in {"late", "answering"} => reply' # None /\ reply' = asked[Current].result)
  <2>1. CASE TakeResult
    <3>1. Current \in 1 .. Len(asked) /\ asked \in Seq([status : Status, result : Result])
      BY <2>1, CurrentIsAsked DEF TakeResult, Drive, Handling, Asked, Inv, Types, TypeOK
    <3>2. asked[Current] \in [status : Status, result : Result]
      BY <3>1, ElementIn
    <3> QED BY <2>1, <3>2 DEF TakeResult
  <2>2. CASE TimeOut \/ Bind \/ Register \/ TurnEnds \/ Unregister \/ Close
    BY <2>2 DEF TimeOut, Bind, Register, TurnEnds, Unregister, Close, Drive,
                Inv, Types, TypeOK
  <2> QED BY <2>1, <2>2
<1>4. session' \in App \cup {None} /\ (session' # session => active)
  BY DEF TakeResult, TimeOut, Bind, Register, TurnEnds, Unregister, Close, Drive, Inv, Types, TypeOK,
         Ends, eventVars, responseVars
<1>5. Types'
  BY <1>1, <1>2, <1>3, <1>4 DEF Inv, Types, TypeOK, readerVars
<1>6. Answers'
  BY <1>1, <1>3 DEF Inv, Answers, Outcome, Asked, Current
<1>7. Ends'
  <2>1. \/ active' = active
        \/ active' = FALSE /\ driver' = "cancelling"
    BY DEF TakeResult, TimeOut, Bind, Register, TurnEnds, Unregister, Close, Drive,
           eventVars, responseVars
  <2>2. ~active => driver' \in {"cancelling", "closing", "close", "done"}
    BY DEF TakeResult, TimeOut, Bind, Register, TurnEnds, Unregister, Close, Drive, Handling,
           Inv, Ends
  <2>3. driver' \in {"closing", "close", "done"} => driver \in {"closing", "close", "done"}
    BY DEF TakeResult, TimeOut, Bind, Register, TurnEnds, Unregister, Close, Drive, Handling
  <2> QED BY <1>1, <1>4, <2>1, <2>2, <2>3 DEF Inv, Ends, NoQuestionIsLeft, Asked
<1> QED BY <1>5, <1>6, <1>7 DEF Inv

LEMMA AnswerWorkerInv == ASSUME Inv, AnswerWorker PROVE Inv'
<1>1. Current \in Asked /\ Current = Len(asked)
  BY CurrentIsAsked DEF AnswerWorker, Drive, Handling, Current
<1>2. /\ driver = "answering" /\ driver' = "running" /\ reply' = None
      /\ \/ told' = [told EXCEPT ![Current] = reply]
         \/ told' = [told EXCEPT ![Current] = "lost"]
      /\ UNCHANGED <<asked, accepted, posting, eventVars, responseVars, readerVars>>
  BY DEF AnswerWorker, Drive
<1>3. told \in Seq(Result \cup {"lost"}) /\ Len(told) = Len(asked) /\ reply \in Result /\ reply = asked[Current].result
  BY <1>1, <1>2 DEF Inv, Types, TypeOK, Answers
<1>4. told' \in Seq(Result \cup {"lost"}) /\ Len(told') = Len(asked)
  BY <1>1, <1>2, <1>3 DEF Asked
<1>5. \A i \in Asked : told'[i] = told[i] \/ told'[i] = asked[i].result \/ told'[i] = "lost"
  BY <1>1, <1>2, <1>3 DEF Asked
<1>6. Types'
  BY <1>2, <1>4 DEF Inv, Types, TypeOK, Handling, Result, eventVars, responseVars, readerVars
<1>7. Answers'
  BY <1>2, <1>5 DEF Inv, Answers, Outcome, Asked
<1>8. Ends'
  BY <1>2 DEF Inv, Ends, NoQuestionIsLeft, Asked, responseVars
<1> QED BY <1>6, <1>7, <1>8 DEF Inv

LEMMA PostInv == ASSUME Inv, NEW i \in Asked, Post(i) PROVE Inv'
<1>1. TypeOK /\ i \in Nat /\ "resolved" \in Kinds
  BY DEF Inv, Types, TypeOK, Asked, Kinds
<1>2. events' \in Seq(Event) /\ Len(events') <= MaxHistory /\ next' \in Nat /\ closed' = closed
  BY <1>1, Published DEF Post
<1>3. Types'
  BY <1>1, <1>2 DEF Post, Inv, Types, TypeOK, Handling, responseVars, readerVars
<1>4. Answers'
  BY DEF Post, Inv, Answers, Outcome, Asked
<1>5. Ends'
  BY DEF Post, Inv, Ends, NoQuestionIsLeft, Asked, responseVars
<1> QED BY <1>3, <1>4, <1>5 DEF Inv

LEMMA StartDeleteInv == ASSUME Inv, StartDelete PROVE Inv'
BY DEF StartDelete, Inv, Types, TypeOK, Answers, Outcome, Ends, NoQuestionIsLeft, Asked, Handling,
       turnVars, eventVars, readerVars

LEMMA ReaderInv ==
  ASSUME Inv, NEW q \in Reader, Open(q) \/ Break(q) \/ Read(q)
  PROVE  Inv'
<1>1. UNCHANGED <<turnVars, eventVars, responseVars>>
  BY DEF Open, Break, Read
<1>2. reader' \in [Reader -> {"out", "reading", "ended"}]
  BY DEF Open, Break, Read, Inv, Types, TypeOK
<1>3. cursor' \in [Reader -> Int] /\ seen' \in [Reader -> SUBSET Event]
  <2>1. CASE Open(q) \/ Break(q)
    BY <2>1 DEF Open, Break, Inv, Types, TypeOK
  <2>2. CASE Read(q)
    <3>1. events \in Seq(Event)
      BY DEF Inv, Types, TypeOK
    <3>2. New(q) \subseteq Event
      BY <3>1, ElementIn DEF New, ToSet
    <3>3. New(q) # {} => Last(events).number \in Int
      <4>1. SUFFICES ASSUME New(q) # {} PROVE Last(events).number \in Int
        OBVIOUS
      <4>2. Len(events) \in 1 .. Len(events)
        BY <3>1, <4>1 DEF New, ToSet
      <4>3. events[Len(events)] \in Event
        BY <3>1, <4>2, ElementIn
      <4> QED BY <4>3 DEF Last, Event
    <3> QED BY <2>2, <3>2, <3>3 DEF Read, Inv, Types, TypeOK
  <2> QED BY <2>1, <2>2 DEF Open, Break, Read
<1>4. Types'
  BY <1>1, <1>2, <1>3 DEF Inv, Types, TypeOK, turnVars, eventVars, responseVars
<1>5. Answers'
  BY <1>1 DEF Inv, Answers, Outcome, Asked, turnVars
<1>6. Ends'
  BY <1>1 DEF Inv, Ends, NoQuestionIsLeft, Asked, turnVars, responseVars
<1> QED BY <1>4, <1>5, <1>6 DEF Inv

-----------------------------------------------------------------------------
LEMMA NextInv == ASSUME Inv, [Next]_vars PROVE Inv'
<1>1. CASE Ask
  BY <1>1, AskInv
<1>2. CASE AnnounceQuestion \/ AnnounceExpiry \/ AnnounceClose
  BY <1>2, AnnounceInv
<1>3. CASE TakeResult \/ TimeOut \/ Bind \/ Register \/ TurnEnds \/ Unregister \/ Close
  BY <1>3, DriverInv
<1>4. CASE Expire
  BY <1>4, ExpireInv
<1>5. CASE AnswerWorker
  BY <1>5, AnswerWorkerInv
<1>6. CASE CancelLast
  BY <1>6, CancellingInv DEF CancelLast, Drive, responseVars
<1>7. CASE \E i \in Asked : Resolve(i) \/ Post(i)
  BY <1>7, ResolveInv, PostInv
<1>8. CASE Cancel
  BY <1>8, CancellingInv DEF Cancel, responseVars
<1>9. CASE StartDelete
  BY <1>9, StartDeleteInv
<1>10. CASE DeleteState
  BY <1>10, CancellingInv DEF DeleteState
<1>11. CASE \E q \in Reader : Open(q) \/ Break(q) \/ Read(q)
  BY <1>11, ReaderInv
<1>12. CASE UNCHANGED vars
  BY <1>12 DEF Inv, Types, TypeOK, Answers, Outcome, Ends, NoQuestionIsLeft, Asked,
               vars, turnVars, eventVars, responseVars, readerVars
<1> QED
  BY <1>1, <1>2, <1>3, <1>4, <1>5, <1>6, <1>7, <1>8, <1>9, <1>10, <1>11, <1>12
     DEF Next, Driver, User, Asked

LEMMA Invariance == Spec => []Inv
BY InitInv, NextInv, PTL DEF Spec

\* The state of the interactions, of the history and of the streams keeps its types,
\* the bound of the history included.
THEOREM AppsTypeCorrect == Spec => []TypeOK
<1>1. Inv => TypeOK
  BY DEF Inv, Types
<1> QED BY <1>1, Invariance, PTL

\* A question the driver has gone on from was answered, or the call failed.
Replied ==
    \A i \in Asked : i < Len(asked) \/ driver \in {"running", "binding"} => told[i] # None

LEMMA AskReplied == ASSUME Inv, Replied, Ask PROVE Replied'
<1> DEFINE n == Len(asked)
<1>1. /\ asked \in Seq([status : Status, result : Result]) /\ n \in Nat
      /\ told \in Seq(Result \cup {"lost"}) /\ Len(told) = n
      /\ driver = "running" /\ driver' = "asked"
      /\ [status |-> "pending", result |-> None] \in [status : Status, result : Result]
      /\ None \in Result
  BY DEF Inv, Types, TypeOK, Ask, Drive, Status, Result
<1>2. Len(asked') = n + 1 /\ \A i \in 1 .. n : told'[i] = told[i]
  BY <1>1 DEF Ask
<1>3. Asked = 1 .. n /\ Asked' = 1 .. n + 1
  BY <1>2 DEF Asked
<1> HIDE DEF n
<1>4. \A i \in Asked' : i < n + 1 => i \in Asked
  BY <1>1, <1>3
<1> QED BY <1>1, <1>2, <1>3, <1>4 DEF Replied

LEMMA AnswerReplied == ASSUME Inv, Replied, AnswerWorker PROVE Replied'
<1>1. /\ Current \in Asked /\ Current = Len(asked) /\ Len(asked) \in Nat
      /\ driver = "answering" /\ UNCHANGED asked
  BY CurrentIsAsked DEF AnswerWorker, Drive, Handling, Current, Inv, Types, TypeOK
<1>2. reply # None /\ "lost" # None /\ Len(told) = Len(asked) /\ told \in Seq(Result \cup {"lost"})
  BY <1>1, McpAssumption DEF Inv, Answers, Types, TypeOK
<1>3. told'[Current] # None /\ \A i \in Asked : i # Current => told'[i] = told[i]
  BY <1>1, <1>2 DEF AnswerWorker, Asked
<1>4. \A i \in Asked : i = Current \/ i < Len(asked)
  BY <1>1 DEF Asked
<1> QED BY <1>1, <1>3, <1>4 DEF Replied, Asked

LEMMA RepliedNext == ASSUME Inv, Replied, [Next]_vars PROVE Replied'
<1>1. CASE Ask
  BY <1>1, AskReplied
<1>2. CASE AnswerWorker
  BY <1>2, AnswerReplied
<1>3. CASE /\ UNCHANGED told /\ Len(asked') = Len(asked)
           /\ driver' \in {"running", "binding"} => driver \in {"running", "binding"}
  BY <1>3 DEF Replied, Asked
<1>4. CASE \/ AnnounceQuestion \/ AnnounceExpiry \/ AnnounceClose
           \/ TakeResult \/ TimeOut \/ Bind \/ Register \/ TurnEnds \/ Unregister \/ Close
           \/ StartDelete \/ (\E q \in Reader : Open(q) \/ Break(q) \/ Read(q)) \/ UNCHANGED vars
           \/ \E i \in Asked : Post(i)
  BY <1>3, <1>4
     DEF AnnounceQuestion, AnnounceExpiry, AnnounceClose, TakeResult, TimeOut, Bind, Register, TurnEnds,
         Unregister, Close, StartDelete, Open, Break, Read, Post, Drive, vars, turnVars
<1>5. CASE Expire
  BY <1>3, <1>5, ExpireSettles DEF Settles, Expire, Drive
<1>6. CASE CancelLast
  BY <1>3, <1>6, CancelSettles DEF Settles, CancelLast, Drive
<1>7. CASE Cancel \/ DeleteState
  BY <1>3, <1>7, CancelSettles DEF Settles, Cancel, DeleteState
<1>8. CASE \E i \in Asked : Resolve(i)
  BY <1>3, <1>8, ResolveSettles DEF Settles, Resolve
<1> QED
  BY <1>1, <1>2, <1>4, <1>5, <1>6, <1>7, <1>8 DEF Next, Driver, User, Asked

\* What the Worker is told is the answer the user was told is taken, and a driver goes
\* on only after a question is answered or the call has failed: resolve_interaction,
\* expire_interaction and the two cancellations settle an interaction once only, and
\* _handle_agent_server_request answers before the next event.
THEOREM AcceptedAnswerWins == Spec => []AcceptedAnswerIsTold
<1>1. Init => Replied
  BY DEF Init, Replied, Asked
<1>2. Inv /\ Replied => AcceptedAnswerIsTold
  <2> SUFFICES ASSUME Inv, Replied PROVE AcceptedAnswerIsTold
    OBVIOUS
  <2>1. 1 .. Len(told) = Asked /\ Current = Len(asked)
    BY DEF Inv, Types, Asked, Current
  <2>2. \A i \in Asked : told[i] \notin {None, "lost"} =>
          told[i] = asked[i].result /\ asked[i].result = Outcome(i)
    BY DEF Inv, Answers
  <2> QED BY <2>1, <2>2 DEF AcceptedAnswerIsTold, Replied, Outcome
<1>3. Inv /\ Replied /\ [Next]_vars => Replied'
  BY RepliedNext
<1> QED BY <1>1, <1>2, <1>3, InitInv, NextInv, PTL DEF Spec

\* No question and no AppSession outlives the response or its record: _cleanup
\* cancels after it has unregistered the response, and only a response that is no
\* longer registered is deleted.
THEOREM NoQuestionOutlives == Spec => []NoQuestionIsLeft
<1>1. Inv => NoQuestionIsLeft
  BY DEF Inv, Ends
<1> QED BY <1>1, Invariance, PTL
-----------------------------------------------------------------------------
(* The history.  It is bounded, and resolutions are published late; so a   *)
(* question, or the end, could be forgotten before every stream has sent   *)
(* it.  Behind it in the history come at most the resolutions that are not *)
(* yet posted: it stays when there is room for one more event than         *)
(* questions.                                                              *)
HistoryHolds == MaxHistory > MaxAsked

Numbered ==
    /\ Len(events) <= next
    /\ \A i \in 1 .. Len(events) : events[i].number = next - Len(events) + i - 1

\* The driver asks one question at a time.
Settling ==
    /\ \A i \in Asked : i < Len(asked) \/ driver \in {"running", "binding"} => asked[i].status # "pending"
    /\ \A i \in posting : asked[i].status # "pending"

Cursors == record # "deleted" => \A q \in Reader : cursor[q] < next

\* An event that is in the history for k - Cardinality(posting) more at least, and
\* that no cursor has passed without sending it.
Kept(e, k) ==
    /\ e \in ToSet(events) /\ e.number + k >= next + Cardinality(posting)
    /\ \A q \in Reader : cursor[q] >= e.number => e \in seen[q]

QuestionKept == driver \in {"waiting", "expiring"} /\ asked[Current].status = "pending" =>
    \E e \in Event : e.kind = "requested" /\ e.of = Current /\ Kept(e, Current)

CloseKept == driver \in {"close", "done"} /\ record # "deleted" =>
    \E e \in Event : e.kind = "closed" /\ Kept(e, Len(asked) + 1)

ClosedLast == closed => driver = "done"

Told == Numbered /\ Settling /\ Cursors /\ QuestionKept /\ CloseKept /\ ClosedLast /\ EndedReaderSawClose

LEMMA InitTold == ASSUME Inv, Init PROVE Told
<1>1. Len(asked) = 0 /\ Len(events) = 0 /\ next = 0
  BY DEF Init
<1> QED BY <1>1 DEF Init, Told, Numbered, Settling, Cursors, QuestionKept, CloseKept, ClosedLast,
                   EndedReaderSawClose, Asked

\* Resolutions to be posted are of questions that were asked.
LEMMA PostingFinite ==
  ASSUME Inv, NEW n \in Nat, posting \subseteq 1 .. n
  PROVE  IsFiniteSet(posting) /\ Cardinality(posting) \in Nat /\ Cardinality(posting) <= n
<1>1. IsFiniteSet(1 .. n) /\ Cardinality(1 .. n) = n
  BY FS_Interval
<1>2. IsFiniteSet(posting) /\ Cardinality(posting) <= n
  BY <1>1, FS_Subset
<1> QED BY <1>2, FS_CardinalityType

\* Publishing numbers the events, and drops the first one only.
LEMMA PublishedAt ==
  ASSUME TypeOK, Numbered, NEW kind \in Kinds, NEW i \in Nat, Publish(kind, i)
  PROVE  /\ Numbered' /\ next' = next + 1 /\ next \in Nat
         /\ \A e \in ToSet(events) : e.number + MaxHistory > next => e \in ToSet(events')
         /\ [number |-> next, kind |-> kind, of |-> i] \in ToSet(events')
<1> DEFINE new == [number |-> next, kind |-> kind, of |-> i]
           all == Append(events, new)
<1>1. /\ events \in Seq(Event) /\ next \in Nat /\ MaxHistory \in Nat \ {0} /\ Len(events) <= MaxHistory
      /\ Len(events) \in Nat
  BY McpAssumption DEF TypeOK
<1>2. new \in Event /\ new.number = next
  BY <1>1 DEF Event
<1>3. next' = next + 1 /\ events' = IF Len(all) > MaxHistory THEN Tail(all) ELSE all
  BY DEF Publish
<1> HIDE DEF new
<1>4. all \in Seq(Event) /\ Len(all) = Len(events) + 1
  BY <1>1, <1>2
<1>5. \A j \in 1 .. Len(events) : all[j] = events[j]
  BY <1>1, <1>2
<1>6. all[Len(events) + 1] = new
  BY <1>1, <1>2
<1>7. \A j \in 1 .. Len(all) : all[j].number = next + 1 - Len(all) + j - 1
  BY <1>1, <1>2, <1>4, <1>5, <1>6 DEF Numbered
<1> HIDE DEF all
<1>8. CASE Len(all) > MaxHistory
  <2>0. events' = Tail(all) /\ Len(events) = MaxHistory
    BY <1>1, <1>3, <1>4, <1>8
  <2>1. /\ Len(events) = MaxHistory /\ Len(events') = Len(all) - 1
        /\ \A j \in 1 .. Len(events') : events'[j] = all[j + 1]
        /\ events' \in Seq(Event)
    BY <1>1, <1>4, <2>0
  <2>2. Numbered'
    <3>1. Len(events') <= next'
      BY <1>1, <1>3, <1>4, <2>1 DEF Numbered
    <3>2. ASSUME NEW j \in 1 .. Len(events') PROVE events'[j].number = next' - Len(events') + j - 1
      <4>1. j + 1 \in 1 .. Len(all) /\ events'[j] = all[j + 1]
        BY <1>1, <1>4, <2>1
      <4>2. all[j + 1].number = next + 1 - Len(all) + (j + 1) - 1
        BY <1>7, <4>1
      <4>3. Len(all) \in Nat /\ Len(events') = Len(all) - 1 /\ next' = next + 1
        BY <1>1, <1>3, <1>4, <2>1
      <4> QED BY <1>1, <4>1, <4>2, <4>3, SMTT(30)
    <3> QED BY <3>1, <3>2 DEF Numbered
  <2>3. ASSUME NEW e \in ToSet(events), e.number + MaxHistory > next PROVE e \in ToSet(events')
    <3>1. PICK j \in 1 .. Len(events) : e = events[j]
      BY <1>1 DEF ToSet
    <3>2. j # 1
      BY <1>1, <2>1, <2>3, <3>1 DEF Numbered
    <3>5. j - 1 \in 1 .. Len(events') /\ (j - 1) + 1 = j
      BY <1>1, <1>4, <2>1, <3>1, <3>2
    <3>3. j - 1 \in 1 .. Len(events') /\ events'[j - 1] = all[j]
      BY <2>1, <3>5
    <3>4. all[j] = e
      BY <1>5, <3>1
    <3> QED BY <2>1, <3>3, <3>4 DEF ToSet
  <2>4. new \in ToSet(events')
    BY <1>1, <1>4, <1>6, <2>1 DEF ToSet
  <2> QED BY <1>1, <1>3, <2>2, <2>3, <2>4 DEF new
<1>9. CASE ~(Len(all) > MaxHistory)
  <2>1. events' = all
    BY <1>3, <1>9
  <2>2. Numbered'
    <3>1. Len(events') <= next'
      BY <1>1, <1>3, <1>4, <2>1 DEF Numbered
    <3>2. ASSUME NEW j \in 1 .. Len(events') PROVE events'[j].number = next' - Len(events') + j - 1
      <4>1. all[j].number = next + 1 - Len(all) + j - 1
        BY <1>7, <2>1
      <4>2. next' = next + 1
        BY <1>3
      <4>3. next \in Nat /\ Len(all) \in Nat
        BY <1>1, <1>4
      <4> QED BY <2>1, <4>1, <4>2, <4>3
    <3> QED BY <3>1, <3>2 DEF Numbered
  <2>3. \A e \in ToSet(events) : e \in ToSet(events')
    BY <1>1, <1>4, <1>5, <2>1 DEF ToSet
  <2>4. new \in ToSet(events')
    BY <1>1, <1>4, <1>6, <2>1 DEF ToSet
  <2> QED BY <1>1, <1>3, <2>2, <2>3, <2>4 DEF new
<1> QED BY <1>8, <1>9

\* A new event is in the history, and before every cursor.
LEMMA FreshKept ==
  ASSUME Inv, Told, record # "deleted", NEW kind \in Kinds, NEW i \in Nat, Publish(kind, i),
         UNCHANGED <<posting, readerVars>>, NEW n \in Nat, posting \subseteq 1 .. n
  PROVE  \E e \in Event : e.kind = kind /\ e.of = i /\ Kept(e, n + 1)'
<1> PICK e : e = [number |-> next, kind |-> kind, of |-> i]
  OBVIOUS
<1>1. TypeOK /\ Numbered /\ cursor \in [Reader -> Int] /\ next \in Nat
  BY DEF Inv, Types, TypeOK, Told
<1>2. e \in ToSet(events') /\ next' = next + 1
  BY <1>1, PublishedAt
<1>3. Cardinality(posting) \in Nat /\ Cardinality(posting) <= n
  BY PostingFinite
<1>4. \A q \in Reader : cursor'[q] < next /\ cursor'[q] \in Int
  BY <1>1 DEF Told, Cursors, readerVars
<1>5. e \in Event /\ e.kind = kind /\ e.of = i /\ e.number = next
  BY <1>1 DEF Event
<1>6. e.number + (n + 1) >= next' + Cardinality(posting)
  BY <1>1, <1>2, <1>3, <1>5
<1>7. \A q \in Reader : ~(cursor'[q] >= e.number)
  BY <1>1, <1>4, <1>5
<1>8. Kept(e, n + 1)'
  BY <1>2, <1>6, <1>7 DEF Kept
<1> QED BY <1>5, <1>8

\* Posting a resolution pushes out nothing that is kept.
LEMMA PostKeeps ==
  ASSUME Inv, Told, NEW i \in Asked, Post(i), NEW k \in Nat, k <= MaxHistory,
         NEW e \in Event, Kept(e, k)
  PROVE  Kept(e, k)'
<1>1. /\ TypeOK /\ Numbered /\ i \in Nat /\ "resolved" \in Kinds /\ MaxHistory \in Nat
      /\ Len(asked) \in Nat /\ posting \subseteq 1 .. Len(asked)
  BY McpAssumption DEF Inv, Types, TypeOK, Told, Asked, Kinds
<1>2. /\ next' = next + 1 /\ next \in Nat
      /\ \A d \in ToSet(events) : d.number + MaxHistory > next => d \in ToSet(events')
  BY <1>1, PublishedAt DEF Post
<1>3. IsFiniteSet(posting) /\ Cardinality(posting) \in Nat
  BY <1>1, PostingFinite
<1>4. posting' = posting \ {i} /\ i \in posting /\ Cardinality(posting') = Cardinality(posting) - 1
  BY <1>3, FS_RemoveElement DEF Post
<1>5. e.number \in Nat
  BY DEF Event
<1>6. Cardinality(posting) >= 1
  BY <1>3, <1>4, FS_EmptySet
<1>7. e \in ToSet(events) /\ e.number + k >= next + Cardinality(posting)
  BY DEF Kept
<1>71. MaxHistory \in Nat /\ next \in Nat
  BY <1>1, <1>2
<1>8. e.number + MaxHistory > next
  BY <1>3, <1>5, <1>6, <1>7, <1>71
<1>9. e \in ToSet(events')
  BY <1>2, <1>7, <1>8
<1>10. e.number + k >= next' + Cardinality(posting')
  BY <1>2, <1>3, <1>4, <1>5, <1>7
<1>11. \A q \in Reader : cursor'[q] >= e.number => e \in seen'[q]
  BY DEF Kept, Post, readerVars
<1> QED BY <1>9, <1>10, <1>11 DEF Kept

\* A stream that sends what is new sends what is kept.
LEMMA ReadKeeps ==
  ASSUME Inv, NEW q \in Reader, Open(q) \/ Break(q) \/ Read(q),
         NEW k \in Nat, NEW e \in Event, Kept(e, k)
  PROVE  Kept(e, k)' /\ (Read(q) => e \in seen'[q])
<1>1. /\ seen \in [Reader -> SUBSET Event] /\ cursor \in [Reader -> Int] /\ e.number \in Int
  BY DEF Inv, Types, TypeOK, Event
<1>2. UNCHANGED <<events, next, posting>>
  BY DEF Open, Break, Read, turnVars, eventVars
<1>3. CASE Open(q) \/ Break(q)
  <2>1. ~Read(q) /\ UNCHANGED <<cursor, seen>>
    BY <1>1, <1>3 DEF Open, Break, Read, Inv, Types, TypeOK
  <2> QED BY <1>2, <2>1 DEF Kept
<1>4. CASE Read(q)
  <2>1. seen' = [seen EXCEPT ![q] = @ \cup New(q)] /\ \A r \in Reader \ {q} : cursor'[r] = cursor[r]
    BY <1>1, <1>4 DEF Read
  <2>2. e \in seen'[q]
    BY <1>1, <2>1 DEF Kept, New
  <2>3. \A r \in Reader \ {q} : cursor'[r] >= e.number => e \in seen'[r]
    BY <1>1, <2>1 DEF Kept
  <2> QED BY <1>2, <2>2, <2>3 DEF Kept
<1> QED BY <1>3, <1>4
-----------------------------------------------------------------------------
\* A step that leaves history, streams and resolutions alone, and settles at most.
LEMMA FrameTold ==
  ASSUME Inv, Told, UNCHANGED <<posting, events, next, readerVars>>,
         Len(asked') = Len(asked),
         \A i \in Asked : asked'[i].status = "pending" => asked[i].status = "pending",
         record' # "deleted" => record # "deleted", record' = "stored" => record = "stored",
         driver' \in {"running", "binding"} => \A i \in Asked : asked[i].status # "pending",
         driver' \in {"waiting", "expiring"} => driver \in {"waiting", "expiring"},
         driver' \in {"close", "done"} => driver \in {"close", "done"},
         closed' => driver' = "done"
  PROVE  Told'
<1>1. Numbered' /\ ClosedLast' /\ Cursors' /\ EndedReaderSawClose'
  BY DEF Told, Numbered, ClosedLast, Cursors, EndedReaderSawClose, readerVars
<1>2. Settling'
  BY DEF Told, Settling, Asked, Inv, Types, TypeOK
<1>3. \A e, k : Kept(e, k) => Kept(e, k)'
  BY DEF Kept, readerVars
<1>4. QuestionKept'
  <2>1. SUFFICES ASSUME driver \in {"waiting", "expiring"}, asked'[Len(asked)].status = "pending"
                 PROVE  \E e \in Event : e.kind = "requested" /\ e.of = Len(asked) /\ Kept(e, Len(asked))'
    BY DEF QuestionKept, Current
  <2>2. Len(asked) \in Asked
    BY <2>1, CurrentIsAsked DEF Handling, Current
  <2> QED BY <1>3, <2>1, <2>2 DEF Told, QuestionKept, Current
<1>5. CloseKept'
  BY <1>3 DEF Told, CloseKept
<1> QED BY <1>1, <1>2, <1>4, <1>5 DEF Told

\* The driver has an answer: every question is settled.
LEMMA AllSettled ==
  ASSUME Inv, Told, driver \in {"late", "answering", "running", "binding"}
  PROVE  \A i \in Asked : asked[i].status # "pending"
<1>1. CASE driver \in {"running", "binding"}
  BY <1>1 DEF Told, Settling
<1>2. CASE driver \in {"late", "answering"}
  <2>1. Len(asked) \in Asked /\ Len(asked) \in Nat
    BY <1>2, CurrentIsAsked DEF Handling, Current, Inv, Types, TypeOK
  <2>2. asked[Len(asked)].status # "pending"
    BY <1>2, <2>1 DEF Inv, Answers, Types, TypeOK, Asked
  <2> QED BY <2>1, <2>2 DEF Told, Settling, Asked
<1> QED BY <1>1, <1>2

LEMMA DriverTold ==
  ASSUME Inv, Told, TakeResult \/ TimeOut \/ Bind \/ Register \/ TurnEnds \/ Unregister \/ Close
                      \/ AnswerWorker
  PROVE  Told'
<1>1. UNCHANGED <<asked, posting, events, next, readerVars, record>>
  BY DEF TakeResult, TimeOut, Bind, Register, TurnEnds, Unregister, Close, AnswerWorker,
         eventVars, responseVars
<1>2. driver' \in {"running", "binding"} => driver \in {"late", "answering", "running", "binding"}
  BY DEF TakeResult, TimeOut, Bind, Register, TurnEnds, Unregister, Close, AnswerWorker, Drive
<1>3. /\ driver' \in {"waiting", "expiring"} => driver \in {"waiting", "expiring"}
      /\ driver' \in {"close", "done"} => driver \in {"close", "done"}
  BY DEF TakeResult, TimeOut, Bind, Register, TurnEnds, Unregister, Close, AnswerWorker, Drive
<1>4. closed' => driver' = "done"
  BY DEF TakeResult, TimeOut, Bind, Register, TurnEnds, Unregister, Close, AnswerWorker, Drive,
         Told, ClosedLast, Handling, eventVars
<1> QED BY <1>1, <1>2, <1>3, <1>4, AllSettled, FrameTold

LEMMA SettleTold ==
  ASSUME Inv, Told, Expire \/ CancelLast \/ Cancel \/ StartDelete \/ UNCHANGED vars
  PROVE  Told'
<1>1. UNCHANGED <<posting, events, next, closed, readerVars>>
  BY DEF Expire, CancelLast, Cancel, StartDelete, vars, eventVars, turnVars
<1>2. Settles \/ asked' = asked
  BY ExpireSettles, CancelSettles DEF CancelLast, Cancel, StartDelete, vars, turnVars
<1>3. /\ Len(asked') = Len(asked)
      /\ \A i \in Asked : asked'[i].status = "pending" => asked[i].status = "pending"
  BY <1>2, SettledAnswers DEF Settles
<1>4. (record' # "deleted" => record # "deleted") /\ (record' = "stored" => record = "stored")
  BY DEF Expire, CancelLast, Cancel, StartDelete, vars, responseVars
<1>5. driver' = driver \/ (driver' = "late" /\ driver = "expiring")
        \/ (driver' = "closing" /\ driver = "cancelling")
  BY DEF Expire, CancelLast, Cancel, StartDelete, vars, turnVars, Drive
<1>6. /\ driver' \in {"running", "binding"} => driver \in {"running", "binding"}
      /\ closed' => driver' = "done"
  BY <1>1, <1>5 DEF Told, ClosedLast
<1> QED BY <1>1, <1>3, <1>4, <1>5, <1>6, AllSettled, FrameTold

LEMMA AskTold == ASSUME Inv, Told, Ask PROVE Told'
<1>1. /\ UNCHANGED <<posting, events, next, closed, readerVars, record>>
      /\ driver = "running" /\ driver' = "asked"
      /\ asked' = Append(asked, [status |-> "pending", result |-> None])
  BY DEF Ask, Drive, eventVars, responseVars
<1>2. asked \in Seq([status : Status, result : Result]) /\ posting \subseteq Asked
  BY DEF Inv, Types, TypeOK, Asked
<1>3. /\ Len(asked') = Len(asked) + 1 /\ Len(asked) \in Nat
      /\ \A i \in 1 .. Len(asked) : asked'[i] = asked[i]
  BY <1>1, <1>2
<1>4. \A i \in Asked : asked[i].status # "pending"
  BY <1>1, AllSettled
<1>5. Settling'
  BY <1>1, <1>2, <1>3, <1>4 DEF Settling, Asked
<1>6. Numbered' /\ ClosedLast' /\ Cursors' /\ EndedReaderSawClose'
  BY <1>1 DEF Told, Numbered, ClosedLast, Cursors, EndedReaderSawClose, readerVars
<1>7. QuestionKept' /\ CloseKept'
  BY <1>1 DEF QuestionKept, CloseKept
<1> QED BY <1>5, <1>6, <1>7 DEF Told

LEMMA ResolveTold == ASSUME Inv, Told, NEW i \in Asked, Resolve(i) PROVE Told'
<1>1. /\ UNCHANGED <<driver, events, next, closed, readerVars, record>>
      /\ asked[i].status = "pending" /\ posting' = posting \cup {i}
  BY DEF Resolve, eventVars, responseVars
<1>2. Settles /\ asked'[i].status # "pending"
  <2>1. PICK c : asked' = [asked EXCEPT ![i] = [status |-> "resolved", result |-> c]]
    BY DEF Resolve
  <2>2. asked'[i] = [status |-> "resolved", result |-> c]
    BY <2>1 DEF Asked, Inv, Types, TypeOK
  <2> QED BY <2>2, ResolveSettles
<1>3. /\ Len(asked') = Len(asked) /\ Len(asked) \in Nat
      /\ \A j \in Asked : asked'[j].status = "pending" => asked[j].status = "pending"
  BY <1>2, SettledAnswers DEF Settles, Inv, Types, TypeOK
<1>4. i = Len(asked) /\ driver \notin {"running", "binding"}
  BY <1>1, <1>3 DEF Told, Settling, Asked
<1>5. driver \notin {"close", "done"}
  BY <1>1 DEF Inv, Ends
<1>6. Settling'
  BY <1>1, <1>2, <1>3 DEF Told, Settling, Asked, Inv, Types, TypeOK
<1>7. Numbered' /\ ClosedLast' /\ Cursors' /\ EndedReaderSawClose'
  BY <1>1 DEF Told, Numbered, ClosedLast, Cursors, EndedReaderSawClose, readerVars
<1>8. QuestionKept' /\ CloseKept'
  BY <1>1, <1>2, <1>3, <1>4, <1>5 DEF QuestionKept, CloseKept, Current
<1> QED BY <1>6, <1>7, <1>8 DEF Told
-----------------------------------------------------------------------------
\* The steps that publish, streams that read, and the deletion.
LEMMA AnnounceTold ==
  ASSUME HistoryHolds, Inv, Told, AnnounceQuestion \/ AnnounceExpiry \/ AnnounceClose
  PROVE  Told'
<1>1. /\ UNCHANGED <<asked, posting, readerVars, record, closed>>
      /\ (record # "deleted" \/ driver = "closing")
      /\ Len(asked) \in Nat /\ posting \subseteq 1 .. Len(asked)
      /\ cursor \in [Reader -> Int] /\ next \in Nat
  BY DEF AnnounceQuestion, AnnounceExpiry, AnnounceClose, Publish, responseVars, Inv, Ends, Drive,
         Types, TypeOK
<1>2. \/ driver = "asked" /\ driver' = "waiting" /\ Publish("requested", Current)
      \/ driver = "late" /\ driver' = "answering" /\ Publish("expired", Current)
      \/ driver = "closing" /\ driver' = "close" /\ Publish("closed", 0)
  BY DEF AnnounceQuestion, AnnounceExpiry, AnnounceClose, Drive
<1>3. Numbered' /\ next' = next + 1
  BY <1>1, <1>2, PublishedAt DEF Inv, Types, Told, Kinds, Current
<1>4. Cursors' /\ ClosedLast' /\ EndedReaderSawClose' /\ Settling'
  <2>1. Cursors'
    BY <1>1, <1>3 DEF Told, Cursors, readerVars
  <2>2. ClosedLast'
    BY <1>1, <1>2 DEF Told, ClosedLast
  <2>3. EndedReaderSawClose'
    BY <1>1 DEF Told, EndedReaderSawClose, readerVars
  <2>4. Settling'
    BY <1>1, <1>2 DEF Told, Settling, Asked
  <2> QED BY <2>1, <2>2, <2>3, <2>4
<1>5. QuestionKept'
  <2>1. SUFFICES ASSUME driver = "asked", Publish("requested", Current), asked[Current].status = "pending"
                 PROVE  \E e \in Event : e.kind = "requested" /\ e.of = Current /\ Kept(e, Current)'
    BY <1>1, <1>2 DEF QuestionKept, Current
  <2>2. Current \in Asked /\ record # "deleted"
    BY <1>1, <2>1, CurrentIsAsked DEF Handling
  <2>3. PICK n \in Nat : n + 1 = Current
    <3>1. Current - 1 \in Nat /\ (Current - 1) + 1 = Current
      BY <1>1, <2>2 DEF Asked
    <3> QED BY <3>1
  <2>4. posting \subseteq 1 .. n
    BY <1>1, <2>1, <2>2, <2>3 DEF Told, Settling, Current, Asked
  <2>5. Current \in Nat /\ "requested" \in Kinds
    BY <1>1 DEF Current, Kinds
  <2>6. \E e \in Event : e.kind = "requested" /\ e.of = Current /\ Kept(e, n + 1)'
    BY <1>1, <2>1, <2>2, <2>4, <2>5, FreshKept
  <2>7. Current' = n + 1
    BY <1>1, <2>3 DEF Current
  <2> QED BY <2>6, <2>7
<1>6. CloseKept'
  <2>1. SUFFICES ASSUME Publish("closed", 0), record # "deleted"
                 PROVE  \E e \in Event : e.kind = "closed" /\ Kept(e, Len(asked) + 1)'
    BY <1>1, <1>2 DEF CloseKept
  <2> QED BY <1>1, <2>1, FreshKept DEF Kinds
<1> QED BY <1>3, <1>4, <1>5, <1>6 DEF Told

LEMMA PostTold ==
  ASSUME HistoryHolds, Inv, Told, NEW i \in Asked, Post(i)
  PROVE  Told'
<1>1. /\ UNCHANGED <<driver, asked, readerVars, record, closed>> /\ posting' = posting \ {i}
      /\ i \in Nat /\ Publish("resolved", i) /\ cursor \in [Reader -> Int]
  BY DEF Post, Publish, responseVars, Asked, Inv, Types, TypeOK
<1>2. Numbered' /\ next' = next + 1 /\ next \in Nat
  BY <1>1, PublishedAt DEF Inv, Types, Told, Kinds
<1>3. Len(asked) \in Nat /\ Len(asked) + 1 <= MaxHistory /\ MaxHistory \in Nat
  BY McpAssumption DEF HistoryHolds, Inv, Types, TypeOK
<1>4. Cursors' /\ ClosedLast' /\ EndedReaderSawClose' /\ Settling'
  <2>1. Cursors'
    BY <1>1, <1>2 DEF Told, Cursors, readerVars
  <2>2. ClosedLast' /\ EndedReaderSawClose' /\ Settling'
    BY <1>1 DEF Told, ClosedLast, EndedReaderSawClose, Settling, Asked, readerVars
  <2> QED BY <2>1, <2>2
<1>5. \A e \in Event : Kept(e, Len(asked)) => Kept(e, Len(asked))'
  <2>1. Len(asked) <= MaxHistory
    BY <1>3
  <2> QED BY <1>1, <1>3, <2>1, PostKeeps
<1>6. \A e \in Event : Kept(e, Len(asked) + 1) => Kept(e, Len(asked) + 1)'
  <2>1. Len(asked) + 1 \in Nat
    BY <1>3
  <2> QED BY <1>1, <1>3, <2>1, PostKeeps
<1>7. QuestionKept' /\ CloseKept'
  BY <1>1, <1>5, <1>6 DEF Told, QuestionKept, CloseKept, Current
<1> QED BY <1>2, <1>4, <1>7 DEF Told

LEMMA DeleteTold == ASSUME Inv, Told, DeleteState PROVE Told'
<1>1. /\ UNCHANGED <<driver, posting>> /\ CancelPending /\ record' = "deleted" /\ closed' = FALSE
      /\ events' = <<>> /\ next' = 0 /\ Len(events') = 0
      /\ driver \in {"cancelling", "closing", "close", "done"}
  BY DEF DeleteState, Inv, Ends
<1>2. Settles /\ \A i \in Asked : asked'[i].status # "pending"
  BY <1>1, CancelSettles DEF DeleteState
<1>3. Settling'
  BY <1>1, <1>2, SettledAnswers DEF Told, Settling, Asked, Settles, Inv, Types, TypeOK
<1> QED BY <1>1, <1>3 DEF Told, Numbered, Cursors, QuestionKept, CloseKept, ClosedLast, EndedReaderSawClose

LEMMA ReaderTold ==
  ASSUME Inv, Told, NEW q \in Reader, Open(q) \/ Break(q) \/ Read(q)
  PROVE  Told'
<1>1. UNCHANGED <<driver, asked, posting, events, next, closed, record>>
  BY DEF Open, Break, Read, turnVars, eventVars, responseVars
<1>2. /\ seen \in [Reader -> SUBSET Event] /\ cursor \in [Reader -> Int] /\ events \in Seq(Event)
      /\ reader \in [Reader -> {"out", "reading", "ended"}] /\ next \in Nat /\ Len(events) \in Nat
      /\ Len(asked) \in Nat
  BY DEF Inv, Types, TypeOK
<1>3. Numbered' /\ Settling' /\ ClosedLast'
  BY <1>1 DEF Told, Numbered, Settling, ClosedLast, Asked
<1>4. Cursors'
  <2>1. SUFFICES ASSUME record # "deleted", NEW r \in Reader PROVE cursor'[r] < next
    BY <1>1 DEF Cursors
  <2>2. cursor[r] < next
    BY <2>1 DEF Told, Cursors
  <2>3. New(q) # {} => Last(events).number < next
    <3>1. SUFFICES ASSUME New(q) # {} PROVE Last(events).number < next
      OBVIOUS
    <3>2. Len(events) \in 1 .. Len(events)
      BY <1>2, <3>1 DEF New, ToSet
    <3>3. events[Len(events)].number = next - Len(events) + Len(events) - 1
      BY <3>2 DEF Told, Numbered
    <3> QED BY <1>2, <3>2, <3>3 DEF Last
  <2> QED BY <1>2, <2>2, <2>3 DEF Open, Break, Read
<1>5. \A e \in Event : Kept(e, Len(asked)) => Kept(e, Len(asked))'
  BY <1>1, <1>2, ReadKeeps
<1>6. ASSUME NEW e \in Event, Kept(e, Len(asked) + 1)
      PROVE  Kept(e, Len(asked) + 1)' /\ (Read(q) => e \in seen'[q])
  <2>1. Len(asked) + 1 \in Nat
    BY <1>2
  <2> QED BY <1>1, <1>6, <2>1, ReadKeeps
<1>7. QuestionKept' /\ CloseKept'
  BY <1>1, <1>5, <1>6 DEF Told, QuestionKept, CloseKept, Current
<1>8. EndedReaderSawClose'
  <2>1. SUFFICES ASSUME NEW r \in Reader, reader'[r] = "ended", record = "stored"
                 PROVE  \E e \in seen'[r] : e.kind = "closed"
    BY <1>1 DEF EndedReaderSawClose
  <2>2. seen[r] \subseteq seen'[r]
    BY <1>2 DEF Open, Break, Read
  <2>3. CASE reader[r] = "ended"
    BY <2>1, <2>2, <2>3 DEF Told, EndedReaderSawClose
  <2>4. CASE reader[r] # "ended"
    <3>1. r = q /\ Read(q) /\ closed
      BY <1>2, <2>1, <2>4 DEF Open, Break, Read
    <3>2. PICK e \in Event : e.kind = "closed" /\ Kept(e, Len(asked) + 1)
      BY <2>1, <3>1 DEF Told, ClosedLast, CloseKept
    <3> QED BY <1>6, <3>1, <3>2
  <2> QED BY <2>3, <2>4
<1> QED BY <1>3, <1>4, <1>7, <1>8 DEF Told

LEMMA NextTold ==
  ASSUME HistoryHolds, Inv, Told, [Next]_vars
  PROVE  Told'
<1>1. CASE Ask
  BY <1>1, AskTold
<1>2. CASE AnnounceQuestion \/ AnnounceExpiry \/ AnnounceClose
  BY <1>2, AnnounceTold
<1>3. CASE TakeResult \/ TimeOut \/ Bind \/ Register \/ TurnEnds \/ Unregister \/ Close \/ AnswerWorker
  BY <1>3, DriverTold
<1>4. CASE Expire \/ CancelLast \/ Cancel \/ StartDelete \/ UNCHANGED vars
  BY <1>4, SettleTold
<1>5. CASE \E i \in Asked : Resolve(i) \/ Post(i)
  BY <1>5, ResolveTold, PostTold
<1>6. CASE DeleteState
  BY <1>6, DeleteTold
<1>7. CASE \E q \in Reader : Open(q) \/ Break(q) \/ Read(q)
  BY <1>7, ReaderTold
<1> QED BY <1>1, <1>2, <1>3, <1>4, <1>5, <1>6, <1>7 DEF Next, Driver, User, Asked

LEMMA ToldHolds == ASSUME HistoryHolds PROVE Spec => []Told
<1>1. Inv /\ Init => Told
  BY InitTold
<1>2. Inv /\ Told /\ [Next]_vars => Told'
  BY NextTold
<1> QED BY <1>1, <1>2, Invariance, PTL DEF Spec

\* A response that has ended leaves no open question and no AppSession, and its
\* streams have sent the closing event, when the history has room for one event
\* more than there are questions (_cleanup, app_events).
THEOREM ResponseEndsForAll ==
  ASSUME HistoryHolds
  PROVE  Spec => []AppsInvariant
<1>1. Inv /\ Told => AppsInvariant
  BY DEF Inv, Types, Ends, Told, AppsInvariant
<1> QED BY <1>1, Invariance, ToldHolds, PTL

\* A stream that waits has sent the question the driver waits for, though the
\* events of earlier answers come after it (publish, wait_for_events).
THEOREM QuestionsAreSent ==
  ASSUME HistoryHolds
  PROVE  Spec => []QuestionsReachReaders
<1>1. ASSUME Inv, Told PROVE QuestionsReachReaders
  <2>1. SUFFICES ASSUME driver \in {"waiting", "expiring"}, asked[Current].status = "pending",
                        NEW q \in Reader, ~Ready(q)
                 PROVE  \E e \in seen[q] : e.kind = "requested" /\ e.of = Current
    BY DEF QuestionsReachReaders
  <2>2. PICK e \in Event : e.kind = "requested" /\ e.of = Current /\ Kept(e, Current)
    BY <1>1, <2>1 DEF Told, QuestionKept
  <2>3. e.number \in Nat /\ cursor[q] \in Int
    BY <1>1 DEF Event, Inv, Types, TypeOK
  <2>4. e \in seen[q]
    BY <2>1, <2>2, <2>3 DEF Kept, Ready, New
  <2> QED BY <2>2, <2>4
<1> QED BY <1>1, Invariance, ToldHolds, PTL
=============================================================================
