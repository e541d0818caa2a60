---------------------------- MODULE EventStream_proofs ----------------------------
(***************************************************************************)
(* The stream of a turn implements EventSequence, for any number of        *)
(* notifications, requests, calls, dropped connections and faults, and any *)
(* length of the log.                                                      *)
(*                                                                         *)
(* A notification is in the pipe, in the queue, or in what the log has     *)
(* published, part of which the log has dropped.  What was published is    *)
(* not in the state any more, so the invariant says that there is such a   *)
(* sequence (pub): the log is its end, the connection carries parts of it, *)
(* and the driver has consumed it up to its cursor (Flow).  The gaps a     *)
(* connection carries are events the log has dropped; the driver fails at  *)
(* the first one, so what it has consumed has none.                        *)
(***************************************************************************)
EXTENDS EventStream, SequenceTheorems, TLAPS

\* The notifications in s are those after lo up to hi, once each and in order.
Carries(s, lo, hi) ==
    /\ \A i \in DOMAIN s : s[i].kind = "note" => s[i].of \in (lo + 1) .. hi
    /\ \A n \in (lo + 1) .. hi : \E i \in DOMAIN s : s[i].kind = "note" /\ s[i].of = n
    /\ \A i, j \in DOMAIN s :
          i < j /\ s[i].kind = "note" /\ s[j].kind = "note" => s[i].of < s[j].of

\* The reader has taken r notifications from the pipe, the pump p of them.
Travel(pub, r, p) ==
    /\ r \in 0 .. sent /\ p \in 0 .. r
    /\ reader \in {"reading", "done"} => Carries(pipe, r, sent)
    /\ Carries(queue, p, r) /\ Carries(pub, 0, p)
    /\ \A i \in DOMAIN queue : queue[i].kind \in {"note", "closed"}

\* After the mark of a closed session comes no notification.
Ends(pub, p) ==
    /\ reader = "done" => proc = "dead" /\ pipe = <<>>
    /\ \A i \in DOMAIN queue : queue[i].kind = "closed" =>
          /\ reader # "reading"
          /\ \A j \in DOMAIN queue : i < j => queue[j].kind # "note"
    /\ \A i \in DOMAIN pub : pub[i].kind = "session_failed" =>
          /\ ~pump /\ reader # "reading" /\ (reader = "done" => p = sent)
          /\ \A j \in DOMAIN pub : i < j => pub[j].kind # "note"

History(pub) ==
    /\ Len(pub) = nextId - 1
    /\ \A i \in DOMAIN pub : pub[i].id = i

Dropped == nextId - 1 - Len(log)

\* The log is the end of what was published, and drops only when it is full.
Logged(pub) ==
    /\ Dropped \in Nat
    /\ \A i \in DOMAIN log : log[i] = pub[Dropped + i]
    /\ Len(log) = MaxHistory \/ Dropped = 0

Streaming == {"reading", "asking"}
Before(i) == IF i = 1 THEN dr.cursor ELSE conn.buf[i - 1].id
Last == IF conn.buf = <<>> THEN dr.cursor ELSE conn.buf[Len(conn.buf)].id

\* The connection carries events that follow the cursor; it skips only what
\* the log has dropped.
Carried(pub) ==
    /\ conn.at = None <=> dr.pc \notin Streaming
    /\ conn.at = None => conn.buf = <<>>
    /\ conn.at # None => conn.at = Last
    /\ \A i \in DOMAIN conn.buf :
          LET id == conn.buf[i].id IN
          /\ id \in DOMAIN pub /\ conn.buf[i] = pub[id]
          /\ Before(i) < id /\ (id = Before(i) + 1 \/ id <= Dropped + 1)
    /\ dr.pc = "asking" => /\ conn.buf # <<>> /\ conn.buf[1].kind = "request"
                           /\ conn.buf[1].id = dr.cursor + 1

\* The driver has consumed what was published up to its cursor.
Consumed(pub, p) ==
    /\ dr.cursor \in 0 .. nextId - 1
    /\ Len(handled) <= p /\ \A i \in DOMAIN handled : handled[i] = i
    /\ \A i \in DOMAIN pub : pub[i].kind = "note" =>
          (pub[i].of <= Len(handled) <=> i <= dr.cursor)
    /\ dr.why \in {"gap", "session_failed"} => dr.pc = "failed"
    /\ dr.why = "gap" => dr.cursor + 1 <= Dropped
    /\ dr.why = "session_failed" => reader # "reading"

Flow(pub, r, p) ==
    /\ History(pub) /\ Travel(pub, r, p) /\ Ends(pub, p)
    /\ Logged(pub) /\ Carried(pub) /\ Consumed(pub, p)

Inv == TypeOK /\ \E pub \in Seq(Events), r \in Nat, p \in Nat : Flow(pub, r, p)

-----------------------------------------------------------------------------
(* Sequences: what adding at one end and taking from the other do.         *)
LEMMA Added ==
  ASSUME NEW S, NEW s \in Seq(S), NEW e \in S
  PROVE  /\ Append(s, e) \in Seq(S) /\ Len(s) \in Nat /\ Len(Append(s, e)) = Len(s) + 1
         /\ DOMAIN s = 1 .. Len(s) /\ DOMAIN Append(s, e) = 1 .. (Len(s) + 1)
         /\ \A i \in 1 .. Len(s) : Append(s, e)[i] = s[i]
         /\ Append(s, e)[Len(s) + 1] = e
<1>1. Append(s, e) \in Seq(S) /\ Len(Append(s, e)) = Len(s) + 1
  BY AppendProperties
<1>2. DOMAIN s = 1 .. Len(s) /\ DOMAIN Append(s, e) = 1 .. Len(Append(s, e)) /\ Len(s) \in Nat
  BY <1>1, LenProperties
<1> QED BY <1>1, <1>2, AppendProperties

LEMMA Taken ==
  ASSUME NEW S, NEW s \in Seq(S), s # <<>>
  PROVE  /\ Tail(s) \in Seq(S) /\ Len(s) \in Nat \ {0} /\ Len(Tail(s)) = Len(s) - 1
         /\ Head(s) = s[1] /\ s[1] \in S
         /\ DOMAIN s = 1 .. Len(s) /\ DOMAIN Tail(s) = 1 .. (Len(s) - 1)
         /\ \A i \in 1 .. (Len(s) - 1) : Tail(s)[i] = s[i + 1]
<1>1. Head(s) \in S /\ Tail(s) \in Seq(S) /\ Len(Tail(s)) = Len(s) - 1
  BY HeadTailProperties
<1>2. Len(s) \in Nat \ {0}
  BY EmptySeq
<1>3. DOMAIN s = 1 .. Len(s) /\ DOMAIN Tail(s) = 1 .. Len(Tail(s))
  BY <1>1, LenProperties
<1>4. Head(s) = s[1]
  OBVIOUS
<1>5. \A i \in 1 .. Len(Tail(s)) : Tail(s)[i] = s[i + 1]
  BY HeadTailProperties
<1> QED BY <1>1, <1>2, <1>3, <1>4, <1>5

LEMMA CarriesNothing ==
  ASSUME NEW lo \in Nat
  PROVE  Carries(<<>>, lo, lo)
BY DEF Carries

LEMMA CarriesNote ==
  ASSUME NEW S, NEW s \in Seq(S), NEW lo \in Nat, NEW hi \in Nat, lo <= hi, Carries(s, lo, hi),
         NEW e \in S, e.kind = "note", e.of = hi + 1
  PROVE  Carries(Append(s, e), lo, hi + 1)
<1> DEFINE t == Append(s, e)
<1>1. /\ Len(s) \in Nat /\ DOMAIN s = 1 .. Len(s) /\ DOMAIN t = 1 .. (Len(s) + 1)
      /\ \A i \in 1 .. Len(s) : t[i] = s[i]
      /\ t[Len(s) + 1] = e
  BY Added
<1> HIDE DEF t
<1>2. \A i \in DOMAIN t : i \in DOMAIN s \/ i = Len(s) + 1
  BY <1>1
<1>3. ASSUME NEW i \in DOMAIN t, t[i].kind = "note" PROVE t[i].of \in (lo + 1) .. (hi + 1)
  BY <1>1, <1>2, <1>3 DEF Carries
<1>4. ASSUME NEW n \in (lo + 1) .. (hi + 1) PROVE \E i \in DOMAIN t : t[i].kind = "note" /\ t[i].of = n
  <2>1. CASE n = hi + 1
    <3>1. Len(s) + 1 \in DOMAIN t
      BY <1>1
    <3> QED BY <1>1, <2>1, <3>1
  <2>2. CASE n # hi + 1
    <3>1. n \in (lo + 1) .. hi
      BY <2>2
    <3>2. PICK i \in DOMAIN s : s[i].kind = "note" /\ s[i].of = n
      BY <3>1 DEF Carries
    <3>3. i \in DOMAIN t /\ t[i] = s[i]
      BY <1>1
    <3> QED BY <3>2, <3>3
  <2> QED BY <2>1, <2>2
<1>5. ASSUME NEW i \in DOMAIN t, NEW j \in DOMAIN t, i < j, t[i].kind = "note", t[j].kind = "note"
      PROVE  t[i].of < t[j].of
  <2>1. i \in DOMAIN s /\ t[i] = s[i]
    BY <1>1, <1>5
  <2>2. CASE j \in DOMAIN s
    BY <1>1, <1>5, <2>1, <2>2 DEF Carries
  <2>3. CASE j = Len(s) + 1
    <3>1. s[i].of \in (lo + 1) .. hi
      BY <1>5, <2>1 DEF Carries
    <3>2. t[j].of = hi + 1
      BY <1>1, <2>3
    <3> QED BY <2>1, <3>1, <3>2
  <2> QED BY <1>2, <2>2, <2>3
<1> QED BY <1>3, <1>4, <1>5 DEF Carries, t

LEMMA CarriesOther ==
  ASSUME NEW S, NEW s \in Seq(S), NEW lo \in Nat, NEW hi \in Nat, Carries(s, lo, hi),
         NEW e \in S, e.kind # "note"
  PROVE  Carries(Append(s, e), lo, hi)
<1> DEFINE t == Append(s, e)
<1>1. /\ Len(s) \in Nat /\ DOMAIN s = 1 .. Len(s) /\ DOMAIN t = 1 .. (Len(s) + 1)
      /\ \A i \in 1 .. Len(s) : t[i] = s[i]
      /\ t[Len(s) + 1] = e
  BY Added
<1> HIDE DEF t
<1>2. \A i \in DOMAIN t : t[i].kind = "note" => i \in DOMAIN s /\ t[i] = s[i]
  BY <1>1
<1>3. \A i \in DOMAIN s : i \in DOMAIN t /\ t[i] = s[i]
  BY <1>1
<1> QED BY <1>2, <1>3 DEF Carries, t

\* The first of a sequence that carries notifications is the next one.
LEMMA CarriesFirst ==
  ASSUME NEW S, NEW s \in Seq(S), s # <<>>, NEW lo \in Nat, NEW hi \in Nat, Carries(s, lo, hi)
  PROVE  /\ Head(s).kind = "note" =>
               Head(s).of = lo + 1 /\ lo < hi /\ Carries(Tail(s), lo + 1, hi)
         /\ Head(s).kind # "note" => Carries(Tail(s), lo, hi)
<1> DEFINE t == Tail(s)
<1>1. /\ Len(s) \in Nat \ {0} /\ Head(s) = s[1] /\ DOMAIN s = 1 .. Len(s)
      /\ DOMAIN t = 1 .. (Len(s) - 1) /\ \A i \in 1 .. (Len(s) - 1) : t[i] = s[i + 1]
  BY Taken
<1> HIDE DEF t
<1>2. \A i \in DOMAIN t : i + 1 \in DOMAIN s /\ i + 1 # 1 /\ 1 < i + 1 /\ t[i] = s[i + 1]
  BY <1>1
<1>3. \A i \in DOMAIN s : i = 1 \/ \E j \in DOMAIN t : i = j + 1
  <2> TAKE i \in DOMAIN s
  <2>1. CASE i # 1
    <3>1. i - 1 \in DOMAIN t /\ i = (i - 1) + 1
      BY <1>1, <2>1
    <3> QED BY <3>1
  <2> QED BY <2>1
<1>4. 1 \in DOMAIN s
  BY <1>1
<1>5. \A i, j \in DOMAIN t : i < j => i + 1 < j + 1
  BY <1>1
<1>6. \A i, j \in DOMAIN t : i < j /\ t[i].kind = "note" /\ t[j].kind = "note" => t[i].of < t[j].of
  <2> TAKE i, j \in DOMAIN t
  <2> HAVE i < j /\ t[i].kind = "note" /\ t[j].kind = "note"
  <2>1. i + 1 \in DOMAIN s /\ j + 1 \in DOMAIN s /\ i + 1 < j + 1 /\ t[i] = s[i + 1] /\ t[j] = s[j + 1]
    BY <1>2, <1>5
  <2> QED BY <2>1 DEF Carries
<1>7. CASE Head(s).kind = "note"
  <2>1. s[1].of \in (lo + 1) .. hi
    BY <1>1, <1>4, <1>7 DEF Carries
  <2>2. PICK k \in DOMAIN s : s[k].kind = "note" /\ s[k].of = lo + 1
    <3>1. lo + 1 \in (lo + 1) .. hi
      BY <2>1
    <3> QED BY <3>1 DEF Carries
  <2>3. k = 1
    <3>1. CASE k # 1
      <4>1. 1 < k
        BY <1>1, <3>1
      <4>2. s[1].of < s[k].of
        BY <1>1, <1>4, <1>7, <2>2, <4>1 DEF Carries
      <4> QED BY <2>1, <2>2, <4>2
    <3> QED BY <3>1
  <2>4. s[1].of = lo + 1 /\ lo < hi
    BY <2>1, <2>2, <2>3
  <2>5. ASSUME NEW i \in DOMAIN t, t[i].kind = "note" PROVE t[i].of \in (lo + 2) .. hi
    <3>1. s[1].of < s[i + 1].of /\ s[i + 1].of \in (lo + 1) .. hi
      BY <1>1, <1>2, <1>4, <1>7, <2>5 DEF Carries
    <3> QED BY <1>2, <2>4, <3>1
  <2>6. ASSUME NEW n \in (lo + 2) .. hi PROVE \E i \in DOMAIN t : t[i].kind = "note" /\ t[i].of = n
    <3>1. n \in (lo + 1) .. hi /\ n # lo + 1
      OBVIOUS
    <3>2. PICK i \in DOMAIN s : s[i].kind = "note" /\ s[i].of = n
      BY <3>1 DEF Carries
    <3>3. PICK j \in DOMAIN t : i = j + 1
      BY <1>3, <2>4, <3>1, <3>2
    <3> QED BY <1>2, <3>2, <3>3
  <2>7. (lo + 1) + 1 = lo + 2
    OBVIOUS
  <2>8. Carries(t, lo + 1, hi)
    BY <1>6, <2>5, <2>6, <2>7 DEF Carries
  <2> QED BY <1>1, <1>7, <2>4, <2>8 DEF t
<1>8. CASE Head(s).kind # "note"
  <2>1. ASSUME NEW i \in DOMAIN t, t[i].kind = "note" PROVE t[i].of \in (lo + 1) .. hi
    BY <1>2, <2>1 DEF Carries
  <2>2. ASSUME NEW n \in (lo + 1) .. hi PROVE \E i \in DOMAIN t : t[i].kind = "note" /\ t[i].of = n
    <3>1. PICK i \in DOMAIN s : s[i].kind = "note" /\ s[i].of = n
      BY DEF Carries
    <3>2. PICK j \in DOMAIN t : i = j + 1
      BY <1>1, <1>3, <1>8, <3>1
    <3> QED BY <1>2, <3>1, <3>2
  <2>3. Carries(t, lo, hi)
    BY <1>6, <2>1, <2>2 DEF Carries
  <2> QED BY <1>8, <2>3 DEF t
<1> QED BY <1>7, <1>8

LEMMA InitInv == ASSUME StreamAssumption, Init PROVE Inv
<1>1. TypeOK
  <2>1. <<>> \in Seq(Messages) /\ <<>> \in Seq(Events) /\ <<>> \in Seq(Nat) /\ Len(log) = 0
    BY DEF Init
  <2>2. conn \in [buf : Seq(Events), at : Nat \cup {None}] /\ log \in Seq(Events) /\ Len(log) <= MaxHistory
    BY <2>1, StreamAssumption DEF Init, StreamAssumption
  <2>3. sent \in 0 .. MaxSent /\ drops \in 0 .. MaxDrops /\ nextId \in Nat
    BY StreamAssumption DEF Init, StreamAssumption
  <2> QED BY <2>1, <2>2, <2>3 DEF Init, TypeOK
<1>2. Flow(<<>>, 0, 0)
  <2>1. Carries(<<>>, 0, 0)
    BY CarriesNothing
  <2>2. Len(<<>>) = 0 /\ DOMAIN <<>> = {}
    OBVIOUS
  <2>3. Dropped = 0
    <3>1. nextId = 1 /\ Len(log) = 0
      BY <2>2 DEF Init
    <3> QED BY <3>1 DEF Dropped
  <2>4. History(<<>>) /\ Travel(<<>>, 0, 0) /\ Ends(<<>>, 0)
    BY <2>1, <2>2 DEF Init, History, Travel, Ends
  <2>5. Logged(<<>>) /\ Consumed(<<>>, 0)
    BY <2>2, <2>3 DEF Init, Logged, Consumed
  <2>6. Carried(<<>>)
    BY <2>2 DEF Init, Carried, Streaming
  <2> QED BY <2>4, <2>5, <2>6 DEF Flow
<1>3. <<>> \in Seq(Events)
  OBVIOUS
<1> QED BY <1>1, <1>2, <1>3 DEF Inv

-----------------------------------------------------------------------------
(* Steps of the process and of the session leave the log and the driver.   *)
LEMMA SessionKeeps ==
  ASSUME TypeOK', NEW pub \in Seq(Events), NEW r \in Nat, NEW p \in Nat, Flow(pub, r, p),
         UNCHANGED <<log, nextId, driverVars>>,
         reader # "reading" => reader' # "reading",
         NEW q \in Nat, Travel(pub, q, p)', Ends(pub, p)'
  PROVE  Inv'
<1>1. log' = log /\ nextId' = nextId /\ conn' = conn /\ dr' = dr /\ handled' = handled
  BY DEF driverVars
<1>2. History(pub)' /\ Logged(pub)'
  BY <1>1 DEF Flow, History, Logged, Dropped
<1>3. Carried(pub)'
  BY <1>1 DEF Flow, Carried, Before, Last, Dropped
<1>4. Consumed(pub, p)'
  BY <1>1 DEF Flow, Consumed, Dropped
<1> QED BY <1>2, <1>3, <1>4 DEF Inv, Flow

\* Calls, answers and timeouts of the Worker that publish nothing.
LEMMA QuietKeeps ==
  ASSUME Inv, TypeOK',
         UNCHANGED <<sent, pipe, reader, queue, log, nextId, driverVars>>,
         proc = "dead" => proc' = "dead",
         pump' => pump
  PROVE  Inv'
<1>1. PICK pub \in Seq(Events), r \in Nat, p \in Nat : Flow(pub, r, p)
  BY DEF Inv
<1>2. Travel(pub, r, p)'
  BY <1>1 DEF Flow, Travel
<1>3. Ends(pub, p)'
  BY <1>1 DEF Flow, Ends
<1>4. UNCHANGED <<log, nextId, driverVars>> /\ reader' = reader
  OBVIOUS
<1> QED BY <1>1, <1>2, <1>3, <1>4, SessionKeeps

LEMMA EmitNoteKeeps ==
  ASSUME StreamAssumption, Inv, NEW last \in BOOLEAN, EmitNote(last)
  PROVE  Inv'
<1>1. PICK pub \in Seq(Events), r \in Nat, p \in Nat : Flow(pub, r, p)
  BY DEF Inv
<1>2. TypeOK /\ sent \in Nat /\ pipe \in Seq(Messages)
  BY StreamAssumption DEF Inv, TypeOK, StreamAssumption
<1>3. Note(sent + 1) \in Messages /\ Note(sent + 1).kind = "note" /\ Note(sent + 1).of = sent + 1
  BY <1>2 DEF Messages, Note
<1>4. sent' = sent + 1 /\ sent + 1 \in 0 .. MaxSent /\ pipe' = Append(pipe, Note(sent + 1))
      /\ complete' \in BOOLEAN /\ proc = "running"
      /\ UNCHANGED <<proc, reader, rpc, queue, workerVars, driverVars>>
  BY <1>2, StreamAssumption DEF EmitNote, Inv, TypeOK, StreamAssumption
<1>5. pipe' \in Seq(Messages)
  BY <1>2, <1>3, <1>4, AppendProperties
<1>6. TypeOK'
  BY <1>2, <1>4, <1>5 DEF TypeOK, workerVars, driverVars
<1>7. r <= sent /\ (reader = "reading" => Carries(pipe, r, sent)) /\ reader # "done"
  BY <1>1, <1>2, <1>4 DEF Flow, Travel, Ends
<1>8. reader = "reading" => Carries(pipe', r, sent + 1)
  BY <1>2, <1>3, <1>4, <1>7, CarriesNote
<1>9. Travel(pub, r, p)'
  BY <1>1, <1>2, <1>4, <1>7, <1>8 DEF Flow, Travel
<1>10. Ends(pub, p)'
  BY <1>1, <1>4, <1>7 DEF Flow, Ends, workerVars
<1> QED BY <1>1, <1>4, <1>6, <1>9, <1>10, SessionKeeps DEF workerVars

\* Requests to the user and answers to calls.
LEMMA EmitOtherKeeps ==
  ASSUME StreamAssumption, Inv, NEW e \in Messages, e.kind # "note", pipe' = Append(pipe, e),
         proc = "running", TypeOK',
         UNCHANGED <<sent, proc, reader, queue, pump, log, nextId, driverVars>>
  PROVE  Inv'
<1>1. PICK pub \in Seq(Events), r \in Nat, p \in Nat : Flow(pub, r, p)
  BY DEF Inv
<1>2. sent \in Nat /\ pipe \in Seq(Messages)
  BY StreamAssumption DEF Inv, TypeOK, StreamAssumption
<1>3. (reader = "reading" => Carries(pipe, r, sent)) /\ reader # "done"
  BY <1>1 DEF Flow, Travel, Ends
<1>4. reader = "reading" => Carries(pipe', r, sent)
  BY <1>2, <1>3, CarriesOther
<1>5. Travel(pub, r, p)'
  BY <1>1, <1>3, <1>4 DEF Flow, Travel
<1>6. Ends(pub, p)'
  BY <1>1, <1>3 DEF Flow, Ends
<1> QED BY <1>1, <1>5, <1>6, SessionKeeps

LEMMA EmitKeeps ==
  ASSUME StreamAssumption, Inv, Emit
  PROVE  Inv'
<1>1. TypeOK /\ pipe \in Seq(Messages)
  BY DEF Inv, TypeOK
<1>2. ASSUME NEW r \in Request, EmitRequest(r) PROVE Inv'
  <2>1. Ask(r) \in Messages /\ Ask(r).kind # "note"
    BY DEF Ask, Messages
  <2>2. pipe' \in Seq(Messages)
    BY <1>1, <1>2, <2>1, AppendProperties DEF EmitRequest
  <2>3. TypeOK'
    BY <1>1, <1>2, <2>2 DEF TypeOK, EmitRequest, procVars, driverVars
  <2> QED BY <1>2, <2>1, <2>3, EmitOtherKeeps DEF EmitRequest, procVars
<1>3. ASSUME NEW c \in Rpc, EmitAnswer(c) PROVE Inv'
  <2>1. Answer(c) \in Messages /\ Answer(c).kind # "note"
    BY DEF Answer, Messages
  <2>2. pipe' \in Seq(Messages)
    BY <1>1, <1>3, <2>1, AppendProperties DEF EmitAnswer
  <2>3. TypeOK'
    BY <1>1, <1>3, <2>2 DEF TypeOK, EmitAnswer, procVars, driverVars, workerVars
  <2> QED BY <1>3, <2>1, <2>3, EmitOtherKeeps DEF EmitAnswer, procVars, workerVars
<1>4. CASE Exit
  <2>1. TypeOK'
    BY <1>1, <1>4 DEF TypeOK, Exit, sessionVars, driverVars, workerVars
  <2> QED BY <1>4, <2>1, QuietKeeps DEF Exit, sessionVars, workerVars
<1> QED BY <1>2, <1>3, <1>4, EmitNoteKeeps DEF Emit

-----------------------------------------------------------------------------
(* The session.                                                            *)
LEMMA ReadKeeps ==
  ASSUME StreamAssumption, Inv, ReadStdout
  PROVE  Inv'
<1>1. PICK pub \in Seq(Events), r \in Nat, p \in Nat : Flow(pub, r, p)
  BY DEF Inv
<1>2. PICK m : m = Head(pipe)
  OBVIOUS
<1>3. /\ TypeOK /\ sent \in Nat /\ pipe \in Seq(Messages) /\ pipe # <<>> /\ queue \in Seq(Messages)
      /\ reader = "reading"
  BY StreamAssumption DEF Inv, TypeOK, StreamAssumption, ReadStdout
<1>4. m \in Messages /\ Tail(pipe) \in Seq(Messages)
  BY <1>2, <1>3, HeadTailProperties
<1>5. /\ queue' = IF m.kind = "note" THEN Append(queue, m) ELSE queue
      /\ req' = IF m.kind = "request" THEN [req EXCEPT ![m.of] = "task"] ELSE req
      /\ rpc' = IF m.kind = "answer" /\ rpc[m.of] = "pending" THEN [rpc EXCEPT ![m.of] = "ok"] ELSE rpc
      /\ pipe' = Tail(pipe)
      /\ UNCHANGED <<procVars, reader, pump, log, nextId, closed, up, driverVars>>
  BY <1>2 DEF ReadStdout
<1>6. TypeOK'
  <2>1. queue' \in Seq(Messages) /\ pipe' \in Seq(Messages)
    BY <1>3, <1>4, <1>5, AppendProperties
  <2>2. m.kind = "request" => m.of \in Request
    BY <1>4 DEF Messages
  <2>3. m.kind = "answer" => m.of \in Rpc
    BY <1>4 DEF Messages
  <2>4. req' \in [Request -> {"none", "sent", "task", "waiting", "answered", "rejected"}]
    BY <1>3, <1>5, <2>2 DEF TypeOK
  <2>5. rpc' \in [Rpc -> {"none", "pending", "ok", "failed"}]
    BY <1>3, <1>5, <2>3 DEF TypeOK
  <2> QED BY <1>3, <1>5, <2>1, <2>4, <2>5 DEF TypeOK, procVars, driverVars
<1>7. /\ Carries(pipe, r, sent) /\ Carries(queue, p, r) /\ Carries(pub, 0, p) /\ p <= r /\ r <= sent
      /\ \A i \in DOMAIN queue : queue[i].kind = "note"
      /\ \A i \in DOMAIN pub : pub[i].kind # "session_failed"
  BY <1>1, <1>3 DEF Flow, Travel, Ends
<1>8. CASE m.kind = "note"
  <2>1. m.of = r + 1 /\ r < sent /\ Carries(pipe', r + 1, sent)
    BY <1>2, <1>3, <1>5, <1>7, <1>8, CarriesFirst
  <2>2. queue' = Append(queue, m) /\ Carries(queue', p, r + 1)
    BY <1>3, <1>4, <1>5, <1>7, <1>8, <2>1, CarriesNote
  <2>3. \A i \in DOMAIN queue' : queue'[i].kind = "note"
    BY <1>3, <1>4, <1>7, <1>8, <2>2, Added
  <2>4. r + 1 \in 0 .. sent /\ p \in 0 .. (r + 1)
    BY <1>3, <1>7, <2>1
  <2>5. Travel(pub, r + 1, p)'
    BY <1>5, <1>7, <2>1, <2>2, <2>3, <2>4 DEF Travel, procVars
  <2>6. Ends(pub, p)'
    BY <1>3, <1>5, <1>7, <2>3 DEF Ends
  <2> QED BY <1>1, <1>5, <1>6, <2>5, <2>6, SessionKeeps
<1>9. CASE m.kind # "note"
  <2>1. Carries(pipe', r, sent) /\ queue' = queue
    BY <1>2, <1>3, <1>5, <1>7, <1>9, CarriesFirst
  <2>2. Travel(pub, r, p)'
    BY <1>1, <1>5, <2>1 DEF Flow, Travel, procVars
  <2>3. Ends(pub, p)'
    BY <1>3, <1>5, <1>7, <2>1 DEF Ends
  <2> QED BY <1>1, <1>5, <1>6, <2>2, <2>3, SessionKeeps
<1> QED BY <1>8, <1>9

\* The reader breaks, or comes to the end: the mark follows all it has queued.
LEMMA ReaderStops ==
  ASSUME StreamAssumption, Inv, ReaderBreaks \/ ReaderEnds
  PROVE  Inv'
<1>1. PICK pub \in Seq(Events), r \in Nat, p \in Nat : Flow(pub, r, p)
  BY DEF Inv
<1>2. /\ TypeOK /\ pipe \in Seq(Messages) /\ queue \in Seq(Messages)
      /\ Closed \in Messages /\ Closed.kind = "closed"
  BY DEF Inv, TypeOK, Closed, Messages
<1>3. /\ queue' = Append(queue, Closed)
      /\ UNCHANGED <<procVars, workerVars, driverVars>>
      /\ \/ reader = "reading" /\ reader' = "broken" /\ pipe' = <<>>
         \/ reader = "reading" /\ reader' = "done" /\ pipe = <<>> /\ pipe' = pipe /\ proc = "dead"
         \/ reader = "broken" /\ reader' = "failed" /\ pipe' = pipe
      /\ rpc' \in {rpc, FailPending}
  BY DEF ReaderBreaks, ReaderEnds
<1>4. TypeOK'
  <2>0. <<>> \in Seq(Messages)
    OBVIOUS
  <2>1. queue' \in Seq(Messages) /\ pipe' \in Seq(Messages)
    BY <1>2, <1>3, <2>0, AppendProperties
  <2>2. FailPending \in [Rpc -> {"none", "pending", "ok", "failed"}]
    BY <1>2 DEF TypeOK, FailPending
  <2>3. rpc' \in [Rpc -> {"none", "pending", "ok", "failed"}]
        /\ reader' \in {"reading", "broken", "done", "failed"}
    BY <1>2, <1>3, <2>2 DEF TypeOK
  <2> QED BY <1>2, <1>3, <2>1, <2>3 DEF TypeOK, procVars, workerVars, driverVars
<1>5. /\ Carries(queue, p, r) /\ Carries(pub, 0, p) /\ r \in 0 .. sent /\ p \in 0 .. r
      /\ reader = "reading" => Carries(pipe, r, sent)
      /\ \A i \in DOMAIN queue : queue[i].kind \in {"note", "closed"}
  BY <1>1 DEF Flow, Travel
<1>6. Carries(queue', p, r)
  BY <1>2, <1>3, <1>5, CarriesOther
<1>7. /\ Len(queue) \in Nat /\ DOMAIN queue = 1 .. Len(queue) /\ DOMAIN queue' = 1 .. (Len(queue) + 1)
      /\ \A i \in 1 .. Len(queue) : queue'[i] = queue[i]
      /\ queue'[Len(queue) + 1] = Closed
  BY <1>2, <1>3, Added
<1>8. \A i \in DOMAIN queue' : (i \in DOMAIN queue /\ queue'[i] = queue[i]) \/ i = Len(queue) + 1
  BY <1>7
<1>9. Travel(pub, r, p)'
  <2>1. \A i \in DOMAIN queue' : queue'[i].kind \in {"note", "closed"}
    BY <1>2, <1>5, <1>7, <1>8
  <2>2. reader' \in {"reading", "done"} => reader = "reading" /\ pipe' = pipe
    BY <1>3
  <2> QED BY <1>3, <1>5, <1>6, <2>1, <2>2 DEF Travel, procVars
<1>10. Ends(pub, p)'
  <2>1. reader' = "done" => proc' = "dead" /\ pipe' = <<>> /\ reader = "reading"
    BY <1>3 DEF procVars
  <2>2. reader' # "reading" /\ reader # "done" /\ pump' = pump /\ sent' = sent
    BY <1>3 DEF procVars, workerVars
  <2>3. ASSUME NEW i \in DOMAIN queue', queue'[i].kind = "closed", NEW j \in DOMAIN queue', i < j
        PROVE  queue'[j].kind # "note"
    <3>1. CASE j = Len(queue) + 1
      BY <1>2, <1>7, <3>1
    <3>2. CASE j # Len(queue) + 1
      <4>1. j \in DOMAIN queue /\ i \in DOMAIN queue
        BY <1>7, <2>3, <3>2
      <4>2. queue'[j] = queue[j] /\ queue'[i] = queue[i]
        BY <1>7, <4>1
      <4> QED BY <1>1, <2>3, <4>1, <4>2 DEF Flow, Ends
    <3> QED BY <3>1, <3>2
  <2>4. \A i \in DOMAIN pub : pub[i].kind = "session_failed" =>
          /\ ~pump /\ reader # "reading"
          /\ \A j \in DOMAIN pub : i < j => pub[j].kind # "note"
    BY <1>1 DEF Flow, Ends
  <2> QED BY <2>1, <2>2, <2>3, <2>4 DEF Ends
<1>11. UNCHANGED <<log, nextId, driverVars>> /\ (reader # "reading" => reader' # "reading")
  BY <1>3 DEF workerVars
<1> QED BY <1>1, <1>4, <1>9, <1>10, <1>11, SessionKeeps

\* Steps that change calls, requests and the state of the Worker only.
LEMMA OtherKeeps ==
  ASSUME StreamAssumption, Inv,
         \/ \E c \in Rpc : CallRpc(c) \/ RpcTimesOut(c)
         \/ \E r \in Request : RequestTimesOut(r)
         \/ WorkerCloses
  PROVE  Inv'
<1>1. TypeOK
  BY DEF Inv
<1>2. ASSUME NEW c \in Rpc, CallRpc(c) \/ RpcTimesOut(c) PROVE Inv'
  <2>1. rpc' \in [Rpc -> {"none", "pending", "ok", "failed"}]
    BY <1>1, <1>2 DEF CallRpc, RpcTimesOut, TypeOK
  <2>2. UNCHANGED <<procVars, pipe, reader, queue, workerVars, driverVars>>
    BY <1>2 DEF CallRpc, RpcTimesOut
  <2>3. TypeOK'
    BY <1>1, <2>1, <2>2 DEF TypeOK, procVars, workerVars, driverVars
  <2> QED BY <2>2, <2>3, QuietKeeps DEF procVars, workerVars
<1>3. ASSUME NEW r \in Request, RequestTimesOut(r) PROVE Inv'
  <2>1. UNCHANGED <<procVars, sessionVars, pump, log, nextId, closed, up, driverVars>>
        /\ req' = [req EXCEPT ![r] = "rejected"]
    BY <1>3 DEF RequestTimesOut, Reply
  <2>2. TypeOK'
    BY <1>1, <2>1 DEF TypeOK, procVars, sessionVars, driverVars
  <2> QED BY <2>1, <2>2, QuietKeeps DEF procVars, sessionVars
<1>4. CASE WorkerCloses
  <2>1. /\ up' = FALSE /\ pump' = FALSE /\ closed' = TRUE /\ proc' = "dead" /\ rpc' = FailPending
        /\ req' = [r \in Request |-> IF req[r] \in {"task", "waiting"} THEN "rejected" ELSE req[r]]
        /\ UNCHANGED <<sent, complete, pipe, reader, queue, log, nextId, driverVars>>
    BY <1>4 DEF WorkerCloses
  <2>2. /\ req' \in [Request -> {"none", "sent", "task", "waiting", "answered", "rejected"}]
        /\ rpc' \in [Rpc -> {"none", "pending", "ok", "failed"}]
    BY <1>1, <2>1 DEF TypeOK, FailPending
  <2>3. TypeOK'
    <3>1. up' \in BOOLEAN /\ pump' \in BOOLEAN /\ closed' \in BOOLEAN /\ proc' \in {"running", "dead"}
      BY <2>1
    <3>2. /\ sent' = sent /\ complete' = complete /\ pipe' = pipe /\ reader' = reader /\ queue' = queue
          /\ log' = log /\ nextId' = nextId /\ UNCHANGED driverVars
      BY <2>1
    <3> QED BY <1>1, <2>2, <3>1, <3>2 DEF TypeOK, driverVars
  <2>4. UNCHANGED <<sent, pipe, reader, queue, log, nextId, driverVars>> /\ ~pump'
    BY <2>1
  <2> QED BY <2>1, <2>3, <2>4, QuietKeeps
<1> QED BY <1>2, <1>3, <1>4

-----------------------------------------------------------------------------
(* Publishing: the log stays the end of what was published, and what the   *)
(* log drops is dropped for good.                                          *)
Event(kind, of) == [id |-> nextId, kind |-> kind, of |-> of]

LEMMA Numbers ==
  ASSUME StreamAssumption, TypeOK, NEW pub \in Seq(Events), History(pub), Logged(pub)
  PROVE  /\ nextId \in Nat \ {0} /\ Len(pub) \in Nat /\ Len(pub) + 1 = nextId
         /\ Len(log) \in Nat /\ log \in Seq(Events) /\ DOMAIN log = 1 .. Len(log)
         /\ DOMAIN pub = 1 .. (nextId - 1) /\ Dropped \in Nat /\ Dropped + Len(log) = nextId - 1
         /\ Len(log) <= MaxHistory /\ MaxHistory \in Nat \ {0}
<1>1. nextId \in Nat /\ log \in Seq(Events) /\ Len(log) <= MaxHistory /\ MaxHistory \in Nat \ {0}
  BY StreamAssumption DEF TypeOK, StreamAssumption
<1>2. Len(pub) \in Nat /\ DOMAIN pub = 1 .. Len(pub) /\ Len(log) \in Nat /\ DOMAIN log = 1 .. Len(log)
  BY <1>1, LenProperties
<1>3. Len(pub) = nextId - 1 /\ Dropped = nextId - 1 - Len(log) /\ Dropped \in Nat
  BY DEF History, Logged, Dropped
<1>4. Len(pub) + 1 = nextId /\ Dropped + Len(log) = nextId - 1 /\ nextId # 0
  BY <1>1, <1>2, <1>3
<1> QED BY <1>1, <1>2, <1>3, <1>4

LEMMA LogGrows ==
  ASSUME StreamAssumption, TypeOK, NEW pub \in Seq(Events), History(pub), Logged(pub),
         NEW e \in Events, e = Event(e.kind, e.of), Published(e.kind, e.of)
  PROVE  /\ Append(pub, e) \in Seq(Events)
         /\ History(Append(pub, e))' /\ Logged(Append(pub, e))'
         /\ log' \in Seq(Events) /\ Len(log') <= MaxHistory
         /\ nextId' = nextId + 1 /\ Dropped \in Nat /\ Dropped' \in Nat /\ Dropped <= Dropped'
<1> DEFINE more == Append(pub, e)
           full == Append(log, e)
<1>1. /\ nextId \in Nat \ {0} /\ Len(pub) \in Nat /\ Len(pub) + 1 = nextId
      /\ Len(log) \in Nat /\ log \in Seq(Events) /\ DOMAIN log = 1 .. Len(log)
      /\ DOMAIN pub = 1 .. (nextId - 1) /\ Dropped \in Nat /\ Dropped + Len(log) = nextId - 1
      /\ Len(log) <= MaxHistory /\ MaxHistory \in Nat \ {0}
  BY Numbers
<1>2. e.id = nextId
  BY DEF Event
<1>n. PICK n \in Nat \ {0} : n = nextId
  BY <1>1
<1>d. PICK d \in Nat : d = Dropped
  BY <1>1
<1>l. PICK len \in Nat : len = Len(log)
  <2>1. Len(log) \in Nat
    BY <1>1
  <2> QED BY <2>1, Zenon
<1>a. /\ n = nextId /\ d = Dropped /\ len = Len(log)
      /\ n \in Nat \ {0} /\ d \in Nat /\ len \in Nat
      /\ d + len = n - 1
  <2>1. n \in Nat \ {0} /\ d \in Nat /\ len \in Nat /\ d + len = n - 1
    BY <1>1, <1>n, <1>d, <1>l
  <2> QED BY <1>n, <1>d, <1>l, <2>1
<1>3. /\ more \in Seq(Events) /\ Len(more) = n /\ DOMAIN more = 1 .. n
      /\ \A i \in 1 .. (n - 1) : more[i] = pub[i]
      /\ more[n] = e
  BY <1>1, <1>2, <1>a, Added
<1>4. /\ full \in Seq(Events) /\ Len(full) = len + 1 /\ DOMAIN full = 1 .. (len + 1)
      /\ \A i \in 1 .. len : full[i] = log[i]
      /\ full[len + 1] = e
  BY <1>1, <1>a, Added
<1>5. log' = (IF Len(full) > MaxHistory THEN Tail(full) ELSE full) /\ nextId' = n + 1
  BY <1>a DEF Published, Event
<1>b. Len(pub) = n - 1 /\ \A i \in 1 .. (n - 1) : pub[i].id = i
  BY <1>1, <1>a DEF History
<1>c. /\ \A i \in 1 .. len : log[i] = pub[d + i]
      /\ len = MaxHistory \/ d = 0
  <2>1. /\ \A i \in DOMAIN log : log[i] = pub[Dropped + i]
        /\ Len(log) = MaxHistory \/ Dropped = 0
    BY DEF Logged
  <2>2. DOMAIN log = 1 .. len
    BY <1>1, <1>l
  <2> QED BY <1>d, <1>l, <2>1, <2>2
<1> HIDE DEF more, full
<1>6. History(more)'
  <2>1. \A i \in 1 .. (n - 1) : more[i].id = i
    BY <1>3, <1>b
  <2>2. \A i \in 1 .. n : i \in 1 .. (n - 1) \/ i = n
    BY <1>a
  <2>3. \A i \in DOMAIN more : more[i].id = i
    BY <1>2, <1>3, <1>a, <2>1, <2>2
  <2>4. Len(more) = nextId' - 1
    BY <1>3, <1>5, <1>a
  <2> QED BY <2>3, <2>4 DEF History
<1>7. \A i \in 1 .. len : log[i] = more[d + i]
  <2> TAKE i \in 1 .. len
  <2>1. d + i \in 1 .. (n - 1)
    BY <1>a
  <2>2. more[d + i] = pub[d + i]
    BY <1>3, <2>1
  <2> QED BY <1>c, <2>2
<1>8. \A i \in 1 .. (len + 1) : full[i] = more[d + i]
  <2> TAKE i \in 1 .. (len + 1)
  <2>1. CASE i = len + 1
    <3>1. d + i = n
      BY <1>a, <2>1
    <3> QED BY <1>3, <1>4, <2>1, <3>1
  <2>2. CASE i # len + 1
    <3>1. i \in 1 .. len
      BY <2>2
    <3> QED BY <1>4, <1>7, <3>1
  <2> QED BY <2>1, <2>2
<1>9. ASSUME NEW k \in Nat, NEW m \in Nat, log' \in Seq(Events), Len(log') = k, m + k = n, d <= m,
             \A i \in 1 .. k : log'[i] = more[m + i], k = MaxHistory \/ m = 0, k <= MaxHistory
      PROVE  /\ Logged(more)' /\ Len(log') <= MaxHistory
             /\ Dropped' \in Nat /\ Dropped <= Dropped'
  <2>1. nextId' - 1 - Len(log') = m
    <3>1. nextId' = n + 1
      BY <1>5
    <3>2. (n + 1) - 1 - k = m
      BY <1>9, <1>a
    <3> QED BY <1>9, <3>1, <3>2
  <2>2. Dropped' = m
    BY <2>1 DEF Dropped
  <2>3. DOMAIN log' = 1 .. k
    BY <1>9, LenProperties
  <2>4. Logged(more)'
    BY <1>9, <2>2, <2>3 DEF Logged
  <2> QED BY <1>9, <1>a, <2>2, <2>4
<1>10. /\ Logged(more)' /\ Len(log') <= MaxHistory /\ log' \in Seq(Events)
       /\ Dropped' \in Nat /\ Dropped <= Dropped'
  <2>1. CASE Len(full) > MaxHistory
    <3>1. len = MaxHistory /\ full # <<>>
      <4>1. len <= MaxHistory /\ len + 1 > MaxHistory
        BY <1>1, <1>4, <1>a, <2>1
      <4>2. full # <<>>
        BY <1>4
      <4> QED BY <1>1, <4>1, <4>2
    <3>2. log' = Tail(full)
      BY <1>5, <2>1
    <3>3. /\ log' \in Seq(Events) /\ Len(log') = len
          /\ \A i \in 1 .. len : log'[i] = full[i + 1]
      <4>1. /\ log' \in Seq(Events) /\ Len(log') = Len(full) - 1
            /\ \A i \in 1 .. (Len(full) - 1) : log'[i] = full[i + 1]
        BY <1>4, <3>1, <3>2, Taken
      <4>2. Len(full) - 1 = len
        BY <1>4
      <4> QED BY <4>1, <4>2
    <3>4. \A i \in 1 .. len : log'[i] = more[(d + 1) + i]
      <4> TAKE i \in 1 .. len
      <4>1. i + 1 \in 1 .. (len + 1) /\ d + (i + 1) = (d + 1) + i
        OBVIOUS
      <4>2. full[i + 1] = more[d + (i + 1)]
        BY <1>8, <4>1
      <4> QED BY <3>3, <4>1, <4>2
    <3>5. d + 1 \in Nat /\ (d + 1) + len = n /\ d <= d + 1 /\ len <= MaxHistory
      BY <1>1, <1>a, <3>1
    <3> QED BY <1>9, <3>1, <3>3, <3>4, <3>5
  <2>2. CASE ~(Len(full) > MaxHistory)
    <3>1. log' = full /\ log' \in Seq(Events) /\ Len(log') = len + 1
      BY <1>4, <1>5, <2>2
    <3>2. d = 0 /\ len + 1 <= MaxHistory
      <4>1. ~(len + 1 > MaxHistory)
        BY <1>4, <2>2
      <4> QED BY <1>1, <1>c, <4>1
    <3>3. \A i \in 1 .. (len + 1) : log'[i] = more[d + i]
      BY <1>8, <3>1
    <3>4. len + 1 \in Nat /\ d + (len + 1) = n /\ d <= d
      BY <1>a
    <3> QED BY <1>9, <3>1, <3>2, <3>3, <3>4
  <2> QED BY <2>1, <2>2
<1> QED BY <1>1, <1>3, <1>5, <1>6, <1>10, <1>a DEF more

\* The driver does not notice what is published.
LEMMA DriverKept ==
  ASSUME StreamAssumption, TypeOK, NEW pub \in Seq(Events), History(pub), Logged(pub), Carried(pub),
         NEW e \in Events, UNCHANGED <<conn, dr>>,
         Dropped \in Nat, Dropped' \in Nat, Dropped <= Dropped'
  PROVE  Carried(Append(pub, e))'
<1> DEFINE more == Append(pub, e)
<1>1. /\ Len(pub) \in Nat /\ DOMAIN pub = 1 .. Len(pub) /\ DOMAIN more = 1 .. (Len(pub) + 1)
      /\ \A i \in 1 .. Len(pub) : more[i] = pub[i]
  BY Added
<1>2. \A i \in DOMAIN pub : i \in DOMAIN more /\ more[i] = pub[i] /\ i \in Nat
  BY <1>1
<1> HIDE DEF more
<1>3. PICK d \in Nat, m \in Nat : d = Dropped /\ m = Dropped' /\ d <= m
  OBVIOUS
<1>4. \A i \in Nat : i <= d + 1 => i <= m + 1
  <2> TAKE i \in Nat
  <2>1. d \in Nat /\ m \in Nat /\ d <= m
    BY <1>3
  <2> QED BY <2>1
<1>5. conn' = conn /\ dr' = dr
  OBVIOUS
<1>6. ASSUME NEW i \in DOMAIN conn.buf, NEW id, id = conn.buf[i].id
      PROVE  /\ id \in DOMAIN more /\ conn.buf[i] = more[id]
             /\ Before(i) < id /\ (id = Before(i) + 1 \/ id <= m + 1)
  <2>1. /\ id \in DOMAIN pub /\ conn.buf[i] = pub[id]
        /\ Before(i) < id /\ (id = Before(i) + 1 \/ id <= d + 1)
    BY <1>3, <1>6 DEF Carried
  <2> QED BY <1>2, <1>4, <2>1
<1>7. Carried(more)'
  BY <1>3, <1>5, <1>6 DEF Carried, Before, Last
<1> QED BY <1>7 DEF more

LEMMA PublishKeeps ==
  ASSUME StreamAssumption, TypeOK, TypeOK', NEW pub \in Seq(Events), NEW r \in Nat, NEW p \in Nat,
         Flow(pub, r, p), NEW e \in Events, e = Event(e.kind, e.of), Published(e.kind, e.of),
         UNCHANGED <<reader, driverVars>>, NEW q \in Nat, p <= q,
         e.kind = "note" => e.of = p + 1,
         Travel(Append(pub, e), r, q)', Ends(Append(pub, e), q)'
  PROVE  Inv'
<1> DEFINE more == Append(pub, e)
<1>1. History(pub) /\ Logged(pub) /\ Carried(pub) /\ Consumed(pub, p)
  BY DEF Flow
<1>2. /\ more \in Seq(Events) /\ History(more)' /\ Logged(more)'
      /\ nextId' = nextId + 1 /\ Dropped \in Nat /\ Dropped' \in Nat /\ Dropped <= Dropped'
  BY <1>1, LogGrows
<1>3. conn' = conn /\ dr' = dr /\ handled' = handled /\ reader' = reader
  BY DEF driverVars
<1>4. Carried(more)'
  BY <1>1, <1>2, <1>3, DriverKept
<1>5. /\ Len(pub) \in Nat /\ DOMAIN more = 1 .. (Len(pub) + 1) /\ DOMAIN pub = 1 .. Len(pub)
      /\ \A i \in 1 .. Len(pub) : more[i] = pub[i]
      /\ more[Len(pub) + 1] = e
  BY Added
<1>6. nextId \in Nat /\ Len(pub) = nextId - 1 /\ Len(handled) \in Nat
  BY <1>1 DEF History, TypeOK
<1>7. Consumed(more, q)'
  <2> HIDE DEF more
  <2>1. /\ dr.cursor \in 0 .. nextId - 1 /\ Len(handled) <= p
        /\ \A i \in DOMAIN handled : handled[i] = i
        /\ \A i \in DOMAIN pub : pub[i].kind = "note" =>
              (pub[i].of <= Len(handled) <=> i <= dr.cursor)
        /\ dr.why \in {"gap", "session_failed"} => dr.pc = "failed"
        /\ dr.why = "gap" => dr.cursor + 1 <= Dropped
        /\ dr.why = "session_failed" => reader # "reading"
    BY <1>1 DEF Consumed
  <2>2. dr.cursor \in 0 .. nextId' - 1 /\ Len(handled) <= q
    BY <1>2, <1>6, <2>1
  <2>3. dr.cursor \in Nat
    BY <2>1
  <2>4. dr.cursor + 1 <= Dropped => dr.cursor + 1 <= Dropped'
    <3>1. PICK d \in Nat, m \in Nat : d = Dropped /\ m = Dropped' /\ d <= m
      BY <1>2
    <3>2. PICK c \in Nat : c = dr.cursor
      BY <2>3
    <3>3. c + 1 <= d => c + 1 <= m
      BY <3>1
    <3> QED BY <3>1, <3>2, <3>3
  <2>5. ASSUME NEW i \in DOMAIN more, more[i].kind = "note"
        PROVE  more[i].of <= Len(handled) <=> i <= dr.cursor
    <3>1. CASE i = Len(pub) + 1
      <4>1. more[i].of = p + 1 /\ i = nextId
        BY <1>5, <1>6, <2>5, <3>1
      <4>2. ~(p + 1 <= Len(handled)) /\ ~(nextId <= dr.cursor)
        BY <1>6, <2>1
      <4> QED BY <4>1, <4>2
    <3>2. CASE i # Len(pub) + 1
      <4>1. i \in DOMAIN pub /\ more[i] = pub[i]
        BY <1>5, <3>2
      <4> QED BY <2>1, <2>5, <4>1
    <3> QED BY <3>1, <3>2
  <2> QED BY <1>3, <2>1, <2>2, <2>4, <2>5 DEF Consumed
<1>8. Flow(more, r, q)'
  BY <1>2, <1>4, <1>7 DEF Flow
<1> QED BY <1>2, <1>8 DEF Inv

LEMMA PumpNotificationKeeps ==
  ASSUME StreamAssumption, Inv, PumpNotification
  PROVE  Inv'
<1>1. PICK pub \in Seq(Events), r \in Nat, p \in Nat : Flow(pub, r, p)
  BY DEF Inv
<1>2. PICK m : m = Head(queue)
  OBVIOUS
<1>3. /\ TypeOK /\ queue \in Seq(Messages) /\ queue # <<>> /\ nextId \in Nat /\ m # Closed
      /\ pump
  BY <1>2 DEF Inv, TypeOK, PumpNotification
<1>4. /\ Carries(queue, p, r) /\ Carries(pub, 0, p) /\ r \in 0 .. sent /\ p \in 0 .. r
      /\ reader \in {"reading", "done"} => Carries(pipe, r, sent)
      /\ \A i \in DOMAIN queue : queue[i].kind \in {"note", "closed"}
  BY <1>1 DEF Flow, Travel
<1>5. /\ m = queue[1] /\ m \in Messages /\ Len(queue) \in Nat \ {0} /\ DOMAIN queue = 1 .. Len(queue)
      /\ Tail(queue) \in Seq(Messages) /\ DOMAIN Tail(queue) = 1 .. (Len(queue) - 1)
      /\ \A i \in 1 .. (Len(queue) - 1) : Tail(queue)[i] = queue[i + 1]
  BY <1>2, <1>3, Taken
<1>6. m.kind = "note" /\ m.of \in Nat
  <2>1. m.kind \in {"note", "closed"}
    BY <1>4, <1>5
  <2>2. m.kind # "closed"
    BY <1>3, <1>5 DEF Messages, Closed
  <2>3. m.kind = "note" => m.of \in Nat
    BY <1>5 DEF Messages
  <2> QED BY <2>1, <2>2, <2>3
<1>7. m.of = p + 1 /\ p < r /\ Carries(Tail(queue), p + 1, r)
  BY <1>2, <1>3, <1>4, <1>6, CarriesFirst
<1>8. PICK e \in Events : e = Event("note", m.of) /\ e.kind = "note" /\ e.of = m.of
  <2>1. Event("note", m.of) \in Events
    BY <1>3, <1>6 DEF Events, Event
  <2>2. Event("note", m.of).kind = "note" /\ Event("note", m.of).of = m.of
    BY DEF Event
  <2> QED BY <2>1, <2>2, Zenon
<1>9. /\ Published(e.kind, e.of) /\ e = Event(e.kind, e.of) /\ queue' = Tail(queue)
      /\ UNCHANGED <<procVars, pipe, reader, rpc, pump, req, closed, up, driverVars>>
  BY <1>2, <1>6, <1>8 DEF PumpNotification
<1>10. Append(pub, e) \in Seq(Events) /\ log' \in Seq(Events) /\ Len(log') <= MaxHistory /\ nextId' \in Nat
  BY <1>1, <1>3, <1>9, LogGrows DEF Flow
<1>11. TypeOK'
  BY <1>3, <1>5, <1>9, <1>10 DEF TypeOK, procVars, driverVars
<1> DEFINE more == Append(pub, e)
<1>13. /\ Len(pub) \in Nat /\ DOMAIN pub = 1 .. Len(pub) /\ DOMAIN more = 1 .. (Len(pub) + 1)
       /\ \A i \in 1 .. Len(pub) : more[i] = pub[i]
       /\ more[Len(pub) + 1] = e
  BY Added
<1> HIDE DEF more
<1>14. Travel(more, r, p + 1)'
  <2>1. Carries(more, 0, p + 1)
    <3>1. 0 \in Nat /\ 0 <= p /\ e.kind = "note" /\ e.of = p + 1
      BY <1>7, <1>8
    <3> QED BY <1>4, <3>1, CarriesNote DEF more
  <2>2. p + 1 \in 0 .. r
    BY <1>7
  <2>3. \A i \in DOMAIN queue' : queue'[i].kind \in {"note", "closed"}
    <3>1. \A i \in DOMAIN queue' : i + 1 \in DOMAIN queue /\ queue'[i] = queue[i + 1]
      BY <1>5, <1>9
    <3> QED BY <1>4, <3>1
  <2> QED BY <1>4, <1>7, <1>9, <2>1, <2>2, <2>3 DEF Travel, procVars
<1>15. Ends(more, p + 1)'
  <2>1. \A i \in DOMAIN pub : pub[i].kind # "session_failed"
    BY <1>1, <1>3 DEF Flow, Ends
  <2>2. \A i \in DOMAIN more : more[i].kind # "session_failed"
    BY <1>8, <1>13, <2>1
  <2>3. \A i \in DOMAIN queue' : i + 1 \in DOMAIN queue /\ queue'[i] = queue[i + 1] /\ i \in Nat
    BY <1>5, <1>9
  <2>4. \A i \in DOMAIN queue : queue[i].kind = "closed" =>
          /\ reader # "reading"
          /\ \A j \in DOMAIN queue : i < j => queue[j].kind # "note"
    BY <1>1 DEF Flow, Ends
  <2>5. ASSUME NEW i \in DOMAIN queue', queue'[i].kind = "closed"
        PROVE  reader # "reading" /\ \A j \in DOMAIN queue' : i < j => queue'[j].kind # "note"
    <3>1. reader # "reading" /\ \A j \in DOMAIN queue : i + 1 < j => queue[j].kind # "note"
      BY <2>3, <2>4, <2>5
    <3>2. \A j \in DOMAIN queue' : i < j => i + 1 < j + 1
      BY <2>3
    <3> QED BY <2>3, <3>1, <3>2
  <2>6. reader' = "done" => proc' = "dead" /\ pipe' = <<>>
    BY <1>1, <1>9 DEF Flow, Ends, procVars
  <2> QED BY <1>9, <2>2, <2>5, <2>6 DEF Ends
<1>16. /\ p + 1 \in Nat /\ p <= p + 1 /\ e.kind = "note" => e.of = p + 1
       /\ UNCHANGED <<reader, driverVars>>
  BY <1>7, <1>8, <1>9
<1> QED BY <1>1, <1>3, <1>9, <1>11, <1>14, <1>15, <1>16, PublishKeeps DEF more

LEMMA PumpFailsKeeps ==
  ASSUME StreamAssumption, Inv, PumpFails
  PROVE  Inv'
<1>1. PICK pub \in Seq(Events), r \in Nat, p \in Nat : Flow(pub, r, p)
  BY DEF Inv
<1>2. /\ TypeOK /\ queue \in Seq(Messages) /\ queue # <<>> /\ nextId \in Nat
      /\ Head(queue) = Closed /\ Closed.kind = "closed" /\ sent \in Nat
  BY StreamAssumption DEF Inv, TypeOK, PumpFails, Closed, StreamAssumption
<1>3. /\ Carries(queue, p, r) /\ Carries(pub, 0, p) /\ r \in 0 .. sent /\ p \in 0 .. r
      /\ reader \in {"reading", "done"} => Carries(pipe, r, sent)
      /\ \A i \in DOMAIN queue : queue[i].kind \in {"note", "closed"}
  BY <1>1 DEF Flow, Travel
<1>4. /\ Head(queue) = queue[1] /\ Len(queue) \in Nat \ {0} /\ DOMAIN queue = 1 .. Len(queue)
      /\ Tail(queue) \in Seq(Messages) /\ DOMAIN Tail(queue) = 1 .. (Len(queue) - 1)
      /\ \A i \in 1 .. (Len(queue) - 1) : Tail(queue)[i] = queue[i + 1]
  BY <1>2, Taken
<1>5. 1 \in DOMAIN queue /\ queue[1].kind = "closed"
  BY <1>2, <1>4
<1>6. reader # "reading" /\ \A j \in DOMAIN queue : queue[j].kind # "note"
  <2>1. reader # "reading" /\ \A j \in DOMAIN queue : 1 < j => queue[j].kind # "note"
    BY <1>1, <1>5 DEF Flow, Ends
  <2>2. \A j \in DOMAIN queue : j = 1 \/ 1 < j
    BY <1>4
  <2> QED BY <1>5, <2>1, <2>2
<1>7. p = r
  <2>1. CASE p < r
    <3>1. p + 1 \in (p + 1) .. r
      BY <1>3, <2>1
    <3> QED BY <1>3, <1>6, <3>1 DEF Carries
  <2> QED BY <1>3, <2>1
<1>8. reader = "done" => p = sent
  <2>1. CASE reader = "done" /\ r < sent
    <3>1. pipe = <<>> /\ Carries(pipe, r, sent)
      BY <1>1, <1>3, <2>1 DEF Flow, Ends
    <3>2. r + 1 \in (r + 1) .. sent
      BY <1>2, <1>3, <2>1
    <3> QED BY <3>1, <3>2 DEF Carries
  <2> QED BY <1>2, <1>3, <1>7, <2>1
<1>9. PICK e \in Events : e = Event("session_failed", None) /\ e.kind = "session_failed" /\ e.of = None
  <2>1. Event("session_failed", None) \in Events
    BY <1>2 DEF Events, Event
  <2>2. Event("session_failed", None).kind = "session_failed" /\ Event("session_failed", None).of = None
    BY DEF Event
  <2> QED BY <2>1, <2>2, Zenon
<1>10. /\ Published(e.kind, e.of) /\ e = Event(e.kind, e.of) /\ queue' = Tail(queue)
       /\ pump' = FALSE /\ closed' = TRUE
       /\ UNCHANGED <<procVars, pipe, reader, rpc, req, up, driverVars>>
  BY <1>9 DEF PumpFails
<1>11. Append(pub, e) \in Seq(Events) /\ log' \in Seq(Events) /\ Len(log') <= MaxHistory /\ nextId' \in Nat
  BY <1>1, <1>2, <1>10, LogGrows DEF Flow
<1>12. TypeOK'
  <2>1. pump' \in BOOLEAN /\ closed' \in BOOLEAN
    BY <1>10
  <2> QED BY <1>2, <1>4, <1>10, <1>11, <2>1 DEF TypeOK, procVars, driverVars
<1> DEFINE more == Append(pub, e)
<1>13. /\ Len(pub) \in Nat /\ DOMAIN pub = 1 .. Len(pub) /\ DOMAIN more = 1 .. (Len(pub) + 1)
       /\ \A i \in 1 .. Len(pub) : more[i] = pub[i]
       /\ more[Len(pub) + 1] = e
  BY Added
<1> HIDE DEF more
<1>14. \A i \in DOMAIN queue' : i + 1 \in DOMAIN queue /\ queue'[i] = queue[i + 1]
  BY <1>4, <1>10
<1>15. Travel(more, r, p)'
  <2>1. Carries(more, 0, p)
    <3>1. 0 \in Nat /\ e.kind # "note"
      BY <1>9
    <3> QED BY <1>3, <3>1, CarriesOther DEF more
  <2>2. Carries(queue', p, r)
    BY <1>2, <1>3, <1>10, CarriesFirst
  <2>3. \A i \in DOMAIN queue' : queue'[i].kind \in {"note", "closed"}
    BY <1>3, <1>14
  <2> QED BY <1>3, <1>10, <2>1, <2>2, <2>3 DEF Travel, procVars
<1>16. Ends(more, p)'
  <2>1. \A j \in DOMAIN queue' : queue'[j].kind # "note"
    BY <1>6, <1>14
  <2>2. reader' = "done" => proc' = "dead" /\ pipe' = <<>>
    BY <1>1, <1>10 DEF Flow, Ends, procVars
  <2>3. \A i \in DOMAIN pub : pub[i].kind = "session_failed" =>
          \A j \in DOMAIN pub : i < j => pub[j].kind # "note"
    BY <1>1 DEF Flow, Ends
  <2>4. ASSUME NEW i \in DOMAIN more, more[i].kind = "session_failed", NEW j \in DOMAIN more, i < j
        PROVE  more[j].kind # "note"
    <3>1. CASE j = Len(pub) + 1
      BY <1>9, <1>13, <3>1
    <3>2. CASE j # Len(pub) + 1
      <4>1. j \in DOMAIN pub /\ i \in DOMAIN pub
        BY <1>13, <2>4, <3>2
      <4>2. more[j] = pub[j] /\ more[i] = pub[i]
        BY <1>13, <4>1
      <4> QED BY <2>3, <2>4, <4>1, <4>2
    <3> QED BY <3>1, <3>2
  <2>5. ~pump' /\ reader' # "reading" /\ (reader' = "done" => p = sent')
    BY <1>6, <1>8, <1>10 DEF procVars
  <2> QED BY <1>6, <1>10, <2>1, <2>2, <2>4, <2>5 DEF Ends
<1>17. /\ p \in Nat /\ p <= p /\ e.kind = "note" => e.of = p + 1
       /\ UNCHANGED <<reader, driverVars>>
  BY <1>9, <1>10
<1> QED BY <1>1, <1>2, <1>10, <1>12, <1>15, <1>16, <1>17, PublishKeeps DEF more

LEMMA PublishRequestKeeps ==
  ASSUME StreamAssumption, Inv, NEW a \in Request, PublishRequest(a)
  PROVE  Inv'
<1>1. PICK pub \in Seq(Events), r \in Nat, p \in Nat : Flow(pub, r, p)
  BY DEF Inv
<1>2. TypeOK /\ nextId \in Nat
  BY DEF Inv, TypeOK
<1>3. UNCHANGED <<procVars, sessionVars, pump, closed, up, driverVars>>
  BY DEF PublishRequest
<1>4. CASE a \in Elicitation
  <2>1. PICK e \in Events : e = Event("request", a) /\ e.kind = "request" /\ e.of = a
    <3>1. Event("request", a) \in Events
      BY <1>2 DEF Events, Event
    <3>2. Event("request", a).kind = "request" /\ Event("request", a).of = a
      BY DEF Event
    <3> QED BY <3>1, <3>2, Zenon
  <2>2. Published(e.kind, e.of) /\ e = Event(e.kind, e.of) /\ req' = [req EXCEPT ![a] = "waiting"]
    BY <1>4, <2>1 DEF PublishRequest
  <2>3. /\ Append(pub, e) \in Seq(Events) /\ log' \in Seq(Events) /\ Len(log') <= MaxHistory
        /\ nextId' \in Nat
    BY <1>1, <1>2, <2>2, LogGrows DEF Flow
  <2>4. TypeOK'
    BY <1>2, <1>3, <2>2, <2>3 DEF TypeOK, procVars, sessionVars, driverVars
  <2> DEFINE more == Append(pub, e)
  <2>5. /\ Len(pub) \in Nat /\ DOMAIN pub = 1 .. Len(pub) /\ DOMAIN more = 1 .. (Len(pub) + 1)
        /\ \A i \in 1 .. Len(pub) : more[i] = pub[i]
        /\ more[Len(pub) + 1] = e
    BY Added
  <2> HIDE DEF more
  <2>6. Travel(more, r, p)'
    <3>1. Carries(more, 0, p)
      <4>1. 0 \in Nat /\ e.kind # "note" /\ Carries(pub, 0, p)
        BY <1>1, <2>1 DEF Flow, Travel
      <4> QED BY <4>1, CarriesOther DEF more
    <3> QED BY <1>1, <1>3, <3>1 DEF Flow, Travel, procVars, sessionVars
  <2>7. Ends(more, p)'
    <3>1. \A i \in DOMAIN more : more[i].kind # "request" => i \in DOMAIN pub /\ more[i] = pub[i]
      BY <2>1, <2>5
    <3>2. \A i \in DOMAIN pub : pub[i].kind = "session_failed" =>
            /\ ~pump /\ reader # "reading" /\ (reader = "done" => p = sent)
            /\ \A j \in DOMAIN pub : i < j => pub[j].kind # "note"
      BY <1>1 DEF Flow, Ends
    <3>3. \A i \in DOMAIN more : more[i].kind = "session_failed" =>
            /\ ~pump /\ reader # "reading" /\ (reader = "done" => p = sent)
            /\ \A j \in DOMAIN more : i < j => more[j].kind # "note"
      <4> TAKE i \in DOMAIN more
      <4> HAVE more[i].kind = "session_failed"
      <4>1. i \in DOMAIN pub /\ more[i] = pub[i]
        BY <3>1
      <4>2. \A j \in DOMAIN more : more[j].kind = "note" => j \in DOMAIN pub /\ more[j] = pub[j]
        BY <3>1
      <4> QED BY <3>2, <4>1, <4>2
    <3>4. /\ reader = "done" => proc = "dead" /\ pipe = <<>>
          /\ \A i \in DOMAIN queue : queue[i].kind = "closed" =>
                /\ reader # "reading"
                /\ \A j \in DOMAIN queue : i < j => queue[j].kind # "note"
      BY <1>1 DEF Flow, Ends
    <3>5. /\ reader' = reader /\ proc' = proc /\ pipe' = pipe /\ queue' = queue /\ sent' = sent
          /\ pump' = pump
      BY <1>3 DEF procVars, sessionVars
    <3> QED BY <3>3, <3>4, <3>5 DEF Ends
  <2>8. /\ p <= p /\ e.kind = "note" => e.of = p + 1
        /\ UNCHANGED <<reader, driverVars>>
    BY <1>3, <2>1 DEF sessionVars
  <2> QED BY <1>1, <1>2, <2>2, <2>4, <2>6, <2>7, <2>8, PublishKeeps DEF more
<1>5. CASE a \notin Elicitation
  <2>1. req' = [req EXCEPT ![a] = "rejected"] /\ UNCHANGED <<log, nextId>>
    BY <1>5 DEF PublishRequest, Reply
  <2>2. TypeOK'
    BY <1>2, <1>3, <2>1 DEF TypeOK, procVars, sessionVars, driverVars
  <2> QED BY <1>3, <2>1, <2>2, QuietKeeps DEF procVars, sessionVars
<1> QED BY <1>4, <1>5

-----------------------------------------------------------------------------
(* The driver.                                                             *)
StreamVars == <<proc, sent, pipe, reader, queue, pump, log, nextId>>

DriverStates ==
    [pc : {"connect", "reading", "asking", "retry", "done", "failed"}, cursor : Nat,
     why : {"none", "gap", "session_failed", "lease", "cancelled", "sandbox", "timeout"}]

LEMMA DriverKeeps ==
  ASSUME TypeOK', NEW pub \in Seq(Events), NEW r \in Nat, NEW p \in Nat, Flow(pub, r, p),
         UNCHANGED StreamVars, Carried(pub)', Consumed(pub, p)'
  PROVE  Inv'
<1>1. /\ proc' = proc /\ sent' = sent /\ pipe' = pipe /\ reader' = reader /\ queue' = queue
      /\ pump' = pump /\ log' = log /\ nextId' = nextId
  BY DEF StreamVars
<1>2. History(pub)' /\ Logged(pub)'
  BY <1>1 DEF Flow, History, Logged, Dropped
<1>3. Travel(pub, r, p)'
  BY <1>1 DEF Flow, Travel
<1>4. Ends(pub, p)'
  BY <1>1 DEF Flow, Ends
<1> QED BY <1>2, <1>3, <1>4 DEF Inv, Flow

\* The driver gives the stream up, and its cursor stays where it was.
LEMMA DriverLeaves ==
  ASSUME TypeOK', NEW pub \in Seq(Events), NEW r \in Nat, NEW p \in Nat, Flow(pub, r, p),
         UNCHANGED StreamVars, handled' = handled, conn' = NoStream,
         dr'.pc \notin Streaming, dr'.cursor = dr.cursor,
         dr'.why \in {"gap", "session_failed"} => dr'.pc = "failed",
         dr'.why = "gap" => dr.cursor + 1 <= Dropped,
         dr'.why = "session_failed" => reader # "reading"
  PROVE  Inv'
<1>1. /\ reader' = reader /\ log' = log /\ nextId' = nextId
  BY DEF StreamVars
<1>2. Dropped' = Dropped
  BY <1>1 DEF Dropped
<1>3. Carried(pub)'
  <2>1. conn'.at = None /\ conn'.buf = <<>>
    BY DEF NoStream
  <2>2. dr'.pc # "asking" /\ DOMAIN conn'.buf = {}
    BY <2>1 DEF Streaming
  <2> QED BY <2>1, <2>2 DEF Carried
<1>4. Consumed(pub, p)'
  BY <1>1, <1>2 DEF Flow, Consumed
<1> QED BY <1>3, <1>4, DriverKeeps

\* A step with the log and the connection as they are, or a fresh connection.
LEMMA ConnectKeeps ==
  ASSUME StreamAssumption, Inv, Connect
  PROVE  Inv'
<1>1. PICK pub \in Seq(Events), r \in Nat, p \in Nat : Flow(pub, r, p)
  BY DEF Inv
<1>2. TypeOK /\ Carried(pub) /\ Consumed(pub, p) /\ dr.pc = "connect"
  BY <1>1 DEF Inv, Flow, Connect
<1>3. UNCHANGED <<procVars, sessionVars, workerVars, handled, abort, drops>>
  BY DEF Connect
<1>4. UNCHANGED StreamVars
  BY <1>3 DEF StreamVars, procVars, sessionVars, workerVars
<1>5. dr.cursor \in Nat /\ <<>> \in Seq(Events)
  BY <1>2 DEF TypeOK
<1>6. CASE up
  <2>1. conn' = [buf |-> <<>>, at |-> dr.cursor] /\ dr' = [dr EXCEPT !.pc = "reading"]
    BY <1>6 DEF Connect, Drive
  <2>2. /\ conn' \in [buf : Seq(Events), at : Nat \cup {None}]
        /\ conn'.buf = <<>> /\ conn'.at = dr.cursor
        /\ dr'.pc = "reading" /\ dr'.cursor = dr.cursor /\ dr'.why = dr.why
    BY <1>2, <1>5, <2>1 DEF TypeOK
  <2>3. TypeOK'
    BY <1>2, <1>3, <2>1, <2>2 DEF TypeOK, procVars, sessionVars, workerVars
  <2>4. Carried(pub)'
    <3>1. conn'.at # None /\ dr'.pc \in Streaming /\ dr'.pc # "asking" /\ DOMAIN conn'.buf = {}
      BY <1>5, <2>2, StreamAssumption DEF Streaming, StreamAssumption
    <3> QED BY <2>2, <3>1 DEF Carried, Last
  <2>5. Consumed(pub, p)'
    <3>1. dr.why \notin {"gap", "session_failed"}
      BY <1>2 DEF Consumed
    <3> QED BY <1>2, <1>3, <2>2, <3>1 DEF Consumed, workerVars
  <2> QED BY <1>1, <1>4, <2>3, <2>4, <2>5, DriverKeeps
<1>7. CASE ~up
  <2>1. conn' = NoStream /\ dr' = [dr EXCEPT !.pc = "retry"]
    BY <1>7 DEF Connect, Drive
  <2>2. /\ conn' \in [buf : Seq(Events), at : Nat \cup {None}]
        /\ dr'.pc = "retry" /\ dr'.cursor = dr.cursor /\ dr'.why = dr.why
    BY <1>2, <1>5, <2>1 DEF TypeOK, NoStream
  <2>3. TypeOK'
    BY <1>2, <1>3, <2>1, <2>2 DEF TypeOK, procVars, sessionVars, workerVars
  <2>4. dr.why \notin {"gap", "session_failed"} /\ dr'.pc \notin Streaming
    BY <1>2, <2>2 DEF Consumed, Streaming
  <2> QED BY <1>1, <1>3, <1>4, <2>1, <2>2, <2>3, <2>4, DriverLeaves
<1> QED BY <1>6, <1>7

\* The position of a stream is one of the log's, or before it.
LEMMA PositionInRange ==
  ASSUME StreamAssumption, TypeOK, NEW pub \in Seq(Events), NEW p \in Nat,
         History(pub), Carried(pub), Consumed(pub, p)
  PROVE  Last \in 0 .. nextId - 1
<1>1. CASE conn.buf = <<>>
  BY <1>1 DEF Last, Consumed
<1>2. CASE conn.buf # <<>>
  <2>1. conn.buf \in Seq(Events) /\ nextId \in Nat
    BY DEF TypeOK
  <2>2. Len(conn.buf) \in Nat \ {0} /\ DOMAIN conn.buf = 1 .. Len(conn.buf)
    BY <1>2, <2>1, Taken
  <2>3. Len(conn.buf) \in DOMAIN conn.buf
    BY <2>2
  <2>4. conn.buf[Len(conn.buf)].id \in DOMAIN pub
    BY <2>3 DEF Carried
  <2>5. DOMAIN pub = 1 .. (nextId - 1)
    BY LenProperties DEF History
  <2>6. conn.buf[Len(conn.buf)].id \in 0 .. nextId - 1
    BY <2>1, <2>4, <2>5
  <2> QED BY <1>2, <2>6 DEF Last
<1> QED BY <1>1, <1>2

\* What the log has after an id: the event that follows it, unless dropped,
\* and then one after the other up to the newest.
Follows(pub, c, m) ==
    /\ c <= m /\ (m = c \/ m = Dropped) /\ m <= nextId - 1
    /\ Newer(c) \in Seq(Events) /\ Len(Newer(c)) = nextId - 1 - m
    /\ \A i \in 1 .. (nextId - 1 - m) :
          m + i \in DOMAIN pub /\ Newer(c)[i] = pub[m + i] /\ pub[m + i].id = m + i

LEMMA NewerFollows ==
  ASSUME StreamAssumption, TypeOK, NEW pub \in Seq(Events), History(pub), Logged(pub),
         NEW c \in 0 .. nextId - 1
  PROVE  \E m \in Nat : Follows(pub, c, m)
<1>d. PICK d \in Nat : d = Dropped
  <2>1. Dropped \in Nat
    BY DEF Logged
  <2> QED BY <2>1, Zenon
<1>1. /\ nextId \in Nat \ {0} /\ Len(log) \in Nat /\ log \in Seq(Events) /\ DOMAIN log = 1 .. Len(log)
      /\ DOMAIN pub = 1 .. (nextId - 1) /\ d + Len(log) = nextId - 1
  BY <1>d, Numbers
<1>n. PICK n \in Nat : n = nextId - 1
  <2>1. nextId - 1 \in Nat
    BY <1>1
  <2> QED BY <2>1, Zenon
<1>l. PICK len \in Nat : len = Len(log)
  <2>1. Len(log) \in Nat
    BY <1>1
  <2> QED BY <2>1, Zenon
<1>2. d + len = n
  BY <1>1, <1>n, <1>l
<1>3. DOMAIN log = 1 .. len /\ DOMAIN pub = 1 .. n /\ c \in 0 .. n
  BY <1>1, <1>n, <1>l
<1>4. \A i \in 1 .. len : log[i] = pub[d + i] /\ d + i \in 1 .. n
  <2>1. \A i \in 1 .. len : log[i] = pub[d + i]
    BY <1>d, <1>3 DEF Logged
  <2>2. \A i \in 1 .. len : d + i \in 1 .. n
    BY <1>2
  <2> QED BY <2>1, <2>2
<1>5. \A i \in 1 .. n : pub[i].id = i
  BY <1>3 DEF History
<1>6. \A i \in 1 .. len : log[i].id = d + i
  BY <1>4, <1>5
<1> DEFINE IsFirst(f) == \A j \in DOMAIN log : log[j].id > c <=> f <= j
<1>7. \E f \in 1 .. Len(log) + 1 : IsFirst(f)
  <2>1. CASE c <= d
    <3>1. \A j \in 1 .. len : d + j > c <=> 1 <= j
      BY <2>1
    <3>2. IsFirst(1)
      BY <1>3, <1>6, <3>1
    <3>3. 1 \in 1 .. Len(log) + 1
      BY <1>l
    <3> QED BY <3>2, <3>3
  <2>2. CASE d < c
    <3>1. PICK f \in 1 .. len + 1 : f = c - d + 1
      <4>1. c - d + 1 \in 1 .. len + 1
        BY <1>2, <1>3, <2>2
      <4> QED BY <4>1
    <3>2. \A j \in 1 .. len : d + j > c <=> f <= j
      BY <1>3, <3>1
    <3>3. IsFirst(f)
      <4> SUFFICES ASSUME NEW j \in DOMAIN log PROVE log[j].id > c <=> f <= j
        OBVIOUS
      <4>1. j \in 1 .. len
        BY <1>3
      <4>2. log[j].id = d + j /\ (d + j > c <=> f <= j)
        BY <1>6, <3>2, <4>1
      <4> QED BY <4>2
    <3>4. f \in 1 .. Len(log) + 1
      BY <1>l
    <3> HIDE DEF IsFirst
    <3> QED BY <3>3, <3>4
  <2> QED BY <1>3, <2>1, <2>2
<1>8. PICK f \in 1 .. len + 1 : IsFirst(f) /\ Newer(c) = SubSeq(log, f, Len(log))
  <2>1. PICK g : g = CHOOSE i \in 1 .. Len(log) + 1 : IsFirst(i)
    OBVIOUS
  <2> HIDE DEF IsFirst
  <2>2. g \in 1 .. Len(log) + 1 /\ IsFirst(g)
    BY <1>7, <2>1, Zenon
  <2>3. Newer(c) = SubSeq(log, g, Len(log))
    BY <2>1 DEF Newer, IsFirst
  <2> QED BY <1>l, <2>2, <2>3
<1>9. \A j \in 1 .. len : d + j > c <=> f <= j
  BY <1>3, <1>6, <1>8
<1>10. PICK m \in Nat : m = d + f - 1
  <2>1. d + f - 1 \in Nat
    OBVIOUS
  <2> QED BY <2>1
<1>11. c <= m /\ m <= n
  <2>1. CASE f = len + 1
    BY <1>2, <1>3, <1>10, <2>1
  <2>2. CASE f # len + 1
    <3>1. f \in 1 .. len
      BY <2>2
    <3>2. d + f > c
      BY <1>9, <3>1
    <3> QED BY <1>2, <1>3, <1>10, <3>1, <3>2
  <2> QED BY <2>1, <2>2
<1>12. m = c \/ m = d
  <2>1. CASE f = 1
    BY <1>10, <2>1
  <2>2. CASE f # 1
    <3>1. PICK g \in 1 .. len : g = f - 1
      <4>1. f - 1 \in 1 .. len
        BY <2>2
      <4> QED BY <4>1
    <3>2. ~(d + g > c)
      <4>1. ~(f <= g)
        BY <3>1
      <4> QED BY <1>9, <4>1
    <3> QED BY <1>3, <1>10, <1>11, <3>1, <3>2
  <2> QED BY <2>1, <2>2
<1>13. n - m = len - f + 1 /\ n - m \in Nat
  BY <1>2, <1>10, <1>11
<1>14. /\ Newer(c) \in Seq(Events) /\ Len(Newer(c)) = n - m
       /\ \A i \in 1 .. (n - m) : Newer(c)[i] = log[f + i - 1]
  <2>1. f \in Int /\ len \in Int /\ \A i \in f .. len : i \in 1 .. len
    OBVIOUS
  <2>2. \A i \in f .. len : log[i] \in Events
    BY <1>1, <1>l, <2>1, ElementOfSeq
  <2>3. /\ SubSeq(log, f, len) \in Seq(Events)
        /\ Len(SubSeq(log, f, len)) = IF f <= len THEN len - f + 1 ELSE 0
        /\ \A i \in 1 .. (len - f + 1) : SubSeq(log, f, len)[i] = log[f + i - 1]
    BY <2>1, <2>2, SubSeqProperties
  <2>4. (IF f <= len THEN len - f + 1 ELSE 0) = n - m
    BY <1>13
  <2> QED BY <1>8, <1>l, <1>13, <2>3, <2>4
<1>15. ASSUME NEW i \in 1 .. (n - m)
       PROVE  m + i \in 1 .. n /\ Newer(c)[i] = pub[m + i] /\ pub[m + i].id = m + i
  <2>1. m + i \in 1 .. n /\ d + (f + i - 1) = m + i /\ f + i - 1 \in 1 .. len
    BY <1>10, <1>13
  <2>2. log[f + i - 1] = pub[m + i]
    BY <1>4, <2>1
  <2> QED BY <1>5, <1>14, <2>1, <2>2
<1>16. Follows(pub, c, m)
  BY <1>3, <1>11, <1>12, <1>14, <1>15, <1>n, <1>d DEF Follows
<1> QED BY <1>16

LEMMA StreamReadsKeeps ==
  ASSUME StreamAssumption, Inv, StreamReads
  PROVE  Inv'
<1>1. PICK pub \in Seq(Events), r \in Nat, p \in Nat : Flow(pub, r, p)
  BY DEF Inv
<1>2. TypeOK /\ History(pub) /\ Logged(pub) /\ Carried(pub) /\ Consumed(pub, p)
  BY <1>1 DEF Inv, Flow
<1>3. /\ conn' = [buf |-> conn.buf \o Newer(conn.at), at |-> nextId - 1]
      /\ conn.at # None /\ Newer(conn.at) # <<>> /\ dr' = dr /\ handled' = handled
      /\ UNCHANGED <<procVars, sessionVars, workerVars, dr, handled, abort, drops>>
  BY DEF StreamReads, After
<1>4. UNCHANGED StreamVars /\ log' = log /\ nextId' = nextId /\ reader' = reader
  BY <1>3 DEF StreamVars, procVars, sessionVars, workerVars
<1>5. conn.at = Last /\ dr.pc \in Streaming
  BY <1>2, <1>3 DEF Carried
<1>6. PICK at \in 0 .. nextId - 1 : at = Last
  <2>1. Last \in 0 .. nextId - 1
    BY <1>2, PositionInRange
  <2> QED BY <2>1, Zenon
<1>7. PICK d \in Nat : d = Dropped
  <2>1. Dropped \in Nat
    BY <1>2 DEF Logged
  <2> QED BY <2>1, Zenon
<1>8. PICK n \in Nat : n = nextId - 1
  <2>1. nextId - 1 \in Nat
    <3>1. Len(pub) \in Nat /\ Len(pub) = nextId - 1
      BY <1>2, LenProperties DEF History
    <3> QED BY <3>1
  <2> QED BY <2>1, Zenon
<1> DEFINE more == Newer(at)
<1>m. PICK m \in Nat : Follows(pub, at, m)
  BY <1>2, NewerFollows
<1>9. /\ at <= m /\ (m = at \/ m = d) /\ m <= n
      /\ more \in Seq(Events) /\ Len(more) = n - m
      /\ \A i \in 1 .. (n - m) : m + i \in DOMAIN pub /\ more[i] = pub[m + i] /\ pub[m + i].id = m + i
  <2>1. \A i \in 1 .. (n - m) : m + i \in DOMAIN pub /\ Newer(at)[i] = pub[m + i] /\ pub[m + i].id = m + i
    BY <1>m, <1>8, Zenon DEF Follows
  <2>2. at <= m /\ (m = at \/ m = d) /\ m <= n /\ Newer(at) \in Seq(Events) /\ Len(Newer(at)) = n - m
    BY <1>m, <1>7, <1>8, Zenon DEF Follows
  <2> QED BY <2>1, <2>2
<1>10. PICK k \in Nat : k = Len(conn.buf)
  <2>1. Len(conn.buf) \in Nat
    BY <1>2 DEF TypeOK
  <2> QED BY <2>1, Zenon
<1> DEFINE buf == conn.buf \o more
<1>11. /\ conn.buf \in Seq(Events) /\ DOMAIN conn.buf = 1 .. k
       /\ buf \in Seq(Events) /\ Len(buf) = k + (n - m) /\ DOMAIN buf = 1 .. k + (n - m)
       /\ \A i \in 1 .. k + (n - m) : buf[i] = IF i <= k THEN conn.buf[i] ELSE more[i - k]
  <2>1. conn.buf \in Seq(Events) /\ DOMAIN conn.buf = 1 .. k
    BY <1>2, <1>10 DEF TypeOK
  <2>2. more \in Seq(Events) /\ Len(more) = n - m
    BY <1>9
  <2> HIDE DEF more
  <2>3. /\ buf \in Seq(Events) /\ Len(buf) = k + (n - m)
        /\ \A i \in 1 .. k + (n - m) : buf[i] = IF i <= k THEN conn.buf[i] ELSE more[i - k]
    <3>1. PICK s \in Seq(Events) : s = conn.buf
      BY <2>1
    <3>2. /\ s \o more \in Seq(Events) /\ Len(s \o more) = Len(s) + Len(more)
          /\ \A i \in 1 .. Len(s) + Len(more) :
                (s \o more)[i] = IF i <= Len(s) THEN s[i] ELSE more[i - Len(s)]
      BY <2>2, ConcatProperties
    <3>3. Len(s) = k
      BY <1>10, <3>1
    <3>4. /\ s \o more \in Seq(Events) /\ Len(s \o more) = k + (n - m)
          /\ \A i \in 1 .. k + (n - m) : (s \o more)[i] = IF i <= k THEN s[i] ELSE more[i - k]
      BY <2>2, <3>2, <3>3, Zenon
    <3> QED BY <3>1, <3>4, Zenon
  <2>4. DOMAIN buf = 1 .. Len(buf)
    BY <2>3, LenProperties
  <2> QED BY <2>1, <2>3, <2>4
<1>12. m < n
  <2>1. more # <<>>
    BY <1>3, <1>5, <1>6
  <2>2. Len(more) \in Nat \ {0}
    BY <1>9, <2>1, EmptySeq
  <2> QED BY <1>9, <2>2
<1>13. conn'.buf = buf /\ conn'.at = n
  BY <1>3, <1>5, <1>6, <1>8
<1> HIDE DEF more, buf
<1>14. \A i \in 1 .. k : buf[i] = conn.buf[i]
  BY <1>9, <1>11
<1>15. ASSUME NEW i \in 1 .. (n - m)
       PROVE  buf[k + i] = pub[m + i] /\ m + i \in DOMAIN pub /\ buf[k + i].id = m + i
  <2>1. k + i \in 1 .. k + (n - m) /\ ~(k + i <= k) /\ (k + i) - k = i
    BY <1>9
  <2>2. buf[k + i] = more[i]
    BY <1>11, <2>1
  <2> QED BY <1>9, <2>2
<1>16. TypeOK'
  <2>1. conn' \in [buf : Seq(Events), at : Nat \cup {None}]
    <3>1. conn' = [buf |-> buf, at |-> n]
      BY <1>3, <1>5, <1>6, <1>8 DEF buf, more
    <3> QED BY <1>11, <3>1
  <2> QED BY <1>2, <1>3, <2>1 DEF TypeOK, procVars, sessionVars, workerVars
<1>17. Dropped' = d
  BY <1>4, <1>7 DEF Dropped
<1>18. Last = IF k = 0 THEN dr.cursor ELSE conn.buf[k].id
  <2>1. conn.buf = <<>> <=> k = 0
    BY <1>10, <1>11, EmptySeq
  <2> QED BY <1>10, <2>1 DEF Last
<1>19. ASSUME NEW i \in 1 .. k + (n - m), NEW id, id = buf[i].id
       PROVE  /\ id \in DOMAIN pub /\ buf[i] = pub[id]
              /\ (IF i = 1 THEN dr.cursor ELSE buf[i - 1].id) < id
              /\ id = (IF i = 1 THEN dr.cursor ELSE buf[i - 1].id) + 1 \/ id <= d + 1
  <2>1. CASE i <= k
    <3>1. i \in DOMAIN conn.buf /\ buf[i] = conn.buf[i] /\ (i # 1 => buf[i - 1] = conn.buf[i - 1])
      <4>1. i \in 1 .. k /\ (i # 1 => i - 1 \in 1 .. k)
        BY <2>1
      <4> QED BY <1>11, <1>14, <4>1
    <3>2. /\ id \in DOMAIN pub /\ conn.buf[i] = pub[id]
          /\ Before(i) < id /\ (id = Before(i) + 1 \/ id <= Dropped + 1)
      BY <1>2, <1>19, <3>1 DEF Carried
    <3>3. Before(i) = IF i = 1 THEN dr.cursor ELSE buf[i - 1].id
      BY <3>1 DEF Before
    <3> QED BY <1>7, <3>1, <3>2, <3>3
  <2>2. CASE i = k + 1
    <3>1. 1 \in 1 .. (n - m)
      BY <1>12
    <3>2. id = m + 1 /\ buf[i] = pub[id] /\ id \in DOMAIN pub
      BY <1>15, <1>19, <2>2, <3>1
    <3>3. (IF i = 1 THEN dr.cursor ELSE buf[i - 1].id) = at
      <4>1. CASE k = 0
        BY <1>6, <1>18, <2>2, <4>1
      <4>2. CASE k # 0
        <5>1. i # 1 /\ i - 1 = k /\ k \in 1 .. k
          BY <2>2, <4>2
        <5> QED BY <1>6, <1>14, <1>18, <4>2, <5>1
      <4> QED BY <4>1, <4>2
    <3>4. at < m + 1 /\ (m + 1 = at + 1 \/ m + 1 <= d + 1)
      BY <1>9
    <3> QED BY <3>2, <3>3, <3>4
  <2>3. CASE k + 1 < i
    <3>1. PICK j \in 1 .. (n - m) : i = k + j /\ j - 1 \in 1 .. (n - m) /\ i - 1 = k + (j - 1) /\ i # 1
      <4>1. i - k \in 1 .. (n - m) /\ i = k + (i - k) /\ (i - k) - 1 \in 1 .. (n - m)
            /\ i - 1 = k + ((i - k) - 1) /\ i # 1
        BY <1>9, <2>3
      <4> QED BY <4>1
    <3>2. id = m + j /\ buf[i] = pub[id] /\ id \in DOMAIN pub /\ buf[i - 1].id = m + (j - 1)
      BY <1>15, <1>19, <3>1
    <3>3. m + (j - 1) < m + j /\ m + j = (m + (j - 1)) + 1
      OBVIOUS
    <3> QED BY <3>1, <3>2, <3>3
  <2> QED BY <1>9, <2>1, <2>2, <2>3
<1>20. n = buf[k + (n - m)].id /\ buf # <<>> /\ Len(buf) = k + (n - m)
  <2>1. n - m \in 1 .. (n - m) /\ m + (n - m) = n
    BY <1>12
  <2>2. buf[k + (n - m)].id = n
    BY <1>15, <2>1
  <2>3. Len(buf) # 0
    BY <1>11, <1>12
  <2> QED BY <1>11, <2>2, <2>3
<1>21. Carried(pub)'
  <2>1. conn'.at # None /\ conn'.at = Last'
    BY <1>8, <1>13, <1>20, StreamAssumption DEF Last, StreamAssumption
  <2>2. dr.pc = "asking" => /\ buf # <<>> /\ buf[1].kind = "request" /\ buf[1].id = dr.cursor + 1
    <3>1. CASE dr.pc = "asking"
      <4>1. conn.buf # <<>> /\ conn.buf[1].kind = "request" /\ conn.buf[1].id = dr.cursor + 1
        BY <1>2, <3>1 DEF Carried
      <4>2. 1 \in 1 .. k
        BY <1>10, <1>11, <4>1, EmptySeq
      <4> QED BY <1>14, <1>20, <4>1, <4>2
    <3> QED BY <3>1
  <2>3. ASSUME NEW i \in DOMAIN conn'.buf, NEW id, id = conn'.buf[i].id
        PROVE  /\ id \in DOMAIN pub /\ conn'.buf[i] = pub[id]
               /\ Before(i)' < id /\ (id = Before(i)' + 1 \/ id <= Dropped' + 1)
    <3>1. i \in 1 .. k + (n - m) /\ id = buf[i].id
      BY <1>11, <1>13, <2>3
    <3>2. Before(i)' = IF i = 1 THEN dr.cursor ELSE buf[i - 1].id
      BY <1>3, <1>13 DEF Before
    <3>3. /\ id \in DOMAIN pub /\ buf[i] = pub[id]
          /\ Before(i)' < id /\ (id = Before(i)' + 1 \/ id <= d + 1)
      BY <1>19, <3>1, <3>2
    <3> QED BY <1>13, <1>17, <3>3, Zenon
  <2> QED BY <1>3, <1>5, <1>13, <2>1, <2>2, <2>3 DEF Carried
<1>22. Consumed(pub, p)'
  BY <1>2, <1>3, <1>4, <1>7, <1>17 DEF Consumed
<1> QED BY <1>1, <1>4, <1>16, <1>21, <1>22, DriverKeeps

LEMMA StreamEndsKeeps ==
  ASSUME StreamAssumption, Inv, StreamEnds
  PROVE  Inv'
<1>1. PICK pub \in Seq(Events), r \in Nat, p \in Nat : Flow(pub, r, p)
  BY DEF Inv
<1>2. TypeOK /\ Consumed(pub, p) /\ dr.pc = "reading" /\ <<>> \in Seq(Events)
  BY <1>1 DEF Inv, Flow, StreamEnds
<1>3. /\ conn' = NoStream /\ dr' = [dr EXCEPT !.pc = "retry"]
      /\ UNCHANGED <<procVars, sessionVars, workerVars, handled, abort>>
      /\ drops' = drops \/ (drops < MaxDrops /\ drops' = drops + 1)
  BY DEF StreamEnds, Drive
<1>4. UNCHANGED StreamVars
  BY <1>3 DEF StreamVars, procVars, sessionVars, workerVars
<1>5. /\ conn' \in [buf : Seq(Events), at : Nat \cup {None}]
      /\ dr'.pc = "retry" /\ dr'.cursor = dr.cursor /\ dr'.why = dr.why
  BY <1>2, <1>3 DEF TypeOK, NoStream
<1>6. drops' \in 0 .. MaxDrops
  BY <1>2, <1>3, StreamAssumption DEF TypeOK, StreamAssumption
<1>7. TypeOK'
  BY <1>2, <1>3, <1>5, <1>6 DEF TypeOK, procVars, sessionVars, workerVars
<1>8. dr.why \notin {"gap", "session_failed"} /\ dr'.pc \notin Streaming
  BY <1>2, <1>5 DEF Consumed, Streaming
<1> QED BY <1>1, <1>3, <1>4, <1>5, <1>7, <1>8, DriverLeaves

\* The event at the head of the connection.
LEMMA NextEvent ==
  ASSUME TypeOK, NEW pub \in Seq(Events), NEW p \in Nat,
         History(pub), Carried(pub), Consumed(pub, p), conn.buf # <<>>
  PROVE  LET e == conn.buf[1] IN
         /\ Head(conn.buf) = e /\ e \in Events /\ 1 \in DOMAIN conn.buf
         /\ e.id \in DOMAIN pub /\ e.id \in 1 .. nextId - 1 /\ e = pub[e.id]
         /\ dr.cursor \in Nat /\ dr.cursor < e.id
         /\ e.id = dr.cursor + 1 \/ e.id <= Dropped + 1
<1>1. conn.buf \in Seq(Events) /\ dr.cursor \in Nat
  BY DEF TypeOK
<1>2. Head(conn.buf) = conn.buf[1] /\ conn.buf[1] \in Events /\ 1 \in DOMAIN conn.buf
  BY <1>1, Taken
<1>3. /\ conn.buf[1].id \in DOMAIN pub /\ conn.buf[1] = pub[conn.buf[1].id]
      /\ Before(1) < conn.buf[1].id /\ (conn.buf[1].id = Before(1) + 1 \/ conn.buf[1].id <= Dropped + 1)
  BY <1>2 DEF Carried
<1>4. Before(1) = dr.cursor
  BY DEF Before
<1>5. DOMAIN pub = 1 .. nextId - 1
  BY LenProperties DEF History
<1> QED BY <1>1, <1>2, <1>3, <1>4, <1>5

LEMMA SkipKeeps ==
  ASSUME StreamAssumption, TypeOK, NEW pub \in Seq(Events), NEW p \in Nat,
         History(pub), Carried(pub), Consumed(pub, p), conn.buf # <<>>,
         conn' = Skip, dr'.cursor = conn.buf[1].id, dr'.pc = "reading", dr.pc \in Streaming,
         log' = log, nextId' = nextId
  PROVE  Carried(pub)' /\ conn' \in [buf : Seq(Events), at : Nat \cup {None}]
<1> DEFINE buf == conn.buf
           tail == Tail(conn.buf)
<1>1. buf \in Seq(Events) /\ conn.at \in Nat \cup {None}
  BY DEF TypeOK
<1>2. /\ tail \in Seq(Events) /\ Len(buf) \in Nat \ {0} /\ Len(tail) = Len(buf) - 1
      /\ DOMAIN buf = 1 .. Len(buf) /\ DOMAIN tail = 1 .. (Len(buf) - 1)
      /\ \A i \in 1 .. (Len(buf) - 1) : tail[i] = buf[i + 1]
  BY <1>1, Taken
<1>3. conn'.buf = tail /\ conn'.at = conn.at /\ conn' = [buf |-> tail, at |-> conn.at]
  BY DEF Skip
<1>4. conn.at # None /\ conn.at = Last
  BY DEF Carried
<1>5. Dropped' = Dropped
  BY DEF Dropped
<1>n. PICK n \in Nat \ {0} : n = Len(buf)
  <2>1. Len(buf) \in Nat \ {0}
    BY <1>2
  <2> QED BY <2>1, Zenon
<1>l. Last = buf[n].id
  BY <1>n DEF Last
<1> HIDE DEF buf, tail
<1>6. ASSUME NEW i \in DOMAIN conn'.buf, NEW id, id = conn'.buf[i].id
      PROVE  /\ id \in DOMAIN pub /\ conn'.buf[i] = pub[id]
             /\ Before(i)' < id /\ (id = Before(i)' + 1 \/ id <= Dropped' + 1)
  <2>1. i \in 1 .. (n - 1) /\ conn'.buf[i] = tail[i]
    BY <1>2, <1>3, <1>6, <1>n
  <2>2. i \in Nat /\ i + 1 \in 1 .. n /\ i + 1 # 1 /\ (i + 1) - 1 = i
    BY <2>1
  <2>3. tail[i] = buf[i + 1] /\ i + 1 \in DOMAIN conn.buf
    BY <1>2, <1>n, <2>1, <2>2 DEF buf
  <2>4. /\ id \in DOMAIN pub /\ buf[i + 1] = pub[id]
        /\ Before(i + 1) < id /\ (id = Before(i + 1) + 1 \/ id <= Dropped + 1)
    BY <1>6, <2>1, <2>3 DEF Carried, buf
  <2>5. Before(i + 1) = buf[i].id
    BY <2>2 DEF Before, buf
  <2>6. Before(i)' = buf[i].id
    <3>1. CASE i = 1
      BY <3>1 DEF Before, buf
    <3>2. CASE i # 1
      <4>1. i - 1 \in 1 .. (n - 1) /\ (i - 1) + 1 = i
        BY <2>1, <3>2
      <4>2. tail[i - 1] = buf[(i - 1) + 1]
        BY <1>2, <1>n, <4>1
      <4>3. tail[i - 1] = buf[i]
        BY <4>1, <4>2
      <4> QED BY <1>3, <3>2, <4>3 DEF Before
    <3> QED BY <3>1, <3>2
  <2>7. Before(i)' = Before(i + 1)
    BY <2>5, <2>6
  <2> QED BY <1>5, <2>1, <2>3, <2>4, <2>7, Zenon
<1>7. conn'.at = Last'
  <2>1. CASE n = 1
    <3>1. tail = <<>>
      BY <1>2, <1>n, <2>1, EmptySeq
    <3> QED BY <1>3, <1>4, <1>l, <2>1, <3>1 DEF Last, buf
  <2>2. CASE n # 1
    <3>1. n - 1 \in 1 .. (n - 1) /\ (n - 1) + 1 = n
      BY <2>2
    <3>2. tail[n - 1] = buf[n] /\ Len(tail) = n - 1
      BY <1>2, <1>n, <3>1
    <3>3. tail # <<>>
      BY <3>1, <3>2
    <3> QED BY <1>3, <1>4, <1>l, <3>2, <3>3 DEF Last
  <2> QED BY <2>1, <2>2
<1>8. dr'.pc \in Streaming /\ dr'.pc # "asking" /\ conn'.at # None
  BY <1>3, <1>4 DEF Streaming
<1>9. Carried(pub)'
  BY <1>6, <1>7, <1>8 DEF Carried
<1> QED BY <1>1, <1>2, <1>3, <1>9

\* The notification at the cursor is the next one of the turn.
LEMMA NoteIsNext ==
  ASSUME StreamAssumption, TypeOK, NEW pub \in Seq(Events), NEW p \in Nat,
         History(pub), Carries(pub, 0, p), Consumed(pub, p),
         NEW k \in DOMAIN pub, k = dr.cursor + 1, pub[k].kind = "note"
  PROVE  /\ pub[k].of = Len(handled) + 1 /\ Len(handled) + 1 <= p
         /\ \A i \in DOMAIN pub : pub[i].kind = "note" =>
               (pub[i].of <= Len(handled) + 1 <=> i <= k)
<1>1. DOMAIN pub \subseteq Nat /\ k \in Nat
  BY LenProperties
<1>2. PICK c \in Nat, h \in Nat : c = dr.cursor /\ h = Len(handled)
  <2>1. dr.cursor \in Nat /\ Len(handled) \in Nat
    BY DEF TypeOK
  <2> QED BY <2>1, Zenon
<1>3. /\ h <= p
      /\ \A i \in DOMAIN pub : pub[i].kind = "note" => (pub[i].of <= h <=> i <= c)
  BY <1>2 DEF Consumed
<1>4. /\ \A i \in DOMAIN pub : pub[i].kind = "note" => pub[i].of \in 1 .. p
      /\ \A n \in 1 .. p : \E i \in DOMAIN pub : pub[i].kind = "note" /\ pub[i].of = n
      /\ \A i, j \in DOMAIN pub :
            i < j /\ pub[i].kind = "note" /\ pub[j].kind = "note" => pub[i].of < pub[j].of
  <2>1. 0 + 1 = 1
    OBVIOUS
  <2> QED BY <2>1 DEF Carries
<1>5. pub[k].of \in 1 .. p /\ ~(pub[k].of <= h)
  <2>1. k = c + 1 /\ ~(k <= c)
    BY <1>2
  <2> QED BY <1>3, <1>4, <2>1
<1>6. h + 1 \in 1 .. p
  BY <1>5
<1>7. PICK j \in DOMAIN pub : pub[j].kind = "note" /\ pub[j].of = h + 1
  BY <1>4, <1>6
<1>8. j = k
  <2>1. j \in Nat /\ k = c + 1
    BY <1>1, <1>2
  <2>2. ~(j <= c)
    <3>1. ~(pub[j].of <= h)
      BY <1>7
    <3> QED BY <1>3, <1>7, <3>1
  <2>3. CASE k < j
    <3>1. pub[k].of < h + 1
      BY <1>4, <1>7, <2>3
    <3> QED BY <1>5, <3>1
  <2> QED BY <2>1, <2>2, <2>3
<1>9. pub[k].of = h + 1
  BY <1>7, <1>8
<1>10. ASSUME NEW i \in DOMAIN pub, pub[i].kind = "note" PROVE pub[i].of <= h + 1 <=> i <= k
  <2>1. i \in Nat /\ pub[i].of \in 1 .. p
    BY <1>1, <1>4, <1>10
  <2>2. CASE i < k
    <3>1. pub[i].of < h + 1
      BY <1>4, <1>9, <1>10, <2>2
    <3> QED BY <2>1, <2>2, <3>1, <1>1
  <2>3. CASE i = k
    BY <1>1, <1>9, <2>3
  <2>4. CASE k < i
    <3>1. h + 1 < pub[i].of
      BY <1>4, <1>9, <1>10, <2>4
    <3> QED BY <2>1, <2>4, <3>1, <1>1
  <2> QED BY <1>1, <2>1, <2>2, <2>3, <2>4
<1> QED BY <1>2, <1>6, <1>9, <1>10

LEMMA HandleNoteKeeps ==
  ASSUME StreamAssumption, TypeOK, NEW pub \in Seq(Events), NEW r \in Nat, NEW p \in Nat,
         Flow(pub, r, p), UNCHANGED StreamVars,
         UNCHANGED <<procVars, sessionVars, workerVars, abort, drops>>,
         dr.pc = "reading", conn.buf # <<>>,
         NEW e, e = conn.buf[1], e.id = dr.cursor + 1, e.kind = "note",
         handled' = Append(handled, e.of),
         dr' \in DriverStates, dr'.cursor = e.id, dr'.why = dr.why,
         \/ dr'.pc = "done" /\ conn' = NoStream
         \/ dr'.pc = "reading" /\ conn' = Skip
  PROVE  Inv'
<1>1. /\ History(pub) /\ Logged(pub) /\ Carried(pub) /\ Consumed(pub, p) /\ Carries(pub, 0, p)
  BY DEF Flow, Travel
<1>2. /\ e.id \in DOMAIN pub /\ e.id \in 1 .. nextId - 1 /\ e = pub[e.id] /\ dr.cursor \in Nat
  BY <1>1, NextEvent
<1>3. PICK k \in DOMAIN pub : k = e.id
  BY <1>2
<1>4. /\ e.of = Len(handled) + 1 /\ Len(handled) + 1 <= p
      /\ \A i \in DOMAIN pub : pub[i].kind = "note" =>
            (pub[i].of <= Len(handled) + 1 <=> i <= e.id)
  BY <1>1, <1>2, <1>3, NoteIsNext
<1>5. handled \in Seq(Nat) /\ e.of \in Nat /\ e.id \in Nat
  <2>1. handled \in Seq(Nat)
    BY DEF TypeOK
  <2>2. Len(handled) \in Nat
    BY <2>1, LenProperties
  <2> QED BY <1>2, <1>4, <2>1, <2>2
<1>6. /\ handled' \in Seq(Nat) /\ Len(handled') = Len(handled) + 1 /\ Len(handled) \in Nat
      /\ DOMAIN handled' = 1 .. (Len(handled) + 1) /\ DOMAIN handled = 1 .. Len(handled)
      /\ \A i \in 1 .. Len(handled) : handled'[i] = handled[i]
      /\ handled'[Len(handled) + 1] = e.of
  BY <1>5, Added
<1>8. dr.why \notin {"gap", "session_failed"}
  BY <1>1 DEF Consumed
<1>9. Consumed(pub, p)'
  <2>1. \A i \in DOMAIN handled' : handled'[i] = i
    <3>1. \A i \in DOMAIN handled : handled[i] = i
      BY <1>1 DEF Consumed
    <3>2. \A i \in DOMAIN handled' : i \in DOMAIN handled \/ i = Len(handled) + 1
      BY <1>6
    <3> QED BY <1>4, <1>6, <3>1, <3>2
  <2>2. nextId' = nextId
    BY DEF StreamVars
  <2>3. e.id \in 0 .. nextId' - 1
    BY <1>2, <1>5, <2>2
  <2> QED BY <1>4, <1>6, <1>8, <2>1, <2>3 DEF Consumed
<1>10. Carried(pub)' /\ conn' \in [buf : Seq(Events), at : Nat \cup {None}]
  <2>1. CASE dr'.pc = "done" /\ conn' = NoStream
    <3>1. conn' = [buf |-> <<>>, at |-> None] /\ conn'.buf = <<>> /\ conn'.at = None
      BY <2>1 DEF NoStream
    <3>2. dr'.pc \notin Streaming /\ dr'.pc # "asking" /\ DOMAIN conn'.buf = {}
      BY <2>1, <3>1 DEF Streaming
    <3>3. Carried(pub)'
      BY <3>1, <3>2 DEF Carried
    <3>4. <<>> \in Seq(Events)
      OBVIOUS
    <3> QED BY <3>1, <3>3, <3>4
  <2>2. CASE dr'.pc = "reading" /\ conn' = Skip
    <3>1. dr.pc \in Streaming /\ dr'.pc = "reading" /\ conn' = Skip /\ dr'.cursor = conn.buf[1].id
          /\ log' = log /\ nextId' = nextId
      BY <2>2 DEF Streaming, StreamVars
    <3> QED BY <1>1, <3>1, SkipKeeps
  <2> QED BY <2>1, <2>2
<1>11. TypeOK'
  <2> QED BY <1>6, <1>10 DEF TypeOK, DriverStates, procVars, sessionVars, workerVars
<1> QED BY <1>9, <1>10, <1>11, DriverKeeps

LEMMA HandleEventKeeps ==
  ASSUME StreamAssumption, Inv, HandleEvent
  PROVE  Inv'
<1>1. PICK pub \in Seq(Events), r \in Nat, p \in Nat : Flow(pub, r, p)
  BY DEF Inv
<1>2. /\ TypeOK /\ History(pub) /\ Logged(pub) /\ Carried(pub) /\ Consumed(pub, p) /\ Ends(pub, p)
      /\ dr.pc = "reading" /\ conn.buf # <<>>
  BY <1>1 DEF Inv, Flow, HandleEvent
<1>3. PICK e : e = conn.buf[1]
  OBVIOUS
<1>4. /\ Head(conn.buf) = e /\ e \in Events /\ 1 \in DOMAIN conn.buf
      /\ e.id \in DOMAIN pub /\ e.id \in 1 .. nextId - 1 /\ e = pub[e.id]
      /\ dr.cursor \in Nat /\ dr.cursor < e.id
      /\ e.id = dr.cursor + 1 \/ e.id <= Dropped + 1
  BY <1>2, <1>3, NextEvent
<1>5. UNCHANGED <<procVars, sessionVars, workerVars, abort, drops>>
  BY DEF HandleEvent
<1>6. UNCHANGED StreamVars
  BY <1>5 DEF StreamVars, procVars, sessionVars, workerVars
<1>7. dr.why \notin {"gap", "session_failed"}
  BY <1>2 DEF Consumed
<1>8. ~IsGap(e) => e.id = dr.cursor + 1
  BY <1>4 DEF IsGap
<1>9. ASSUME NEW why \in {"lease", "gap", "session_failed"},
             dr' = [dr EXCEPT !.pc = "failed", !.why = why], conn' = NoStream, handled' = handled,
             why = "gap" => dr.cursor + 1 <= Dropped,
             why = "session_failed" => reader # "reading"
      PROVE  Inv'
  <2>1. dr'.pc = "failed" /\ dr'.cursor = dr.cursor /\ dr'.why = why
    BY <1>2, <1>9 DEF TypeOK
  <2>2. TypeOK'
    <3>1. conn' \in [buf : Seq(Events), at : Nat \cup {None}]
      BY <1>9 DEF NoStream
    <3>2. dr' \in DriverStates
      BY <1>2, <1>9 DEF TypeOK, DriverStates
    <3> QED BY <1>2, <1>5, <1>9, <3>1, <3>2 DEF TypeOK, procVars, sessionVars, workerVars, DriverStates
  <2>3. dr'.pc \notin Streaming
    BY <2>1 DEF Streaming
  <2> QED BY <1>1, <1>6, <1>9, <2>1, <2>2, <2>3, DriverLeaves
<1>10. CASE Fail("lease") /\ conn' = NoStream /\ UNCHANGED handled
  BY <1>9, <1>10 DEF Fail
<1>11. CASE IsGap(e) /\ Fail("gap") /\ conn' = NoStream /\ UNCHANGED handled
  <2>1. dr.cursor + 1 <= Dropped
    <3>1. PICK d \in Nat : d = Dropped
      <4>1. Dropped \in Nat
        BY <1>2 DEF Logged
      <4> QED BY <4>1, Zenon
    <3>2. dr.cursor + 1 < e.id /\ (e.id = dr.cursor + 1 \/ e.id <= d + 1) /\ e.id \in Nat
      BY <1>4, <1>11, <3>1 DEF IsGap
    <3> QED BY <1>4, <3>1, <3>2
  <2> QED BY <1>9, <1>11, <2>1 DEF Fail
<1>12. CASE e.kind = "session_failed" /\ Fail("session_failed") /\ conn' = NoStream /\ UNCHANGED handled
  <2>1. reader # "reading"
    BY <1>2, <1>4, <1>12 DEF Ends
  <2> QED BY <1>9, <1>12, <2>1 DEF Fail
<1>13. CASE ~IsGap(e) /\ e.kind = "request" /\ Drive("asking") /\ UNCHANGED <<conn, handled>>
  <2>1. /\ dr' = [dr EXCEPT !.pc = "asking"] /\ conn' = conn /\ handled' = handled
        /\ log' = log /\ nextId' = nextId /\ reader' = reader
    BY <1>6, <1>13 DEF Drive, StreamVars
  <2>2. dr'.pc = "asking" /\ dr'.cursor = dr.cursor /\ dr'.why = dr.why
    BY <1>2, <2>1 DEF TypeOK
  <2>3. TypeOK'
    <3>1. dr' \in DriverStates
      BY <1>2, <2>1 DEF TypeOK, DriverStates
    <3> QED BY <1>2, <1>5, <2>1, <3>1 DEF TypeOK, procVars, sessionVars, workerVars, DriverStates
  <2>4. Dropped' = Dropped
    BY <2>1 DEF Dropped
  <2>5. Carried(pub)'
    <3>1. e.id = dr.cursor + 1 /\ e.kind = "request"
      BY <1>8, <1>13
    <3> QED BY <1>2, <1>3, <2>1, <2>2, <2>4, <3>1 DEF Carried, Streaming, Before, Last
  <2>6. Consumed(pub, p)'
    BY <1>2, <1>7, <2>1, <2>2 DEF Consumed
  <2> QED BY <1>1, <1>6, <2>3, <2>5, <2>6, DriverKeeps
<1>14. CASE /\ ~IsGap(e) /\ e.kind = "note"
            /\ handled' = Append(handled, e.of)
            /\ LET last == complete /\ e.of = sent IN
                 /\ dr' = [dr EXCEPT !.cursor = e.id, !.pc = IF last THEN "done" ELSE "reading"]
                 /\ conn' = IF last THEN NoStream ELSE Skip
  <2>1. e.id = dr.cursor + 1
    BY <1>8, <1>14
  <2>2. handled' = Append(handled, e.of)
    BY <1>14
  <2>3. /\ dr' \in DriverStates /\ dr'.cursor = e.id /\ dr'.why = dr.why
        /\ \/ dr'.pc = "done" /\ conn' = NoStream
           \/ dr'.pc = "reading" /\ conn' = Skip
    <3>1. e.id \in Nat
      BY <1>4
    <3>2. CASE complete /\ e.of = sent
      <4>1. dr' = [dr EXCEPT !.cursor = e.id, !.pc = "done"] /\ conn' = NoStream
        BY <1>14, <3>2
      <4>2. dr' \in DriverStates /\ dr'.cursor = e.id /\ dr'.why = dr.why /\ dr'.pc = "done"
        BY <1>2, <3>1, <4>1 DEF TypeOK, DriverStates
      <4> QED BY <4>1, <4>2
    <3>3. CASE ~(complete /\ e.of = sent)
      <4>1. dr' = [dr EXCEPT !.cursor = e.id, !.pc = "reading"] /\ conn' = Skip
        BY <1>14, <3>3
      <4>2. dr' \in DriverStates /\ dr'.cursor = e.id /\ dr'.why = dr.why /\ dr'.pc = "reading"
        BY <1>2, <3>1, <4>1 DEF TypeOK, DriverStates
      <4> QED BY <4>1, <4>2
    <3> QED BY <3>2, <3>3
  <2>4. e.kind = "note"
    BY <1>14
  <2> QED BY <1>1, <1>2, <1>3, <1>5, <1>6, <2>1, <2>2, <2>3, <2>4, HandleNoteKeeps
<1>15. HandleEvent => \/ Fail("lease") /\ conn' = NoStream /\ UNCHANGED handled
                      \/ IsGap(e) /\ Fail("gap") /\ conn' = NoStream /\ UNCHANGED handled
                      \/ e.kind = "session_failed" /\ Fail("session_failed") /\ conn' = NoStream
                            /\ UNCHANGED handled
                      \/ ~IsGap(e) /\ e.kind = "request" /\ Drive("asking") /\ UNCHANGED <<conn, handled>>
                      \/ /\ ~IsGap(e) /\ e.kind = "note"
                         /\ handled' = Append(handled, e.of)
                         /\ LET last == complete /\ e.of = sent IN
                              /\ dr' = [dr EXCEPT !.cursor = e.id, !.pc = IF last THEN "done" ELSE "reading"]
                              /\ conn' = IF last THEN NoStream ELSE Skip
  BY <1>4 DEF HandleEvent
<1> QED BY <1>10, <1>11, <1>12, <1>13, <1>14, <1>15

LEMMA ResolveRequestKeeps ==
  ASSUME StreamAssumption, Inv, ResolveRequest
  PROVE  Inv'
<1>1. PICK pub \in Seq(Events), r \in Nat, p \in Nat : Flow(pub, r, p)
  BY DEF Inv
<1>2. /\ TypeOK /\ History(pub) /\ Logged(pub) /\ Carried(pub) /\ Consumed(pub, p)
      /\ dr.pc = "asking"
  BY <1>1 DEF Inv, Flow, ResolveRequest
<1>3. PICK e : e = conn.buf[1]
  OBVIOUS
<1>4. conn.buf # <<>> /\ e.kind = "request" /\ e.id = dr.cursor + 1
  BY <1>2, <1>3 DEF Carried
<1>5. /\ Head(conn.buf) = e /\ e \in Events /\ e.id \in DOMAIN pub /\ e.id \in 1 .. nextId - 1
      /\ e = pub[e.id] /\ dr.cursor \in Nat
  BY <1>2, <1>3, <1>4, NextEvent
<1>6. /\ UNCHANGED <<procVars, sessionVars, pump, log, nextId, closed, up, handled, abort, drops>>
      /\ req' \in {req, [req EXCEPT ![e.of] = "answered"]}
  BY <1>5 DEF ResolveRequest, Reply
<1>7. UNCHANGED StreamVars
  BY <1>6 DEF StreamVars, procVars, sessionVars
<1>8. dr.why \notin {"gap", "session_failed"}
  BY <1>2 DEF Consumed
<1>9. req' \in [Request -> {"none", "sent", "task", "waiting", "answered", "rejected"}]
  BY <1>2, <1>6 DEF TypeOK
<1>10. CASE dr' = [dr EXCEPT !.pc = "reading", !.cursor = e.id] /\ conn' = Skip
  <2>1. dr'.pc = "reading" /\ dr'.cursor = e.id /\ dr'.why = dr.why
    BY <1>2, <1>10 DEF TypeOK
  <2>2. Carried(pub)' /\ conn' \in [buf : Seq(Events), at : Nat \cup {None}]
    <3>1. dr.pc \in Streaming /\ log' = log /\ nextId' = nextId /\ dr'.cursor = conn.buf[1].id
      BY <1>2, <1>3, <1>6, <2>1 DEF Streaming
    <3> QED BY <1>2, <1>4, <1>10, <2>1, <3>1, SkipKeeps
  <2>3. TypeOK'
    <3>1. dr' \in DriverStates
      <4>1. e.id \in Nat
        BY <1>5
      <4> QED BY <1>2, <1>10, <4>1 DEF TypeOK, DriverStates
    <3>2. handled' = handled /\ abort' = abort /\ drops' = drops /\ UNCHANGED <<procVars, sessionVars>>
          /\ pump' = pump /\ log' = log /\ nextId' = nextId /\ closed' = closed /\ up' = up
      BY <1>6
    <3>3. conn' \in [buf : Seq(Events), at : Nat \cup {None}]
      BY <2>2
    <3> QED BY <1>2, <1>9, <3>1, <3>2, <3>3 DEF TypeOK, procVars, sessionVars, DriverStates
  <2>4. Consumed(pub, p)'
    <3>1. \A i \in DOMAIN pub : pub[i].kind = "note" =>
             (pub[i].of <= Len(handled) <=> i <= e.id)
      <4> TAKE i \in DOMAIN pub
      <4> HAVE pub[i].kind = "note"
      <4>1. i # e.id /\ i \in Nat
        BY <1>4, <1>5, LenProperties
      <4>2. i <= dr.cursor <=> i <= e.id
        BY <1>4, <1>5, <4>1
      <4> QED BY <1>2, <4>2 DEF Consumed
    <3>2. e.id \in 0 .. nextId' - 1 /\ handled' = handled
      BY <1>5, <1>6
    <3> QED BY <1>2, <1>8, <2>1, <3>1, <3>2 DEF Consumed
  <2> QED BY <1>1, <1>7, <2>2, <2>3, <2>4, DriverKeeps
<1>11. CASE dr' = [dr EXCEPT !.pc = "retry"] /\ conn' = NoStream
  <2>1. dr'.pc = "retry" /\ dr'.cursor = dr.cursor /\ dr'.why = dr.why /\ handled' = handled
    BY <1>2, <1>6, <1>11 DEF TypeOK
  <2>2. TypeOK'
    <3>1. dr' \in DriverStates
      BY <1>2, <1>11 DEF TypeOK, DriverStates
    <3>2. conn' \in [buf : Seq(Events), at : Nat \cup {None}]
      BY <1>11 DEF NoStream
    <3> QED BY <1>2, <1>6, <1>9, <3>1, <3>2 DEF TypeOK, procVars, sessionVars, DriverStates
  <2>3. dr'.pc \notin Streaming
    BY <2>1 DEF Streaming
  <2> QED BY <1>1, <1>7, <1>8, <1>11, <2>1, <2>2, <2>3, DriverLeaves
<1> QED BY <1>5, <1>10, <1>11 DEF ResolveRequest, Drive

LEMMA RetryKeeps ==
  ASSUME StreamAssumption, Inv, Retry
  PROVE  Inv'
<1>1. PICK pub \in Seq(Events), r \in Nat, p \in Nat : Flow(pub, r, p)
  BY DEF Inv
<1>2. TypeOK /\ Carried(pub) /\ Consumed(pub, p) /\ dr.pc = "retry"
  BY <1>1 DEF Inv, Flow, Retry
<1>3. conn' = conn /\ UNCHANGED <<procVars, sessionVars, workerVars, conn, handled, abort, drops>>
  BY DEF Retry
<1>4. UNCHANGED StreamVars
  BY <1>3 DEF StreamVars, procVars, sessionVars, workerVars
<1>5. conn = NoStream
  <2>1. conn.at = None /\ conn.buf = <<>>
    BY <1>2 DEF Carried, Streaming
  <2>2. conn = [buf |-> conn.buf, at |-> conn.at]
    BY <1>2 DEF TypeOK
  <2> QED BY <2>1, <2>2 DEF NoStream
<1>6. PICK pc \in {"failed", "connect"}, why \in {dr.why, "lease", "cancelled", "sandbox"} :
         dr' = [dr EXCEPT !.pc = pc, !.why = why]
  <2>1. dr = [dr EXCEPT !.why = dr.why]
    BY <1>2 DEF TypeOK
  <2>2. [dr EXCEPT !.pc = "connect"] = [dr EXCEPT !.pc = "connect", !.why = dr.why]
    BY <1>2 DEF TypeOK
  <2>3. \/ dr' = [dr EXCEPT !.pc = "failed", !.why = "lease"]
        \/ dr' = [dr EXCEPT !.pc = "failed", !.why = "cancelled"]
        \/ dr' = [dr EXCEPT !.pc = "failed", !.why = "sandbox"]
        \/ dr' = [dr EXCEPT !.pc = "connect"]
    BY DEF Retry, Fail, Drive
  <2> QED BY <2>2, <2>3, Zenon
<1>7. dr.why \notin {"gap", "session_failed"}
  BY <1>2 DEF Consumed
<1>8. dr'.pc = pc /\ dr'.cursor = dr.cursor /\ dr'.why = why /\ handled' = handled
  BY <1>2, <1>3, <1>6 DEF TypeOK
<1>9. TypeOK'
  <2>1. dr' \in DriverStates
    BY <1>2, <1>6 DEF TypeOK, DriverStates
  <2> QED BY <1>2, <1>3, <2>1 DEF TypeOK, procVars, sessionVars, workerVars, DriverStates
<1>10. dr'.pc \notin Streaming /\ dr'.why \notin {"gap", "session_failed"} /\ conn' = NoStream
  BY <1>3, <1>5, <1>7, <1>8 DEF Streaming
<1> QED BY <1>1, <1>4, <1>8, <1>9, <1>10, DriverLeaves

LEMMA DeadlineKeeps ==
  ASSUME StreamAssumption, Inv, Deadline
  PROVE  Inv'
<1>1. PICK pub \in Seq(Events), r \in Nat, p \in Nat : Flow(pub, r, p)
  BY DEF Inv
<1>2. TypeOK
  BY DEF Inv
<1>3. /\ dr' = [dr EXCEPT !.pc = "failed", !.why = "timeout"] /\ conn' = NoStream
      /\ UNCHANGED <<procVars, sessionVars, workerVars, handled, abort, drops>>
  BY DEF Deadline, Fail
<1>4. UNCHANGED StreamVars
  BY <1>3 DEF StreamVars, procVars, sessionVars, workerVars
<1>5. dr'.pc = "failed" /\ dr'.cursor = dr.cursor /\ dr'.why = "timeout" /\ handled' = handled
  BY <1>2, <1>3 DEF TypeOK
<1>6. TypeOK'
  <2>1. conn' \in [buf : Seq(Events), at : Nat \cup {None}]
    BY <1>3 DEF NoStream
  <2>2. dr' \in DriverStates
    BY <1>2, <1>3 DEF TypeOK, DriverStates
  <2> QED BY <1>2, <1>3, <2>1, <2>2 DEF TypeOK, procVars, sessionVars, workerVars, DriverStates
<1>7. dr'.pc \notin Streaming
  BY <1>5 DEF Streaming
<1> QED BY <1>1, <1>3, <1>4, <1>5, <1>6, <1>7, DriverLeaves

LEMMA AbortKeeps ==
  ASSUME StreamAssumption, Inv, NEW how \in {"cancel", "lease"}, Abort(how)
  PROVE  Inv'
<1>1. PICK pub \in Seq(Events), r \in Nat, p \in Nat : Flow(pub, r, p)
  BY DEF Inv
<1>2. abort' = how /\ UNCHANGED <<procVars, sessionVars, workerVars, conn, dr, handled, drops>>
  BY DEF Abort
<1>3. UNCHANGED StreamVars /\ log' = log /\ nextId' = nextId /\ reader' = reader
      /\ conn' = conn /\ dr' = dr /\ handled' = handled
  BY <1>2 DEF StreamVars, procVars, sessionVars, workerVars
<1>4. TypeOK'
  BY <1>2 DEF Inv, TypeOK, procVars, sessionVars, workerVars
<1>5. Carried(pub)' /\ Consumed(pub, p)'
  BY <1>1, <1>3 DEF Flow, Carried, Consumed, Before, Last, Dropped
<1> QED BY <1>1, <1>3, <1>4, <1>5, DriverKeeps

-----------------------------------------------------------------------------
(* The theorems.                                                           *)
LEMMA NextInv ==
  ASSUME StreamAssumption, Inv, [Next]_vars
  PROVE  Inv'
<1>1. CASE Emit
  BY <1>1, EmitKeeps
<1>2. CASE Worker
  BY <1>2, ReadKeeps, ReaderStops, PumpNotificationKeeps, PumpFailsKeeps, PublishRequestKeeps DEF Worker
<1>3. CASE Driver
  BY <1>3, ConnectKeeps, StreamReadsKeeps, StreamEndsKeeps, HandleEventKeeps, ResolveRequestKeeps,
     RetryKeeps DEF Driver
<1>4. CASE Environment
  <2>1. CASE ReaderBreaks
    BY <2>1, ReaderStops
  <2>2. CASE Deadline
    BY <2>2, DeadlineKeeps
  <2>3. CASE \E how \in {"cancel", "lease"} : Abort(how)
    BY <2>3, AbortKeeps
  <2>4. CASE \/ WorkerCloses
             \/ \E c \in Rpc : CallRpc(c) \/ RpcTimesOut(c)
             \/ \E r \in Request : RequestTimesOut(r)
    BY <2>4, OtherKeeps
  <2> QED BY <1>4, <2>1, <2>2, <2>3, <2>4 DEF Environment
<1>5. CASE UNCHANGED vars
  <2>1. UNCHANGED <<sent, pipe, reader, queue, log, nextId, driverVars>> /\ proc' = proc /\ pump' = pump
    BY <1>5 DEF vars, procVars, sessionVars, workerVars
  <2>2. TypeOK'
    BY <1>5 DEF Inv, TypeOK, vars, procVars, sessionVars, workerVars, driverVars
  <2> QED BY <2>1, <2>2, QuietKeeps
<1> QED BY <1>1, <1>2, <1>3, <1>4, <1>5 DEF Next

LEMMA InvHolds ==
  ASSUME StreamAssumption
  PROVE  Spec => []Inv
<1>1. Init => Inv
  BY InitInv
<1>2. Inv /\ [Next]_vars => Inv'
  BY NextInv
<1> QED BY <1>1, <1>2, PTL DEF Spec

\* The log is bounded and holds the latest events in the order of their ids,
\* and a turn fails for a gap only when the event its driver needs is dropped
\* (EventLog.publish, the check of _drive).
THEOREM LogKeepsTheLatest ==
  ASSUME StreamAssumption
  PROVE  Spec => []StreamInvariant
<1>1. Inv => StreamInvariant
  <2> SUFFICES ASSUME Inv PROVE StreamInvariant
    OBVIOUS
  <2>1. PICK pub \in Seq(Events), r \in Nat, p \in Nat : Flow(pub, r, p)
    BY DEF Inv
  <2>2. TypeOK /\ History(pub) /\ Logged(pub) /\ Consumed(pub, p)
    BY <2>1 DEF Inv, Flow
  <2>3. /\ nextId \in Nat \ {0} /\ Len(log) \in Nat /\ DOMAIN log = 1 .. Len(log)
        /\ DOMAIN pub = 1 .. (nextId - 1) /\ Dropped \in Nat /\ Dropped + Len(log) = nextId - 1
        /\ MaxHistory \in Nat \ {0}
    BY <2>2, Numbers
  <2>4. PICK d \in Nat : d = Dropped
    BY <2>3
  <2>5. ASSUME NEW i \in DOMAIN log PROVE log[i].id = d + i /\ i \in Nat
    <3>1. i \in 1 .. Len(log) /\ d + i \in 1 .. (nextId - 1)
      BY <2>3, <2>4
    <3>2. log[i] = pub[d + i] /\ pub[d + i].id = d + i
      BY <2>2, <2>3, <2>4, <3>1 DEF Logged, History
    <3> QED BY <3>1, <3>2
  <2>6. d = nextId - Len(log) - 1
    BY <2>3, <2>4
  <2>7. \A i \in DOMAIN log : log[i].id = nextId - Len(log) + i - 1
    <3> TAKE i \in DOMAIN log
    <3>1. log[i].id = d + i /\ i \in Nat
      BY <2>5
    <3>2. d + i = nextId - Len(log) + i - 1
      BY <2>3, <2>6, <3>1
    <3> QED BY <3>1, <3>2
  <2>8. GapIsReal
    <3> SUFFICES ASSUME dr.why = "gap"
                 PROVE  /\ \A i \in DOMAIN log : log[i].id # dr.cursor + 1
                        /\ nextId - dr.cursor > MaxHistory
      BY DEF GapIsReal
    <3>1. PICK c \in Nat : c = dr.cursor
      <4>1. dr.cursor \in Nat
        BY <2>2 DEF TypeOK
      <4> QED BY <4>1
    <3>2. c + 1 <= d
      BY <2>2, <2>4, <3>1 DEF Consumed
    <3>3. \A i \in DOMAIN log : i >= 1 /\ log[i].id = d + i /\ i \in Nat
      BY <2>3, <2>5
    <3>4. \A i \in DOMAIN log : log[i].id # c + 1
      <4> TAKE i \in DOMAIN log
      <4>1. i >= 1 /\ log[i].id = d + i /\ i \in Nat
        BY <3>3
      <4>2. d + i # c + 1
        BY <3>2, <4>1
      <4> QED BY <4>1, <4>2
    <3>5. Len(log) = MaxHistory \/ d = 0
      BY <2>2, <2>4 DEF Logged
    <3>6. Len(log) = MaxHistory
      BY <3>2, <3>5
    <3>7. nextId - c > MaxHistory
      BY <2>3, <2>6, <3>2, <3>6
    <3> QED BY <3>1, <3>4, <3>7
  <2> QED BY <2>2, <2>7, <2>8 DEF StreamInvariant
<1> QED BY <1>1, InvHolds, PTL

-----------------------------------------------------------------------------
(* EventSequence.                                                          *)
Written(n) == [i \in 1 .. n |-> i]
Outcome == IF dr.pc = "done" THEN "all"
           ELSE IF dr.pc # "failed" THEN "open"
           ELSE IF dr.why = "session_failed" /\ reader = "done" THEN "all"
           ELSE "failed"

LEMMA WrittenGrows ==
  ASSUME NEW n \in Nat
  PROVE  Append(Written(n), n + 1) = Written(n + 1) /\ Len(Written(n)) = n
<1>1. Written(n) \in Seq(Nat) /\ Written(n + 1) \in Seq(Nat) /\ Len(Written(n)) = n
      /\ Len(Written(n + 1)) = n + 1
  BY DEF Written
<1>2. /\ Append(Written(n), n + 1) \in Seq(Nat) /\ Len(Append(Written(n), n + 1)) = n + 1
      /\ \A i \in 1 .. n : Append(Written(n), n + 1)[i] = Written(n)[i]
      /\ Append(Written(n), n + 1)[n + 1] = n + 1
  BY <1>1, Added
<1>3. \A i \in 1 .. (n + 1) : Append(Written(n), n + 1)[i] = Written(n + 1)[i]
  <2> TAKE i \in 1 .. (n + 1)
  <2>1. Written(n + 1)[i] = i
    BY DEF Written
  <2>2. CASE i = n + 1
    BY <1>2, <2>1, <2>2
  <2>3. CASE i # n + 1
    <3>1. i \in 1 .. n
      BY <2>3
    <3>2. Written(n)[i] = i
      BY <3>1 DEF Written
    <3> QED BY <1>2, <2>1, <3>1, <3>2
  <2> QED BY <2>2, <2>3
<1> QED BY <1>1, <1>2, <1>3, SeqEqual

LEMMA HandledIsPrefix ==
  ASSUME StreamAssumption, TypeOK, NEW pub \in Seq(Events), NEW r \in Nat, NEW p \in Nat, Flow(pub, r, p)
  PROVE  /\ handled = Written(Len(handled)) /\ Len(handled) \in Nat
         /\ Len(handled) <= p /\ p <= sent /\ sent \in Nat
<1>1. handled \in Seq(Nat) /\ sent \in Nat
  BY StreamAssumption DEF TypeOK, StreamAssumption
<1>2. Len(handled) \in Nat /\ DOMAIN handled = 1 .. Len(handled)
  BY <1>1, LenProperties
<1>3. Len(handled) <= p /\ \A i \in DOMAIN handled : handled[i] = i
  BY DEF Flow, Consumed
<1>4. handled = [i \in 1 .. Len(handled) |-> handled[i]]
  BY <1>1, <1>2
<1>5. handled = Written(Len(handled))
  BY <1>2, <1>3, <1>4 DEF Written
<1>6. p <= sent
  <2>1. r \in 0 .. sent /\ p \in 0 .. r
    BY DEF Flow, Travel
  <2> QED BY <1>1, <2>1
<1> QED BY <1>1, <1>2, <1>3, <1>5, <1>6

\* Steps that leave the turn and the driver's progress alone.
LEMMA Stutters ==
  ASSUME sent' = sent, handled' = handled, Outcome' = Outcome
  PROVE  UNCHANGED Sequence!sequenceVars
BY DEF Sequence!sequenceVars, Outcome

LEMMA OpenEnds ==
  ASSUME sent' = sent, handled' = handled, Outcome = "open", dr'.pc = "failed", dr'.why # "session_failed"
  PROVE  Sequence!End
BY DEF Sequence!End, Outcome

LEMMA EventRefines ==
  ASSUME StreamAssumption, Inv, HandleEvent
  PROVE  Sequence!Deliver \/ Sequence!End \/ UNCHANGED Sequence!sequenceVars
<1>1. PICK pub \in Seq(Events), r \in Nat, p \in Nat : Flow(pub, r, p)
  BY DEF Inv
<1>2. /\ TypeOK /\ History(pub) /\ Carried(pub) /\ Consumed(pub, p) /\ Ends(pub, p)
      /\ Carries(pub, 0, p) /\ dr.pc = "reading" /\ conn.buf # <<>>
  BY <1>1 DEF Inv, Flow, Travel, HandleEvent
<1>3. PICK e : e = conn.buf[1]
  OBVIOUS
<1>4. /\ Head(conn.buf) = e /\ e.id \in DOMAIN pub /\ e = pub[e.id]
      /\ dr.cursor \in Nat /\ dr.cursor < e.id /\ e.id \in 1 .. nextId - 1
  BY <1>2, <1>3, NextEvent
<1>5. /\ handled = Written(Len(handled)) /\ Len(handled) \in Nat
      /\ Len(handled) <= p /\ p <= sent /\ sent \in Nat
  BY <1>1, <1>2, HandledIsPrefix
<1>6. sent' = sent /\ reader' = reader
  BY DEF HandleEvent, procVars, sessionVars
<1>7. Outcome = "open"
  BY <1>2 DEF Outcome
<1>8. e.id \in Nat /\ (~IsGap(e) => e.id = dr.cursor + 1)
  BY <1>4 DEF IsGap
<1>9. CASE (Fail("lease") \/ Fail("gap")) /\ handled' = handled
  <2>1. dr'.pc = "failed" /\ dr'.why # "session_failed"
    BY <1>2, <1>9 DEF Fail, TypeOK
  <2> QED BY <1>6, <1>7, <1>9, <2>1, OpenEnds
<1>10. CASE ~IsGap(e) /\ e.kind = "session_failed" /\ Fail("session_failed") /\ handled' = handled
  <2>1. dr'.pc = "failed" /\ dr'.why = "session_failed"
    BY <1>2, <1>10 DEF Fail, TypeOK
  <2>2. Outcome' = IF reader = "done" THEN "all" ELSE "failed"
    BY <1>6, <2>1 DEF Outcome
  <2>3. CASE reader = "done"
    <3>1. p = sent /\ \A j \in DOMAIN pub : e.id < j => pub[j].kind # "note"
      BY <1>2, <1>4, <1>10, <2>3 DEF Ends
    <3>2. p <= Len(handled)
      <4>1. CASE p = 0
        BY <1>5, <4>1
      <4>2. CASE p # 0
        <5>1. p \in (0 + 1) .. p
          BY <4>2
        <5>2. PICK i \in DOMAIN pub : pub[i].kind = "note" /\ pub[i].of = p
          BY <1>2, <5>1 DEF Carries
        <5>3. i \in Nat /\ ~(e.id < i) /\ i # e.id
          BY <1>4, <1>10, <3>1, <5>2, LenProperties
        <5>4. i <= dr.cursor
          BY <1>4, <1>8, <1>10, <5>3
        <5> QED BY <1>2, <5>2, <5>4 DEF Consumed
      <4> QED BY <4>1, <4>2
    <3>3. Len(handled) = sent
      BY <1>5, <3>1, <3>2
    <3>4. handled = Written(sent)
      BY <1>5, <3>3
    <3> QED BY <1>6, <1>7, <1>10, <2>2, <2>3, <3>4 DEF Sequence!End, Outcome, Written
  <2>4. CASE reader # "done"
    BY <1>6, <1>7, <1>10, <2>2, <2>4 DEF Sequence!End, Outcome
  <2> QED BY <2>3, <2>4
<1>11. CASE Drive("asking") /\ handled' = handled
  <2>1. dr'.pc = "asking"
    BY <1>2, <1>11 DEF Drive, TypeOK
  <2>2. Outcome' = "open"
    BY <2>1 DEF Outcome
  <2> QED BY <1>6, <1>7, <1>11, <2>2, Stutters
<1>12. CASE /\ ~IsGap(e) /\ e.kind = "note"
            /\ handled' = Append(handled, e.of)
            /\ LET last == complete /\ e.of = sent IN
                 /\ dr' = [dr EXCEPT !.cursor = e.id, !.pc = IF last THEN "done" ELSE "reading"]
                 /\ conn' = IF last THEN NoStream ELSE Skip
  <2>1. PICK k \in DOMAIN pub : k = e.id /\ k = dr.cursor + 1 /\ pub[k].kind = "note" /\ pub[k].of = e.of
    BY <1>4, <1>8, <1>12
  <2>2. e.of = Len(handled) + 1 /\ Len(handled) + 1 <= p
    BY <1>2, <2>1, NoteIsNext
  <2>3. PICK h \in Nat : h = Len(handled) /\ h + 1 <= sent /\ handled = Written(h)
    BY <1>5, <2>2
  <2>4. handled' = Append(Written(h), h + 1) /\ e.of = h + 1
    BY <1>12, <2>2, <2>3
  <2>5. handled' = Written(h + 1) /\ Len(Written(sent)) = sent
    BY <1>5, <2>3, <2>4, WrittenGrows
  <2>6. Written(sent)[h + 1] = h + 1
    BY <1>5, <2>3 DEF Written
  <2>7. (dr'.pc = "done" /\ e.of = sent) \/ dr'.pc = "reading"
    <3>1. CASE complete /\ e.of = sent
      <4>1. dr' = [dr EXCEPT !.cursor = e.id, !.pc = "done"]
        BY <1>12, <3>1
      <4> QED BY <1>2, <3>1, <4>1 DEF TypeOK
    <3>2. CASE ~(complete /\ e.of = sent)
      <4>1. dr' = [dr EXCEPT !.cursor = e.id, !.pc = "reading"]
        BY <1>12, <3>2
      <4> QED BY <1>2, <4>1 DEF TypeOK
    <3> QED BY <3>1, <3>2
  <2>8. Outcome' \in {"open", "all"} /\ (Outcome' = "all" => e.of = sent)
    BY <2>7 DEF Outcome
  <2>9. Outcome' = "all" => handled' = Written(sent)
    BY <2>4, <2>5, <2>8
  <2>10. Len(handled) < Len(Written(sent)) /\ handled' = Append(handled, Written(sent)[Len(handled) + 1])
    <3>1. Len(handled) < Len(Written(sent))
      BY <1>5, <2>3, <2>5
    <3>2. Written(sent)[Len(handled) + 1] = e.of
      BY <2>3, <2>4, <2>6
    <3> QED BY <1>12, <3>1, <3>2
  <2> QED BY <1>6, <1>7, <2>8, <2>9, <2>10 DEF Sequence!Deliver, Outcome, Written
<1>13. \/ (Fail("lease") \/ Fail("gap")) /\ handled' = handled
       \/ ~IsGap(e) /\ e.kind = "session_failed" /\ Fail("session_failed") /\ handled' = handled
       \/ Drive("asking") /\ handled' = handled
       \/ /\ ~IsGap(e) /\ e.kind = "note"
          /\ handled' = Append(handled, e.of)
          /\ LET last == complete /\ e.of = sent IN
               /\ dr' = [dr EXCEPT !.cursor = e.id, !.pc = IF last THEN "done" ELSE "reading"]
               /\ conn' = IF last THEN NoStream ELSE Skip
  BY <1>4 DEF HandleEvent
<1> QED BY <1>9, <1>10, <1>11, <1>12, <1>13

LEMMA StepRefines ==
  ASSUME StreamAssumption, Inv, [Next]_vars
  PROVE  \/ Sequence!Send \/ Sequence!Deliver \/ Sequence!End
         \/ UNCHANGED Sequence!sequenceVars
<1>1. PICK pub \in Seq(Events), r \in Nat, p \in Nat : Flow(pub, r, p)
  BY DEF Inv
<1>2. /\ TypeOK /\ Consumed(pub, p) /\ sent \in Nat
  BY <1>1, StreamAssumption DEF Inv, Flow, TypeOK, StreamAssumption
<1>3. ASSUME NEW last \in BOOLEAN, EmitNote(last) PROVE Sequence!Send
  <2>1. /\ sent' = sent + 1 /\ sent + 1 \in 1 .. MaxSent /\ handled' = handled /\ dr' = dr
        /\ reader' = reader
    BY <1>2, <1>3, StreamAssumption DEF EmitNote, driverVars, StreamAssumption
  <2>2. Outcome' = Outcome
    BY <2>1 DEF Outcome
  <2>3. Written(sent)' = Append(Written(sent), sent + 1)
    BY <1>2, <2>1, WrittenGrows
  <2> QED BY <2>1, <2>2, <2>3 DEF Sequence!Send, Outcome, Written
<1>4. ASSUME sent' = sent, handled' = handled, dr' = dr, reader' = reader
      PROVE  UNCHANGED Sequence!sequenceVars
  <2>1. Outcome' = Outcome
    BY <1>4 DEF Outcome
  <2> QED BY <1>4, <2>1, Stutters
<1>5. ASSUME sent' = sent, handled' = handled, dr.pc \notin {"done", "failed"},
             \/ dr'.pc \notin {"done", "failed"}
             \/ dr'.pc = "failed" /\ dr'.why # "session_failed"
      PROVE  Sequence!End \/ UNCHANGED Sequence!sequenceVars
  <2>1. Outcome = "open"
    BY <1>5 DEF Outcome
  <2>2. CASE dr'.pc \notin {"done", "failed"}
    <3>1. Outcome' = "open"
      BY <2>2 DEF Outcome
    <3> QED BY <1>5, <2>1, <3>1, Stutters
  <2>3. CASE dr'.pc = "failed" /\ dr'.why # "session_failed"
    BY <1>5, <2>1, <2>3, OpenEnds
  <2> QED BY <1>5, <2>2, <2>3
<1>6. CASE ReaderBreaks \/ ReaderEnds
  <2>1. sent' = sent /\ handled' = handled /\ dr' = dr
    BY <1>6 DEF ReaderBreaks, ReaderEnds, procVars, driverVars
  <2>2. \/ reader = "reading"
        \/ reader = "broken" /\ reader' = "failed"
    BY <1>6 DEF ReaderBreaks, ReaderEnds
  <2>3. Outcome' = Outcome
    BY <1>2, <2>1, <2>2 DEF Outcome, Consumed
  <2> QED BY <2>1, <2>3, Stutters
<1>7. CASE \/ \E a \in Request : EmitRequest(a) \/ PublishRequest(a) \/ RequestTimesOut(a)
           \/ \E c \in Rpc : EmitAnswer(c) \/ CallRpc(c) \/ RpcTimesOut(c)
           \/ Exit \/ ReadStdout \/ PumpNotification \/ PumpFails \/ WorkerCloses
  <2>1. sent' = sent /\ handled' = handled /\ dr' = dr /\ reader' = reader
    BY <1>7 DEF EmitRequest, PublishRequest, RequestTimesOut, EmitAnswer, CallRpc, RpcTimesOut, Exit,
       ReadStdout, PumpNotification, PumpFails, WorkerCloses, procVars, sessionVars, workerVars, driverVars
  <2> QED BY <1>4, <2>1
<1>8. CASE StreamReads \/ (\E how \in {"cancel", "lease"} : Abort(how)) \/ UNCHANGED vars
  <2>1. sent' = sent /\ handled' = handled /\ dr' = dr /\ reader' = reader
    BY <1>8 DEF StreamReads, Abort, vars, procVars, sessionVars, driverVars
  <2> QED BY <1>4, <2>1
<1>9. CASE Connect \/ StreamEnds \/ ResolveRequest
  <2>1. sent' = sent /\ handled' = handled /\ dr.pc \notin {"done", "failed"}
    BY <1>9 DEF Connect, StreamEnds, ResolveRequest, procVars
  <2>2. dr'.pc \notin {"done", "failed"}
    BY <1>2, <1>9 DEF Connect, StreamEnds, ResolveRequest, Drive, TypeOK
  <2> QED BY <1>5, <2>1, <2>2
<1>10. CASE Retry \/ Deadline
  <2>1. sent' = sent /\ handled' = handled /\ dr.pc \notin {"done", "failed"}
    BY <1>10 DEF Retry, Deadline, Active, procVars
  <2>2. \/ dr'.pc \notin {"done", "failed"}
        \/ dr'.pc = "failed" /\ dr'.why # "session_failed"
    BY <1>2, <1>10 DEF Retry, Deadline, Drive, Fail, TypeOK
  <2> QED BY <1>5, <2>1, <2>2
<1>11. CASE HandleEvent
  BY <1>11, EventRefines
<1> QED BY <1>3, <1>6, <1>7, <1>8, <1>9, <1>10, <1>11 DEF Next, Emit, Worker, Driver, Environment

\* The driver consumes the notifications of a turn once each and in the order
\* Codex wrote them, over broken connections, full logs and processes that
\* die, and ends knowing that it has all of them or reporting a failure
\* (_drive, event_stream, EventLog, _pump_notifications, _read_stdout).
THEOREM StreamImplementsSequence ==
  ASSUME StreamAssumption
  PROVE  Spec => ImplementsSequence
<1>1. Init => Sequence!SequenceInit
  <2> SUFFICES ASSUME Init PROVE Sequence!SequenceInit
    OBVIOUS
  <2>1. sent = 0 /\ handled = <<>> /\ dr.pc = "connect"
    BY DEF Init
  <2>2. [i \in 1 .. sent |-> i] = <<>>
    BY <2>1
  <2> QED BY <2>1, <2>2 DEF Sequence!SequenceInit
<1>2. Inv /\ [Next]_vars => [Sequence!Send \/ Sequence!Deliver \/ Sequence!End]_Sequence!sequenceVars
  BY StepRefines
<1> QED BY <1>1, <1>2, InvHolds, PTL DEF Spec, ImplementsSequence, Sequence!SequenceSpec
=============================================================================
