-------------------------- MODULE EventBuilder_proofs ---------------------------
(***************************************************************************)
(* The events of a turn, for any number of calls, any text and any order   *)
(* of notifications: the stream is well formed and the record ends with    *)
(* its turn; and, with one agent message, a stream that was published      *)
(* whole tells what the record says.                                       *)
(*                                                                         *)
(* The translation is a function of the builder, and so are the facts the  *)
(* proof is about: Good (what was emitted is in order, and each end is     *)
(* noted when it is sent) and Told (every item was shown, every end was    *)
(* sent).  Each operation of the builder has a lemma that says what it     *)
(* keeps and what it adds; the lemma of _complete_turn is an induction     *)
(* over the calls it lists.  Of the state, the invariant adds where the    *)
(* emitted events are: in the stream and the batch, unless a batch was     *)
(* lost, and then the response has ended.                                  *)
(***************************************************************************)
EXTENDS EventBuilder, FiniteSetTheorems, SequenceTheorems, TLAPS

-----------------------------------------------------------------------------
(* Induction over a set of numbers: the provers cannot instantiate the     *)
(* induction theorems of the library, but its theorem on the well-founded  *)
(* order of finite sets has no operator for a parameter.                   *)
LEMMA SmallestNumber ==
  ASSUME NEW T \in SUBSET Nat, T # {}
  PROVE  \E n \in T : \A m \in T : n <= m
<1> DEFINE R == StrictSubsetOrdering(Nat)
           F == FiniteSubsetsOf(Nat)
           B == {1 .. n : n \in T}
<1>1. IsWellFoundedOn(R, F)
  BY FS_StrictSubsetOrderingWellFounded
<1>2. B \subseteq F /\ B # {}
  <2>1. ASSUME NEW n \in T PROVE 1 .. n \in F
    <3>1. n \in Int /\ 1 \in Int /\ 1 .. n \in SUBSET Nat
      OBVIOUS
    <3>2. IsFiniteSet(1 .. n)
      BY <3>1, FS_Interval
    <3> QED BY <3>1, <3>2 DEF FiniteSubsetsOf
  <2>2. PICK n \in T : TRUE
    OBVIOUS
  <2>3. 1 .. n \in B
    BY <2>2
  <2> QED BY <2>1, <2>3
<1>3. \E x \in B : \A y \in B : <<y, x>> \notin R
  <2> HIDE DEF R, F, B
  <2> QED BY <1>1, <1>2, WFMin
<1>4. PICK n \in T : \A m \in T : <<1 .. m, 1 .. n>> \notin R
  BY <1>3
<1>5. ASSUME NEW m \in T, m < n PROVE FALSE
  <2>1. 1 .. m \subseteq 1 .. n /\ n \in 1 .. n /\ n \notin 1 .. m
    BY <1>5
  <2>2. 1 .. m # 1 .. n /\ 1 .. m \in SUBSET Nat /\ 1 .. n \in SUBSET Nat
    BY <2>1
  <2> QED BY <1>4, <2>1, <2>2 DEF StrictSubsetOrdering
<1> QED BY <1>5

LEMMA Induction ==
  ASSUME NEW S, 0 \in S, \A n \in Nat : n \in S => n + 1 \in S
  PROVE  Nat \subseteq S
<1> DEFINE T == {n \in Nat : n \notin S}
<1> SUFFICES ASSUME T # {} PROVE FALSE
  OBVIOUS
<1>1. PICK n \in T : \A m \in T : n <= m
  BY SmallestNumber
<1>2. n # 0 /\ n - 1 \in Nat /\ n - 1 \notin T
  BY <1>1
<1> QED BY <1>1, <1>2

-----------------------------------------------------------------------------
(* The calls of a completed turn, one after the other.                     *)
LEMMA CompleteCallsSteps ==
  ASSUME NEW s, NEW calls \in Seq(Call)
  PROVE  \E f : /\ f[0] = s
                /\ \A n \in 1 .. Len(calls) : f[n] = CompleteCall(f[n - 1], calls[n], "completed")
                /\ CompleteCalls(s, calls) = f[Len(calls)]
<1> DEFINE Body(f, n) == IF n = 0 THEN s ELSE CompleteCall(f[n - 1], calls[n], "completed")
           Settles(f, k) == f = [n \in 0 .. k |-> Body(f, n)]
           S == {k \in Nat : \E f : Settles(f, k)}
<1>1. 0 \in S
  <2>1. Settles([n \in 0 .. 0 |-> s], 0)
    OBVIOUS
  <2> QED BY <2>1
<1>2. ASSUME NEW k \in Nat, k \in S PROVE k + 1 \in S
  <2>1. PICK f : Settles(f, k)
    BY <1>2
  <2> DEFINE g == [n \in 0 .. k + 1 |-> IF n = k + 1 THEN Body(f, n) ELSE f[n]]
  <2>2. \A n \in 0 .. k : g[n] = f[n] /\ f[n] = Body(f, n)
    BY <2>1
  <2>3. \A n \in 0 .. k + 1 : Body(g, n) = Body(f, n)
    BY <2>2
  <2>4. ASSUME NEW n \in 0 .. k + 1 PROVE g[n] = Body(g, n)
    <3>1. CASE n = k + 1
      <4>1. g[n] = Body(f, n)
        BY <3>1
      <4> QED BY <2>3, <4>1
    <3>2. CASE n \in 0 .. k
      BY <2>2, <2>3, <3>2
    <3> QED BY <3>1, <3>2
  <2>5. Settles(g, k + 1)
    BY <2>4
  <2> QED
    <3> HIDE DEF g, Settles
    <3> QED BY <2>5
<1>3. Len(calls) \in S
  <2>1. Len(calls) \in Nat
    BY LenProperties
  <2> HIDE DEF S
  <2> QED BY <1>1, <1>2, <2>1, Induction
<1> DEFINE h == CHOOSE f : Settles(f, Len(calls))
<1>4. Settles(h, Len(calls))
  BY <1>3, Zenon
<1>5. CompleteCalls(s, calls) = h[Len(calls)]
  BY Zenon DEF CompleteCalls
<1>6. \A n \in 0 .. Len(calls) : h[n] = Body(h, n)
  <2> HIDE DEF h
  <2> QED BY <1>4
<1>7. Len(calls) \in Nat
  BY LenProperties
<1> HIDE DEF h
<1> QED BY <1>5, <1>6, <1>7

-----------------------------------------------------------------------------
(* The text of a sequence of events. *)
Text == Seq(Word)

FlattenedBy(f, texts) ==
    /\ f[1] = texts[1]
    /\ \A n \in 2 .. Len(texts) : f[n] = f[n - 1] \o texts[n]
    /\ FlattenSeq(texts) = f[Len(texts)]

LEMMA FlattenSteps ==
  ASSUME NEW texts \in Seq(Text), texts # <<>>
  PROVE  \E f : FlattenedBy(f, texts)
<1> DEFINE Body(f, n) == IF n = 1 THEN texts[n] ELSE f[n - 1] \o texts[n]
           Flattens(f, k) == f = [n \in 1 .. k |-> Body(f, n)]
           S == {k \in Nat : \E f : Flattens(f, k)}
<1>1. 0 \in S
  <2>1. Flattens([n \in 1 .. 0 |-> texts], 0)
    OBVIOUS
  <2> QED BY <2>1
<1>2. ASSUME NEW k \in Nat, k \in S PROVE k + 1 \in S
  <2>1. PICK f : Flattens(f, k)
    BY <1>2
  <2> DEFINE g == [n \in 1 .. k + 1 |-> IF n = k + 1 THEN Body(f, n) ELSE f[n]]
  <2>2. \A n \in 1 .. k : g[n] = f[n] /\ f[n] = Body(f, n)
    <3>1. \A n \in 1 .. k : f[n] = Body(f, n)
      BY <2>1, Zenon
    <3>2. \A n \in 1 .. k : n \in 1 .. k + 1 /\ n # k + 1
      OBVIOUS
    <3> QED BY <3>1, <3>2
  <2>3. \A n \in 1 .. k + 1 : Body(g, n) = Body(f, n)
    BY <2>2
  <2>4. ASSUME NEW n \in 1 .. k + 1 PROVE g[n] = Body(g, n)
    <3>1. CASE n = k + 1
      <4>1. g[n] = Body(f, n)
        BY <3>1
      <4> QED BY <2>3, <4>1
    <3>2. CASE n \in 1 .. k
      BY <2>2, <2>3, <3>2
    <3> QED BY <3>1, <3>2
  <2>5. Flattens(g, k + 1)
    BY <2>4
  <2> QED
    <3> HIDE DEF g, Flattens
    <3> QED BY <2>5
<1>3. Len(texts) \in Nat \ {0}
  BY EmptySeq
<1>4. Len(texts) \in S
  <2> HIDE DEF S
  <2> QED BY <1>1, <1>2, <1>3, Induction
<1> DEFINE h == CHOOSE f : Flattens(f, Len(texts))
<1>5. Flattens(h, Len(texts))
  BY <1>4, Zenon
<1>6. FlattenSeq(texts) = h[Len(texts)]
  <2>1. Len(texts) # 0
    BY <1>3
  <2> QED BY <2>1, Zenon DEF FlattenSeq
<1>7. \A n \in 1 .. Len(texts) : h[n] = Body(h, n)
  <2> HIDE DEF h
  <2> QED BY <1>5
<1> HIDE DEF h
<1>8. h[1] = texts[1]
  BY <1>3, <1>7
<1>9. \A n \in 2 .. Len(texts) : h[n] = h[n - 1] \o texts[n]
  <2>1. \A n \in 2 .. Len(texts) : n \in 1 .. Len(texts) /\ n # 1
    BY <1>3
  <2> QED BY <1>7, <2>1
<1> QED BY <1>6, <1>8, <1>9 DEF FlattenedBy

LEMMA FlattenAppend ==
  ASSUME NEW texts \in Seq(Text), NEW w \in Text
  PROVE  /\ FlattenSeq(texts) \in Text
         /\ FlattenSeq(Append(texts, w)) = FlattenSeq(texts) \o w
<1> DEFINE more == Append(texts, w)
           N == Len(texts)
<1>1. /\ more \in Seq(Text) /\ more # <<>> /\ Len(more) = N + 1 /\ N \in Nat
      /\ \A i \in 1 .. N : more[i] = texts[i] /\ texts[i] \in Text
      /\ more[N + 1] = w
  BY AppendProperties, LenProperties
<1>2. PICK g : FlattenedBy(g, more)
  <2> HIDE DEF more
  <2> QED BY <1>1, FlattenSteps
<1>3. CASE texts = <<>>
  <2>1. N = 0 /\ FlattenSeq(texts) = <<>>
    BY <1>3 DEF FlattenSeq
  <2>2. FlattenSeq(more) = w
    BY <1>1, <1>2, <2>1 DEF FlattenedBy
  <2> QED BY <2>1, <2>2, ConcatEmptySeq, EmptySeq DEF Text
<1>4. CASE texts # <<>>
  <2>1. N \in Nat \ {0}
    BY <1>4, EmptySeq
  <2>2. PICK f : FlattenedBy(f, texts)
    BY <1>4, FlattenSteps
  <2> HIDE DEF more, N
  <2> DEFINE S == {k \in Nat : k + 1 <= N => f[k + 1] \in Text /\ g[k + 1] = f[k + 1]}
  <2>3. 0 \in S
    BY <1>1, <1>2, <2>1, <2>2 DEF FlattenedBy, N
  <2>4. ASSUME NEW k \in Nat, k \in S PROVE k + 1 \in S
    <3> SUFFICES ASSUME k + 2 <= N PROVE f[k + 2] \in Text /\ g[k + 2] = f[k + 2]
      OBVIOUS
    <3>1. f[k + 1] \in Text /\ g[k + 1] = f[k + 1]
      BY <2>4, <1>1
    <3>2. k + 2 \in 2 .. N /\ k + 2 \in 2 .. Len(more) /\ k + 2 \in 1 .. N /\ (k + 2) - 1 = k + 1
      BY <1>1
    <3>3. f[k + 2] = f[k + 1] \o texts[k + 2] /\ g[k + 2] = g[k + 1] \o more[k + 2]
      BY <1>2, <2>2, <3>2 DEF FlattenedBy, N
    <3>4. texts[k + 2] \in Text /\ more[k + 2] = texts[k + 2]
      BY <1>1, <3>2
    <3> QED BY <3>1, <3>3, <3>4, ConcatProperties DEF Text
  <2>5. N - 1 \in S
    <3>1. N - 1 \in Nat
      BY <2>1
    <3> HIDE DEF S
    <3> QED BY <2>3, <2>4, <3>1, Induction
  <2>6. f[N] \in Text /\ g[N] = f[N]
    BY <1>1, <2>1, <2>5
  <2>7. N + 1 \in 2 .. Len(more) /\ (N + 1) - 1 = N
    BY <1>1, <2>1
  <2>8. FlattenSeq(more) = g[N] \o w
    BY <1>1, <1>2, <2>7 DEF FlattenedBy
  <2> QED BY <2>2, <2>6, <2>8 DEF more, N, FlattenedBy
<1> QED BY <1>3, <1>4

TextOf(e) == IF e.type = "delta" THEN e.text ELSE <<>>
Deltas(es) == FlattenSeq([n \in 1 .. Len(es) |-> TextOf(es[n])])

LEMMA DeltasAppend ==
  ASSUME NEW es \in Seq(Event), NEW e \in Event
  PROVE  Deltas(es) \in Text /\ Deltas(Append(es, e)) = Deltas(es) \o TextOf(e)
<1> DEFINE texts == [n \in 1 .. Len(es) |-> TextOf(es[n])]
           more == [n \in 1 .. Len(Append(es, e)) |-> TextOf(Append(es, e)[n])]
<1>1. \A x \in Event : TextOf(x) \in Text
  BY EmptySeq DEF Event, Text, TextOf
<1>2. /\ Append(es, e) \in Seq(Event) /\ Len(Append(es, e)) = Len(es) + 1 /\ Len(es) \in Nat
      /\ \A i \in 1 .. Len(es) : Append(es, e)[i] = es[i] /\ es[i] \in Event
      /\ Append(es, e)[Len(es) + 1] = e
  BY AppendProperties, LenProperties
<1>3. texts \in Seq(Text)
  BY <1>1, <1>2
<1>4. Len(texts) = Len(es)
  BY <1>2, <1>3
<1>5. TextOf(e) \in Text
  BY <1>1
<1>6. /\ Append(texts, TextOf(e)) \in Seq(Text) /\ Len(Append(texts, TextOf(e))) = Len(es) + 1
      /\ \A i \in 1 .. Len(es) : Append(texts, TextOf(e))[i] = texts[i]
      /\ Append(texts, TextOf(e))[Len(es) + 1] = TextOf(e)
  <2> HIDE DEF texts
  <2> QED BY <1>3, <1>4, <1>5, AppendProperties
<1>7. more = Append(texts, TextOf(e))
  <2>1. more \in Seq(Text) /\ Len(more) = Len(es) + 1
    BY <1>1, <1>2
  <2>2. ASSUME NEW i \in 1 .. Len(es) + 1 PROVE more[i] = Append(texts, TextOf(e))[i]
    <3>1. CASE i \in 1 .. Len(es)
      BY <1>2, <1>6, <3>1
    <3>2. CASE i = Len(es) + 1
      BY <1>2, <1>6, <3>2
    <3> QED BY <1>2, <3>1, <3>2
  <2> HIDE DEF more, texts
  <2> QED BY <1>6, <2>1, <2>2, SeqEqual
<1> HIDE DEF texts, more
<1>8. FlattenSeq(texts) \in Text /\ FlattenSeq(more) = FlattenSeq(texts) \o TextOf(e)
  BY <1>3, <1>5, <1>7, FlattenAppend
<1> QED BY <1>8 DEF Deltas, texts, more

LEMMA DeltasOfText ==
  ASSUME NEW es \in Seq(Event)
  PROVE  Deltas(es) \in Text
<1>1. CASE es = <<>>
  <2>1. Len(es) = 0
    BY <1>1, EmptySeq
  <2>2. [n \in 1 .. Len(es) |-> TextOf(es[n])] = <<>>
    BY <2>1
  <2>3. Len([n \in 1 .. Len(es) |-> TextOf(es[n])]) = 0
    BY <2>2, EmptySeq
  <2>4. FlattenSeq(<<>>) = <<>>
    BY DEF FlattenSeq
  <2> QED BY <2>2, <2>4, EmptySeq DEF Deltas, Text
<1>2. CASE es # <<>>
  <2>1. PICK e : e = es[1]
    OBVIOUS
  <2>2. 1 \in 1 .. Len(es) /\ e \in Event
    BY <1>2, <2>1, EmptySeq, LenProperties
  <2> QED BY <2>2, DeltasAppend
<1> QED BY <1>1, <1>2

-----------------------------------------------------------------------------
Id == Call \cup Message
Label == Id \cup {NoItem}
Type == {"added", "progress", "delta", "settled", "done"} \cup Terminal
Item == [id : Id, status : ItemStatus]
Status == {"in_progress"} \cup Terminal
Builder == [output : Seq(Item), text : Seq(Word), msg : Message \cup {NoItem}, finished : BOOLEAN,
            done : SUBSET Call, status : Status, number : Nat, out : Seq(Event)]

\* What a builder has emitted, st of it published.
Events(st, s) == st \cup ToSet(s.out)

Unique(s) == \A i, j \in 1 .. Len(s.output) : s.output[i].id = s.output[j].id => i = j

Numbered(st, s) ==
    /\ \A x \in Events(st, s) : x.number < s.number
    /\ \A x \in st, i \in DOMAIN s.out : x.number < s.out[i].number
    /\ \A i, j \in DOMAIN s.out : i < j => s.out[i].number < s.out[j].number

\* An item has its place, begins with its "added" and ends with its "done".
Placed(st, s) == \A x \in Events(st, s) :
    x.item # NoItem => Has(s, x.item) /\ x.index = Index(s, x.item)

Ordered(st, s) == \A x \in Events(st, s) : x.item # NoItem =>
    /\ \A y \in Events(st, s) :
          y.item = x.item /\ y.number < x.number => x.type # "added" /\ y.type # "done"
    /\ x.type # "added" => \E y \in Events(st, s) : y.item = x.item /\ y.number < x.number

Core(st, s) == s \in Builder /\ Unique(s) /\ Numbered(st, s) /\ Placed(st, s) /\ Ordered(st, s)

-----------------------------------------------------------------------------
LEMMA IndexIs ==
  ASSUME NEW s, Unique(s), NEW n \in 1 .. Len(s.output)
  PROVE  Has(s, s.output[n].id) /\ Index(s, s.output[n].id) = n
<1>1. Index(s, s.output[n].id) \in 1 .. Len(s.output)
      /\ s.output[Index(s, s.output[n].id)].id = s.output[n].id
  BY DEF Index
<1> QED BY <1>1 DEF Unique, Has

LEMMA IndexHas ==
  ASSUME NEW s, NEW id, Has(s, id)
  PROVE  Index(s, id) \in 1 .. Len(s.output) /\ s.output[Index(s, id)].id = id
BY DEF Has, Index

\* An item keeps its place.
PutIs(s, t, id, status) ==
    /\ t \in Builder /\ Unique(t)
    /\ t.text = s.text /\ t.msg = s.msg /\ t.finished = s.finished /\ t.done = s.done
    /\ t.status = s.status /\ t.number = s.number /\ t.out = s.out
    /\ \A x : Has(t, x) <=> Has(s, x) \/ x = id
    /\ \A x : Has(s, x) => Index(t, x) = Index(s, x)
    /\ \A n \in 1 .. Len(t.output) : t.output[n].id = id => t.output[n].status = status

LEMMA PutKeeps ==
  ASSUME NEW s \in Builder, Unique(s), NEW id \in Id, NEW status \in ItemStatus
  PROVE  PutIs(s, Put(s, id, status), id, status)
<1> DEFINE item == [id |-> id, status |-> status]
           t == Put(s, id, status)
           o == s.output
<1>1. item \in Item /\ o \in Seq(Item) /\ Len(o) \in Nat
  BY DEF Item, Builder
<1>2. CASE Has(s, id)
  <2> DEFINE k == Index(s, id)
  <2>1. t = [s EXCEPT !.output = [o EXCEPT ![k] = item]]
    BY <1>2 DEF Put
  <2>2. k \in 1 .. Len(o) /\ o[k].id = id
    BY <1>2, IndexHas
  <2> HIDE DEF k
  <2>3. /\ [o EXCEPT ![k] = item] \in Seq(Item) /\ Len([o EXCEPT ![k] = item]) = Len(o)
        /\ \A j \in 1 .. Len(o) : [o EXCEPT ![k] = item][j] = IF j = k THEN item ELSE o[j]
    BY <1>1, <2>2, ExceptSeq
  <2> HIDE DEF item
  <2>4. /\ t \in Builder /\ t.output = [o EXCEPT ![k] = item]
        /\ t.text = s.text /\ t.msg = s.msg /\ t.finished = s.finished /\ t.done = s.done
        /\ t.status = s.status /\ t.number = s.number /\ t.out = s.out
    BY <2>1, <2>3 DEF Builder
  <2> USE DEF item
  <2> HIDE DEF t
  <2>5. Len(t.output) = Len(o) /\ \A j \in 1 .. Len(o) : t.output[j].id = o[j].id
    BY <2>2, <2>3, <2>4
  <2>6. Unique(t) /\ \A x : Has(t, x) <=> Has(s, x)
    BY <2>5 DEF Unique, Has
  <2>7. ASSUME NEW x, Has(s, x) PROVE Index(t, x) = Index(s, x)
    <3>1. Index(s, x) \in 1 .. Len(o) /\ o[Index(s, x)].id = x
      BY <2>7, IndexHas
    <3> QED BY <2>5, <2>6, <3>1, IndexIs
  <2>8. ASSUME NEW n \in 1 .. Len(t.output), t.output[n].id = id PROVE t.output[n].status = status
    <3>1. n = k
      BY <2>2, <2>5, <2>8 DEF Unique
    <3> QED BY <2>3, <2>4, <2>5, <3>1
  <2> QED BY <1>2, <2>4, <2>6, <2>7, <2>8 DEF t, PutIs
<1>3. CASE ~Has(s, id)
  <2>1. t = [s EXCEPT !.output = Append(o, item)]
    BY <1>3 DEF Put
  <2>2. /\ Append(o, item) \in Seq(Item) /\ Len(Append(o, item)) = Len(o) + 1
        /\ \A j \in 1 .. Len(o) : Append(o, item)[j] = o[j]
        /\ Append(o, item)[Len(o) + 1] = item
    BY <1>1, AppendProperties
  <2> HIDE DEF item
  <2>4. /\ t \in Builder /\ t.output = Append(o, item)
        /\ t.text = s.text /\ t.msg = s.msg /\ t.finished = s.finished /\ t.done = s.done
        /\ t.status = s.status /\ t.number = s.number /\ t.out = s.out
    BY <2>1, <2>2 DEF Builder
  <2> HIDE DEF t
  <2>3. /\ Len(t.output) = Len(o) + 1 /\ t.output[Len(o) + 1] = item
        /\ \A j \in 1 .. Len(o) : t.output[j] = o[j]
    BY <2>2, <2>4
  <2>5. /\ Len(t.output) = Len(o) + 1 /\ \A j \in 1 .. Len(o) : t.output[j].id = o[j].id
        /\ t.output[Len(o) + 1].id = id /\ t.output[Len(o) + 1].status = status
        /\ \A j \in 1 .. Len(o) : o[j].id # id
    BY <1>3, <2>3 DEF Has, item
  <2> DEFINE D == 1 .. Len(o)
             k == Len(o) + 1
             u == t.output
  <2>. 1 .. Len(u) = D \cup {k} /\ k \notin D
    <3>1. PICK l \in Nat : l = Len(o)
      BY <1>1
    <3>2. 1 .. l + 1 = 1 .. l \cup {l + 1} /\ l + 1 \notin 1 .. l
      OBVIOUS
    <3> QED BY <2>5, <3>1, <3>2
  <2>. /\ u[k].id = id /\ u[k].status = status
       /\ \A j \in D : u[j].id = o[j].id /\ o[j].id # id
    BY <2>5
  <2>. \A i, j \in D : o[i].id = o[j].id => i = j
    BY DEF Unique
  <2> HIDE DEF D, k, u
  <2>6. Unique(t) /\ \A x : Has(t, x) <=> Has(s, x) \/ x = id
    <3>1. \A i, j \in D \cup {k} : u[i].id = u[j].id => i = j
      OBVIOUS
    <3>2. \A x : (\E n \in D \cup {k} : u[n].id = x) <=> (\E n \in D : o[n].id = x) \/ x = id
      OBVIOUS
    <3> QED BY <3>1, <3>2 DEF Unique, Has, D, u
  <2>7. ASSUME NEW x, Has(s, x) PROVE Index(t, x) = Index(s, x)
    <3>1. Index(s, x) \in 1 .. Len(o) /\ o[Index(s, x)].id = x
      BY <2>7, IndexHas
    <3>2. Index(s, x) \in 1 .. Len(t.output) /\ t.output[Index(s, x)].id = x
      BY <3>1 DEF D, u
    <3> QED BY <2>6, <3>2, IndexIs
  <2>8. ASSUME NEW n \in 1 .. Len(t.output), t.output[n].id = id PROVE t.output[n].status = status
    BY <2>8 DEF D, u
  <2> QED BY <2>4, <2>6, <2>7, <2>8 DEF t, PutIs
<1> QED BY <1>2, <1>3

\* Two builders with the same items place them alike.
LEMMA SameItems ==
  ASSUME NEW s, NEW t, s.output = t.output
  PROVE  /\ Unique(s) <=> Unique(t)
         /\ \A x : Has(s, x) <=> Has(t, x)
         /\ \A x : Index(s, x) = Index(t, x)
BY DEF Unique, Has, Index

\* One more event.
EmitEvent(s, type, id, text) ==
    [number |-> s.number, type |-> type, item |-> id, text |-> text,
     index |-> IF id = NoItem THEN 0 ELSE Index(s, id)]

Emitted(st, s, t, e) ==
    /\ t \in Builder /\ e \in Event
    /\ t.output = s.output /\ t.text = s.text /\ t.msg = s.msg /\ t.finished = s.finished
    /\ t.done = s.done /\ t.status = s.status
    /\ t.number = s.number + 1 /\ t.out = Append(s.out, e) /\ Len(t.out) = Len(s.out) + 1
    /\ Events(st, t) = Events(st, s) \cup {e}

LEMMA EmitAdds ==
  ASSUME NEW st, NEW s \in Builder, NEW id \in Label, id # NoItem => Has(s, id),
         NEW type \in Type,
         NEW text \in Text
  PROVE  Emitted(st, s, Emit(s, type, id, text), EmitEvent(s, type, id, text))
<1> DEFINE e == EmitEvent(s, type, id, text)
           t == Emit(s, type, id, text)
<1>1. e \in Event
  <2>1. (IF id = NoItem THEN 0 ELSE Index(s, id)) \in Nat
    BY IndexHas DEF Builder
  <2> QED BY <2>1 DEF EmitEvent, Event, Id, Builder, Label, Type, Text
<1>2. s.out \in Seq(Event) /\ s.number \in Nat
  BY DEF Builder
<1>3. t = [s EXCEPT !.number = @ + 1, !.out = Append(@, e)]
  BY DEF Emit, EmitEvent
<1> HIDE DEF e
<1>4. /\ Append(s.out, e) \in Seq(Event) /\ Len(Append(s.out, e)) = Len(s.out) + 1
      /\ \A j \in 1 .. Len(s.out) : Append(s.out, e)[j] = s.out[j]
      /\ Append(s.out, e)[Len(s.out) + 1] = e
  BY <1>1, <1>2, AppendProperties
<1> DEFINE a == Append(s.out, e)
<1> HIDE DEF a
<1>5. /\ t \in Builder
      /\ t.output = s.output /\ t.text = s.text /\ t.msg = s.msg /\ t.finished = s.finished
      /\ t.done = s.done /\ t.status = s.status
      /\ t.number = s.number + 1 /\ t.out = Append(s.out, e)
  <2>1. a \in Seq(Event) /\ s.number + 1 \in Nat /\ a = Append(s.out, e)
    BY <1>2, <1>4 DEF a
  <2>2. t = [s EXCEPT !.number = s.number + 1, !.out = a]
    BY <1>3, <2>1
  <2> HIDE DEF t
  <2> QED BY <2>1, <2>2 DEF Builder
<1> HIDE DEF t
<1>6. ToSet(t.out) = ToSet(s.out) \cup {e}
  <2>1. DOMAIN t.out = 1 .. Len(s.out) + 1 /\ DOMAIN s.out = 1 .. Len(s.out) /\ Len(s.out) \in Nat
    BY <1>2, <1>4, <1>5, LenProperties
  <2> QED BY <1>4, <1>5, <2>1 DEF ToSet
<1> QED BY <1>1, <1>4, <1>5, <1>6 DEF Events, Emitted, e, t

LEMMA EmitCore ==
  ASSUME NEW st \in SUBSET Event, NEW s, Core(st, s),
         NEW id \in Label, id # NoItem => Has(s, id),
         NEW type \in Type,
         NEW text \in Text,
         id # NoItem => /\ type = "added" <=> \A x \in Events(st, s) : x.item # id
                      /\ \A x \in Events(st, s) : x.item = id => x.type # "done"
  PROVE  Core(st, Emit(s, type, id, text))
<1> DEFINE e == EmitEvent(s, type, id, text)
           t == Emit(s, type, id, text)
<1>1. s \in Builder /\ Emitted(st, s, t, e)
  <2>1. s \in Builder
    BY DEF Core
  <2> QED BY <2>1, EmitAdds
<1>2. /\ e.number = s.number /\ e.type = type /\ e.item = id
      /\ id # NoItem => e.index = Index(s, id)
  BY DEF EmitEvent
<1> HIDE DEF t, e
<1> USE <1>1 DEF Emitted
<1>3. s.number \in Nat /\ s.out \in Seq(Event) /\ Events(st, s) \subseteq Event
  <2>1. s.number \in Nat /\ s.out \in Seq(Event)
    BY DEF Core, Builder
  <2>2. \A i \in DOMAIN s.out : s.out[i] \in Event
    BY <2>1
  <2> QED BY <2>1, <2>2 DEF Events, ToSet
<1>4. \A x \in Events(st, s) : x.number \in Nat /\ x.number < s.number
  BY <1>3 DEF Core, Numbered, Event
<1>5. Numbered(st, t)
  <2>1. \A x \in Events(st, t) : x.number < t.number
    BY <1>1, <1>2, <1>3, <1>4
  <2>2. /\ DOMAIN t.out = 1 .. Len(s.out) + 1 /\ DOMAIN s.out = 1 .. Len(s.out) /\ Len(s.out) \in Nat
        /\ \A i \in DOMAIN s.out : t.out[i] = s.out[i]
        /\ t.out[Len(s.out) + 1] = e
    BY <1>1, <1>3, AppendProperties, LenProperties
  <2>3. \A i \in DOMAIN s.out : s.out[i].number < e.number
    BY <1>2, <1>4 DEF Events, ToSet
  <2>4. \A x \in st : x.number < e.number
    BY <1>2, <1>4 DEF Events
  <2>5. \A x \in st, i \in DOMAIN t.out : x.number < t.out[i].number
    <3> SUFFICES ASSUME NEW x \in st, NEW i \in DOMAIN t.out PROVE x.number < t.out[i].number
      OBVIOUS
    <3>1. CASE i = Len(s.out) + 1
      BY <2>2, <2>4, <3>1
    <3>2. CASE i \in DOMAIN s.out
      <4>1. x.number < s.out[i].number
        BY <3>2 DEF Core, Numbered
      <4> QED BY <2>2, <3>2, <4>1
    <3> QED BY <2>2, <3>1, <3>2
  <2>6. \A i, j \in DOMAIN t.out : i < j => t.out[i].number < t.out[j].number
    <3> SUFFICES ASSUME NEW i \in DOMAIN t.out, NEW j \in DOMAIN t.out, i < j
                 PROVE  t.out[i].number < t.out[j].number
      OBVIOUS
    <3>1. i \in DOMAIN s.out /\ (j \in DOMAIN s.out \/ j = Len(s.out) + 1)
      BY <2>2
    <3>2. CASE j \in DOMAIN s.out
      <4>1. s.out[i].number < s.out[j].number
        BY <3>1, <3>2 DEF Core, Numbered
      <4> QED BY <2>2, <3>1, <3>2, <4>1
    <3> QED BY <2>2, <2>3, <3>1, <3>2
  <2> QED BY <2>1, <2>5, <2>6 DEF Numbered
<1>6. /\ Unique(t) /\ \A x : Has(t, x) <=> Has(s, x)
      /\ \A x : Index(t, x) = Index(s, x)
  BY <1>1, SameItems DEF Core
<1>7. Placed(st, t)
  BY <1>1, <1>2, <1>6 DEF Placed, Core
<1>8. Ordered(st, t)
  <2>1. ASSUME NEW x \in Events(st, t), x.item # NoItem, NEW y \in Events(st, t),
               y.item = x.item, y.number < x.number
        PROVE  x.type # "added" /\ y.type # "done"
    <3>1. y \in Events(st, s)
      BY <1>1, <1>2, <1>4, <2>1, <1>3
    <3>2. CASE x = e
      BY <1>2, <2>1, <3>1, <3>2
    <3>3. CASE x \in Events(st, s)
      BY <2>1, <3>1, <3>3 DEF Core, Ordered
    <3> QED BY <1>1, <3>2, <3>3
  <2>2. ASSUME NEW x \in Events(st, t), x.item # NoItem, x.type # "added"
        PROVE  \E y \in Events(st, t) : y.item = x.item /\ y.number < x.number
    <3>1. CASE x = e
      <4>1. PICK y \in Events(st, s) : y.item = id
        BY <1>2, <2>2, <3>1
      <4> QED BY <1>1, <1>2, <1>4, <3>1, <4>1
    <3>2. CASE x \in Events(st, s)
      BY <1>1, <2>2, <3>2 DEF Core, Ordered
    <3> QED BY <1>1, <3>1, <3>2
  <2> QED BY <2>1, <2>2 DEF Ordered
<1> QED BY <1>1, <1>5, <1>6, <1>7, <1>8 DEF Core, t

LEMMA PutCore ==
  ASSUME NEW st, NEW s, Core(st, s), NEW id \in Id, NEW status \in ItemStatus
  PROVE  /\ Core(st, Put(s, id, status)) /\ PutIs(s, Put(s, id, status), id, status)
         /\ Events(st, Put(s, id, status)) = Events(st, s)
<1>1. s \in Builder /\ Unique(s)
  BY DEF Core
<1>2. PICK t : t = Put(s, id, status)
  OBVIOUS
<1>3. PutIs(s, t, id, status)
  BY <1>1, <1>2, PutKeeps
<1>4. Events(st, t) = Events(st, s)
  BY <1>3 DEF Events, PutIs
<1>5. Numbered(st, t) /\ Ordered(st, t)
  BY <1>3, <1>4 DEF Core, Numbered, Ordered, PutIs
<1>6. Placed(st, t)
  BY <1>3, <1>4 DEF Core, Placed, PutIs
<1> QED BY <1>2, <1>3, <1>4, <1>5, <1>6 DEF Core, PutIs

-----------------------------------------------------------------------------
\* The end of an item, and of the response, is noted when it is sent.
Marked(st, s) ==
    /\ \A x \in Events(st, s) :
          /\ x.type \in Terminal =>
                x.type = s.status /\ \A y \in Events(st, s) : y.number <= x.number
          /\ x.type = "done" => x.item \in s.done \/ (s.finished /\ x.item = s.msg)
    /\ \A c \in s.done : Has(s, c)

\* A response has one message, which ends with it.
OneMessage(s) ==
    /\ s.msg # NoItem => Has(s, s.msg)
    /\ \A m \in Message : Has(s, m) => m = s.msg
    /\ s.finished <=> s.msg # NoItem /\ s.status # "in_progress"
    /\ s.finished => \A n \in 1 .. Len(s.output) :
                        s.output[n].id = s.msg => s.output[n].status = "completed"

Good(st, s) == Core(st, s) /\ Marked(st, s) /\ OneMessage(s)

\* Nothing is lost: every item has been shown, and every end has been told.
Shown(st, s) == \A id \in Id : Has(s, id) => \E x \in Events(st, s) : x.item = id
Finished(st, s, id) == \E x \in Events(st, s) : x.item = id /\ x.type = "done"
Told(st, s) ==
    /\ Shown(st, s)
    /\ \A c \in s.done : Finished(st, s, c)
    /\ s.finished => Finished(st, s, s.msg)

\* From s to t the builder has added events of the items in S, and nothing is lost.
Adds(s, t, S) ==
    /\ \A x \in ToSet(t.out) : x \in ToSet(s.out) \/ x.item \in S
    /\ t.number - Len(t.out) = s.number - Len(s.out)
    /\ s.done \subseteq t.done

LEMMA AddsMore ==
  ASSUME NEW r \in Builder, NEW s \in Builder, NEW t \in Builder, NEW S, Adds(r, s, S), Adds(s, t, S)
  PROVE  Adds(r, t, S)
<1>3. t.number - Len(t.out) = r.number - Len(r.out)
  BY Zenon DEF Adds
<1>4. \A x \in ToSet(t.out) : x \in ToSet(r.out) \/ x.item \in S
  BY DEF Adds
<1>5. r.done \subseteq t.done
  BY DEF Adds
<1> QED BY <1>3, <1>4, <1>5 DEF Adds

LEMMA EmitAddsItem ==
  ASSUME NEW st, NEW s \in Builder, NEW t, NEW e, Emitted(st, s, t, e), NEW S, e.item \in S
  PROVE  Adds(s, t, S)
<1>1. s.number \in Nat /\ s.out \in Seq(Event) /\ Len(s.out) \in Nat
  BY DEF Builder
<1>2. ToSet(t.out) = ToSet(s.out) \cup {e}
  <2>1. t.out = Append(s.out, e) /\ e \in Event /\ Len(t.out) = Len(s.out) + 1
    BY DEF Emitted
  <2>2. DOMAIN t.out = 1 .. Len(s.out) + 1 /\ DOMAIN s.out = 1 .. Len(s.out)
    BY <1>1, <2>1, AppendProperties, LenProperties
  <2> QED BY <1>1, <2>1, <2>2, AppendProperties DEF ToSet
<1>3. t.number - Len(t.out) = s.number - Len(s.out)
  <2>1. t.number = s.number + 1 /\ Len(t.out) = Len(s.out) + 1
    BY DEF Emitted
  <2>2. \A i, k \in Nat : (i + 1) - (k + 1) = i - k
    OBVIOUS
  <2> QED BY <1>1, <2>1, <2>2, Zenon
<1>4. s.done \subseteq t.done
  BY DEF Emitted
<1> QED BY <1>2, <1>3, <1>4 DEF Adds

\* What is sent from s to t has no text.
Silent(s, t) == \A sq \in Seq(Event) : Deltas(sq \o t.out) = Deltas(sq \o s.out)
Says(s, t, w) == \A sq \in Seq(Event) : Deltas(sq \o t.out) = Deltas(sq \o s.out) \o w

LEMMA EmitSays ==
  ASSUME NEW st, NEW s \in Builder, NEW t, NEW e, Emitted(st, s, t, e)
  PROVE  Says(s, t, TextOf(e)) /\ (e.type # "delta" => Silent(s, t))
<1>1. ASSUME NEW sq \in Seq(Event)
      PROVE  /\ Deltas(sq \o t.out) = Deltas(sq \o s.out) \o TextOf(e)
             /\ e.type # "delta" => Deltas(sq \o t.out) = Deltas(sq \o s.out)
  <2>1. s.out \in Seq(Event) /\ e \in Event /\ t.out = Append(s.out, e)
    BY DEF Emitted, Builder
  <2>2. <<e>> \in Seq(Event) /\ sq \o s.out \in Seq(Event)
    BY <2>1, ConcatProperties
  <2>3. sq \o (s.out \o <<e>>) = (sq \o s.out) \o <<e>>
    <3>1. PICK u \in Seq(Event) : u = <<e>>
      BY <2>2
    <3>2. PICK o \in Seq(Event) : o = s.out
      BY <2>1
    <3>3. sq \o (o \o u) = (sq \o o) \o u
      BY ConcatAssociative
    <3> QED BY <3>1, <3>2, <3>3
  <2>4. Append(s.out, e) = s.out \o <<e>> /\ Append(sq \o s.out, e) = (sq \o s.out) \o <<e>>
    BY <2>1, <2>2, AppendIsConcat
  <2>5. sq \o t.out = Append(sq \o s.out, e)
    BY <2>1, <2>3, <2>4
  <2>6. /\ Deltas(sq \o s.out) \in Text
        /\ Deltas(Append(sq \o s.out, e)) = Deltas(sq \o s.out) \o TextOf(e)
    BY <2>1, <2>2, DeltasAppend
  <2>7. e.type # "delta" => Deltas(sq \o s.out) \o TextOf(e) = Deltas(sq \o s.out)
    BY <2>6, ConcatEmptySeq DEF TextOf, Text
  <2> QED BY <2>5, <2>6, <2>7
<1> QED BY <1>1 DEF Silent, Says

LEMMA NotTerminal ==
  ASSUME NEW st, NEW s, Marked(st, s), s.status = "in_progress"
  PROVE  \A x \in Events(st, s) : x.type \notin Terminal
BY DEF Marked, Terminal

\* While the response goes on, an event of an item that is not done.
LEMMA EmitGood ==
  ASSUME NEW st \in SUBSET Event, NEW s, Good(st, s), s.status = "in_progress",
         NEW id \in Id, Has(s, id), id \notin s.done,
         NEW type \in {"added", "progress", "delta", "settled"}, NEW text \in Text,
         type = "added" <=> \A x \in Events(st, s) : x.item # id
  PROVE  /\ Good(st, Emit(s, type, id, text))
         /\ Emitted(st, s, Emit(s, type, id, text), EmitEvent(s, type, id, text))
         /\ Told(st, s) => Told(st, Emit(s, type, id, text))
         /\ Adds(s, Emit(s, type, id, text), {id})
         /\ type # "delta" => Silent(s, Emit(s, type, id, text))
<1>1. PICK t : t = Emit(s, type, id, text)
  OBVIOUS
<1>2. PICK e : e = EmitEvent(s, type, id, text)
  OBVIOUS
<1>3. s \in Builder /\ id \in Label /\ type \in Type
  BY DEF Good, Core, Label, Type
<1>4. Emitted(st, s, t, e)
  BY <1>1, <1>2, <1>3, EmitAdds
<1>5. e.type = type /\ e.item = id /\ e.number = s.number
  BY <1>2 DEF EmitEvent
<1>6. Adds(s, t, {id}) /\ (type # "delta" => Silent(s, t))
  BY <1>3, <1>4, <1>5, EmitAddsItem, EmitSays
<1>7. \A x \in Events(st, s) : x.item = id => x.type # "done"
  BY DEF Good, Marked, OneMessage
<1>8. Core(st, t)
  BY <1>1, <1>3, <1>7, EmitCore DEF Good
<1>9. Marked(st, t)
  <2>1. \A x \in Events(st, s) : x.type \notin Terminal
    BY NotTerminal DEF Good
  <2>2. type \notin Terminal /\ type # "done"
    BY DEF Terminal
  <2>3. t.done = s.done /\ \A x : Has(t, x) <=> Has(s, x)
    BY <1>4, SameItems DEF Emitted
  <2> QED BY <1>4, <1>5, <2>1, <2>2, <2>3 DEF Emitted, Marked, Good
<1>10. /\ t.output = s.output /\ t.msg = s.msg /\ t.finished = s.finished /\ t.status = s.status
       /\ t.done = s.done /\ \A x : Has(t, x) <=> Has(s, x)
  BY <1>4, SameItems DEF Emitted
<1>11. OneMessage(t)
  BY <1>10 DEF OneMessage, Good
<1>12. Told(st, s) => Told(st, t)
  BY <1>4, <1>10 DEF Told, Shown, Finished, Emitted
<1> QED BY <1>1, <1>2, <1>4, <1>6, <1>8, <1>9, <1>11, <1>12 DEF Good

-----------------------------------------------------------------------------
(* Calls. *)
LEMMA PutGood ==
  ASSUME BuilderAssumption, NEW st, NEW s, Good(st, s), s.status = "in_progress",
         NEW c \in Call, NEW status \in ItemStatus
  PROVE  /\ Good(st, Put(s, c, status)) /\ PutIs(s, Put(s, c, status), c, status)
         /\ Events(st, Put(s, c, status)) = Events(st, s)
<1>1. c \in Id /\ c # NoItem /\ c \notin Message
  BY DEF Id, BuilderAssumption
<1>2. PICK t : t = Put(s, c, status)
  OBVIOUS
<1>3. Core(st, t) /\ PutIs(s, t, c, status) /\ Events(st, t) = Events(st, s)
  BY <1>1, <1>2, PutCore DEF Good
<1>4. Marked(st, t)
  BY <1>3 DEF Good, Marked, PutIs
<1>5. OneMessage(t)
  BY <1>1, <1>3 DEF Good, OneMessage, PutIs
<1> QED BY <1>2, <1>3, <1>4, <1>5 DEF Good

\* What the translation of a notification about a call keeps.
CallStep(st, s, t, c) ==
    /\ Good(st, t) /\ Told(st, t) /\ Adds(s, t, {c}) /\ Silent(s, t) /\ Has(t, c)
    /\ t.msg = s.msg /\ t.status = s.status /\ t.text = s.text /\ t.finished = s.finished

LEMMA OpenCallStep ==
  ASSUME BuilderAssumption, NEW st \in SUBSET Event, NEW s, Good(st, s), Told(st, s),
         s.status = "in_progress", NEW c \in Call
  PROVE  CallStep(st, s, OpenCall(s, c), c) /\ OpenCall(s, c).done = s.done
<1>1. CASE Has(s, c)
  <2>1. OpenCall(s, c) = s
    BY <1>1 DEF OpenCall
  <2>2. Adds(s, s, {c}) /\ Silent(s, s)
    BY DEF Adds, Silent
  <2> QED BY <1>1, <2>1, <2>2 DEF CallStep
<1>2. CASE ~Has(s, c)
  <2>1. PICK p : p = Put(s, c, "in_progress")
    OBVIOUS
  <2>2. PICK a : a = Emit(p, "added", c, <<>>)
    OBVIOUS
  <2>3. PICK t : t = Emit(a, "progress", c, <<>>)
    OBVIOUS
  <2>4. OpenCall(s, c) = t
    BY <1>2, <2>1, <2>2, <2>3 DEF OpenCall, Open
  <2>5. c \in Id /\ <<>> \in Text /\ "in_progress" \in ItemStatus
    BY DEF Id, Text, ItemStatus
  <2>6. Good(st, p) /\ PutIs(s, p, c, "in_progress") /\ Events(st, p) = Events(st, s)
    BY <2>1, <2>5, PutGood
  <2>7. \A x \in Events(st, p) : x.item # c
    BY <1>2, <2>6 DEF Good, Core, Placed, BuilderAssumption
  <2>8. /\ Has(p, c) /\ c \notin p.done /\ p.status = "in_progress"
        /\ p.out = s.out /\ p.number = s.number /\ p.done = s.done
    BY <1>2, <2>6 DEF PutIs, Good, Marked
  <2>9. Good(st, a) /\ Emitted(st, p, a, EmitEvent(p, "added", c, <<>>)) /\ Adds(p, a, {c})
        /\ Silent(p, a)
    BY <2>2, <2>5, <2>6, <2>7, <2>8, EmitGood
  <2>10. EmitEvent(p, "added", c, <<>>).item = c
    BY DEF EmitEvent
  <2>11. Has(a, c) /\ a.done = p.done /\ a.status = p.status /\ \A x : Has(a, x) <=> Has(p, x)
    BY <2>8, <2>9, SameItems DEF Emitted
  <2>12. \E x \in Events(st, a) : x.item = c
    BY <2>9, <2>10 DEF Emitted
  <2>13. Told(st, a)
    BY <2>6, <2>8, <2>9, <2>11, <2>12 DEF Told, Shown, Finished, Emitted, PutIs
  <2>14. Good(st, t) /\ Emitted(st, a, t, EmitEvent(a, "progress", c, <<>>)) /\ Adds(a, t, {c})
         /\ Told(st, t) /\ Silent(a, t)
    BY <2>3, <2>5, <2>8, <2>9, <2>11, <2>12, <2>13, EmitGood
  <2>15. Has(t, c) /\ t.done = a.done
    BY <2>11, <2>14, SameItems DEF Emitted
  <2>16. Adds(p, t, {c})
    BY <2>6, <2>9, <2>14, AddsMore DEF Good, Core
  <2>17. Adds(s, t, {c}) /\ Silent(s, t)
    BY <2>8, <2>9, <2>14, <2>16 DEF Adds, Silent
  <2> QED BY <2>4, <2>6, <2>8, <2>9, <2>11, <2>14, <2>15, <2>17 DEF CallStep, Emitted, PutIs
<1> QED BY <1>1, <1>2

LEMMA CompleteCallStep ==
  ASSUME BuilderAssumption, NEW st \in SUBSET Event, NEW s, Good(st, s), Told(st, s),
         s.status = "in_progress", NEW c \in Call, NEW status \in {"completed", "failed"}
  PROVE  CallStep(st, s, CompleteCall(s, c, status), c) /\ c \in CompleteCall(s, c, status).done
<1>1. CASE c \in s.done
  <2>1. CompleteCall(s, c, status) = s
    BY <1>1 DEF CompleteCall
  <2>2. Adds(s, s, {c}) /\ Silent(s, s)
    BY DEF Adds, Silent
  <2> QED BY <1>1, <2>1, <2>2 DEF CallStep, Good, Marked
<1>2. CASE c \notin s.done
  <2>1. PICK o : o = OpenCall(s, c)
    OBVIOUS
  <2>2. PICK p : p = Put(o, c, status)
    OBVIOUS
  <2>3. PICK a : a = Emit(p, "settled", c, <<>>)
    OBVIOUS
  <2>4. PICK d : d = Emit(a, "done", c, <<>>)
    OBVIOUS
  <2>5. PICK t : t = [d EXCEPT !.done = @ \cup {c}]
    OBVIOUS
  <2>6. CompleteCall(s, c, status) = t
    BY <1>2, <2>1, <2>2, <2>3, <2>4, <2>5 DEF CompleteCall
  <2>7. c \in Id /\ c \in Label /\ <<>> \in Text /\ status \in ItemStatus /\ "done" \in Type /\ c # NoItem
    BY DEF Id, Label, Text, ItemStatus, Type, BuilderAssumption
  <2>8. CallStep(st, s, o, c) /\ o.done = s.done
    BY <2>1, OpenCallStep
  <2>9. Good(st, p) /\ PutIs(o, p, c, status) /\ Events(st, p) = Events(st, o)
    BY <2>2, <2>7, <2>8, PutGood DEF CallStep
  <2>10. Told(st, p)
    BY <2>8, <2>9 DEF CallStep, Told, Shown, Finished, PutIs
  <2>11. /\ Has(p, c) /\ c \notin p.done /\ p.status = "in_progress"
         /\ p.out = o.out /\ p.number = o.number /\ p.done = o.done
    BY <1>2, <2>8, <2>9 DEF PutIs, CallStep
  <2>12. \E x \in Events(st, p) : x.item = c
    BY <2>7, <2>10, <2>11 DEF Told, Shown
  <2>13. Good(st, a) /\ Emitted(st, p, a, EmitEvent(p, "settled", c, <<>>)) /\ Adds(p, a, {c})
         /\ Told(st, a) /\ Silent(p, a)
    BY <2>3, <2>7, <2>9, <2>10, <2>11, <2>12, EmitGood
  <2>14. /\ Has(a, c) /\ a.done = p.done /\ a.status = "in_progress" /\ a \in Builder
         /\ ~a.finished
    BY <2>11, <2>13, SameItems DEF Emitted, Good, OneMessage
  <2>15. \E x \in Events(st, a) : x.item = c
    BY <2>12, <2>13 DEF Emitted
  <2>16. Emitted(st, a, d, EmitEvent(a, "done", c, <<>>))
    BY <2>4, <2>7, <2>14, EmitAdds
  <2>17. \A x \in Events(st, a) : x.item = c => x.type # "done"
    BY <2>11, <2>13, <2>14 DEF Good, Marked
  <2>18. Core(st, d)
    BY <2>4, <2>7, <2>13, <2>14, <2>15, <2>17, EmitCore DEF Good
  <2>19. EmitEvent(a, "done", c, <<>>).item = c /\ EmitEvent(a, "done", c, <<>>).type = "done"
    BY DEF EmitEvent
  <2>20. /\ t.output = d.output /\ t.text = d.text /\ t.msg = d.msg /\ t.finished = d.finished
         /\ t.status = d.status /\ t.number = d.number /\ t.out = d.out
         /\ t.done = d.done \cup {c} /\ t \in Builder
    BY <2>5, <2>18 DEF Core, Builder
  <2>21. Events(st, t) = Events(st, d)
    BY <2>20 DEF Events
  <2>22. Unique(t) /\ (\A x : Has(t, x) <=> Has(d, x)) /\ (\A x : Index(t, x) = Index(d, x))
    BY <2>18, <2>20, SameItems DEF Core
  <2>23. Core(st, t)
    BY <2>18, <2>20, <2>21, <2>22 DEF Core, Numbered, Placed, Ordered
  <2>24. \A x : Has(t, x) <=> Has(a, x)
    BY <2>16, <2>22, SameItems DEF Emitted
  <2>25. t.done = a.done \cup {c} /\ t.msg = a.msg /\ t.status = a.status /\ t.finished = a.finished
         /\ t.text = a.text /\ t.output = a.output
    BY <2>16, <2>20 DEF Emitted
  <2>26. Marked(st, t)
    <3>1. \A x \in Events(st, a) : x.type \notin Terminal
      BY <2>13, <2>14, NotTerminal DEF Good
    <3>2. "done" \notin Terminal
      BY DEF Terminal
    <3> QED BY <2>13, <2>14, <2>16, <2>19, <2>21, <2>24, <2>25, <3>1, <3>2 DEF Good, Marked, Emitted
  <2>27. OneMessage(t)
    BY <2>13, <2>24, <2>25 DEF Good, OneMessage
  <2>28. Told(st, t)
    BY <2>13, <2>16, <2>19, <2>21, <2>24, <2>25 DEF Told, Shown, Finished, Emitted
  <2>29. Adds(a, d, {c}) /\ Silent(a, d)
    BY <2>14, <2>16, <2>19, EmitAddsItem, EmitSays
  <2>30. Adds(a, t, {c})
    BY <2>20, <2>29 DEF Adds
  <2>31. Adds(p, t, {c})
    BY <2>9, <2>13, <2>14, <2>20, <2>30, AddsMore DEF Good, Core
  <2>32. Adds(o, t, {c})
    BY <2>11, <2>31 DEF Adds
  <2>33. Adds(s, t, {c})
    BY <2>8, <2>20, <2>32, AddsMore DEF Good, Core, CallStep
  <2>34. t.msg = s.msg /\ t.status = s.status /\ t.text = s.text /\ t.finished = s.finished
    BY <2>8, <2>9, <2>13, <2>25 DEF CallStep, PutIs, Emitted
  <2>35. Silent(s, t)
    BY <2>8, <2>11, <2>13, <2>20, <2>29 DEF CallStep, Silent
  <2> QED BY <2>6, <2>14, <2>20, <2>23, <2>24, <2>26, <2>27, <2>28, <2>33, <2>34, <2>35 DEF CallStep, Good
<1> QED BY <1>1, <1>2

\* All of them, one after the other.
CallsStep(st, s, t, calls, k) ==
    /\ Good(st, t) /\ Told(st, t) /\ Adds(s, t, Call) /\ Silent(s, t)
    /\ \A i \in 1 .. k : calls[i] \in t.done
    /\ t.msg = s.msg /\ t.status = s.status /\ t.text = s.text /\ t.finished = s.finished

LEMMA CompleteCallsStep ==
  ASSUME BuilderAssumption, NEW st \in SUBSET Event, NEW s, Good(st, s), Told(st, s),
         s.status = "in_progress", NEW calls \in Seq(Call)
  PROVE  CallsStep(st, s, CompleteCalls(s, calls), calls, Len(calls))
<1>1. PICK f : /\ f[0] = s
               /\ \A n \in 1 .. Len(calls) : f[n] = CompleteCall(f[n - 1], calls[n], "completed")
               /\ CompleteCalls(s, calls) = f[Len(calls)]
  BY CompleteCallsSteps
<1>2. Len(calls) \in Nat /\ \A i \in 1 .. Len(calls) : calls[i] \in Call
  BY LenProperties
<1> DEFINE S == {k \in Nat : k <= Len(calls) => CallsStep(st, s, f[k], calls, k)}
<1>3. 0 \in S
  BY <1>1 DEF CallsStep, Adds, Silent
<1>4. ASSUME NEW k \in Nat, k \in S PROVE k + 1 \in S
  <2> SUFFICES ASSUME k + 1 <= Len(calls) PROVE CallsStep(st, s, f[k + 1], calls, k + 1)
    OBVIOUS
  <2>1. k + 1 \in 1 .. Len(calls) /\ (k + 1) - 1 = k /\ k <= Len(calls)
    BY <1>2
  <2>2. CallsStep(st, s, f[k], calls, k)
    BY <1>4, <2>1
  <2>3. PICK c \in Call : c = calls[k + 1]
    BY <1>2, <2>1
  <2>4. PICK t : t = f[k + 1]
    OBVIOUS
  <2>5. PICK u : u = f[k]
    OBVIOUS
  <2>6. t = CompleteCall(u, c, "completed")
    BY <1>1, <2>1, <2>3, <2>4, <2>5
  <2>7. Good(st, u) /\ Told(st, u) /\ u.status = "in_progress"
    BY <2>2, <2>5 DEF CallsStep
  <2>8. CallStep(st, u, t, c) /\ c \in t.done
    BY <2>6, <2>7, CompleteCallStep
  <2>9. Adds(u, t, Call)
    BY <2>8 DEF CallStep, Adds
  <2>10. Adds(s, t, Call)
    BY <2>2, <2>5, <2>7, <2>8, <2>9, AddsMore DEF CallsStep, CallStep, Good, Core
  <2>11. \A i \in 1 .. k + 1 : calls[i] \in t.done
    <3>1. \A i \in 1 .. k + 1 : i \in 1 .. k \/ i = k + 1
      OBVIOUS
    <3> QED BY <2>2, <2>3, <2>5, <2>8, <2>9, <3>1 DEF CallsStep, Adds
  <2> QED BY <2>2, <2>4, <2>5, <2>8, <2>10, <2>11 DEF CallsStep, CallStep, Silent
<1>5. Len(calls) \in S
  <2> HIDE DEF S
  <2> QED BY <1>2, <1>3, <1>4, Induction
<1> QED BY <1>1, <1>2, <1>5

-----------------------------------------------------------------------------
(* The message. *)
LEMMA SameCore ==
  ASSUME NEW st, NEW s, NEW t \in Builder, Core(st, s),
         t.output = s.output, t.number = s.number, t.out = s.out
  PROVE  /\ Core(st, t) /\ Events(st, t) = Events(st, s)
         /\ \A x : Has(t, x) <=> Has(s, x)
<1>1. Events(st, t) = Events(st, s)
  BY DEF Events
<1>2. Unique(t) /\ (\A x : Has(t, x) <=> Has(s, x)) /\ (\A x : Index(t, x) = Index(s, x))
  BY SameItems DEF Core
<1> QED BY <1>1, <1>2 DEF Core, Numbered, Placed, Ordered

\* From s to t no message is closed; or one is, with the text of t.
Unsettled(st, s, t) == \A x \in Events(st, t) :
    x \in Events(st, s) \/ x.item \in Call \/ x.type # "settled"
Closes(st, s, t) == \A x \in Events(st, t) :
    x \in Events(st, s) \/ x.item \in Call \/ x.type # "settled" \/ x.text = t.text

\* What the translation of a notification about a message keeps.
MessageStep(st, s, t, m) ==
    /\ Good(st, t) /\ Told(st, t) /\ Adds(s, t, Message)
    /\ t.msg = IF s.msg = NoItem THEN m ELSE s.msg
    /\ t.status = s.status /\ t.finished = s.finished /\ t.done = s.done
    /\ Unsettled(st, s, t)

LEMMA OpenMessageStep ==
  ASSUME BuilderAssumption, NEW st \in SUBSET Event, NEW s, Good(st, s), Told(st, s),
         s.status = "in_progress", NEW m \in Message
  PROVE  /\ MessageStep(st, s, OpenMessage(s, m), m)
         /\ OpenMessage(s, m).text = s.text /\ Silent(s, OpenMessage(s, m))
<1>1. CASE s.msg # NoItem
  <2>1. OpenMessage(s, m) = s
    BY <1>1 DEF OpenMessage
  <2>2. Adds(s, s, Message) /\ Silent(s, s) /\ Unsettled(st, s, s)
    BY DEF Adds, Silent, Unsettled
  <2> QED BY <1>1, <2>1, <2>2 DEF MessageStep
<1>2. CASE s.msg = NoItem
  <2>1. PICK q : q = [s EXCEPT !.msg = m]
    OBVIOUS
  <2>2. PICK p : p = Put(q, m, "in_progress")
    OBVIOUS
  <2>3. PICK a : a = Emit(p, "added", m, <<>>)
    OBVIOUS
  <2>4. PICK t : t = Emit(a, "progress", m, <<>>)
    OBVIOUS
  <2>5. OpenMessage(s, m) = t
    BY <1>2, <2>1, <2>2, <2>3, <2>4 DEF OpenMessage, Open
  <2>6. m \in Id /\ m # NoItem /\ m \notin Call /\ <<>> \in Text /\ "in_progress" \in ItemStatus
    BY DEF Id, Text, ItemStatus, BuilderAssumption
  <2>7. /\ q \in Builder /\ q.msg = m /\ q.output = s.output /\ q.number = s.number /\ q.out = s.out
        /\ q.text = s.text /\ q.finished = s.finished /\ q.done = s.done /\ q.status = s.status
    BY <2>1 DEF Good, Core, Builder
  <2>8. Core(st, q) /\ Events(st, q) = Events(st, s) /\ \A x : Has(q, x) <=> Has(s, x)
    BY <2>7, SameCore DEF Good
  <2>9. Core(st, p) /\ PutIs(q, p, m, "in_progress") /\ Events(st, p) = Events(st, q)
    BY <2>2, <2>6, <2>8, PutCore
  <2>10. \A n \in Message : ~Has(s, n)
    BY <1>2 DEF Good, OneMessage, BuilderAssumption
  <2>11. \A x \in Events(st, p) : x.item # m
    BY <2>6, <2>8, <2>9, <2>10 DEF Core, Placed, PutIs, Good
  <2>12. ~s.finished
    BY DEF Good, OneMessage
  <2>13. /\ Has(p, m) /\ m \notin p.done /\ p.status = "in_progress" /\ p.msg = m /\ ~p.finished
         /\ p.out = s.out /\ p.number = s.number /\ p.done = s.done /\ p.text = s.text
         /\ \A x : Has(p, x) <=> Has(s, x) \/ x = m
    BY <2>6, <2>7, <2>8, <2>9, <2>12 DEF PutIs, Builder
  <2>14. Marked(st, p)
    BY <2>8, <2>9, <2>12, <2>13 DEF Good, Marked
  <2>15. OneMessage(p)
    BY <2>6, <2>10, <2>13 DEF OneMessage
  <2>16. /\ Good(st, a) /\ Emitted(st, p, a, EmitEvent(p, "added", m, <<>>)) /\ Adds(p, a, {m})
         /\ Silent(p, a)
    BY <2>3, <2>6, <2>9, <2>11, <2>13, <2>14, <2>15, EmitGood DEF Good
  <2>17. EmitEvent(p, "added", m, <<>>).item = m
    BY DEF EmitEvent
  <2>18. Has(a, m) /\ a.done = p.done /\ a.status = p.status /\ \A x : Has(a, x) <=> Has(p, x)
    BY <2>13, <2>16, SameItems DEF Emitted
  <2>19. \E x \in Events(st, a) : x.item = m
    BY <2>16, <2>17 DEF Emitted
  <2>20. Told(st, a)
    BY <2>8, <2>9, <2>12, <2>13, <2>16, <2>18, <2>19 DEF Told, Shown, Finished, Emitted
  <2>21. /\ Good(st, t) /\ Emitted(st, a, t, EmitEvent(a, "progress", m, <<>>)) /\ Adds(a, t, {m})
         /\ Told(st, t) /\ Silent(a, t)
    BY <2>4, <2>6, <2>13, <2>16, <2>18, <2>19, <2>20, EmitGood
  <2>22. Adds(p, t, {m})
    BY <2>9, <2>16, <2>21, AddsMore DEF Good, Core
  <2>23. Adds(s, t, Message) /\ Silent(s, t)
    BY <2>13, <2>16, <2>21, <2>22 DEF Adds, Silent
  <2>24. /\ t.msg = m /\ t.status = s.status /\ t.finished = s.finished /\ t.done = s.done
         /\ t.text = s.text
    <3>1. /\ t.msg = p.msg /\ t.status = p.status /\ t.finished = p.finished /\ t.done = p.done
          /\ t.text = p.text
      BY <2>16, <2>21 DEF Emitted
    <3>2. p.finished = s.finished /\ p.status = s.status
      BY <2>7, <2>9 DEF PutIs
    <3> QED BY <2>13, <3>1, <3>2
  <2>25. Unsettled(st, s, t)
    <3>1. EmitEvent(p, "added", m, <<>>).type = "added" /\ EmitEvent(a, "progress", m, <<>>).type = "progress"
      BY DEF EmitEvent
    <3> QED BY <2>8, <2>9, <2>16, <2>21, <3>1 DEF Emitted, Unsettled
  <2> QED BY <1>2, <2>5, <2>21, <2>23, <2>24, <2>25 DEF MessageStep
<1> QED BY <1>1, <1>2

\* Text is added to the open message, and sent.
LEMMA SayMore ==
  ASSUME BuilderAssumption, NEW st \in SUBSET Event, NEW o, Good(st, o), Told(st, o),
         o.status = "in_progress", o.msg # NoItem, NEW full \in Text, NEW more \in Text
  PROVE  LET t == Emit([o EXCEPT !.text = full], "delta", o.msg, more) IN
         /\ Good(st, t) /\ Told(st, t) /\ Adds(o, t, Message) /\ t.text = full
         /\ t.msg = o.msg /\ t.status = o.status /\ t.finished = o.finished /\ t.done = o.done
         /\ Says(o, t, more) /\ Unsettled(st, o, t)
<1>1. PICK p : p = [o EXCEPT !.text = full]
  OBVIOUS
<1>2. PICK m \in Message : m = o.msg
  BY DEF Good, Core, Builder
<1>3. PICK t : t = Emit(p, "delta", m, more)
  OBVIOUS
<1>4. /\ p \in Builder /\ p.msg = m /\ p.output = o.output /\ p.number = o.number /\ p.out = o.out
      /\ p.text = full /\ p.finished = o.finished /\ p.done = o.done /\ p.status = o.status
  BY <1>1, <1>2 DEF Good, Core, Builder, Text
<1>5. Core(st, p) /\ Events(st, p) = Events(st, o) /\ \A x : Has(p, x) <=> Has(o, x)
  BY <1>4, SameCore DEF Good
<1>6. Good(st, p)
  BY <1>2, <1>4, <1>5 DEF Good, Marked, OneMessage
<1>7. Told(st, p)
  BY <1>2, <1>4, <1>5 DEF Told, Shown, Finished
<1>8. m \in Id /\ Has(p, m) /\ m \notin p.done
  BY <1>2, <1>4, <1>6 DEF Id, Good, OneMessage, Builder, BuilderAssumption
<1>9. \E x \in Events(st, p) : x.item = m
  BY <1>7, <1>8 DEF Told, Shown
<1>10. Good(st, t) /\ Emitted(st, p, t, EmitEvent(p, "delta", m, more)) /\ Told(st, t) /\ Adds(p, t, {m})
  BY <1>3, <1>4, <1>6, <1>7, <1>8, <1>9, EmitGood
<1>11. TextOf(EmitEvent(p, "delta", m, more)) = more
  BY DEF TextOf, EmitEvent
<1>12. Says(o, t, more)
  <2>1. PICK e : e = EmitEvent(p, "delta", m, more)
    OBVIOUS
  <2>2. p \in Builder /\ Emitted(st, p, t, e)
    BY <1>4, <1>10, <2>1
  <2>3. Says(p, t, TextOf(e))
    BY <2>2, EmitSays
  <2> QED BY <1>4, <1>11, <2>1, <2>3 DEF Says
<1>13. Adds(o, t, Message)
  BY <1>4, <1>10 DEF Adds
<1>14. Unsettled(st, o, t)
  <2>1. EmitEvent(p, "delta", m, more).type = "delta"
    BY DEF EmitEvent
  <2> QED BY <1>5, <1>10, <2>1 DEF Emitted, Unsettled
<1> QED BY <1>1, <1>2, <1>3, <1>4, <1>10, <1>12, <1>13, <1>14 DEF Emitted

\* The text of the record has become text, and what was missing of it is sent.
Extends(s, t, text) == t.text = text /\ \E w \in Text : text = s.text \o w /\ Says(s, t, w)

LEMMA SilentSays ==
  ASSUME NEW s, NEW o, NEW t, NEW w, Silent(s, o), Says(o, t, w)
  PROVE  Says(s, t, w)
BY DEF Silent, Says

LEMMA SilentExtends ==
  ASSUME NEW s, NEW t, Silent(s, t), t.text = s.text, s.text \in Text, s.out \in Seq(Event)
  PROVE  Extends(s, t, s.text)
<1>1. <<>> \in Text /\ s.text = s.text \o <<>>
  BY ConcatEmptySeq, EmptySeq DEF Text
<1>2. ASSUME NEW sq \in Seq(Event) PROVE Deltas(sq \o t.out) = Deltas(sq \o s.out) \o <<>>
  <2>1. sq \o s.out \in Seq(Event)
    BY ConcatProperties
  <2>2. Deltas(sq \o s.out) \in Text
    BY <2>1, DeltasOfText
  <2> QED BY <2>2, ConcatEmptySeq DEF Silent, Text
<1> QED BY <1>1, <1>2 DEF Extends, Says

MoreStep(st, s, t, m, full, more) == MessageStep(st, s, t, m) /\ t.text = full /\ Says(s, t, more)

LEMMA SayMoreStep ==
  ASSUME BuilderAssumption, NEW st \in SUBSET Event, NEW s, Good(st, s), Told(st, s),
         s.status = "in_progress", NEW m \in Message, NEW full \in Text, NEW more \in Text,
         NEW o, o = OpenMessage(s, m),
         NEW q, q = [o EXCEPT !.text = full], NEW t, t = Emit(q, "delta", o.msg, more)
  PROVE  MoreStep(st, s, t, m, full, more)
<1>3. MessageStep(st, s, o, m) /\ o.text = s.text /\ Silent(s, o)
  BY OpenMessageStep
<1>4. Good(st, o) /\ Told(st, o) /\ o.status = "in_progress" /\ o.msg # NoItem
  BY <1>3 DEF MessageStep, BuilderAssumption
<1>5. /\ Good(st, t) /\ Told(st, t) /\ Adds(o, t, Message) /\ t.text = full
      /\ t.msg = o.msg /\ t.status = o.status /\ t.finished = o.finished /\ t.done = o.done
      /\ Says(o, t, more) /\ Unsettled(st, o, t)
  BY <1>4, SayMore
<1>6. Adds(s, t, Message)
  BY <1>3, <1>4, <1>5, AddsMore DEF Good, Core, MessageStep
<1>7. Says(s, t, more)
  BY <1>3, <1>5, SilentSays
<1>8. t.msg = (IF s.msg = NoItem THEN m ELSE s.msg) /\ t.status = s.status /\ t.finished = s.finished
      /\ t.done = s.done
  BY <1>3, <1>5 DEF MessageStep
<1>9. Unsettled(st, s, t)
  BY <1>3, <1>5 DEF MessageStep, Unsettled
<1> QED BY <1>5, <1>6, <1>7, <1>8, <1>9 DEF MessageStep, MoreStep

LEMMA AppendTextStep ==
  ASSUME BuilderAssumption, NEW st \in SUBSET Event, NEW s, Good(st, s), Told(st, s),
         s.status = "in_progress", NEW m \in Message, NEW d \in Word
  PROVE  MessageStep(st, s, AppendText(s, m, d), m)
         /\ Extends(s, AppendText(s, m, d), Append(s.text, d))
<1>1. PICK o : o = OpenMessage(s, m)
  OBVIOUS
<1>2. MessageStep(st, s, o, m) /\ o.text = s.text
  BY <1>1, OpenMessageStep
<1>3. PICK full : full = Append(s.text, d)
  OBVIOUS
<1>4. PICK more : more = <<d>>
  OBVIOUS
<1>5. s.text \in Text
  BY DEF Good, Core, Builder, Text
<1>6. full \in Text /\ more \in Text /\ full = s.text \o more
  BY <1>3, <1>4, <1>5, AppendProperties, AppendIsConcat DEF Text
<1>7. PICK q : q = [o EXCEPT !.text = full]
  OBVIOUS
<1>8. PICK t : t = Emit(q, "delta", o.msg, more)
  OBVIOUS
<1>9. MoreStep(st, s, t, m, full, more)
  BY <1>1, <1>6, <1>8, <1>7, SayMoreStep
<1>10. AppendText(s, m, d) = t
  <2>1. o \in Builder
    BY <1>2 DEF MessageStep, Good, Core
  <2>2. [o EXCEPT !.text = Append(@, d)] = q
    BY <1>7, <1>2, <1>3, <2>1 DEF Builder
  <2> QED BY <1>1, <1>4, <1>8, <2>2, Zenon DEF AppendText
<1> QED BY <1>3, <1>6, <1>9, <1>10 DEF Extends, MoreStep

LEMMA PrefixIs ==
  ASSUME NEW s \in Text, NEW t \in Text, IsPrefix(s, t)
  PROVE  /\ SubSeq(t, Len(s) + 1, Len(t)) \in Text
         /\ t = s \o SubSeq(t, Len(s) + 1, Len(t))
<1>1. Len(s) \in Nat /\ Len(t) \in Nat /\ Len(s) <= Len(t)
  BY LenProperties DEF IsPrefix, Text
<1>2. SubSeq(t, 1, Len(s)) = s
  BY SubSeqFull DEF IsPrefix, Text
<1>3. SubSeq(t, 1, Len(s)) \o SubSeq(t, Len(s) + 1, Len(t)) = SubSeq(t, 1, Len(t))
  <2>1. 1 \in 1 .. Len(t) + 1 /\ Len(s) \in 1 - 1 .. Len(t) /\ Len(t) \in Len(s) .. Len(t)
    BY <1>1
  <2> QED BY <2>1, ConcatAdjacentSubSeq DEF Text
<1>4. SubSeq(t, 1, Len(t)) = t
  BY SubSeqFull DEF Text
<1>5. \A i \in Len(s) + 1 .. Len(t) : t[i] \in Word
  BY <1>1, LenProperties DEF Text
<1>6. SubSeq(t, Len(s) + 1, Len(t)) \in Text
  <2>1. Len(s) + 1 \in Int /\ Len(t) \in Int
    BY <1>1
  <2>2. SubSeq(t, Len(s) + 1, Len(t)) \in Seq(Word)
    BY <1>5, <2>1, SubSeqProperties
  <2> QED BY <2>2 DEF Text
<1> QED BY <1>2, <1>3, <1>4, <1>6

LEMMA SyncMessageStep ==
  ASSUME BuilderAssumption, NEW st \in SUBSET Event, NEW s, Good(st, s), Told(st, s),
         s.status = "in_progress", NEW m \in Message, NEW text \in Text
  PROVE  /\ MessageStep(st, s, SyncMessage(s, m, text), m)
         /\ IsPrefix(s.text, text) => Extends(s, SyncMessage(s, m, text), text)
         /\ text = <<>> => /\ SyncMessage(s, m, text).text = s.text
                           /\ Silent(s, SyncMessage(s, m, text))
<1>1. PICK o : o = OpenMessage(s, m)
  OBVIOUS
<1>2. MessageStep(st, s, o, m) /\ o.text = s.text /\ Silent(s, o)
  BY <1>1, OpenMessageStep
<1>3. PICK full : full = [o EXCEPT !.text = text]
  OBVIOUS
<1>4. s.text \in Text /\ s.out \in Seq(Event) /\ o \in Builder
  BY <1>2 DEF Good, Core, Builder, Text, MessageStep
<1>5. CASE text = <<>> \/ text = o.text
  <2>1. SyncMessage(s, m, text) = o
    BY <1>1, <1>5, Zenon DEF SyncMessage
  <2>2. IsPrefix(s.text, text) => text = s.text
    BY <1>2, <1>4, <1>5, LenProperties, EmptySeq DEF IsPrefix, Text
  <2>3. Extends(s, o, s.text)
    BY <1>2, <1>4, SilentExtends
  <2> QED BY <1>2, <2>1, <2>2, <2>3
<1>6. CASE text # <<>> /\ text # o.text /\ IsPrefix(o.text, text)
  <2>1. PICK more : more = SubSeq(text, Len(o.text) + 1, Len(text))
    OBVIOUS
  <2>2. more \in Text /\ text = s.text \o more
    BY <1>2, <1>4, <1>6, <2>1, PrefixIs
  <2>3. PICK t : t = Emit(full, "delta", o.msg, more)
    OBVIOUS
  <2>4. SyncMessage(s, m, text) = t
    BY <1>1, <1>3, <1>6, <2>1, <2>3, Zenon DEF SyncMessage
  <2>5. MoreStep(st, s, t, m, text, more)
    BY <1>1, <1>3, <2>2, <2>3, SayMoreStep
  <2> QED BY <1>6, <2>2, <2>4, <2>5 DEF Extends, MoreStep
<1>7. CASE text # <<>> /\ text # o.text /\ ~IsPrefix(o.text, text)
  <2>1. SyncMessage(s, m, text) = full
    BY <1>1, <1>3, <1>7, Zenon DEF SyncMessage
  <2>2. /\ full \in Builder /\ full.output = o.output /\ full.number = o.number /\ full.out = o.out
        /\ full.msg = o.msg /\ full.status = o.status /\ full.finished = o.finished
        /\ full.done = o.done
    BY <1>3, <1>4 DEF Builder, Text
  <2>3. Core(st, full) /\ Events(st, full) = Events(st, o) /\ \A x : Has(full, x) <=> Has(o, x)
    BY <1>2, <2>2, SameCore DEF MessageStep, Good
  <2>4. Good(st, full) /\ Told(st, full)
    BY <1>2, <2>2, <2>3 DEF MessageStep, Good, Marked, OneMessage, Told, Shown, Finished
  <2>5. MessageStep(st, s, full, m)
    <3>1. Unsettled(st, s, full)
      BY <1>2, <2>3 DEF MessageStep, Unsettled
    <3> QED BY <1>2, <2>2, <2>4, <3>1 DEF MessageStep, Adds
  <2> QED BY <1>2, <1>7, <2>1, <2>5
<1> QED BY <1>5, <1>6, <1>7

-----------------------------------------------------------------------------
(* The end of the response. *)
Completed(s) == \A n \in 1 .. Len(s.output) : s.output[n].id = s.msg => s.output[n].status = "completed"

\* The message of s is finished in f.
FinishStep(st, s, f) ==
    /\ Core(st, f) /\ Marked(st, f) /\ (Told(st, s) => Told(st, f))
    /\ Adds(s, f, Message) /\ Silent(s, f)
    /\ f.msg = s.msg /\ f.done = s.done /\ f.text = s.text /\ f.status = s.status
    /\ \A x : Has(f, x) <=> Has(s, x)
    /\ f.finished <=> f.msg # NoItem
    /\ f.finished => Completed(f)
    /\ Closes(st, s, f)

LEMMA FinishMessageStep ==
  ASSUME BuilderAssumption, NEW st \in SUBSET Event, NEW s, Good(st, s),
         s.status = "in_progress", s.msg # NoItem => \E x \in Events(st, s) : x.item = s.msg
  PROVE  FinishStep(st, s, FinishMessage(s))
<1>1. s.finished = FALSE /\ s \in Builder
  BY DEF Good, Core, Builder, OneMessage
<1>2. CASE s.msg = NoItem
  <2>1. FinishMessage(s) = s
    BY <1>2 DEF FinishMessage
  <2>2. Adds(s, s, Message) /\ Silent(s, s) /\ Closes(st, s, s)
    BY DEF Adds, Silent, Closes
  <2> QED BY <1>1, <1>2, <2>1, <2>2 DEF FinishStep, Good
<1>3. CASE s.msg # NoItem
  <2>1. PICK m \in Message : m = s.msg
    BY <1>1, <1>3 DEF Builder
  <2>2. PICK text \in Text : text = s.text
    BY <1>1 DEF Builder, Text
  <2>3. PICK q : q = [s EXCEPT !.finished = TRUE]
    OBVIOUS
  <2>4. PICK p : p = Put(q, m, "completed")
    OBVIOUS
  <2>5. PICK a : a = Emit(p, "settled", m, text)
    OBVIOUS
  <2>6. PICK f : f = Emit(a, "done", m, <<>>)
    OBVIOUS
  <2>7. FinishMessage(s) = f
    BY <1>1, <1>3, <2>1, <2>2, <2>3, <2>4, <2>5, <2>6, Zenon DEF FinishMessage
  <2>8. /\ m \in Id /\ m \in Label /\ <<>> \in Text /\ "completed" \in ItemStatus
        /\ "settled" \in Type /\ "done" \in Type /\ m # NoItem /\ m \notin Call
    BY DEF Id, Label, Text, ItemStatus, Type, BuilderAssumption
  <2>9. /\ q \in Builder /\ q.output = s.output /\ q.number = s.number /\ q.out = s.out
        /\ q.text = s.text /\ q.msg = s.msg /\ q.finished = TRUE /\ q.done = s.done
        /\ q.status = s.status
    BY <1>1, <2>3 DEF Builder
  <2>10. Core(st, q) /\ Events(st, q) = Events(st, s) /\ \A x : Has(q, x) <=> Has(s, x)
    BY <2>9, SameCore DEF Good
  <2>11. Core(st, p) /\ PutIs(q, p, m, "completed") /\ Events(st, p) = Events(st, q)
    BY <2>4, <2>8, <2>10, PutCore
  <2>12. Has(s, m)
    BY <1>3, <2>1 DEF Good, OneMessage
  <2>13. /\ p \in Builder /\ p.text = s.text /\ p.msg = m /\ p.finished = TRUE /\ p.done = s.done
         /\ p.status = s.status /\ p.number = s.number /\ p.out = s.out
         /\ (\A x : Has(p, x) <=> Has(s, x)) /\ Completed(p)
    BY <2>1, <2>9, <2>10, <2>11, <2>12 DEF PutIs, Completed
  <2>14. m \notin s.done
    BY <1>1, <2>8 DEF Builder
  <2>15. \A x \in Events(st, s) : x.item = m => x.type # "done"
    BY <1>1, <2>14 DEF Good, Marked
  <2>16. \E x \in Events(st, p) : x.item = m
    BY <1>3, <2>1, <2>10, <2>11
  <2>17. Core(st, a) /\ Emitted(st, p, a, EmitEvent(p, "settled", m, text))
    <3>1. Core(st, a)
      BY <2>5, <2>8, <2>10, <2>11, <2>12, <2>13, <2>15, <2>16, EmitCore
    <3> QED BY <2>5, <2>8, <2>12, <2>13, <3>1, EmitAdds
  <2>18. PICK e : e = EmitEvent(p, "settled", m, text)
    OBVIOUS
  <2>19. e.item = m /\ e.type = "settled" /\ e.text = text
    BY <2>18 DEF EmitEvent
  <2>20. /\ a \in Builder /\ Has(a, m) /\ (\A x : Has(a, x) <=> Has(s, x))
         /\ Events(st, a) = Events(st, s) \cup {e}
    BY <2>10, <2>11, <2>12, <2>13, <2>17, <2>18, SameItems DEF Emitted
  <2>21. Core(st, f) /\ Emitted(st, a, f, EmitEvent(a, "done", m, <<>>))
    <3>1. \A x \in Events(st, a) : x.item = m => x.type # "done"
      BY <2>15, <2>19, <2>20
    <3>2. \E x \in Events(st, a) : x.item = m
      BY <2>19, <2>20
    <3>3. Core(st, f)
      BY <2>6, <2>8, <2>17, <2>20, <3>1, <3>2, EmitCore
    <3> QED BY <2>6, <2>8, <2>20, <3>3, EmitAdds
  <2>22. PICK g : g = EmitEvent(a, "done", m, <<>>)
    OBVIOUS
  <2>23. g.item = m /\ g.type = "done"
    BY <2>22 DEF EmitEvent
  <2>24. /\ Events(st, f) = Events(st, s) \cup {e, g} /\ f.output = p.output /\ f.text = s.text
         /\ f.msg = m /\ f.finished = TRUE /\ f.done = s.done /\ f.status = s.status
         /\ \A x : Has(f, x) <=> Has(s, x)
    BY <2>13, <2>17, <2>20, <2>21, <2>22, SameItems DEF Emitted
  <2>25. Completed(f)
    BY <2>13, <2>24 DEF Completed
  <2>26. Marked(st, f)
    <3>1. \A x \in Events(st, s) : x.type \notin Terminal
      BY NotTerminal DEF Good
    <3>2. "done" \notin Terminal /\ "settled" \notin Terminal
      BY DEF Terminal
    <3>3. \A x \in Events(st, s) : x.type = "done" => x.item \in s.done
      BY <1>1 DEF Good, Marked
    <3>4. \A c \in s.done : Has(s, c)
      BY DEF Good, Marked
    <3> QED BY <2>19, <2>23, <2>24, <3>1, <3>2, <3>3, <3>4 DEF Marked
  <2>27. Told(st, s) => Told(st, f)
    BY <2>23, <2>24 DEF Told, Shown, Finished
  <2>28. Adds(p, a, Message) /\ Adds(a, f, Message)
    BY <2>13, <2>17, <2>18, <2>19, <2>20, <2>21, <2>22, <2>23, EmitAddsItem
  <2>29. Adds(p, f, Message)
    BY <2>13, <2>20, <2>21, <2>28, AddsMore DEF Core
  <2>30. Adds(s, f, Message)
    BY <2>13, <2>29 DEF Adds
  <2>31. Silent(p, a) /\ Silent(a, f)
    BY <2>13, <2>17, <2>18, <2>19, <2>20, <2>21, <2>22, <2>23, EmitSays
  <2>32. Silent(s, f)
    BY <2>13, <2>31 DEF Silent
  <2>33. Closes(st, s, f)
    BY <2>2, <2>19, <2>23, <2>24 DEF Closes
  <2> QED BY <1>3, <2>1, <2>7, <2>21, <2>24, <2>25, <2>26, <2>27, <2>30, <2>32, <2>33 DEF FinishStep
<1> QED BY <1>2, <1>3

\* The response ends once.
EndStep(st, s, t, status) ==
    /\ Good(st, t) /\ (Told(st, s) => Told(st, t))
    /\ Adds(s, t, Message \cup {NoItem}) /\ Silent(s, t)
    /\ t.msg = s.msg /\ t.done = s.done /\ t.text = s.text
    /\ t.status = IF s.status = "in_progress" THEN status ELSE s.status
    /\ Closes(st, s, t)

LEMMA EndOfResponse ==
  ASSUME BuilderAssumption, NEW st \in SUBSET Event, NEW s, Good(st, s), NEW status \in Terminal,
         s.status = "in_progress" /\ s.msg # NoItem => \E x \in Events(st, s) : x.item = s.msg
  PROVE  EndStep(st, s, End(s, status), status)
<1>1. CASE s.status # "in_progress"
  <2>1. End(s, status) = s
    BY <1>1 DEF End
  <2>2. Adds(s, s, Message \cup {NoItem}) /\ Silent(s, s) /\ Closes(st, s, s)
    BY DEF Adds, Silent, Closes
  <2> QED BY <1>1, <2>1, <2>2 DEF EndStep
<1>2. CASE s.status = "in_progress"
  <2>1. PICK f : f = FinishMessage(s)
    OBVIOUS
  <2>2. PICK r : r = [f EXCEPT !.status = status]
    OBVIOUS
  <2>3. PICK t : t = Emit(r, status, NoItem, <<>>)
    OBVIOUS
  <2>4. End(s, status) = t
    BY <1>2, <2>1, <2>2, <2>3 DEF End
  <2>5. FinishStep(st, s, f)
    BY <1>2, <2>1, FinishMessageStep
  <2>6. status \in Type /\ status \in Status /\ NoItem \in Label /\ <<>> \in Text /\ status # "in_progress"
        /\ status # "done" /\ status # "delta"
    BY DEF Type, Status, Label, Text, Terminal
  <2>7. f \in Builder
    BY <2>5 DEF FinishStep, Core
  <2>8. /\ r \in Builder /\ r.output = f.output /\ r.number = f.number /\ r.out = f.out
        /\ r.text = f.text /\ r.msg = f.msg /\ r.finished = f.finished /\ r.done = f.done
        /\ r.status = status
    BY <2>2, <2>6, <2>7 DEF Builder
  <2>9. Core(st, r) /\ Events(st, r) = Events(st, f) /\ \A x : Has(r, x) <=> Has(f, x)
    BY <2>5, <2>8, SameCore DEF FinishStep
  <2>10. PICK e : e = EmitEvent(r, status, NoItem, <<>>)
    OBVIOUS
  <2>11. Core(st, t) /\ Emitted(st, r, t, e)
    <3>1. Core(st, t)
      BY <2>3, <2>6, <2>9, EmitCore
    <3> QED BY <2>3, <2>6, <2>8, <2>10, <3>1, EmitAdds
  <2>12. e.item = NoItem /\ e.type = status /\ e.number = r.number
    BY <2>10 DEF EmitEvent
  <2>13. /\ Events(st, t) = Events(st, f) \cup {e} /\ t.output = f.output /\ t.text = s.text
         /\ t.msg = s.msg /\ t.done = s.done /\ t.status = status
         /\ t.finished = f.finished /\ f.status = "in_progress" /\ f.msg = s.msg /\ f.done = s.done
         /\ \A x : Has(t, x) <=> Has(f, x)
    BY <1>2, <2>5, <2>8, <2>9, <2>11, SameItems DEF Emitted, FinishStep
  <2>14. Marked(st, t)
    <3>1. \A x \in Events(st, f) : x.type \notin Terminal
      BY <2>5, <2>13, NotTerminal DEF FinishStep
    <3>2. \A x \in Events(st, f) : x.number < e.number
      BY <2>9, <2>12 DEF Core, Numbered
    <3>3. \A x \in Events(st, t) : x.number \in Nat
      <4>1. e \in Event /\ t.out \in Seq(Event)
        BY <2>11 DEF Emitted, Builder
      <4>2. Events(st, t) \subseteq Event
        BY <4>1 DEF Events, ToSet
      <4> QED BY <4>2 DEF Event
    <3>4. \A x \in Events(st, t) : x.number <= e.number
      BY <2>13, <3>2, <3>3
    <3>5. \A x \in Events(st, f) : x.type = "done" => x.item \in f.done \/ (f.finished /\ x.item = f.msg)
      BY <2>5 DEF FinishStep, Marked
    <3>6. \A c \in f.done : Has(f, c)
      BY <2>5 DEF FinishStep, Marked
    <3> QED BY <2>6, <2>12, <2>13, <3>1, <3>4, <3>5, <3>6 DEF Marked
  <2>15. OneMessage(t)
    <3>1. \A x : Has(t, x) <=> Has(s, x)
      BY <2>5, <2>13 DEF FinishStep
    <3>2. (t.finished <=> t.msg # NoItem) /\ (t.finished => Completed(t))
      BY <2>5, <2>13 DEF FinishStep, Completed
    <3> QED BY <2>6, <2>13, <3>1, <3>2 DEF OneMessage, Completed, Good
  <2>16. Told(st, s) => Told(st, t)
    BY <2>5, <2>13 DEF FinishStep, Told, Shown, Finished
  <2>17. Adds(r, t, Message \cup {NoItem})
    BY <2>8, <2>11, <2>12, EmitAddsItem
  <2>18. Adds(f, t, Message \cup {NoItem}) /\ Adds(s, f, Message \cup {NoItem})
    BY <2>5, <2>8, <2>17 DEF Adds, FinishStep
  <2>19. s \in Builder /\ t \in Builder
    BY <2>11 DEF Good, Core
  <2>20. Adds(s, t, Message \cup {NoItem})
    BY <2>7, <2>18, <2>19, AddsMore
  <2>21. Silent(r, t)
    BY <2>6, <2>8, <2>11, <2>12, EmitSays
  <2>22. Silent(s, t)
    BY <2>5, <2>8, <2>21 DEF Silent, FinishStep
  <2>23. Closes(st, s, t)
    <3>1. e.type # "settled"
      BY <2>12 DEF Terminal
    <3> QED BY <2>5, <2>13, <3>1 DEF Closes, FinishStep
  <2> QED BY <1>2, <2>4, <2>11, <2>13, <2>14, <2>15, <2>16, <2>20, <2>22, <2>23 DEF EndStep, Good
<1> QED BY <1>1, <1>2

-----------------------------------------------------------------------------
(* The end of the turn. *)
LEMMA SetToSeqLists ==
  ASSUME NEW S, IsFiniteSet(S)
  PROVE  SetToSeq(S) \in Seq(S) /\ \A x \in S : \E i \in 1 .. Len(SetToSeq(S)) : SetToSeq(S)[i] = x
<1> DEFINE N == Cardinality(S)
<1>1. N \in Nat /\ ExistsBijection(1 .. N, S)
  BY FS_CardinalityType
<1>2. \E f \in [1 .. N -> S] : IsInjective(f)
  BY <1>1 DEF ExistsBijection, Bijection, Injection
<1>3. PICK f : f = SetToSeq(S)
  OBVIOUS
<1>4. f \in [1 .. N -> S] /\ IsInjective(f)
  BY <1>2, <1>3 DEF SetToSeq
<1>5. f \in Injection(1 .. N, S)
  BY <1>4 DEF Injection
<1>6. Cardinality(1 .. N) = N
  <2>1. 1 \in Int /\ N \in Int /\ N >= 0
    BY <1>1
  <2>2. Cardinality(1 .. N) = IF 1 > N THEN 0 ELSE N - 1 + 1
    BY <2>1, FS_Interval
  <2> QED BY <1>1, <2>2
<1>7. f \in Surjection(1 .. N, S)
  BY <1>5, <1>6, FS_Injection
<1>8. \A x \in S : \E i \in 1 .. N : f[i] = x
  BY <1>7 DEF Surjection
<1>9. f \in Seq(S) /\ Len(f) = N
  BY <1>1, <1>4
<1> QED BY <1>3, <1>8, <1>9

\* What the translation of a completed turn keeps.
TurnStep(st, s, t, calls, status) ==
    /\ Good(st, t) /\ Told(st, t) /\ Adds(s, t, Label) /\ t.status = status
    /\ \A i \in 1 .. Len(calls) : calls[i] \in t.done
    /\ Closes(st, s, t)

\* The text of the message m of Codex goes on from what was streamed.
TurnExtends(s, t, m) ==
    IF m = NoItem THEN Extends(s, t, s.text) /\ t.msg = s.msg
    ELSE Extends(s, t, said[m]) /\ t.msg = IF s.msg = NoItem THEN m ELSE s.msg

LEMMA CompleteTurnStep ==
  ASSUME BuilderAssumption, NEW st \in SUBSET Event, NEW s, Good(st, s), Told(st, s),
         s.status = "in_progress", NEW calls \in Seq(Call), NEW m \in Message \cup {NoItem},
         m # NoItem => said[m] \in Text, NEW status \in Terminal
  PROVE  /\ TurnStep(st, s, CompleteTurn(s, calls, m, status), calls, status)
         /\ (m # NoItem => IsPrefix(s.text, said[m])) =>
                TurnExtends(s, CompleteTurn(s, calls, m, status), m)
<1>1. PICK q : q = CompleteCalls(s, calls)
  OBVIOUS
<1>2. PICK r : r = IF m = NoItem THEN q ELSE SyncMessage(q, m, said[m])
  OBVIOUS
<1>3. PICK t : t = End(r, status)
  OBVIOUS
<1>4. CompleteTurn(s, calls, m, status) = t
  BY <1>1, <1>2, <1>3 DEF CompleteTurn
<1>5. CallsStep(st, s, q, calls, Len(calls))
  BY <1>1, CompleteCallsStep
<1>6. Good(st, q) /\ Told(st, q) /\ q.status = "in_progress" /\ q.text = s.text
  BY <1>5 DEF CallsStep
<1>8. ASSUME m # NoItem
      PROVE  /\ MessageStep(st, q, r, m)
             /\ IsPrefix(s.text, said[m]) => Extends(q, r, said[m])
  <2>1. m \in Message /\ r = SyncMessage(q, m, said[m]) /\ said[m] \in Text
    BY <1>2, <1>8
  <2>2. PICK n \in Message : n = m
    BY <2>1
  <2>3. PICK text \in Text : text = said[m]
    BY <2>1
  <2>4. r = SyncMessage(q, n, text)
    BY <2>1, <2>2, <2>3
  <2>5. MessageStep(st, q, r, n) /\ (IsPrefix(q.text, text) => Extends(q, r, text))
    BY <1>6, <2>4, SyncMessageStep
  <2> QED BY <1>6, <2>2, <2>3, <2>5
<1>9. /\ Good(st, r) /\ Told(st, r) /\ r.status = "in_progress" /\ r.done = q.done
      /\ Adds(s, r, Label)
  <2>1. CASE m = NoItem
    <3>1. Adds(s, q, Label)
      BY <1>5 DEF CallsStep, Adds, Label, Id
    <3> QED BY <1>2, <1>6, <2>1, <3>1
  <2>2. CASE m # NoItem
    <3>1. MessageStep(st, q, r, m)
      BY <1>8, <2>2
    <3>2. Adds(s, q, Label) /\ Adds(q, r, Label)
      BY <1>5, <3>1 DEF CallsStep, MessageStep, Adds, Label, Id
    <3>3. s \in Builder /\ q \in Builder /\ r \in Builder
      BY <1>6, <3>1 DEF Good, Core, MessageStep
    <3>4. Adds(s, r, Label)
      BY <3>2, <3>3, AddsMore
    <3> QED BY <1>6, <3>1, <3>4 DEF MessageStep
  <2> QED BY <2>1, <2>2
<1>10. r.msg # NoItem => \E x \in Events(st, r) : x.item = r.msg
  <2>1. r.msg # NoItem => r.msg \in Id /\ Has(r, r.msg)
    BY <1>9 DEF Good, Core, Builder, OneMessage, Id
  <2> QED BY <1>9, <2>1 DEF Told, Shown
<1>11. EndStep(st, r, t, status)
  BY <1>3, <1>9, <1>10, EndOfResponse
<1>12. TurnStep(st, s, t, calls, status)
  <2>1. Good(st, t) /\ Told(st, t) /\ t.status = status /\ t.done = r.done
    BY <1>9, <1>11 DEF EndStep
  <2>2. Adds(r, t, Label)
    BY <1>11 DEF EndStep, Adds, Label, Id
  <2>3. Adds(s, t, Label)
    BY <1>9, <2>1, <2>2, AddsMore DEF Good, Core
  <2>4. \A i \in 1 .. Len(calls) : calls[i] \in t.done
    BY <1>5, <1>9, <2>1 DEF CallsStep
  <2>5. Closes(st, s, t)
    <3>1. Unsettled(st, s, q)
      BY <1>5 DEF CallsStep, Adds, Events, Unsettled
    <3>2. Unsettled(st, q, r)
      BY <1>2, <1>8 DEF MessageStep, Unsettled
    <3>3. Closes(st, r, t)
      BY <1>11 DEF EndStep
    <3> QED BY <3>1, <3>2, <3>3 DEF Unsettled, Closes
  <2> QED BY <2>1, <2>3, <2>4, <2>5 DEF TurnStep
<1>13. ASSUME m # NoItem => IsPrefix(s.text, said[m]) PROVE TurnExtends(s, t, m)
  <2>1. Silent(s, q) /\ q.msg = s.msg
    BY <1>5 DEF CallsStep
  <2>2. Silent(r, t) /\ t.text = r.text /\ t.msg = r.msg
    BY <1>11 DEF EndStep
  <2>3. CASE m = NoItem
    <3>1. Silent(s, t) /\ t.text = s.text /\ t.msg = s.msg
      BY <1>2, <1>6, <2>1, <2>2, <2>3 DEF Silent
    <3>2. s.text \in Text /\ s.out \in Seq(Event)
      BY DEF Good, Core, Builder, Text
    <3>3. Extends(s, t, s.text)
      BY <3>1, <3>2, SilentExtends
    <3> QED BY <2>3, <3>1, <3>3 DEF TurnExtends
  <2>4. CASE m # NoItem
    <3>1. MessageStep(st, q, r, m) /\ Extends(q, r, said[m])
      BY <1>8, <1>13, <2>4
    <3>2. PICK w \in Text : said[m] = q.text \o w /\ Says(q, r, w)
      BY <3>1 DEF Extends
    <3>3. Says(s, t, w)
      BY <2>1, <2>2, <3>2 DEF Says, Silent
    <3>4. t.text = said[m] /\ t.msg = IF s.msg = NoItem THEN m ELSE s.msg
      BY <2>1, <2>2, <3>1 DEF MessageStep, Extends
    <3>5. Extends(s, t, said[m])
      BY <1>6, <3>2, <3>3, <3>4 DEF Extends
    <3> QED BY <2>4, <3>4, <3>5 DEF TurnExtends
  <2> QED BY <2>3, <2>4
<1> QED BY <1>4, <1>12, <1>13

-----------------------------------------------------------------------------
(* Publishing a batch, and losing one. *)
Increasing(sq) == \A i, j \in DOMAIN sq : i < j => sq[i].number < sq[j].number

\* The batch of s is published after sq.
PublishStep(sq, s, nq, t) ==
    /\ nq \in Seq(Event) /\ Increasing(nq) /\ Good(ToSet(nq), t)
    /\ Told(ToSet(sq), s) => Told(ToSet(nq), t)
    /\ Len(nq) = Len(sq) + Len(s.out) /\ t.out = <<>> /\ Len(t.out) = 0 /\ t.number = s.number
    /\ Deltas(nq \o t.out) = Deltas(sq \o s.out)
    /\ Events(ToSet(nq), t) = Events(ToSet(sq), s)

LEMMA BatchIsEmptied ==
  ASSUME NEW s \in Builder, NEW t, t = [s EXCEPT !.out = <<>>]
  PROVE  /\ t \in Builder /\ t.output = s.output /\ t.text = s.text /\ t.msg = s.msg
         /\ t.finished = s.finished /\ t.done = s.done /\ t.status = s.status
         /\ t.number = s.number /\ t.out = <<>> /\ Len(t.out) = 0 /\ ToSet(t.out) = {}
         /\ DOMAIN t.out = {}
<1>1. <<>> \in Seq(Event)
  OBVIOUS
<1>2. DOMAIN <<>> = {} /\ Len(<<>>) = 0
  BY EmptySeq
<1>3. ToSet(<<>>) = {}
  BY <1>2 DEF ToSet
<1> QED BY <1>1, <1>2, <1>3 DEF Builder

LEMMA SameMessage ==
  ASSUME NEW s, NEW t, OneMessage(s), t.output = s.output, t.msg = s.msg,
         t.finished = s.finished, t.status = s.status
  PROVE  OneMessage(t)
BY DEF OneMessage, Has

LEMMA PublishBatch ==
  ASSUME NEW sq \in Seq(Event), NEW s, Good(ToSet(sq), s), Increasing(sq),
         NEW t, t = [s EXCEPT !.out = <<>>], NEW nq, nq = sq \o s.out
  PROVE  PublishStep(sq, s, nq, t)
<1>1. s \in Builder /\ s.out \in Seq(Event)
  BY DEF Good, Core, Builder
<1>2. PICK o \in Seq(Event) : o = s.out
  BY <1>1
<1>3. /\ nq \in Seq(Event) /\ Len(nq) = Len(sq) + Len(o)
      /\ \A i \in 1 .. Len(sq) : nq[i] = sq[i]
      /\ \A i \in 1 .. Len(o) : nq[Len(sq) + i] = o[i]
  BY <1>2, ConcatProperties
<1>4. /\ t \in Builder /\ t.output = s.output /\ t.text = s.text /\ t.msg = s.msg
      /\ t.finished = s.finished /\ t.done = s.done /\ t.status = s.status
      /\ t.number = s.number /\ t.out = <<>> /\ Len(t.out) = 0 /\ ToSet(t.out) = {}
      /\ DOMAIN t.out = {}
  BY <1>1, BatchIsEmptied
<1>5. PICK k \in Nat : k = Len(sq)
  BY LenProperties
<1>6. PICK l \in Nat : l = Len(o)
  BY LenProperties
<1>7. DOMAIN nq = 1 .. k + l /\ DOMAIN sq = 1 .. k /\ DOMAIN o = 1 .. l
  BY <1>3, <1>5, <1>6, LenProperties
<1>8. ASSUME NEW i \in 1 .. k + l PROVE i \in 1 .. k \/ \E j \in 1 .. l : i = k + j
  <2>1. i \in 1 .. k \/ i - k \in 1 .. l
    BY <1>8
  <2> QED BY <2>1
<1>9. ToSet(nq) = ToSet(sq) \cup ToSet(o)
  <2>1. \A i \in 1 .. k : i \in 1 .. k + l
    OBVIOUS
  <2>2. \A j \in 1 .. l : k + j \in 1 .. k + l
    OBVIOUS
  <2>3. \A i \in 1 .. k + l : nq[i] \in ToSet(sq) \cup ToSet(o)
    BY <1>3, <1>5, <1>6, <1>7, <1>8 DEF ToSet
  <2>4. ASSUME NEW x \in ToSet(sq) PROVE x \in ToSet(nq)
    <3>1. PICK i \in 1 .. k : x = sq[i]
      BY <1>7 DEF ToSet
    <3>2. x = nq[i] /\ i \in DOMAIN nq
      BY <1>3, <1>5, <1>7, <2>1, <3>1
    <3> QED BY <3>2 DEF ToSet
  <2>5. ASSUME NEW x \in ToSet(o) PROVE x \in ToSet(nq)
    <3>1. PICK j \in 1 .. l : x = o[j]
      BY <1>7 DEF ToSet
    <3>2. x = nq[k + j] /\ k + j \in DOMAIN nq
      BY <1>3, <1>5, <1>6, <1>7, <2>2, <3>1
    <3> QED BY <3>2 DEF ToSet
  <2>6. \A x \in ToSet(nq) : x \in ToSet(sq) \cup ToSet(o)
    BY <1>7, <2>3 DEF ToSet
  <2> QED BY <2>4, <2>5, <2>6
<1>10. Events(ToSet(nq), t) = Events(ToSet(sq), s)
  BY <1>2, <1>4, <1>9 DEF Events
<1>11. Increasing(nq)
  <2> SUFFICES ASSUME NEW i \in 1 .. k + l, NEW j \in 1 .. k + l, i < j
               PROVE  nq[i].number < nq[j].number
    BY <1>7 DEF Increasing
  <2>1. CASE j \in 1 .. k
    <3>1. i \in 1 .. k
      BY <2>1
    <3>2. nq[i] = sq[i] /\ nq[j] = sq[j] /\ i \in DOMAIN sq /\ j \in DOMAIN sq
      BY <1>3, <1>5, <1>7, <2>1, <3>1
    <3> QED BY <3>2 DEF Increasing
  <2>2. CASE \E b1 \in 1 .. l : j = k + b1
    <3>1. PICK b1 \in 1 .. l : j = k + b1
      BY <2>2
    <3>2. nq[j] = o[b1] /\ b1 \in DOMAIN s.out
      BY <1>2, <1>3, <1>5, <1>6, <1>7, <3>1
    <3>3. CASE i \in 1 .. k
      <4>1. nq[i] = sq[i] /\ sq[i] \in ToSet(sq)
        BY <1>3, <1>5, <1>7, <3>3 DEF ToSet
      <4> QED BY <1>2, <3>2, <4>1 DEF Good, Core, Numbered
    <3>4. CASE \E a1 \in 1 .. l : i = k + a1
      <4>1. PICK a1 \in 1 .. l : i = k + a1
        BY <3>4
      <4>2. nq[i] = o[a1] /\ a1 \in DOMAIN s.out
        BY <1>2, <1>3, <1>5, <1>6, <1>7, <4>1
      <4>3. a1 < b1
        BY <3>1, <4>1
      <4> QED BY <1>2, <3>2, <4>2, <4>3 DEF Good, Core, Numbered
    <3> QED BY <1>8, <3>3, <3>4
  <2> QED BY <1>8, <2>1, <2>2
<1>12. (\A x : Has(t, x) <=> Has(s, x)) /\ (\A x : Index(t, x) = Index(s, x)) /\ Unique(t)
  BY <1>4, SameItems DEF Good, Core
<1>13. Numbered(ToSet(nq), t)
  BY <1>4, <1>10 DEF Good, Core, Numbered
<1>14. Core(ToSet(nq), t)
  BY <1>4, <1>10, <1>12, <1>13 DEF Good, Core, Placed, Ordered
<1>15. Marked(ToSet(nq), t)
  BY <1>4, <1>10, <1>12 DEF Good, Marked
<1>16. OneMessage(t)
  BY <1>4, SameMessage DEF Good
<1>17. Told(ToSet(sq), s) => Told(ToSet(nq), t)
  BY <1>4, <1>10, <1>12 DEF Told, Shown, Finished
<1>18. Deltas(nq \o t.out) = Deltas(sq \o s.out)
  <2>1. nq \o t.out = nq
    BY <1>3, <1>4, ConcatEmptySeq
  <2> QED BY <2>1
<1> QED BY <1>2, <1>3, <1>4, <1>10, <1>11, <1>14, <1>15, <1>16, <1>17, <1>18 DEF PublishStep, Good

\* What remains good when the batch is lost.
LEMMA DropBatch ==
  ASSUME NEW st \in SUBSET Event, NEW s, Good(st, s), NEW t, t = [s EXCEPT !.out = <<>>]
  PROVE  Good(st, t) /\ Events(st, t) = st
<1>1. s \in Builder /\ s.out \in Seq(Event)
  BY DEF Good, Core, Builder
<1>2. /\ t \in Builder /\ t.output = s.output /\ t.text = s.text /\ t.msg = s.msg
      /\ t.finished = s.finished /\ t.done = s.done /\ t.status = s.status
      /\ t.number = s.number /\ t.out = <<>> /\ Len(t.out) = 0 /\ ToSet(t.out) = {}
      /\ DOMAIN t.out = {}
  BY <1>1, BatchIsEmptied
<1>3. Events(st, t) = st /\ st \subseteq Events(st, s)
  BY <1>2 DEF Events
<1>4. (\A x : Has(t, x) <=> Has(s, x)) /\ (\A x : Index(t, x) = Index(s, x)) /\ Unique(t)
  BY <1>2, SameItems DEF Good, Core
<1>5. Numbered(st, t) /\ Placed(st, t)
  BY <1>2, <1>3, <1>4 DEF Good, Core, Numbered, Placed
<1>6. ASSUME NEW x \in st, NEW y \in Events(st, s), y.number < x.number PROVE y \in st
  <2>1. CASE y \in ToSet(s.out)
    <3>1. PICK i \in DOMAIN s.out : y = s.out[i]
      BY <2>1 DEF ToSet
    <3>2. x.number < y.number
      BY <3>1 DEF Good, Core, Numbered
    <3>3. x.number \in Nat /\ y.number \in Nat
      <4>1. y \in Event
        BY <1>1, <3>1
      <4> QED BY <4>1 DEF Event
    <3> QED BY <1>6, <3>2, <3>3
  <2> QED BY <1>6, <2>1 DEF Events
<1>7. Ordered(st, t)
  <2>1. ASSUME NEW x \in st, x.item # NoItem, x.type # "added"
        PROVE  \E y \in st : y.item = x.item /\ y.number < x.number
    <3>1. PICK y \in Events(st, s) : y.item = x.item /\ y.number < x.number
      BY <1>3, <2>1 DEF Good, Core, Ordered
    <3> QED BY <1>6, <3>1
  <2>2. ASSUME NEW x \in st, x.item # NoItem, NEW y \in st, y.item = x.item, y.number < x.number
        PROVE  x.type # "added" /\ y.type # "done"
    BY <1>3, <2>2 DEF Good, Core, Ordered
  <2> QED BY <1>3, <2>1, <2>2 DEF Ordered
<1>8. Marked(st, t)
  BY <1>2, <1>3, <1>4 DEF Good, Marked
<1>9. OneMessage(t)
  BY <1>2, SameMessage DEF Good
<1> QED BY <1>2, <1>3, <1>4, <1>5, <1>7, <1>8, <1>9 DEF Good, Core

-----------------------------------------------------------------------------
(* The inductive invariant.  Until a batch is lost, everything the builder *)
(* has emitted is in the stream or in the batch, each item was shown and   *)
(* each end told; after that the response has ended.  A batch that the     *)
(* deadline can drop while the response goes on is all of calls, so that   *)
(* the message, if there is one, was shown to the subscriber before it.    *)
CodexOK ==
    /\ call \in [Call -> {"new", "started", "ended"}]
    /\ said \in [Message -> Text] /\ ended \subseteq Message

StateOK ==
    /\ stream \in Seq(Event) /\ bound \subseteq AppCall
    /\ driver \in {"reading", "publishing", "failing", "ended"}

Kept == b.number - Len(b.out) = Len(stream) /\ Told(ToSet(stream), b)
Lost == Len(stream) < b.number - Len(b.out) /\ driver \in {"failing", "ended"}

OneKind(s) == (\A x \in ToSet(s.out) : x.item \in Call) \/ (\A x \in ToSet(s.out) : x.item \notin Call)

Phases ==
    /\ driver = "reading" => b.out = <<>>
    /\ driver \in {"failing", "ended"} => b.status \in Terminal
    /\ driver = "publishing" /\ b.status = "in_progress" => OneKind(b)

CallsDone == \A c \in Call : call[c] = "ended" => c \in b.done

IInv ==
    /\ CodexOK /\ StateOK /\ Good(ToSet(stream), b) /\ Increasing(stream)
    /\ Kept \/ Lost
    /\ Phases /\ CallsDone

LEMMA InitIInv ==
  ASSUME BuilderAssumption, BuilderInit
  PROVE  IInv
<1>1. b = NewBuilder /\ stream = <<>> /\ driver = "reading" /\ bound = {} /\ ended = {}
  BY DEF BuilderInit
<1>2. /\ b.output = <<>> /\ b.text = <<>> /\ b.msg = NoItem /\ b.finished = FALSE /\ b.done = {}
      /\ b.status = "in_progress" /\ b.number = 0 /\ b.out = <<>> /\ b \in Builder
  <2>1. NewBuilder \in Builder
    BY DEF NewBuilder, Builder, Status
  <2> QED BY <1>1, <2>1 DEF NewBuilder
<1>3. Len(<<>>) = 0 /\ DOMAIN <<>> = {} /\ ToSet(<<>>) = {} /\ <<>> \in Seq(Event)
  BY EmptySeq DEF ToSet
<1>4. (\A x : ~Has(b, x)) /\ Unique(b)
  <2>1. Len(b.output) = 0 /\ 1 .. 0 = {}
    BY <1>2, <1>3
  <2> QED BY <2>1 DEF Has, Unique
<1>5. Events(ToSet(stream), b) = {}
  BY <1>1, <1>2, <1>3 DEF Events
<1>6. Core(ToSet(stream), b)
  BY <1>1, <1>2, <1>3, <1>4, <1>5 DEF Core, Numbered, Placed, Ordered
<1>7. Marked(ToSet(stream), b) /\ OneMessage(b)
  BY <1>2, <1>4, <1>5 DEF Marked, OneMessage
<1>8. Kept
  <2>1. Told(ToSet(stream), b)
    BY <1>2, <1>4 DEF Told, Shown
  <2>2. Len(b.out) = 0 /\ Len(stream) = 0 /\ b.number = 0
    BY <1>1, <1>2, <1>3
  <2>3. b.number - Len(b.out) = Len(stream)
    BY <2>2
  <2> QED BY <2>1, <2>3 DEF Kept
<1>9. CodexOK /\ CallsDone
  BY <1>3, EmptySeq DEF BuilderInit, CodexOK, CallsDone, Text
<1>10. StateOK /\ Increasing(stream) /\ Phases
  BY <1>1, <1>2, <1>3 DEF StateOK, Increasing, Phases
<1> QED BY <1>6, <1>7, <1>8, <1>9, <1>10 DEF IInv, Good

LEMMA ConsumeKeeps ==
  ASSUME BuilderAssumption, IInv, NEW S, NEW t, Translate(t),
         Good(ToSet(stream), t), Told(ToSet(stream), t), Adds(b, t, S),
         S \subseteq Call \/ S \cap Call = {} \/ t.status \in Terminal,
         CodexOK', CallsDone'
  PROVE  IInv'
<1>1. /\ driver = "reading" /\ b' = t /\ driver' = "publishing" /\ stream' = stream /\ bound' = bound
      /\ b.status = "in_progress"
  BY DEF Translate
<1>2. Kept /\ b.out = <<>>
  BY <1>1 DEF IInv, Lost, Phases
<1>3. StateOK'
  BY <1>1 DEF IInv, StateOK
<1>4. Good(ToSet(stream), b)' /\ Increasing(stream)'
  BY <1>1 DEF IInv
<1>5. Kept'
  <2>1. t.number - Len(t.out) = Len(stream)
    BY <1>2 DEF Kept, Adds
  <2> QED BY <1>1, <2>1 DEF Kept
<1>6. Phases'
  <2>1. ToSet(b.out) = {}
    BY <1>2, EmptySeq DEF ToSet
  <2>2. \A x \in ToSet(t.out) : x.item \in S
    BY <2>1 DEF Adds
  <2>3. t.status = "in_progress" => OneKind(t)
    BY <2>2 DEF OneKind, Terminal
  <2> QED BY <1>1, <2>3 DEF Phases
<1> QED BY <1>3, <1>4, <1>5, <1>6 DEF IInv

\* What is known of the builder when a notification is read.
Ready ==
    /\ ToSet(stream) \in SUBSET Event /\ Good(ToSet(stream), b) /\ Told(ToSet(stream), b)
    /\ b.status = "in_progress"

LEMMA ReadyWhenConsumed ==
  ASSUME IInv, NEW t, Translate(t)
  PROVE  Ready
<1>1. ToSet(stream) \in SUBSET Event
  <2>1. \A i \in DOMAIN stream : stream[i] \in Event
    BY DEF IInv, StateOK
  <2> QED BY <2>1 DEF ToSet
<1> QED BY <1>1 DEF Translate, IInv, Kept, Lost, Ready

LEMMA CallStartedKeeps ==
  ASSUME BuilderAssumption, IInv, NEW c \in Call, CallStarted(c)
  PROVE  IInv'
<1>1. PICK t : t = OpenCall(b, c)
  OBVIOUS
<1>2. /\ call[c] = "new" /\ call' = [call EXCEPT ![c] = "started"] /\ Translate(t)
      /\ UNCHANGED <<said, ended>>
  BY <1>1 DEF CallStarted
<1>3. Ready
  BY <1>2, ReadyWhenConsumed
<1>4. CallStep(ToSet(stream), b, t, c)
  BY <1>1, <1>3, OpenCallStep DEF Ready
<1>5. CodexOK'
  BY <1>2 DEF IInv, CodexOK
<1>6. CallsDone'
  BY <1>2, <1>4 DEF IInv, CallsDone, CodexOK, CallStep, Adds, Translate
<1>7. Good(ToSet(stream), t) /\ Told(ToSet(stream), t) /\ Adds(b, t, {c}) /\ {c} \subseteq Call
  BY <1>4 DEF CallStep
<1> QED BY <1>2, <1>5, <1>6, <1>7, ConsumeKeeps

LEMMA CallCompletedKeeps ==
  ASSUME BuilderAssumption, IInv, NEW c \in Call, CallCompleted(c)
  PROVE  IInv'
<1>1. PICK status \in {"completed", "failed"} : Translate(CompleteCall(b, c, status))
  BY DEF CallCompleted
<1>2. PICK t : t = CompleteCall(b, c, status)
  OBVIOUS
<1>3. call' = [call EXCEPT ![c] = "ended"] /\ Translate(t) /\ UNCHANGED <<said, ended>>
  BY <1>1, <1>2 DEF CallCompleted
<1>4. Ready
  BY <1>3, ReadyWhenConsumed
<1>5. CallStep(ToSet(stream), b, t, c) /\ c \in t.done
  BY <1>2, <1>4, CompleteCallStep DEF Ready
<1>6. CodexOK'
  BY <1>3 DEF IInv, CodexOK
<1>7. CallsDone'
  BY <1>3, <1>5 DEF IInv, CallsDone, CodexOK, CallStep, Adds, Translate
<1>8. Good(ToSet(stream), t) /\ Told(ToSet(stream), t) /\ Adds(b, t, {c}) /\ {c} \subseteq Call
  BY <1>5 DEF CallStep
<1> QED BY <1>3, <1>6, <1>7, <1>8, ConsumeKeeps

LEMMA DeltaKeeps ==
  ASSUME BuilderAssumption, IInv, NEW m \in Message, Delta(m)
  PROVE  IInv'
<1>1. PICK d \in Word : said' = [said EXCEPT ![m] = Append(@, d)] /\ Translate(AppendText(b, m, d))
  BY DEF Delta
<1>2. PICK t : t = AppendText(b, m, d)
  OBVIOUS
<1>3. Translate(t) /\ UNCHANGED <<call, ended>>
  BY <1>1, <1>2 DEF Delta
<1>4. Ready
  BY <1>3, ReadyWhenConsumed
<1>5. MessageStep(ToSet(stream), b, t, m)
  BY <1>2, <1>4, AppendTextStep DEF Ready
<1>6. CodexOK'
  <2>1. said[m] \in Text /\ said \in [Message -> Text]
    BY DEF IInv, CodexOK
  <2>2. Append(said[m], d) \in Text
    BY <2>1, AppendProperties DEF Text
  <2>3. said' \in [Message -> Text]
    BY <1>1, <2>1, <2>2
  <2> QED BY <1>3, <2>3 DEF IInv, CodexOK
<1>7. CallsDone'
  BY <1>3, <1>5 DEF IInv, CallsDone, MessageStep, Translate
<1>8. /\ Good(ToSet(stream), t) /\ Told(ToSet(stream), t) /\ Adds(b, t, Message)
      /\ Message \cap Call = {}
  BY <1>5 DEF MessageStep, BuilderAssumption
<1> QED BY <1>3, <1>6, <1>7, <1>8, ConsumeKeeps

LEMMA MessageCompletedKeeps ==
  ASSUME BuilderAssumption, IInv, NEW m \in Message, MessageCompleted(m)
  PROVE  IInv'
<1>1. PICK rest \in {<<>>} \cup {<<d>> : d \in Word} :
         said' = [said EXCEPT ![m] = @ \o rest] /\ Translate(SyncMessage(b, m, said'[m]))
  BY DEF MessageCompleted
<1>2. PICK text : text = said'[m]
  OBVIOUS
<1>3. PICK t : t = SyncMessage(b, m, text)
  OBVIOUS
<1>4. Translate(t) /\ call' = call /\ ended' = ended \cup {m}
  BY <1>1, <1>2, <1>3 DEF MessageCompleted
<1>5. said' \in [Message -> Text] /\ text \in Text
  <2>1. said[m] \in Text /\ said \in [Message -> Text]
    BY DEF IInv, CodexOK
  <2>2. rest \in Text
    <3>1. \A d \in Word : <<d>> \in Seq(Word)
      OBVIOUS
    <3>2. <<>> \in Seq(Word)
      OBVIOUS
    <3> QED BY <3>1, <3>2 DEF Text
  <2>3. said[m] \o rest \in Text
    BY <2>1, <2>2, ConcatProperties DEF Text
  <2> QED BY <1>1, <1>2, <2>1, <2>3
<1>6. Ready
  BY <1>4, ReadyWhenConsumed
<1>7. MessageStep(ToSet(stream), b, t, m)
  BY <1>3, <1>5, <1>6, SyncMessageStep DEF Ready
<1>8. CodexOK'
  BY <1>4, <1>5 DEF IInv, CodexOK
<1>9. CallsDone'
  BY <1>4, <1>7 DEF IInv, CallsDone, MessageStep, Translate
<1>10. /\ Good(ToSet(stream), t) /\ Told(ToSet(stream), t) /\ Adds(b, t, Message)
       /\ Message \cap Call = {}
  BY <1>7 DEF MessageStep, BuilderAssumption
<1> QED BY <1>4, <1>8, <1>9, <1>10, ConsumeKeeps

LEMMA TurnCompletedKeeps ==
  ASSUME BuilderAssumption, IsFiniteSet(Call), IInv, TurnCompleted
  PROVE  IInv'
<1>1. PICK listed \in SUBSET Call :
        /\ call' = [c \in Call |-> IF c \in listed THEN "ended" ELSE call[c]]
        /\ \E m \in {NoItem} \cup {n \in Message : said[n] # <<>>} :
           \E status \in Terminal : Translate(CompleteTurn(b, SetToSeq(listed), m, status))
        /\ UNCHANGED <<said, ended>>
  BY DEF TurnCompleted
<1>2. PICK m \in Message \cup {NoItem}, status \in Terminal :
         Translate(CompleteTurn(b, SetToSeq(listed), m, status))
  BY <1>1
<1>3. PICK calls : calls = SetToSeq(listed)
  OBVIOUS
<1>4. PICK t : t = CompleteTurn(b, calls, m, status)
  OBVIOUS
<1>5. Translate(t)
  BY <1>2, <1>3, <1>4
<1>6. calls \in Seq(Call) /\ \A x \in listed : \E i \in 1 .. Len(calls) : calls[i] = x
  <2>1. IsFiniteSet(listed)
    BY FS_Subset
  <2>2. calls \in Seq(listed) /\ \A x \in listed : \E i \in 1 .. Len(calls) : calls[i] = x
    BY <1>3, <2>1, SetToSeqLists
  <2> QED BY <2>2
<1>7. Ready /\ (m # NoItem => said[m] \in Text)
  BY <1>5, ReadyWhenConsumed DEF IInv, CodexOK
<1>8. TurnStep(ToSet(stream), b, t, calls, status)
  BY <1>4, <1>6, <1>7, CompleteTurnStep DEF Ready
<1>9. CodexOK'
  BY <1>1 DEF IInv, CodexOK
<1>10. CallsDone'
  <2>1. b' = t /\ b.done \subseteq t.done
    BY <1>5, <1>8 DEF Translate, TurnStep, Adds
  <2>2. \A x \in listed : x \in t.done
    BY <1>6, <1>8 DEF TurnStep
  <2>3. \A c \in Call : call[c] = "ended" => c \in t.done
    BY <2>1 DEF IInv, CallsDone
  <2> QED BY <1>1, <2>1, <2>2, <2>3 DEF CallsDone
<1>11. /\ Good(ToSet(stream), t) /\ Told(ToSet(stream), t) /\ Adds(b, t, Label)
       /\ t.status \in Terminal
  BY <1>8 DEF TurnStep
<1> QED BY <1>5, <1>9, <1>10, <1>11, ConsumeKeeps

LEMMA FailureEnds == Failure \subseteq Terminal
BY DEF Failure, Terminal

\* The message of the record has been shown.
LEMMA MessageShown ==
  ASSUME NEW st, NEW s, Good(st, s), Told(st, s), s.msg # NoItem
  PROVE  \E x \in Events(st, s) : x.item = s.msg
BY DEF Good, Core, Builder, OneMessage, Told, Shown, Id

LEMMA AbortKeeps ==
  ASSUME BuilderAssumption, IInv, Abort
  PROVE  IInv'
<1>1. PICK status \in Terminal : Translate(End(b, status))
  BY FailureEnds DEF Abort
<1>2. PICK t : t = End(b, status)
  OBVIOUS
<1>3. Translate(t) /\ UNCHANGED codexVars
  BY <1>1, <1>2 DEF Abort
<1>4. Ready
  BY <1>3, ReadyWhenConsumed
<1>5. b.msg # NoItem => \E x \in Events(ToSet(stream), b) : x.item = b.msg
  BY <1>4, MessageShown DEF Ready
<1>6. EndStep(ToSet(stream), b, t, status)
  BY <1>2, <1>4, <1>5, EndOfResponse DEF Ready
<1>7. CodexOK'
  BY <1>3 DEF IInv, CodexOK, codexVars
<1>8. CallsDone'
  BY <1>3, <1>6 DEF IInv, CallsDone, EndStep, Translate, codexVars
<1>9. /\ Good(ToSet(stream), t) /\ Told(ToSet(stream), t) /\ Adds(b, t, Message \cup {NoItem})
      /\ t.status \in Terminal
  BY <1>4, <1>6 DEF EndStep, Ready
<1> QED BY <1>3, <1>7, <1>8, <1>9, ConsumeKeeps

\* What both ways to publish keep.
LEMMA PublishedKeeps ==
  ASSUME IInv, stream' = stream \o b.out, b' = [b EXCEPT !.out = <<>>]
  PROVE  /\ stream' \in Seq(Event) /\ Good(ToSet(stream), b)' /\ Increasing(stream)'
         /\ Kept => Kept'
         /\ Len(stream) < b.number - Len(b.out) => Len(stream') < b'.number - Len(b'.out)
         /\ b'.out = <<>> /\ b'.status = b.status /\ b'.done = b.done
<1>1. PICK nq : nq = stream'
  OBVIOUS
<1>2. PICK t : t = b'
  OBVIOUS
<1>3. stream \in Seq(Event) /\ Good(ToSet(stream), b) /\ Increasing(stream) /\ b \in Builder
  BY DEF IInv, StateOK, Good, Core
<1>4. nq = stream \o b.out /\ t = [b EXCEPT !.out = <<>>]
  BY <1>1, <1>2
<1>5. PublishStep(stream, b, nq, t)
  BY <1>3, <1>4, PublishBatch
<1>6. t.status = b.status /\ t.done = b.done
  BY <1>3, <1>4, BatchIsEmptied
<1>7. /\ Len(nq) = Len(stream) + Len(b.out) /\ t.number = b.number /\ Len(t.out) = 0
      /\ Len(stream) \in Nat /\ Len(b.out) \in Nat /\ b.number \in Nat
  <2>1. b.out \in Seq(Event) /\ b.number \in Nat
    BY <1>3 DEF Builder
  <2> QED BY <1>3, <1>5, <2>1, LenProperties DEF PublishStep
<1>8. /\ b.number - Len(b.out) = Len(stream) => t.number - Len(t.out) = Len(nq)
      /\ Len(stream) < b.number - Len(b.out) => Len(nq) < t.number - Len(t.out)
  <2>1. PICK k \in Nat : k = Len(stream)
    BY <1>7
  <2>2. PICK l \in Nat : l = Len(b.out)
    BY <1>7
  <2>3. PICK n \in Nat : n = b.number
    BY <1>7
  <2>4. (n - l = k => n - 0 = k + l) /\ (k < n - l => k + l < n - 0)
    OBVIOUS
  <2> QED BY <1>7, <2>1, <2>2, <2>3, <2>4
<1>9. Kept => Kept'
  BY <1>1, <1>2, <1>5, <1>8 DEF Kept, PublishStep
<1> QED BY <1>1, <1>2, <1>5, <1>6, <1>8, <1>9 DEF PublishStep

LEMMA PublishKeeps ==
  ASSUME IInv, Publish
  PROVE  IInv'
<1>1. /\ driver = "publishing" /\ stream' = stream \o b.out /\ b' = [b EXCEPT !.out = <<>>]
      /\ bound' = bound \cup Unbound /\ UNCHANGED codexVars
      /\ driver' = IF b.status = "in_progress" THEN "reading" ELSE "ended"
  BY DEF Publish
<1>2. /\ stream' \in Seq(Event) /\ Good(ToSet(stream), b)' /\ Increasing(stream)'
      /\ (Kept => Kept') /\ b'.out = <<>> /\ b'.status = b.status /\ b'.done = b.done
  BY <1>1, PublishedKeeps
<1>3. Kept'
  BY <1>1, <1>2 DEF IInv, Lost
<1>4. StateOK'
  BY <1>1, <1>2 DEF IInv, StateOK, Unbound
<1>5. Phases'
  BY <1>1, <1>2 DEF Phases, IInv, Good, Core, Builder, Status
<1>6. CodexOK' /\ CallsDone'
  BY <1>1, <1>2 DEF IInv, CodexOK, CallsDone, codexVars
<1> QED BY <1>2, <1>3, <1>4, <1>5, <1>6 DEF IInv

LEMMA PublishFailureKeeps ==
  ASSUME IInv, PublishFailure
  PROVE  IInv'
<1>1. /\ driver = "failing" /\ driver' = "ended" /\ stream' = stream \o b.out
      /\ b' = [b EXCEPT !.out = <<>>] /\ bound' = bound /\ UNCHANGED codexVars
  BY DEF PublishFailure
<1>2. /\ stream' \in Seq(Event) /\ Good(ToSet(stream), b)' /\ Increasing(stream)'
      /\ (Kept => Kept') /\ b'.out = <<>> /\ b'.status = b.status /\ b'.done = b.done
      /\ Len(stream) < b.number - Len(b.out) => Len(stream') < b'.number - Len(b'.out)
  BY <1>1, PublishedKeeps
<1>3. Kept' \/ Lost'
  BY <1>1, <1>2 DEF IInv, Lost
<1>4. StateOK'
  BY <1>1, <1>2 DEF IInv, StateOK
<1>5. Phases'
  BY <1>1, <1>2 DEF Phases, IInv
<1>6. CodexOK' /\ CallsDone'
  BY <1>1, <1>2 DEF IInv, CodexOK, CallsDone, codexVars
<1> QED BY <1>2, <1>3, <1>4, <1>5, <1>6 DEF IInv

LEMMA DeadlineInBindKeeps ==
  ASSUME BuilderAssumption, IInv, DeadlineInBind
  PROVE  IInv' /\ Lost'
<1>1. PICK d : d = [b EXCEPT !.out = <<>>]
  OBVIOUS
<1>2. PICK status \in Terminal : b' = End(d, status)
  BY <1>1, FailureEnds DEF DeadlineInBind
<1>3. PICK t : t = b'
  OBVIOUS
<1>4. /\ driver = "publishing" /\ driver' = "failing" /\ stream' = stream /\ bound' = bound
      /\ UNCHANGED codexVars /\ Unbound # {}
  BY DEF DeadlineInBind
<1>5. b \in Builder /\ stream \in Seq(Event) /\ Good(ToSet(stream), b) /\ Kept
  BY <1>4 DEF IInv, StateOK, Good, Core, Lost
<1>6. ToSet(stream) \in SUBSET Event
  <2>1. \A i \in DOMAIN stream : stream[i] \in Event
    BY <1>5
  <2> QED BY <2>1 DEF ToSet
<1>7. Good(ToSet(stream), d) /\ Events(ToSet(stream), d) = ToSet(stream)
  BY <1>1, <1>5, <1>6, DropBatch
<1>8. /\ d.msg = b.msg /\ d.status = b.status /\ d.done = b.done /\ d.number = b.number
      /\ Len(d.out) = 0
  BY <1>1, <1>5, BatchIsEmptied
<1>9. PICK c \in AppCall, n \in 1 .. Len(b.out) : b.out[n].item = c
  BY <1>4 DEF Unbound
<1>10. ASSUME b.status = "in_progress", b.msg # NoItem
       PROVE  \E x \in ToSet(stream) : x.item = b.msg
  <2>1. PICK x \in Events(ToSet(stream), b) : x.item = b.msg
    BY <1>5, <1>10, MessageShown DEF Kept
  <2>2. b.msg \in Message /\ b.msg \notin Call /\ c \in Call
    BY <1>5, <1>10 DEF Builder, BuilderAssumption
  <2>3. n \in DOMAIN b.out
    BY <1>5, LenProperties DEF Builder
  <2>4. b.out[n] \in ToSet(b.out) /\ b.out[n].item \in Call
    BY <1>9, <2>2, <2>3 DEF ToSet
  <2>5. \A y \in ToSet(b.out) : y.item \in Call
    BY <1>4, <1>10, <2>4 DEF IInv, Phases, OneKind
  <2> QED BY <2>1, <2>2, <2>5 DEF Events
<1>11. EndStep(ToSet(stream), d, t, status)
  BY <1>2, <1>3, <1>6, <1>7, <1>8, <1>10, EndOfResponse
<1>12. t.status \in Terminal
  BY <1>5, <1>8, <1>11 DEF EndStep, Builder, Status
<1>13. Len(stream) < t.number - Len(t.out)
  <2>1. t.number - Len(t.out) = d.number - Len(d.out)
    BY <1>11 DEF EndStep, Adds
  <2>2. Len(b.out) \in Nat /\ Len(b.out) > 0 /\ b.number \in Nat
    <3>1. b.out \in Seq(Event) /\ b.number \in Nat
      BY <1>5 DEF Builder
    <3>2. Len(b.out) \in Nat
      BY <3>1, LenProperties
    <3> QED BY <1>9, <3>1, <3>2
  <2>3. b.number - Len(b.out) = Len(stream)
    BY <1>5 DEF Kept
  <2>4. d.number - Len(d.out) = b.number
    BY <1>8, <2>2
  <2>5. b.number - Len(b.out) < b.number
    BY <2>2
  <2> QED BY <2>1, <2>3, <2>4, <2>5, Zenon
<1>14. Lost'
  BY <1>3, <1>4, <1>13 DEF Lost
<1>15. Good(ToSet(stream), b)' /\ Increasing(stream)' /\ StateOK'
  BY <1>3, <1>4, <1>11 DEF IInv, StateOK, EndStep
<1>16. Phases'
  BY <1>3, <1>4, <1>12 DEF Phases
<1>17. CodexOK' /\ CallsDone'
  BY <1>3, <1>4, <1>8, <1>11 DEF IInv, CodexOK, CallsDone, codexVars, EndStep
<1> QED BY <1>14, <1>15, <1>16, <1>17 DEF IInv

LEMMA NextIInv ==
  ASSUME BuilderAssumption, IInv, [BuilderNext]_builderVars
  PROVE  IInv'
<1>1. CASE UNCHANGED builderVars
  BY <1>1 DEF builderVars, codexVars, IInv, CodexOK, StateOK, Kept, Lost, Phases, CallsDone
<1>2. ASSUME NEW c \in Call, CallStarted(c) PROVE IInv'
  BY <1>2, CallStartedKeeps
<1>3. ASSUME NEW c \in Call, CallCompleted(c) PROVE IInv'
  BY <1>3, CallCompletedKeeps
<1>4. ASSUME NEW m \in Message, Delta(m) PROVE IInv'
  BY <1>4, DeltaKeeps
<1>5. ASSUME NEW m \in Message, MessageCompleted(m) PROVE IInv'
  BY <1>5, MessageCompletedKeeps
<1>6. CASE TurnCompleted
  BY <1>6, TurnCompletedKeeps DEF BuilderAssumption
<1>7. CASE Abort
  BY <1>7, AbortKeeps
<1>8. CASE Publish
  BY <1>8, PublishKeeps
<1>9. CASE DeadlineInBind
  BY <1>9, DeadlineInBindKeeps
<1>10. CASE PublishFailure
  BY <1>10, PublishFailureKeeps
<1> QED BY <1>1, <1>2, <1>3, <1>4, <1>5, <1>6, <1>7, <1>8, <1>9, <1>10 DEF BuilderNext

\* The stream a subscriber gets.
LEMMA StreamIsInOrder ==
  ASSUME BuilderAssumption, IInv
  PROVE  StreamIsWellFormed
<1>1. stream \in Seq(Event) /\ Good(ToSet(stream), b) /\ Increasing(stream) /\ b \in Builder
  BY DEF IInv, StateOK, Good, Core
<1>2. Len(stream) \in Nat /\ DOMAIN stream = 1 .. Len(stream)
  BY <1>1, LenProperties
<1>3. ASSUME NEW i \in 1 .. Len(stream), NEW e, e = stream[i],
             NEW before, before = {stream[j] : j \in 1 .. i - 1},
             NEW same, same = {x \in before : x.item = e.item}
      PROVE  /\ \A x \in before : x.number < e.number /\ x.type \notin Terminal
             /\ e.item # NoItem =>
                   /\ e.index = Index(b, e.item)
                   /\ e.type = "added" <=> same = {}
                   /\ \A x \in same : x.type # "done"
  <2>1. e \in ToSet(stream) /\ e \in Events(ToSet(stream), b) /\ e \in Event
    BY <1>1, <1>2, <1>3 DEF ToSet, Events
  <2>2. ASSUME NEW x \in before
        PROVE  x.number < e.number /\ x \in Events(ToSet(stream), b) /\ x \in Event
    <3>1. PICK j \in 1 .. i - 1 : x = stream[j]
      BY <1>3
    <3>2. j \in 1 .. Len(stream) /\ j < i
      BY <1>2
    <3>3. x.number < e.number
      BY <1>1, <1>2, <1>3, <3>1, <3>2 DEF Increasing
    <3>4. x \in ToSet(stream) /\ x \in Event
      BY <1>1, <1>2, <3>1, <3>2 DEF ToSet
    <3> QED BY <3>3, <3>4 DEF Events
  <2>3. ASSUME NEW x \in before PROVE x.type \notin Terminal
    <3>1. x.type \in Terminal => e.number <= x.number
      BY <1>1, <2>1, <2>2 DEF Good, Marked
    <3>2. x.number \in Nat /\ e.number \in Nat
      BY <2>1, <2>2 DEF Event
    <3> QED BY <2>2, <3>1, <3>2
  <2>4. ASSUME e.item # NoItem PROVE e.index = Index(b, e.item)
    BY <1>1, <2>1, <2>4 DEF Good, Core, Placed
  <2>5. ASSUME e.item # NoItem, NEW x \in same PROVE x.type # "done" /\ e.type # "added"
    <3>1. x \in before /\ x.item = e.item
      BY <1>3
    <3>2. x.number < e.number /\ x \in Events(ToSet(stream), b)
      BY <2>2, <3>1
    <3> QED BY <1>1, <2>1, <2>5, <3>1, <3>2 DEF Good, Core, Ordered
  <2>6. ASSUME e.item # NoItem, e.type # "added" PROVE same # {}
    <3>1. PICK y \in Events(ToSet(stream), b) : y.item = e.item /\ y.number < e.number
      BY <1>1, <2>1, <2>6 DEF Good, Core, Ordered
    <3>2. y \in ToSet(stream)
      <4>1. CASE y \in ToSet(b.out)
        <5>1. PICK k \in DOMAIN b.out : y = b.out[k]
          BY <4>1 DEF ToSet
        <5>2. b.out[k] \in Event
          BY <1>1, <5>1 DEF Builder
        <5>3. e.number < y.number /\ y.number \in Nat /\ e.number \in Nat
          BY <1>1, <2>1, <5>1, <5>2 DEF Good, Core, Numbered, Event
        <5> QED BY <3>1, <5>3
      <4> QED BY <4>1 DEF Events
    <3>3. PICK j \in 1 .. Len(stream) : y = stream[j]
      BY <1>2, <3>2 DEF ToSet
    <3>4. y.number \in Nat /\ e.number \in Nat
      <4>1. y \in Event
        BY <1>1, <1>2, <3>3
      <4> QED BY <2>1, <4>1 DEF Event
    <3>5. ~(i < j) /\ i # j
      <4>1. i < j => e.number < y.number
        BY <1>1, <1>2, <1>3, <3>3 DEF Increasing
      <4>2. i = j => e = y
        BY <1>3, <3>3
      <4> QED BY <3>1, <3>4, <4>1, <4>2
    <3>6. j \in 1 .. i - 1
      BY <1>2, <3>5
    <3> QED BY <1>3, <3>1, <3>3, <3>6
  <2> QED BY <2>2, <2>3, <2>4, <2>5, <2>6
<1> QED BY <1>3 DEF StreamIsWellFormed

LEMMA IInvIsEnough ==
  ASSUME BuilderAssumption, IInv
  PROVE  BuilderInvariant
<1>1. b \in Builder /\ Good(ToSet(stream), b) /\ stream \in Seq(Event)
  BY DEF IInv, StateOK, Good, Core
<1>2. \A n \in 1 .. Len(stream) : stream[n].type \in Terminal => stream[n].type = b.status
  <2>1. \A n \in 1 .. Len(stream) : stream[n] \in Events(ToSet(stream), b)
    BY <1>1, LenProperties DEF Events, ToSet
  <2> QED BY <1>1, <2>1 DEF Good, Marked
<1>3. BuilderTypeOK
  <2>1. /\ b.output \in Seq(Item) /\ b.text \in Seq(Word) /\ b.msg \in Message \cup {NoItem}
        /\ b.finished \in BOOLEAN /\ b.done \in SUBSET Call /\ b.status \in Status
        /\ b.number \in Nat /\ b.out \in Seq(Event)
    BY <1>1 DEF Builder
  <2>2. b.output \in Seq([id : Call \cup Message, status : ItemStatus])
    BY <2>1 DEF Item, Id
  <2> QED BY <1>1, <1>2, <2>1, <2>2 DEF BuilderTypeOK, IInv, StateOK, Status
<1>4. StreamIsWellFormed
  BY StreamIsInOrder
<1>5. EndIsRecorded
  <2> SUFFICES ASSUME driver = "ended"
               PROVE  /\ b.status \in Terminal
                      /\ \A n \in 1 .. Len(b.output) :
                            b.output[n].id = b.msg => b.output[n].status = "completed"
    BY DEF EndIsRecorded
  <2>1. b.status \in Terminal
    BY DEF IInv, Phases
  <2>2. CASE b.msg = NoItem
    <3>1. \A n \in 1 .. Len(b.output) : b.output[n] \in Item
      BY <1>1 DEF Builder
    <3>2. NoItem \notin Id
      BY DEF Id, BuilderAssumption
    <3> QED BY <2>1, <2>2, <3>1, <3>2 DEF Item
  <2>3. CASE b.msg # NoItem
    <3>1. b.status # "in_progress"
      BY <2>1 DEF Terminal
    <3> QED BY <1>1, <2>1, <2>3, <3>1 DEF Good, OneMessage
  <2> QED BY <2>2, <2>3
<1> QED BY <1>3, <1>4, <1>5 DEF BuilderInvariant

\* The inductive invariant of the builder, its driver and the stream.
THEOREM IInvHolds ==
  ASSUME BuilderAssumption
  PROVE  BuilderSpec => []IInv
<1>1. BuilderInit => IInv
  BY InitIInv
<1>2. IInv /\ [BuilderNext]_builderVars => IInv'
  BY NextIInv
<1> QED BY <1>1, <1>2, PTL DEF BuilderSpec

\* The stream a subscriber gets is well formed, and the record ends with its turn,
\* whatever Codex sends and whatever is lost when the deadline passes during app/read
\* (_publish_response_events, ResponsesEventBuilder).
THEOREM StreamIsOrdered ==
  ASSUME BuilderAssumption
  PROVE  BuilderSpec => []BuilderInvariant
<1>1. IInv => BuilderInvariant
  BY IInvIsEnough
<1> QED BY <1>1, IInvHolds, PTL

-----------------------------------------------------------------------------
(* What a stream that was published whole tells. *)
LEMMA WholeIsEverything ==
  ASSUME IInv, Whole
  PROVE  /\ Kept /\ b.out = <<>> /\ Events(ToSet(stream), b) = ToSet(stream)
         /\ Sent = ToSet(stream) /\ b.status \in Terminal
<1>1. stream \in Seq(Event) /\ Good(ToSet(stream), b) /\ b.out \in Seq(Event) /\ b.number \in Nat
  BY DEF IInv, StateOK, Good, Core, Builder
<1>2. Len(stream) = b.number /\ \E e \in Sent : e.type \in Terminal
  BY DEF Whole
<1>3. Len(b.out) \in Nat /\ DOMAIN stream = 1 .. Len(stream)
  BY <1>1, LenProperties
<1>4. ~(Len(stream) < b.number - Len(b.out))
  BY <1>1, <1>2, <1>3
<1>5. Kept
  BY <1>4 DEF IInv, Lost
<1>6. Len(b.out) = 0
  <2>1. b.number - Len(b.out) = b.number
    BY <1>2, <1>5 DEF Kept
  <2> QED BY <1>1, <1>3, <2>1
<1>7. b.out = <<>>
  BY <1>1, <1>6, EmptySeq
<1>8. Sent = ToSet(stream)
  BY <1>3 DEF Sent, ToSet
<1>9. Events(ToSet(stream), b) = ToSet(stream)
  BY <1>7, EmptySeq DEF Events, ToSet
<1>10. b.status \in Terminal
  BY <1>1, <1>2, <1>8, <1>9 DEF Good, Marked
<1> QED BY <1>5, <1>7, <1>8, <1>9, <1>10

LEMMA ItemsFinish ==
  ASSUME BuilderAssumption, IInv
  PROVE  ItemsAreFinished
<1> SUFFICES ASSUME Whole
             PROVE  /\ b.msg # NoItem => IsDone(b.msg)
                    /\ \A c \in Call : call[c] = "ended" => IsDone(c)
  BY DEF ItemsAreFinished
<1>1. /\ Kept /\ Events(ToSet(stream), b) = ToSet(stream) /\ Sent = ToSet(stream)
      /\ b.status \in Terminal
  BY WholeIsEverything
<1>2. Told(ToSet(stream), b) /\ OneMessage(b)
  BY <1>1 DEF IInv, Kept, Good
<1>3. b.status # "in_progress"
  BY <1>1 DEF Terminal
<1>4. b.msg # NoItem => IsDone(b.msg)
  BY <1>1, <1>2, <1>3 DEF Told, Finished, OneMessage, IsDone
<1>5. \A c \in Call : call[c] = "ended" => IsDone(c)
  BY <1>1, <1>2 DEF IInv, CallsDone, Told, Finished, IsDone
<1> QED BY <1>4, <1>5

\* What was sent of the text, and what Codex has written of it, while one message has
\* a text; and the text a message is closed with, whatever messages there are.
Spoken == Kept /\ OneSpeaker => Deltas(stream \o b.out) = b.text
SaidIs ==
    /\ (\A m \in Message : said[m] = <<>>) => b.text = <<>>
    /\ OneSpeaker => \A m \in Message : said[m] # <<>> => b.text = said[m]
ClosedIs ==
    Kept => \A x \in Events(ToSet(stream), b) : x.type = "settled" =>
                x.item \in Call \/ (b.status # "in_progress" /\ x.text = b.text)

LEMMA ConsumeSpeaks ==
  ASSUME IInv, OneSpeaker, Spoken, NEW t, Translate(t), NEW text, Extends(b, t, text)
  PROVE  Spoken'
<1>1. driver = "reading" /\ b' = t /\ stream' = stream
  BY DEF Translate
<1>2. Deltas(stream \o b.out) = b.text
  BY <1>1 DEF IInv, Lost, Spoken
<1>3. stream \in Seq(Event)
  BY DEF IInv, StateOK
<1>4. PICK w \in Text : text = b.text \o w /\ Says(b, t, w) /\ t.text = text
  BY DEF Extends
<1>5. Deltas(stream \o t.out) = t.text
  BY <1>2, <1>3, <1>4 DEF Says
<1> QED BY <1>1, <1>5 DEF Spoken

LEMMA SilentSpeaks ==
  ASSUME IInv, OneSpeaker, Spoken, NEW t, Translate(t), Silent(b, t), t.text = b.text
  PROVE  Spoken'
<1>1. b.text \in Text /\ b.out \in Seq(Event)
  BY DEF IInv, Good, Core, Builder, Text
<1>2. Extends(b, t, b.text)
  BY <1>1, SilentExtends
<1> QED BY <1>2, ConsumeSpeaks

\* No message is closed before the response ends, and then with the text of the record.
LEMMA ClosedStays ==
  ASSUME IInv, ClosedIs, NEW t, Translate(t),
         \/ Unsettled(ToSet(stream), b, t)
         \/ Closes(ToSet(stream), b, t) /\ t.status # "in_progress"
  PROVE  ClosedIs'
<1>1. driver = "reading" /\ b.status = "in_progress" /\ b' = t /\ stream' = stream
  BY DEF Translate
<1>2. Kept
  BY <1>1 DEF IInv, Lost
<1>3. \A x \in Events(ToSet(stream), b) : x.type = "settled" => x.item \in Call
  BY <1>1, <1>2 DEF ClosedIs
<1> QED BY <1>1, <1>3 DEF ClosedIs, Unsettled, Closes

LEMMA PrefixOfConcat ==
  ASSUME NEW s \in Text, NEW w \in Text
  PROVE  IsPrefix(s, s \o w)
<1>1. /\ s \o w \in Seq(Word) /\ Len(s \o w) = Len(s) + Len(w)
      /\ \A i \in 1 .. Len(s) : (s \o w)[i] = s[i]
  BY ConcatProperties DEF Text
<1>2. Len(s) \in Nat /\ Len(w) \in Nat /\ \A i \in 1 .. Len(s) : s[i] \in Word
  BY LenProperties DEF Text
<1>3. PICK u : u = s \o w
  OBVIOUS
<1>4. PICK k \in Nat : k = Len(s)
  BY <1>2
<1>5. SubSeq(u, 1, k) = SubSeq(s, 1, k)
  <2>1. 1 \in Int /\ k \in Int /\ k - 1 + 1 = k
    OBVIOUS
  <2>2. \A i \in 1 .. k : u[i] = s[i] /\ u[i] \in Word /\ s[i] \in Word
    BY <1>1, <1>2, <1>3, <1>4
  <2>3. /\ SubSeq(u, 1, k) \in Seq(Word)
        /\ Len(SubSeq(u, 1, k)) = (IF 1 <= k THEN k - 1 + 1 ELSE 0)
        /\ \A i \in 1 .. k - 1 + 1 : SubSeq(u, 1, k)[i] = u[1 + i - 1]
    BY <2>1, <2>2, SubSeqProperties
  <2>4. /\ SubSeq(s, 1, k) \in Seq(Word)
        /\ Len(SubSeq(s, 1, k)) = (IF 1 <= k THEN k - 1 + 1 ELSE 0)
        /\ \A i \in 1 .. k - 1 + 1 : SubSeq(s, 1, k)[i] = s[1 + i - 1]
    BY <2>1, <2>2, SubSeqProperties
  <2>5. Len(SubSeq(u, 1, k)) = k /\ Len(SubSeq(s, 1, k)) = k
    BY <2>3, <2>4
  <2>6. \A i \in 1 .. k : SubSeq(u, 1, k)[i] = SubSeq(s, 1, k)[i]
    <3>1. \A i \in 1 .. k : 1 + i - 1 = i
      OBVIOUS
    <3> QED BY <2>1, <2>2, <2>3, <2>4, <3>1
  <2> QED BY <2>3, <2>4, <2>5, <2>6, SeqEqual
<1>6. Len(s) <= Len(u)
  BY <1>1, <1>2, <1>3
<1> QED BY <1>3, <1>4, <1>5, <1>6 DEF IsPrefix

LEMMA InitSpeaks ==
  ASSUME BuilderInit
  PROVE  Spoken /\ SaidIs /\ ClosedIs
<1>1. b.out = <<>> /\ b.text = <<>> /\ b.msg = NoItem /\ stream = <<>>
  BY DEF BuilderInit, NewBuilder
<1>2. <<>> \o <<>> = <<>>
  <2>1. <<>> \in Seq(Event)
    OBVIOUS
  <2> QED BY <2>1, ConcatEmptySeq
<1>3. Deltas(<<>>) = <<>>
  <2>1. Len(<<>>) = 0
    BY EmptySeq
  <2>2. [n \in 1 .. Len(<<>>) |-> TextOf(<<>>[n])] = <<>>
    BY <2>1
  <2>3. FlattenSeq(<<>>) = <<>>
    BY DEF FlattenSeq
  <2> QED BY <2>2, <2>3 DEF Deltas
<1>4. \A m \in Message : said[m] = <<>>
  BY DEF BuilderInit
<1>5. ClosedIs
  <2>1. ToSet(<<>>) = {}
    BY EmptySeq DEF ToSet
  <2> QED BY <1>1, <2>1 DEF ClosedIs, Events
<1> QED BY <1>1, <1>2, <1>3, <1>4, <1>5 DEF Spoken, SaidIs

\* A step that adds nothing to the text.
LEMMA QuietStep ==
  ASSUME IInv, Spoken, SaidIs, ClosedIs, NEW t, Translate(t), Silent(b, t), t.text = b.text,
         said' = said,
         \/ Unsettled(ToSet(stream), b, t)
         \/ Closes(ToSet(stream), b, t) /\ t.status # "in_progress"
  PROVE  Spoken' /\ SaidIs' /\ ClosedIs'
<1>1. OneSpeaker' <=> OneSpeaker
  BY DEF OneSpeaker
<1>2. Spoken'
  BY <1>1, SilentSpeaks DEF Spoken
<1>3. b' = t
  BY DEF Translate
<1>4. SaidIs'
  BY <1>1, <1>3 DEF SaidIs
<1> QED BY <1>2, <1>4, ClosedStays

LEMMA CallIsQuiet ==
  ASSUME BuilderAssumption, IInv, Spoken, SaidIs, ClosedIs, NEW c \in Call, NEW t, Translate(t),
         CallStep(ToSet(stream), b, t, c), said' = said
  PROVE  Spoken' /\ SaidIs' /\ ClosedIs'
<1>1. Unsettled(ToSet(stream), b, t)
  BY DEF CallStep, Adds, Events, Unsettled
<1> QED BY <1>1, QuietStep DEF CallStep

LEMMA CallsAreQuiet ==
  ASSUME BuilderAssumption, IInv, Spoken, SaidIs, ClosedIs,
         NEW c \in Call, CallStarted(c) \/ CallCompleted(c)
  PROVE  Spoken' /\ SaidIs' /\ ClosedIs'
<1>1. CASE CallStarted(c)
  <2>1. PICK t : t = OpenCall(b, c)
    OBVIOUS
  <2>2. Translate(t) /\ said' = said
    BY <1>1, <2>1 DEF CallStarted
  <2>3. Ready
    BY <2>2, ReadyWhenConsumed
  <2>4. CallStep(ToSet(stream), b, t, c)
    BY <2>1, <2>3, OpenCallStep DEF Ready
  <2> QED BY <2>2, <2>4, CallIsQuiet
<1>2. CASE CallCompleted(c)
  <2>1. PICK status \in {"completed", "failed"} : Translate(CompleteCall(b, c, status))
    BY <1>2 DEF CallCompleted
  <2>2. PICK t : t = CompleteCall(b, c, status)
    OBVIOUS
  <2>3. Translate(t) /\ said' = said
    BY <1>2, <2>1, <2>2 DEF CallCompleted
  <2>4. Ready
    BY <2>3, ReadyWhenConsumed
  <2>5. CallStep(ToSet(stream), b, t, c)
    BY <2>2, <2>4, CompleteCallStep DEF Ready
  <2> QED BY <2>3, <2>5, CallIsQuiet
<1> QED BY <1>1, <1>2

\* While one message has a text, it is the one that goes on.
LEMMA OneSpeaks ==
  ASSUME said \in [Message -> Text], SaidIs, NEW m \in Message, NEW text, text # <<>>,
         said' = [said EXCEPT ![m] = text], OneSpeaker'
  PROVE  OneSpeaker /\ said[m] = b.text /\ \A n \in Message : said'[n] # <<>> => n = m
<1>1. said'[m] = text /\ \A n \in Message : n # m => said'[n] = said[n]
  OBVIOUS
<1>2. \A n \in Message : said'[n] # <<>> => n = m
  BY <1>1 DEF OneSpeaker
<1>3. \A n \in Message : n # m => said[n] = <<>>
  BY <1>1, <1>2
<1>4. OneSpeaker
  BY <1>3 DEF OneSpeaker
<1>5. CASE said[m] = <<>>
  <2>1. \A n \in Message : said[n] = <<>>
    BY <1>3, <1>5
  <2>2. b.text = <<>>
    BY <2>1, Zenon DEF SaidIs
  <2> QED BY <1>2, <1>4, <1>5, <2>2
<1>6. CASE said[m] # <<>>
  <2>1. b.text = said[m]
    BY <1>4, <1>6, Zenon DEF SaidIs
  <2> QED BY <1>2, <1>4, <2>1
<1> QED BY <1>5, <1>6

\* A message goes on with text, and so does the record.
LEMMA MoreIsSpoken ==
  ASSUME BuilderAssumption, IInv, Spoken, SaidIs, ClosedIs, NEW m \in Message,
         NEW t, Translate(t), MessageStep(ToSet(stream), b, t, m),
         NEW text, text # <<>>, said' = [said EXCEPT ![m] = text],
         said[m] = b.text => Extends(b, t, text)
  PROVE  Spoken' /\ SaidIs' /\ ClosedIs'
<1>1. said \in [Message -> Text] /\ b' = t
  BY DEF IInv, CodexOK, Translate
<1>2. ClosedIs'
  BY ClosedStays DEF MessageStep
<1>3. said'[m] = text
  BY <1>1
<1>4. CASE OneSpeaker'
  <2>1. OneSpeaker /\ said[m] = b.text /\ \A n \in Message : said'[n] # <<>> => n = m
    BY <1>1, <1>4, OneSpeaks
  <2>2. Extends(b, t, text)
    BY <2>1
  <2>3. Spoken'
    BY <2>1, <2>2, ConsumeSpeaks
  <2> QED BY <1>1, <1>2, <1>3, <2>1, <2>2, <2>3 DEF SaidIs, Extends
<1>5. CASE ~OneSpeaker'
  BY <1>2, <1>3, <1>5 DEF Spoken, SaidIs
<1> QED BY <1>4, <1>5

LEMMA DeltaIsSpoken ==
  ASSUME BuilderAssumption, IInv, Spoken, SaidIs, ClosedIs, NEW m \in Message, Delta(m)
  PROVE  Spoken' /\ SaidIs' /\ ClosedIs'
<1>1. PICK d \in Word : said' = [said EXCEPT ![m] = Append(@, d)] /\ Translate(AppendText(b, m, d))
  BY DEF Delta
<1>2. PICK t : t = AppendText(b, m, d)
  OBVIOUS
<1>3. PICK text : text = Append(said[m], d)
  OBVIOUS
<1>4. Translate(t) /\ said' = [said EXCEPT ![m] = text]
  BY <1>1, <1>2, <1>3
<1>5. Ready
  BY <1>4, ReadyWhenConsumed
<1>6. MessageStep(ToSet(stream), b, t, m) /\ Extends(b, t, Append(b.text, d))
  BY <1>2, <1>5, AppendTextStep DEF Ready
<1>7. text # <<>>
  <2>1. said[m] \in Seq(Word)
    BY DEF IInv, CodexOK, Text
  <2>2. Len(text) = Len(said[m]) + 1 /\ Len(said[m]) \in Nat
    BY <1>3, <2>1, AppendProperties, LenProperties
  <2> QED BY <2>2, EmptySeq
<1> QED BY <1>3, <1>4, <1>6, <1>7, MoreIsSpoken

LEMMA MessageIsSpoken ==
  ASSUME BuilderAssumption, IInv, Spoken, SaidIs, ClosedIs, NEW m \in Message, MessageCompleted(m)
  PROVE  Spoken' /\ SaidIs' /\ ClosedIs'
<1>1. PICK rest \in {<<>>} \cup {<<d>> : d \in Word} :
         said' = [said EXCEPT ![m] = @ \o rest] /\ Translate(SyncMessage(b, m, said'[m]))
  BY DEF MessageCompleted
<1>2. PICK text : text = said[m] \o rest
  OBVIOUS
<1>3. PICK t : t = SyncMessage(b, m, text)
  OBVIOUS
<1>4. rest \in Text
  <2>1. \A d \in Word : <<d>> \in Seq(Word)
    OBVIOUS
  <2>2. <<>> \in Seq(Word)
    OBVIOUS
  <2> QED BY <2>1, <2>2 DEF Text
<1>5. said \in [Message -> Text] /\ said[m] \in Text
  BY DEF IInv, CodexOK
<1>6. said' = [said EXCEPT ![m] = text] /\ Translate(t)
  <2>1. said'[m] = text
    BY <1>1, <1>2, <1>5
  <2> QED BY <1>1, <1>2, <1>3, <2>1
<1>7. /\ text \in Text /\ Len(text) = Len(said[m]) + Len(rest)
      /\ Len(said[m]) \in Nat /\ Len(rest) \in Nat
  BY <1>2, <1>4, <1>5, ConcatProperties, LenProperties DEF Text
<1>8. Ready
  BY <1>6, ReadyWhenConsumed
<1>9. /\ MessageStep(ToSet(stream), b, t, m)
      /\ IsPrefix(b.text, text) => Extends(b, t, text)
      /\ text = <<>> => t.text = b.text /\ Silent(b, t)
  BY <1>3, <1>7, <1>8, SyncMessageStep DEF Ready
<1>10. CASE text = <<>>
  <2>1. Len(said[m]) = 0
    BY <1>7, <1>10, EmptySeq
  <2>2. said[m] = <<>>
    BY <1>5, <2>1, EmptySeq DEF Text
  <2>3. said' = said
    BY <1>5, <1>6, <1>10, <2>2
  <2> QED BY <1>6, <1>9, <1>10, <2>3, QuietStep DEF MessageStep
<1>11. CASE text # <<>>
  <2>1. said[m] = b.text => IsPrefix(b.text, text)
    BY <1>2, <1>4, <1>5, PrefixOfConcat
  <2> QED BY <1>6, <1>9, <1>11, <2>1, MoreIsSpoken
<1> QED BY <1>10, <1>11

LEMMA TurnIsSpoken ==
  ASSUME BuilderAssumption, IsFiniteSet(Call), IInv, Spoken, SaidIs, ClosedIs, TurnCompleted
  PROVE  Spoken' /\ SaidIs' /\ ClosedIs'
<1>1. PICK listed \in SUBSET Call :
        /\ \E m \in {NoItem} \cup {n \in Message : said[n] # <<>>} :
           \E status \in Terminal : Translate(CompleteTurn(b, SetToSeq(listed), m, status))
        /\ UNCHANGED <<said, ended>>
  BY DEF TurnCompleted
<1>2. PICK m \in {NoItem} \cup {n \in Message : said[n] # <<>>}, status \in Terminal :
         Translate(CompleteTurn(b, SetToSeq(listed), m, status))
  BY <1>1
<1>3. PICK calls : calls = SetToSeq(listed)
  OBVIOUS
<1>4. PICK t : t = CompleteTurn(b, calls, m, status)
  OBVIOUS
<1>5. Translate(t) /\ b' = t /\ said' = said
  BY <1>1, <1>2, <1>3, <1>4 DEF Translate
<1>6. calls \in Seq(Call)
  <2>1. IsFiniteSet(listed)
    BY FS_Subset
  <2>2. calls \in Seq(listed)
    BY <1>3, <2>1, SetToSeqLists
  <2> QED BY <2>2
<1>7. Ready /\ m \in Message \cup {NoItem} /\ said \in [Message -> Text]
  BY <1>2, <1>5, ReadyWhenConsumed DEF IInv, CodexOK
<1>8. ASSUME OneSpeaker, m # NoItem
      PROVE  said[m] = b.text /\ IsPrefix(b.text, said[m])
  <2>1. m \in Message /\ said[m] # <<>>
    BY <1>2, <1>8
  <2>2. said[m] = b.text /\ said[m] \in Text
    BY <1>7, <1>8, <2>1 DEF SaidIs
  <2>3. said[m] \o <<>> = said[m] /\ <<>> \in Text
    <3>1. <<>> \in Seq(Word)
      OBVIOUS
    <3> QED BY <2>2, <3>1, ConcatEmptySeq DEF Text
  <2>4. IsPrefix(said[m], said[m] \o <<>>)
    BY <2>2, <2>3, PrefixOfConcat
  <2> QED BY <2>2, <2>3, <2>4
<1>9. m # NoItem => said[m] \in Text
  BY <1>7
<1>10. /\ TurnStep(ToSet(stream), b, t, calls, status)
       /\ (m # NoItem => IsPrefix(b.text, said[m])) => TurnExtends(b, t, m)
  BY <1>4, <1>6, <1>7, <1>9, CompleteTurnStep DEF Ready
<1>11. OneSpeaker' <=> OneSpeaker
  BY <1>5 DEF OneSpeaker
<1>12. ClosedIs'
  <2>1. Closes(ToSet(stream), b, t) /\ t.status # "in_progress"
    BY <1>2, <1>10 DEF TurnStep, Terminal
  <2> QED BY <1>5, <2>1, ClosedStays
<1>13. CASE OneSpeaker
  <2>1. Extends(b, t, b.text)
    BY <1>8, <1>10, <1>13 DEF TurnExtends
  <2>2. Spoken'
    BY <1>5, <1>13, <2>1, ConsumeSpeaks
  <2>3. t.text = b.text
    BY <2>1 DEF Extends
  <2> QED BY <1>5, <1>11, <1>12, <2>2, <2>3 DEF SaidIs
<1>14. CASE ~OneSpeaker
  <2>1. ~ \A n \in Message : said'[n] = <<>>
    BY <1>5, <1>14 DEF OneSpeaker
  <2> QED BY <1>11, <1>12, <1>14, <2>1 DEF Spoken, SaidIs
<1> QED BY <1>13, <1>14

LEMMA AbortIsQuiet ==
  ASSUME BuilderAssumption, IInv, Spoken, SaidIs, ClosedIs, Abort
  PROVE  Spoken' /\ SaidIs' /\ ClosedIs'
<1>1. PICK status \in Terminal : Translate(End(b, status))
  BY FailureEnds DEF Abort
<1>2. PICK t : t = End(b, status)
  OBVIOUS
<1>3. Translate(t) /\ said' = said
  BY <1>1, <1>2 DEF Abort, codexVars
<1>4. Ready
  BY <1>3, ReadyWhenConsumed
<1>5. b.msg # NoItem => \E x \in Events(ToSet(stream), b) : x.item = b.msg
  BY <1>4, MessageShown DEF Ready
<1>6. EndStep(ToSet(stream), b, t, status)
  BY <1>2, <1>4, <1>5, EndOfResponse DEF Ready
<1>7. t.status # "in_progress"
  BY <1>3, <1>6 DEF EndStep, Translate, Terminal
<1> QED BY <1>3, <1>6, <1>7, QuietStep DEF EndStep

LEMMA PublishIsQuiet ==
  ASSUME IInv, Spoken, SaidIs, ClosedIs, stream' = stream \o b.out, b' = [b EXCEPT !.out = <<>>],
         said' = said
  PROVE  Spoken' /\ SaidIs' /\ ClosedIs'
<1>1. PICK nq : nq = stream'
  OBVIOUS
<1>2. PICK t : t = b'
  OBVIOUS
<1>3. stream \in Seq(Event) /\ Good(ToSet(stream), b) /\ Increasing(stream) /\ b \in Builder
  BY DEF IInv, StateOK, Good, Core
<1>4. nq = stream \o b.out /\ t = [b EXCEPT !.out = <<>>]
  BY <1>1, <1>2
<1>5. PublishStep(stream, b, nq, t)
  BY <1>3, <1>4, PublishBatch
<1>6. t.text = b.text /\ t.msg = b.msg
  BY <1>3, <1>4, BatchIsEmptied
<1>7. Kept' => Kept
  <2>1. b.out \in Seq(Event) /\ b.number \in Nat
    BY <1>3 DEF Builder
  <2>2. PICK k \in Nat : k = Len(stream)
    BY <1>3, LenProperties
  <2>3. PICK l \in Nat : l = Len(b.out)
    BY <2>1, LenProperties
  <2>4. PICK n \in Nat : n = b.number
    BY <2>1
  <2>5. n - 0 = k + l => ~(k < n - l)
    OBVIOUS
  <2>6. Len(nq) = k + l /\ t.number = n /\ Len(t.out) = 0
    BY <1>5, <2>2, <2>3, <2>4 DEF PublishStep
  <2> QED BY <1>1, <1>2, <2>2, <2>3, <2>4, <2>5, <2>6 DEF IInv, Lost, Kept
<1>8. Spoken'
  BY <1>1, <1>2, <1>5, <1>6, <1>7 DEF Spoken, PublishStep, OneSpeaker
<1>9. SaidIs'
  BY <1>2, <1>6 DEF SaidIs, OneSpeaker
<1>10. ClosedIs'
  <2>1. t.status = b.status
    BY <1>3, <1>4, BatchIsEmptied
  <2> QED BY <1>1, <1>2, <1>5, <1>6, <1>7, <2>1 DEF ClosedIs, PublishStep
<1> QED BY <1>8, <1>9, <1>10

LEMMA EndKeepsText ==
  ASSUME NEW s \in Builder, NEW status
  PROVE  End(s, status).msg = s.msg /\ End(s, status).text = s.text
<1>1. CASE s.status # "in_progress"
  BY <1>1 DEF End
<1>2. CASE s.status = "in_progress"
  <2>1. PICK f : f = FinishMessage(s)
    OBVIOUS
  <2>2. f.msg = s.msg /\ f.text = s.text
    BY <2>1 DEF FinishMessage, Put, Emit, Builder
  <2> QED BY <1>2, <2>1, <2>2 DEF End, Emit
<1> QED BY <1>1, <1>2

LEMMA DeadlineIsQuiet ==
  ASSUME BuilderAssumption, IInv, SaidIs, ClosedIs, DeadlineInBind
  PROVE  Spoken' /\ SaidIs' /\ ClosedIs'
<1>1. Lost'
  BY DeadlineInBindKeeps
<1>2. Spoken' /\ ClosedIs'
  BY <1>1 DEF Spoken, ClosedIs, Kept, Lost
<1>3. b'.msg = b.msg /\ b'.text = b.text
  <2>1. PICK d : d = [b EXCEPT !.out = <<>>]
    OBVIOUS
  <2>2. PICK status \in Terminal : b' = End(d, status)
    BY <2>1, FailureEnds DEF DeadlineInBind
  <2>3. b \in Builder
    BY DEF IInv, Good, Core
  <2> QED BY <2>1, <2>2, <2>3, BatchIsEmptied, EndKeepsText
<1>4. said' = said
  BY DEF DeadlineInBind, codexVars
<1> QED BY <1>2, <1>3, <1>4 DEF SaidIs, OneSpeaker

LEMMA NextSpeaks ==
  ASSUME BuilderAssumption, IInv, Spoken, SaidIs, ClosedIs, [BuilderNext]_builderVars
  PROVE  Spoken' /\ SaidIs' /\ ClosedIs'
<1>1. CASE UNCHANGED builderVars
  BY <1>1 DEF builderVars, codexVars, Spoken, SaidIs, ClosedIs, Kept, OneSpeaker
<1>2. ASSUME NEW c \in Call, CallStarted(c) \/ CallCompleted(c) PROVE Spoken' /\ SaidIs' /\ ClosedIs'
  BY <1>2, CallsAreQuiet
<1>3. ASSUME NEW m \in Message, Delta(m) PROVE Spoken' /\ SaidIs' /\ ClosedIs'
  BY <1>3, DeltaIsSpoken
<1>4. ASSUME NEW m \in Message, MessageCompleted(m) PROVE Spoken' /\ SaidIs' /\ ClosedIs'
  BY <1>4, MessageIsSpoken
<1>5. CASE TurnCompleted
  BY <1>5, TurnIsSpoken DEF BuilderAssumption
<1>6. CASE Abort
  BY <1>6, AbortIsQuiet
<1>7. CASE Publish
  BY <1>7, PublishIsQuiet DEF Publish, codexVars
<1>8. CASE DeadlineInBind
  BY <1>8, DeadlineIsQuiet
<1>9. CASE PublishFailure
  BY <1>9, PublishIsQuiet DEF PublishFailure, codexVars
<1> QED BY <1>1, <1>2, <1>3, <1>4, <1>5, <1>6, <1>7, <1>8, <1>9 DEF BuilderNext

LEMMA TextFollows ==
  ASSUME BuilderAssumption, IInv, Spoken, SaidIs, ClosedIs
  PROVE  TextIsStreamed
<1> SUFFICES ASSUME Whole
             PROVE  /\ \A e \in Sent : e.item = b.msg /\ e.type = "settled" => e.text = b.text
                    /\ OneSpeaker => /\ Streamed = b.text
                                     /\ \A m \in Message : said[m] # <<>> => b.text = said[m]
  BY DEF TextIsStreamed
<1>1. /\ Kept /\ b.out = <<>> /\ stream \in Seq(Event) /\ Sent = ToSet(stream)
      /\ Events(ToSet(stream), b) = ToSet(stream)
  BY WholeIsEverything DEF IInv, StateOK
<1>2. Streamed = Deltas(stream)
  BY DEF Deltas, TextOf, Streamed
<1>3. OneSpeaker => Deltas(stream) = b.text
  <2>1. stream \o <<>> = stream
    BY <1>1, ConcatEmptySeq
  <2> QED BY <1>1, <2>1 DEF Spoken
<1>4. b.msg \notin Call
  BY DEF IInv, Good, Core, Builder, BuilderAssumption
<1> QED BY <1>1, <1>2, <1>3, <1>4 DEF SaidIs, ClosedIs

\* A stream that was published whole tells what the record says: the message and
\* every completed call are done in it, the text it closes the message with is that
\* of the record, and, unless several messages have a text, its deltas add up to it,
\* which is the text of Codex (_sync_completed_message, _finish_message).
THEOREM WholeStreamTellsRecord ==
  ASSUME BuilderAssumption
  PROVE  BuilderSpec => []StreamTellsRecord
<1>1. BuilderInit => Spoken /\ SaidIs /\ ClosedIs
  BY InitSpeaks
<1>2. /\ IInv /\ (Spoken /\ SaidIs /\ ClosedIs) /\ [BuilderNext]_builderVars
      => (Spoken /\ SaidIs /\ ClosedIs)'
  BY NextSpeaks
<1>3. IInv /\ (Spoken /\ SaidIs /\ ClosedIs) => StreamTellsRecord
  BY ItemsFinish, TextFollows DEF StreamTellsRecord
<1> QED BY <1>1, <1>2, <1>3, IInvHolds, PTL DEF BuilderSpec

=============================================================================
