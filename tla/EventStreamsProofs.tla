-------------------------- MODULE EventStreamsProofs --------------------------
(***************************************************************************)
(* Proofs about EventStreams, for any number of streams, events and        *)
(* transports, and any size of buffer: what the host receives is what was  *)
(* produced, in order and once; a stream can be polled exactly until its   *)
(* terminal event is with the host; no report is lost; and a transport     *)
(* stays started only for a run that panicked or a call that a missing     *)
(* component ended.                                                        *)
(*                                                                         *)
(* The argument is about the log of a stream, the events received, drained *)
(* and pending in a row: a push appends to it, and polls only move events  *)
(* along it.                                                               *)
(***************************************************************************)
EXTENDS EventStreams, SequenceTheorems, FiniteSetTheorems, TLAPS

Log(s) == received[s] \o drained[s] \o pending[s]

Numbered(l) == \A i \in 1..Len(l) : l[i].seq = i
EndsOnce(l) == \A i \in 1..Len(l) : l[i].last => i = Len(l)

\* The log is numbered without a gap, and only its last event is terminal.
LogOK ==
  \A s \in Stream :
    /\ Len(Log(s)) = nextSeq[s]
    /\ Numbered(Log(s)) /\ EndsOnce(Log(s))
    /\ producedLast[s] <=> Terminated(Log(s))

\* What a task has still to push, by where it is.
Before == {<<>>, <<"event">>, <<"event", "report">>, <<"report">>}
Ending == {<<"finished">>, <<"report", "finished">>}
TaskOK ==
  \A s \in Stream :
    /\ s >= nextStream => thread[s] = "none"
    /\ thread[s] \in {"none", "working", "stopped"} =>
         ~producedLast[s] /\ queue[s] \in Before
    /\ thread[s] \in {"none", "stopped", "ended"} => queue[s] = <<>>
    /\ thread[s] = "finishing" => queue[s] \in Ending \cup {<<>>}
    /\ thread[s] \in {"finishing", "ended"} /\ queue[s] = <<>> => producedLast[s]
    /\ thread[s] = "none" => ~panicked[s]
    /\ work[s] = "publication" => targets[s] = {}

\* The terminal event is in the answer or with the host, or with the host.
Out(s)  == producedLast[s] /\ pending[s] = <<>>
With(s) == Out(s) /\ drained[s] = <<>>
Gone(s) == IF pc = "joining" THEN Out(s) ELSE With(s)

\* A poll forgets a stream once the terminal event is in its answer, and the
\* answer is all that is between them and the host.
PollOK ==
  /\ \A s \in Stream : deliveredLast[s] <=> Out(s)
  /\ pc = "idle" => \A s \in Stream : drained[s] = <<>>
  /\ ~shutDown =>
       \A s \in Stream : s \in registered <=> thread[s] # "none" /\ ~Gone(s)

\* Every report given before the terminal event is in the log, or about to be.
AboutToSay(q) ==
  IF q \in {<<"event", "report">>, <<"report">>, <<"report", "finished">>} THEN 1 ELSE 0
SaidOK ==
  \A s \in Stream :
    said[s] = ReportsIn(Log(s)) + (IF producedLast[s] THEN 0 ELSE AboutToSay(queue[s]))

IInv == TypeOK /\ LogOK /\ TaskOK /\ PollOK /\ SaidOK

\* A started transport belongs to a run that has still to stop it, or panicked,
\* unless the call that started it failed for a missing component.
Owned ==
  \A i \in live \ stranded : \E s \in Stream :
    i \in targets[s] /\ (thread[s] = "working" \/ panicked[s])

-----------------------------------------------------------------------------
(* The log. *)

LEMMA Concat ==
  ASSUME NEW a \in Seq(Event), NEW b \in Seq(Event)
  PROVE  /\ a \o b \in Seq(Event)
         /\ Len(a \o b) = Len(a) + Len(b)
         /\ Len(a) \in Nat /\ Len(b) \in Nat
         /\ \A i \in 1..Len(a) : (a \o b)[i] = a[i]
         /\ \A i \in 1..Len(b) : (a \o b)[Len(a) + i] = b[i]
<1>1. /\ a \o b \in Seq(Event)
      /\ Len(a \o b) = Len(a) + Len(b)
      /\ \A i \in 1 .. Len(a) + Len(b) :
           (a \o b)[i] = IF i <= Len(a) THEN a[i] ELSE b[i - Len(a)]
  BY ConcatProperties
<1>2. Len(a) \in Nat /\ Len(b) \in Nat
  BY LenProperties
<1>3. \A i \in 1..Len(a) : (a \o b)[i] = a[i]
  BY <1>1, <1>2
<1>4. ASSUME NEW i \in 1..Len(b)
      PROVE  (a \o b)[Len(a) + i] = b[i]
  <2>1. /\ Len(a) + i \in 1 .. Len(a) + Len(b)
        /\ ~(Len(a) + i <= Len(a)) /\ (Len(a) + i) - Len(a) = i
    BY <1>2
  <2>. QED BY <2>1, <1>1
<1>. QED BY <1>1, <1>2, <1>3, <1>4

LEMMA Associative ==
  ASSUME NEW a \in Seq(Event), NEW b \in Seq(Event), NEW c \in Seq(Event)
  PROVE  (a \o b) \o c = a \o (b \o c)
BY ConcatAssociative

\* Three parts in a row, whose only terminal event is the last.
LEMMA Parts ==
  ASSUME NEW r \in Seq(Event), NEW d \in Seq(Event), NEW p \in Seq(Event)
  PROVE  /\ r \o d \in Seq(Event)
         /\ r \o d \o p \in Seq(Event)
         /\ Len(r) \in Nat /\ Len(d) \in Nat /\ Len(p) \in Nat
         /\ Len(r \o d \o p) = Len(r) + Len(d) + Len(p)
         /\ \A i \in 1..Len(r) : (r \o d \o p)[i] = r[i]
         /\ \A i \in 1..Len(p) : (r \o d \o p)[Len(r) + Len(d) + i] = p[i]
<1>. DEFINE a == r \o d
<1>1. /\ a \in Seq(Event)
      /\ Len(a) = Len(r) + Len(d)
      /\ Len(r) \in Nat /\ Len(d) \in Nat
      /\ \A i \in 1..Len(r) : a[i] = r[i]
  BY Concat
<1>. HIDE DEF a
<1>2. /\ a \o p \in Seq(Event)
      /\ Len(a \o p) = Len(a) + Len(p)
      /\ Len(p) \in Nat
      /\ \A i \in 1..Len(a) : (a \o p)[i] = a[i]
      /\ \A i \in 1..Len(p) : (a \o p)[Len(a) + i] = p[i]
  BY <1>1, Concat
<1>3. \A i \in 1..Len(r) : i \in 1..Len(a)
  BY <1>1
<1>. USE DEF a
<1>. QED BY <1>1, <1>2, <1>3

LEMMA TerminalLast ==
  ASSUME NEW r \in Seq(Event), NEW d \in Seq(Event), NEW p \in Seq(Event),
         EndsOnce(r \o d \o p)
  PROVE  /\ Terminated(r) <=> Terminated(r \o d \o p) /\ p = <<>> /\ d = <<>>
         /\ p = <<>> /\ d = <<>> => r \o d \o p = r
         /\ \A i \in 1..Len(p) : p[i].last <=> Terminated(r \o d \o p) /\ i = Len(p)
<1>. DEFINE l == r \o d \o p
<1>0. \A i \in 1..Len(l) : l[i].last => i = Len(l)
  BY DEF EndsOnce
<1>1. /\ l \in Seq(Event)
      /\ Len(r) \in Nat /\ Len(d) \in Nat /\ Len(p) \in Nat
      /\ Len(l) = Len(r) + Len(d) + Len(p)
      /\ \A i \in 1..Len(r) : l[i] = r[i]
      /\ \A i \in 1..Len(p) : l[Len(r) + Len(d) + i] = p[i]
  BY Parts
<1>2. /\ l = <<>> <=> Len(l) = 0
      /\ r = <<>> <=> Len(r) = 0
      /\ d = <<>> <=> Len(d) = 0
      /\ p = <<>> <=> Len(p) = 0
  BY <1>1
<1>3. ASSUME d = <<>>, p = <<>> PROVE l = r
  <2>1. r \o <<>> = r
    BY ConcatEmptySeq
  <2>. QED BY <1>3, <2>1
<1>. HIDE DEF l
<1>4. ASSUME Terminated(r) PROVE Terminated(l) /\ p = <<>> /\ d = <<>>
  <2>1. Len(r) \in 1..Len(r) /\ r[Len(r)].last
    BY <1>4, <1>1, <1>2 DEF Terminated
  <2>2. Len(r) \in 1..Len(l) /\ l[Len(r)].last
    BY <2>1, <1>1
  <2>3. Len(r) = Len(l)
    BY <2>2, <1>0
  <2>. QED BY <2>2, <2>3, <1>1, <1>2 DEF Terminated
<1>5. ASSUME Terminated(l), p = <<>>, d = <<>> PROVE Terminated(r)
  BY <1>5, <1>3
<1>6. ASSUME NEW i \in 1..Len(p)
      PROVE  p[i].last <=> Terminated(l) /\ i = Len(p)
  <2>1. l[Len(r) + Len(d) + i] = p[i]
    BY <1>1
  <2>2. /\ Len(r) \in Nat /\ Len(d) \in Nat /\ Len(p) \in Nat
        /\ Len(l) = Len(r) + Len(d) + Len(p)
    BY <1>1
  <2>3. /\ Len(r) + Len(d) + i \in 1..Len(l)
        /\ Len(r) + Len(d) + i = Len(l) <=> i = Len(p)
        /\ Len(l) # 0
    <3>. DEFINE a == Len(r)
                b == Len(d)
                c == Len(p)
                n == Len(l)
    <3>1. a \in Nat /\ b \in Nat /\ c \in Nat /\ n = a + b + c /\ i \in 1..c
      BY <2>2
    <3>. HIDE DEF a, b, c, n
    <3>2. a + b + i \in 1..n /\ (a + b + i = n <=> i = c) /\ n # 0
      BY <3>1
    <3>. QED BY <3>2 DEF a, b, c, n
  <2>4. p[i].last => Len(r) + Len(d) + i = Len(l)
    BY <2>1, <2>3, <1>0
  <2>. QED BY <2>1, <2>3, <2>4, <1>2 DEF Terminated
<1>. QED BY <1>3, <1>4, <1>5, <1>6 DEF l

\* Who has the terminal event of a stream.
LEMMA LogType ==
  ASSUME TypeOK, NEW s \in Stream
  PROVE  /\ received[s] \in Seq(Event) /\ drained[s] \in Seq(Event)
         /\ pending[s] \in Seq(Event) /\ Log(s) \in Seq(Event)
         /\ Len(Log(s)) = Len(received[s]) + Len(drained[s]) + Len(pending[s])
<1>1. received[s] \in Seq(Event) /\ drained[s] \in Seq(Event) /\ pending[s] \in Seq(Event)
  BY DEF TypeOK
<1>. QED BY <1>1, Parts DEF Log

LEMMA TerminalAt ==
  ASSUME TypeOK, LogOK, NEW s \in Stream
  PROVE  /\ Terminated(received[s]) <=> With(s)
         /\ With(s) => Log(s) = received[s]
         /\ \A i \in 1..Len(pending[s]) :
              pending[s][i].last <=> producedLast[s] /\ i = Len(pending[s])
<1>1. received[s] \in Seq(Event) /\ drained[s] \in Seq(Event) /\ pending[s] \in Seq(Event)
  BY DEF TypeOK
<1>2. EndsOnce(Log(s)) /\ (producedLast[s] <=> Terminated(Log(s)))
  BY DEF LogOK
<1>3. EndsOnce(received[s] \o drained[s] \o pending[s])
  BY <1>2 DEF Log
<1>4. producedLast[s] <=> Terminated(received[s] \o drained[s] \o pending[s])
  BY <1>2 DEF Log
<1>5. Terminated(received[s]) <=>
        Terminated(received[s] \o drained[s] \o pending[s]) /\ pending[s] = <<>> /\ drained[s] = <<>>
  BY <1>1, <1>3, TerminalLast
<1>6. pending[s] = <<>> /\ drained[s] = <<>> =>
        received[s] \o drained[s] \o pending[s] = received[s]
  BY <1>1, <1>3, TerminalLast
<1>7. \A i \in 1..Len(pending[s]) : pending[s][i].last <=>
        Terminated(received[s] \o drained[s] \o pending[s]) /\ i = Len(pending[s])
  BY <1>1, <1>3, TerminalLast
<1>. QED BY <1>4, <1>5, <1>6, <1>7 DEF With, Out, Log

LEMMA ReportsInAppend ==
  ASSUME NEW events \in Seq(Event), NEW e \in Event
  PROVE  /\ ReportsIn(events) \in Nat
         /\ ReportsIn(Append(events, e)) =
              ReportsIn(events) + (IF e.kind = "report" THEN 1 ELSE 0)
<1>. DEFINE n == Len(events)
            R == {i \in 1..n : events[i].kind = "report"}
            longer == Append(events, e)
            Q == {i \in 1..Len(longer) : longer[i].kind = "report"}
<1>1. /\ n \in Nat /\ Len(longer) = n + 1
      /\ \A i \in 1..n : longer[i] = events[i]
      /\ longer[n + 1] = e
  BY AppendProperties, LenProperties
<1>2. IsFiniteSet(1..n)
  BY <1>1, FS_Interval
<1>3. R \in SUBSET (1..n)
  OBVIOUS
<1>4. IsFiniteSet(R) /\ Cardinality(R) \in Nat
  BY <1>2, <1>3, FS_Subset, FS_CardinalityType
<1>5. n + 1 \notin R
  BY <1>1
<1>6. Q = IF e.kind = "report" THEN R \cup {n + 1} ELSE R
  <2>. HIDE DEF n, longer
  <2>1. 1..(n + 1) = (1..n) \cup {n + 1}
    BY <1>1
  <2>2. \A i \in 1..n : (longer[i].kind = "report") <=> (events[i].kind = "report")
    BY <1>1
  <2>3. (longer[n + 1].kind = "report") <=> (e.kind = "report")
    BY <1>1
  <2>4. Q = {i \in (1..n) \cup {n + 1} : longer[i].kind = "report"}
    BY <1>1, <2>1
  <2>. QED BY <2>2, <2>3, <2>4
<1>7. Cardinality(R \cup {n + 1}) = Cardinality(R) + 1
  BY <1>4, <1>5, FS_AddElement
<1>8. ReportsIn(events) = Cardinality(R) /\ ReportsIn(longer) = Cardinality(Q)
  BY DEF ReportsIn
<1>. HIDE DEF R, Q, longer, n
<1>. QED BY <1>4, <1>6, <1>7, <1>8 DEF longer
\* One more event, after no terminal one.
LEMMA LogAppend ==
  ASSUME NEW l \in Seq(Event), NEW e \in Event,
         Numbered(l), EndsOnce(l), ~Terminated(l), e.seq = Len(l) + 1
  PROVE  /\ Append(l, e) \in Seq(Event) /\ Len(Append(l, e)) = Len(l) + 1
         /\ Numbered(Append(l, e)) /\ EndsOnce(Append(l, e))
         /\ Terminated(Append(l, e)) <=> e.last
<1>. DEFINE m == Append(l, e)
<1>1. /\ m \in Seq(Event) /\ m # <<>> /\ Len(l) \in Nat
      /\ Len(m) = Len(l) + 1
      /\ \A i \in 1..Len(l) : m[i] = l[i]
      /\ m[Len(l) + 1] = e
  BY AppendProperties, LenProperties
<1>. HIDE DEF m
<1>2. \A i \in 1..Len(l) : ~l[i].last
  <2>1. l = <<>> <=> Len(l) = 0
    OBVIOUS
  <2>. QED BY <2>1 DEF EndsOnce, Terminated
<1>3. \A i \in 1..Len(m) : i \in 1..Len(l) \/ i = Len(l) + 1
  BY <1>1
<1>4. Numbered(m)
  BY <1>1, <1>3 DEF Numbered
<1>5. EndsOnce(m)
  BY <1>1, <1>2, <1>3 DEF EndsOnce
<1>6. Terminated(m) <=> e.last
  BY <1>1 DEF Terminated
<1>. QED BY <1>1, <1>4, <1>5, <1>6 DEF m

-----------------------------------------------------------------------------
(* An append under way. *)

LEMMA Says ==
  /\ AboutToSay(<<>>) = 0 /\ AboutToSay(<<"event">>) = 0 /\ AboutToSay(<<"finished">>) = 0
  /\ AboutToSay(<<"report">>) = 1 /\ AboutToSay(<<"event", "report">>) = 1
  /\ AboutToSay(<<"report", "finished">>) = 1
BY DEF AboutToSay

LEMMA Pair ==
  ASSUME NEW a \in EventKind, NEW b \in EventKind
  PROVE  <<a>> \o <<b>> = <<a, b>>
<1>1. <<a>> \in Seq(EventKind) /\ <<b>> \in Seq(EventKind) /\ <<a, b>> \in Seq(EventKind)
  OBVIOUS
<1>2. /\ Len(<<a>>) = 1 /\ Len(<<b>>) = 1 /\ Len(<<a, b>>) = 2
      /\ <<a>>[1] = a /\ <<b>>[1] = b /\ <<a, b>>[1] = a /\ <<a, b>>[2] = b
  OBVIOUS
<1>. DEFINE s == <<a>> \o <<b>>
            t == <<a, b>>
<1>3. s \in Seq(EventKind) /\ Len(s) = 2 /\ s[1] = a /\ s[2] = b
  BY <1>1, <1>2, ConcatProperties
<1>4. t \in Seq(EventKind) /\ Len(t) = 2 /\ t[1] = a /\ t[2] = b
  BY <1>1, <1>2
<1>. HIDE DEF s, t
<1>5. \A i \in 1..2 : i = 1 \/ i = 2
  OBVIOUS
<1>6. \A i \in 1..Len(s) : s[i] = t[i]
  BY <1>3, <1>4, <1>5
<1>7. s = t
  BY <1>3, <1>4, <1>6, SeqEqual
<1>. QED BY <1>7 DEF s, t

LEMMA Queues ==
  /\ \A q \in Before \cup Ending : q # <<>> =>
       /\ Head(q) \in EventKind /\ Tail(q) \in Before \cup Ending
       /\ AboutToSay(q) = AboutToSay(Tail(q)) + (IF Head(q) = "report" THEN 1 ELSE 0)
  /\ \A q \in Before : q # <<>> => Head(q) # "finished" /\ Tail(q) \in Before
  /\ AboutToSay(<<>>) = 0 /\ \A q \in Before \cup Ending : AboutToSay(q) \in {0, 1}
<1>1. \A q \in Before \cup Ending :
        q \in {<<>>, <<"event">>, <<"event", "report">>, <<"report">>,
              <<"finished">>, <<"report", "finished">>}
  BY DEF Before, Ending
<1>2. /\ Head(<<"event">>) = "event" /\ Tail(<<"event">>) = <<>>
      /\ Head(<<"report">>) = "report" /\ Tail(<<"report">>) = <<>>
      /\ Head(<<"finished">>) = "finished" /\ Tail(<<"finished">>) = <<>>
      /\ Head(<<"event", "report">>) = "event" /\ Tail(<<"event", "report">>) = <<"report">>
      /\ Head(<<"report", "finished">>) = "report" /\ Tail(<<"report", "finished">>) = <<"finished">>
  OBVIOUS
<1>. QED BY <1>1, <1>2, Says DEF Before, Ending, EventKind

LEMMA EndingQueue ==
  ASSUME NEW q \in Ending
  PROVE  /\ q # <<>> /\ Tail(q) \in Ending \cup {<<>>}
         /\ Tail(q) = <<>> <=> Head(q) = "finished"
<1>1. CASE q = <<"finished">>
  BY <1>1 DEF Ending
<1>2. CASE q = <<"report", "finished">>
  BY <1>2 DEF Ending
<1>. QED BY <1>1, <1>2 DEF Ending

LEMMA Appending ==
  ASSUME TypeOK, NEW s \in Stream, NEW kind \in {"event", "finished"}, StartAppend(s, kind)
  PROVE  /\ queue[s] = <<>>
         /\ queue' = [queue EXCEPT ![s] = queue'[s]]
         /\ queue'[s] \in IF kind = "finished" THEN Ending ELSE Before \ {<<>>}
         /\ queue' \in [Stream -> Seq(EventKind)]
         /\ said' \in [Stream -> Nat]
         /\ said' = [said EXCEPT ![s] = IF producedLast[s] THEN @ ELSE @ + AboutToSay(queue'[s])]
<1>1. PICK follow \in {<<>>, <<"report">>} :
        /\ queue[s] = <<>>
        /\ queue' = [queue EXCEPT ![s] = IF kind = "finished" THEN follow \o <<kind>>
                                                             ELSE <<kind>> \o follow]
        /\ said' = [said EXCEPT ![s] = IF producedLast[s] THEN @ ELSE @ + Len(follow)]
  BY DEF StartAppend
<1>2. queue \in [Stream -> Seq(EventKind)] /\ said \in [Stream -> Nat] /\ said[s] \in Nat
  BY DEF TypeOK
<1>3. /\ <<>> \o <<"finished">> = <<"finished">>
      /\ <<"event">> \o <<>> = <<"event">>
  OBVIOUS
<1>4. /\ <<"report">> \o <<"finished">> = <<"report", "finished">>
      /\ <<"event">> \o <<"report">> = <<"event", "report">>
  BY Pair DEF EventKind
<1>5. Len(<<>>) = 0 /\ Len(<<"report">>) = 1
  OBVIOUS
<1>6. ASSUME kind = "finished", NEW q, q = follow \o <<kind>>
      PROVE  q \in Ending /\ AboutToSay(q) = Len(follow) /\ q \in Seq(EventKind)
  <2>1. CASE follow = <<>>
    <3>1. q = <<"finished">>
      BY <1>6, <2>1, <1>3
    <3>. QED BY <2>1, <3>1, <1>5, Says DEF Ending, EventKind
  <2>2. CASE follow = <<"report">>
    <3>1. q = <<"report", "finished">>
      BY <1>6, <2>2, <1>4
    <3>. QED BY <2>2, <3>1, <1>5, Says DEF Ending, EventKind
  <2>. QED BY <2>1, <2>2
<1>7. ASSUME kind = "event", NEW q, q = <<kind>> \o follow
      PROVE  q \in Before \ {<<>>} /\ AboutToSay(q) = Len(follow) /\ q \in Seq(EventKind)
  <2>1. CASE follow = <<>>
    <3>1. q = <<"event">>
      BY <1>7, <2>1, <1>3
    <3>. QED BY <2>1, <3>1, <1>5, Says DEF Before, EventKind
  <2>2. CASE follow = <<"report">>
    <3>1. q = <<"event", "report">>
      BY <1>7, <2>2, <1>4
    <3>. QED BY <2>2, <3>1, <1>5, Says DEF Before, EventKind
  <2>. QED BY <2>1, <2>2
<1>8. queue'[s] = IF kind = "finished" THEN follow \o <<kind>> ELSE <<kind>> \o follow
  BY <1>1, <1>2
<1>9. /\ kind = "finished" => queue'[s] \in Ending
      /\ kind # "finished" => queue'[s] \in Before \ {<<>>}
      /\ AboutToSay(queue'[s]) = Len(follow)
      /\ queue'[s] \in Seq(EventKind)
  BY <1>6, <1>7, <1>8
<1>10. said' \in [Stream -> Nat]
  BY <1>1, <1>2, <1>5
<1>. QED BY <1>1, <1>2, <1>9, <1>10

-----------------------------------------------------------------------------
(* The types. *)

LEMMA InitType == Init => TypeOK
<1>. SUFFICES ASSUME Init PROVE TypeOK
  OBVIOUS
<1>1. <<>> \in Seq(Event) /\ <<>> \in Seq(EventKind) /\ <<>> \in Seq(Stream) /\ Len(<<>>) = 0
  OBVIOUS
<1>2. 1 \in 1..(MaxStreams + 1) /\ 1 \in 1..(MaxInstances + 1) /\ 0 \in 0..MaxEmits
      /\ BUFFER_CAP \in Nat /\ 0 <= BUFFER_CAP
  BY StreamBounds
<1>3. \A s \in Stream : Len(pending[s]) <= BUFFER_CAP
  BY <1>1, <1>2 DEF Init
<1>4. /\ nextStream \in 1..(MaxStreams + 1) /\ nextInstance \in 1..(MaxInstances + 1)
      /\ registered \subseteq Stream /\ shutDown \in BOOLEAN
      /\ work \in [Stream -> {"none", "verification", "publication"}]
      /\ observed \in [Stream -> BOOLEAN]
      /\ targets \in [Stream -> SUBSET Instance]
      /\ live \subseteq Instance /\ stranded \subseteq Instance
      /\ thread \in [Stream -> {"none", "working", "stopped", "finishing", "ended"}]
      /\ emits \in [Stream -> 0..MaxEmits]
  BY <1>2 DEF Init
<1>7. queue \in [Stream -> Seq(EventKind)]
  <2>1. queue = [s \in Stream |-> <<>>]
    BY DEF Init
  <2>. QED BY <1>1, <2>1
<1>5. /\ panicked \in [Stream -> BOOLEAN] /\ nextSeq \in [Stream -> Nat]
      /\ producedLast \in [Stream -> BOOLEAN] /\ deliveredLast \in [Stream -> BOOLEAN]
      /\ pc \in {"idle", "draining", "waiting", "joining"}
  BY DEF Init
<1>8. pending \in [Stream -> Seq(Event)]
  <2>1. pending = [s \in Stream |-> <<>>]
    BY DEF Init
  <2>. QED BY <1>1, <2>1
<1>9. names \in Seq(Stream) /\ at \in Nat \ {0} /\ room \in Nat /\ wait \in BOOLEAN
  <2>1. names = <<>> /\ at = 1 /\ room = 0 /\ wait = FALSE
    BY DEF Init
  <2>2. wait \in BOOLEAN
    BY <2>1
  <2>. QED BY <1>1, <2>1, <2>2
<1>6. /\ drained \in [Stream -> Seq(Event)] /\ joining \subseteq Stream
      /\ received \in [Stream -> Seq(Event)] /\ said \in [Stream -> Nat]
  BY <1>1 DEF Init
<1>. QED BY <1>3, <1>4, <1>5, <1>6, <1>7, <1>8, <1>9 DEF TypeOK

LEMMA HeadEvent ==
  ASSUME TypeOK, NEW s \in Stream, queue[s] # <<>>
  PROVE  /\ NextEvent(s) \in Event
         /\ NextEvent(s).seq = nextSeq[s] + 1
         /\ NextEvent(s).kind = Head(queue[s])
         /\ NextEvent(s).last = (Head(queue[s]) = "finished")
         /\ Tail(queue[s]) \in Seq(EventKind)
<1>1. queue[s] \in Seq(EventKind) /\ nextSeq[s] \in Nat
  BY DEF TypeOK
<1>2. Head(queue[s]) \in EventKind /\ Tail(queue[s]) \in Seq(EventKind)
  BY <1>1, HeadTailProperties
<1>3. NextEvent(s) = [seq |-> nextSeq[s] + 1, kind |-> Head(queue[s]),
                     last |-> Head(queue[s]) = "finished"]
  BY DEF NextEvent
<1>4. nextSeq[s] + 1 \in Nat /\ (Head(queue[s]) = "finished") \in BOOLEAN
  BY <1>1
<1>5. NextEvent(s) \in Event
  BY <1>2, <1>3, <1>4 DEF Event
<1>6. /\ NextEvent(s).seq = nextSeq[s] + 1
      /\ NextEvent(s).kind = Head(queue[s])
      /\ NextEvent(s).last = (Head(queue[s]) = "finished")
  BY <1>3
<1>. QED BY <1>2, <1>5, <1>6

\* What one poll takes from a buffer.
LEMMA SubSeqs ==
  ASSUME NEW p \in Seq(Event), NEW n \in 0..Len(p)
  PROVE  /\ SubSeq(p, 1, n) \in Seq(Event) /\ SubSeq(p, n + 1, Len(p)) \in Seq(Event)
         /\ Len(SubSeq(p, 1, n)) = n /\ Len(SubSeq(p, n + 1, Len(p))) = Len(p) - n
         /\ SubSeq(p, 1, n) \o SubSeq(p, n + 1, Len(p)) = p
<1>1. Len(p) \in Nat /\ \A i \in 1..Len(p) : p[i] \in Event
  BY LenProperties, ElementOfSeq
<1>2. SubSeq(p, 1, n) \in Seq(Event) /\ Len(SubSeq(p, 1, n)) = n
  <2>1. \A i \in 1..n : p[i] \in Event
    BY <1>1
  <2>. QED BY <1>1, <2>1, SubSeqProperties
<1>3. /\ SubSeq(p, n + 1, Len(p)) \in Seq(Event)
      /\ Len(SubSeq(p, n + 1, Len(p))) = Len(p) - n
  <2>1. \A i \in (n + 1)..Len(p) : p[i] \in Event
    BY <1>1
  <2>. QED BY <1>1, <2>1, SubSeqProperties
<1>4. SubSeq(p, 1, n) \o SubSeq(p, n + 1, Len(p)) = p
  <2>1. 1 \in 1 .. Len(p) + 1 /\ n \in 1 - 1 .. Len(p) /\ Len(p) \in n .. Len(p)
    BY <1>1
  <2>2. SubSeq(p, 1, n) \o SubSeq(p, n + 1, Len(p)) = SubSeq(p, 1, Len(p))
    BY <2>1, ConcatAdjacentSubSeq
  <2>. QED BY <2>2, SubSeqFull
<1>. QED BY <1>2, <1>3, <1>4

LEMMA Taking ==
  ASSUME NEW d \in Seq(Event), NEW p \in Seq(Event), NEW n \in 0..Len(p)
  PROVE  /\ d \o SubSeq(p, 1, n) \in Seq(Event)
         /\ SubSeq(p, n + 1, Len(p)) \in Seq(Event)
         /\ Len(SubSeq(p, n + 1, Len(p))) = Len(p) - n
         /\ n = 0 => d \o SubSeq(p, 1, n) = d /\ SubSeq(p, n + 1, Len(p)) = p
         /\ n # 0 => d \o SubSeq(p, 1, n) # <<>>
<1>. DEFINE a == SubSeq(p, 1, n)
            b == SubSeq(p, n + 1, Len(p))
<1>1. /\ a \in Seq(Event) /\ Len(a) = n /\ b \in Seq(Event) /\ Len(b) = Len(p) - n
      /\ a \o b = p /\ Len(p) \in Nat
  BY SubSeqs, LenProperties
<1>. HIDE DEF a, b
<1>2. d \o a \in Seq(Event)
  BY <1>1, Concat
<1>3. /\ a = <<>> <=> n = 0
      /\ b = <<>> <=> n = Len(p)
  BY <1>1, EmptySeq
<1>4. n = 0 => d \o a = d /\ b = p
  <2>1. ASSUME n = 0 PROVE d \o a = d /\ b = p
    <3>1. a = <<>>
      BY <2>1, <1>3
    <3>2. b = p
      BY <3>1, <1>1, ConcatEmptySeq
    <3>3. d \o a = d
      BY <3>1, ConcatEmptySeq
    <3>. QED BY <3>2, <3>3
  <2>. QED BY <2>1
<1>5. n # 0 => d \o a # <<>>
  BY <1>1, <1>3, ConcatEqualIffEmpty
<1>. QED BY <1>1, <1>2, <1>3, <1>4, <1>5 DEF a, b

LEMMA TakingAll ==
  ASSUME NEW p \in Seq(Event), NEW n \in 0..Len(p)
  PROVE  /\ SubSeq(p, n + 1, Len(p)) = <<>> => n = Len(p)
         /\ n = Len(p) => SubSeq(p, n + 1, Len(p)) = <<>>
<1>. DEFINE b == SubSeq(p, n + 1, Len(p))
<1>1. b \in Seq(Event) /\ Len(b) = Len(p) - n /\ Len(p) \in Nat
  BY SubSeqs, LenProperties
<1>. HIDE DEF b
<1>2. /\ b = <<>> => n = Len(p)
      /\ n = Len(p) => b = <<>>
  BY <1>1, EmptySeq
<1>. QED BY <1>2 DEF b

KeepsLog(r, d, p, n) ==
  (r \o (d \o SubSeq(p, 1, n))) \o SubSeq(p, n + 1, Len(p)) = (r \o d) \o p

LEMMA TakingKeepsLog ==
  ASSUME NEW r \in Seq(Event), NEW d \in Seq(Event), NEW p \in Seq(Event), NEW n \in 0..Len(p)
  PROVE  KeepsLog(r, d, p, n)
<1>. DEFINE a == SubSeq(p, 1, n)
            b == SubSeq(p, n + 1, Len(p))
<1>1. a \in Seq(Event) /\ b \in Seq(Event) /\ a \o b = p
  BY SubSeqs
<1>. HIDE DEF a, b
<1>2. d \o a \in Seq(Event)
  BY <1>1, Concat
<1>3. (r \o (d \o a)) \o b = r \o ((d \o a) \o b)
  <2>. DEFINE e == d \o a
  <2>1. e \in Seq(Event) /\ b \in Seq(Event)
    BY <1>1, <1>2
  <2>. HIDE DEF e
  <2>2. (r \o e) \o b = r \o (e \o b)
    BY <2>1, Associative
  <2>. QED BY <2>2 DEF e
<1>4. (d \o a) \o b = d \o p
  BY <1>1, Associative
<1>5. (r \o d) \o p = r \o (d \o p)
  BY Associative
<1>6. (r \o (d \o a)) \o b = (r \o d) \o p
  BY <1>3, <1>4, <1>5
<1>. QED BY <1>6 DEF a, b, KeepsLog

\* PollDrain takes from the next stream as much as the answer has room for.
LEMMA DrainTakes ==
  ASSUME TypeOK, PollDrain
  PROVE  \E s \in Stream : \E n \in 0..Len(pending[s]) : Drain(s, n) /\ room' = room - n /\ n <= room
<1>. DEFINE s == names[at]
            n == Least(room, Len(pending[s]))
<1>1. /\ at \in Nat \ {0} /\ room \in Nat /\ names \in Seq(Stream)
      /\ pending \in [Stream -> Seq(Event)] /\ at <= Len(names)
      /\ Drain(s, n) /\ room' = room - n
  BY DEF TypeOK, PollDrain
<1>2. s \in Stream
  <2>1. at \in 1..Len(names)
    BY <1>1, LenProperties
  <2>. QED BY <2>1, <1>1, ElementOfSeq
<1>. HIDE DEF s
<1>3. Len(pending[s]) \in Nat
  <2>1. pending[s] \in Seq(Event)
    BY <1>1, <1>2
  <2>. QED BY <2>1, LenProperties
<1>. DEFINE l == Len(pending[s])
<1>4. l \in Nat
  BY <1>3
<1>. HIDE DEF l
<1>5. Least(room, l) \in 0..l /\ Least(room, l) <= room
  BY <1>1, <1>4 DEF Least
<1>6. n \in 0..Len(pending[s]) /\ n <= room
  BY <1>5 DEF l
<1>. HIDE DEF n
<1>. QED BY <1>1, <1>2, <1>6

LEMMA Opens ==
  ASSUME TypeOK, NEW kind \in {"verification", "publication"}, NEW report \in BOOLEAN,
         NEW bindings \in SUBSET Instance, Open(kind, report, bindings)
  PROVE  /\ nextStream \in Stream /\ nextStream' \in 1..(MaxStreams + 1)
         /\ registered' \subseteq Stream
         /\ work' \in [Stream -> {"none", "verification", "publication"}]
         /\ observed' \in [Stream -> BOOLEAN]
         /\ targets' \in [Stream -> SUBSET Instance]
         /\ thread' \in [Stream -> {"none", "working", "stopped", "finishing", "ended"}]
<1>1. nextStream \in Stream /\ nextStream' = nextStream + 1
  BY DEF Open
<1>2. nextStream' \in 1..(MaxStreams + 1)
  BY <1>1, StreamBounds DEF Stream
<1>. QED BY <1>1, <1>2 DEF Open, TypeOK

LEMMA TypeOKStep == TypeOK /\ [Next]_vars => TypeOK'
<1>. SUFFICES ASSUME TypeOK, [Next]_vars PROVE TypeOK'
  OBVIOUS
<1>. USE DEF engineVars, taskVars, transportVars, bufferVars, pollVars
<1>0. /\ <<>> \in Seq(Event) /\ <<>> \in Seq(EventKind) /\ <<>> \in Seq(Stream)
      /\ Maxima \subseteq Nat /\ Bindings \subseteq Nat /\ Reports \subseteq BOOLEAN
      /\ Lists \subseteq Seq(Stream)
  BY HostChoices
<1>1. ASSUME NEW n \in Bindings, NEW report \in Reports, NEW outcome \in Outcomes,
             Verify(n, report, outcome)
      PROVE  TypeOK'
  <2>. DEFINE mine == nextInstance..(nextInstance + n - 1)
  <2>1. /\ nextInstance' = nextInstance + n /\ nextInstance + n <= MaxInstances + 1
        /\ live' = IF outcome \in {"started", "component missing"} THEN live \cup mine ELSE live
        /\ stranded' = IF outcome = "component missing" THEN stranded \cup mine ELSE stranded
    BY <1>1 DEF Verify
  <2>2. nextInstance \in 1..(MaxInstances + 1) /\ n \in Nat /\ MaxInstances \in Nat
    BY <1>0, StreamBounds DEF TypeOK
  <2>3. mine \subseteq Instance /\ nextInstance' \in 1..(MaxInstances + 1)
    <3>. DEFINE a == nextInstance
                b == MaxInstances
    <3>1. a \in 1..(b + 1) /\ n \in Nat /\ b \in Nat /\ a + n <= b + 1
      BY <2>1, <2>2
    <3>. HIDE DEF a, b
    <3>2. a + n \in 1..(b + 1) /\ a..(a + n - 1) \subseteq 1..b
      BY <3>1
    <3>. QED BY <2>1, <3>2 DEF Instance, a, b
  <2>. HIDE DEF mine
  <2>4. live' \subseteq Instance /\ stranded' \subseteq Instance
    BY <2>1, <2>3 DEF TypeOK
  <2>5. /\ nextStream' \in 1..(MaxStreams + 1)
        /\ registered' \subseteq Stream
        /\ work' \in [Stream -> {"none", "verification", "publication"}]
        /\ observed' \in [Stream -> BOOLEAN]
        /\ targets' \in [Stream -> SUBSET Instance]
        /\ thread' \in [Stream -> {"none", "working", "stopped", "finishing", "ended"}]
    <3>1. CASE outcome = "started"
      <4>1. Open("verification", report, mine) /\ report \in BOOLEAN
        BY <1>1, <1>0, <3>1 DEF Verify, mine
      <4>. QED BY <4>1, <2>3, Opens
    <3>2. CASE outcome = "unspawned"
      <4>1. nextStream \in Stream /\ nextStream' = nextStream + 1
            /\ UNCHANGED <<registered, work, observed, targets, thread>>
        BY <1>1, <3>2 DEF Verify
      <4>2. nextStream' \in 1..(MaxStreams + 1)
        BY <4>1, StreamBounds DEF Stream
      <4>. QED BY <4>1, <4>2 DEF TypeOK
    <3>3. CASE outcome \notin {"started", "unspawned"}
      <4>1. UNCHANGED <<nextStream, registered, work, observed, targets, thread>>
        BY <1>1, <3>3 DEF Verify
      <4>. QED BY <4>1 DEF TypeOK
    <3>. QED BY <3>1, <3>2, <3>3
  <2>6. UNCHANGED <<shutDown, emits, queue, panicked, bufferVars, pollVars, received, said>>
    BY <1>1 DEF Verify
  <2>. QED BY <2>3, <2>4, <2>5, <2>6 DEF TypeOK
<1>2. CASE PublishContracts
  <2>1. Open("publication", FALSE, {})
    BY <1>2 DEF PublishContracts
  <2>2. /\ nextStream' \in 1..(MaxStreams + 1)
        /\ registered' \subseteq Stream
        /\ work' \in [Stream -> {"none", "verification", "publication"}]
        /\ observed' \in [Stream -> BOOLEAN]
        /\ targets' \in [Stream -> SUBSET Instance]
        /\ thread' \in [Stream -> {"none", "working", "stopped", "finishing", "ended"}]
    <3>1. {} \in SUBSET Instance /\ FALSE \in BOOLEAN
      OBVIOUS
    <3>. QED BY <2>1, <3>1, Opens
  <2>. QED BY <1>2, <2>2 DEF TypeOK, PublishContracts
<1>3. CASE Shutdown
  BY <1>3 DEF TypeOK, Shutdown
<1>4. ASSUME NEW list \in Lists, NEW max \in Maxima, NEW mayWait \in BOOLEAN,
             PollStart(list, max, mayWait)
      PROVE  TypeOK'
  <2>1. PollMax(max) \in Nat
    BY <1>0, StreamBounds DEF PollMax, Least
  <2>2. /\ pc' \in {"idle", "draining", "waiting", "joining"}
        /\ names' \in Seq(Stream) /\ at' \in Nat \ {0} /\ room' \in Nat
        /\ wait' \in BOOLEAN /\ drained' \in [Stream -> Seq(Event)]
    BY <1>4, <1>0, <2>1 DEF PollStart
  <2>. QED BY <1>4, <2>2 DEF TypeOK, PollStart
<1>5. CASE PollDrain
  <2>1. PICK s \in Stream : \E k \in 0..Len(pending[s]) :
          Drain(s, k) /\ room' = room - k /\ k <= room
    BY <1>5, DrainTakes
  <2>2. PICK n \in 0..Len(pending[s]) :
          Drain(s, n) /\ room' = room - n /\ n <= room
    BY <2>1
  <2>3. /\ drained \in [Stream -> Seq(Event)] /\ pending \in [Stream -> Seq(Event)]
        /\ \A t \in Stream : Len(pending[t]) <= BUFFER_CAP
        /\ at \in Nat \ {0} /\ room \in Nat /\ deliveredLast \in [Stream -> BOOLEAN]
    BY DEF TypeOK
  <2>4. drained[s] \in Seq(Event) /\ pending[s] \in Seq(Event)
    BY <2>3
  <2>5. /\ drained[s] \o SubSeq(pending[s], 1, n) \in Seq(Event)
        /\ SubSeq(pending[s], n + 1, Len(pending[s])) \in Seq(Event)
        /\ Len(SubSeq(pending[s], n + 1, Len(pending[s]))) = Len(pending[s]) - n
    BY <2>4, Taking
  <2>6. drained' \in [Stream -> Seq(Event)] /\ pending' \in [Stream -> Seq(Event)]
        /\ deliveredLast' \in [Stream -> BOOLEAN]
    BY <2>2, <2>3, <2>5 DEF Drain
  <2>7. \A t \in Stream : Len(pending'[t]) <= BUFFER_CAP
    <3>1. Len(pending[s]) \in Nat /\ Len(pending[s]) <= BUFFER_CAP
      BY <2>3, <2>4, LenProperties
    <3>. DEFINE l == Len(pending[s])
    <3>2. l \in Nat /\ l <= BUFFER_CAP /\ n \in 0..l /\ BUFFER_CAP \in Nat
      BY <3>1, StreamBounds
    <3>. HIDE DEF l
    <3>3. l - n <= BUFFER_CAP
      BY <3>2
    <3>4. Len(pending'[s]) <= BUFFER_CAP
      BY <2>2, <2>3, <2>5, <3>3 DEF Drain, l
    <3>5. \A t \in Stream \ {s} : pending'[t] = pending[t]
      BY <2>2, <2>3 DEF Drain
    <3>. QED BY <2>3, <3>4, <3>5
  <2>8. room' \in Nat
    BY <2>2, <2>3
  <2>9. at' \in Nat \ {0} /\ UNCHANGED <<engineVars, taskVars, transportVars, nextSeq, producedLast, pc, names,
                                       wait, joining, received, said>>
    BY <1>5, <2>3 DEF PollDrain
  <2>. QED BY <2>6, <2>7, <2>8, <2>9 DEF TypeOK
<1>6. CASE PollWait \/ PollWake \/ PollTimeout
  <2>1. CASE PollWait
    BY <2>1 DEF TypeOK, PollWait
  <2>2. CASE Again
    BY <2>2 DEF TypeOK, Again
  <2>. QED BY <1>6, <2>1, <2>2 DEF PollWake, PollTimeout
<1>7. CASE PollPrune
  <2>1. /\ pc' \in {"idle", "draining", "waiting", "joining"}
        /\ joining' \subseteq Stream /\ registered' \subseteq Stream
        /\ names' \in Seq(Stream) /\ at' \in Nat \ {0} /\ room' \in Nat /\ wait' \in BOOLEAN
    <3>1. joining' \subseteq Stream /\ registered' \subseteq Stream
      BY <1>7 DEF TypeOK, PollPrune
    <3>2. pc' = "joining" /\ names' = <<>> /\ at' = 1 /\ room' = 0 /\ wait' = FALSE
      BY <1>7 DEF PollPrune
    <3>3. names' \in Seq(Stream)
      BY <1>0, <3>2
    <3>4. /\ pc' \in {"idle", "draining", "waiting", "joining"}
          /\ at' \in Nat \ {0} /\ room' \in Nat
      BY <3>2
    <3>5. wait' \in BOOLEAN
      BY <3>2
    <3>. QED BY <3>1, <3>3, <3>4, <3>5
  <2>. QED BY <1>7, <2>1 DEF TypeOK, PollPrune
<1>8. CASE PollAnswer
  <2>1. received \in [Stream -> Seq(Event)] /\ drained \in [Stream -> Seq(Event)]
    BY DEF TypeOK
  <2>2. \A s \in Stream : received[s] \o drained[s] \in Seq(Event)
    BY <2>1, Concat
  <2>3. received' \in [Stream -> Seq(Event)] /\ drained' \in [Stream -> Seq(Event)]
    BY <1>8, <1>0, <2>2 DEF PollAnswer
  <2>. QED BY <1>8, <2>3 DEF TypeOK, PollAnswer
<1>9. ASSUME NEW s \in Stream, PollJoin(s) PROVE TypeOK'
  BY <1>9 DEF TypeOK, PollJoin
<1>10. ASSUME NEW s \in Stream, Emit(s) PROVE TypeOK'
  <2>1. StartAppend(s, "event")
    BY <1>10 DEF Emit
  <2>2. queue' \in [Stream -> Seq(EventKind)] /\ said' \in [Stream -> Nat]
    BY <2>1, Appending
  <2>3. emits' \in [Stream -> 0..MaxEmits]
    <3>1. emits[s] + 1 \in 0..MaxEmits
      BY <1>10, StreamBounds DEF TypeOK, Emit
    <3>. QED BY <1>10, <3>1 DEF TypeOK, Emit
  <2>. QED BY <1>10, <2>2, <2>3 DEF TypeOK, Emit
<1>11. ASSUME NEW s \in Stream, StopTargets(s) PROVE TypeOK'
  BY <1>11 DEF TypeOK, StopTargets
<1>12. ASSUME NEW s \in Stream, Finish(s) PROVE TypeOK'
  <2>1. StartAppend(s, "finished")
    BY <1>12 DEF Finish
  <2>2. queue' \in [Stream -> Seq(EventKind)] /\ said' \in [Stream -> Nat]
    BY <2>1, Appending
  <2>. QED BY <1>12, <2>2 DEF TypeOK, Finish
<1>13. ASSUME NEW s \in Stream, Panic(s) PROVE TypeOK'
  <2>1. StartAppend(s, "finished")
    BY <1>13 DEF Panic
  <2>2. queue' \in [Stream -> Seq(EventKind)] /\ said' \in [Stream -> Nat]
    BY <2>1, Appending
  <2>. QED BY <1>13, <2>2 DEF TypeOK, Panic
<1>14. ASSUME NEW s \in Stream, Push(s) PROVE TypeOK'
  <2>1. /\ NextEvent(s) \in Event /\ Tail(queue[s]) \in Seq(EventKind)
    BY <1>14, HeadEvent DEF Push
  <2>2. queue' \in [Stream -> Seq(EventKind)]
    BY <1>14, <2>1 DEF TypeOK, Push
  <2>3. CASE producedLast[s]
    BY <1>14, <2>2, <2>3 DEF TypeOK, Push
  <2>4. CASE ~producedLast[s]
    <3>1. /\ pending[s] \in Seq(Event) /\ nextSeq[s] \in Nat /\ BUFFER_CAP \in Nat
          /\ Len(pending[s]) \in Nat /\ Len(pending[s]) < BUFFER_CAP
      BY <1>14, <2>4, StreamBounds, LenProperties DEF TypeOK, Push
    <3>2. /\ Append(pending[s], NextEvent(s)) \in Seq(Event)
          /\ Len(Append(pending[s], NextEvent(s))) = Len(pending[s]) + 1
      BY <2>1, <3>1, AppendProperties
    <3>3. NextEvent(s).last \in BOOLEAN
      BY <2>1 DEF Event
    <3>4. /\ nextSeq' \in [Stream -> Nat] /\ pending' \in [Stream -> Seq(Event)]
          /\ producedLast' \in [Stream -> BOOLEAN]
      <4>1. nextSeq' \in [Stream -> Nat]
        <5>1. nextSeq' = [nextSeq EXCEPT ![s] = nextSeq[s] + 1] /\ nextSeq \in [Stream -> Nat]
          BY <1>14, <2>4 DEF TypeOK, Push
        <5>2. nextSeq[s] + 1 \in Nat
          BY <3>1
        <5>. QED BY <5>1, <5>2
      <4>2. pending' \in [Stream -> Seq(Event)]
        BY <1>14, <2>4, <3>2 DEF TypeOK, Push
      <4>3. producedLast' \in [Stream -> BOOLEAN]
        BY <1>14, <2>4, <3>3 DEF TypeOK, Push
      <4>. QED BY <4>1, <4>2, <4>3
    <3>5. Len(pending[s]) + 1 <= BUFFER_CAP
      <4>. DEFINE l == Len(pending[s])
      <4>1. l \in Nat /\ l < BUFFER_CAP /\ BUFFER_CAP \in Nat
        BY <3>1
      <4>. HIDE DEF l
      <4>2. l + 1 <= BUFFER_CAP
        BY <4>1
      <4>. QED BY <4>2 DEF l
    <3>6. \A t \in Stream : Len(pending'[t]) <= BUFFER_CAP
      BY <1>14, <2>4, <3>2, <3>5 DEF TypeOK, Push
    <3>. QED BY <1>14, <2>2, <3>4, <3>6 DEF TypeOK, Push
  <2>. QED BY <2>3, <2>4
<1>15. ASSUME NEW s \in Stream, EndTask(s) PROVE TypeOK'
  BY <1>15 DEF TypeOK, EndTask
<1>16. CASE UNCHANGED vars
  BY <1>16 DEF TypeOK, vars
<1>. QED
  BY <1>1, <1>2, <1>3, <1>4, <1>5, <1>6, <1>7, <1>8, <1>9, <1>10, <1>11,
     <1>12, <1>13, <1>14, <1>15, <1>16
  DEF Next, Poll, Task, Over

-----------------------------------------------------------------------------
(* A step moves events along a log, or pushes one more. *)

LEMMA AppendToLast ==
  ASSUME NEW a \in Seq(Event), NEW p \in Seq(Event), NEW e \in Event
  PROVE  a \o Append(p, e) = Append(a \o p, e)
<1>1. <<e>> \in Seq(Event) /\ a \o p \in Seq(Event)
  BY Concat
<1>2. Append(p, e) = p \o <<e>>
  BY AppendIsConcat
<1>3. Append(a \o p, e) = (a \o p) \o <<e>>
  BY <1>1, AppendIsConcat
<1>4. (a \o p) \o <<e>> = a \o (p \o <<e>>)
  BY <1>1, ConcatAssociative
<1>. QED BY <1>2, <1>3, <1>4

LEMMA Moves ==
  ASSUME TypeOK, PollOK, [Next]_vars, NEW s \in Stream
  PROVE  \/ /\ Log(s)' = Log(s) /\ nextSeq'[s] = nextSeq[s]
            /\ producedLast'[s] = producedLast[s]
         \/ /\ Push(s) /\ ~producedLast[s]
            /\ Log(s)' = Append(Log(s), NextEvent(s))
            /\ nextSeq'[s] = nextSeq[s] + 1
            /\ producedLast'[s] = NextEvent(s).last
<1>. DEFINE Kept == /\ Log(s)' = Log(s) /\ nextSeq'[s] = nextSeq[s]
                    /\ producedLast'[s] = producedLast[s]
            Goal == \/ Kept
                    \/ /\ Push(s) /\ ~producedLast[s]
                       /\ Log(s)' = Append(Log(s), NextEvent(s))
                       /\ nextSeq'[s] = nextSeq[s] + 1
                       /\ producedLast'[s] = NextEvent(s).last
<1>. USE DEF engineVars, taskVars, transportVars, bufferVars, pollVars
<1>1. /\ received \in [Stream -> Seq(Event)] /\ drained \in [Stream -> Seq(Event)]
      /\ pending \in [Stream -> Seq(Event)] /\ nextSeq \in [Stream -> Nat]
      /\ producedLast \in [Stream -> BOOLEAN]
  BY DEF TypeOK
<1>2. received[s] \in Seq(Event) /\ drained[s] \in Seq(Event) /\ pending[s] \in Seq(Event)
  BY <1>1
<1>3. received[s] \o drained[s] \in Seq(Event)
  BY <1>2, Concat
<1>4. ASSUME UNCHANGED <<received, drained, bufferVars>> PROVE Goal
  BY <1>4 DEF Log
<1>5. ASSUME NEW t \in Stream, Push(t) PROVE Goal
  <2>1. CASE t = s /\ ~producedLast[s]
    <3>1. NextEvent(s) \in Event
      BY <1>5, <2>1, HeadEvent DEF Push
    <3>2. /\ received' = received /\ drained' = drained
          /\ pending'[s] = Append(pending[s], NextEvent(s))
          /\ nextSeq'[s] = nextSeq[s] + 1
          /\ producedLast'[s] = NextEvent(s).last
      BY <1>1, <1>5, <2>1 DEF Push
    <3>3. Log(s)' = (received[s] \o drained[s]) \o Append(pending[s], NextEvent(s))
      BY <3>2 DEF Log
    <3>4. Log(s)' = Append(Log(s), NextEvent(s))
      BY <1>2, <1>3, <3>1, <3>3, AppendToLast DEF Log
    <3>. QED BY <1>5, <2>1, <3>2, <3>4
  <2>2. CASE t # s \/ producedLast[s]
    <3>1. /\ received' = received /\ drained' = drained
          /\ pending'[s] = pending[s] /\ nextSeq'[s] = nextSeq[s]
          /\ producedLast'[s] = producedLast[s]
      BY <1>1, <1>5, <2>2 DEF Push
    <3>. QED BY <3>1 DEF Log
  <2>. QED BY <2>1, <2>2
<1>6. ASSUME NEW list \in Lists, NEW max \in Maxima, NEW mayWait \in BOOLEAN,
             PollStart(list, max, mayWait)
      PROVE  Goal
  <2>1. drained[s] = <<>> /\ drained'[s] = <<>>
    BY <1>6 DEF PollStart, Dispatch, PollOK
  <2>2. received' = received /\ pending' = pending /\ nextSeq' = nextSeq
        /\ producedLast' = producedLast
    BY <1>6 DEF PollStart
  <2>. QED BY <2>1, <2>2 DEF Log
<1>7. CASE PollDrain
  <2>1. PICK t \in Stream : \E k \in 0..Len(pending[t]) : Drain(t, k)
    BY <1>7, DrainTakes
  <2>2. PICK n \in 0..Len(pending[t]) : Drain(t, n)
    BY <2>1
  <2>3. received' = received /\ nextSeq' = nextSeq /\ producedLast' = producedLast
    BY <1>7 DEF PollDrain
  <2>4. Log(s)' = Log(s)
    <3>1. CASE t = s
      <4>1. /\ drained'[s] = drained[s] \o SubSeq(pending[s], 1, n)
            /\ pending'[s] = SubSeq(pending[s], n + 1, Len(pending[s]))
        BY <1>1, <2>2, <3>1 DEF Drain
      <4>2. n \in 0..Len(pending[s])
        BY <3>1
      <4>3. KeepsLog(received[s], drained[s], pending[s], n)
        BY <1>2, <4>2, TakingKeepsLog
      <4>. QED BY <2>3, <4>1, <4>3 DEF Log, KeepsLog
    <3>2. CASE t # s
      <4>1. drained'[s] = drained[s] /\ pending'[s] = pending[s]
        BY <1>1, <2>2, <3>2 DEF Drain
      <4>. QED BY <2>3, <4>1 DEF Log
    <3>. QED BY <3>1, <3>2
  <2>. QED BY <2>3, <2>4
<1>8. CASE PollAnswer
  <2>1. /\ received'[s] = received[s] \o drained[s] /\ drained'[s] = <<>>
        /\ UNCHANGED bufferVars
    BY <1>8 DEF PollAnswer
  <2>2. (received[s] \o drained[s]) \o <<>> = received[s] \o drained[s]
    BY <1>3, ConcatEmptySeq
  <2>. QED BY <2>1, <2>2 DEF Log
<1>9. UNCHANGED <<received, drained, bufferVars>>
        \/ (\E t \in Stream : Push(t)) \/ PollDrain \/ PollAnswer
        \/ (\E list \in Lists, max \in Maxima, mayWait \in BOOLEAN : PollStart(list, max, mayWait))
  <2>. USE DEF Next, Poll, Task, Over, vars
  <2>1. CASE \E n \in Bindings, report \in Reports, outcome \in Outcomes :
               Verify(n, report, outcome)
    BY <2>1 DEF Verify
  <2>2. CASE PublishContracts \/ Shutdown
    BY <2>2 DEF PublishContracts, Shutdown
  <2>3. CASE PollWait \/ PollWake \/ PollTimeout \/ PollPrune
    BY <2>3 DEF PollWait, PollWake, PollTimeout, PollPrune, Again
  <2>4. CASE \E t \in Stream : PollJoin(t)
    BY <2>4 DEF PollJoin
  <2>5. CASE \E t \in Stream : Emit(t) \/ StopTargets(t) \/ Finish(t) \/ Panic(t) \/ EndTask(t)
    BY <2>5 DEF Emit, StopTargets, Finish, Panic, EndTask
  <2>. QED BY <2>1, <2>2, <2>3, <2>4, <2>5
<1>. QED BY <1>4, <1>5, <1>6, <1>7, <1>8, <1>9

LEMMA LogStep ==
  ASSUME TypeOK, LogOK, PollOK, [Next]_vars
  PROVE  LogOK'
<1>. SUFFICES ASSUME NEW s \in Stream
              PROVE  /\ Len(Log(s)') = nextSeq'[s]
                     /\ Numbered(Log(s)') /\ EndsOnce(Log(s)')
                     /\ producedLast'[s] <=> Terminated(Log(s)')
  BY DEF LogOK, Numbered, EndsOnce, Terminated
<1>1. /\ Len(Log(s)) = nextSeq[s] /\ Numbered(Log(s)) /\ EndsOnce(Log(s))
      /\ producedLast[s] <=> Terminated(Log(s))
  BY DEF LogOK
<1>2. CASE /\ Log(s)' = Log(s) /\ nextSeq'[s] = nextSeq[s]
           /\ producedLast'[s] = producedLast[s]
  BY <1>1, <1>2
<1>3. CASE /\ Push(s) /\ ~producedLast[s]
           /\ Log(s)' = Append(Log(s), NextEvent(s))
           /\ nextSeq'[s] = nextSeq[s] + 1
           /\ producedLast'[s] = NextEvent(s).last
  <2>1. Log(s) \in Seq(Event)
    BY LogType
  <2>2. NextEvent(s) \in Event /\ NextEvent(s).seq = Len(Log(s)) + 1
    BY <1>1, <1>3, HeadEvent DEF Push
  <2>3. /\ Len(Append(Log(s), NextEvent(s))) = Len(Log(s)) + 1
        /\ Numbered(Append(Log(s), NextEvent(s))) /\ EndsOnce(Append(Log(s), NextEvent(s)))
        /\ Terminated(Append(Log(s), NextEvent(s))) <=> NextEvent(s).last
    BY <1>1, <1>3, <2>1, <2>2, LogAppend
  <2>. QED BY <1>1, <1>3, <2>3
<1>. QED BY <1>2, <1>3, Moves

-----------------------------------------------------------------------------
(* Where a task is. *)

LEMMA TaskStep ==
  ASSUME TypeOK, TaskOK, [Next]_vars
  PROVE  TaskOK'
<1>. USE DEF engineVars, taskVars, transportVars, bufferVars, pollVars
<1>. DEFINE At(s) ==
       /\ s >= nextStream => thread[s] = "none"
       /\ thread[s] \in {"none", "working", "stopped"} =>
            ~producedLast[s] /\ queue[s] \in Before
       /\ thread[s] \in {"none", "stopped", "ended"} => queue[s] = <<>>
       /\ thread[s] = "finishing" => queue[s] \in Ending \cup {<<>>}
       /\ thread[s] \in {"finishing", "ended"} /\ queue[s] = <<>> => producedLast[s]
       /\ thread[s] = "none" => ~panicked[s]
       /\ work[s] = "publication" => targets[s] = {}
<1>. SUFFICES ASSUME NEW s \in Stream PROVE At(s)'
  BY DEF TaskOK
<1>0. /\ At(s)
      /\ thread \in [Stream -> {"none", "working", "stopped", "finishing", "ended"}]
      /\ thread[s] \in {"none", "working", "stopped", "finishing", "ended"}
      /\ queue \in [Stream -> Seq(EventKind)] /\ producedLast \in [Stream -> BOOLEAN]
      /\ panicked \in [Stream -> BOOLEAN] /\ targets \in [Stream -> SUBSET Instance]
      /\ work \in [Stream -> {"none", "verification", "publication"}]
      /\ nextStream \in 1..(MaxStreams + 1)
  BY DEF TypeOK, TaskOK
<1>1. ASSUME NEW kind \in {"verification", "publication"}, NEW report \in BOOLEAN,
             NEW bindings \in SUBSET Instance, Open(kind, report, bindings),
             kind = "publication" => bindings = {},
             UNCHANGED <<queue, panicked, producedLast>>
      PROVE  At(s)'
  <2>1. /\ nextStream \in Stream /\ nextStream' = nextStream + 1
        /\ work' = [work EXCEPT ![nextStream] = kind]
        /\ targets' = [targets EXCEPT ![nextStream] = bindings]
        /\ thread' = [thread EXCEPT ![nextStream] = "working"]
    BY <1>1 DEF Open
  <2>2. CASE s = nextStream
    <3>1. thread[s] = "none"
      BY <1>0, <2>2
    <3>2. thread'[s] = "working" /\ work'[s] = kind /\ targets'[s] = bindings /\ ~(s >= nextStream')
      BY <1>0, <2>1, <2>2
    <3>. QED BY <1>0, <1>1, <3>1, <3>2
  <2>3. CASE s # nextStream
    <3>1. thread'[s] = thread[s] /\ work'[s] = work[s] /\ targets'[s] = targets[s]
      BY <1>0, <2>1, <2>3
    <3>2. s >= nextStream' => s >= nextStream
      BY <1>0, <2>1 DEF Stream
    <3>. QED BY <1>0, <1>1, <3>1, <3>2
  <2>. QED BY <2>2, <2>3
<1>2. ASSUME NEW n \in Bindings, NEW report \in Reports, NEW outcome \in Outcomes,
             Verify(n, report, outcome)
      PROVE  At(s)'
  <2>. DEFINE mine == nextInstance..(nextInstance + n - 1)
  <2>1. UNCHANGED <<queue, panicked, producedLast>>
    BY <1>2 DEF Verify
  <2>2. CASE outcome = "started"
    <3>1. Open("verification", report, mine) /\ report \in BOOLEAN
      BY <1>2, <2>2, HostChoices DEF Verify, mine
    <3>2. mine \in SUBSET Instance
      <4>. DEFINE a == nextInstance
                  b == MaxInstances
      <4>1. a \in 1..(b + 1) /\ n \in Nat /\ b \in Nat /\ a + n <= b + 1
        BY <1>2, HostChoices, StreamBounds DEF Verify, TypeOK
      <4>. HIDE DEF a, b
      <4>2. a..(a + n - 1) \subseteq 1..b
        BY <4>1
      <4>. QED BY <4>2 DEF Instance, a, b
    <3>. HIDE DEF mine
    <3>. QED BY <1>1, <2>1, <3>1, <3>2
  <2>3. CASE outcome # "started"
    <3>1. /\ nextStream' = nextStream \/ nextStream' = nextStream + 1
          /\ UNCHANGED <<work, targets, thread>>
      BY <1>2, <2>3 DEF Verify
    <3>2. s >= nextStream' => s >= nextStream
      BY <1>0, <3>1 DEF Stream
    <3>. QED BY <1>0, <2>1, <3>1, <3>2
  <2>. QED BY <2>2, <2>3
<1>3. CASE PublishContracts
  <2>1. Open("publication", FALSE, {}) /\ UNCHANGED <<queue, panicked, producedLast>>
    BY <1>3 DEF PublishContracts
  <2>2. {} \in SUBSET Instance /\ FALSE \in BOOLEAN
    OBVIOUS
  <2>. QED BY <1>1, <2>1, <2>2
<1>4. ASSUME NEW t \in Stream, NEW kind \in {"event", "finished"}, StartAppend(t, kind),
             IF kind = "event" THEN thread[t] = "working" /\ thread' = thread
             ELSE thread' = [thread EXCEPT ![t] = "finishing"],
             panicked'[s] = panicked[s] \/ (s = t /\ kind = "finished"),
             UNCHANGED <<nextStream, work, targets, producedLast>>,
             thread[t] # "none"
      PROVE  At(s)'
  <2>1. /\ queue[t] = <<>> /\ queue' = [queue EXCEPT ![t] = queue'[t]]
        /\ queue'[t] \in IF kind = "finished" THEN Ending ELSE Before \ {<<>>}
    BY <1>4, Appending
  <2>2. CASE s = t
    <3>1. CASE kind = "event"
      BY <1>0, <1>4, <2>1, <2>2, <3>1
    <3>2. CASE kind = "finished"
      <4>1. thread'[s] = "finishing" /\ queue'[s] \in Ending
        BY <1>0, <1>4, <2>1, <2>2, <3>2
      <4>2. queue'[s] # <<>>
        BY <4>1, EndingQueue
      <4>3. ~(s >= nextStream')
        BY <1>0, <1>4, <2>2
      <4>. QED BY <1>0, <1>4, <4>1, <4>2, <4>3
    <3>. QED BY <3>1, <3>2
  <2>3. CASE s # t
    <3>1. thread'[s] = thread[s] /\ queue'[s] = queue[s] /\ panicked'[s] = panicked[s]
      BY <1>0, <1>4, <2>1, <2>3
    <3>. QED BY <1>0, <1>4, <3>1
  <2>. QED BY <2>2, <2>3
<1>5. ASSUME NEW t \in Stream, Emit(t) PROVE At(s)'
  <2>1. /\ StartAppend(t, "event") /\ thread[t] = "working" /\ thread' = thread
        /\ panicked' = panicked /\ UNCHANGED <<nextStream, work, targets, producedLast>>
    BY <1>5 DEF Emit
  <2>. QED BY <2>1, <1>4
<1>6. ASSUME NEW t \in Stream, Finish(t) PROVE At(s)'
  <2>1. /\ StartAppend(t, "finished") /\ thread[t] # "none"
        /\ thread' = [thread EXCEPT ![t] = "finishing"]
        /\ panicked' = panicked /\ UNCHANGED <<nextStream, work, targets, producedLast>>
    BY <1>6 DEF Finish
  <2>. QED BY <2>1, <1>4
<1>7. ASSUME NEW t \in Stream, Panic(t) PROVE At(s)'
  <2>1. /\ StartAppend(t, "finished") /\ thread[t] # "none"
        /\ thread' = [thread EXCEPT ![t] = "finishing"]
        /\ panicked' = [panicked EXCEPT ![t] = TRUE]
        /\ UNCHANGED <<nextStream, work, targets, producedLast>>
    BY <1>7 DEF Panic
  <2>2. panicked'[s] = panicked[s] \/ s = t
    BY <1>0, <2>1
  <2>. QED BY <2>1, <2>2, <1>4
<1>8. ASSUME NEW t \in Stream, Push(t) PROVE At(s)'
  <2>1. /\ queue[t] # <<>> /\ queue' = [queue EXCEPT ![t] = Tail(queue[t])]
        /\ UNCHANGED <<nextStream, work, targets, thread, panicked>>
        /\ IF producedLast[t] THEN producedLast' = producedLast
           ELSE producedLast' = [producedLast EXCEPT ![t] = NextEvent(t).last]
    BY <1>8 DEF Push
  <2>2. CASE s # t
    <3>1. queue'[s] = queue[s] /\ producedLast'[s] = producedLast[s]
      BY <1>0, <2>1, <2>2
    <3>. QED BY <1>0, <2>1, <3>1
  <2>3. CASE s = t
    <3>1. queue'[s] = Tail(queue[s]) /\ (NextEvent(s).last = (Head(queue[s]) = "finished"))
      BY <1>0, <2>1, <2>3, HeadEvent
    <3>2. producedLast'[s] = IF producedLast[s] THEN TRUE ELSE Head(queue[s]) = "finished"
      BY <1>0, <2>1, <2>3, <3>1
    <3>3. CASE thread[s] = "working"
      <4>1. Head(queue[s]) # "finished" /\ Tail(queue[s]) \in Before
        BY <1>0, <2>1, <2>3, <3>3, Queues
      <4>. QED BY <1>0, <2>1, <3>1, <3>2, <3>3, <4>1
    <3>4. CASE thread[s] = "finishing"
      <4>1. queue[s] \in Ending
        BY <1>0, <2>1, <2>3, <3>4
      <4>2. /\ Tail(queue[s]) \in Ending \cup {<<>>}
            /\ Tail(queue[s]) = <<>> <=> Head(queue[s]) = "finished"
        BY <4>1, EndingQueue
      <4>. QED BY <1>0, <2>1, <3>1, <3>2, <3>4, <4>2
    <3>. QED BY <1>0, <2>1, <2>3, <3>3, <3>4
  <2>. QED BY <2>2, <2>3
<1>9. ASSUME NEW t \in Stream, StopTargets(t) PROVE At(s)'
  <2>1. /\ thread[t] = "working" /\ queue[t] = <<>> /\ thread' = [thread EXCEPT ![t] = "stopped"]
        /\ UNCHANGED <<nextStream, work, targets, queue, panicked, producedLast>>
    BY <1>9 DEF StopTargets
  <2>2. thread'[s] = IF s = t THEN "stopped" ELSE thread[s]
    BY <1>0, <2>1
  <2>. QED BY <1>0, <2>1, <2>2
<1>10. ASSUME NEW t \in Stream, EndTask(t) PROVE At(s)'
  <2>1. /\ thread[t] = "finishing" /\ queue[t] = <<>> /\ thread' = [thread EXCEPT ![t] = "ended"]
        /\ UNCHANGED <<nextStream, work, targets, queue, panicked, producedLast>>
    BY <1>10 DEF EndTask
  <2>2. thread'[s] = IF s = t THEN "ended" ELSE thread[s]
    BY <1>0, <2>1
  <2>. QED BY <1>0, <2>1, <2>2
<1>11. ASSUME UNCHANGED <<nextStream, work, targets, thread, queue, panicked, producedLast>>
       PROVE  At(s)'
  BY <1>0, <1>11
<1>12. CASE Shutdown \/ Poll \/ UNCHANGED vars
  <2>1. UNCHANGED <<nextStream, work, targets, thread, queue, panicked, producedLast>>
    BY <1>12 DEF Shutdown, Poll, PollDrain, Drain, PollWait, PollWake, PollTimeout, Again, PollPrune,
       PollJoin, PollAnswer, vars
  <2>. QED BY <2>1, <1>11
<1>13. ASSUME NEW list \in Lists, NEW max \in Maxima, NEW mayWait \in BOOLEAN,
              PollStart(list, max, mayWait)
       PROVE  At(s)'
  BY <1>13, <1>11 DEF PollStart
<1>. QED
  BY <1>2, <1>3, <1>5, <1>6, <1>7, <1>8, <1>9, <1>10, <1>12, <1>13 DEF Next, Task, Over

-----------------------------------------------------------------------------
(* What a poll has forgotten. *)

LEMMA PollStep ==
  ASSUME TypeOK, LogOK, TaskOK, PollOK, [Next]_vars
  PROVE  PollOK'
<1>. USE DEF engineVars, taskVars, transportVars, bufferVars, pollVars
<1>. DEFINE At(s) ==
       /\ deliveredLast[s] <=> Out(s)
       /\ pc = "idle" => drained[s] = <<>>
       /\ ~shutDown => (s \in registered <=> thread[s] # "none" /\ ~Gone(s))
<1>. SUFFICES ASSUME NEW s \in Stream PROVE At(s)'
  BY DEF PollOK
<1>0. /\ At(s)
      /\ thread[s] = "none" => ~producedLast[s]
      /\ thread \in [Stream -> {"none", "working", "stopped", "finishing", "ended"}]
      /\ producedLast \in [Stream -> BOOLEAN] /\ deliveredLast \in [Stream -> BOOLEAN]
      /\ pending \in [Stream -> Seq(Event)] /\ drained \in [Stream -> Seq(Event)]
      /\ registered \subseteq Stream
  BY DEF TypeOK, TaskOK, PollOK
<1>1. ASSUME UNCHANGED <<pc, drained, deliveredLast, pending, producedLast, shutDown, registered>>,
             thread'[s] = "none" <=> thread[s] = "none"
      PROVE  At(s)'
  BY <1>0, <1>1 DEF Out, With, Gone
<1>2. ASSUME NEW kind, NEW report, NEW bindings, Open(kind, report, bindings),
             UNCHANGED <<pc, drained, deliveredLast, pending, producedLast, shutDown>>
      PROVE  At(s)'
  <2>1. /\ nextStream \in Stream /\ registered' = registered \cup {nextStream}
        /\ thread' = [thread EXCEPT ![nextStream] = "working"]
    BY <1>2 DEF Open
  <2>2. CASE s = nextStream
    <3>1. thread[s] = "none"
      <4>1. nextStream >= nextStream
        BY <2>1 DEF Stream
      <4>. QED BY <2>2, <4>1 DEF TaskOK
    <3>2. thread'[s] = "working" /\ s \in registered'
      BY <1>0, <2>1, <2>2
    <3>. QED BY <1>0, <1>2, <3>1, <3>2 DEF Out, With, Gone
  <2>3. CASE s # nextStream
    <3>1. thread'[s] = thread[s] /\ (s \in registered' <=> s \in registered)
      BY <1>0, <2>1, <2>3
    <3>. QED BY <1>0, <1>2, <3>1 DEF Out, With, Gone
  <2>. QED BY <2>2, <2>3
<1>3. ASSUME NEW n \in Bindings, NEW report \in Reports, NEW outcome \in Outcomes,
             Verify(n, report, outcome)
      PROVE  At(s)'
  <2>1. UNCHANGED <<pc, drained, deliveredLast, pending, producedLast, shutDown>>
    BY <1>3 DEF Verify
  <2>2. \/ \E mine : Open("verification", report, mine)
        \/ UNCHANGED <<registered, thread>>
    BY <1>3 DEF Verify
  <2>. QED BY <1>1, <1>2, <2>1, <2>2
<1>4. CASE PublishContracts
  <2>1. Open("publication", FALSE, {})
        /\ UNCHANGED <<pc, drained, deliveredLast, pending, producedLast, shutDown>>
    BY <1>4 DEF PublishContracts
  <2>. QED BY <1>2, <2>1
<1>5. CASE Shutdown
  <2>1. shutDown' /\ UNCHANGED <<pc, drained, deliveredLast, pending, producedLast>>
    BY <1>5 DEF Shutdown
  <2>. QED BY <1>0, <2>1 DEF Out
<1>6. ASSUME NEW t \in Stream, Emit(t) \/ StopTargets(t) \/ Finish(t) \/ Panic(t) \/ EndTask(t)
      PROVE  At(s)'
  <2>1. UNCHANGED <<pc, drained, deliveredLast, pending, producedLast, shutDown, registered>>
    BY <1>6 DEF Emit, StopTargets, Finish, Panic, EndTask
  <2>2. /\ thread[t] # "none"
        /\ thread' = thread \/ \E to \in {"stopped", "finishing", "ended"} :
                                 thread' = [thread EXCEPT ![t] = to]
    BY <1>6 DEF Emit, StopTargets, Finish, Panic, EndTask
  <2>3. thread'[s] = "none" <=> thread[s] = "none"
    BY <1>0, <2>2
  <2>. QED BY <1>1, <2>1, <2>3
<1>7. ASSUME NEW t \in Stream, Push(t) PROVE At(s)'
  <2>1. UNCHANGED <<pc, drained, deliveredLast, shutDown, registered, thread>>
    BY <1>7 DEF Push
  <2>2. CASE s = t /\ ~producedLast[s]
    <3>1. pending'[s] # <<>>
      <4>1. pending'[s] = Append(pending[s], NextEvent(s))
        BY <1>0, <1>7, <2>2 DEF Push
      <4>2. pending[s] \in Seq(Event) /\ NextEvent(s) \in Event
        BY <1>0, <1>7, <2>2, HeadEvent DEF Push
      <4>. QED BY <4>1, <4>2, AppendProperties
    <3>. QED BY <1>0, <2>1, <2>2, <3>1 DEF Out, With, Gone
  <2>3. CASE s # t \/ producedLast[s]
    <3>1. pending'[s] = pending[s] /\ producedLast'[s] = producedLast[s]
      BY <1>0, <1>7, <2>3 DEF Push
    <3>. QED BY <1>0, <2>1, <3>1 DEF Out, With, Gone
  <2>. QED BY <2>2, <2>3
<1>8. ASSUME NEW list \in Lists, NEW max \in Maxima, NEW mayWait \in BOOLEAN,
             PollStart(list, max, mayWait)
      PROVE  At(s)'
  <2>1. /\ pc = "idle" /\ pc' = "draining" /\ drained[s] = <<>> /\ drained'[s] = <<>>
        /\ UNCHANGED <<deliveredLast, pending, producedLast, shutDown, registered, thread>>
    BY <1>0, <1>8 DEF PollStart, Dispatch
  <2>. QED BY <1>0, <2>1 DEF Out, With, Gone
<1>9. CASE PollDrain
  <2>1. PICK t \in Stream : \E k \in 0..Len(pending[t]) : Drain(t, k)
    BY <1>9, DrainTakes
  <2>2. PICK n \in 0..Len(pending[t]) : Drain(t, n)
    BY <2>1
  <2>3. /\ pc = "draining" /\ UNCHANGED <<pc, producedLast, shutDown, registered, thread>>
    BY <1>9 DEF PollDrain
  <2>4. CASE t # s
    <3>1. drained'[s] = drained[s] /\ pending'[s] = pending[s] /\ deliveredLast'[s] = deliveredLast[s]
      BY <1>0, <2>2, <2>4 DEF Drain
    <3>. QED BY <1>0, <2>3, <3>1 DEF Out, With, Gone
  <2>5. CASE t = s
    <3>1. /\ drained'[s] = drained[s] \o SubSeq(pending[s], 1, n)
          /\ pending'[s] = SubSeq(pending[s], n + 1, Len(pending[s]))
          /\ deliveredLast'[s] = (deliveredLast[s] \/ \E i \in 1..n : pending[s][i].last)
      BY <1>0, <2>2, <2>5 DEF Drain
    <3>2. /\ drained[s] \in Seq(Event) /\ pending[s] \in Seq(Event) /\ n \in 0..Len(pending[s])
      BY <1>0, <2>5
    <3>3. /\ n = 0 => drained'[s] = drained[s] /\ pending'[s] = pending[s]
          /\ n # 0 => drained'[s] # <<>>
          /\ pending'[s] = <<>> <=> n = Len(pending[s])
      <4>1. n = 0 => /\ drained[s] \o SubSeq(pending[s], 1, n) = drained[s]
                     /\ SubSeq(pending[s], n + 1, Len(pending[s])) = pending[s]
        BY <3>2, Taking
      <4>2. n # 0 => drained[s] \o SubSeq(pending[s], 1, n) # <<>>
        BY <3>2, Taking
      <4>3. SubSeq(pending[s], n + 1, Len(pending[s])) = <<>> <=> n = Len(pending[s])
        BY <3>2, TakingAll
      <4>. QED BY <3>1, <4>1, <4>2, <4>3
    <3>4. pending[s] = <<>> <=> Len(pending[s]) = 0
      BY <3>2, EmptySeq
    <3>5. \A i \in 1..Len(pending[s]) :
            pending[s][i].last <=> producedLast[s] /\ i = Len(pending[s])
      BY TerminalAt
    <3>6. Len(pending[s]) \in Nat
      BY <3>2, LenProperties
    <3>7. (\E i \in 1..n : pending[s][i].last) <=> producedLast[s] /\ n = Len(pending[s]) /\ n # 0
      <4>. DEFINE l == Len(pending[s])
                  p == pending[s]
      <4>1. l \in Nat /\ n \in 0..l /\ \A i \in 1..l : p[i].last <=> producedLast[s] /\ i = l
        BY <3>2, <3>5, <3>6
      <4>. HIDE DEF l, p
      <4>2. ASSUME NEW i \in 1..n, p[i].last PROVE producedLast[s] /\ n = l /\ n # 0
        BY <4>1, <4>2
      <4>3. ASSUME producedLast[s], n = l, n # 0 PROVE n \in 1..n /\ p[n].last
        BY <4>1, <4>3
      <4>4. (\E i \in 1..n : p[i].last) <=> producedLast[s] /\ n = l /\ n # 0
        BY <4>2, <4>3
      <4>. QED BY <4>4 DEF l, p
    <3>8. deliveredLast'[s] <=> producedLast[s] /\ n = Len(pending[s])
      BY <1>0, <3>1, <3>2, <3>4, <3>7 DEF Out
    <3>9. deliveredLast'[s] <=> Out(s)'
      BY <2>3, <3>3, <3>8 DEF Out
    <3>10. With(s)' <=> With(s)
      <4>1. CASE n = 0
        BY <2>3, <3>3, <4>1 DEF With, Out
      <4>2. CASE n # 0
        <5>1. pending[s] # <<>>
          BY <3>2, <3>4, <4>2
        <5>. QED BY <3>3, <4>2, <5>1 DEF With, Out
      <4>. QED BY <4>1, <4>2
    <3>. QED BY <1>0, <2>3, <3>9, <3>10 DEF Gone
  <2>. QED BY <2>4, <2>5
<1>10. CASE PollWait \/ PollWake \/ PollTimeout
  <2>1. /\ pc \in {"draining", "waiting"} /\ pc' \in {"draining", "waiting"}
        /\ UNCHANGED <<drained, deliveredLast, pending, producedLast, shutDown, registered, thread>>
    BY <1>10 DEF PollWait, PollWake, PollTimeout, Again
  <2>. QED BY <1>0, <2>1 DEF Out, With, Gone
<1>11. CASE PollPrune
  <2>1. /\ pc = "draining" /\ pc' = "joining"
        /\ joining' = {u \in registered : deliveredLast[u]}
        /\ registered' = registered \ joining'
        /\ UNCHANGED <<drained, deliveredLast, pending, producedLast, shutDown, thread>>
    BY <1>11 DEF PollPrune
  <2>2. s \in registered' <=> s \in registered /\ ~deliveredLast[s]
    BY <2>1
  <2>. QED BY <1>0, <2>1, <2>2 DEF Out, With, Gone
<1>12. CASE PollAnswer
  <2>1. /\ pc = "joining" /\ pc' = "idle" /\ drained'[s] = <<>>
        /\ UNCHANGED <<deliveredLast, pending, producedLast, shutDown, registered, thread>>
    BY <1>12 DEF PollAnswer
  <2>. QED BY <1>0, <2>1 DEF Out, With, Gone
<1>13. CASE (\E t \in Stream : PollJoin(t)) \/ UNCHANGED vars
  <2>1. UNCHANGED <<pc, drained, deliveredLast, pending, producedLast, shutDown, registered, thread>>
    BY <1>13 DEF PollJoin, vars
  <2>. QED BY <1>1, <2>1
<1>. QED
  BY <1>3, <1>4, <1>5, <1>6, <1>7, <1>8, <1>9, <1>10, <1>11, <1>12, <1>13
  DEF Next, Poll, Task, Over

-----------------------------------------------------------------------------
(* What the observer said. *)

LEMMA SaidStep ==
  ASSUME IInv, [Next]_vars
  PROVE  SaidOK'
<1>. USE DEF engineVars, taskVars, transportVars, bufferVars, pollVars
<1>. SUFFICES ASSUME NEW s \in Stream
              PROVE  said'[s] = ReportsIn(Log(s)')
                                + (IF producedLast'[s] THEN 0 ELSE AboutToSay(queue'[s]))
  BY DEF SaidOK, ReportsIn
<1>. DEFINE Goal == said'[s] = ReportsIn(Log(s)')
                               + (IF producedLast'[s] THEN 0 ELSE AboutToSay(queue'[s]))
            Kept == Log(s)' = Log(s) /\ producedLast'[s] = producedLast[s]
<1>0. /\ TypeOK /\ LogOK /\ TaskOK /\ PollOK
      /\ said[s] = ReportsIn(Log(s)) + (IF producedLast[s] THEN 0 ELSE AboutToSay(queue[s]))
  BY DEF IInv, SaidOK
<1>1. /\ thread[s] \in {"none", "working", "stopped", "finishing", "ended"}
      /\ queue \in [Stream -> Seq(EventKind)] /\ said \in [Stream -> Nat]
      /\ nextSeq[s] \in Nat /\ nextSeq \in [Stream -> Nat]
  BY <1>0 DEF TypeOK
<1>2. Log(s) \in Seq(Event) /\ ReportsIn(Log(s)) \in Nat
  <2>1. Log(s) \in Seq(Event)
    BY <1>0, LogType
  <2>2. [seq |-> 0, kind |-> "report", last |-> FALSE] \in Event
    BY DEF Event, EventKind
  <2>. QED BY <2>1, <2>2, ReportsInAppend
<1>3. Kept \/ Push(s)
  BY <1>0, Moves
<1>4. ASSUME Kept, said'[s] = said[s], queue'[s] = queue[s] PROVE Goal
  BY <1>0, <1>4
<1>5. ASSUME NEW t \in Stream, NEW kind \in {"event", "finished"}, StartAppend(t, kind), Kept
      PROVE  Goal
  <2>1. /\ queue[t] = <<>> /\ queue' = [queue EXCEPT ![t] = queue'[t]]
        /\ said' = [said EXCEPT ![t] = IF producedLast[t] THEN said[t]
                                       ELSE said[t] + AboutToSay(queue'[t])]
        /\ queue'[t] \in IF kind = "finished" THEN Ending ELSE Before \ {<<>>}
    BY <1>0, <1>5, Appending
  <2>2. CASE s # t
    BY <1>1, <1>4, <1>5, <2>1, <2>2
  <2>3. CASE s = t
    <3>1. AboutToSay(queue[s]) = 0 /\ AboutToSay(queue'[s]) \in Nat
      BY <2>1, <2>3, Queues, Says
    <3>2. said'[s] = IF producedLast[s] THEN said[s] ELSE said[s] + AboutToSay(queue'[s])
      BY <1>1, <2>1, <2>3
    <3>3. said[s] = ReportsIn(Log(s))
      BY <1>0, <1>2, <3>1
    <3>. QED BY <1>2, <1>5, <3>1, <3>2, <3>3
  <2>. QED BY <2>2, <2>3
<1>6. ASSUME NEW t \in Stream, Push(t) PROVE Goal
  <2>1. queue' = [queue EXCEPT ![t] = Tail(queue[t])] /\ said' = said /\ queue[t] # <<>>
    BY <1>6 DEF Push
  <2>2. CASE s # t
    <3>1. queue'[s] = queue[s] /\ nextSeq'[s] = nextSeq[s]
      BY <1>1, <1>6, <2>1, <2>2 DEF Push
    <3>2. Kept
      BY <1>0, <1>1, <3>1, Moves
    <3>. QED BY <1>4, <2>1, <3>1, <3>2
  <2>3. CASE s = t /\ producedLast[s]
    <3>1. Kept
      BY <1>0, <2>3, Moves
    <3>. QED BY <1>0, <2>1, <2>3, <3>1
  <2>4. CASE s = t /\ ~producedLast[s]
    <3>1. nextSeq'[s] = nextSeq[s] + 1
      BY <1>1, <1>6, <2>4 DEF Push
    <3>2. Log(s)' = Append(Log(s), NextEvent(s)) /\ producedLast'[s] = NextEvent(s).last
      BY <1>0, <1>1, <3>1, Moves
    <3>3. /\ NextEvent(s) \in Event /\ NextEvent(s).kind = Head(queue[s])
          /\ NextEvent(s).last = (Head(queue[s]) = "finished")
      BY <1>0, <2>1, <2>4, HeadEvent
    <3>4. ReportsIn(Log(s)') = ReportsIn(Log(s)) + (IF Head(queue[s]) = "report" THEN 1 ELSE 0)
      BY <1>2, <3>2, <3>3, ReportsInAppend
    <3>5. queue[s] \in Before \cup Ending
      BY <1>0, <1>1, <2>1, <2>4 DEF TaskOK
    <3>6. AboutToSay(queue[s]) = AboutToSay(Tail(queue[s]))
                                 + (IF Head(queue[s]) = "report" THEN 1 ELSE 0)
          /\ AboutToSay(Tail(queue[s])) \in {0, 1}
      BY <2>1, <2>4, <3>5, Queues
    <3>7. Head(queue[s]) = "finished" => Tail(queue[s]) = <<>>
      BY <2>1, <2>4, <3>5, Queues, EndingQueue
    <3>8. queue'[s] = Tail(queue[s]) /\ said'[s] = said[s]
      BY <1>1, <2>1, <2>4
    <3>9. CASE Head(queue[s]) = "finished"
      <4>1. AboutToSay(Tail(queue[s])) = 0
        BY <3>7, <3>9, Says
      <4>. QED BY <1>0, <1>2, <2>4, <3>2, <3>3, <3>4, <3>6, <3>8, <3>9, <4>1
    <3>10. CASE Head(queue[s]) # "finished"
      <4>1. ~producedLast'[s]
        BY <3>2, <3>3, <3>10
      <4>2. said[s] = ReportsIn(Log(s)) + AboutToSay(queue[s])
        BY <1>0, <2>4
      <4>. DEFINE r == ReportsIn(Log(s))
                  one == IF Head(queue[s]) = "report" THEN 1 ELSE 0
                  after == AboutToSay(Tail(queue[s]))
      <4>3. /\ r \in Nat /\ after \in Nat /\ one \in Nat /\ said'[s] = r + (after + one)
            /\ ReportsIn(Log(s)') = r + one
        BY <1>2, <3>4, <3>6, <3>8, <4>2
      <4>. HIDE DEF r, one, after
      <4>4. said'[s] = ReportsIn(Log(s)') + after
        BY <4>3
      <4>. QED BY <3>8, <4>1, <4>4 DEF after
    <3>. QED BY <3>9, <3>10
  <2>. QED BY <2>2, <2>3, <2>4
<1>7. ASSUME NEW t \in Stream, Emit(t) \/ Finish(t) \/ Panic(t) PROVE Goal
  <2>1. StartAppend(t, "event") \/ StartAppend(t, "finished")
    BY <1>7 DEF Emit, Finish, Panic
  <2>2. UNCHANGED <<received, drained, bufferVars>>
    BY <1>7 DEF Emit, Finish, Panic
  <2>3. Kept
    BY <2>2 DEF Log
  <2>. QED BY <1>5, <2>1, <2>3
<1>8. CASE UNCHANGED <<queue, said>>
  <2>1. CASE Kept
    BY <1>4, <1>8, <2>1
  <2>2. CASE Push(s)
    BY <1>6, <2>2
  <2>. QED BY <1>3, <2>1, <2>2
<1>9. UNCHANGED <<queue, said>>
        \/ \E t \in Stream : Push(t) \/ Emit(t) \/ Finish(t) \/ Panic(t)
  <2>. USE DEF Next, Poll, Task, Over, vars
  <2>1. CASE \E n \in Bindings, report \in Reports, outcome \in Outcomes :
               Verify(n, report, outcome)
    BY <2>1 DEF Verify
  <2>2. CASE PublishContracts \/ Shutdown
    BY <2>2 DEF PublishContracts, Shutdown
  <2>3. CASE \E list \in Lists, max \in Maxima, mayWait \in BOOLEAN : PollStart(list, max, mayWait)
    BY <2>3 DEF PollStart
  <2>4. CASE Poll
    BY <2>4 DEF PollDrain, Drain, PollWait, PollWake, PollTimeout, PollPrune, Again, PollAnswer, PollJoin
  <2>5. CASE \E t \in Stream : StopTargets(t) \/ EndTask(t)
    BY <2>5 DEF StopTargets, EndTask
  <2>. QED BY <2>1, <2>2, <2>3, <2>4, <2>5
<1>. QED BY <1>6, <1>7, <1>8, <1>9

-----------------------------------------------------------------------------
(* Who owns a transport. *)

LEMMA Fresh ==
  ASSUME IInv, nextStream \in Stream
  PROVE  thread[nextStream] = "none" /\ ~panicked[nextStream]
<1>1. nextStream \in Nat
  BY DEF Stream
<1>2. nextStream >= nextStream
  BY <1>1
<1>3. thread[nextStream] = "none"
  BY <1>2 DEF IInv, TaskOK
<1>4. thread[nextStream] = "none" => ~panicked[nextStream]
  BY DEF IInv, TaskOK
<1>. QED BY <1>3, <1>4

LEMMA OwnedStep ==
  ASSUME IInv, Owned, [Next]_vars
  PROVE  Owned'
<1>. USE DEF engineVars, taskVars, transportVars, bufferVars, pollVars
<1>0. /\ TaskOK
      /\ thread \in [Stream -> {"none", "working", "stopped", "finishing", "ended"}]
      /\ targets \in [Stream -> SUBSET Instance] /\ panicked \in [Stream -> BOOLEAN]
      /\ nextStream \in 1..(MaxStreams + 1)
  BY DEF IInv, TypeOK
<1>. SUFFICES ASSUME NEW i \in live' \ stranded'
              PROVE  \E s \in Stream : i \in targets'[s] /\ (thread'[s] = "working" \/ panicked'[s])
  BY DEF Owned
<1>. DEFINE Goal == \E s \in Stream : i \in targets'[s] /\ (thread'[s] = "working" \/ panicked'[s])
<1>1. ASSUME NEW s \in Stream, i \in targets[s], thread[s] = "working" \/ panicked[s],
             targets'[s] = targets[s], thread'[s] = thread[s] \/ thread[s] # "working" \/ panicked'[s],
             panicked[s] => panicked'[s]
      PROVE  Goal
  BY <1>1
<1>2. i \in live \ stranded => \E s \in Stream : i \in targets[s] /\ (thread[s] = "working" \/ panicked[s])
  BY DEF Owned
<1>3. ASSUME i \in live \ stranded, UNCHANGED <<targets, thread, panicked>> PROVE Goal
  BY <1>2, <1>3
<1>4. ASSUME NEW kind, NEW report, NEW bindings, Open(kind, report, bindings),
             i \in live \ stranded, UNCHANGED panicked
      PROVE  Goal
  <2>1. /\ nextStream \in Stream
        /\ targets' = [targets EXCEPT ![nextStream] = bindings]
        /\ thread' = [thread EXCEPT ![nextStream] = "working"]
    BY <1>4 DEF Open
  <2>2. thread[nextStream] = "none" /\ ~panicked[nextStream]
    BY <2>1, Fresh
  <2>3. PICK s \in Stream : i \in targets[s] /\ (thread[s] = "working" \/ panicked[s])
    BY <1>2, <1>4
  <2>4. s # nextStream
    BY <2>2, <2>3
  <2>. QED BY <1>0, <1>4, <2>1, <2>3, <2>4
<1>5. ASSUME NEW n \in Bindings, NEW report \in Reports, NEW outcome \in Outcomes,
             Verify(n, report, outcome)
      PROVE  Goal
  <2>. DEFINE mine == nextInstance..(nextInstance + n - 1)
  <2>1. /\ UNCHANGED panicked
        /\ live' = IF outcome \in {"started", "component missing"} THEN live \cup mine ELSE live
        /\ stranded' = IF outcome = "component missing" THEN stranded \cup mine ELSE stranded
        /\ outcome = "started" => Open("verification", report, mine)
        /\ outcome # "started" => UNCHANGED <<targets, thread>>
    BY <1>5 DEF Verify
  <2>. HIDE DEF mine
  <2>2. CASE outcome = "started" /\ i \notin live \ stranded
    <3>1. i \in mine /\ nextStream \in Stream
          /\ targets'[nextStream] = mine /\ thread'[nextStream] = "working"
      BY <1>0, <2>1, <2>2 DEF Open
    <3>. QED BY <3>1
  <2>3. CASE outcome = "started" /\ i \in live \ stranded
    BY <1>4, <2>1, <2>3
  <2>4. CASE outcome # "started"
    <3>1. i \in live \ stranded
      BY <2>1, <2>4
    <3>. QED BY <1>3, <2>1, <2>4, <3>1
  <2>. QED BY <2>2, <2>3, <2>4
<1>6. CASE PublishContracts
  <2>1. Open("publication", FALSE, {}) /\ live' = live /\ stranded' = stranded /\ UNCHANGED panicked
    BY <1>6 DEF PublishContracts
  <2>. QED BY <1>4, <2>1
<1>7. ASSUME NEW t \in Stream, StopTargets(t) PROVE Goal
  <2>1. /\ live' = live \ targets[t] /\ stranded' = stranded /\ thread' = [thread EXCEPT ![t] = "stopped"]
        /\ UNCHANGED <<targets, panicked>>
    BY <1>7 DEF StopTargets
  <2>2. PICK s \in Stream : i \in targets[s] /\ (thread[s] = "working" \/ panicked[s])
    BY <1>2, <2>1
  <2>3. s # t
    BY <2>1, <2>2
  <2>. QED BY <1>0, <2>1, <2>2, <2>3
<1>8. ASSUME NEW t \in Stream, Finish(t) PROVE Goal
  <2>1. /\ live' = live /\ stranded' = stranded /\ thread' = [thread EXCEPT ![t] = "finishing"]
        /\ UNCHANGED <<targets, panicked>>
        /\ thread[t] = "stopped" \/ work[t] = "publication"
    BY <1>8 DEF Finish
  <2>2. PICK s \in Stream : i \in targets[s] /\ (thread[s] = "working" \/ panicked[s])
    BY <1>2, <2>1
  <2>3. CASE s = t
    <3>1. panicked[s]
      BY <1>0, <2>1, <2>2, <2>3 DEF TaskOK
    <3>. QED BY <2>1, <2>2, <3>1
  <2>4. CASE s # t
    BY <1>0, <2>1, <2>2, <2>4
  <2>. QED BY <2>3, <2>4
<1>9. ASSUME NEW t \in Stream, Panic(t) PROVE Goal
  <2>1. /\ live' = live /\ stranded' = stranded /\ thread' = [thread EXCEPT ![t] = "finishing"]
        /\ panicked' = [panicked EXCEPT ![t] = TRUE] /\ UNCHANGED targets
    BY <1>9 DEF Panic
  <2>2. PICK s \in Stream : i \in targets[s] /\ (thread[s] = "working" \/ panicked[s])
    BY <1>2, <2>1
  <2>. QED BY <1>0, <2>1, <2>2
<1>10. ASSUME NEW t \in Stream, EndTask(t) PROVE Goal
  <2>1. /\ live' = live /\ stranded' = stranded /\ thread' = [thread EXCEPT ![t] = "ended"]
        /\ UNCHANGED <<targets, panicked>> /\ thread[t] = "finishing"
    BY <1>10 DEF EndTask
  <2>2. PICK s \in Stream : i \in targets[s] /\ (thread[s] = "working" \/ panicked[s])
    BY <1>2, <2>1
  <2>. QED BY <1>0, <2>1, <2>2
<1>11. ASSUME NEW t \in Stream, Emit(t) \/ Push(t) PROVE Goal
  <2>1. i \in live \ stranded /\ UNCHANGED <<targets, thread, panicked>>
    BY <1>11 DEF Emit, Push
  <2>. QED BY <1>3, <2>1
<1>12. CASE Shutdown \/ Poll \/ UNCHANGED vars
  <2>1. i \in live \ stranded /\ UNCHANGED <<targets, thread, panicked>>
    BY <1>12 DEF Shutdown, Poll, PollDrain, Drain, PollWait, PollWake, PollTimeout, Again, PollPrune,
       PollJoin, PollAnswer, vars
  <2>. QED BY <1>3, <2>1
<1>13. ASSUME NEW list \in Lists, NEW max \in Maxima, NEW mayWait \in BOOLEAN,
              PollStart(list, max, mayWait)
       PROVE  Goal
  BY <1>3, <1>13 DEF PollStart
<1>. QED
  BY <1>5, <1>6, <1>7, <1>8, <1>9, <1>10, <1>11, <1>12, <1>13 DEF Next, Task, Over

-----------------------------------------------------------------------------
(* The theorems. *)

LEMMA InitInv == Init => IInv /\ Owned
<1>. SUFFICES ASSUME Init PROVE IInv /\ Owned
  OBVIOUS
<1>1. TypeOK
  BY InitType
<1>2. ASSUME NEW s \in Stream
      PROVE  /\ received[s] = <<>> /\ drained[s] = <<>> /\ pending[s] = <<>>
             /\ nextSeq[s] = 0 /\ ~producedLast[s] /\ ~deliveredLast[s] /\ thread[s] = "none"
             /\ queue[s] = <<>> /\ said[s] = 0 /\ ~panicked[s] /\ work[s] = "none"
             /\ targets[s] = {}
  BY DEF Init
<1>3. ASSUME NEW s \in Stream PROVE Log(s) = <<>> /\ Len(Log(s)) = 0
  <2>1. <<>> \o <<>> = <<>> /\ Len(<<>>) = 0
    OBVIOUS
  <2>2. Log(s) = <<>> \o <<>> \o <<>>
    BY <1>2 DEF Log
  <2>. QED BY <2>1, <2>2
<1>4. LogOK
  <2>. SUFFICES ASSUME NEW s \in Stream
                PROVE  /\ Len(Log(s)) = nextSeq[s] /\ Numbered(Log(s)) /\ EndsOnce(Log(s))
                       /\ producedLast[s] <=> Terminated(Log(s))
    BY DEF LogOK
  <2>1. \A i \in 1..0 : FALSE
    OBVIOUS
  <2>. QED BY <1>2, <1>3, <2>1 DEF Numbered, EndsOnce, Terminated
<1>5. TaskOK
  BY <1>2 DEF TaskOK, Before
<1>6. PollOK
  <2>1. registered = {} /\ pc = "idle"
    BY DEF Init
  <2>. QED BY <1>2, <2>1 DEF PollOK, Out, With, Gone
<1>7. SaidOK
  <2>1. ASSUME NEW s \in Stream PROVE ReportsIn(Log(s)) = 0
    <3>1. {i \in 1..0 : Log(s)[i].kind = "report"} = {}
      OBVIOUS
    <3>. QED BY <1>3, <3>1, FS_EmptySet DEF ReportsIn
  <2>. QED BY <1>2, <2>1, Says DEF SaidOK
<1>8. Owned
  BY DEF Init, Owned
<1>. QED BY <1>1, <1>4, <1>5, <1>6, <1>7, <1>8 DEF IInv

LEMMA InvStep == IInv /\ [Next]_vars => IInv'
BY TypeOKStep, LogStep, TaskStep, PollStep, SaidStep DEF IInv

\* The variables of the event streams keep their types, and a buffer never
\* holds more than BUFFER_CAP events, whatever a poll leaves behind.
THEOREM TypeCorrect == Spec => []TypeOK
<1>1. Init => TypeOK
  BY InitType
<1>2. TypeOK /\ [Next]_vars => TypeOK'
  BY TypeOKStep
<1>. QED BY <1>1, <1>2, PTL DEF Spec

LEMMA Invariant == Spec => []IInv
<1>1. Init => IInv
  BY InitInv
<1>. QED BY <1>1, InvStep, PTL DEF Spec

\* handle_poll: between two requests, a stream can be polled exactly when the
\* host does not have its terminal event.
THEOREM PolledUntilTheEnd == Spec => []EndsWhenDelivered
<1>1. IInv => EndsWhenDelivered
  <2>. SUFFICES ASSUME IInv, pc = "idle", ~shutDown, NEW s \in Stream, thread[s] # "none"
                PROVE  s \in registered <=> ~Terminated(received[s])
    BY DEF EndsWhenDelivered
  <2>1. s \in registered <=> ~With(s)
    BY DEF IInv, PollOK, Gone
  <2>2. Terminated(received[s]) <=> With(s)
    BY TerminalAt DEF IInv
  <2>. QED BY <2>1, <2>2
<1>. QED BY <1>1, Invariant, PTL

\* Stream::append: the reports given of a run are in the log before its
\* terminal event, so the host that has that event has all of them.
THEOREM NoReportIsLost == Spec => []ReportsArrive
<1>1. IInv => ReportsArrive
  <2>. SUFFICES ASSUME IInv, NEW s \in Stream, Terminated(received[s])
                PROVE  said[s] = ReportsIn(received[s])
    BY DEF ReportsArrive
  <2>1. With(s) /\ Log(s) = received[s]
    BY TerminalAt DEF IInv
  <2>2. producedLast[s]
    BY <2>1 DEF With, Out
  <2>3. said[s] = ReportsIn(received[s]) + 0
    BY <2>1, <2>2 DEF IInv, SaidOK
  <2>4. said[s] \in Nat /\ received[s] \in Seq(Event)
    BY DEF IInv, TypeOK
  <2>5. [seq |-> 0, kind |-> "report", last |-> FALSE] \in Event
    BY DEF Event, EventKind
  <2>6. ReportsIn(received[s]) \in Nat
    BY <2>4, <2>5, ReportsInAppend
  <2>. QED BY <2>3, <2>6
<1>. QED BY <1>1, Invariant, PTL

\* The comment on stop_targets, whatever the outcomes of `verify`: but for a run
\* that panicked and a call that a missing component ended, a started transport
\* belongs to a run whose terminal event the host does not have.
THEOREM TransportsAreStopped == Spec => []TransportsAccounted
<1>1. Init => Owned
  BY InitInv
<1>2. IInv /\ Owned /\ [Next]_vars => Owned'
  BY OwnedStep
<1>3. IInv /\ Owned => TransportsAccounted
  <2>. SUFFICES ASSUME IInv, NEW s \in Stream, thread[s] = "working"
                PROVE  ~Terminated(received[s])
    BY DEF Owned, TransportsAccounted
  <2>1. ~producedLast[s]
    BY DEF IInv, TaskOK
  <2>. QED BY <2>1, TerminalAt DEF IInv, With, Out
<1>. QED BY <1>1, <1>2, <1>3, Invariant, PTL DEF Spec

LEMMA Receives ==
  ASSUME TypeOK, [Next]_vars, NEW s \in Stream
  PROVE  Len(received[s])' \in Len(received[s]) .. Len(Log(s))
<1>. DEFINE r == Len(received[s])
            d == Len(drained[s])
            l == Len(Log(s))
<1>1. /\ received \in [Stream -> Seq(Event)] /\ received[s] \in Seq(Event)
      /\ drained[s] \in Seq(Event) /\ pending[s] \in Seq(Event)
      /\ r \in Nat /\ d \in Nat /\ l = r + d + Len(pending[s]) /\ Len(pending[s]) \in Nat
      /\ Len(received[s] \o drained[s]) = r + d
  BY LogType, LenProperties, Concat DEF TypeOK
<1>2. received'[s] = received[s] \/ received'[s] = received[s] \o drained[s]
  <2>. USE DEF Next, Poll, Task, Over, vars, engineVars, taskVars, transportVars, bufferVars,
             pollVars
  <2>1. CASE PollAnswer
    BY <2>1 DEF PollAnswer
  <2>2. CASE \E n \in Bindings, report \in Reports, outcome \in Outcomes :
               Verify(n, report, outcome)
    BY <2>2 DEF Verify
  <2>3. CASE PublishContracts \/ Shutdown
    BY <2>3 DEF PublishContracts, Shutdown
  <2>4. CASE \E list \in Lists, max \in Maxima, mayWait \in BOOLEAN : PollStart(list, max, mayWait)
    BY <2>4 DEF PollStart
  <2>5. CASE PollDrain \/ PollWait \/ PollWake \/ PollTimeout \/ PollPrune \/ \E t \in Stream : PollJoin(t)
    BY <2>5 DEF PollDrain, PollWait, PollWake, PollTimeout, PollPrune, Again, PollJoin
  <2>6. CASE \E t \in Stream : Task(t)
    BY <2>6 DEF Emit, StopTargets, Finish, Panic, Push, EndTask
  <2>. QED BY <2>1, <2>2, <2>3, <2>4, <2>5, <2>6
<1>3. Len(received'[s]) = r \/ Len(received'[s]) = r + d
  BY <1>1, <1>2
<1>. DEFINE p == Len(pending[s])
            n == Len(received'[s])
<1>4. r \in Nat /\ d \in Nat /\ p \in Nat /\ l = r + d + p /\ (n = r \/ n = r + d)
  BY <1>1, <1>3
<1>. HIDE DEF r, d, l, p, n
<1>5. n \in r..l
  BY <1>4
<1>. QED BY <1>5 DEF r, l, n

\* Spec 9.2 and 9.3: a poll of a stream hands over its events in the order they
\* were produced, each once, and nothing follows the terminal event.
THEOREM ImplementsEventDelivery == Spec => DeliversExactlyOnce
<1>1. Init => Delivery!Init
  <2>. SUFFICES ASSUME Init PROVE Delivery!Init
    OBVIOUS
  <2>1. <<>> \o <<>> = <<>> /\ Len(<<>>) = 0
    OBVIOUS
  <2>2. \A s \in Stream : received[s] = <<>> /\ drained[s] = <<>> /\ pending[s] = <<>>
    BY DEF Init
  <2>. QED BY <2>1, <2>2 DEF Delivery!Init, Said, Delivered
<1>2. IInv /\ [Next]_vars => [Delivery!Next]_(Delivery!vars)
  <2>. SUFFICES ASSUME IInv, [Next]_vars PROVE Delivery!Next
    OBVIOUS
  <2>1. \A s \in Stream : Said[s] = Log(s)
    BY DEF Log, Said
  <2>2. CASE \A s \in Stream : Log(s)' = Log(s)
    <3>1. \A s \in Stream : Len(received[s])' \in Len(received[s]) .. Len(Log(s))
      BY Receives DEF IInv
    <3>2. Said' = Said
      BY <2>2 DEF Said, Log
    <3>3. /\ Delivered' = [s \in Stream |-> Delivered'[s]]
          /\ \A s \in Stream : Delivered'[s] = Len(received[s])' /\ Delivered[s] = Len(received[s])
      BY DEF Delivered
    <3>4. \A s \in Stream : Delivered'[s] \in Delivered[s] .. Len(Said[s])
      BY <2>1, <3>1, <3>3
    <3>5. Delivery!Deliver
      BY <3>2, <3>3, <3>4 DEF Delivery!Deliver
    <3>. QED BY <3>5 DEF Delivery!Next
  <2>3. ASSUME NEW s \in Stream, Log(s)' # Log(s) PROVE Delivery!Next
    <3>. DEFINE kind == NextEvent(s).kind
                last == NextEvent(s).last
    <3>1. /\ Push(s) /\ ~producedLast[s]
          /\ Log(s)' = Append(Log(s), NextEvent(s))
      BY <2>3, Moves DEF IInv
    <3>2. Delivered' = Delivered
      BY <3>1 DEF Push, Delivered
    <3>3. ASSUME NEW t \in Stream, t # s PROVE Log(t)' = Log(t)
      <4>1. nextSeq'[t] = nextSeq[t] /\ nextSeq[t] \in Nat
        BY <3>1, <3>3 DEF Push, IInv, TypeOK
      <4>. QED BY <4>1, Moves DEF IInv
    <3>4. /\ ~Terminated(Log(s)) /\ Len(Log(s)) = nextSeq[s]
      BY <3>1 DEF IInv, LogOK
    <3>5. NextEvent(s) \in Event
      BY <3>1, HeadEvent DEF IInv, Push
    <3>6. /\ kind \in EventKind /\ last \in BOOLEAN
          /\ NextEvent(s) = [seq |-> Len(Log(s)) + 1, kind |-> kind, last |-> last]
      BY <3>4, <3>5 DEF NextEvent, Event
    <3>7. Said' = [Said EXCEPT ![s] = Append(Said[s], NextEvent(s))]
      <4>1. /\ Said = [t \in Stream |-> Log(t)] /\ Said' = [t \in Stream |-> Log(t)']
        BY DEF Said, Log
      <4>. QED BY <2>1, <3>1, <3>3, <4>1
    <3>. HIDE DEF kind, last
    <3>8. Said' = [Said EXCEPT ![s] = Append(@, [seq |-> Len(@) + 1, kind |-> kind, last |-> last])]
      BY <2>1, <3>6, <3>7
    <3>9. ~Delivery!Terminated(Said[s])
      BY <2>1, <3>4 DEF Delivery!Terminated, Terminated
    <3>10. Delivery!Produce(s)
      BY <3>2, <3>6, <3>8, <3>9 DEF Delivery!Produce
    <3>. QED BY <3>10 DEF Delivery!Next
  <2>. QED BY <2>2, <2>3
<1>. QED BY <1>1, <1>2, Invariant, PTL DEF Spec, DeliversExactlyOnce, Delivery!Spec
=============================================================================
