------------------------ MODULE VerificationRunProofs ------------------------
(***************************************************************************)
(* Theorems about VerificationRun, for every request of any host.          *)
(***************************************************************************)
EXTENDS VerificationRun, TLAPS, FiniteSetTheorems

(* What is known of a request. *)

\* The documents of a request end one after the other, the last with the variants.
LEMMA RequestFacts ==
  ASSUME request \in Requests
  PROVE  /\ request \in Request
         /\ Total \in Nat
         /\ Len(request.ends) \in Nat
         /\ \A s \in Documents : request.ends[s] \in 0..Total
         /\ \A s, t \in Documents : s <= t => request.ends[s] <= request.ends[t]
         /\ Len(request.ends) = 0 => Total = 0
         /\ Len(request.ends) # 0 => request.ends[Len(request.ends)] = Total
<1>1. request \in Request /\ WellFormed(request)
  BY RequestsAssumption
<1>2. request.ends \in Seq(Nat) /\ request.replays \in Seq(Replay)
  BY <1>1 DEF Request
<1>3. Total \in Nat /\ Len(request.ends) \in Nat
  BY <1>2 DEF Total
<1>4. \A s \in Documents : request.ends[s] \in 0..Total
  BY <1>1, <1>2, <1>3 DEF WellFormed, Documents, Total
<1>5. \A s, t \in Documents : s <= t => request.ends[s] <= request.ends[t]
  BY <1>1 DEF WellFormed, Documents
<1>6. Len(request.ends) = 0 => Total = 0
  BY <1>1, <1>2, <1>3 DEF WellFormed, Total
<1>7. Len(request.ends) # 0 => request.ends[Len(request.ends)] = Total
  BY <1>1, <1>2, <1>3 DEF WellFormed, Total
<1> QED BY <1>1, <1>3, <1>4, <1>5, <1>6, <1>7

\* How far the run has come: in which document, and in which exchange.
Cursor ==
  /\ source \in Documents =>
       StartOf(source) <= at /\ at <= request.ends[source]
  /\ source \notin Documents => at = Total
  /\ step # "next" => /\ phase = "verify"
                      /\ source \in Documents
                      /\ at < request.ends[source]
                      /\ Variant \notin request.excluded
  /\ step \in {"observe", "report", "teardown"} => status \in Status
  /\ opened.skipped <= tally.skipped

Typed == TypeOK /\ Cursor

(* The types, by the groups of variables that actions leave alone. *)
RunTypes ==
  /\ source \in 1..Len(request.ends) + 1
  /\ opened \in [first: Nat, skipped: Nat]
  /\ ran \in Seq([first: Nat, last: Nat, skipped: Nat, complete: BOOLEAN])
  /\ aborted \in Point \cup {"none"}
  /\ stopped \in BOOLEAN
  /\ report \in [point: Point \cup {"none"}, notRun: Nat]

ExchangeTypes ==
  /\ step \in {"next", "setup", "send", "observe", "report", "teardown"}
  /\ state \in Nat
  /\ status \in Status \cup {"none"}
  /\ standing \subseteq Nat
  /\ blamed \subseteq 1..Total

ScoreTypes ==
  /\ at \in 0..Total
  /\ tally \in [verified: Nat, failed: Nat, unavailable: Nat, skipped: Nat,
                pendingFailed: Nat]
  /\ results \in Seq([variant: 1..Total, status: Status])

EndTypes ==
  /\ publication \in Seq([source: Nat,
                          outcome: {"published", "failed", "skipped"},
                          success: BOOLEAN])
  /\ notRun \in Nat
  /\ verdict \in {"none", "failed", "filtered", "verified"}
  /\ targets \in BOOLEAN

PhaseTypes ==
  phase \in {"fetch", "begin", "verify", "publish", "after", "finish", "ended",
             "unread"}

\* The types, by group.
LEMMA TypeParts ==
  TypeOK <=> /\ request \in Requests /\ PhaseTypes
             /\ RunTypes /\ ExchangeTypes /\ ScoreTypes /\ EndTypes
BY DEF TypeOK, PhaseTypes, RunTypes, ExchangeTypes, ScoreTypes, EndTypes

\* The types after a step, by group.
LEMMA TypePartsNext ==
  TypeOK' <=> /\ request' \in Requests /\ PhaseTypes'
              /\ RunTypes' /\ ExchangeTypes' /\ ScoreTypes' /\ EndTypes'
BY DEF TypeOK, PhaseTypes, RunTypes, ExchangeTypes, ScoreTypes, EndTypes

\* A group of variables left alone keeps its types.
LEMMA Kept ==
  ASSUME TypeOK, request' = request
  PROVE  /\ request' \in Requests
         /\ Total' = Total /\ Documents' = Documents
         /\ UNCHANGED phase => PhaseTypes'
         /\ UNCHANGED runVars => RunTypes'
         /\ UNCHANGED exchange => ExchangeTypes'
         /\ UNCHANGED scoreVars => ScoreTypes'
         /\ UNCHANGED endVars => EndTypes'
<1>1. request' \in Requests /\ Total' = Total /\ Documents' = Documents
  BY DEF TypeOK, Total, Documents
<1>2. UNCHANGED phase => PhaseTypes'
  BY TypeParts DEF PhaseTypes
<1>3. UNCHANGED runVars => RunTypes'
  BY TypeParts DEF RunTypes, runVars
<1>4. UNCHANGED exchange => ExchangeTypes'
  BY TypeParts, <1>1 DEF ExchangeTypes, exchange
<1>5. UNCHANGED scoreVars => ScoreTypes'
  BY TypeParts, <1>1 DEF ScoreTypes, scoreVars
<1>6. UNCHANGED endVars => EndTypes'
  BY TypeParts DEF EndTypes, endVars
<1> QED BY <1>1, <1>2, <1>3, <1>4, <1>5, <1>6

\* What an abort does to the run is typed.
LEMMA AbortTyped ==
  ASSUME TypeOK, request' = request, NEW o, NEW p \in Point, Aborts(o, p),
         UNCHANGED <<source, opened, ran, stopped>>
  PROVE  RunTypes'
BY TypeParts DEF RunTypes, Aborts

\* A run begins typed, before the first variant of the first document.
LEMMA InitTyped == Init => Typed
<1> SUFFICES ASSUME Init PROVE Typed OBVIOUS
<1>1. request \in Requests BY DEF Init
<1>2. Total \in Nat /\ Len(request.ends) \in Nat
      /\ (Len(request.ends) = 0 => Total = 0)
      /\ \A s \in Documents : request.ends[s] \in 0..Total
  BY <1>1, RequestFacts
<1>3. TypeOK
  <2>1. /\ results \in Seq([variant: 1..Total, status: Status])
        /\ ran \in Seq([first: Nat, last: Nat, skipped: Nat, complete: BOOLEAN])
        /\ publication \in Seq([source: Nat,
                                 outcome: {"published", "failed", "skipped"},
                                 success: BOOLEAN])
    BY DEF Init
  <2>2. /\ opened \in [first: Nat, skipped: Nat]
        /\ tally \in [verified: Nat, failed: Nat, unavailable: Nat,
                      skipped: Nat, pendingFailed: Nat]
        /\ report \in [point: Point \cup {"none"}, notRun: Nat]
    BY DEF Init, NoAbort
  <2>3. source \in 1..Len(request.ends) + 1 /\ at \in 0..Total
    BY <1>2 DEF Init
  <2> QED BY <1>1, <2>1, <2>2, <2>3 DEF Init, TypeOK
<1>4. Cursor BY <1>2 DEF Init, Cursor, Documents, StartOf
<1> QED BY <1>3, <1>4 DEF Typed

\* What Tally::record adds to the tallies.
LEMMA TalliedFacts ==
  ASSUME TypeOK, NEW outcome \in Status
  PROVE  /\ Tallied(outcome) \in [verified: Nat, failed: Nat, unavailable: Nat,
                                  skipped: Nat, pendingFailed: Nat]
         /\ Tallied(outcome).skipped = tally.skipped
         /\ Tallied(outcome).verified + Tallied(outcome).failed
              + Tallied(outcome).unavailable
            = tally.verified + tally.failed + tally.unavailable + 1
         /\ Tallied(outcome).failed + Tallied(outcome).unavailable
              - Tallied(outcome).pendingFailed
            = Failing + (IF outcome # "verified" /\ Variant \notin request.pending
                         THEN 1 ELSE 0)
<1>1. tally \in [verified: Nat, failed: Nat, unavailable: Nat, skipped: Nat,
                pendingFailed: Nat]
  BY DEF TypeOK
<1>2. CASE outcome = "verified"
  BY <1>1, <1>2 DEF Tallied, Failing, One
<1>3. CASE outcome = "failed"
  BY <1>1, <1>3 DEF Tallied, Failing, One
<1>4. CASE outcome = "state-unavailable"
  BY <1>1, <1>4 DEF Tallied, Failing, One
<1> QED BY <1>2, <1>3, <1>4 DEF Status

\* The variant at hand is one of the document's.
LEMMA AtHand ==
  ASSUME Typed, source \in Documents, at < request.ends[source]
  PROVE  /\ Variant \in 1..Total
         /\ request.replays[Variant] \in Replay
         /\ States \in Seq(State)
         /\ Len(States) \in Nat
<1>1. request \in Requests /\ at \in 0..Total
  BY DEF Typed, TypeOK
<1>2. request \in Request /\ Total \in Nat /\ request.ends[source] \in 0..Total
  BY <1>1, RequestFacts
<1>3. Variant \in 1..Total
  BY <1>1, <1>2 DEF Variant
<1>4. request.replays \in Seq(Replay)
  BY <1>2 DEF Request
<1>5. request.replays[Variant] \in Replay
  BY <1>3, <1>4 DEF Total
<1>6. States \in Seq(State)
  BY <1>5 DEF States, Replay
<1> QED BY <1>3, <1>5, <1>6

\* A variant whose result is recorded.
LEMMA RecordTyped ==
  ASSUME Typed, source \in Documents, at < request.ends[source],
         NEW outcome \in Status, RecordAs(outcome), request' = request
  PROVE  /\ at' \in 0..Total /\ at' = at + 1
         /\ at' <= request.ends[source]
         /\ tally' \in [verified: Nat, failed: Nat, unavailable: Nat,
                        skipped: Nat, pendingFailed: Nat]
         /\ tally'.skipped = tally.skipped
         /\ results' \in Seq([variant: 1..Total, status: Status])
<1>1. at \in 0..Total /\ request \in Requests
      /\ results \in Seq([variant: 1..Total, status: Status])
  BY DEF Typed, TypeOK
<1>2. Variant \in 1..Total /\ request.ends[source] \in 0..Total /\ Total \in Nat
  BY <1>1, AtHand, RequestFacts
<1>3. at' \in 0..Total /\ at' = at + 1 /\ at' <= request.ends[source]
  BY <1>1, <1>2 DEF RecordAs, Variant
<1>4. tally' = Tallied(outcome)
  BY DEF RecordAs
<1>5. results' \in Seq([variant: 1..Total, status: Status])
  <2>1. [variant |-> Variant, status |-> outcome] \in [variant: 1..Total, status: Status]
    BY <1>2
  <2> QED BY <1>1, <2>1 DEF RecordAs
<1> QED BY <1>3, <1>4, <1>5, TalliedFacts DEF Typed


\* The exchange's own variables: those of a variant at hand stay typed.
LEMMA ExchangeTyped ==
  ASSUME Typed, source \in Documents, at < request.ends[source],
         request' = request, NEW o,
         step' \in {"next", "setup", "send", "observe", "report", "teardown"},
         state' \in Nat, status' \in Status \cup {"none"},
         standing' \subseteq standing \cup {state}, Blame(o) \/ blamed' = blamed
  PROVE  ExchangeTypes'
<1>1. Total' = Total /\ ExchangeTypes
  BY Kept, TypeParts DEF Typed
<1>2. blamed' \subseteq blamed \cup {Variant} /\ Variant \in 1..Total
  BY AtHand DEF Blame
<1> QED BY <1>1, <1>2 DEF ExchangeTypes

\* An exchange under way stays where it is while its result is open.
LEMMA InExchange ==
  ASSUME Typed, step # "next", UNCHANGED <<request, phase, source, at, opened, tally>>,
         step' \in {"observe", "report", "teardown"} => status' \in Status
  PROVE  Cursor'
BY DEF Typed, Cursor, Documents, StartOf, Variant, Total

\* A step of the run that touches no exchange and no variant.
LEMMA AtRest ==
  ASSUME Typed, UNCHANGED <<request, source, opened, scoreVars, step, status>>,
         step = "next" \/ phase # "verify" \/ UNCHANGED phase
  PROVE  Cursor'
BY DEF Typed, Cursor, Documents, StartOf, Variant, Total, scoreVars

\* One more element of a sequence.
LEMMA AppendTyped ==
  ASSUME NEW S, NEW q \in Seq(S), NEW e \in S
  PROVE  Append(q, e) \in Seq(S)
  OBVIOUS

\* On to the next variant of the document.
LEMMA Onward ==
  ASSUME Typed, source \in Documents, at < request.ends[source], at' = at + 1,
         UNCHANGED <<request, source, opened>>, step' = "next",
         opened.skipped <= tally'.skipped
  PROVE  Cursor'
<1>1. /\ request \in Requests /\ at \in 0..Total /\ source \in Nat
      /\ StartOf(source) <= at
  BY DEF Typed, TypeOK, Cursor, Documents
<1>2. \A s \in Documents : request.ends[s] \in Nat
  BY <1>1, RequestFacts
<1>3. at \in Nat
  BY <1>1, RequestFacts
<1>4. StartOf(source) \in Nat
  BY <1>1, <1>2 DEF StartOf, Documents
<1> QED BY <1>1, <1>2, <1>3, <1>4 DEF Cursor, Documents, StartOf, Total

\* Every step keeps the types and the cursor.
LEMMA StepTyped == Typed /\ [Next]_vars => Typed'
<1> SUFFICES ASSUME Typed, [Next]_vars PROVE Typed'
  OBVIOUS
<1>t. TypeOK /\ Cursor BY DEF Typed
<1>r. /\ request \in Requests
      /\ Total \in Nat /\ Len(request.ends) \in Nat
      /\ \A s \in Documents : request.ends[s] \in 0..Total
      /\ \A s, t \in Documents : s <= t => request.ends[s] <= request.ends[t]
      /\ Len(request.ends) # 0 => request.ends[Len(request.ends)] = Total
  BY <1>t, RequestFacts DEF TypeOK
<1>u. step # "next" => /\ source \in Documents /\ at < request.ends[source]
                       /\ Len(States) \in Nat
  BY <1>t, AtHand DEF Typed, Cursor
<1>1. CASE Fetch
  <2>1. request' = request
    BY <1>1 DEF Fetch
  <2>2. PhaseTypes'
    BY <1>t, <1>1, TypeParts DEF Fetch, PhaseTypes
  <2>3. TypeOK'
    BY <1>t, <2>1, <2>2, <1>1, Kept, TypePartsNext DEF Fetch
  <2>4. Cursor'
    BY <1>1, AtRest DEF Fetch, runVars, exchange
  <2> QED BY <2>3, <2>4 DEF Typed
<1>2. CASE FetchFails
  <2>1. request' = request
    BY <1>2 DEF FetchFails
  <2>2. PhaseTypes'
    BY <1>t, <1>2, TypeParts DEF FetchFails, PhaseTypes
  <2>3. EndTypes'
    BY <1>t, <1>2, TypeParts DEF FetchFails, EndTypes
  <2>4. TypeOK'
    BY <1>t, <2>1, <2>2, <2>3, <1>2, Kept, TypePartsNext DEF FetchFails
  <2>5. Cursor'
    BY <1>2, AtRest DEF FetchFails, runVars, exchange
  <2> QED BY <2>4, <2>5 DEF Typed
<1>3. ASSUME NEW o \in {"continue", "abort", "fail"},
             Begin(o)
      PROVE  Typed'
  <2>1. request' = request
    BY <1>3 DEF Begin
  <2>2. PhaseTypes'
    BY <1>t, <1>3, TypeParts DEF Begin, PhaseTypes
  <2>3. RunTypes'
    BY <1>t, <1>3, <2>1, AbortTyped DEF Begin, Point
  <2>4. TypeOK'
    BY <1>t, <2>1, <2>2, <2>3, <1>3, Kept, TypePartsNext DEF Begin
  <2>5. Cursor'
    BY <1>3, AtRest DEF Begin, exchange
  <2> QED BY <2>4, <2>5 DEF Typed
<1>4. CASE CloseSource
  <2>1. request' = request
    BY <1>4 DEF CloseSource
  <2>2. PhaseTypes'
    BY <1>t, <1>4, TypeParts DEF CloseSource, PhaseTypes
  <2>3. RunTypes'
    <3>1. SourceRun(TRUE) \in [first: Nat, last: Nat, skipped: Nat, complete: BOOLEAN]
      BY <1>t, TypeParts DEF SourceRun, RunTypes, ScoreTypes, Cursor
    <3>2. ran' \in Seq([first: Nat, last: Nat, skipped: Nat, complete: BOOLEAN])
      <4>1. ran \in Seq([first: Nat, last: Nat, skipped: Nat, complete: BOOLEAN])
        BY <1>t, TypeParts DEF RunTypes
      <4>2. ran' = Append(ran, SourceRun(TRUE))
        BY <1>4 DEF CloseSource
      <4> QED BY <3>1, <4>1, <4>2, AppendTyped
    <3>3. source' \in 1..Len(request.ends) + 1
      BY <1>t, <1>r, <1>4, TypeParts DEF CloseSource, AtVariant, RunTypes, Documents
    <3>4. opened' \in [first: Nat, skipped: Nat] /\ stopped' \in BOOLEAN
      BY <1>t, <1>4, TypeParts DEF CloseSource, RunTypes, ScoreTypes
    <3> QED BY <1>t, <1>4, <2>1, <3>2, <3>3, <3>4, TypeParts DEF CloseSource,
       RunTypes
  <2>4. TypeOK'
    BY <1>t, <2>1, <2>2, <2>3, <1>4, Kept, TypePartsNext DEF CloseSource
  <2>5. Cursor'
    <3>1. source \in Documents /\ at = request.ends[source] /\ source' = source + 1
          /\ at' = at /\ step' = "next" /\ opened'.skipped = tally'.skipped
          /\ tally'.skipped \in Nat
      BY <1>t, <1>4, TypeParts DEF CloseSource, AtVariant, exchange, scoreVars,
         ScoreTypes
    <3>2. source + 1 \in Documents => StartOf(source + 1) = at /\ at <= request.ends[source + 1]
      BY <1>r, <3>1 DEF Documents, StartOf
    <3>3. source + 1 \notin Documents => at = Total
      BY <1>r, <3>1 DEF Documents
    <3>4. /\ Documents' = Documents /\ Total' = Total
          /\ StartOf(source)' = StartOf(source + 1)
      BY <2>1, <3>1 DEF Documents, Total, StartOf
    <3>5. at \in Nat
      BY <1>t, <1>r DEF TypeOK
    <3> QED BY <2>1, <3>1, <3>2, <3>3, <3>4, <3>5 DEF Cursor
  <2> QED BY <2>4, <2>5 DEF Typed
<1>5. CASE CloseLast
  <2>1. request' = request
    BY <1>5 DEF CloseLast
  <2>2. PhaseTypes'
    BY <1>t, <1>5, TypeParts DEF CloseLast, PhaseTypes
  <2>3. TypeOK'
    BY <1>t, <2>1, <2>2, <1>5, Kept, TypePartsNext DEF CloseLast
  <2>4. Cursor'
    BY <1>t, <1>5, AtRest DEF CloseLast, Cursor, runVars, exchange
  <2> QED BY <2>3, <2>4 DEF Typed
<1>6. CASE EndEarly
  <2>1. request' = request
    BY <1>6 DEF EndEarly
  <2>2. PhaseTypes'
    BY <1>t, <1>6, TypeParts DEF EndEarly, PhaseTypes
  <2>3. RunTypes'
    <3>1. SourceRun(FALSE) \in [first: Nat, last: Nat, skipped: Nat, complete: BOOLEAN]
      BY <1>t, TypeParts DEF SourceRun, RunTypes, ScoreTypes, Cursor
    <3>2. ran' \in Seq([first: Nat, last: Nat, skipped: Nat, complete: BOOLEAN])
      <4>1. ran \in Seq([first: Nat, last: Nat, skipped: Nat, complete: BOOLEAN])
        BY <1>t, TypeParts DEF RunTypes
      <4>2. ran' = Append(ran, SourceRun(FALSE))
        BY <1>6 DEF EndEarly
      <4> QED BY <3>1, <4>1, <4>2, AppendTyped
    <3>3. source' \in 1..Len(request.ends) + 1
      BY <1>t, <1>r, <1>6, TypeParts DEF EndEarly, AtVariant, RunTypes, Documents
    <3>4. opened' \in [first: Nat, skipped: Nat] /\ stopped' \in BOOLEAN
      BY <1>t, <1>6, TypeParts DEF EndEarly, RunTypes, ScoreTypes
    <3> QED BY <1>t, <1>6, <2>1, <3>2, <3>3, <3>4, TypeParts DEF EndEarly, RunTypes
  <2>4. TypeOK'
    BY <1>t, <2>1, <2>2, <2>3, <1>6, Kept, TypePartsNext DEF EndEarly
  <2>5. Cursor'
    BY <1>6, AtRest DEF EndEarly, exchange
  <2> QED BY <2>4, <2>5 DEF Typed
<1>7. CASE Skip
  <2>1. request' = request
    BY <1>7 DEF Skip
  <2>2. PhaseTypes'
    BY <1>t, <1>7, TypeParts DEF Skip, PhaseTypes
  <2>3. ScoreTypes'
    <3>1. at' \in 0..Total
      BY <1>t, <1>r, <1>7, TypeParts DEF Skip, AtVariant, ScoreTypes
    <3>2. tally' \in [verified: Nat, failed: Nat, unavailable: Nat, skipped: Nat,
                     pendingFailed: Nat]
      BY <1>t, <1>7, TypeParts DEF Skip, ScoreTypes
    <3> QED BY <1>t, <1>7, <2>1, <3>1, <3>2, TypeParts, Kept DEF Skip, ScoreTypes
  <2>4. TypeOK'
    BY <1>t, <2>1, <2>2, <2>3, <1>7, Kept, TypePartsNext DEF Skip
  <2>5. Cursor'
    <3>1. tally'.skipped = tally.skipped + 1 /\ tally.skipped \in Nat
          /\ opened.skipped \in Nat
      BY <1>t, <1>7, TypeParts DEF Skip, ScoreTypes, RunTypes
    <3> QED BY <1>t, <1>7, <3>1, Onward DEF Skip, AtVariant, runVars, exchange,
       Typed, Cursor
  <2> QED BY <2>4, <2>5 DEF Typed
<1>8. CASE Refuse
  <2>1. request' = request
    BY <1>8 DEF Refuse
  <2>2. PhaseTypes'
    BY <1>t, <1>8, TypeParts DEF Refuse, PhaseTypes
  <2>3. ScoreTypes'
    BY <1>t, <1>8, <2>1, RecordTyped, Kept DEF Refuse, AtVariant, ScoreTypes,
       Typed, Status
  <2>4. TypeOK'
    BY <1>t, <2>1, <2>2, <2>3, <1>8, Kept, TypePartsNext DEF Refuse
  <2>5. Cursor'
    <3>1. at' = at + 1 /\ at' <= request.ends[source] /\ tally'.skipped = tally.skipped
      BY <1>t, <1>8, <2>1, RecordTyped DEF Refuse, AtVariant, Typed, Status
    <3> QED BY <1>t, <1>8, <3>1, Onward DEF Refuse, AtVariant, runVars, exchange,
       Typed, Cursor
  <2> QED BY <2>4, <2>5 DEF Typed
<1>9. CASE Start
  <2>1. request' = request
    BY <1>9 DEF Start
  <2>2. PhaseTypes'
    BY <1>t, <1>9, TypeParts DEF Start, PhaseTypes
  <2>3. ExchangeTypes'
    BY <1>t, <1>9, <2>1, TypeParts, Kept DEF Start, ExchangeTypes
  <2>4. TypeOK'
    BY <1>t, <2>1, <2>2, <2>3, <1>9, Kept, TypePartsNext DEF Start
  <2>5. Cursor'
    BY <1>t, <1>9 DEF Cursor, Start, AtVariant, runVars, scoreVars, Total,
       Documents,
                      StartOf, Variant
  <2> QED BY <2>4, <2>5 DEF Typed
<1>10. CASE FailUnhandled
  <2>1. request' = request
    BY <1>10 DEF FailUnhandled
  <2>2. PhaseTypes'
    BY <1>t, <1>10, TypeParts DEF FailUnhandled, PhaseTypes
  <2>3. ExchangeTypes'
    BY <1>t, <1>u, <1>10, <2>1, TypeParts, ExchangeTyped DEF FailUnhandled,
       ExchangeTypes, Status, Stops
  <2>4. TypeOK'
    BY <1>t, <2>1, <2>2, <2>3, <1>10, Kept, TypePartsNext DEF FailUnhandled
  <2>5. Cursor'
    BY <1>t, <1>10, InExchange DEF FailUnhandled, Typed, Cursor, runVars,
       scoreVars, Stops, Status
  <2> QED BY <2>4, <2>5 DEF Typed
<1>11. ASSUME NEW o \in {"continue", "abort", "fail", "unavailable"},
             SetUp(o)
      PROVE  Typed'
  <2>1. request' = request
    BY <1>11 DEF SetUp
  <2>2. PhaseTypes'
    BY <1>t, <1>11, TypeParts DEF SetUp, PhaseTypes
  <2>3. RunTypes'
    BY <1>t, <1>11, <2>1, AbortTyped DEF SetUp, Point, Asking
  <2>4. ExchangeTypes'
    BY <1>t, <1>u, <1>11, <2>1, TypeParts, ExchangeTyped DEF SetUp,
       ExchangeTypes, Status, Stops
  <2>5. TypeOK'
    BY <1>t, <2>1, <2>2, <2>3, <2>4, <1>11, Kept, TypePartsNext DEF SetUp
  <2>6. Cursor'
    BY <1>t, <1>11, InExchange DEF SetUp, Typed, Cursor, runVars, scoreVars,
       Stops, Status
  <2> QED BY <2>5, <2>6 DEF Typed
<1>12. CASE Unsendable
  <2>1. request' = request
    BY <1>12 DEF Unsendable
  <2>2. PhaseTypes'
    BY <1>t, <1>12, TypeParts DEF Unsendable, PhaseTypes
  <2>3. ExchangeTypes'
    BY <1>t, <1>u, <1>12, <2>1, TypeParts, ExchangeTyped DEF Unsendable,
       ExchangeTypes, Status, Stops
  <2>4. TypeOK'
    BY <1>t, <2>1, <2>2, <2>3, <1>12, Kept, TypePartsNext DEF Unsendable
  <2>5. Cursor'
    BY <1>t, <1>12, InExchange DEF Unsendable, Typed, Cursor, runVars, scoreVars,
       Stops, Status
  <2> QED BY <2>4, <2>5 DEF Typed
<1>13. ASSUME NEW o \in {"continue", "abort", "fail"},
             Ask(o)
      PROVE  Typed'
  <2>1. request' = request
    BY <1>13 DEF Ask
  <2>2. PhaseTypes'
    BY <1>t, <1>13, TypeParts DEF Ask, PhaseTypes
  <2>3. RunTypes'
    BY <1>t, <1>13, <2>1, AbortTyped DEF Ask, Point, Asking
  <2>4. ExchangeTypes'
    BY <1>t, <1>u, <1>13, <2>1, TypeParts, ExchangeTyped DEF Ask, ExchangeTypes,
       Status, Stops
  <2>5. TypeOK'
    BY <1>t, <2>1, <2>2, <2>3, <2>4, <1>13, Kept, TypePartsNext DEF Ask
  <2>6. Cursor'
    BY <1>t, <1>13, InExchange DEF Ask, Typed, Cursor, runVars, scoreVars, Stops,
       Status
  <2> QED BY <2>5, <2>6 DEF Typed
<1>14. ASSUME NEW outcome \in {"verified", "failed"}, NEW replied \in BOOLEAN,
             Exchange(outcome, replied)
      PROVE  Typed'
  <2>1. request' = request
    BY <1>14 DEF Exchange
  <2>2. PhaseTypes'
    BY <1>t, <1>14, TypeParts DEF Exchange, PhaseTypes
  <2>3. ExchangeTypes'
    BY <1>t, <1>u, <1>14, <2>1, TypeParts, ExchangeTyped DEF Exchange,
       ExchangeTypes, Status, Stops
  <2>4. TypeOK'
    BY <1>t, <2>1, <2>2, <2>3, <1>14, Kept, TypePartsNext DEF Exchange
  <2>5. Cursor'
    BY <1>t, <1>14, InExchange DEF Exchange, Typed, Cursor, runVars, scoreVars,
       Stops, Status
  <2> QED BY <2>4, <2>5 DEF Typed
<1>15. ASSUME NEW o \in {"continue", "abort", "fail"},
             Observe(o)
      PROVE  Typed'
  <2>1. request' = request
    BY <1>15 DEF Observe
  <2>2. PhaseTypes'
    BY <1>t, <1>15, TypeParts DEF Observe, PhaseTypes
  <2>3. RunTypes'
    BY <1>t, <1>15, <2>1, AbortTyped DEF Observe, Point, Asking
  <2>4. ExchangeTypes'
    BY <1>t, <1>u, <1>15, <2>1, TypeParts, ExchangeTyped DEF Observe,
       ExchangeTypes, Status, Stops
  <2>5. TypeOK'
    BY <1>t, <2>1, <2>2, <2>3, <2>4, <1>15, Kept, TypePartsNext DEF Observe
  <2>6. Cursor'
    BY <1>t, <1>15, InExchange DEF Observe, Typed, Cursor, runVars, scoreVars,
       Stops, Status
  <2> QED BY <2>5, <2>6 DEF Typed
<1>16. CASE Report
  <2>1. request' = request
    BY <1>16 DEF Report
  <2>2. PhaseTypes'
    BY <1>t, <1>16, TypeParts DEF Report, PhaseTypes
  <2>3. ExchangeTypes'
    BY <1>t, <1>u, <1>16, <2>1, TypeParts, ExchangeTyped DEF Report,
       ExchangeTypes, Status, Stops
  <2>4. TypeOK'
    BY <1>t, <2>1, <2>2, <2>3, <1>16, Kept, TypePartsNext DEF Report
  <2>5. Cursor'
    BY <1>t, <1>16, InExchange DEF Report, Typed, Cursor, runVars, scoreVars,
       Stops, Status
  <2> QED BY <2>4, <2>5 DEF Typed
<1>17. ASSUME NEW o \in {"continue", "abort", "fail", "unavailable"},
             TearDown(o)
      PROVE  Typed'
  <2>1. request' = request
    BY <1>17 DEF TearDown
  <2>2. PhaseTypes'
    BY <1>t, <1>17, TypeParts DEF TearDown, PhaseTypes
  <2>3. RunTypes'
    BY <1>t, <1>17, <2>1, AbortTyped DEF TearDown, Point, Asking
  <2>4. ExchangeTypes'
    BY <1>t, <1>u, <1>17, <2>1, TypeParts, ExchangeTyped DEF TearDown,
       ExchangeTypes, Status, Stops
  <2>5. TypeOK'
    BY <1>t, <2>1, <2>2, <2>3, <2>4, <1>17, Kept, TypePartsNext DEF TearDown
  <2>6. Cursor'
    BY <1>t, <1>17, InExchange DEF TearDown, Typed, Cursor, runVars, scoreVars,
       Stops, Status
  <2> QED BY <2>5, <2>6 DEF Typed
<1>18. CASE Record
  <2>1. request' = request
    BY <1>18 DEF Record
  <2>2. PhaseTypes'
    BY <1>t, <1>18, TypeParts DEF Record, PhaseTypes
  <2>3. ExchangeTypes'
    BY <1>t, <1>18, <2>1, TypeParts, Kept DEF Record, ExchangeTypes
  <2>4. ScoreTypes'
    BY <1>t, <1>u, <1>18, <2>1, RecordTyped, Kept DEF Record, ScoreTypes, Typed,
       Cursor
  <2>5. TypeOK'
    BY <1>t, <2>1, <2>2, <2>3, <2>4, <1>18, Kept, TypePartsNext DEF Record
  <2>6. Cursor'
    <3>1. at' = at + 1 /\ at' <= request.ends[source] /\ tally'.skipped = tally.skipped
      BY <1>t, <1>u, <1>18, <2>1, RecordTyped DEF Record, Typed, Cursor
    <3> QED BY <1>t, <1>u, <1>18, <3>1, Onward DEF Record, runVars, Typed, Cursor
  <2> QED BY <2>5, <2>6 DEF Typed
<1>19. ASSUME NEW outcome \in {"published", "failed", "skipped"},
             Publish(outcome)
      PROVE  Typed'
  <2>1. request' = request
    BY <1>19 DEF Publish
  <2>2. PhaseTypes'
    BY <1>t, <1>19, TypeParts DEF Publish, PhaseTypes
  <2>3. EndTypes'
    <3> DEFINE s == Len(publication) + 1
    <3>1. Published(s, outcome) \in [source: Nat,
                                    outcome: {"published", "failed", "skipped"},
                                    success: BOOLEAN]
      BY <1>t, TypeParts DEF Published, EndTypes
    <3> QED BY <1>t, <1>19, <3>1, TypeParts DEF Publish, EndTypes
  <2>4. TypeOK'
    BY <1>t, <2>1, <2>2, <2>3, <1>19, Kept, TypePartsNext DEF Publish
  <2>5. Cursor'
    BY <1>19, AtRest DEF Publish, runVars, exchange
  <2> QED BY <2>4, <2>5 DEF Typed
<1>20. CASE Count
  <2>1. request' = request
    BY <1>20 DEF Count
  <2>2. PhaseTypes'
    BY <1>t, <1>20, TypeParts DEF Count, PhaseTypes
  <2>3. RunTypes'
    <3>1. notRun' \in Nat
      BY <1>t, <1>r, <1>20, TypeParts DEF Count, ScoreTypes, Reached
    <3>2. report' \in [point: Point \cup {"none"}, notRun: Nat]
      BY <1>t, <1>20, <3>1, TypeParts DEF Count, RunTypes
    <3> QED BY <1>t, <1>20, <2>1, <3>2, TypeParts DEF Count, RunTypes
  <2>4. EndTypes'
    <3>1. notRun' \in Nat
      BY <1>t, <1>r, <1>20, TypeParts DEF Count, ScoreTypes, Reached
    <3> QED BY <1>t, <1>20, <3>1, TypeParts DEF Count, EndTypes
  <2>5. TypeOK'
    BY <1>t, <2>1, <2>2, <2>3, <2>4, <1>20, Kept, TypePartsNext DEF Count
  <2>6. Cursor'
    BY <1>20, AtRest DEF Count, exchange
  <2> QED BY <2>5, <2>6 DEF Typed
<1>21. ASSUME NEW o \in {"continue", "abort", "fail"},
             After(o)
      PROVE  Typed'
  <2>1. request' = request
    BY <1>21 DEF After
  <2>2. PhaseTypes'
    BY <1>t, <1>21, TypeParts DEF After, PhaseTypes
  <2>3. RunTypes'
    BY <1>t, <1>21, <2>1, TypeParts DEF After, RunTypes, Point
  <2>4. TypeOK'
    BY <1>t, <2>1, <2>2, <2>3, <1>21, Kept, TypePartsNext DEF After
  <2>5. Cursor'
    BY <1>21, AtRest DEF After, exchange
  <2> QED BY <2>4, <2>5 DEF Typed
<1>22. CASE Finish
  <2>1. request' = request
    BY <1>22 DEF Finish
  <2>2. PhaseTypes'
    BY <1>t, <1>22, TypeParts DEF Finish, PhaseTypes
  <2>3. EndTypes'
    BY <1>t, <1>22, TypeParts DEF Finish, EndTypes, RunStatus
  <2>4. TypeOK'
    BY <1>t, <2>1, <2>2, <2>3, <1>22, Kept, TypePartsNext DEF Finish
  <2>5. Cursor'
    BY <1>22, AtRest DEF Finish, runVars, exchange
  <2> QED BY <2>4, <2>5 DEF Typed
<1>23. CASE UNCHANGED vars
  <2>1. TypeOK'
    BY <1>t, <1>23, Kept, TypePartsNext DEF vars
  <2>2. Cursor'
    BY <1>t, <1>23 DEF Cursor, vars, runVars, exchange, scoreVars, Total, Documents,
                     StartOf, Variant
  <2> QED BY <2>1, <2>2 DEF Typed
<1> QED
  BY <1>1, <1>2, <1>3, <1>4, <1>5, <1>6, <1>7, <1>8, <1>9, <1>10, <1>11, <1>12,
     <1>13, <1>14, <1>15, <1>16, <1>17, <1>18, <1>19, <1>20, <1>21, <1>22, <1>23
     DEF Next, Step, Over

-----------------------------------------------------------------------------
(* The variants dealt with. *)

\* What is known of a recorded result.
LEMMA ResultTypes ==
  ASSUME TypeOK
  PROVE  /\ Len(results) \in Nat /\ DOMAIN results = 1..Len(results)
         /\ \A j \in DOMAIN results : /\ results[j].variant \in 1..Total
                                      /\ results[j].status \in Status
<1> DEFINE R == [variant: 1..Total, status: Status]
<1>1. results \in Seq(R)
  BY DEF TypeOK
<1>2. \A r \in R : r.variant \in 1..Total /\ r.status \in Status
  OBVIOUS
<1> HIDE DEF R
<1> QED BY <1>1, <1>2

\* A result is recorded, of an exchange or of a variant refused one.
Scored(outcome) ==
  /\ source \in Documents /\ at < request.ends[source]
  /\ Variant \notin request.excluded
  /\ RecordAs(outcome)
  /\ phase = "verify" /\ UNCHANGED <<phase, runVars>>

\* Only skipping a variant and recording its result change the tallies.
LEMMA Moves ==
  ASSUME Typed, [Next]_vars
  PROVE  /\ request' = request
         /\ \/ UNCHANGED scoreVars
            \/ Skip
            \/ \E outcome \in Status : Scored(outcome)
<1>0. Cursor BY DEF Typed
<1>1. CASE Fetch
  BY <1>1 DEF Fetch
<1>2. CASE FetchFails
  BY <1>2 DEF FetchFails
<1>3. ASSUME NEW o \in {"continue", "abort", "fail"},
             Begin(o)
      PROVE  /\ request' = request
             /\ UNCHANGED scoreVars \/ Skip \/ \E outcome_ \in Status : Scored(outcome_)
  BY <1>3 DEF Begin
<1>4. CASE CloseSource
  BY <1>4 DEF CloseSource
<1>5. CASE CloseLast
  BY <1>5 DEF CloseLast
<1>6. CASE EndEarly
  BY <1>6 DEF EndEarly
<1>7. CASE Skip
  BY <1>7 DEF Skip
<1>8. CASE Refuse
  <2>1. Scored("failed")
    BY <1>8 DEF Refuse, AtVariant, Scored
  <2> QED BY <2>1, <1>8 DEF Refuse, Status
<1>9. CASE Start
  BY <1>9 DEF Start
<1>10. CASE FailUnhandled
  BY <1>10 DEF FailUnhandled
<1>11. ASSUME NEW o \in {"continue", "abort", "fail", "unavailable"},
             SetUp(o)
      PROVE  /\ request' = request
             /\ UNCHANGED scoreVars \/ Skip \/ \E outcome_ \in Status : Scored(outcome_)
  BY <1>11 DEF SetUp
<1>12. CASE Unsendable
  BY <1>12 DEF Unsendable
<1>13. ASSUME NEW o \in {"continue", "abort", "fail"},
             Ask(o)
      PROVE  /\ request' = request
             /\ UNCHANGED scoreVars \/ Skip \/ \E outcome_ \in Status : Scored(outcome_)
  BY <1>13 DEF Ask
<1>14. ASSUME NEW outcome \in {"verified", "failed"}, NEW replied \in BOOLEAN,
             Exchange(outcome, replied)
      PROVE  /\ request' = request
             /\ UNCHANGED scoreVars \/ Skip \/ \E outcome_ \in Status : Scored(outcome_)
  BY <1>14 DEF Exchange
<1>15. ASSUME NEW o \in {"continue", "abort", "fail"},
             Observe(o)
      PROVE  /\ request' = request
             /\ UNCHANGED scoreVars \/ Skip \/ \E outcome_ \in Status : Scored(outcome_)
  BY <1>15 DEF Observe
<1>16. CASE Report
  BY <1>16 DEF Report
<1>17. ASSUME NEW o \in {"continue", "abort", "fail", "unavailable"},
             TearDown(o)
      PROVE  /\ request' = request
             /\ UNCHANGED scoreVars \/ Skip \/ \E outcome_ \in Status : Scored(outcome_)
  BY <1>17 DEF TearDown
<1>18. CASE Record
  <2>1. Scored(status) /\ status \in Status
    BY <1>0, <1>18 DEF Record, Cursor, Scored
  <2> QED BY <2>1, <1>18 DEF Record
<1>19. ASSUME NEW outcome \in {"published", "failed", "skipped"},
             Publish(outcome)
      PROVE  /\ request' = request
             /\ UNCHANGED scoreVars \/ Skip \/ \E outcome_ \in Status : Scored(outcome_)
  BY <1>19 DEF Publish
<1>20. CASE Count
  BY <1>20 DEF Count
<1>21. ASSUME NEW o \in {"continue", "abort", "fail"},
             After(o)
      PROVE  /\ request' = request
             /\ UNCHANGED scoreVars \/ Skip \/ \E outcome_ \in Status : Scored(outcome_)
  BY <1>21 DEF After
<1>22. CASE Finish
  BY <1>22 DEF Finish
<1>23. CASE UNCHANGED vars
  BY <1>23 DEF vars
<1> QED
  BY <1>1, <1>2, <1>3, <1>4, <1>5, <1>6, <1>7, <1>8, <1>9, <1>10, <1>11, <1>12,
     <1>13, <1>14, <1>15, <1>16, <1>17, <1>18, <1>19, <1>20, <1>21, <1>22, <1>23
     DEF Next, Step, Over

\* Results are in the order of the variants, one for each dealt with and not
\* skipped.
Results ==
  /\ \A j \in DOMAIN results : results[j].variant <= at
  /\ \A i, j \in DOMAIN results :
       i < j => results[i].variant < results[j].variant
  /\ \A v \in 1..Total :
       (\E j \in DOMAIN results : results[j].variant = v)
         <=> v <= at /\ v \notin request.excluded

\* Every variant dealt with is in a document.
Located ==
  \A v \in 1..at : \E s \in Documents : v \in VariantsOf(s)

\* The results, one of them new.
LEMMA NewResult ==
  ASSUME Typed, NEW outcome \in Status, Scored(outcome), request' = request
  PROVE  /\ at' = at + 1 /\ at \in Nat /\ Len(results) \in Nat
         /\ Variant = at + 1 /\ Variant \in 1..Total
         /\ Total' = Total /\ Documents' = Documents
         /\ tally' = Tallied(outcome)
         /\ DOMAIN results = 1..Len(results)
         /\ DOMAIN results' = 1..Len(results) + 1
         /\ Len(results') = Len(results) + 1
         /\ \A j \in 1..Len(results) : /\ results'[j] = results[j]
                                       /\ results[j].variant \in 1..Total
                                       /\ results[j].status \in Status
         /\ results'[Len(results) + 1]
              = [variant |-> Variant, status |-> outcome]
<1>1. results \in Seq([variant: 1..Total, status: Status]) /\ at \in 0..Total
      /\ request \in Requests
  BY DEF Typed, TypeOK
<1>2. at \in Nat
  BY <1>1, RequestFacts
<1>3. Variant \in 1..Total /\ Variant = at + 1
  BY AtHand DEF Scored, Variant
<1>4. results' = Append(results, [variant |-> Variant, status |-> outcome])
      /\ at' = at + 1 /\ tally' = Tallied(outcome)
  BY DEF Scored, RecordAs
<1>5. \A j \in 1..Len(results) : results[j].variant \in 1..Total /\ results[j].status \in Status
  BY ResultTypes DEF Typed
<1> DEFINE r == [variant |-> Variant, status |-> outcome]
<1>6. /\ Len(results) \in Nat /\ DOMAIN results = 1..Len(results)
      /\ Len(results') = Len(results) + 1
      /\ DOMAIN results' = 1..Len(results) + 1
      /\ \A j \in 1..Len(results) : results'[j] = results[j]
      /\ results'[Len(results) + 1] = r
  <2> r \in [variant: 1..Total, status: Status]
    BY <1>3
  <2> HIDE DEF r
  <2> QED BY <1>1, <1>4 DEF r
<1>7. Total' = Total /\ Documents' = Documents
  BY DEF Total, Documents
<1> QED BY <1>2, <1>3, <1>4, <1>5, <1>6, <1>7

\* Results stay in order, one for each variant dealt with and not skipped.
LEMMA StepResults ==
  ASSUME Typed, Typed', [Next]_vars, Results
  PROVE  Results'
<1>0. request' = request /\ Total' = Total /\ at \in Nat
  <2>1. request \in Requests /\ at \in 0..Total
    BY DEF Typed, TypeOK
  <2> QED BY <2>1, Moves, RequestFacts DEF Total
<1>t. \A j \in DOMAIN results : results[j].variant \in 1..Total
  BY ResultTypes DEF Typed
<1>1. CASE UNCHANGED scoreVars
  BY <1>0, <1>1 DEF Results, scoreVars
<1>2. CASE Skip
  <2>1. at' = at + 1 /\ results' = results /\ at + 1 \in request.excluded
    BY <1>2 DEF Skip, Variant
  <2>2. \A v \in 1..Total : v <= at + 1 /\ v \notin request.excluded
                              <=> v <= at /\ v \notin request.excluded
    BY <1>0, <2>1
  <2>3. \A j \in DOMAIN results : results[j].variant <= at + 1
    BY <1>0, <1>t DEF Results
  <2> QED BY <1>0, <2>1, <2>2, <2>3 DEF Results
<1>3. ASSUME NEW outcome \in Status, Scored(outcome)
      PROVE  Results'
  <2> DEFINE n == Len(results)
  <2>1. at + 1 \notin request.excluded
    BY <1>3 DEF Scored, Variant
  <2>0. /\ n \in Nat /\ DOMAIN results = 1..n /\ DOMAIN results' = 1..n + 1
        /\ at' = at + 1
        /\ \A j \in 1..n : results'[j].variant = results[j].variant
        /\ results'[n + 1].variant = at + 1
    <3>1. /\ n \in Nat /\ DOMAIN results = 1..n /\ DOMAIN results' = 1..n + 1
          /\ at' = at + 1
          /\ \A j \in 1..n : results'[j] = results[j]
      BY <1>0, <1>3, NewResult
    <3>2. results'[n + 1] = [variant |-> Variant, status |-> outcome]
          /\ Variant = at + 1
      BY <1>0, <1>3, NewResult
    <3> QED BY <3>1, <3>2
  <2> HIDE DEF n
  <2>2. \A j \in DOMAIN results' : results'[j].variant <= at'
    BY <1>0, <1>t, <2>0 DEF Results
  <2>3. \A i, j \in DOMAIN results' :
          i < j => results'[i].variant < results'[j].variant
    BY <1>0, <1>t, <2>0 DEF Results
  <2>4. ASSUME NEW v \in 1..Total
        PROVE  (\E j \in DOMAIN results' : results'[j].variant = v)
                 <=> v <= at' /\ v \notin request.excluded
    <3>1. (\E j \in DOMAIN results' : results'[j].variant = v)
            <=> (\E j \in DOMAIN results : results[j].variant = v) \/ v = at + 1
      BY <2>0
    <3> QED BY <1>0, <2>0, <2>1, <3>1 DEF Results
  <2> QED BY <1>0, <2>2, <2>3, <2>4 DEF Results
<1> QED BY <1>1, <1>2, <1>3, Moves

\* Variants dealt with stay in a document.
LEMMA StepLocated ==
  ASSUME Typed, [Next]_vars, Located
  PROVE  Located'
<1>0. request' = request /\ at \in Nat /\ Documents' = Documents
      /\ request \in Requests
  BY Moves, RequestFacts DEF Documents, Typed, TypeOK
<1>1. CASE UNCHANGED scoreVars
  BY <1>0, <1>1 DEF Located, scoreVars, VariantsOf, StartOf
<1>2. CASE at' = at + 1 /\ source \in Documents /\ at < request.ends[source]
  <2>1. \A s \in Documents : VariantsOf(s)' = VariantsOf(s)
    BY <1>0 DEF VariantsOf, StartOf
  <2>2. /\ \A s \in Documents : request.ends[s] \in Nat
        /\ StartOf(source) <= at
    BY <1>0, <1>2, RequestFacts DEF Typed, Cursor
  <2>3. at + 1 \in VariantsOf(source)
    BY <1>0, <1>2, <2>2 DEF VariantsOf, StartOf, Documents
  <2> QED BY <1>0, <1>2, <2>1, <2>3 DEF Located
<1>3. (Skip \/ \E outcome \in Status : Scored(outcome)) =>
        at' = at + 1 /\ source \in Documents /\ at < request.ends[source]
  BY <1>0, NewResult DEF Skip, AtVariant, Scored
<1> QED BY <1>1, <1>2, <1>3, Moves

-----------------------------------------------------------------------------
(* What the run counts. *)

\* A run that neither stopped nor was aborted met every document.
Whole ==
  phase \in {"publish", "after", "finish", "ended"}
      /\ aborted = "none" /\ ~stopped
    => source \notin Documents

Counted ==
  /\ Reached = at
  /\ phase \in {"after", "finish", "ended"} => Reached + notRun = Total

\* Only CloseLast, and an end that is stopped or aborted, reach publication.
LEMMA StepWhole ==
  ASSUME Typed, [Next]_vars, Whole
  PROVE  Whole'
<1>0. request' = request /\ Documents' = Documents /\ Cursor
  BY Moves DEF Documents, Typed
<1>1. CASE Fetch
  BY <1>0, <1>1 DEF Fetch, AtVariant, Whole, runVars, Cursor
<1>2. CASE FetchFails
  BY <1>0, <1>2 DEF FetchFails, AtVariant, Whole, runVars, Cursor
<1>3. ASSUME NEW o \in {"continue", "abort", "fail"},
             Begin(o)
      PROVE  Whole'
  BY <1>0, <1>3 DEF Begin, Aborts, Whole
<1>4. CASE CloseSource
  BY <1>0, <1>4 DEF CloseSource, AtVariant, Whole, runVars, Cursor
<1>5. CASE CloseLast
  BY <1>0, <1>5 DEF CloseLast, AtVariant, Whole, runVars, Cursor
<1>6. CASE EndEarly
  BY <1>0, <1>6 DEF EndEarly, Whole
<1>7. CASE Skip
  BY <1>0, <1>7 DEF Skip, AtVariant, Whole, runVars, Cursor
<1>8. CASE Refuse
  BY <1>0, <1>8 DEF Refuse, AtVariant, Whole, runVars, Cursor
<1>9. CASE Start
  BY <1>0, <1>9 DEF Start, AtVariant, Whole, runVars, Cursor
<1>10. CASE FailUnhandled
  BY <1>0, <1>10 DEF FailUnhandled, AtVariant, Whole, runVars, Cursor
<1>11. ASSUME NEW o \in {"continue", "abort", "fail", "unavailable"},
             SetUp(o)
      PROVE  Whole'
  BY <1>0, <1>11 DEF SetUp, AtVariant, Whole, runVars, Cursor
<1>12. CASE Unsendable
  BY <1>0, <1>12 DEF Unsendable, AtVariant, Whole, runVars, Cursor
<1>13. ASSUME NEW o \in {"continue", "abort", "fail"},
             Ask(o)
      PROVE  Whole'
  BY <1>0, <1>13 DEF Ask, AtVariant, Whole, runVars, Cursor
<1>14. ASSUME NEW outcome \in {"verified", "failed"}, NEW replied \in BOOLEAN,
             Exchange(outcome, replied)
      PROVE  Whole'
  BY <1>0, <1>14 DEF Exchange, AtVariant, Whole, runVars, Cursor
<1>15. ASSUME NEW o \in {"continue", "abort", "fail"},
             Observe(o)
      PROVE  Whole'
  BY <1>0, <1>15 DEF Observe, AtVariant, Whole, runVars, Cursor
<1>16. CASE Report
  BY <1>0, <1>16 DEF Report, AtVariant, Whole, runVars, Cursor
<1>17. ASSUME NEW o \in {"continue", "abort", "fail", "unavailable"},
             TearDown(o)
      PROVE  Whole'
  BY <1>0, <1>17 DEF TearDown, AtVariant, Whole, runVars, Cursor
<1>18. CASE Record
  BY <1>0, <1>18 DEF Record, AtVariant, Whole, runVars, Cursor
<1>19. ASSUME NEW outcome \in {"published", "failed", "skipped"},
             Publish(outcome)
      PROVE  Whole'
  BY <1>0, <1>19 DEF Publish, AtVariant, Whole, runVars, Cursor
<1>20. CASE Count
  BY <1>0, <1>20 DEF Count, AtVariant, Whole, runVars, Cursor
<1>21. ASSUME NEW o \in {"continue", "abort", "fail"},
             After(o)
      PROVE  Whole'
  BY <1>0, <1>21 DEF After, AtVariant, Whole, runVars, Cursor
<1>22. CASE Finish
  BY <1>0, <1>22 DEF Finish, AtVariant, Whole, runVars, Cursor
<1>23. CASE UNCHANGED vars
  BY <1>0, <1>23 DEF vars, runVars, exchange, scoreVars, endVars, Whole
<1> QED
  BY <1>1, <1>2, <1>3, <1>4, <1>5, <1>6, <1>7, <1>8, <1>9, <1>10, <1>11, <1>12,
     <1>13, <1>14, <1>15, <1>16, <1>17, <1>18, <1>19, <1>20, <1>21, <1>22, <1>23
     DEF Next, Step, Over

\* Each variant dealt with is counted once.
LEMMA StepReached ==
  ASSUME Typed, [Next]_vars, Reached = at
  PROVE  Reached' = at'
<1>1. tally \in [verified: Nat, failed: Nat, unavailable: Nat, skipped: Nat,
                pendingFailed: Nat]
  BY DEF Typed, TypeOK
<1>2. CASE UNCHANGED scoreVars
  BY <1>2 DEF Reached, scoreVars
<1>3. CASE Skip
  BY <1>1, <1>3 DEF Skip, Reached
<1>4. ASSUME NEW outcome \in Status, Scored(outcome)
      PROVE  Reached' = at'
  <2>1. tally' = Tallied(outcome) /\ at' = at + 1
    BY <1>4, Moves, NewResult
  <2>2. tally'.verified + tally'.failed + tally'.unavailable
          = tally.verified + tally.failed + tally.unavailable + 1
        /\ tally'.skipped = tally.skipped
    BY <2>1, TalliedFacts DEF Typed
  <2>3. tally' \in [verified: Nat, failed: Nat, unavailable: Nat, skipped: Nat,
                  pendingFailed: Nat]
    BY <2>1, TalliedFacts DEF Typed
  <2> QED BY <1>1, <2>1, <2>2, <2>3 DEF Reached
<1> QED BY <1>2, <1>3, <1>4, Moves

\* What is not run is what is left.
LEMMA StepCounted ==
  ASSUME Typed, [Next]_vars, Whole, Counted
  PROVE  Counted'
<1>1. Reached' = at'
  BY StepReached DEF Counted
<1>2. request' = request /\ Total' = Total /\ Cursor /\ Reached = at
      /\ Total \in Nat /\ at \in 0..Total
  BY Moves, RequestFacts DEF Total, Typed, TypeOK, Counted
<1> SUFFICES phase' \in {"after", "finish", "ended"} => at' + notRun' = Total
  BY <1>1, <1>2 DEF Counted
<1> DEFINE Rest == phase' \in {"after", "finish", "ended"} => at' + notRun' = Total
<1>3. CASE Fetch
  BY <1>2, <1>3 DEF Fetch, AtVariant, Cursor
<1>4. CASE FetchFails
  BY <1>2, <1>4 DEF FetchFails, AtVariant, Cursor
<1>5. ASSUME NEW o \in {"continue", "abort", "fail"},
             Begin(o)
      PROVE  Rest
  BY <1>2, <1>5 DEF Begin, AtVariant, Cursor
<1>6. CASE CloseSource
  BY <1>2, <1>6 DEF CloseSource, AtVariant, Cursor
<1>7. CASE CloseLast
  BY <1>2, <1>7 DEF CloseLast, AtVariant, Cursor
<1>8. CASE EndEarly
  BY <1>2, <1>8 DEF EndEarly, AtVariant, Cursor
<1>9. CASE Skip
  BY <1>2, <1>9 DEF Skip, AtVariant, Cursor
<1>10. CASE Refuse
  BY <1>2, <1>10 DEF Refuse, AtVariant, Cursor
<1>11. CASE Start
  BY <1>2, <1>11 DEF Start, AtVariant, Cursor
<1>12. CASE FailUnhandled
  BY <1>2, <1>12 DEF FailUnhandled, AtVariant, Cursor
<1>13. ASSUME NEW o \in {"continue", "abort", "fail", "unavailable"},
             SetUp(o)
      PROVE  Rest
  BY <1>2, <1>13 DEF SetUp, AtVariant, Cursor
<1>14. CASE Unsendable
  BY <1>2, <1>14 DEF Unsendable, AtVariant, Cursor
<1>15. ASSUME NEW o \in {"continue", "abort", "fail"},
             Ask(o)
      PROVE  Rest
  BY <1>2, <1>15 DEF Ask, AtVariant, Cursor
<1>16. ASSUME NEW outcome \in {"verified", "failed"}, NEW replied \in BOOLEAN,
             Exchange(outcome, replied)
      PROVE  Rest
  BY <1>2, <1>16 DEF Exchange, AtVariant, Cursor
<1>17. ASSUME NEW o \in {"continue", "abort", "fail"},
             Observe(o)
      PROVE  Rest
  BY <1>2, <1>17 DEF Observe, AtVariant, Cursor
<1>18. CASE Report
  BY <1>2, <1>18 DEF Report, AtVariant, Cursor
<1>19. ASSUME NEW o \in {"continue", "abort", "fail", "unavailable"},
             TearDown(o)
      PROVE  Rest
  BY <1>2, <1>19 DEF TearDown, AtVariant, Cursor
<1>20. CASE Record
  BY <1>2, <1>20 DEF Record, AtVariant, Cursor
<1>21. ASSUME NEW outcome \in {"published", "failed", "skipped"},
             Publish(outcome)
      PROVE  Rest
  BY <1>2, <1>21 DEF Publish, AtVariant, Cursor
<1>22. CASE Count
  BY <1>2, <1>22 DEF Count, scoreVars, Whole, Cursor
<1>23. ASSUME NEW o \in {"continue", "abort", "fail"},
             After(o)
      PROVE  Rest
  BY <1>2, <1>23 DEF After, scoreVars, endVars, Counted
<1>24. CASE Finish
  BY <1>2, <1>24 DEF Finish, scoreVars, endVars, Counted
<1>25. CASE UNCHANGED vars
  BY <1>2, <1>25 DEF vars, scoreVars, endVars, Counted
<1> QED
  BY <1>3, <1>4, <1>5, <1>6, <1>7, <1>8, <1>9, <1>10, <1>11, <1>12, <1>13, <1>14,
     <1>15, <1>16, <1>17, <1>18, <1>19, <1>20, <1>21, <1>22, <1>23, <1>24, <1>25
     DEF Next, Step, Over

-----------------------------------------------------------------------------
(* Failures. *)

\* No failure is counted without a result, and a run that stops at the first
\* one starts no exchange after it.
Failures ==
  /\ Failing >= 0
  /\ Failing = 0 => \A j \in DOMAIN results : ~FailsRun(results[j])
  /\ request.stopOnFailure /\ step # "next" => Failing = 0
  /\ stopped => Failing > 0

\* The failures that fail the run are a number.
LEMMA FailingInt == TypeOK => Failing \in Int
BY DEF TypeOK, Failing

\* Failures are only added, and one for each result that fails the run.
LEMMA StepFailing ==
  ASSUME Typed, [Next]_vars, Failing >= 0,
         Failing = 0 => \A j \in DOMAIN results : ~FailsRun(results[j])
  PROVE  /\ Failing' >= Failing
         /\ Failing' = 0 => \A j \in DOMAIN results' : ~FailsRun(results[j])'
<1>0. request' = request /\ Failing \in Int
  BY Moves, FailingInt DEF Typed
<1>1. tally \in [verified: Nat, failed: Nat, unavailable: Nat, skipped: Nat,
                pendingFailed: Nat]
  BY DEF Typed, TypeOK
<1>2. CASE UNCHANGED scoreVars
  BY <1>0, <1>2 DEF scoreVars, Failing, FailsRun
<1>3. CASE Skip
  BY <1>0, <1>1, <1>3 DEF Skip, Failing, FailsRun
<1>4. ASSUME NEW outcome \in Status, Scored(outcome)
      PROVE  /\ Failing' >= Failing
             /\ Failing' = 0 => \A j \in DOMAIN results' : ~FailsRun(results[j])'
  <2> DEFINE n == Len(results)
  <2>1. tally' = Tallied(outcome)
    BY <1>0, <1>4, NewResult
  <2>2. Failing' = Failing + (IF outcome # "verified" /\ Variant \notin request.pending
                              THEN 1 ELSE 0)
    BY <2>1, TalliedFacts DEF Typed, Failing
  <2>3. /\ n \in Nat /\ DOMAIN results = 1..n /\ DOMAIN results' = 1..n + 1
        /\ \A j \in 1..n : results'[j] = results[j]
        /\ results'[n + 1] = [variant |-> Variant, status |-> outcome]
    BY <1>0, <1>4, NewResult
  <2>4. Failing' = 0 => /\ Failing = 0
                        /\ outcome = "verified" \/ Variant \in request.pending
    BY <1>0, <2>2
  <2>5. Failing' >= Failing
    BY <1>0, <2>2
  <2>6. ASSUME Failing' = 0, NEW j \in DOMAIN results'
        PROVE  ~FailsRun(results[j])'
    <3>1. CASE j \in 1..n
      BY <1>0, <2>3, <2>4, <2>6, <3>1 DEF FailsRun
    <3>2. CASE j = n + 1
      BY <1>0, <2>3, <2>4, <2>6, <3>2 DEF FailsRun
    <3> QED BY <2>3, <3>1, <3>2
  <2> QED BY <2>5, <2>6
<1> QED BY <1>2, <1>3, <1>4, Moves

\* When no failure may go by, none is counted while a result is recorded.
LEMMA ScoredWhole ==
  ASSUME Typed, [Next]_vars, Failures, request.stopOnFailure
  PROVE  /\ at' # at => Failing = 0
         /\ step' # "next" => Failing = 0 /\ at' = at
<1>0. Failing \in Int
  BY FailingInt DEF Typed
<1>1. CASE Fetch
  BY <1>0, <1>1 DEF Fetch, AtVariant, EndsEarly, exchange, scoreVars, Failures
<1>2. CASE FetchFails
  BY <1>0, <1>2 DEF FetchFails, AtVariant, EndsEarly, exchange, scoreVars, Failures
<1>3. ASSUME NEW o \in {"continue", "abort", "fail"},
             Begin(o)
      PROVE  /\ at' # at => Failing = 0
             /\ step' # "next" => Failing = 0 /\ at' = at
  BY <1>0, <1>3 DEF Begin, AtVariant, EndsEarly, exchange, scoreVars, Failures
<1>4. CASE CloseSource
  BY <1>0, <1>4 DEF CloseSource, AtVariant, EndsEarly, exchange, scoreVars, Failures
<1>5. CASE CloseLast
  BY <1>0, <1>5 DEF CloseLast, AtVariant, EndsEarly, exchange, scoreVars, Failures
<1>6. CASE EndEarly
  BY <1>0, <1>6 DEF EndEarly, AtVariant, EndsEarly, exchange, scoreVars, Failures
<1>7. CASE Skip
  BY <1>0, <1>7 DEF Skip, AtVariant, EndsEarly, exchange, scoreVars, Failures
<1>8. CASE Refuse
  BY <1>0, <1>8 DEF Refuse, AtVariant, EndsEarly, exchange, scoreVars, Failures
<1>9. CASE Start
  BY <1>0, <1>9 DEF Start, AtVariant, EndsEarly, exchange, scoreVars, Failures
<1>10. CASE FailUnhandled
  BY <1>0, <1>10 DEF FailUnhandled, AtVariant, EndsEarly, exchange, scoreVars,
     Failures
<1>11. ASSUME NEW o \in {"continue", "abort", "fail", "unavailable"},
             SetUp(o)
      PROVE  /\ at' # at => Failing = 0
             /\ step' # "next" => Failing = 0 /\ at' = at
  BY <1>0, <1>11 DEF SetUp, AtVariant, EndsEarly, exchange, scoreVars, Failures
<1>12. CASE Unsendable
  BY <1>0, <1>12 DEF Unsendable, AtVariant, EndsEarly, exchange, scoreVars, Failures
<1>13. ASSUME NEW o \in {"continue", "abort", "fail"},
             Ask(o)
      PROVE  /\ at' # at => Failing = 0
             /\ step' # "next" => Failing = 0 /\ at' = at
  BY <1>0, <1>13 DEF Ask, AtVariant, EndsEarly, exchange, scoreVars, Failures
<1>14. ASSUME NEW outcome \in {"verified", "failed"}, NEW replied \in BOOLEAN,
             Exchange(outcome, replied)
      PROVE  /\ at' # at => Failing = 0
             /\ step' # "next" => Failing = 0 /\ at' = at
  BY <1>0, <1>14 DEF Exchange, AtVariant, EndsEarly, exchange, scoreVars, Failures
<1>15. ASSUME NEW o \in {"continue", "abort", "fail"},
             Observe(o)
      PROVE  /\ at' # at => Failing = 0
             /\ step' # "next" => Failing = 0 /\ at' = at
  BY <1>0, <1>15 DEF Observe, AtVariant, EndsEarly, exchange, scoreVars, Failures
<1>16. CASE Report
  BY <1>0, <1>16 DEF Report, AtVariant, EndsEarly, exchange, scoreVars, Failures
<1>17. ASSUME NEW o \in {"continue", "abort", "fail", "unavailable"},
             TearDown(o)
      PROVE  /\ at' # at => Failing = 0
             /\ step' # "next" => Failing = 0 /\ at' = at
  BY <1>0, <1>17 DEF TearDown, AtVariant, EndsEarly, exchange, scoreVars, Failures
<1>18. CASE Record
  BY <1>0, <1>18 DEF Record, AtVariant, EndsEarly, exchange, scoreVars, Failures
<1>19. ASSUME NEW outcome \in {"published", "failed", "skipped"},
             Publish(outcome)
      PROVE  /\ at' # at => Failing = 0
             /\ step' # "next" => Failing = 0 /\ at' = at
  BY <1>0, <1>19 DEF Publish, AtVariant, EndsEarly, exchange, scoreVars, Failures
<1>20. CASE Count
  BY <1>0, <1>20 DEF Count, AtVariant, EndsEarly, exchange, scoreVars, Failures
<1>21. ASSUME NEW o \in {"continue", "abort", "fail"},
             After(o)
      PROVE  /\ at' # at => Failing = 0
             /\ step' # "next" => Failing = 0 /\ at' = at
  BY <1>0, <1>21 DEF After, AtVariant, EndsEarly, exchange, scoreVars, Failures
<1>22. CASE Finish
  BY <1>0, <1>22 DEF Finish, AtVariant, EndsEarly, exchange, scoreVars, Failures
<1>23. CASE UNCHANGED vars
  BY <1>23 DEF vars, exchange, scoreVars, Failures
<1> QED
  BY <1>1, <1>2, <1>3, <1>4, <1>5, <1>6, <1>7, <1>8, <1>9, <1>10, <1>11, <1>12,
     <1>13, <1>14, <1>15, <1>16, <1>17, <1>18, <1>19, <1>20, <1>21, <1>22, <1>23
     DEF Next, Step, Over

\* A run only stops on a failure it has counted.
LEMMA StepStopped ==
  ASSUME Typed, [Next]_vars, Failures
  PROVE  stopped' => stopped \/ (Failing > 0 /\ UNCHANGED tally)
<1>0. Failing \in Int
  BY FailingInt DEF Typed
<1>1. CASE Fetch
  BY <1>1 DEF Fetch, runVars
<1>2. CASE FetchFails
  BY <1>2 DEF FetchFails, runVars
<1>3. ASSUME NEW o \in {"continue", "abort", "fail"},
             Begin(o)
      PROVE  stopped' => stopped \/ (Failing > 0 /\ UNCHANGED tally)
  BY <1>3 DEF Begin, runVars
<1>4. CASE CloseSource
  BY <1>4 DEF CloseSource, runVars
<1>5. CASE CloseLast
  BY <1>5 DEF CloseLast, runVars
<1>6. CASE EndEarly
  BY <1>0, <1>6 DEF EndEarly, EndsEarly, scoreVars, Failures
<1>7. CASE Skip
  BY <1>7 DEF Skip, runVars
<1>8. CASE Refuse
  BY <1>8 DEF Refuse, runVars
<1>9. CASE Start
  BY <1>9 DEF Start, runVars
<1>10. CASE FailUnhandled
  BY <1>10 DEF FailUnhandled, runVars
<1>11. ASSUME NEW o \in {"continue", "abort", "fail", "unavailable"},
             SetUp(o)
      PROVE  stopped' => stopped \/ (Failing > 0 /\ UNCHANGED tally)
  BY <1>11 DEF SetUp, runVars
<1>12. CASE Unsendable
  BY <1>12 DEF Unsendable, runVars
<1>13. ASSUME NEW o \in {"continue", "abort", "fail"},
             Ask(o)
      PROVE  stopped' => stopped \/ (Failing > 0 /\ UNCHANGED tally)
  BY <1>13 DEF Ask, runVars
<1>14. ASSUME NEW outcome \in {"verified", "failed"}, NEW replied \in BOOLEAN,
             Exchange(outcome, replied)
      PROVE  stopped' => stopped \/ (Failing > 0 /\ UNCHANGED tally)
  BY <1>14 DEF Exchange, runVars
<1>15. ASSUME NEW o \in {"continue", "abort", "fail"},
             Observe(o)
      PROVE  stopped' => stopped \/ (Failing > 0 /\ UNCHANGED tally)
  BY <1>15 DEF Observe, runVars
<1>16. CASE Report
  BY <1>16 DEF Report, runVars
<1>17. ASSUME NEW o \in {"continue", "abort", "fail", "unavailable"},
             TearDown(o)
      PROVE  stopped' => stopped \/ (Failing > 0 /\ UNCHANGED tally)
  BY <1>17 DEF TearDown, runVars
<1>18. CASE Record
  BY <1>18 DEF Record, runVars
<1>19. ASSUME NEW outcome \in {"published", "failed", "skipped"},
             Publish(outcome)
      PROVE  stopped' => stopped \/ (Failing > 0 /\ UNCHANGED tally)
  BY <1>19 DEF Publish, runVars
<1>20. CASE Count
  BY <1>20 DEF Count, runVars
<1>21. ASSUME NEW o \in {"continue", "abort", "fail"},
             After(o)
      PROVE  stopped' => stopped \/ (Failing > 0 /\ UNCHANGED tally)
  BY <1>21 DEF After, runVars
<1>22. CASE Finish
  BY <1>22 DEF Finish, runVars
<1>23. CASE UNCHANGED vars
  BY <1>23 DEF vars, runVars
<1> QED
  BY <1>1, <1>2, <1>3, <1>4, <1>5, <1>6, <1>7, <1>8, <1>9, <1>10, <1>11, <1>12,
     <1>13, <1>14, <1>15, <1>16, <1>17, <1>18, <1>19, <1>20, <1>21, <1>22, <1>23
     DEF Next, Step, Over

\* No step loses a failure.
LEMMA StepFailures ==
  ASSUME Typed, Typed', [Next]_vars, Failures
  PROVE  Failures'
<1>1. Failing \in Int /\ Failing' \in Int /\ request' = request
  <2>1. TypeOK' => Failing' \in Int
    BY DEF TypeOK, Failing
  <2> QED BY <2>1, FailingInt, Moves DEF Typed
<1>2. /\ Failing' >= Failing
      /\ Failing' = 0 => \A j \in DOMAIN results' : ~FailsRun(results[j])'
  BY StepFailing DEF Failures
<1>3. request.stopOnFailure /\ step' # "next" => Failing' = 0
  <2> SUFFICES ASSUME request.stopOnFailure, step' # "next" PROVE Failing' = 0
    OBVIOUS
  <2>1. Failing = 0 /\ at' = at
    BY ScoredWhole
  <2>2. UNCHANGED scoreVars
    <3>1. Skip => at' = at + 1 /\ at \in Nat
      BY RequestFacts DEF Skip, Typed, TypeOK
    <3>2. \A outcome \in Status : Scored(outcome) => at' = at + 1 /\ at \in Nat
      BY NewResult, <1>1
    <3> QED BY <2>1, <3>1, <3>2, Moves
  <2> QED BY <2>1, <2>2 DEF scoreVars, Failing
<1>4. stopped' => Failing' > 0
  <2>1. UNCHANGED tally => Failing' = Failing
    BY DEF Failing
  <2> QED BY <1>1, <1>2, <2>1, StepStopped DEF Failures
<1> QED BY <1>1, <1>2, <1>3, <1>4 DEF Failures

\* No step follows the first failure with another variant.
LEMMA StepStopsAtFirstFailure ==
  ASSUME Typed, [Next]_vars, Failures, StopsAtFirstFailure
  PROVE  StopsAtFirstFailure'
<1>0. request' = request
  BY Moves
<1> SUFFICES ASSUME request.stopOnFailure, NEW j \in DOMAIN results',
                    FailsRun(results[j])'
             PROVE  j = Len(results') /\ at' = results'[j].variant
  BY <1>0 DEF StopsAtFirstFailure
<1>1. CASE UNCHANGED scoreVars
  BY <1>0, <1>1 DEF StopsAtFirstFailure, scoreVars, FailsRun
<1>2. CASE Skip
  <2>1. Failing = 0
    <3>1. at' # at
      BY <1>2, RequestFacts DEF Skip, Typed, TypeOK
    <3> QED BY <3>1, ScoredWhole
  <2> QED BY <1>0, <1>2, <2>1 DEF Failures, Skip, FailsRun
<1>3. ASSUME NEW outcome \in Status, Scored(outcome)
      PROVE  j = Len(results') /\ at' = results'[j].variant
  <2> DEFINE n == Len(results)
  <2>1. /\ n \in Nat /\ DOMAIN results = 1..n /\ DOMAIN results' = 1..n + 1
        /\ Len(results') = n + 1 /\ at' = at + 1 /\ at \in Nat
        /\ \A i \in 1..n : results'[i] = results[i]
        /\ results'[n + 1] = [variant |-> Variant, status |-> outcome]
        /\ Variant = at + 1
    BY <1>0, <1>3, NewResult
  <2>2. Failing = 0
    BY <2>1, ScoredWhole
  <2>3. j \notin 1..n
    BY <1>0, <2>1, <2>2 DEF Failures, FailsRun
  <2>4. j = n + 1
    BY <2>1, <2>3
  <2> QED BY <2>1, <2>4
<1> QED BY <1>1, <1>2, <1>3, Moves

-----------------------------------------------------------------------------
(* The verdict. *)

VerdictIs == phase = "ended" => verdict = RunStatus

\* The verdict is given once, at the end.
LEMMA StepVerdict ==
  ASSUME Typed, [Next]_vars, VerdictIs
  PROVE  VerdictIs'
<1>c. step # "next" => phase = "verify"
  BY DEF Typed, Cursor
<1>1. CASE Fetch
  BY <1>1 DEF Fetch, AtVariant, VerdictIs
<1>2. CASE FetchFails
  BY <1>2 DEF FetchFails, AtVariant, VerdictIs
<1>3. ASSUME NEW o \in {"continue", "abort", "fail"},
             Begin(o)
      PROVE  VerdictIs'
  BY <1>3 DEF Begin, VerdictIs
<1>4. CASE CloseSource
  BY <1>4 DEF CloseSource, AtVariant, VerdictIs
<1>5. CASE CloseLast
  BY <1>5 DEF CloseLast, AtVariant, VerdictIs
<1>6. CASE EndEarly
  BY <1>6 DEF EndEarly, AtVariant, VerdictIs
<1>7. CASE Skip
  BY <1>7 DEF Skip, AtVariant, VerdictIs
<1>8. CASE Refuse
  BY <1>8 DEF Refuse, AtVariant, VerdictIs
<1>9. CASE Start
  BY <1>9 DEF Start, AtVariant, VerdictIs
<1>10. CASE FailUnhandled
  BY <1>c, <1>10 DEF FailUnhandled, VerdictIs
<1>11. ASSUME NEW o \in {"continue", "abort", "fail", "unavailable"},
             SetUp(o)
      PROVE  VerdictIs'
  BY <1>c, <1>11 DEF SetUp, VerdictIs
<1>12. CASE Unsendable
  BY <1>c, <1>12 DEF Unsendable, VerdictIs
<1>13. ASSUME NEW o \in {"continue", "abort", "fail"},
             Ask(o)
      PROVE  VerdictIs'
  BY <1>c, <1>13 DEF Ask, VerdictIs
<1>14. ASSUME NEW outcome \in {"verified", "failed"}, NEW replied \in BOOLEAN,
             Exchange(outcome, replied)
      PROVE  VerdictIs'
  BY <1>c, <1>14 DEF Exchange, VerdictIs
<1>15. ASSUME NEW o \in {"continue", "abort", "fail"},
             Observe(o)
      PROVE  VerdictIs'
  BY <1>c, <1>15 DEF Observe, VerdictIs
<1>16. CASE Report
  BY <1>c, <1>16 DEF Report, VerdictIs
<1>17. ASSUME NEW o \in {"continue", "abort", "fail", "unavailable"},
             TearDown(o)
      PROVE  VerdictIs'
  BY <1>c, <1>17 DEF TearDown, VerdictIs
<1>18. CASE Record
  BY <1>c, <1>18 DEF Record, VerdictIs
<1>19. ASSUME NEW outcome \in {"published", "failed", "skipped"},
             Publish(outcome)
      PROVE  VerdictIs'
  BY <1>19 DEF Publish, AtVariant, VerdictIs
<1>20. CASE Count
  BY <1>20 DEF Count, AtVariant, VerdictIs
<1>21. ASSUME NEW o \in {"continue", "abort", "fail"},
             After(o)
      PROVE  VerdictIs'
  BY <1>21 DEF After, AtVariant, VerdictIs
<1>22. CASE Finish
  BY <1>22 DEF Finish, runVars, scoreVars, VerdictIs, RunStatus, Failing,
     Documents, Narrowed, VariantsOf, StartOf
<1>23. CASE UNCHANGED vars
  BY <1>23 DEF vars, runVars, scoreVars, endVars, VerdictIs, RunStatus, Failing,
     Documents, Narrowed,
     VariantsOf, StartOf
<1> QED
  BY <1>1, <1>2, <1>3, <1>4, <1>5, <1>6, <1>7, <1>8, <1>9, <1>10, <1>11, <1>12,
     <1>13, <1>14, <1>15, <1>16, <1>17, <1>18, <1>19, <1>20, <1>21, <1>22, <1>23
     DEF Next, Step, Over

-----------------------------------------------------------------------------
(* The hook report, and the states of an exchange. *)

\* The report tells of the abort of the run, and then of `after-verification`.
Reports ==
  /\ aborted # "after-verification"
  /\ phase \in {"fetch", "begin", "verify", "publish"} =>
       report = [point |-> aborted, notRun |-> 0]
  /\ phase \in {"after", "finish", "ended"} =>
       \/ report = [point |-> aborted,
                    notRun |-> IF aborted = "none" THEN 0 ELSE notRun]
       \/ report.point = "after-verification" /\ phase # "after"

\* The report follows the abort.
LEMMA StepReports ==
  ASSUME Typed, [Next]_vars, Reports
  PROVE  Reports'
<1>c. step # "next" => phase = "verify"
  BY DEF Typed, Cursor
<1>1. CASE Fetch
  BY <1>c, <1>1 DEF Fetch, AtVariant, runVars, Reports
<1>2. CASE FetchFails
  BY <1>c, <1>2 DEF FetchFails, AtVariant, runVars, Reports
<1>3. ASSUME NEW o \in {"continue", "abort", "fail"},
             Begin(o)
      PROVE  Reports'
  BY <1>c, <1>3 DEF Begin, Aborts, Asking, Reports
<1>4. CASE CloseSource
  BY <1>c, <1>4 DEF CloseSource, AtVariant, runVars, Reports
<1>5. CASE CloseLast
  BY <1>c, <1>5 DEF CloseLast, AtVariant, runVars, Reports
<1>6. CASE EndEarly
  BY <1>c, <1>6 DEF EndEarly, AtVariant, runVars, Reports
<1>7. CASE Skip
  BY <1>c, <1>7 DEF Skip, AtVariant, runVars, Reports
<1>8. CASE Refuse
  BY <1>c, <1>8 DEF Refuse, AtVariant, runVars, Reports
<1>9. CASE Start
  BY <1>c, <1>9 DEF Start, AtVariant, runVars, Reports
<1>10. CASE FailUnhandled
  BY <1>c, <1>10 DEF FailUnhandled, AtVariant, runVars, Reports
<1>11. ASSUME NEW o \in {"continue", "abort", "fail", "unavailable"},
             SetUp(o)
      PROVE  Reports'
  BY <1>c, <1>11 DEF SetUp, Aborts, Asking, Reports
<1>12. CASE Unsendable
  BY <1>c, <1>12 DEF Unsendable, AtVariant, runVars, Reports
<1>13. ASSUME NEW o \in {"continue", "abort", "fail"},
             Ask(o)
      PROVE  Reports'
  BY <1>c, <1>13 DEF Ask, Aborts, Asking, Reports
<1>14. ASSUME NEW outcome \in {"verified", "failed"}, NEW replied \in BOOLEAN,
             Exchange(outcome, replied)
      PROVE  Reports'
  BY <1>c, <1>14 DEF Exchange, AtVariant, runVars, Reports
<1>15. ASSUME NEW o \in {"continue", "abort", "fail"},
             Observe(o)
      PROVE  Reports'
  BY <1>c, <1>15 DEF Observe, Aborts, Asking, Reports
<1>16. CASE Report
  BY <1>c, <1>16 DEF Report, AtVariant, runVars, Reports
<1>17. ASSUME NEW o \in {"continue", "abort", "fail", "unavailable"},
             TearDown(o)
      PROVE  Reports'
  BY <1>c, <1>17 DEF TearDown, Aborts, Asking, Reports
<1>18. CASE Record
  BY <1>c, <1>18 DEF Record, AtVariant, runVars, Reports
<1>19. ASSUME NEW outcome \in {"published", "failed", "skipped"},
             Publish(outcome)
      PROVE  Reports'
  BY <1>c, <1>19 DEF Publish, AtVariant, runVars, Reports
<1>20. CASE Count
  BY <1>20 DEF Count, Reports, NoAbort, runVars, endVars
<1>21. ASSUME NEW o \in {"continue", "abort", "fail"},
             After(o)
      PROVE  Reports'
  BY <1>21 DEF After, Reports, NoAbort, runVars, endVars
<1>22. CASE Finish
  BY <1>22 DEF Finish, Reports, NoAbort, runVars, endVars
<1>23. CASE UNCHANGED vars
  BY <1>23 DEF vars, runVars, endVars, Reports
<1> QED
  BY <1>1, <1>2, <1>3, <1>4, <1>5, <1>6, <1>7, <1>8, <1>9, <1>10, <1>11, <1>12,
     <1>13, <1>14, <1>15, <1>16, <1>17, <1>18, <1>19, <1>20, <1>21, <1>22, <1>23
     DEF Next, Step, Over

\* The states set up are among those the exchange has still to tear down.
Standing ==
  /\ step = "next" => standing = {}
  /\ step = "setup" =>
       /\ standing \subseteq 1..(state - 1)
       /\ 1 <= state /\ state <= Len(States) + 1
  /\ step \in {"send", "observe", "report"} => standing \subseteq 1..Len(States)
  /\ step = "teardown" => standing \subseteq 1..state

\* States are set up from the first and torn down from the last.
LEMMA StepStanding ==
  ASSUME Typed, [Next]_vars, Standing
  PROVE  Standing'
<1>c. step # "next" => source \in Documents /\ at < request.ends[source]
  BY DEF Typed, Cursor
<1>s. state \in Nat /\ (step # "next" => Len(States) \in Nat)
  BY <1>c, AtHand DEF Typed, TypeOK
<1>k. UNCHANGED <<request, at>> => States' = States
  BY DEF States, Variant
<1>1. CASE Fetch
  BY <1>1 DEF Fetch, exchange, scoreVars, AtVariant, States, Variant, Standing
<1>2. CASE FetchFails
  BY <1>2 DEF FetchFails, exchange, scoreVars, AtVariant, States, Variant, Standing
<1>3. ASSUME NEW o \in {"continue", "abort", "fail"},
             Begin(o)
      PROVE  Standing'
  BY <1>3 DEF Begin, exchange, scoreVars, AtVariant, States, Variant, Standing
<1>4. CASE CloseSource
  BY <1>4 DEF CloseSource, exchange, scoreVars, AtVariant, States, Variant, Standing
<1>5. CASE CloseLast
  BY <1>5 DEF CloseLast, exchange, scoreVars, AtVariant, States, Variant, Standing
<1>6. CASE EndEarly
  BY <1>6 DEF EndEarly, exchange, scoreVars, AtVariant, States, Variant, Standing
<1>7. CASE Skip
  BY <1>7 DEF Skip, AtVariant, exchange, Standing
<1>8. CASE Refuse
  BY <1>8 DEF Refuse, AtVariant, exchange, Standing
<1>9. CASE Start
  <2>1. Len(States) \in Nat /\ UNCHANGED <<request, at>>
    BY <1>9, AtHand DEF Start, AtVariant, scoreVars
  <2> QED BY <1>k, <1>9, <2>1 DEF Start, AtVariant, Standing
<1>10. CASE FailUnhandled
  BY <1>s, <1>k, <1>10 DEF FailUnhandled, scoreVars, Standing
<1>11. ASSUME NEW o \in {"continue", "abort", "fail", "unavailable"},
             SetUp(o)
      PROVE  Standing'
  <2>1. /\ standing' = standing \cup {state} /\ state <= Len(States)
        /\ standing \subseteq 1..(state - 1) /\ 1 <= state
        /\ Len(States) \in Nat
    BY <1>s, <1>11 DEF SetUp, Standing
  <2>2. States' = States
    BY <1>k, <1>11 DEF SetUp, scoreVars
  <2>3. \/ step' = "setup" /\ state' = state + 1
        \/ step' = "report"
    BY <1>11 DEF SetUp
  <2> QED BY <1>s, <2>1, <2>2, <2>3 DEF Standing
<1>12. CASE Unsendable
  BY <1>s, <1>k, <1>12 DEF Unsendable, scoreVars, Standing
<1>13. ASSUME NEW o \in {"continue", "abort", "fail"},
             Ask(o)
      PROVE  Standing'
  BY <1>s, <1>k, <1>13 DEF Ask, scoreVars, Standing
<1>14. ASSUME NEW outcome \in {"verified", "failed"}, NEW replied \in BOOLEAN,
             Exchange(outcome, replied)
      PROVE  Standing'
  BY <1>s, <1>k, <1>14 DEF Exchange, scoreVars, Standing
<1>15. ASSUME NEW o \in {"continue", "abort", "fail"},
             Observe(o)
      PROVE  Standing'
  BY <1>s, <1>k, <1>15 DEF Observe, scoreVars, Standing
<1>16. CASE Report
  BY <1>s, <1>k, <1>16 DEF Report, scoreVars, Standing
<1>17. ASSUME NEW o \in {"continue", "abort", "fail", "unavailable"},
             TearDown(o)
      PROVE  Standing'
  BY <1>s, <1>k, <1>17 DEF TearDown, scoreVars, Standing
<1>18. CASE Record
  BY <1>s, <1>18 DEF Record, Standing
<1>19. ASSUME NEW outcome \in {"published", "failed", "skipped"},
             Publish(outcome)
      PROVE  Standing'
  BY <1>19 DEF Publish, exchange, scoreVars, AtVariant, States, Variant, Standing
<1>20. CASE Count
  BY <1>20 DEF Count, exchange, scoreVars, AtVariant, States, Variant, Standing
<1>21. ASSUME NEW o \in {"continue", "abort", "fail"},
             After(o)
      PROVE  Standing'
  BY <1>21 DEF After, exchange, scoreVars, AtVariant, States, Variant, Standing
<1>22. CASE Finish
  BY <1>22 DEF Finish, exchange, scoreVars, AtVariant, States, Variant, Standing
<1>23. CASE UNCHANGED vars
  BY <1>23 DEF vars, exchange, scoreVars, States, Variant, Standing
<1> QED
  BY <1>1, <1>2, <1>3, <1>4, <1>5, <1>6, <1>7, <1>8, <1>9, <1>10, <1>11, <1>12,
     <1>13, <1>14, <1>15, <1>16, <1>17, <1>18, <1>19, <1>20, <1>21, <1>22, <1>23
     DEF Next, Step, Over

\* The highest state standing is torn down first, and none stands between variants.
LEMMA StepTearsDown ==
  ASSUME Typed, [Next]_vars, Standing
  PROVE  /\ at' # at => standing = {}
         /\ \A i \in standing \ standing' : \A j \in standing : j <= i
<1>s. state \in Nat
  BY DEF Typed, TypeOK
<1>1. CASE Fetch
  BY <1>1 DEF Fetch, AtVariant, exchange, scoreVars, Standing
<1>2. CASE FetchFails
  BY <1>2 DEF FetchFails, AtVariant, exchange, scoreVars, Standing
<1>3. ASSUME NEW o \in {"continue", "abort", "fail"},
             Begin(o)
      PROVE  /\ at' # at => standing = {}
             /\ \A i \in standing \ standing' : \A j \in standing : j <= i
  BY <1>3 DEF Begin, AtVariant, exchange, scoreVars, Standing
<1>4. CASE CloseSource
  BY <1>4 DEF CloseSource, AtVariant, exchange, scoreVars, Standing
<1>5. CASE CloseLast
  BY <1>5 DEF CloseLast, AtVariant, exchange, scoreVars, Standing
<1>6. CASE EndEarly
  BY <1>6 DEF EndEarly, AtVariant, exchange, scoreVars, Standing
<1>7. CASE Skip
  BY <1>7 DEF Skip, AtVariant, exchange, scoreVars, Standing
<1>8. CASE Refuse
  BY <1>8 DEF Refuse, AtVariant, exchange, scoreVars, Standing
<1>9. CASE Start
  BY <1>9 DEF Start, AtVariant, exchange, scoreVars, Standing
<1>10. CASE FailUnhandled
  BY <1>10 DEF FailUnhandled, AtVariant, exchange, scoreVars, Standing
<1>11. ASSUME NEW o \in {"continue", "abort", "fail", "unavailable"},
             SetUp(o)
      PROVE  /\ at' # at => standing = {}
             /\ \A i \in standing \ standing' : \A j \in standing : j <= i
  BY <1>11 DEF SetUp, AtVariant, exchange, scoreVars, Standing
<1>12. CASE Unsendable
  BY <1>12 DEF Unsendable, AtVariant, exchange, scoreVars, Standing
<1>13. ASSUME NEW o \in {"continue", "abort", "fail"},
             Ask(o)
      PROVE  /\ at' # at => standing = {}
             /\ \A i \in standing \ standing' : \A j \in standing : j <= i
  BY <1>13 DEF Ask, AtVariant, exchange, scoreVars, Standing
<1>14. ASSUME NEW outcome \in {"verified", "failed"}, NEW replied \in BOOLEAN,
             Exchange(outcome, replied)
      PROVE  /\ at' # at => standing = {}
             /\ \A i \in standing \ standing' : \A j \in standing : j <= i
  BY <1>14 DEF Exchange, AtVariant, exchange, scoreVars, Standing
<1>15. ASSUME NEW o \in {"continue", "abort", "fail"},
             Observe(o)
      PROVE  /\ at' # at => standing = {}
             /\ \A i \in standing \ standing' : \A j \in standing : j <= i
  BY <1>15 DEF Observe, AtVariant, exchange, scoreVars, Standing
<1>16. CASE Report
  BY <1>16 DEF Report, AtVariant, exchange, scoreVars, Standing
<1>17. ASSUME NEW o \in {"continue", "abort", "fail", "unavailable"},
             TearDown(o)
      PROVE  /\ at' # at => standing = {}
             /\ \A i \in standing \ standing' : \A j \in standing : j <= i
  BY <1>s, <1>17 DEF TearDown, scoreVars, Standing
<1>18. CASE Record
  BY <1>s, <1>18 DEF Record, Standing
<1>19. ASSUME NEW outcome \in {"published", "failed", "skipped"},
             Publish(outcome)
      PROVE  /\ at' # at => standing = {}
             /\ \A i \in standing \ standing' : \A j \in standing : j <= i
  BY <1>19 DEF Publish, AtVariant, exchange, scoreVars, Standing
<1>20. CASE Count
  BY <1>20 DEF Count, AtVariant, exchange, scoreVars, Standing
<1>21. ASSUME NEW o \in {"continue", "abort", "fail"},
             After(o)
      PROVE  /\ at' # at => standing = {}
             /\ \A i \in standing \ standing' : \A j \in standing : j <= i
  BY <1>21 DEF After, AtVariant, exchange, scoreVars, Standing
<1>22. CASE Finish
  BY <1>22 DEF Finish, AtVariant, exchange, scoreVars, Standing
<1>23. CASE UNCHANGED vars
  BY <1>23 DEF vars, exchange, scoreVars
<1> QED
  BY <1>1, <1>2, <1>3, <1>4, <1>5, <1>6, <1>7, <1>8, <1>9, <1>10, <1>11, <1>12,
     <1>13, <1>14, <1>15, <1>16, <1>17, <1>18, <1>19, <1>20, <1>21, <1>22, <1>23
     DEF Next, Step, Over

-----------------------------------------------------------------------------
(* The results of each document. *)

Underway == phase \in {"fetch", "begin", "verify"}

SkippedOf(s) == {v \in VariantsOf(s) : v <= at /\ v \in request.excluded}

\* The documents behind divide the results recorded for them; the others belong
\* to the document being verified.
Divided ==
  /\ Len(ran) \in {source - 1, source} /\ Len(ran) <= Len(request.ends)
  /\ Underway => Len(ran) = source - 1
  /\ phase \in {"fetch", "begin"} => at = 0
  /\ ~Underway /\ Len(ran) = source - 1 /\ source \in Documents => at = 0

RunsDivided ==
  \A s \in 1..Len(ran) :
    /\ ran[s].last <= Len(results)
    /\ \A j \in DOMAIN results :
         j \in ran[s].first + 1 .. ran[s].last
           <=> results[j].variant \in VariantsOf(s)
    /\ ran[s].complete => request.ends[s] <= at
    /\ ran[s].skipped = Cardinality(SkippedOf(s))

OpenDivided ==
  Underway /\ source \in Documents =>
    /\ opened.first <= Len(results)
    /\ \A j \in DOMAIN results :
         j > opened.first <=> results[j].variant > StartOf(source)
    /\ tally.skipped - opened.skipped = Cardinality(SkippedOf(source))

\* The documents behind end where the run has come to, or before.
LEMMA Behind ==
  ASSUME Typed, source \in Documents, NEW s \in Documents, s < source
  PROVE  request.ends[s] <= at /\ StartOf(source) = request.ends[source - 1]
<1>1. request \in Requests /\ at \in 0..Total /\ StartOf(source) <= at
  BY DEF Typed, TypeOK, Cursor
<1>2. source - 1 \in Documents /\ s <= source - 1 /\ source # 1
  BY <1>1, RequestFacts DEF Documents
<1>3. /\ StartOf(source) = request.ends[source - 1]
      /\ request.ends[s] <= request.ends[source - 1]
      /\ \A t \in Documents : request.ends[t] \in Nat
      /\ at \in Nat
  BY <1>1, <1>2, RequestFacts DEF StartOf
<1> QED BY <1>1, <1>2, <1>3

\* The types of the positions.
LEMMA PositionFacts ==
  ASSUME Typed
  PROVE  /\ at \in Nat /\ Total \in Nat /\ at <= Total
         /\ source \in Nat \ {0}
         /\ Len(request.ends) \in Nat
         /\ Len(ran) \in Nat /\ DOMAIN ran = 1..Len(ran)
         /\ opened.first \in Nat /\ opened.skipped \in Nat
         /\ tally.skipped \in Nat
         /\ \A s \in Documents : /\ request.ends[s] \in Nat
                                 /\ StartOf(s) \in Nat
         /\ \A s \in 1..Len(ran) : ran[s].first \in Nat /\ ran[s].last \in Nat
<1>1. /\ request \in Requests /\ at \in 0..Total
      /\ source \in 1..Len(request.ends) + 1
      /\ opened \in [first: Nat, skipped: Nat]
      /\ tally \in [verified: Nat, failed: Nat, unavailable: Nat, skipped: Nat,
                   pendingFailed: Nat]
  BY DEF Typed, TypeOK
<1>2. /\ at \in Nat /\ Total \in Nat /\ at <= Total /\ Len(request.ends) \in Nat
      /\ source \in Nat \ {0}
  BY <1>1, RequestFacts
<1>3. \A s \in Documents : request.ends[s] \in Nat /\ StartOf(s) \in Nat
  <2>1. \A s \in Documents : request.ends[s] \in Nat
    BY <1>1, <1>2, RequestFacts
  <2>2. \A s \in Documents : s = 1 \/ s - 1 \in Documents
    BY <1>2 DEF Documents
  <2> QED BY <2>1, <2>2 DEF StartOf
<1>4. /\ Len(ran) \in Nat /\ DOMAIN ran = 1..Len(ran)
      /\ \A s \in 1..Len(ran) : ran[s].first \in Nat /\ ran[s].last \in Nat
  <2> DEFINE R == [first: Nat, last: Nat, skipped: Nat, complete: BOOLEAN]
  <2>1. ran \in Seq(R)
    BY DEF Typed, TypeOK
  <2>2. \A r \in R : r.first \in Nat /\ r.last \in Nat
    OBVIOUS
  <2> HIDE DEF R
  <2> QED BY <2>1, <2>2
<1> QED BY <1>1, <1>2, <1>3, <1>4

\* A document skips finitely many variants.
LEMMA SkippedFinite ==
  ASSUME Typed, NEW s \in Documents
  PROVE  IsFiniteSet(SkippedOf(s))
<1>1. StartOf(s) + 1 \in Int /\ request.ends[s] \in Int
  BY PositionFacts
<1>2. IsFiniteSet(VariantsOf(s))
  BY <1>1, FS_Interval DEF VariantsOf
<1>3. SkippedOf(s) \subseteq VariantsOf(s)
  BY DEF SkippedOf
<1> QED BY <1>2, <1>3, FS_Subset

\* Nothing of the documents or of the results changes.
LEMMA DividedKept ==
  ASSUME Divided, RunsDivided, OpenDivided, request' = request,
         UNCHANGED <<source, opened, ran, scoreVars>>,
         Underway' => Underway,
         phase' \in {"fetch", "begin"} => phase \in {"fetch", "begin"},
         ~Underway' /\ Underway =>
           phase \in {"fetch", "begin"} \/ source \notin Documents
  PROVE  Divided' /\ RunsDivided' /\ OpenDivided'
<1>1. /\ Documents' = Documents /\ StartOf(source)' = StartOf(source)
      /\ SkippedOf(source)' = SkippedOf(source)
      /\ \A s : SkippedOf(s)' = SkippedOf(s)
      /\ \A s : VariantsOf(s)' = VariantsOf(s)
  BY DEF Documents, StartOf, VariantsOf, SkippedOf, scoreVars
<1>2. Divided'
  BY <1>1 DEF Divided, scoreVars, Underway
<1>3. RunsDivided'
  BY <1>1 DEF RunsDivided, scoreVars
<1>4. OpenDivided'
  BY <1>1 DEF OpenDivided, scoreVars
<1> QED BY <1>2, <1>3, <1>4

\* A document is done, or the run ends in it.
LEMMA CloseDivided ==
  ASSUME Typed, Results, Divided, RunsDivided, OpenDivided,
         NEW complete \in BOOLEAN,
         phase = "verify", source \in Documents,
         complete => at = request.ends[source],
         request' = request, UNCHANGED scoreVars,
         ran' = Append(ran, SourceRun(complete))
  PROVE  /\ RunsDivided'
         /\ Len(ran) = source - 1 /\ Len(ran') = source
<1>p. /\ at \in Nat /\ source \in Nat \ {0} /\ Len(ran) \in Nat
      /\ opened.first \in Nat /\ request.ends[source] \in Nat
      /\ StartOf(source) \in Nat
  BY PositionFacts
<1>1. Len(ran) = source - 1 /\ at <= request.ends[source]
  BY DEF Divided, Underway, Typed, Cursor
<1> DEFINE R == [first: Nat, last: Nat, skipped: Nat, complete: BOOLEAN]
           e == SourceRun(complete)
<1>2. ran \in Seq(R)
  BY DEF Typed, TypeOK
<1>3. /\ Len(ran') = Len(ran) + 1
      /\ \A s \in 1..Len(ran) : ran'[s] = ran[s]
      /\ ran'[Len(ran) + 1] = e
  <2> HIDE DEF R, e
  <2> QED BY <1>2 DEF e
<1>4. \A s : SkippedOf(s)' = SkippedOf(s) /\ VariantsOf(s)' = VariantsOf(s)
  BY DEF StartOf, VariantsOf, SkippedOf, scoreVars
<1>5. results' = results /\ at' = at
  BY DEF scoreVars
<1>6. /\ e.first = opened.first /\ e.last = Len(results)
      /\ e.skipped = Cardinality(SkippedOf(source)) /\ e.complete = complete
  BY DEF SourceRun, OpenDivided, Underway
<1>7. ASSUME NEW j \in DOMAIN results
      PROVE  j \in e.first + 1 .. e.last <=> results[j].variant \in VariantsOf(source)
  <2>1. /\ j \in 1..Len(results) /\ Len(results) \in Nat
        /\ results[j].variant \in 1..Total /\ Total \in Nat
    BY <1>7, ResultTypes, PositionFacts DEF Typed
  <2>2. results[j].variant <= request.ends[source]
    BY <1>p, <1>1, <1>7, <2>1 DEF Results
  <2>3. j > opened.first <=> results[j].variant > StartOf(source)
    BY <1>7 DEF OpenDivided, Underway
  <2> QED BY <1>p, <1>6, <2>1, <2>2, <2>3 DEF VariantsOf
<1> HIDE DEF e
<1>8. ASSUME NEW s \in 1..Len(ran')
      PROVE  /\ ran'[s].last <= Len(results')
             /\ \A j \in DOMAIN results' :
                  j \in ran'[s].first + 1 .. ran'[s].last
                    <=> results'[j].variant \in VariantsOf(s)'
             /\ ran'[s].complete => request'.ends[s] <= at'
             /\ ran'[s].skipped = Cardinality(SkippedOf(s)')
  <2>1. CASE s \in 1..Len(ran)
    BY <1>3, <1>4, <1>5, <2>1 DEF RunsDivided
  <2>2. CASE s = Len(ran) + 1
    <3>1. s = source /\ ran'[s] = e
      BY <1>p, <1>1, <1>3, <2>2
    <3>2. Len(results) \in Nat
      BY ResultTypes DEF Typed
    <3>3. ran'[s].last <= Len(results')
      BY <1>5, <1>6, <3>1, <3>2
    <3>4. ran'[s].complete => request'.ends[s] <= at'
      BY <1>p, <1>5, <1>6, <3>1
    <3>5. ran'[s].skipped = Cardinality(SkippedOf(s)')
      BY <1>4, <1>6, <3>1
    <3>6. \A j \in DOMAIN results' :
            j \in ran'[s].first + 1 .. ran'[s].last
              <=> results'[j].variant \in VariantsOf(s)'
      BY <1>4, <1>5, <1>7, <3>1
    <3> QED BY <3>3, <3>4, <3>5, <3>6
  <2> QED BY <1>p, <1>3, <2>1, <2>2
<1>9. RunsDivided'
  BY <1>8 DEF RunsDivided
<1> QED BY <1>p, <1>1, <1>3, <1>9

\* The next document has nothing yet.
LEMMA NextDivided ==
  ASSUME Typed, Typed', Results, Divided, RunsDivided, OpenDivided, CloseSource
  PROVE  Divided' /\ RunsDivided' /\ OpenDivided'
<1>1. /\ phase = "verify" /\ source \in Documents /\ at = request.ends[source]
      /\ request' = request /\ UNCHANGED scoreVars /\ phase' = "verify"
      /\ source' = source + 1 /\ ran' = Append(ran, SourceRun(TRUE))
      /\ opened' = [first |-> Len(results), skipped |-> tally.skipped]
  BY DEF CloseSource, AtVariant
<1>2. RunsDivided' /\ Len(ran') = source
  BY <1>1, CloseDivided
<1>p. /\ at \in Nat /\ source \in Nat \ {0} /\ tally.skipped \in Nat
      /\ Len(request.ends) \in Nat
  BY PositionFacts
<1>3. Divided'
  BY <1>p, <1>1, <1>2 DEF Divided, Underway, Documents
<1>4. OpenDivided'
  <2> SUFFICES ASSUME (source \in Documents)' PROVE OpenDivided'
    BY DEF OpenDivided
  <2>p. request'.ends[source'] \in Nat
    BY <1>1, PositionFacts DEF Documents
  <2>0. /\ at \in Nat /\ results' = results /\ tally' = tally /\ at' = at
        /\ source' = source + 1 /\ source + 1 # 1
        /\ opened'.first = Len(results) /\ opened'.skipped = tally.skipped
    BY <1>p, <1>1 DEF scoreVars
  <2>1. StartOf(source)' = at
    BY <1>p, <1>1, <2>0 DEF StartOf
  <2>2. VariantsOf(source)' = at + 1 .. request'.ends[source']
    BY <2>1 DEF VariantsOf
  <2>3. SkippedOf(source)' = {}
    <3>1. SkippedOf(source)' = {v \in VariantsOf(source)' : v <= at' /\ v \in request'.excluded}
      BY DEF SkippedOf
    <3> QED BY <3>1, <2>p, <2>0, <2>2
  <2>4. Cardinality(SkippedOf(source)') = 0
    BY <2>3, FS_EmptySet
  <2>5. \A j \in DOMAIN results : /\ j \in 1..Len(results) /\ results[j].variant <= at
                                 /\ results[j].variant \in Nat
    BY ResultTypes, PositionFacts DEF Typed, Results
  <2>6. Len(results) \in Nat
    BY ResultTypes DEF Typed
  <2>7. tally'.skipped - opened'.skipped = 0
    BY <1>p, <2>0
  <2>8. \A j \in DOMAIN results' :
          j > opened'.first <=> results'[j].variant > StartOf(source)'
    BY <2>0, <2>1, <2>5, <2>6
  <2>9. opened'.first <= Len(results')
    BY <2>0, <2>6
  <2> QED BY <2>4, <2>7, <2>8, <2>9 DEF OpenDivided
<1> QED BY <1>2, <1>3, <1>4

\* The next variant, of the document being verified.
LEMMA NextVariant ==
  ASSUME Typed, source \in Documents, at < request.ends[source],
         request' = request, source' = source, at' = at + 1
  PROVE  /\ \A s \in Documents : s < source =>
              /\ at + 1 \notin VariantsOf(s)
              /\ SkippedOf(s)' = SkippedOf(s)
              /\ request.ends[s] <= at'
         /\ \A s : VariantsOf(s)' = VariantsOf(s)
         /\ at + 1 > StartOf(source) /\ StartOf(source)' = StartOf(source)
         /\ SkippedOf(source)' = SkippedOf(source)
                 \cup (IF at + 1 \in request.excluded THEN {at + 1} ELSE {})
         /\ at + 1 \notin SkippedOf(source)
<1>p. /\ at \in Nat /\ source \in Nat \ {0} /\ request.ends[source] \in Nat
      /\ StartOf(source) \in Nat /\ StartOf(source) <= at
  BY PositionFacts DEF Typed, Cursor
<1>1. \A s : VariantsOf(s)' = VariantsOf(s) /\ StartOf(s)' = StartOf(s)
  BY DEF VariantsOf, StartOf
<1>2. \A s : SkippedOf(s)' = {v \in VariantsOf(s) : v <= at + 1 /\ v \in request.excluded}
  BY <1>1 DEF SkippedOf
<1>3. ASSUME NEW s \in Documents, s < source
      PROVE  /\ at + 1 \notin VariantsOf(s)
             /\ SkippedOf(s)' = SkippedOf(s)
             /\ request.ends[s] <= at'
  <2>1. request.ends[s] <= at /\ request.ends[s] \in Nat /\ StartOf(s) \in Nat
    BY <1>3, Behind, PositionFacts
  <2>2. \A v \in VariantsOf(s) : v \in Int /\ v <= at
    BY <1>p, <2>1 DEF VariantsOf
  <2>3. SkippedOf(s)' = SkippedOf(s)
    BY <1>p, <1>2, <2>2 DEF SkippedOf
  <2> QED BY <1>p, <2>1, <2>2, <2>3
<1>4. at + 1 \in VariantsOf(source) /\ at + 1 \notin SkippedOf(source)
  BY <1>p DEF VariantsOf, SkippedOf
<1>5. \A v \in VariantsOf(source) : v \in Int
  BY <1>p DEF VariantsOf
<1>6. SkippedOf(source)' = SkippedOf(source)
                 \cup (IF at + 1 \in request.excluded THEN {at + 1} ELSE {})
  <2>1. SkippedOf(source)' = {v \in VariantsOf(source) : v <= at + 1 /\ v \in request.excluded}
    BY <1>1 DEF SkippedOf
  <2> QED BY <1>p, <1>4, <1>5, <2>1 DEF SkippedOf
<1> QED BY <1>p, <1>1, <1>3, <1>4, <1>6

\* A variant is skipped.
LEMMA SkipDivided ==
  ASSUME Typed, Results, Divided, RunsDivided, OpenDivided, Skip
  PROVE  Divided' /\ RunsDivided' /\ OpenDivided'
<1>1. /\ phase = "verify" /\ phase' = "verify" /\ source \in Documents
      /\ at < request.ends[source] /\ at + 1 \in request.excluded
      /\ request' = request /\ UNCHANGED <<source, opened, ran, results>>
      /\ at' = at + 1 /\ tally' = [tally EXCEPT !.skipped = @ + 1]
  BY DEF Skip, AtVariant, runVars, Variant
<1>p. /\ at \in Nat /\ source \in Nat \ {0} /\ tally.skipped \in Nat
      /\ opened.skipped \in Nat /\ Len(request.ends) \in Nat
      /\ Len(ran) = source - 1
  BY <1>1, PositionFacts DEF Divided, Underway
<1>2. Divided'
  BY <1>1, <1>p DEF Divided, Underway
<1>3. RunsDivided'
  <2>1. \A s \in 1..Len(ran) : /\ s \in Documents /\ s < source
                              /\ SkippedOf(s)' = SkippedOf(s)
                              /\ VariantsOf(s)' = VariantsOf(s)
                              /\ request'.ends[s] <= at'
    BY <1>1, <1>p, NextVariant DEF Documents
  <2> QED BY <1>1, <2>1 DEF RunsDivided
<1>4. OpenDivided'
  <2>1. tally'.skipped = tally.skipped + 1
    <3>1. tally \in [verified: Nat, failed: Nat, unavailable: Nat, skipped: Nat,
                     pendingFailed: Nat]
      BY DEF Typed, TypeOK
    <3> QED BY <1>1, <3>1
  <2>2. Cardinality(SkippedOf(source)') = Cardinality(SkippedOf(source)) + 1
    <3>1. IsFiniteSet(SkippedOf(source))
      BY <1>1, SkippedFinite
    <3>2. SkippedOf(source)' = SkippedOf(source) \cup {at + 1} /\ at + 1 \notin SkippedOf(source)
      BY <1>1, NextVariant
    <3> HIDE DEF SkippedOf
    <3> QED BY <3>1, <3>2, FS_AddElement
  <2>3. /\ opened.first <= Len(results)
        /\ \A j \in DOMAIN results :
             j > opened.first <=> results[j].variant > StartOf(source)
        /\ tally.skipped - opened.skipped = Cardinality(SkippedOf(source))
    BY <1>1 DEF OpenDivided, Underway
  <2>4. StartOf(source)' = StartOf(source)
    BY <1>1, NextVariant
  <2>5. tally'.skipped - opened'.skipped = Cardinality(SkippedOf(source)')
    BY <1>1, <1>p, <2>1, <2>2, <2>3
  <2>6. \A j \in DOMAIN results' :
          j > opened'.first <=> results'[j].variant > StartOf(source)'
    BY <1>1, <2>3, <2>4
  <2> QED BY <1>1, <2>3, <2>5, <2>6 DEF OpenDivided
<1> QED BY <1>2, <1>3, <1>4

\* A result is recorded.
LEMMA ScoredDivided ==
  ASSUME Typed, Results, Divided, RunsDivided, OpenDivided, request' = request,
         NEW outcome \in Status, Scored(outcome)
  PROVE  Divided' /\ RunsDivided' /\ OpenDivided'
<1> DEFINE n == Len(results)
<1>1. /\ phase = "verify" /\ phase' = "verify" /\ source \in Documents
      /\ at < request.ends[source] /\ at + 1 \notin request.excluded
      /\ UNCHANGED <<source, opened, ran>>
  BY DEF Scored, runVars, Variant
<1>2. /\ at' = at + 1 /\ n \in Nat /\ DOMAIN results = 1..n
      /\ DOMAIN results' = 1..n + 1 /\ Len(results') = n + 1
      /\ \A j \in 1..n : results'[j] = results[j]
      /\ results'[n + 1].variant = at + 1
      /\ tally'.skipped = tally.skipped
  <2>1. tally' = Tallied(outcome) /\ Variant = at + 1
        /\ results'[n + 1] = [variant |-> Variant, status |-> outcome]
    BY NewResult
  <2>2. tally'.skipped = tally.skipped
    BY <2>1, TalliedFacts DEF Typed
  <2> QED BY <2>1, <2>2, NewResult
<1>p. /\ at \in Nat /\ source \in Nat \ {0}
      /\ Len(request.ends) \in Nat /\ opened.first \in Nat
      /\ Len(ran) = source - 1
      /\ \A s \in 1..Len(ran) : ran[s].first \in Nat /\ ran[s].last \in Nat
  BY <1>1, PositionFacts DEF Divided, Underway
<1> HIDE DEF n
<1>3. Divided'
  BY <1>1, <1>2, <1>p DEF Divided, Underway
<1>4. RunsDivided'
  <2>1. \A s \in 1..Len(ran) : /\ s \in Documents /\ s < source
                              /\ SkippedOf(s)' = SkippedOf(s)
                              /\ VariantsOf(s)' = VariantsOf(s)
                              /\ request'.ends[s] <= at'
                              /\ at + 1 \notin VariantsOf(s)
    BY <1>1, <1>2, <1>p, NextVariant DEF Documents
  <2>2. ASSUME NEW s \in 1..Len(ran), NEW j \in DOMAIN results'
        PROVE  j \in ran[s].first + 1 .. ran[s].last
                 <=> results'[j].variant \in VariantsOf(s)
    <3>1. CASE j \in 1..n
      BY <1>2, <3>1 DEF RunsDivided
    <3>2. CASE j = n + 1
      <4>1. ran[s].last <= n
        BY DEF RunsDivided, n
      <4>2. j \notin ran[s].first + 1 .. ran[s].last
        BY <1>2, <1>p, <3>2, <4>1
      <4> QED BY <1>2, <2>1, <3>2, <4>2
    <3> QED BY <1>2, <3>1, <3>2
  <2>3. \A s \in 1..Len(ran) : ran[s].last <= Len(results')
    BY <1>2, <1>p DEF RunsDivided, n
  <2> QED BY <1>1, <2>1, <2>2, <2>3 DEF RunsDivided
<1>5. OpenDivided'
  <2>1. SkippedOf(source)' = SkippedOf(source) /\ StartOf(source)' = StartOf(source)
        /\ at + 1 > StartOf(source)
    BY <1>1, <1>2, NextVariant
  <2>2. /\ opened.first <= n
        /\ \A j \in DOMAIN results :
             j > opened.first <=> results[j].variant > StartOf(source)
        /\ tally.skipped - opened.skipped = Cardinality(SkippedOf(source))
    BY <1>1 DEF OpenDivided, Underway, n
  <2>3. \A j \in DOMAIN results' :
          j > opened'.first <=> results'[j].variant > StartOf(source)'
    BY <1>1, <1>2, <1>p, <2>1, <2>2
  <2>4. opened'.first <= Len(results')
    BY <1>1, <1>2, <1>p, <2>2
  <2>5. tally'.skipped - opened'.skipped = Cardinality(SkippedOf(source)')
    BY <1>1, <1>2, <2>1, <2>2
  <2> QED BY <2>3, <2>4, <2>5 DEF OpenDivided
<1> QED BY <1>3, <1>4, <1>5

\* The run ends in the middle of a document.
LEMMA EndDivided ==
  ASSUME Typed, Results, Divided, RunsDivided, OpenDivided, EndEarly
  PROVE  Divided' /\ RunsDivided' /\ OpenDivided'
<1>1. /\ phase = "verify" /\ source \in Documents /\ phase' = "publish"
      /\ request' = request /\ UNCHANGED scoreVars /\ source' = source
      /\ ran' = Append(ran, SourceRun(FALSE))
  BY DEF EndEarly
<1>2. RunsDivided' /\ Len(ran') = source
  BY <1>1, CloseDivided
<1>p. source \in Nat \ {0} /\ Len(request.ends) \in Nat
  BY PositionFacts
<1>3. Divided'
  BY <1>p, <1>1, <1>2 DEF Divided, Underway, Documents
<1>4. OpenDivided'
  BY <1>1 DEF OpenDivided, Underway
<1> QED BY <1>2, <1>3, <1>4

\* Results stay divided among the documents.
LEMMA StepDivided ==
  ASSUME Typed, Typed', [Next]_vars, Results, Divided, RunsDivided, OpenDivided
  PROVE  Divided' /\ RunsDivided' /\ OpenDivided'
<1>0. Cursor /\ request' = request
  BY Moves DEF Typed
<1>1. CASE Fetch
  BY <1>0, <1>1, DividedKept DEF Fetch, Underway, AtVariant, Cursor, runVars,
     exchange
<1>2. CASE FetchFails
  BY <1>0, <1>2, DividedKept DEF FetchFails, Underway, AtVariant, Cursor,
     runVars, exchange
<1>3. ASSUME NEW o \in {"continue", "abort", "fail"},
             Begin(o)
      PROVE  Divided' /\ RunsDivided' /\ OpenDivided'
  BY <1>0, <1>3, DividedKept DEF Begin, Underway, AtVariant, Cursor, runVars,
     exchange
<1>4. CASE CloseSource
  BY <1>4, NextDivided
<1>5. CASE CloseLast
  BY <1>0, <1>5, DividedKept DEF CloseLast, Underway, AtVariant, Cursor, runVars,
     exchange
<1>6. CASE EndEarly
  BY <1>6, EndDivided
<1>7. CASE Skip
  BY <1>7, SkipDivided
<1>8. CASE Refuse
  <2>1. Scored("failed")
    BY <1>8 DEF Refuse, AtVariant, Scored
  <2> QED BY <1>0, <2>1, ScoredDivided DEF Status
<1>9. CASE Start
  BY <1>0, <1>9, DividedKept DEF Start, Underway, AtVariant, Cursor, runVars,
     exchange
<1>10. CASE FailUnhandled
  BY <1>0, <1>10, DividedKept DEF FailUnhandled, Underway, AtVariant, Cursor,
     runVars, exchange
<1>11. ASSUME NEW o \in {"continue", "abort", "fail", "unavailable"},
             SetUp(o)
      PROVE  Divided' /\ RunsDivided' /\ OpenDivided'
  BY <1>0, <1>11, DividedKept DEF SetUp, Underway, AtVariant, Cursor, runVars,
     exchange
<1>12. CASE Unsendable
  BY <1>0, <1>12, DividedKept DEF Unsendable, Underway, AtVariant, Cursor,
     runVars, exchange
<1>13. ASSUME NEW o \in {"continue", "abort", "fail"},
             Ask(o)
      PROVE  Divided' /\ RunsDivided' /\ OpenDivided'
  BY <1>0, <1>13, DividedKept DEF Ask, Underway, AtVariant, Cursor, runVars,
     exchange
<1>14. ASSUME NEW outcome \in {"verified", "failed"}, NEW replied \in BOOLEAN,
             Exchange(outcome, replied)
      PROVE  Divided' /\ RunsDivided' /\ OpenDivided'
  BY <1>0, <1>14, DividedKept DEF Exchange, Underway, AtVariant, Cursor, runVars,
     exchange
<1>15. ASSUME NEW o \in {"continue", "abort", "fail"},
             Observe(o)
      PROVE  Divided' /\ RunsDivided' /\ OpenDivided'
  BY <1>0, <1>15, DividedKept DEF Observe, Underway, AtVariant, Cursor, runVars,
     exchange
<1>16. CASE Report
  BY <1>0, <1>16, DividedKept DEF Report, Underway, AtVariant, Cursor, runVars,
     exchange
<1>17. ASSUME NEW o \in {"continue", "abort", "fail", "unavailable"},
             TearDown(o)
      PROVE  Divided' /\ RunsDivided' /\ OpenDivided'
  BY <1>0, <1>17, DividedKept DEF TearDown, Underway, AtVariant, Cursor, runVars,
     exchange
<1>18. CASE Record
  <2>1. Scored(status) /\ status \in Status
    BY <1>0, <1>18 DEF Record, Cursor, Scored
  <2> QED BY <1>0, <2>1, ScoredDivided
<1>19. ASSUME NEW outcome \in {"published", "failed", "skipped"},
             Publish(outcome)
      PROVE  Divided' /\ RunsDivided' /\ OpenDivided'
  BY <1>0, <1>19, DividedKept DEF Publish, Underway, AtVariant, Cursor, runVars,
     exchange
<1>20. CASE Count
  BY <1>0, <1>20, DividedKept DEF Count, Underway, AtVariant, Cursor, runVars,
     exchange
<1>21. ASSUME NEW o \in {"continue", "abort", "fail"},
             After(o)
      PROVE  Divided' /\ RunsDivided' /\ OpenDivided'
  BY <1>0, <1>21, DividedKept DEF After, Underway, AtVariant, Cursor, runVars,
     exchange
<1>22. CASE Finish
  BY <1>0, <1>22, DividedKept DEF Finish, Underway, AtVariant, Cursor, runVars,
     exchange
<1>23. CASE UNCHANGED vars
  BY <1>0, <1>23, DividedKept DEF vars, runVars, exchange, Underway
<1> QED
  BY <1>1, <1>2, <1>3, <1>4, <1>5, <1>6, <1>7, <1>8, <1>9, <1>10, <1>11, <1>12,
     <1>13, <1>14, <1>15, <1>16, <1>17, <1>18, <1>19, <1>20, <1>21, <1>22, <1>23
     DEF Next, Step, Over

-----------------------------------------------------------------------------
(* What is published. *)

\* Only the document a run ends in is unfinished.
OnlyLastUnfinished ==
  \A s \in 1..Len(ran) : ~ran[s].complete => s = Len(ran) /\ ~Underway

\* What was published of a document is what its own results say.
Own(k) ==
  /\ k \in 1..Len(ran) /\ ran[k].complete
  /\ publication[k].source = k
  /\ publication[k].outcome # "skipped" => ~Narrowed(k)
  /\ publication[k].success =
       \A j \in ran[k].first + 1 .. ran[k].last : results[j].status = "verified"

PublishedOwn ==
  /\ Underway => publication = <<>>
  /\ \A k \in 1..Len(publication) : Own(k)

\* Documents are closed by two actions and published by one; what a document's
\* results are does not change once the run is past them.
LEMMA PublishMoves ==
  ASSUME Typed, [Next]_vars
  PROVE  \/ CloseSource \/ EndEarly
         \/ \E outcome \in {"published", "failed", "skipped"} : Publish(outcome)
         \/ /\ UNCHANGED <<publication, ran>>
            /\ Underway' => Underway
            /\ Underway \/ UNCHANGED results
<1>. DEFINE Quiet == /\ UNCHANGED <<publication, ran>>
                     /\ Underway' => Underway
                     /\ Underway \/ UNCHANGED results
<1>. USE DEF Underway, runVars, scoreVars, endVars, AtVariant
<1>0. step # "next" => phase = "verify"
  BY DEF Typed, Cursor
<1>1. CASE Fetch \/ FetchFails
  BY <1>1 DEF Fetch, FetchFails
<1>2. ASSUME NEW o \in {"continue", "abort", "fail"}, Begin(o) \/ After(o)
      PROVE  Quiet
  BY <1>2 DEF Begin, After, Aborts
<1>3. CASE CloseLast \/ Skip \/ Start \/ Count \/ Finish
  BY <1>3 DEF CloseLast, Skip, Start, Count, Finish
<1>4. CASE Refuse \/ FailUnhandled \/ Unsendable \/ Report \/ Record
  BY <1>0, <1>4 DEF Refuse, FailUnhandled, Unsendable, Report, Record
<1>5. ASSUME NEW o \in {"continue", "abort", "fail", "unavailable"},
             SetUp(o) \/ TearDown(o)
      PROVE  Quiet
  BY <1>0, <1>5 DEF SetUp, TearDown
<1>6. ASSUME NEW o \in {"continue", "abort", "fail"}, Ask(o) \/ Observe(o)
      PROVE  Quiet
  BY <1>0, <1>6 DEF Ask, Observe
<1>7. ASSUME NEW outcome \in {"verified", "failed"}, NEW replied \in BOOLEAN,
             Exchange(outcome, replied)
      PROVE  Quiet
  BY <1>0, <1>7 DEF Exchange
<1>8. CASE UNCHANGED vars
  BY <1>8 DEF vars
<1>. QED BY <1>1, <1>2, <1>3, <1>4, <1>5, <1>6, <1>7, <1>8 DEF Next, Step, Over

\* The documents finished are the first ones, so the s-th of them is document s.
LEMMA FinishedAre ==
  ASSUME Typed, OnlyLastUnfinished, NEW s \in Nat \ {0}, s <= Cardinality(Finished)
  PROVE  s \in 1..Len(ran) /\ ran[s].complete /\ FinishedAt(s) = s
<1>1. Len(ran) \in Nat /\ DOMAIN ran = 1..Len(ran)
  BY PositionFacts
<1>2. PICK n \in Nat : n <= Len(ran) /\ Finished = 1..n
  <2>1. CASE \A i \in 1..Len(ran) : ran[i].complete
    BY <1>1, <2>1 DEF Finished
  <2>2. CASE \E i \in 1..Len(ran) : ~ran[i].complete
    <3>. DEFINE last == Len(ran)
                C(i) == ran[i].complete
    <3>0. \A i \in 1..last : ~C(i) => i = last
      BY DEF OnlyLastUnfinished
    <3>1. last \in Nat /\ Finished = {i \in 1..last : C(i)}
          /\ \E i \in 1..last : ~C(i)
      BY <1>1, <2>2 DEF Finished
    <3>. HIDE DEF last, C
    <3>2. ~C(last) /\ last - 1 \in Nat /\ last - 1 <= last
      BY <3>0, <3>1
    <3>3. Finished = 1..last - 1
      BY <3>0, <3>1, <3>2
    <3>. QED BY <3>2, <3>3 DEF last
  <2>. QED BY <2>1, <2>2
<1>3. Cardinality(Finished) = n
  BY <1>2, FS_Interval
<1>4. s \in Finished
  BY <1>2, <1>3
<1>5. \A i \in Finished : Cardinality({j \in Finished : j <= i}) = i
  <2>1. ASSUME NEW i \in Finished PROVE Cardinality({j \in Finished : j <= i}) = i
    <3>1. i \in Nat /\ {j \in Finished : j <= i} = 1..i
      BY <1>2
    <3>2. Cardinality(1..i) = i
      BY <3>1, FS_Interval
    <3>. QED BY <3>1, <3>2
  <2>. QED BY <2>1
<1>6. FinishedAt(s) = s
  BY <1>4, <1>5 DEF FinishedAt
<1>. QED BY <1>1, <1>4, <1>6 DEF Finished

\* Every step keeps what is published a finished document's own.
LEMMA StepPublished ==
  ASSUME Typed, Typed', [Next]_vars, OnlyLastUnfinished, PublishedOwn
  PROVE  OnlyLastUnfinished' /\ PublishedOwn'
<1>0. /\ request' = request /\ \A s : Narrowed(s)' = Narrowed(s)
  <2>1. request' = request
    BY Moves
  <2>. QED BY <2>1 DEF Narrowed, VariantsOf, StartOf
<1>1. /\ Len(ran) \in Nat /\ Len(publication) \in Nat
      /\ ran \in Seq([first: Nat, last: Nat, skipped: Nat, complete: BOOLEAN])
  <2>1. /\ ran \in Seq([first: Nat, last: Nat, skipped: Nat, complete: BOOLEAN])
        /\ publication \in Seq([source: Nat,
                                outcome: {"published", "failed", "skipped"},
                                success: BOOLEAN])
    BY DEF Typed, TypeOK
  <2>2. Len(publication) \in Nat
    <3>. DEFINE P == [source: Nat, outcome: {"published", "failed", "skipped"},
                      success: BOOLEAN]
    <3>. HIDE DEF P
    <3>. QED BY <2>1 DEF P
  <2>. QED BY <2>1, <2>2, PositionFacts
<1>2. ASSUME UNCHANGED <<publication, ran>>, Underway' => Underway,
             Underway \/ UNCHANGED results
      PROVE  OnlyLastUnfinished' /\ PublishedOwn'
  <2>1. OnlyLastUnfinished'
    BY <1>2 DEF OnlyLastUnfinished
  <2>2. CASE Underway
    <3>1. publication' = <<>> /\ Len(publication') = 0
      BY <1>2, <2>2 DEF PublishedOwn
    <3>. QED BY <2>1, <3>1 DEF PublishedOwn
  <2>3. CASE ~Underway
    <3>1. ~Underway' /\ results' = results /\ publication' = publication /\ ran' = ran
      BY <1>2, <2>3
    <3>2. ASSUME NEW k \in 1..Len(publication) PROVE Own(k)'
      <4>1. Own(k)
        BY DEF PublishedOwn
      <4>. QED BY <1>0, <3>1, <4>1 DEF Own
    <3>. QED BY <2>1, <3>1, <3>2 DEF PublishedOwn
  <2>. QED BY <2>2, <2>3
<1>3. ASSUME NEW complete \in BOOLEAN, Underway, ran' = Append(ran, SourceRun(complete)),
             publication' = publication, ~complete => ~Underway'
      PROVE  OnlyLastUnfinished' /\ PublishedOwn'
  <2>1. publication' = <<>> /\ Len(publication') = 0
    BY <1>3 DEF PublishedOwn
  <2>2. /\ Len(ran') = Len(ran) + 1
        /\ \A s \in 1..Len(ran) : ran'[s] = ran[s] /\ ran[s].complete
        /\ ran'[Len(ran) + 1].complete = complete
    BY <1>1, <1>3 DEF OnlyLastUnfinished, SourceRun
  <2>3. OnlyLastUnfinished'
    BY <1>1, <1>3, <2>2 DEF OnlyLastUnfinished
  <2>. QED BY <2>1, <2>3 DEF PublishedOwn
<1>4. ASSUME NEW outcome \in {"published", "failed", "skipped"}, Publish(outcome)
      PROVE  OnlyLastUnfinished' /\ PublishedOwn'
  <2>0. PICK k \in Nat \ {0} : k = Len(publication) + 1
    BY <1>1
  <2>1. /\ phase = "publish" /\ ~Underway /\ ~Underway' /\ UNCHANGED <<ran, results>>
        /\ k <= ToPublish /\ publication' = Append(publication, Published(k, outcome))
        /\ outcome # "skipped" => ~Narrowed(k)
    BY <1>4, <2>0 DEF Publish, Underway, runVars, scoreVars
  <2>2. ToPublish = 0 \/ ToPublish = Cardinality(Finished)
    BY DEF ToPublish
  <2>3. k <= Cardinality(Finished)
    BY <2>0, <2>1, <2>2
  <2>4. k \in 1..Len(ran) /\ ran[k].complete /\ FinishedAt(k) = k
    BY <2>0, <2>3, FinishedAre
  <2>5. Published(k, outcome) =
          [source |-> k, outcome |-> outcome,
           success |-> \A j \in ran[k].first + 1 .. ran[k].last : results[j].status = "verified"]
    BY <2>4 DEF Published
  <2>6. /\ Len(publication') = k /\ publication'[k] = Published(k, outcome)
        /\ \A i \in 1..Len(publication) : publication'[i] = publication[i]
    <3>1. publication \in Seq([source: Nat, outcome: {"published", "failed", "skipped"},
                               success: BOOLEAN])
      BY DEF Typed, TypeOK
    <3>. QED BY <2>0, <2>1, <3>1
  <2>7. OnlyLastUnfinished'
    BY <2>1 DEF OnlyLastUnfinished
  <2>8. PublishedOwn'
    <3>1. Own(k)'
      <4>. DEFINE all == \A j \in ran[k].first + 1 .. ran[k].last :
                            results[j].status = "verified"
      <4>1. Published(k, outcome) = [source |-> k, outcome |-> outcome, success |-> all]
        BY <2>5
      <4>2. all' = all
        BY <2>1
      <4>. HIDE DEF all
      <4>3. /\ publication'[k].source = k /\ publication'[k].outcome = outcome
            /\ publication'[k].success = all
        BY <2>6, <4>1
      <4>4. publication'[k].success = all'
        BY <4>2, <4>3
      <4>. QED BY <1>0, <2>1, <2>4, <4>3, <4>4 DEF Own, all
    <3>2. ASSUME NEW i \in 1..Len(publication) PROVE Own(i)'
      <4>1. Own(i) /\ publication'[i] = publication[i]
        BY <2>6 DEF PublishedOwn
      <4>. QED BY <1>0, <2>1, <4>1 DEF Own
    <3>3. ASSUME NEW i \in 1..k PROVE Own(i)'
      <4>1. i = k \/ i \in 1..Len(publication)
        BY <1>1, <2>0
      <4>. QED BY <3>1, <3>2, <4>1
    <3>. QED BY <2>1, <2>6, <3>3 DEF PublishedOwn
  <2>. QED BY <2>7, <2>8
<1>5. CASE CloseSource
  BY <1>3, <1>5 DEF CloseSource, AtVariant, Underway, endVars
<1>6. CASE EndEarly
  BY <1>3, <1>6 DEF EndEarly, Underway, endVars
<1>. QED BY <1>2, <1>4, <1>5, <1>6, PublishMoves

-----------------------------------------------------------------------------
(* The inductive invariant. *)

Inv ==
  /\ Typed
  /\ Results /\ Located
  /\ Whole /\ Counted
  /\ Failures /\ StopsAtFirstFailure
  /\ VerdictIs /\ Reports /\ Standing
  /\ Divided /\ RunsDivided /\ OpenDivided
  /\ OnlyLastUnfinished /\ PublishedOwn

\* The invariant holds at the start.
LEMMA InitInv == Init => Inv
<1> SUFFICES ASSUME Init PROVE Inv OBVIOUS
<1>1. Typed
  BY InitTyped
<1>2. /\ at = 0 /\ results = <<>> /\ DOMAIN results = {} /\ Len(results) = 0
      /\ ran = <<>> /\ Len(ran) = 0
      /\ step = "next" /\ standing = {} /\ phase \in {"fetch", "begin"}
      /\ aborted = "none" /\ ~stopped /\ source = 1
      /\ report = [point |-> "none", notRun |-> 0]
      /\ opened = [first |-> 0, skipped |-> 0]
      /\ tally = [verified |-> 0, failed |-> 0, unavailable |-> 0, skipped |-> 0,
                  pendingFailed |-> 0]
  BY DEF Init, NoAbort
<1>t. request \in Requests /\ Total \in Nat /\ Len(request.ends) \in Nat
  BY <1>1, RequestFacts DEF Typed, TypeOK
<1>3. Results /\ Located
  <2>1. \A v \in 1..Total : ~(v <= at)
    BY <1>2, <1>t
  <2> QED BY <1>2, <2>1 DEF Results, Located
<1>4. Whole /\ Counted
  BY <1>2 DEF Whole, Counted, Reached
<1>5. Failures /\ StopsAtFirstFailure
  BY <1>2 DEF Failures, StopsAtFirstFailure, Failing
<1>6. VerdictIs /\ Reports /\ Standing
  BY <1>2 DEF VerdictIs, Reports, Standing
<1>7. Divided /\ RunsDivided
  BY <1>2, <1>t DEF Divided, RunsDivided, Underway
<1>8. OpenDivided
  <2>1. source \in Documents => request.ends[source] \in Nat
    BY <1>1, PositionFacts
  <2>2. source \in Documents => SkippedOf(source) = {}
    BY <1>2, <2>1 DEF SkippedOf, VariantsOf, StartOf
  <2>3. source \in Documents => Cardinality(SkippedOf(source)) = 0
    BY <2>2, FS_EmptySet
  <2> QED BY <1>2, <2>3 DEF OpenDivided
<1>9. OnlyLastUnfinished /\ PublishedOwn
  BY <1>2 DEF Init, OnlyLastUnfinished, PublishedOwn
<1> QED BY <1>1, <1>3, <1>4, <1>5, <1>6, <1>7, <1>8, <1>9 DEF Inv

\* Every step keeps the invariant.
LEMMA StepInv == Inv /\ [Next]_vars => Inv'
<1> SUFFICES ASSUME Inv, [Next]_vars PROVE Inv' OBVIOUS
<1>1. Typed'
  BY StepTyped DEF Inv
<1>2. Results' /\ Located'
  BY <1>1, StepResults, StepLocated DEF Inv
<1>3. Whole' /\ Counted'
  BY <1>1, StepWhole, StepCounted DEF Inv
<1>4. Failures' /\ StopsAtFirstFailure'
  BY <1>1, StepFailures, StepStopsAtFirstFailure DEF Inv
<1>5. VerdictIs' /\ Reports' /\ Standing'
  BY <1>1, StepVerdict, StepReports, StepStanding DEF Inv
<1>6. Divided' /\ RunsDivided' /\ OpenDivided'
  BY <1>1, StepDivided DEF Inv
<1>7. OnlyLastUnfinished' /\ PublishedOwn'
  BY <1>1, StepPublished DEF Inv
<1> QED BY <1>1, <1>2, <1>3, <1>4, <1>5, <1>6, <1>7 DEF Inv

\* The status a variant has is that of its one result.
LEMMA OutcomeFacts ==
  ASSUME Typed, Results, NEW v
  PROVE  /\ Outcome(v) # {} <=> \E j \in DOMAIN results : results[j].variant = v
         /\ \A j \in DOMAIN results :
              results[j].variant = v => Outcome(v) = {results[j].status}
<1>1. Outcome(v) # {} <=> \E j \in DOMAIN results : results[j].variant = v
  BY DEF Outcome
<1>2. ASSUME NEW j \in DOMAIN results, results[j].variant = v
      PROVE  Outcome(v) = {results[j].status}
  <2>1. ASSUME NEW i \in DOMAIN results, results[i].variant = v
        PROVE  i = j
    <3>1. DOMAIN results = 1..Len(results) /\ Len(results) \in Nat /\ v \in 1..Total
          /\ Total \in Nat
      BY <1>2, ResultTypes, PositionFacts DEF Typed
    <3> QED BY <1>2, <2>1, <3>1 DEF Results
  <2> QED BY <1>2, <2>1 DEF Outcome
<1> QED BY <1>1, <1>2

\* Every document's results, those of the ones never begun included.
LEMMA Pairs ==
  ASSUME Typed, Results, Divided, RunsDivided, ~Underway, NEW s \in Documents
  PROVE  RangeOf(s) = {j \in DOMAIN results : results[j].variant \in VariantsOf(s)}
<1>p. /\ at \in Nat /\ source \in Nat \ {0} /\ Len(ran) \in Nat
      /\ Len(request.ends) \in Nat /\ request.ends[s] \in Nat /\ StartOf(s) \in Nat
  BY PositionFacts
<1>r. Len(results) \in Nat /\ DOMAIN results = 1..Len(results)
      /\ \A j \in DOMAIN results : results[j].variant \in 1..Total
  BY ResultTypes DEF Typed
<1>s. s \in 1..Len(request.ends)
  BY DEF Documents
<1>1. CASE s <= Len(ran)
  <2>1. /\ ran[s].last <= Len(results) /\ ran[s].first \in Nat /\ ran[s].last \in Nat
        /\ \A j \in DOMAIN results :
             j \in ran[s].first + 1 .. ran[s].last
               <=> results[j].variant \in VariantsOf(s)
    <3>1. s \in 1..Len(ran)
      BY <1>p, <1>s, <1>1
    <3> QED BY <3>1, PositionFacts DEF RunsDivided
  <2>2. ran[s].first + 1 .. ran[s].last \subseteq DOMAIN results
    BY <1>r, <2>1
  <2> QED BY <1>1, <2>1, <2>2 DEF RangeOf
<1>2. CASE s > Len(ran)
  <2>1. RangeOf(s) = {}
    BY <1>p, <1>s, <1>2 DEF RangeOf
  <2>2. at <= StartOf(s)
    <3>1. CASE Len(ran) = source
      <4>1. source \in Documents /\ s - 1 \in Documents /\ source <= s - 1
        BY <1>p, <1>s, <1>2, <3>1 DEF Documents
      <4>2. at <= request.ends[source] /\ request.ends[source] <= request.ends[s - 1]
        BY <4>1, RequestFacts DEF Typed, TypeOK, Cursor
      <4>3. request.ends[source] \in Nat /\ request.ends[s - 1] \in Nat /\ s # 1
        <5>1. request.ends[source] \in Nat /\ request.ends[s - 1] \in Nat
          BY <4>1, PositionFacts
        <5>2. s # 1
          BY <4>1 DEF Documents
        <5> QED BY <5>1, <5>2
      <4>4. StartOf(s) = request.ends[s - 1]
        BY <4>3 DEF StartOf
      <4>5. at \in Nat
        BY <1>p
      <4> QED BY <4>2, <4>3, <4>4, <4>5
    <3>2. CASE Len(ran) = source - 1
      <4>1. source \in Documents
        BY <1>p, <1>s, <1>2, <3>2 DEF Documents
      <4> QED BY <1>p, <3>2, <4>1 DEF Divided
    <3> QED BY <3>1, <3>2 DEF Divided
  <2>3. \A j \in DOMAIN results : results[j].variant <= at /\ results[j].variant \in Int
    BY <1>r, PositionFacts DEF Results
  <2>4. \A j \in DOMAIN results : results[j].variant \notin VariantsOf(s)
    BY <1>p, <2>2, <2>3 DEF VariantsOf
  <2> QED BY <2>1, <2>4
<1> QED BY <1>p, <1>s, <1>1, <1>2

-----------------------------------------------------------------------------
(* The properties. *)

\* The invariant counts every variant.
LEMMA InvCounted == Inv => EveryVariantCounted
<1> SUFFICES ASSUME Inv PROVE EveryVariantCounted OBVIOUS
<1>1. \A v \in 1..Total : Outcome(v) # {} <=> v <= at /\ v \notin request.excluded
  BY OutcomeFacts DEF Inv, Results
<1> QED BY <1>1 DEF Inv, Counted, Results, EveryVariantCounted

\* The invariant divides the results among the pairs.
LEMMA InvPairs == Inv => PairsAddUp
<1> SUFFICES ASSUME Inv, phase \in {"after", "finish", "ended"},
                    NEW s \in Documents
             PROVE  /\ RangeOf(s) = {j \in DOMAIN results :
                                       results[j].variant \in VariantsOf(s)}
                    /\ s <= Len(ran) => ran[s].skipped = Cardinality(SkippedOf(s))
  BY DEF PairsAddUp, SkippedOf
<1>1. ~Underway
  BY DEF Underway
<1>2. s <= Len(ran) => s \in 1..Len(ran)
  BY PositionFacts DEF Inv, Documents
<1> QED BY <1>1, <1>2, Pairs DEF Inv, RunsDivided

\* The invariant makes the verdicts honest.
LEMMA InvHonest == Inv => VerdictsHonest
<1> SUFFICES ASSUME Inv, phase = "ended" PROVE VerdictsHonest
  BY DEF VerdictsHonest
<1>i. Typed /\ Results /\ Located /\ Whole /\ Failures /\ VerdictIs
      /\ Divided /\ RunsDivided
  BY DEF Inv
<1>p. at \in Nat /\ Total \in Nat
  BY <1>i, PositionFacts
<1>1. ASSUME verdict \in {"verified", "filtered"}, NEW v \in 1..Total
      PROVE  \/ Outcome(v) = {"verified"}
             \/ Outcome(v) # {} /\ v \in request.pending
             \/ verdict = "filtered" /\ v \in request.excluded
  <2>1. Failing = 0 /\ aborted = "none"
        /\ ((\E s \in Documents : Narrowed(s)) => verdict = "filtered")
    BY <1>i, <1>1, FailingInt DEF VerdictIs, RunStatus, Failures, Typed
  <2>2. at = Total
    BY <1>i, <2>1 DEF Failures, Whole, Typed, Cursor
  <2>3. CASE v \in request.excluded
    <3>1. PICK s \in Documents : v \in VariantsOf(s)
      BY <1>i, <2>2 DEF Located
    <3> QED BY <2>1, <2>3, <3>1 DEF Narrowed
  <2>4. CASE v \notin request.excluded
    <3>1. PICK j \in DOMAIN results : results[j].variant = v
      BY <1>i, <1>p, <2>2, <2>4 DEF Results
    <3>2. Outcome(v) = {results[j].status}
      BY <1>i, <3>1, OutcomeFacts
    <3>3. results[j].status = "verified" \/ v \in request.pending
      BY <1>i, <2>1, <3>1 DEF Failures, FailsRun
    <3> QED BY <3>2, <3>3
  <2> QED BY <2>3, <2>4
<1>2. ASSUME NEW s \in Documents, PairStatus(s) = "verified",
             NEW v \in VariantsOf(s)
      PROVE  Outcome(v) = {"verified"}
  <2>1. /\ \A j \in RangeOf(s) : results[j].status = "verified"
        /\ ~(s > Len(ran)) /\ ran[s].complete /\ ~Narrowed(s)
    BY <1>2 DEF PairStatus
  <2>2. Len(ran) \in Nat /\ s \in Nat \ {0} /\ request.ends[s] \in 0..Total
        /\ StartOf(s) \in Nat
    <3>1. Len(ran) \in Nat /\ StartOf(s) \in Nat /\ Len(request.ends) \in Nat
      BY <1>i, PositionFacts
    <3>2. request.ends[s] \in 0..Total
      BY <1>i, RequestFacts DEF Typed, TypeOK
    <3>3. s \in Nat \ {0}
      BY <3>1 DEF Documents
    <3> QED BY <3>1, <3>2, <3>3
  <2>3. request.ends[s] <= at
    BY <1>i, <2>1, <2>2 DEF RunsDivided
  <2>4. v \in 1..Total /\ v <= at /\ v \notin request.excluded
    BY <1>p, <1>2, <2>1, <2>2, <2>3 DEF VariantsOf, Narrowed
  <2>5. PICK j \in DOMAIN results : results[j].variant = v
    BY <1>i, <2>4 DEF Results
  <2>6. j \in RangeOf(s)
    BY <1>i, <1>2, <2>5, Pairs DEF Underway
  <2> QED BY <1>i, <2>1, <2>5, <2>6, OutcomeFacts
<1> QED BY <1>1, <1>2 DEF VerdictsHonest

\* The invariant makes the hook report true.
LEMMA InvReported == Inv => AbortReported
<1> SUFFICES ASSUME Inv, phase = "ended", report.point # "after-verification"
             PROVE  /\ report.point = aborted
                    /\ aborted # "none" =>
                         report.notRun = notRun /\ verdict = "failed"
  BY DEF AbortReported
<1> QED BY DEF Inv, Reports, VerdictIs, RunStatus

\* The invariant makes what is published whole.
LEMMA InvPublished == Inv => PublishedWhole
<1>. SUFFICES ASSUME Inv, NEW k \in DOMAIN publication, publication[k].outcome # "skipped"
              PROVE  /\ \A v \in VariantsOf(publication[k].source) : Outcome(v) # {}
                     /\ publication[k].success =
                          \A v \in VariantsOf(publication[k].source) : Outcome(v) = {"verified"}
  BY DEF PublishedWhole
<1>i. Typed /\ Results /\ Divided /\ RunsDivided /\ PublishedOwn
  BY DEF Inv
<1>p. at \in Nat /\ Total \in Nat /\ Len(ran) \in Nat /\ Len(request.ends) \in Nat
  BY <1>i, PositionFacts
<1>1. DOMAIN publication = 1..Len(publication) /\ Len(publication) \in Nat
  BY <1>i DEF Typed, TypeOK
<1>2. ~Underway
  BY <1>i, <1>1 DEF PublishedOwn, Own
<1>3. /\ k \in 1..Len(ran) /\ ran[k].complete /\ ~Narrowed(k)
      /\ publication[k].source = k
      /\ publication[k].success =
           \A j \in ran[k].first + 1 .. ran[k].last : results[j].status = "verified"
  BY <1>i, <1>1 DEF PublishedOwn, Own
<1>4. k \in Documents /\ k \in Nat /\ k <= Len(ran)
  BY <1>i, <1>p, <1>3 DEF Divided, Documents
<1>5. RangeOf(k) = {j \in DOMAIN results : results[j].variant \in VariantsOf(k)}
      /\ RangeOf(k) = ran[k].first + 1 .. ran[k].last
  BY <1>i, <1>2, <1>4, Pairs DEF RangeOf
<1>6. ASSUME NEW v \in VariantsOf(k)
      PROVE  \E j \in RangeOf(k) : results[j].variant = v /\ Outcome(v) = {results[j].status}
  <2>1. request.ends[k] \in 0..Total /\ StartOf(k) \in Nat
    BY <1>i, <1>4, RequestFacts, PositionFacts DEF Typed, TypeOK
  <2>2. request.ends[k] <= at
    BY <1>i, <1>3 DEF RunsDivided
  <2>3. v \in 1..Total /\ v <= at /\ v \notin request.excluded
    BY <1>p, <1>3, <1>6, <2>1, <2>2 DEF VariantsOf, Narrowed
  <2>4. PICK j \in DOMAIN results : results[j].variant = v
    BY <1>i, <2>3 DEF Results
  <2>. QED BY <1>i, <1>5, <1>6, <2>4, OutcomeFacts
<1>7. \A v \in VariantsOf(k) : Outcome(v) # {}
  BY <1>6
<1>8. (\A j \in RangeOf(k) : results[j].status = "verified") <=>
        \A v \in VariantsOf(k) : Outcome(v) = {"verified"}
  <2>1. ASSUME \A j \in RangeOf(k) : results[j].status = "verified", NEW v \in VariantsOf(k)
        PROVE  Outcome(v) = {"verified"}
    BY <1>6, <2>1
  <2>2. ASSUME \A v \in VariantsOf(k) : Outcome(v) = {"verified"}, NEW j \in RangeOf(k)
        PROVE  results[j].status = "verified"
    <3>1. j \in DOMAIN results /\ results[j].variant \in VariantsOf(k)
      BY <1>5, <2>2
    <3>2. Outcome(results[j].variant) = {results[j].status}
      BY <1>i, <3>1, OutcomeFacts
    <3>. QED BY <2>2, <3>1, <3>2
  <2>. QED BY <2>1, <2>2
<1>. QED BY <1>3, <1>5, <1>7, <1>8

-----------------------------------------------------------------------------
\* The invariant holds of every run.
LEMMA Invariant == Spec => []Inv
BY InitInv, StepInv, PTL DEF Spec

\* Every variable has its type, whatever the documents, the filter and the
\* hooks: no count goes below zero and no result names a variant out of range.
THEOREM TypeCorrect == Spec => []TypeOK
<1>1. Inv => TypeOK
  BY DEF Inv, Typed
<1> QED BY <1>1, Invariant, PTL

\* Every variant dealt with was skipped or has one result, in order; the tallies
\* and what was not run add up to what the documents record (fn run, summary).
THEOREM VariantsCounted == Spec => []EveryVariantCounted
BY InvCounted, Invariant, PTL

\* Each document's pair has exactly the results of its variants, and its own
\* skipped ones, also when the run ended before it (pair_entry).
THEOREM PairsDivide == Spec => []PairsAddUp
BY InvPairs, Invariant, PTL

\* A document's published result is a verdict on all of its variants and on no
\* other document's (publish).
THEOREM PublishedResultsWhole == Spec => []PublishedWhole
BY InvPublished, Invariant, PTL

\* A verified run, and a verified pair, left out no variant and hid no failure
\* but a pending one's (summary, pair_entry).
THEOREM HonestVerdicts == Spec => []VerdictsHonest
BY InvHonest, Invariant, PTL

\* Asked to stop at the first failure that fails it, the run deals with no
\* variant after it (verify_prepared).
THEOREM FirstFailureStops == Spec => []StopsAtFirstFailure
<1>1. Inv => StopsAtFirstFailure
  BY DEF Inv
<1> QED BY <1>1, Invariant, PTL

\* The hook report and the verdict tell of the run's abort (fn run).
THEOREM AbortsReported == Spec => []AbortReported
BY InvReported, Invariant, PTL

\* States are torn down in the reverse of their setup, all of them before the
\* next variant (verify_exchange).
THEOREM TearDownReverses == Spec => TornDownInReverse
<1>1. Inv /\ [Next]_vars =>
        [/\ at' # at => standing = {}
         /\ \A i \in standing \ standing' : \A j \in standing : j <= i]_vars
  BY StepTearsDown DEF Inv
<1> QED BY <1>1, Invariant, PTL DEF Spec, TornDownInReverse
====
