--------------------------- MODULE VerificationRun ---------------------------
(***************************************************************************)
(* The thread of one provider verification (engine/kernel/src/protocol/    *)
(* verification.rs, fn run) from its start to its terminal event: fetching *)
(* the documents, replaying every recorded variant of every document, the  *)
(* lifecycle hooks around each, the tallies, publication and the verdict.  *)
(*                                                                         *)
(* The documents are one list of variants, in the order the run meets      *)
(* them, with a mark where each document ends. An interaction has no state *)
(* of its own: its filter and its pending mark are its variants'. The      *)
(* stream its events go to, and a panic of the thread, are in EventStreams.*)
(***************************************************************************)
EXTENDS Integers, FiniteSets, Sequences

CONSTANTS
  Requests,  \* the verifications a host may ask for
  State      \* provider states

Point == {"before-verification", "state-setup", "before-request",
          "produce-message", "after-response", "state-teardown",
          "after-verification"}
Policy == {"abort-run", "fail-exchange", "warn"}

\* A recorded variant: whether it can be prepared, whether a transport of its
\* kind was started, whether it is driven or produced, and its states.
Replay == [kind: {"broken", "untransported", "driven", "produced"},
           states: Seq(State)]

Request ==
  [broker: BOOLEAN,            \* the documents are to be fetched
   replays: Seq(Replay),
   ends: Seq(Nat),             \* how many variants the first s documents have
   excluded: SUBSET Nat,       \* the variants the filter leaves out
   pending: SUBSET Nat,        \* the pending ones
   publish: BOOLEAN,           \* `options.publish`
   publishable: SUBSET Nat,    \* the documents a broker served
   hooks: [Point -> SUBSET Policy],  \* what the hooks of a point do on failure
   handled: SUBSET State,      \* the states a `state-setup` hook admits
   failUnhandled: BOOLEAN,     \* `unhandled-states: fail`
   stopOnFailure: BOOLEAN]     \* `stop-on-first-failure`

WellFormed(r) ==
  /\ \A s \in 1..Len(r.ends) : r.ends[s] <= Len(r.replays)
  /\ \A s, t \in 1..Len(r.ends) : s <= t => r.ends[s] <= r.ends[t]
  /\ IF r.ends = <<>> THEN r.replays = <<>>
                      ELSE r.ends[Len(r.ends)] = Len(r.replays)

ASSUME RequestsAssumption ==
  \A r \in Requests : r \in Request /\ WellFormed(r)

VARIABLES
  request,     \* what was asked: read by every step, written by none
  phase,       \* "fetch", "begin", "verify", "publish", "after", "finish",
               \* and "ended", or "unread" when the documents were not read
  source,      \* the document being verified
  opened,      \* its first result's position, and what was skipped before it
  at,          \* the variants dealt with
  step,        \* in the exchange of variant at + 1: "next" before it,
               \* "setup", "send", "observe", "report", "teardown"
  state,       \* the state to set up or tear down
  status,      \* the outcome of the exchange so far
  tally,       \* struct Tally
  results,     \* its results, in order
  ran,         \* struct SourceRun of each document reached
  aborted,     \* the point whose hook ended the run, or "none"
  stopped,     \* whether a failure did
  report,      \* the abort in the hook report
  publication, \* what became of each published document
  notRun,      \* the variants the run did not reach
  verdict,     \* the status of the summary
  targets,     \* whether the run's transports are up
  \* History, read by no action: the states of the exchange under way which
  \* were set up and not torn down, and the variants a hook was said to fail.
  standing, blamed

runVars   == <<source, opened, ran, aborted, stopped, report>>
exchange  == <<step, state, status, standing, blamed>>
scoreVars == <<at, tally, results>>
endVars   == <<publication, notRun, verdict, targets>>
vars == <<request, phase, runVars, exchange, scoreVars, endVars>>

NoAbort == [point |-> "none", notRun |-> 0]
Status  == {"verified", "failed", "state-unavailable"}

Total     == Len(request.replays)
Documents == 1..Len(request.ends)
StartOf(s) == IF s = 1 THEN 0 ELSE request.ends[s - 1]
VariantsOf(s) == StartOf(s) + 1 .. request.ends[s]
Narrowed(s) == VariantsOf(s) \cap request.excluded # {}

\* The exchange under way.
Variant == at + 1
States  == request.replays[Variant].states

\* HookRunner::run_point: what the hooks of a point can come to. A hook that
\* warns leaves the point to the hooks after it; any other failure ends it.
Outcomes(p) ==
  {"continue"}
    \cup {o \in {"abort"} : "abort-run" \in request.hooks[p]}
    \cup {o \in {"fail"} : "fail-exchange" \in request.hooks[p]}
    \cup {o \in {"unavailable"} : /\ p \in {"state-setup", "state-teardown"}
                                  /\ request.hooks[p] # {}}

\* A failure that fails the run: a pending variant's does not.
Failing == tally.failed + tally.unavailable - tally.pendingFailed

One(condition) == IF condition THEN 1 ELSE 0

\* Mutant of Tallied: an unavailable state is counted twice.
TalliedTwice(outcome) ==
  [verified      |-> tally.verified + One(outcome = "verified"),
   failed        |-> tally.failed + One(outcome # "verified"),
   unavailable   |-> tally.unavailable + One(outcome = "state-unavailable"),
   skipped       |-> tally.skipped,
   pendingFailed |-> tally.pendingFailed
                       + One(outcome # "verified" /\ Variant \in request.pending)]

\* Tally::record, of the variant at hand.
Tallied(outcome) ==
  [verified      |-> tally.verified + One(outcome = "verified"),
   failed        |-> tally.failed + One(outcome = "failed"),
   unavailable   |-> tally.unavailable + One(outcome = "state-unavailable"),
   skipped       |-> tally.skipped,
   pendingFailed |-> tally.pendingFailed
                       + One(outcome # "verified" /\ Variant \in request.pending)]

\* pair_entry, and the positions of a document's results.
RangeOf(s) == IF s <= Len(ran) THEN ran[s].first + 1 .. ran[s].last ELSE {}

PairStatus(s) ==
  IF \E j \in RangeOf(s) : results[j].status # "verified" THEN "failed"
  ELSE IF s > Len(ran) \/ ~ran[s].complete THEN "incomplete"
  ELSE IF Narrowed(s) THEN "filtered" ELSE "verified"

\* Mutant of RunStatus: an abort is reported and does not fail the run.
RunStatusLenient ==
  IF Failing > 0 THEN "failed"
  ELSE IF \E s \in Documents : Narrowed(s) THEN "filtered" ELSE "verified"

\* summary: the status of the run.
RunStatus ==
  IF Failing > 0 \/ aborted # "none" THEN "failed"
  ELSE IF \E s \in Documents : Narrowed(s) THEN "filtered" ELSE "verified"

-----------------------------------------------------------------------------
Init ==
  /\ request \in Requests
  /\ phase = IF request.broker THEN "fetch" ELSE "begin"
  /\ source = 1
  /\ opened = [first |-> 0, skipped |-> 0]
  /\ at = 0
  /\ step = "next"
  /\ state = 0
  /\ status = "none"
  /\ tally = [verified |-> 0, failed |-> 0, unavailable |-> 0, skipped |-> 0,
              pendingFailed |-> 0]
  /\ results = <<>>
  /\ ran = <<>>
  /\ aborted = "none"
  /\ stopped = FALSE
  /\ report = NoAbort
  /\ publication = <<>>
  /\ notRun = 0
  /\ verdict = "none"
  /\ targets = TRUE
  /\ standing = {}
  /\ blamed = {}

\* fetch_sources: the documents are fetched, read and checked.
Fetch ==
  /\ phase = "fetch"
  /\ phase' = "begin"
  /\ UNCHANGED <<request, runVars, exchange, scoreVars, endVars>>

\* They are not: the run ends at once, failed, with its transports stopped.
FetchFails ==
  /\ phase = "fetch"
  /\ phase' = "unread"
  /\ targets' = FALSE
  /\ verdict' = "failed"
  /\ UNCHANGED <<request, runVars, exchange, scoreVars, publication, notRun>>

\* Mutant of Aborts: the run's own record is not written.
AbortsUnsaid(o, p) ==
  IF o = "abort"
  THEN /\ report' = [point |-> p, notRun |-> 0]
       /\ UNCHANGED aborted
  ELSE UNCHANGED <<aborted, report>>

\* What an outcome of a point does to the run, and to the hook report.
Aborts(o, p) ==
  IF o = "abort"
  THEN /\ aborted' = p
       /\ report' = [point |-> p, notRun |-> 0]
  ELSE UNCHANGED <<aborted, report>>

\* verification/started, then the `before-verification` hooks.
Begin(o) ==
  /\ phase = "begin"
  /\ o \in Outcomes("before-verification")
  /\ Aborts(o, "before-verification")
  /\ phase' = IF o = "abort" THEN "publish" ELSE "verify"
  /\ UNCHANGED <<request, source, opened, ran, stopped, exchange, scoreVars,
                 endVars>>

-----------------------------------------------------------------------------
(* verify_prepared: the variants, one after the other. *)

\* Mutant of EndsEarly: failures are left out.
EndsWhenAborted == aborted # "none"

\* The run ends here: a hook aborted it, or a failure that fails it was
\* recorded and `stop-on-first-failure` was asked.
EndsEarly ==
  aborted # "none" \/ (request.stopOnFailure /\ Failing > 0)

AtVariant ==
  /\ phase = "verify" /\ step = "next"
  /\ source \in Documents
  /\ ~EndsEarly

SourceRun(complete) ==
  [first |-> opened.first, last |-> Len(results),
   skipped |-> tally.skipped - opened.skipped, complete |-> complete]

\* Mutant of CloseSource: the next document's results start where this one's do.
CloseSourceWithoutOpening ==
  /\ AtVariant
  /\ at = request.ends[source]
  /\ ran' = Append(ran, SourceRun(TRUE))
  /\ source' = source + 1
  /\ UNCHANGED <<request, phase, opened, aborted, stopped, report, exchange,
                 scoreVars, endVars>>

\* A document is done, and the next one begins.
CloseSource ==
  /\ AtVariant
  /\ at = request.ends[source]
  /\ ran' = Append(ran, SourceRun(TRUE))
  /\ source' = source + 1
  /\ opened' = [first |-> Len(results), skipped |-> tally.skipped]
  /\ UNCHANGED <<request, phase, aborted, stopped, report, exchange, scoreVars,
                 endVars>>

\* All of them are done.
CloseLast ==
  /\ phase = "verify"
  /\ source \notin Documents
  /\ phase' = "publish"
  /\ UNCHANGED <<request, runVars, exchange, scoreVars, endVars>>

\* The run ends in the middle of a document, which stays incomplete.
EndEarly ==
  /\ phase = "verify" /\ step = "next"
  /\ source \in Documents
  /\ EndsEarly
  /\ stopped' = (aborted = "none")
  /\ ran' = Append(ran, SourceRun(FALSE))
  /\ phase' = "publish"
  /\ UNCHANGED <<request, source, opened, aborted, report, exchange, scoreVars,
                 endVars>>

\* The filter leaves the variant out.
Skip ==
  /\ AtVariant
  /\ at < request.ends[source]
  /\ Variant \in request.excluded
  /\ tally' = [tally EXCEPT !.skipped = @ + 1]
  /\ at' = at + 1
  /\ UNCHANGED <<request, phase, runVars, exchange, results, endVars>>

\* Tally::record, and on to the next variant.
RecordAs(outcome) ==
  /\ tally' = Tallied(outcome)
  /\ results' = Append(results, [variant |-> Variant, status |-> outcome])
  /\ at' = at + 1

\* report_failure: it cannot be prepared, or nothing speaks its transport.
Refuse ==
  /\ AtVariant
  /\ at < request.ends[source]
  /\ Variant \notin request.excluded
  /\ request.replays[Variant].kind \in {"broken", "untransported"}
  /\ RecordAs("failed")
  /\ UNCHANGED <<request, phase, runVars, exchange, endVars>>

\* verification/interaction-started.
Start ==
  /\ AtVariant
  /\ at < request.ends[source]
  /\ Variant \notin request.excluded
  /\ request.replays[Variant].kind \in {"driven", "produced"}
  /\ step' = "setup"
  /\ state' = 1
  /\ UNCHANGED <<request, phase, runVars, status, standing, blamed, scoreVars,
                 endVars>>

-----------------------------------------------------------------------------
(* verify_exchange. *)

\* A failure under `fail-exchange` is recorded with that effect.
Blame(o) == blamed' = IF o = "fail" THEN blamed \cup {Variant} ELSE blamed

\* What a point before the exchange makes of it.
Stops(o) == CASE o = "unavailable" -> "state-unavailable"
              [] o \in {"abort", "fail"} -> "failed"
              [] OTHER -> "none"

\* No hook sets the state up, and the run was asked to fail such variants.
FailUnhandled ==
  /\ step = "setup" /\ state <= Len(States)
  /\ request.failUnhandled /\ States[state] \notin request.handled
  /\ status' = "failed"
  /\ step' = "report"
  /\ UNCHANGED <<request, phase, runVars, state, standing, blamed, scoreVars,
                 endVars>>

\* state-setup, one state. One that no hook handles is only warned of.
SetUp(o) ==
  /\ step = "setup" /\ state <= Len(States)
  /\ IF States[state] \in request.handled THEN o \in Outcomes("state-setup")
     ELSE o = "continue" /\ ~request.failUnhandled
  /\ Aborts(o, "state-setup")
  /\ Blame(o)
  /\ status' = Stops(o)
  /\ standing' = standing \cup {state}
  /\ IF o = "continue" THEN state' = state + 1 /\ UNCHANGED step
                       ELSE step' = "report" /\ UNCHANGED state
  /\ UNCHANGED <<request, phase, source, opened, ran, stopped, scoreVars,
                 endVars>>

Asking == IF request.replays[Variant].kind = "driven" THEN "before-request"
                                                      ELSE "produce-message"

\* Before its hooks, a driven variant may have nothing to send.
Unsendable ==
  /\ step = "setup" /\ state > Len(States)
  /\ Asking = "before-request"
  /\ status' = "failed"
  /\ step' = "report"
  /\ UNCHANGED <<request, phase, runVars, state, standing, blamed, scoreVars,
                 endVars>>

\* before-request or produce-message.
Ask(o) ==
  /\ step = "setup" /\ state > Len(States)
  /\ o \in Outcomes(Asking)
  /\ Aborts(o, Asking)
  /\ Blame(o)
  /\ status' = Stops(o)
  /\ step' = IF o = "continue" THEN "send" ELSE "report"
  /\ UNCHANGED <<request, phase, source, opened, ran, stopped, state, standing,
                 scoreVars, endVars>>

\* The exchange: the request is sent and the reply scored, or what the hooks
\* produced is. With no reply, or nothing produced, the variant failed.
Exchange(outcome, replied) ==
  /\ step = "send"
  /\ ~replied => outcome = "failed"
  /\ status' = outcome
  /\ step' = IF replied /\ Asking = "before-request" THEN "observe" ELSE "report"
  /\ UNCHANGED <<request, phase, runVars, state, standing, blamed, scoreVars,
                 endVars>>

\* after-response: the status it comes to is not looked at.
Observe(o) ==
  /\ step = "observe"
  /\ o \in Outcomes("after-response")
  /\ Aborts(o, "after-response")
  /\ Blame(o)
  /\ step' = "report"
  /\ UNCHANGED <<request, phase, source, opened, ran, stopped, state, status,
                 standing, scoreVars, endVars>>

\* verification/interaction-result.
Report ==
  /\ step = "report"
  /\ step' = "teardown"
  /\ state' = Len(States)
  /\ UNCHANGED <<request, phase, runVars, status, standing, blamed, scoreVars,
                 endVars>>

\* Mutant of TearDown: in the order of setup.
TearDownForward(o) ==
  /\ step = "teardown" /\ state > 0
  /\ o \in Outcomes("state-teardown")
  /\ Aborts(o, "state-teardown")
  /\ Blame(o)
  /\ standing' = standing \ {Len(States) + 1 - state}
  /\ state' = state - 1
  /\ UNCHANGED <<request, phase, source, opened, ran, stopped, step, status,
                 scoreVars, endVars>>

\* Mutant of TearDown: the same state again.
TearDownAgain(o) ==
  /\ step = "teardown" /\ state > 0
  /\ o \in Outcomes("state-teardown")
  /\ Aborts(o, "state-teardown")
  /\ Blame(o)
  /\ standing' = standing \ {state}
  /\ UNCHANGED <<request, phase, source, opened, ran, stopped, step, state,
                 status, scoreVars, endVars>>

\* state-teardown, one state, from the last.
TearDown(o) ==
  /\ step = "teardown" /\ state > 0
  /\ o \in Outcomes("state-teardown")
  /\ Aborts(o, "state-teardown")
  /\ Blame(o)
  /\ standing' = standing \ {state}
  /\ state' = state - 1
  /\ UNCHANGED <<request, phase, source, opened, ran, stopped, step, status,
                 scoreVars, endVars>>

\* verify_exchange returns, and its result is recorded.
Record ==
  /\ step = "teardown" /\ state = 0
  /\ RecordAs(status)
  /\ step' = "next"
  /\ status' = "none"
  /\ UNCHANGED <<request, phase, runVars, state, standing, blamed, endVars>>

-----------------------------------------------------------------------------
(* The end of the run. *)

\* Mutant of Finished: the documents reached, finished or not.
FinishedOrNot == DOMAIN ran

\* The documents the run finished, and the one its s-th result is of: a source is
\* published with the results of its position among them.
Finished == {i \in DOMAIN ran : ran[i].complete}
FinishedAt(s) == CHOOSE i \in Finished : Cardinality({j \in Finished : j <= i}) = s

Published(s, outcome) ==
  LET run == ran[FinishedAt(s)]
  IN  [source |-> s, outcome |-> outcome,
       success |-> \A j \in run.first + 1 .. run.last : results[j].status = "verified"]

ToPublish == IF request.broker /\ request.publish THEN Cardinality(Finished) ELSE 0

\* publish, one document. The client's call may fail: no verdict changes.
Publish(outcome) ==
  /\ phase = "publish"
  /\ LET s == Len(publication) + 1
     IN  /\ s <= ToPublish
         /\ IF Narrowed(s) \/ s \notin request.publishable
            THEN outcome = "skipped" ELSE outcome \in {"published", "failed"}
         /\ publication' = Append(publication, Published(s, outcome))
  /\ UNCHANGED <<request, phase, runVars, exchange, scoreVars, notRun, verdict,
                 targets>>

Reached == tally.verified + tally.failed + tally.unavailable + tally.skipped

\* What was not reached is counted, and noted in the report of the abort.
Count ==
  /\ phase = "publish"
  /\ Len(publication) = ToPublish
  /\ notRun' = IF (aborted # "none" \/ stopped) /\ Reached <= Total
               THEN Total - Reached ELSE 0
  /\ report' = IF (aborted # "none" \/ stopped) /\ report # NoAbort
               THEN [report EXCEPT !.notRun = notRun'] ELSE report
  /\ phase' = "after"
  /\ UNCHANGED <<request, source, opened, ran, aborted, stopped, exchange,
                 scoreVars, publication, verdict, targets>>

\* after-verification: an abort there reaches the hook report alone.
After(o) ==
  /\ phase = "after"
  /\ o \in Outcomes("after-verification")
  /\ report' = IF o = "abort" THEN [point |-> "after-verification", notRun |-> 0]
                              ELSE report
  /\ phase' = "finish"
  /\ UNCHANGED <<request, source, opened, ran, aborted, stopped, exchange,
                 scoreVars, endVars>>

\* stop_targets, then the terminal event with the summary.
Finish ==
  /\ phase = "finish"
  /\ targets' = FALSE
  /\ verdict' = RunStatus
  /\ phase' = "ended"
  /\ UNCHANGED <<request, runVars, exchange, scoreVars, publication, notRun>>

Over == phase \in {"ended", "unread"} /\ UNCHANGED vars

Step ==
  \/ Fetch
  \/ FetchFails
  \/ \E o \in {"continue", "abort", "fail"} : Begin(o)
  \/ CloseSource
  \/ CloseLast
  \/ EndEarly
  \/ Skip
  \/ Refuse
  \/ Start
  \/ FailUnhandled
  \/ \E o \in {"continue", "abort", "fail", "unavailable"} : SetUp(o)
  \/ Unsendable
  \/ \E o \in {"continue", "abort", "fail"} : Ask(o)
  \/ \E outcome \in {"verified", "failed"}, replied \in BOOLEAN :
       Exchange(outcome, replied)
  \/ \E o \in {"continue", "abort", "fail"} : Observe(o)
  \/ Report
  \/ \E o \in {"continue", "abort", "fail", "unavailable"} : TearDown(o)
  \/ Record
  \/ \E outcome \in {"published", "failed", "skipped"} : Publish(outcome)
  \/ Count
  \/ \E o \in {"continue", "abort", "fail"} : After(o)
  \/ Finish

Next == Step \/ Over

Spec == Init /\ [][Next]_vars

\* Every call the thread makes has a deadline, so it always takes its next step.
FairSpec == Spec /\ WF_vars(Step)

-----------------------------------------------------------------------------
(* Properties. *)

Outcome(v) == {results[j].status : j \in {i \in DOMAIN results :
                                            results[i].variant = v}}

FailsRun(result) ==
  result.status # "verified" /\ result.variant \notin request.pending

\* Every variable has its type.
TypeOK ==
  /\ request \in Requests
  /\ phase \in {"fetch", "begin", "verify", "publish", "after", "finish",
                "ended", "unread"}
  /\ source \in 1..Len(request.ends) + 1
  /\ opened \in [first: Nat, skipped: Nat]
  /\ at \in 0..Total
  /\ step \in {"next", "setup", "send", "observe", "report", "teardown"}
  /\ state \in Nat
  /\ status \in Status \cup {"none"}
  /\ tally \in [verified: Nat, failed: Nat, unavailable: Nat, skipped: Nat,
                pendingFailed: Nat]
  /\ results \in Seq([variant: 1..Total, status: Status])
  /\ ran \in Seq([first: Nat, last: Nat, skipped: Nat, complete: BOOLEAN])
  /\ aborted \in Point \cup {"none"}
  /\ stopped \in BOOLEAN
  /\ report \in [point: Point \cup {"none"}, notRun: Nat]
  /\ publication \in Seq([source: Nat,
                          outcome: {"published", "failed", "skipped"},
                          success: BOOLEAN])
  /\ notRun \in Nat
  /\ verdict \in {"none", "failed", "filtered", "verified"}
  /\ targets \in BOOLEAN
  /\ standing \subseteq Nat
  /\ blamed \subseteq 1..Total

\* A variant that the run dealt with was skipped or has one result, in order,
\* and one it did not reach has none: the tallies, and what was not run, add up to the
\* variants the documents record, however the run ended (fn run, fn summary).
EveryVariantCounted ==
  /\ Reached = at
  /\ phase \in {"after", "finish", "ended"} => Reached + notRun = Total
  /\ \A i, j \in DOMAIN results :
       i < j => results[i].variant < results[j].variant
  /\ \A v \in 1..Total :
       Outcome(v) # {} <=> v <= at /\ v \notin request.excluded

\* The pairs of the summary divide its results among them: each document has
\* exactly the results of its variants, and its own skipped ones (pair_entry).
PairsAddUp ==
  phase \in {"after", "finish", "ended"} =>
    \A s \in Documents :
      /\ RangeOf(s) = {j \in DOMAIN results :
                         results[j].variant \in VariantsOf(s)}
      /\ s <= Len(ran) =>
           ran[s].skipped = Cardinality({v \in VariantsOf(s) :
                                           v <= at /\ v \in request.excluded})

\* What is published of a document is its own: a verdict on every one of its
\* variants, none of them filtered out, which is a success exactly when each
\* was verified (fn publish).
PublishedWhole ==
  \A k \in DOMAIN publication :
    publication[k].outcome # "skipped" =>
      /\ \A v \in VariantsOf(publication[k].source) : Outcome(v) # {}
      /\ publication[k].success =
           \A v \in VariantsOf(publication[k].source) : Outcome(v) = {"verified"}

\* A run is verified when every variant was, or failed while pending; a pair
\* when every variant of it was. A filtered one may lack what was filtered.
VerdictsHonest ==
  phase = "ended" =>
    /\ verdict \in {"verified", "filtered"} =>
         \A v \in 1..Total :
           \/ Outcome(v) = {"verified"}
           \/ Outcome(v) # {} /\ v \in request.pending
           \/ verdict = "filtered" /\ v \in request.excluded
    /\ \A s \in Documents : PairStatus(s) = "verified" =>
         \A v \in VariantsOf(s) : Outcome(v) = {"verified"}

\* Asked to stop at the first failure that fails it, the run deals with no
\* variant after it (verify_prepared).
StopsAtFirstFailure ==
  request.stopOnFailure =>
    \A j \in DOMAIN results : FailsRun(results[j]) =>
      j = Len(results) /\ at = results[j].variant

\* An abort the hook report tells of is the run's, with the variants that were
\* not run counted, unless the `after-verification` hooks made it.
AbortReported ==
  phase = "ended" /\ report.point # "after-verification" =>
    /\ report.point = aborted
    /\ aborted # "none" => report.notRun = notRun /\ verdict = "failed"

\* States are torn down in the reverse of their setup, and all of them before
\* the next variant, whatever became of the exchange (verify_exchange).
TornDownInReverse ==
  [][/\ at' # at => standing = {}
     /\ \A i \in standing \ standing' : \A j \in standing : j <= i]_vars

\* The run reaches its terminal event (fn run, fn guarded).
RunEnds == <>(phase \in {"ended", "unread"} /\ ~targets)

\* The claim of PointOutcome::FailExchange: the attempt is failed.
HookFailureFails ==
  phase = "ended" => \A v \in blamed : Outcome(v) # {"verified"}
====
