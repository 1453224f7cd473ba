--------------------------- MODULE ConsumerSession ---------------------------
(***************************************************************************)
(* One consumer session of the engine (protocol/session.rs) together with  *)
(* the exchange loop of every transport it starts (protocol/exchange.rs).  *)
(*                                                                         *)
(* Two kinds of thread share the exchange state of a transport: the        *)
(* dispatcher, which runs one `consumer-session/*` request at a time, and  *)
(* one background loop per transport instance, which polls for an arrival, *)
(* matches it against the armings, answers it and records the outcome.     *)
(* A step of this module is a section one thread runs under one lock, or   *)
(* one call into the transport component.                                  *)
(*                                                                         *)
(* What is abstracted: a payload is the key of its variant, a request plan *)
(* is the score it gives a request (mismatches and passed actions), and a  *)
(* request the engine answers with an error and no change of state is no   *)
(* step at all.                                                            *)
(***************************************************************************)
EXTENDS Naturals

CONSTANTS
  MaxInteractions,  \* bound on the interactions added to the session
  MaxTransports,    \* bound on the `start-transport` calls
  Kind,             \* transport kinds
  Variant,          \* variant ids
  Base,             \* the id of the base variant, which every selection holds
  Identity,         \* what makes an interaction unique: description and states
  Specs,            \* the interactions a host may add
  Declares,         \* whether a host may declare `test-verdicts`
  Request,          \* what may arrive at a transport
  Score             \* Score[r][k]: request r run through the plan of variant k

Handle    == 1..MaxInteractions
Transport == 1..MaxTransports
Key       == Handle \X Variant

InteractionSpec ==
  [kind: Kind, mode: {"passive", "emissive", "untransported"},
   identity: Identity, space: SUBSET Variant, converted: BOOLEAN]
NoSpec    == [kind |-> "none", mode |-> "none", identity |-> "none",
              space |-> {}, converted |-> FALSE]
NoKind    == "unbound"
NoRequest == "no request"

ASSUME BoundsAssumption == MaxInteractions \in Nat /\ MaxTransports \in Nat
ASSUME SpecsAssumption  == /\ Base \in Variant
                           /\ Specs \subseteq InteractionSpec
                           /\ NoSpec \notin Specs
                           /\ \A s \in Specs : Base \in s.space
ASSUME KindAssumption   == NoKind \notin Kind
ASSUME HostAssumption   == Declares \subseteq BOOLEAN
ASSUME ScoreAssumption  ==
  Score \in [Request -> [Key -> [mismatches: Nat, passed: Nat]]]

VARIABLES
  \* The session (struct ConsumerSession, InteractionEntry).
  verdictsRequired, \* the host declared `test-verdicts`
  nextHandle,
  spec,             \* interactions, by handle; NoSpec when not added
  refused,          \* whether an add-interaction was refused
  selection,        \* the selected variants of a handle; {} before `variants`
  exercised,        \* evidence held by the interaction, by key
  reports,          \* the latest verdict of the test, by key
  nextTransport,
  bound,            \* the session's transports: kind of each, or NoKind
  session,          \* "open", "ending" once removed from the store, "ended"
  final,            \* what finalise answered
  \* The dispatcher, inside report-variant or stop_transports.
  op,               \* "idle", "settling", "stopping", "joining"
  reporting,        \* the key being reported
  verdict,          \* and its verdict
  todo,             \* the transports the current loop has still to visit
  settled,          \* what the transports visited so far had recorded
  late,             \* whether one of them timed out
  \* One exchange per transport (struct ExchangeState, fn run).
  live,             \* the component's instances
  stop,             \* stop flags
  armed,            \* armings: what they arm and the handles armed before them
  inFlight,         \* keys an arrival is being matched against
  outcomes,         \* evidence not yet taken by the session, by key
  loop,             \* where the loop's thread is
  request,          \* the arrival it handles
  armings,          \* its own copy of the armings
  recording,        \* the key and outcome it is about to record
  \* History, read by no action: what happened on the wire, by key, and the
  \* last answer of report-variant since the variant was last served, unless
  \* the report gave up waiting for an exchange under way.
  wire, answered

sessionVars  == <<verdictsRequired, nextHandle, spec, refused, selection,
                  exercised, reports, nextTransport, bound, session, final>>
opVars       == <<op, reporting, verdict, todo, settled, late>>
exchangeVars == <<live, stop, armed, inFlight, outcomes>>
loopVars     == <<loop, request, armings, recording>>
ghostVars    == <<wire, answered>>
vars == <<sessionVars, opVars, exchangeVars, loopVars, ghostVars>>

Evidence == {"none", "verified", "failed"}
Verdict  == {"none", "passed", "failed"}
Status   == {"failed", "not-exercised", "not-reported", "verified"}
Arming   == [handle: Handle, variant: Variant, ahead: SUBSET Handle]

KeyOf(a)  == <<a.handle, a.variant>>
Keys(set) == {KeyOf(a) : a \in set}
NoKey    == <<0, Base>>
NoRecord == [key |-> NoKey, outcome |-> "none", matched |-> FALSE]

-----------------------------------------------------------------------------
(* Helpers of the two source files. *)

\* Mutant of Merge: the latest exchange decides.
MergeLatestWins(earlier, later) == IF later = "none" THEN earlier ELSE later

\* Exercised::merge and record: one more exchange of the same variant.
Merge(earlier, later) ==
  IF "failed" \in {earlier, later} THEN "failed"
  ELSE IF "verified" \in {earlier, later} THEN "verified" ELSE "none"

\* Mutant of StatusOf: the evidence alone decides.
StatusIgnoringVerdict(report, evidence) ==
  CASE evidence = "none" -> "not-exercised"
    [] evidence = "failed" -> "failed"
    [] OTHER -> "verified"

\* ConsumerSession::variant_status, of a report and the evidence.
StatusOf(report, evidence) ==
  IF "failed" \in {report, evidence} THEN "failed"
  ELSE IF evidence = "none" THEN "not-exercised"
  ELSE IF verdictsRequired /\ report = "none" THEN "not-reported"
  ELSE "verified"

VariantStatus(k) == StatusOf(reports[k], exercised[k])

\* The armings left when those of `gone` are retained out.
Without(set, gone) ==
  {[a EXCEPT !.ahead = @ \ {g.handle : g \in gone}] : a \in set \ gone}

\* Mutant of Arm: the handle's earlier arming is not retained out.
ArmWithoutReplacing(set, h, v) ==
  set \cup {[handle |-> h, variant |-> v, ahead |-> {a.handle : a \in set}]}

\* ExchangeState::arm: the handle's arming is replaced, and goes last.
Arm(set, h, v) ==
  LET others == Without(set, {a \in set : a.handle = h})
  IN  others \cup {[handle |-> h, variant |-> v,
                    ahead |-> {a.handle : a \in others}]}

\* Mutant of Closer: passed actions are compared before mismatches.
CloserByPassed(r, a, b) ==
  LET x == Score[r][KeyOf(a)]
      y == Score[r][KeyOf(b)]
  IN  \/ x.passed > y.passed
      \/ x.passed = y.passed /\ a.handle \in b.ahead

\* The order of `best`: fewest mismatches, most passed actions, first armed.
Closer(r, a, b) ==
  LET x == Score[r][KeyOf(a)]
      y == Score[r][KeyOf(b)]
  IN  \/ x.mismatches < y.mismatches
      \/ /\ x.mismatches = y.mismatches
         /\ \/ x.passed > y.passed
            \/ x.passed = y.passed /\ a.handle \in b.ahead

Best(r, set) == {a \in set : \A b \in set \ {a} : Closer(r, a, b)}

\* What `select` can answer: base is always in it, and a converted
\* interaction has nothing else.
Selections(s) ==
  IF s.converted THEN {{Base}} ELSE {sel \in SUBSET s.space : Base \in sel}

Bound  == {t \in Transport : bound[t] # NoKind}
Added  == {h \in Handle : spec[h] # NoSpec}

\* The dispatcher visits the transports in the order they were started.
IsNext(t) == t \in todo /\ \A u \in todo : t <= u

-----------------------------------------------------------------------------
(* Init: `consumer-session/create` has just answered. *)

Init ==
  /\ verdictsRequired \in Declares
  /\ nextHandle = 1
  /\ spec = [h \in Handle |-> NoSpec]
  /\ refused = FALSE
  /\ selection = [h \in Handle |-> {}]
  /\ exercised = [k \in Key |-> "none"]
  /\ reports = [k \in Key |-> "none"]
  /\ nextTransport = 1
  /\ bound = [t \in Transport |-> NoKind]
  /\ session = "open"
  /\ final = "none"
  /\ op = "idle"
  /\ reporting = NoKey
  /\ verdict = "none"
  /\ todo = {}
  /\ settled = "none"
  /\ late = FALSE
  /\ live = {}
  /\ stop = [t \in Transport |-> FALSE]
  /\ armed = [t \in Transport |-> {}]
  /\ inFlight = [t \in Transport |-> {}]
  /\ outcomes = [t \in Transport |-> [k \in Key |-> "none"]]
  /\ loop = [t \in Transport |-> "none"]
  /\ request = [t \in Transport |-> NoRequest]
  /\ armings = [t \in Transport |-> {}]
  /\ recording = [t \in Transport |-> NoRecord]
  /\ wire = [k \in Key |-> {}]
  /\ answered = [k \in Key |-> "none"]

-----------------------------------------------------------------------------
(* The dispatcher: one action per `consumer-session/*` request, and one per *)
(* step of the two requests that visit the transports in turn.              *)

Dispatch == op = "idle" /\ session = "open"

\* add-interaction and add-pact-interaction, accepted.
AddInteraction(s) ==
  /\ Dispatch
  /\ nextHandle \in Handle
  /\ spec' = [spec EXCEPT ![nextHandle] = s]
  /\ nextHandle' = nextHandle + 1
  /\ UNCHANGED <<verdictsRequired, refused, selection, exercised, reports,
                 nextTransport, bound, session, final,
                 opVars, exchangeVars, loopVars, ghostVars>>

\* add-interaction and add-pact-interaction, refused (record_refusal).
RefuseInteraction ==
  /\ Dispatch
  /\ refused' = TRUE
  /\ UNCHANGED <<verdictsRequired, nextHandle, spec, selection, exercised,
                 reports, nextTransport, bound, session, final,
                 opVars, exchangeVars, loopVars, ghostVars>>

\* variants: the answer replaces the handle's selection.
Variants(h, sel) ==
  /\ Dispatch
  /\ h \in Added
  /\ sel \in Selections(spec[h])
  /\ selection' = [selection EXCEPT ![h] = sel]
  /\ UNCHANGED <<verdictsRequired, nextHandle, spec, refused, exercised,
                 reports, nextTransport, bound, session, final,
                 opVars, exchangeVars, loopVars, ghostVars>>

\* start-transport. The instance id is spent either way. A component that
\* refuses to start leaves nothing; one whose loop cannot be spawned is
\* stopped again before the answer.
StartTransport(kind, result) ==
  /\ Dispatch
  /\ nextTransport \in Transport
  /\ nextTransport' = nextTransport + 1
  /\ IF result = "started"
     THEN /\ live' = live \cup {nextTransport}
          /\ loop' = [loop EXCEPT ![nextTransport] = "top"]
          /\ bound' = [bound EXCEPT ![nextTransport] = kind]
     ELSE UNCHANGED <<live, loop, bound>>
  /\ UNCHANGED <<verdictsRequired, nextHandle, spec, refused, selection,
                 exercised, reports, session, final, opVars, stop, armed,
                 inFlight, outcomes, request, armings, recording, ghostVars>>

\* serve-variant of a passive interaction: every transport of its kind is
\* armed with it.
ServePassive(h, v) ==
  /\ Dispatch
  /\ v \in selection[h]
  /\ spec[h].mode = "passive"
  /\ armed' = [t \in Transport |-> IF bound[t] = spec[h].kind
                                   THEN Arm(armed[t], h, v) ELSE armed[t]]
  /\ answered' = [answered EXCEPT ![<<h, v>>] = "none"]
  /\ UNCHANGED <<sessionVars, opVars, live, stop, inFlight, outcomes,
                 loopVars, wire>>

\* serve-variant of an emissive interaction: refused when a transport could
\* deliver it, else handed to the host, which exercises the variant.
ServeEmissive(h, v) ==
  /\ Dispatch
  /\ v \in selection[h]
  /\ spec[h].mode = "emissive"
  /\ \A t \in Transport : bound[t] # spec[h].kind
  /\ exercised' = [exercised EXCEPT ![<<h, v>>] = "verified"]
  /\ wire' = [wire EXCEPT ![<<h, v>>] = @ \cup {"verified"}]
  /\ answered' = [answered EXCEPT ![<<h, v>>] = "none"]
  /\ UNCHANGED <<verdictsRequired, nextHandle, spec, refused, selection,
                 reports, nextTransport, bound, session, final,
                 opVars, exchangeVars, loopVars>>

\* report-variant: the variant must be in the current selection; then every
\* transport is settled in turn.
ReportVariant(h, v, verd) ==
  /\ Dispatch
  /\ v \in selection[h]
  /\ op' = "settling"
  /\ reporting' = <<h, v>>
  /\ verdict' = verd
  /\ todo' = Bound
  /\ settled' = "none"
  /\ late' = FALSE
  /\ UNCHANGED <<sessionVars, exchangeVars, loopVars, ghostVars>>

\* Mutant of Settle: the variant stays armed after its report.
SettleWithoutDisarming(t) ==
  /\ op = "settling"
  /\ IsNext(t)
  /\ settled' = Merge(settled, outcomes[t][reporting])
  /\ outcomes' = [outcomes EXCEPT ![t][reporting] = "none"]
  /\ todo' = todo \ {t}
  /\ UNCHANGED <<sessionVars, op, reporting, verdict, live, stop, armed,
                 inFlight, loopVars, ghostVars>>

\* Exchange::settle on the next transport, when its wait has ended: disarm
\* the variant and take what was recorded for it.
Settle(t) ==
  /\ op = "settling"
  /\ IsNext(t)
  /\ armed' = [armed EXCEPT ![t] = Without(@, {a \in @ : KeyOf(a) = reporting})]
  /\ settled' = Merge(settled, outcomes[t][reporting])
  /\ outcomes' = [outcomes EXCEPT ![t][reporting] = "none"]
  /\ todo' = todo \ {t}
  /\ UNCHANGED <<sessionVars, op, reporting, verdict, live, stop, inFlight,
                 loopVars, ghostVars>>

\* Mutant of SettleQuiet: no wait for the exchange under way.
SettleWithoutWaiting(t) ==
  /\ Settle(t)
  /\ UNCHANGED late

SettleQuiet(t) ==
  /\ reporting \notin inFlight[t]
  /\ Settle(t)
  /\ UNCHANGED late

\* Mutant of SettleTimeout: the wait has no bound.
SettleUnbounded(t) ==
  /\ reporting \notin inFlight[t]
  /\ Settle(t)
  /\ late' = TRUE

\* SETTLE_TIMEOUT passed with the exchange still under way.
SettleTimeout(t) ==
  /\ reporting \in inFlight[t]
  /\ Settle(t)
  /\ late' = TRUE

\* The rest of report_variant, and its answer.
ReportAnswer ==
  /\ op = "settling" /\ todo = {}
  /\ exercised' = [exercised EXCEPT ![reporting] = Merge(@, settled)]
  /\ reports' = [reports EXCEPT ![reporting] = verdict]
  /\ answered' = [answered EXCEPT ![reporting] =
                    IF late THEN "none"
                    ELSE StatusOf(verdict, Merge(exercised[reporting], settled))]
  /\ op' = "idle"
  /\ reporting' = NoKey
  /\ verdict' = "none"
  /\ settled' = "none"
  /\ late' = FALSE
  /\ UNCHANGED <<verdictsRequired, nextHandle, spec, refused, selection,
                 nextTransport, bound, session, final, todo,
                 exchangeVars, loopVars, wire>>

\* finalise and shutdown take the session out of the store, then
\* stop_transports goes through its transports.
EndSession(how) ==
  /\ Dispatch
  /\ session' = "ending"
  /\ final' = how
  /\ op' = "stopping"
  /\ todo' = Bound
  /\ UNCHANGED <<verdictsRequired, nextHandle, spec, refused, selection,
                 exercised, reports, nextTransport, bound, reporting, verdict,
                 settled, late, exchangeVars, loopVars, ghostVars>>

\* stop_transports, one transport: raise the flag and stop the component.
StopTransport(t) ==
  /\ op = "stopping"
  /\ IsNext(t)
  /\ stop' = [stop EXCEPT ![t] = TRUE]
  /\ live' = live \ {t}
  /\ op' = "joining"
  /\ UNCHANGED <<sessionVars, reporting, verdict, todo, settled, late, armed,
                 inFlight, outcomes, loopVars, ghostVars>>

\* Mutants of JoinTransport: the loop is not waited for, or its evidence is
\* dropped.
JoinWithoutWaiting(t) ==
  /\ op = "joining"
  /\ IsNext(t)
  /\ exercised' = [k \in Key |-> Merge(exercised[k], outcomes[t][k])]
  /\ outcomes' = [outcomes EXCEPT ![t] = [k \in Key |-> "none"]]
  /\ bound' = [bound EXCEPT ![t] = NoKind]
  /\ todo' = todo \ {t}
  /\ op' = "stopping"
  /\ UNCHANGED <<verdictsRequired, nextHandle, spec, refused, selection,
                 reports, nextTransport, session, final, reporting, verdict,
                 settled, late, live, stop, armed, inFlight, loopVars,
                 ghostVars>>
JoinWithoutDraining(t) ==
  /\ op = "joining"
  /\ IsNext(t)
  /\ loop[t] = "ended"
  /\ outcomes' = [outcomes EXCEPT ![t] = [k \in Key |-> "none"]]
  /\ bound' = [bound EXCEPT ![t] = NoKind]
  /\ todo' = todo \ {t}
  /\ op' = "stopping"
  /\ UNCHANGED <<verdictsRequired, nextHandle, spec, refused, selection,
                 exercised, reports, nextTransport, session, final, reporting,
                 verdict, settled, late, live, stop, armed, inFlight, loopVars,
                 ghostVars>>

\* stop_transports, the same transport: join its loop and drain its evidence.
JoinTransport(t) ==
  /\ op = "joining"
  /\ IsNext(t)
  /\ loop[t] = "ended"
  /\ exercised' = [k \in Key |-> Merge(exercised[k], outcomes[t][k])]
  /\ outcomes' = [outcomes EXCEPT ![t] = [k \in Key |-> "none"]]
  /\ bound' = [bound EXCEPT ![t] = NoKind]
  /\ todo' = todo \ {t}
  /\ op' = "stopping"
  /\ UNCHANGED <<verdictsRequired, nextHandle, spec, refused, selection,
                 reports, nextTransport, session, final, reporting, verdict,
                 settled, late, live, stop, armed, inFlight, loopVars,
                 ghostVars>>

\* ConsumerSession::contract: withheld unless every selected variant of every
\* interaction is verified; invalid when two interactions are the same one.
Contract ==
  IF \/ verdictsRequired /\ refused
     \/ \E h \in Added : \/ selection[h] = {}
                         \/ \E v \in selection[h] :
                              VariantStatus(<<h, v>>) # "verified"
  THEN "withheld"
  ELSE IF \E g, h \in Added : g # h /\ spec[g].identity = spec[h].identity
  THEN "invalid" ELSE "issued"

\* The rest of handle_finalise: a write without a writer is refused, a write
\* that fails is answered with its error.
FinaliseAnswer(write) ==
  /\ op = "stopping" /\ todo = {}
  /\ final = "finalise"
  /\ final' = CASE write = "no writer" -> "unavailable"
                [] write = "fails" /\ Contract = "issued" -> "unwritten"
                [] OTHER -> Contract
  /\ session' = "ended"
  /\ op' = "idle"
  /\ UNCHANGED <<verdictsRequired, nextHandle, spec, refused, selection,
                 exercised, reports, nextTransport, bound, reporting, verdict,
                 todo, settled, late, exchangeVars, loopVars, ghostVars>>

\* The rest of handle_shutdown, which reports nothing.
ShutdownAnswer ==
  /\ op = "stopping" /\ todo = {}
  /\ final = "shutdown"
  /\ session' = "ended"
  /\ op' = "idle"
  /\ UNCHANGED <<verdictsRequired, nextHandle, spec, refused, selection,
                 exercised, reports, nextTransport, bound, final, reporting,
                 verdict, todo, settled, late, exchangeVars, loopVars,
                 ghostVars>>

-----------------------------------------------------------------------------
(* The exchange loop of transport t. *)

\* while !stop
LoopTop(t) ==
  /\ loop[t] = "top"
  /\ loop' = [loop EXCEPT ![t] = IF stop[t] THEN "ended" ELSE "polling"]
  /\ UNCHANGED <<sessionVars, opVars, exchangeVars, request, armings,
                 recording, ghostVars>>

\* poll_inbound timed out, or its instance went away while it waited.
PollNothing(t) ==
  /\ loop[t] = "polling"
  /\ loop' = [loop EXCEPT ![t] = "top"]
  /\ UNCHANGED <<sessionVars, opVars, exchangeVars, request, armings,
                 recording, ghostVars>>

\* poll_inbound failed: the instance is gone, or the transport itself failed.
PollError(t) ==
  /\ loop[t] = "polling"
  /\ loop' = [loop EXCEPT ![t] = "ended"]
  /\ UNCHANGED <<sessionVars, opVars, exchangeVars, request, armings,
                 recording, ghostVars>>

\* poll_inbound answered with an arrival.
PollArrival(t, r) ==
  /\ loop[t] = "polling"
  /\ t \in live
  /\ loop' = [loop EXCEPT ![t] = "arrived"]
  /\ request' = [request EXCEPT ![t] = r]
  /\ UNCHANGED <<sessionVars, opVars, exchangeVars, armings, recording,
                 ghostVars>>

\* handle_arrival, first lock: copy the armings and mark them in flight. With
\* nothing armed the arrival is disposed of as unmatched.
TakeArmings(t) ==
  /\ loop[t] = "arrived"
  /\ armings' = [armings EXCEPT ![t] = armed[t]]
  /\ inFlight' = [inFlight EXCEPT ![t] = Keys(armed[t])]
  /\ IF armed[t] = {}
     THEN /\ loop' = [loop EXCEPT ![t] = "top"]
          /\ request' = [request EXCEPT ![t] = NoRequest]
     ELSE /\ loop' = [loop EXCEPT ![t] = "answering"]
          /\ UNCHANGED request
  /\ UNCHANGED <<sessionVars, opVars, live, stop, armed, outcomes, recording,
                 ghostVars>>

\* handle_arrival, no lock: match, then reply or dispose. A reply can fail at
\* any time, and does once the instance is gone.
Answer(t, delivered) ==
  /\ loop[t] = "answering"
  /\ delivered => t \in live
  /\ \E a \in Best(request[t], armings[t]) :
       LET matched == Score[request[t]][KeyOf(a)].mismatches = 0
           outcome == IF matched /\ delivered THEN "verified" ELSE "failed"
       IN  /\ recording' = [recording EXCEPT ![t] =
                 [key |-> KeyOf(a), outcome |-> outcome, matched |-> matched]]
           /\ wire' = [wire EXCEPT ![KeyOf(a)] = @ \cup {outcome}]
  /\ loop' = [loop EXCEPT ![t] = "recording"]
  /\ UNCHANGED <<sessionVars, opVars, exchangeVars, request, armings, answered>>

\* handle_arrival, second lock: nothing is in flight any more, and the outcome
\* is merged with what the variant already has. Pollers of `settled` wake.
Record(t) ==
  /\ loop[t] = "recording"
  /\ inFlight' = [inFlight EXCEPT ![t] = {}]
  /\ outcomes' = [outcomes EXCEPT ![t][recording[t].key] =
                    Merge(@, recording[t].outcome)]
  /\ loop' = [loop EXCEPT ![t] = "top"]
  /\ request' = [request EXCEPT ![t] = NoRequest]
  /\ armings' = [armings EXCEPT ![t] = {}]
  /\ recording' = [recording EXCEPT ![t] = NoRecord]
  /\ UNCHANGED <<sessionVars, opVars, live, stop, armed, ghostVars>>

-----------------------------------------------------------------------------
\* The host has its answer and nothing is left to do.
Ended == session = "ended" /\ UNCHANGED vars

Host ==
  \/ \E s \in Specs : AddInteraction(s)
  \/ RefuseInteraction
  \/ \E h \in Handle, sel \in SUBSET Variant : Variants(h, sel)
  \/ \E kind \in Kind, result \in {"started", "refused", "unspawned"} :
       StartTransport(kind, result)
  \/ \E h \in Handle, v \in Variant : ServePassive(h, v)
  \/ \E h \in Handle, v \in Variant : ServeEmissive(h, v)
  \/ \E h \in Handle, v \in Variant, verd \in {"passed", "failed"} :
       ReportVariant(h, v, verd)
  \/ \E how \in {"finalise", "shutdown"} : EndSession(how)

Dispatcher ==
  \/ \E t \in Transport : SettleQuiet(t)
  \/ \E t \in Transport : SettleTimeout(t)
  \/ ReportAnswer
  \/ \E t \in Transport : StopTransport(t)
  \/ \E t \in Transport : JoinTransport(t)
  \/ \E write \in {"none", "writer", "no writer", "fails"} : FinaliseAnswer(write)
  \/ ShutdownAnswer

Loop(t) ==
  \/ LoopTop(t)
  \/ PollNothing(t)
  \/ PollError(t)
  \/ \E r \in Request : PollArrival(t, r)
  \/ TakeArmings(t)
  \/ \E delivered \in BOOLEAN : Answer(t, delivered)
  \/ Record(t)

Next == Host \/ Dispatcher \/ (\E t \in Transport : Loop(t)) \/ Ended

Spec == Init /\ [][Next]_vars

-----------------------------------------------------------------------------
(* Fairness. The dispatcher's thread goes on with the request it handles,  *)
(* and a loop's thread goes on except inside the transport's reply or      *)
(* dispose (Answer), the one call the engine does not bound. Nothing says  *)
(* that the host asks for anything or that a request arrives.              *)

FairSpec ==
  /\ Spec
  /\ WF_vars(Dispatcher)
  /\ \A t \in Transport : WF_vars(LoopTop(t)) /\ WF_vars(TakeArmings(t))
                          /\ WF_vars(Record(t))
                          /\ WF_vars(PollNothing(t) \/ PollError(t))

-----------------------------------------------------------------------------
(* Properties. *)

\* The types of the variables.
TypeOK ==
  /\ verdictsRequired \in BOOLEAN
  /\ nextHandle \in 1..(MaxInteractions + 1)
  /\ spec \in [Handle -> Specs \cup {NoSpec}]
  /\ refused \in BOOLEAN
  /\ selection \in [Handle -> SUBSET Variant]
  /\ exercised \in [Key -> Evidence]
  /\ reports \in [Key -> Verdict]
  /\ nextTransport \in 1..(MaxTransports + 1)
  /\ bound \in [Transport -> Kind \cup {NoKind}]
  /\ session \in {"open", "ending", "ended"}
  /\ final \in {"none", "finalise", "shutdown", "unavailable", "withheld",
                "invalid", "issued", "unwritten"}
  /\ op \in {"idle", "settling", "stopping", "joining"}
  /\ reporting \in Key \cup {NoKey}
  /\ verdict \in Verdict
  /\ todo \subseteq Transport
  /\ settled \in Evidence
  /\ late \in BOOLEAN
  /\ live \subseteq Transport
  /\ stop \in [Transport -> BOOLEAN]
  /\ armed \in [Transport -> SUBSET Arming]
  /\ inFlight \in [Transport -> SUBSET Key]
  /\ outcomes \in [Transport -> [Key -> Evidence]]
  /\ loop \in [Transport -> {"none", "top", "polling", "arrived", "answering",
                             "recording", "ended"}]
  /\ request \in [Transport -> Request \cup {NoRequest}]
  /\ armings \in [Transport -> SUBSET Arming]
  /\ recording \in [Transport -> [key: Key, outcome: {"verified", "failed"},
                                  matched: BOOLEAN] \cup {NoRecord}]
  /\ wire \in [Key -> SUBSET {"verified", "failed"}]
  /\ answered \in [Key -> Status \cup {"none"}]

\* The evidence a set of exchanges amounts to: any failed one fails it.
Summary(k) == IF "failed" \in wire[k] THEN "failed"
              ELSE IF "verified" \in wire[k] THEN "verified" ELSE "none"

\* The honesty rule (contract-file spec 2.2, ConsumerSession::contract): a
\* contract is issued only if every selected variant of every interaction had
\* at least one exchange on the wire, none of its exchanges failed, its test
\* did not fail, and, for a host that reports verdicts, its test passed and
\* nothing was refused.
HonestContract ==
  final \in {"issued", "unwritten"} =>
    /\ verdictsRequired => ~refused
    /\ \A h \in Added :
         /\ selection[h] # {}
         /\ \A v \in selection[h] :
              /\ wire[<<h, v>>] = {"verified"}
              /\ reports[<<h, v>>] # "failed"
              /\ verdictsRequired => reports[<<h, v>>] = "passed"

\* stop_transports: "after this, results/contract see exactly what really
\* happened on the wire". Once the session has ended, the evidence of every
\* variant is the summary of all its exchanges, whichever transport served
\* them and whatever was reported in between.
EvidenceComplete ==
  session = "ended" => \A k \in Key : exercised[k] = Summary(k)

\* Spec 7.1: a session that has ended leaves no transport instance, no loop
\* still running and no evidence behind in an exchange state.
NothingLeftBehind ==
  session = "ended" =>
    /\ live = {}
    /\ \A t \in Transport : /\ loop[t] \in {"none", "ended"}
                            /\ \A k \in Key : outcomes[t][k] = "none"

\* ADR 0064 decision 1: what report-variant answered is what finalise would
\* answer, for as long as the variant is not served or reported again. The
\* exception is a report that stopped waiting for an exchange under way.
AnswerStands ==
  \A k \in Key : answered[k] # "none" => VariantStatus(k) = answered[k]

\* ADR 0064 decision 1, "a report ends the variant's run": from the answer on,
\* no exchange of the variant happens until it is served again.
ReportEndsRun ==
  [][\A k \in Key : answered[k] # "none" /\ answered'[k] # "none"
                      => wire'[k] = wire[k]]_vars

\* ADR 0069 decision 2: an arrival that matches an arming never fails another.
MatchGoesToItsArming ==
  \A t \in Transport :
    loop[t] = "recording" /\ ~recording[t].matched =>
      \A a \in armings[t] : Score[request[t]][KeyOf(a)].mismatches > 0

\* ADR 0069 decision 1: a handle has one arming on a transport, so an arrival
\* is never matched against two variants of one interaction.
OneArmingPerHandle ==
  \A t \in Transport : \A a, b \in armed[t] : a.handle = b.handle => a = b

\* The two calls that wait for the loops answer. report-variant does even if a
\* transport never returns from a reply: SETTLE_TIMEOUT bounds its wait. finalise
\* and shutdown do once every loop can be joined, provided the transports return
\* from their replies, which stop_transports does not bound.
CallsReturn ==
  /\ op = "settling" ~> op = "idle"
  /\ (\A t \in Transport : []<>(loop[t] # "answering")) =>
       (session = "ending" ~> session = "ended")

====
