---------------------------- MODULE Compatibility ----------------------------
(***************************************************************************)
(* The compatibility decision (engine/kernel/src/compatibility/decide.rs,  *)
(* subsumption/policy.rs, protocol/subsumption.rs): whether a consumer and *)
(* a provider may go together, from the subsumption report of the pair,    *)
(* the summaries of verification runs, and layers of policy.  The engine   *)
(* keeps nothing between calls: a request carries all it is decided from,  *)
(* and a host may send any.  The members of a request are its reports (by  *)
(* the pairs asked about), verification (the summaries supplied), layers   *)
(* (of policy) and asOf.                                                   *)
(*                                                                         *)
(* A pair is <<consumer, provider>>.  An optional member is a set of at    *)
(* most one element; a date is a natural number.                           *)
(***************************************************************************)
EXTENDS Integers, Sequences, FiniteSets

VARIABLES
  answered   \* the last request and its decision; empty before the first

----------------------------------------------------------------------------
(* What the summaries of verification runs say of a pair.                  *)

\* A summary of this format has an entry for each document of the run; an older
\* one says only whose failed, and whether the run was aborted or filtered.
Names(summary, pair) == \E named \in summary.named : pair \in named

Statuses(summary, pair) == {e.status : e \in {x \in summary.entries : x.pair = pair}}

FailedIn(summary, pair) ==
  IF summary.paired THEN "failed" \in Statuses(summary, pair) ELSE pair \in summary.failed

IncompleteIn(summary, pair) ==
  IF summary.paired THEN "incomplete" \in Statuses(summary, pair) ELSE summary.aborted

FilteredIn(summary, pair) ==
  IF summary.paired THEN "filtered" \in Statuses(summary, pair) ELSE summary.filtered

Covering(request, pair) == {s \in request.verification : Names(s, pair)}

\* The worst of the runs that covered the pair; unknown when none did.
StatusOf(request, pair) ==
  LET covering == Covering(request, pair)
  IN  IF \E s \in covering : FailedIn(s, pair) THEN "failed"
      ELSE IF \E s \in covering : IncompleteIn(s, pair) THEN "incomplete"
      ELSE IF covering # {} THEN "verified" ELSE "unknown"

----------------------------------------------------------------------------
(* Policy: each layer may override the actions, and adds its exemptions.   *)

\* What the last layer to set a member sets it to; the default is to warn.
Resolved(layers, member) ==
  LET winning == {action \in {"warn", "block"} :
                    \E i \in DOMAIN layers :
                      /\ action \in layers[i][member]
                      /\ \A j \in DOMAIN layers : j > i => layers[j][member] = {}}
  IN  IF winning = {} THEN "warn" ELSE CHOOSE action \in winning : TRUE

OnFinding(layers) == Resolved(layers, "onFinding")
OnReview(layers)  == Resolved(layers, "onReview")

\* A layer that names another action is refused with the whole request.
ReadsAsPolicy(layers) ==
  \A i \in DOMAIN layers : \A member \in {"onFinding", "onReview"} :
    layers[i][member] \in SUBSET {"warn", "block"}

\* An exemption is known by its layer and its place in it, which is their order.
Exemptions(layers) ==
  UNION {{<<i, j>> : j \in DOMAIN layers[i].exemptions} : i \in DOMAIN layers}

Exemption(layers, x) == layers[x[1]].exemptions[x[2]]

Before(x, y) == x[1] < y[1] \/ (x[1] = y[1] /\ x[2] < y[2])

\* Mutant of Lapsed: the dates are compared the wrong way round.
LapsedReversed(exemption, asOf) ==
  \E last \in exemption.expires, today \in asOf : last > today

\* It still applies on its last day, and whenever no date is given to judge by.
Lapsed(exemption, asOf) == \E last \in exemption.expires, today \in asOf : today > last

\* Every selector that is set must match.  States are compared as sets.
Matches(exemption, pair, interaction, finding) ==
  /\ exemption.consumer \subseteq {pair[1]}
  /\ \A i \in exemption.interaction :
       /\ i.description = interaction.description
       /\ i.states \subseteq {interaction.states}
  /\ exemption.path \subseteq {finding.path}

\* The exemptions that may silence a finding: no policy governs an advisory.
Silencing(request, pair, interaction, finding) ==
  IF finding.severity = "advisory" THEN {}
  ELSE {x \in Exemptions(request.layers) :
          /\ ~Lapsed(Exemption(request.layers, x), request.asOf)
          /\ Matches(Exemption(request.layers, x), pair, interaction, finding)}

Exempt(request, pair, interaction, finding) ==
  Silencing(request, pair, interaction, finding) # {}

\* A finding counts for the first exemption that silences it.
Applied(request, pair, x) ==
  \E report \in request.reports[pair] : \E i \in report : \E f \in i.findings :
    LET silencing == Silencing(request, pair, i, f)
    IN  x \in silencing /\ \A y \in silencing : ~Before(y, x)

\* The severities left of a report once its exemptions have applied.
Live(request, pair, severity) ==
  \E report \in request.reports[pair] : \E i \in report : \E f \in i.findings :
    f.severity = severity /\ ~Exempt(request, pair, i, f)

----------------------------------------------------------------------------
(* Reasons, each with what it does to the decision.                        *)

When(condition, code, action) ==
  IF condition THEN {[code |-> code, action |-> action]} ELSE {}

VerificationReasons(request, pair) ==
  LET status == StatusOf(request, pair)
  IN  When(status = "failed", "verification-failed", "block")
      \cup When(status = "incomplete", "verification-incomplete", "block")
      \cup When(status = "unknown", "verification-missing", "warn")
      \cup When(\E s \in Covering(request, pair) : FilteredIn(s, pair),
                "verification-filtered", "warn")

ReportReasons(request, pair) ==
  LET reports == request.reports[pair]
      layers  == request.layers
  IN  When(reports = {}, "provider-shape-missing", "note")
      \cup When(\E r \in reports : \E i \in r : ~i.matched, "interactions-not-published", "note")
      \cup When(Live(request, pair, "finding"), "subsumption-findings", OnFinding(layers))
      \cup When(Live(request, pair, "review"), "subsumption-reviews", OnReview(layers))
      \cup When(\E r \in reports : \E i \in r : \E f \in i.findings : Exempt(request, pair, i, f),
                "subsumption-exempt", "note")
      \cup When(Live(request, pair, "advisory"), "subsumption-advisories", "note")

\* Of a pair with a report only: the policy is not consulted for another.
ExemptionReasons(request, pair) ==
  LET layers   == request.layers
      all      == IF request.reports[pair] = {} THEN {} ELSE Exemptions(layers)
      lapsed   == {x \in all : Lapsed(Exemption(layers, x), request.asOf)}
      applied  == {x \in all \ lapsed : Applied(request, pair, x)}
      unending == {x \in applied : Exemption(layers, x).expires = {}}
  IN  When(lapsed # {}, "exemption-lapsed", "warn")
      \cup When(unending # {}, "exemption-no-expiry", "note")
      \cup When(all \ (lapsed \cup applied) # {}, "exemption-unused", "note")
      \cup When(request.asOf = {} /\ applied \ unending # {}, "expiry-not-evaluated", "note")

Reasons(request, pair) ==
  VerificationReasons(request, pair) \cup ReportReasons(request, pair)
    \cup ExemptionReasons(request, pair)

\* The most severe of the reasons of the pairs asked about; a note is a pass.
Decision(request) ==
  LET actions == {r.action : r \in UNION {Reasons(request, pair) : pair \in DOMAIN request.reports}}
  IN  IF "block" \in actions THEN "block" ELSE IF "warn" \in actions THEN "warn" ELSE "pass"

----------------------------------------------------------------------------

Init == answered = {}

\* subsumption/decide.
Decide(request) ==
  /\ ReadsAsPolicy(request.layers)
  /\ answered' = {[request |-> request, decision |-> Decision(request)]}

Next == \E request : Decide(request)

Spec == Init /\ [][Next]_answered

----------------------------------------------------------------------------

\* A pass is earned for every pair asked about: some run covered it, none that
\* did failed, was cut short or left variants of it out, and each finding and
\* each open question of its report is one that some layer's exemption accepts,
\* on a date the exemption has not passed (decide.rs: "a contract nobody
\* replayed is not a passing one").
PassIsEarned ==
  \A answer \in answered : answer.decision = "pass" =>
    \A pair \in DOMAIN answer.request.reports :
      LET covering == {s \in answer.request.verification : Names(s, pair)}
      IN  /\ covering # {}
          /\ \A s \in covering :
               ~FailedIn(s, pair) /\ ~IncompleteIn(s, pair) /\ ~FilteredIn(s, pair)
          /\ \A report \in answer.request.reports[pair] : \A i \in report :
               \A f \in i.findings : f.severity \in {"finding", "review"} =>
                 \E x \in Exemptions(answer.request.layers) :
                   LET exemption == Exemption(answer.request.layers, x)
                   IN  /\ Matches(exemption, pair, i, f)
                       /\ \A last \in exemption.expires, today \in answer.request.asOf :
                            ~(today > last)
=============================================================================
