------------------------------ MODULE ShapeCheck ------------------------------
(***************************************************************************)
(* The subsumption check from end to end, for one slot of one interaction: *)
(* a provider's shape is recorded from the values its tests produce, or    *)
(* published as written; a consumer's contract is checked against it       *)
(* (subsumption/report.rs, protocol/subsumption.rs); and the pair is       *)
(* decided.                                                                *)
(***************************************************************************)
EXTENDS Subsumption, ShapeRecorder, Compatibility

CONSTANTS
  Observations,     \* the values a provider's tests may produce
  MaxObservations,  \* how many of them are recorded (a bound of the model)
  Authored,         \* the shapes a provider may publish as written
  Declared,         \* the contracts: [shape, exclusions, description]
  CheckedPair,      \* the pair whose contract is checked
  OtherPairs,       \* pairs a host may ask about along with it
  Verifications, Policies, Dates,   \* what a host may supply to decide
  Values            \* the values the properties quantify over

ASSUME CheckAssumption ==
  /\ Observations \subseteq Present /\ Values \subseteq Value
  /\ \A s \in Authored : s \in ShapeOf(Depth) /\ WellFormed(s)
  /\ Declared \subseteq [shape : ShapeOf(Depth), exclusions : SUBSET SUBSET (Path \X STRING),
                         description : STRING]
  /\ \A c \in Declared : WellFormed(c.shape)

VARIABLES
  evidence,   \* what the recorder has of the slot
  observed,   \* the values it has observed
  published,  \* the provider's shape, when there is one
  contract,   \* the contract being checked, when there is one
  report      \* its interactions' results, when it has been checked

checkVars == <<evidence, observed, published, contract, report, answered>>

----------------------------------------------------------------------------

CheckInit ==
  /\ evidence = NoEvidence
  /\ observed = {}
  /\ published = {}
  /\ contract = {}
  /\ report = {}
  /\ Init

\* record: one more value the provider's tests produced.
Observe(v) ==
  /\ published = {} /\ evidence.seen < MaxObservations
  /\ evidence' = Observed(evidence, v)
  /\ observed' = observed \cup {v}
  /\ UNCHANGED <<published, contract, report, answered>>

\* The recorder is consumed by what it emits.
Finish ==
  /\ evidence.seen > 0
  /\ published' = ToShape(evidence)
  /\ evidence' = NoEvidence
  /\ observed' = {}
  /\ UNCHANGED <<contract, report, answered>>

Publish(s) ==
  /\ published = {} /\ evidence.seen = 0
  /\ published' = {s}
  /\ UNCHANGED <<evidence, observed, contract, report, answered>>

\* subsumption/check.  An interaction the provider published nothing for is in
\* the report, unmatched.
Result(p, c) ==
  LET out == Node(p, c.shape, <<>>, c.exclusions)
      matched == c.description = "published"
  IN  [description |-> c.description, states |-> {}, matched |-> matched,
       verdict  |-> IF matched THEN out.verdict ELSE "not-published",
       findings |-> IF matched THEN out.findings ELSE {}]

Check(c) ==
  /\ contract = {} /\ published # {}
  /\ contract' = {c}
  /\ report' = {{Result(p, c) : p \in published}}
  /\ UNCHANGED <<evidence, observed, published, answered>>

\* subsumption/decide, of the checked pair and others with no report.
DecideChecked ==
  /\ report # {} /\ answered = {}
  /\ \E others \in SUBSET OtherPairs, verification \in Verifications,
        layers \in Policies, asOf \in Dates :
       Decide([reports |-> [pair \in others \cup {CheckedPair} |->
                              IF pair = CheckedPair THEN report ELSE {}],
               verification |-> verification, layers |-> layers, asOf |-> asOf])
  /\ UNCHANGED <<evidence, observed, published, contract, report>>

CheckNext ==
  \/ \E v \in Observations : Observe(v)
  \/ Finish
  \/ \E s \in Authored : Publish(s)
  \/ \E c \in Declared : Check(c)
  \/ DecideChecked

CheckSpec == CheckInit /\ [][CheckNext]_checkVars

----------------------------------------------------------------------------

\* The recorder's claim ("these are the shapes my tests produced"): what it
\* emits is a shape the parser reads, and admits every value it was given.
RecordedAdmitsObserved ==
  \A s \in ToShape(evidence) :
    WellFormed(s) /\ \A v \in observed : AdmitsAny(s, v)

\* The ways to write a value's numbers.
SpellingsNode(spellings, v) ==
  CASE v.is = "number" -> {Integer(v.amount), Decimal(v.amount)}
    [] v.is = "array"  ->
         LET all == UNION {spellings[v.items[i]] : i \in DOMAIN v.items}
         IN  {List(items) : items \in {f \in [DOMAIN v.items -> all] :
                \A i \in DOMAIN v.items : f[i] \in spellings[v.items[i]]}}
    [] v.is = "object" ->
         LET all == UNION {spellings[v.members[n]] : n \in MemberNames(v)}
         IN  {Document(members) : members \in {f \in [MemberNames(v) -> all] :
                \A n \in MemberNames(v) : f[n] \in spellings[v.members[n]]}}
    [] OTHER -> {v}

spellings[v \in Value] == SpellingsNode(spellings, v)

\* Whether no regex in scope reads a number or a boolean of a value as its text.
UnreadNode(unread, v) ==
  /\ v.is \in {"number", "boolean"} =>
       \A o \in DOMAIN Language : o[1] = "regex" => Written(v) \notin Language[o]
  /\ v.is = "array" => \A i \in DOMAIN v.items : unread[v.items[i]]
  /\ v.is = "object" => \A n \in Name : unread[v.members[n]]

unread[v \in Value] == UnreadNode(unread, v)

\* A yes is never a guess (compare.rs, invariant 1): every value the provider's
\* shape admits is one the consumer's admits, but for how a number is written.
\* The walk takes a regex to read strings only, so it is claimed of values that
\* no regex reads otherwise.
YesIsSound ==
  \A p \in published, c \in contract, results \in report : \A result \in results :
    result.verdict = "yes" =>
      \A v \in Values : unread[v] /\ AdmitsAny(p, v) =>
        \E w \in spellings[v] : AdmitsAny(c.shape, w)

\* A caveat changes what is reported and never what is decided (section 5 of the
\* subsumption spec): taking the exclusions away leaves the verdict and the
\* findings, but for the advisories.
CaveatsAreInert ==
  LET Said(findings) == {<<f.path, f.severity>> : f \in {g \in findings : g.severity # "advisory"}}
  IN  \A p \in published, c \in {d \in contract : d.exclusions # {}} :
        \A bare \in {Result(p, [c EXCEPT !.exclusions = {}])}, results \in report :
          \A result \in results :
            result.verdict = bare.verdict /\ Said(result.findings) = Said(bare.findings)
=============================================================================
