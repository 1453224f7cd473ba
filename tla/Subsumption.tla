----------------------------- MODULE Subsumption -----------------------------
(***************************************************************************)
(* The subsumption walk (engine/kernel/src/subsumption/compare.rs):        *)
(* whether every value the provider's shape admits is one the consumer's   *)
(* shape admits, decided node by node.  An outcome is a verdict with its   *)
(* findings; a finding is where it is, how severe it is, and whether an    *)
(* exclusion the consumer recorded is attached to it.  Throughout, p is    *)
(* the provider's node, c the consumer's, `at` the path of both, and E the *)
(* recorded exclusions, each a set of dimensions.  `walk` decides the pairs *)
(* below, in a function of the nodes and their path.                       *)
(***************************************************************************)
EXTENDS Shapes

CONSTANT
  Begins   \* the pairs of names, the first of which the text of the second goes on from

ASSUME NamesAssumption == Begins \subseteq Name \X Name

----------------------------------------------------------------------------
(* Outcomes.                                                               *)

Out(verdict, at, severity) ==
  [verdict |-> verdict, findings |-> {[path |-> at, severity |-> severity, excluded |-> FALSE]}]

Yes         == [verdict |-> "yes", findings |-> {}]
No(at)      == Out("no", at, "finding")
Unknown(at) == Out("unknown", at, "review")

Worst(verdicts) ==
  IF "no" \in verdicts THEN "no" ELSE IF "unknown" \in verdicts THEN "unknown" ELSE "yes"

Together(outs) ==
  [verdict  |-> Worst({o.verdict : o \in outs}),
   findings |-> UNION {o.findings : o \in outs}]

----------------------------------------------------------------------------
(* Absence and null, taken out of a node.                                  *)

AnyValue == [op |-> "any", example |-> {}]

\* A sequence without one of its elements.
Without(options, i) ==
  [j \in 1..(Len(options) - 1) |-> IF j < i THEN options[j] ELSE options[j + 1]]

\* Whether a node admits absence, whether it admits null, and the shape of what
\* else it admits, if anything.  The options of an any-of hold null once.
DecomposeNode(decompose, s) ==
  LET Only(rest) == [absent |-> FALSE, null |-> FALSE, rest |-> rest]
      OnlyNull   == [absent |-> FALSE, null |-> TRUE, rest |-> {}]
      nulls      == {i \in DOMAIN s.options : s.options[i].is = "null"}
      others     == Without(s.options, CHOOSE i \in nulls : TRUE)
  IN
  CASE s.op = "optional"  -> [decompose[s.of] EXCEPT !.absent = TRUE]
    [] s.op = "nullable"  -> [decompose[s.of] EXCEPT !.null = TRUE]
    [] s.op = "forbidden" -> [Only({}) EXCEPT !.absent = TRUE]
    [] s.op = "kind"      -> IF s.kind = "null" THEN OnlyNull ELSE Only({s})
    [] s.op = "equality"  -> IF Example(s).is = "null" THEN OnlyNull ELSE Only({s})
    [] s.op = "any-of"    ->
         IF nulls = {} THEN Only({s})
         ELSE [absent |-> FALSE, null |-> TRUE,
               rest |-> IF others = <<>> THEN {}
                        ELSE {[op |-> "any-of", options |-> others,
                               example |-> {e \in s.example : e.is # "null"}]}]
    [] s.op = "any"       -> [Only({s}) EXCEPT !.null = TRUE]
    [] OTHER              -> Only({s})

Decompose(s) ==
  LET decompose[x \in ShapeOf(Depth)] == DecomposeNode(decompose, x)
  IN  decompose[s]

----------------------------------------------------------------------------
(* The identity floor: nodes alike in all that decides what they admit.    *)

SameNode(sameAdmits, p, c) ==
  LET SameBounds == p.min = c.min /\ p.max = c.max
      SameNames(f, g) == Given(f) = Given(g) /\ \A n \in Given(f) : sameAdmits[<<f[n], g[n]>>]
  IN
  /\ p.op = c.op
  /\ p.op = "equality"  => SameValue(Example(p), Example(c))
  /\ p.op = "type"      => Example(p).is = Example(c).is
  /\ p.op = "kind"      => p.kind = c.kind
  /\ p.op = "component" => p.operator = c.operator
  /\ p.op \in TextOps   => p.parameter = c.parameter
  /\ p.op = "object"    => SameNames(p.members, c.members)
  /\ p.op \in {"array", "contains"} =>
       /\ Len(p.entries) = Len(c.entries)
       /\ \A i \in DOMAIN p.entries : sameAdmits[<<p.entries[i], c.entries[i]>>]
  /\ p.op = "each-like" => SameBounds /\ sameAdmits[<<p.items, c.items>>]
  /\ p.op = "each-entry" =>
       /\ SameBounds /\ sameAdmits[<<p.values, c.values>>]
       /\ (p.keys = {}) = (c.keys = {})
       /\ \A k \in p.keys, l \in c.keys : sameAdmits[<<k, l>>]
  /\ p.op \in {"optional", "nullable"} => sameAdmits[<<p.of, c.of>>]
  /\ p.op = "any-of"    =>
       /\ Len(p.options) = Len(c.options)
       /\ \A o \in Range(p.options) : \E q \in Range(c.options) : SameValue(o, q)
  /\ p.op = "one-of"    =>
       p.discriminator = c.discriminator /\ SameNames(p.alternatives, c.alternatives)

SameAdmits(p, c) ==
  LET sameAdmits[x \in ShapeOf(Depth) \X ShapeOf(Depth)] == SameNode(sameAdmits, x[1], x[2])
  IN  sameAdmits[<<p, c>>]

\* Whether the text of a path goes on from that of `at`: by a step more, or by
\* the rest of a name, when the last step of `at` names what its text begins.
GoesOnFrom(path, at) ==
  \/ IsStrictPrefix(at, path)
  \/ /\ at # <<>> /\ IsPrefix(Front(at), path) /\ Len(at) <= Len(path)
     /\ LET named == Last(at)
            other == path[Len(at)]
        IN  /\ named[1] \in {".", "@"} /\ other[1] = named[1]
            /\ <<named[2], other[2]>> \in Begins

\* The floor stands unless a caveat is for a node inside this one, or for one
\* whose path only reads so.
FloorStands(p, at, E) ==
  HasChildren(p) => ~\E e \in E : \E d \in e : GoesOnFrom(d[1], at)

Floor(p, c, at, E) == SameAdmits(p, c) /\ FloorStands(p, at, E)

----------------------------------------------------------------------------
(* What the table of operators asks of a node.                             *)

Opaque(s)       == s.op \in {"component", "contains"}
Conservative(s) == s.op \in {"regex", "datetime", "include"}

AllClasses == {"null", "boolean", "number", "string", "array", "object"}

\* The kinds of value a shape may admit: all of them when it does not say.
Classes(s) ==
  CASE s.op \in {"equality", "type"} -> {Example(s).is}
    [] s.op = "kind" -> {IF s.kind \in {"integer", "decimal"} THEN "number" ELSE s.kind}
    [] s.op \in TextOps -> {"string"}
    [] s.op \in {"object", "each-entry"} -> {"object"}
    [] s.op \in {"array", "each-like", "contains"} -> {"array"}
    [] s.op = "any-of" -> {o.is : o \in Range(s.options)}
    [] s.op = "one-of" ->
         {"object"} \cup (IF \E n \in Given(s.alternatives) : Decompose(s.alternatives[n]).null
                          THEN {"null"} ELSE {})
    [] OTHER -> AllClasses

\* `type` as the operator it is equivalent to.
Desugar(s) ==
  IF s.op # "type" THEN s
  ELSE CASE Example(s).is = "object" -> [op |-> "object", members |-> [n \in Name |-> None], example |-> {}]
         [] Example(s).is = "array"  ->
              [op |-> "each-like", items |-> AnyValue, min |-> 0, max |-> {}, example |-> {}]
         [] OTHER -> [op |-> "kind", kind |-> Example(s).is, example |-> {}]

\* The values of a shape, when there are few enough to list; or nothing.
Enumerated(s) ==
  CASE s.op = "kind" /\ s.kind = "null"    -> {{Null}}
    [] s.op = "kind" /\ s.kind = "boolean" -> {{Truth(TRUE), Truth(FALSE)}}
    [] s.op = "equality"                   -> {{Example(s)}}
    [] s.op = "any-of"                     -> {Range(s.options)}
    [] s.op = "array" /\ s.entries = <<>>  -> {{List(<<>>)}}
    [] OTHER -> {}

\* Whether a shape admits a value, where that needs no matching; or nothing.
AdmitsValue(s, v) ==
  CASE s.op = "any"       -> {TRUE}
    [] s.op = "kind"      -> {OfKind(s.kind, v)}
    [] s.op = "equality"  -> {SameValue(Example(s), v)}
    [] s.op = "any-of"    -> {\E o \in Range(s.options) : SameValue(o, v)}
    [] s.op = "not-empty" -> {~IsEmpty(v)}
    [] s.op = "semver"    -> {Readable("semver", v) \cap Language[<<s.op, s.parameter>>] # {}}
    [] OTHER -> {}

\* Whether a shape admits only values that are not empty; or nothing.
OnlyNonEmpty(s) ==
  CASE s.op = "kind"     -> {s.kind \in {"number", "integer", "decimal", "boolean"}}
    [] s.op = "semver"   -> {TRUE}
    [] s.op = "equality" -> {~IsEmpty(Example(s))}
    [] s.op = "any-of"   -> {\A o \in Range(s.options) : ~IsEmpty(o)}
    [] s.op = "array"    -> {s.entries # <<>>}
    [] s.op \in {"each-like", "each-entry"} -> {s.min >= 1}
    [] s.op = "object"   -> {\E n \in Given(s.members) : ~Decompose(s.members[n]).absent}
    [] OTHER -> {}

\* A verdict from an answer that may be missing.
Decided(answer, at) ==
  IF answer = {} THEN Unknown(at) ELSE IF answer = {TRUE} THEN Yes ELSE No(at)

\* The lengths of a list, as an interval; containment of one in another.
Exactly(n) == [min |-> n, max |-> {n}]

Contained(p, c, at) ==
  IF p.min >= c.min /\ (\A n \in c.max : p.max # {} /\ \A m \in p.max : m <= n)
  THEN Yes ELSE No(at)

\* Mutant of Undeclared: silence about a member is no claim.
UndeclaredIgnored(c, at) == Yes

\* A member the provider does not name may be anything, or absent.
Undeclared(c, at) ==
  LET d == Decompose(c)
  IN  IF d.absent /\ \E r \in d.rest : r.op = "any" THEN Yes ELSE No(at)

----------------------------------------------------------------------------
(* Discriminated unions.  Alternatives are known by their literals.        *)

\* The consumer's alternatives a literal of the provider's node falls in.
Matching(c, literals) ==
  {n \in Given(c.alternatives) :
     \E l \in literals, m \in Literals(c.alternatives[n], c.discriminator) : SameValue(l, m)}

InsideAlternative(walk, p, c, at) ==
  LET matching == Matching(c, Literals(p, c.discriminator))
      n == CHOOSE m \in matching : TRUE
  IN  IF Cardinality(matching) # 1 THEN Unknown(at)
      ELSE walk[<<p, c.alternatives[n], Append(at, InAlternative(n))>>]

OneOfPair(walk, p, c, at) ==
  LET Alternative(n) ==
        LET matching == Matching(c, Literals(p.alternatives[n], p.discriminator))
            m == CHOOSE k \in matching : TRUE
        IN  IF Cardinality(matching) # 1 THEN No(Append(at, InAlternative(n)))
            ELSE walk[<<p.alternatives[n], c.alternatives[m], Append(at, InAlternative(m))>>]
  IN  IF p.discriminator # c.discriminator THEN Unknown(at)
      ELSE Together({Alternative(n) : n \in Given(p.alternatives)})

Unions(walk, p, c, at) ==
  CASE p.op = "one-of" /\ c.op = "one-of" -> OneOfPair(walk, p, c, at)
    [] p.op = "one-of" /\ c.op # "one-of" ->
         Together({walk[<<p.alternatives[n], c, Append(at, InAlternative(n))>>] :
                     n \in Given(p.alternatives)})
    [] OTHER -> InsideAlternative(walk, p, c, at)

----------------------------------------------------------------------------
(* Objects and lists, pair by pair.                                        *)

Structures == {<<"object", "object">>, <<"array", "array">>, <<"each-like", "each-like">>,
               <<"each-like", "array">>, <<"array", "each-like">>, <<"each-entry", "each-entry">>}

KeyOf(s) == IF s.keys = {} THEN AnyValue ELSE CHOOSE k \in s.keys : TRUE

Structural(walk, p, c, at) ==
  LET To(a, b, step) == walk[<<a, b, Append(at, step)>>]
      pair == <<p.op, c.op>>
  IN
  CASE pair = <<"object", "object">> ->
         Together({IF n \in Given(p.members)
                   THEN To(p.members[n], c.members[n], InMember(n))
                   ELSE Undeclared(c.members[n], Append(at, InMember(n))) :
                     n \in Given(c.members)})
    [] pair = <<"array", "array">> ->
         IF Len(p.entries) # Len(c.entries) THEN No(at)
         ELSE Together({To(p.entries[i], c.entries[i], Index(i)) : i \in DOMAIN p.entries})
    [] pair = <<"each-like", "each-like">> ->
         Together({Contained(p, c, at), To(p.items, c.items, EachItem)})
    [] pair = <<"each-like", "array">> ->
         Together({Contained(p, Exactly(Len(c.entries)), at)}
                    \cup {To(p.items, c.entries[i], Index(i)) : i \in DOMAIN c.entries})
    [] pair = <<"array", "each-like">> ->
         Together({Contained(Exactly(Len(p.entries)), c, at)}
                    \cup {To(p.entries[i], c.items, Index(i)) : i \in DOMAIN p.entries})
    [] pair = <<"each-entry", "each-entry">> ->
         Together({Contained(p, c, at), To(KeyOf(p), KeyOf(c), EachKey),
                   To(p.values, c.values, EachValue)})

----------------------------------------------------------------------------
(* Literals and kinds.                                                     *)

\* A consumer that lists its values: the provider's must be few and among them.
LiteralSet(p, options, at) ==
  IF \E vs \in Enumerated(p) : \A v \in vs : \E o \in options : SameValue(o, v)
  THEN Yes ELSE No(at)

LiteralsWithin(p, c, at) ==
  LET values  == IF p.op = "equality" THEN {Example(p)} ELSE Range(p.options)
      answers == {AdmitsValue(c, v) : v \in values}
  IN  CASE {FALSE} \in answers -> No(at)
        [] {FALSE} \notin answers /\ {} \in answers -> Unknown(at)
        [] OTHER -> Yes

KindSubset(p, c) == p = c \/ (p \in {"integer", "decimal"} /\ c = "number")

\* The exact operators, in the order the walk asks.
Exact(walk, p, c, at) ==
  IF "one-of" \in {p.op, c.op} THEN Unions(walk, p, c, at)
  ELSE IF <<p.op, c.op>> \in Structures THEN Structural(walk, p, c, at)
  ELSE IF c.op = "not-empty" THEN Decided(OnlyNonEmpty(p), at)
  ELSE IF p.op = "not-empty" THEN No(at)
  ELSE IF p.op \in {"equality", "any-of"} THEN LiteralsWithin(p, c, at)
  ELSE IF c.op = "equality" THEN LiteralSet(p, {Example(c)}, at)
  ELSE IF c.op = "any-of"   THEN LiteralSet(p, Range(c.options), at)
  ELSE IF p.op = "kind" /\ c.op = "kind" THEN Decided({KindSubset(p.kind, c.kind)}, at)
  ELSE IF p.op = "semver" /\ c.op = "kind" /\ c.kind = "string" THEN Yes
  ELSE IF c.op = "semver" /\ p.op = "kind" /\ p.kind = "string" THEN No(at)
  ELSE Unknown(at)

\* Operators only identity, or the matcher itself, can decide.
Guarded(p, c, at) ==
  CASE Conservative(p) /\ c.op = "kind" /\ c.kind = "string" -> Yes
    [] Conservative(c) /\ Enumerated(p) # {} ->
         Decided({\A vs \in Enumerated(p) : \A v \in vs : AdmitsAny(c, v)}, at)
    [] OTHER -> Unknown(at)

Operators(walk, p, c, at, E) ==
  LET q == Desugar(p)
      d == Desugar(c)
  IN  IF Floor(p, c, at, E) THEN Yes
      ELSE IF Opaque(p) \/ Opaque(c) THEN Unknown(at)
      ELSE IF Floor(q, d, at, E) \/ d.op = "any" THEN Yes
      ELSE IF q.op = "any" \/ Classes(q) \cap Classes(d) = {} THEN No(at)
      ELSE IF Conservative(q) \/ Conservative(d) THEN Guarded(q, d, at)
      ELSE Exact(walk, q, d, at)

----------------------------------------------------------------------------
(* A node: absence and null by containment, then what is left.             *)

ValueNode(walk, p, c, at, E) ==
  LET provider == Decompose(p)
      consumer == Decompose(c)
      presence == IF (provider.absent => consumer.absent) /\ (provider.null => consumer.null)
                  THEN Yes ELSE No(at)
      rest == IF consumer.rest = {} THEN {No(at) : r \in provider.rest}
              ELSE {Operators(walk, r, s, at, E) : r \in provider.rest, s \in consumer.rest}
  IN  IF Floor(p, c, at, E) THEN Yes ELSE Together({presence} \cup rest)

\* The exclusions for this node are attached to its findings; a yes that has
\* none is told of by an advisory, which changes no verdict.
Caveat(out, at, E) ==
  IF ~\E e \in E : \E d \in e : d[1] = at THEN out
  ELSE IF \E f \in out.findings : f.path = at
  THEN [out EXCEPT !.findings = {[f EXCEPT !.excluded = @ \/ f.path = at] : f \in @}]
  ELSE IF out.verdict # "yes" THEN out
  ELSE [out EXCEPT !.findings =
          @ \cup {[path |-> at, severity |-> "advisory", excluded |-> TRUE]}]

Walk(E) ==
  LET walk[x \in ShapeOf(Depth) \X ShapeOf(Depth) \X Path] ==
        Caveat(ValueNode(walk, x[1], x[2], x[3], E), x[3], E)
  IN  walk

Node(p, c, at, E) == Walk(E)[<<p, c, at>>]
=============================================================================
