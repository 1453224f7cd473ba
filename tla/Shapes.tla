------------------------------- MODULE Shapes -------------------------------
(***************************************************************************)
(* The shape language of the kernel (engine/kernel/src/shape, plan): which *)
(* shapes the parser accepts, and which values a shape admits, as its      *)
(* compiled plan decides it.                                               *)
(*                                                                         *)
(* A value is a record whose field `is` names its kind.  A number carries  *)
(* how it is written beside its amount, and an absent member is a value of *)
(* its own.  A shape is a record whose field `op` names its operator; an   *)
(* optional member of the record is a set of at most one element.  What an *)
(* object maps its names to is a function on all names, to Absent or None  *)
(* where it has no such member.  A path is the sequence of its steps, and  *)
(* a dimension is the path of the node it belongs to with its facet.  An   *)
(* assignment maps dimensions to the names of their points.                *)
(*                                                                         *)
(* Octets, and examples with an `encoded` tag, are not modelled.           *)
(***************************************************************************)
EXTENDS Naturals, Sequences, FiniteSets, SequencesExt, FiniteSetsExt, TLC

CONSTANTS
  Language,     \* the texts each <<operator, parameter>> on texts admits
  Contributed,  \* the values each component operator in scope admits
  Name,        \* the names of members and of alternatives
  Depth         \* how deep a value may be (a bound of the model)

----------------------------------------------------------------------------
(* Values.                                                                 *)

Absent         == [is |-> "absent"]
Null           == [is |-> "null"]
Truth(b)       == [is |-> "boolean", truth |-> b]
Integer(n)     == [is |-> "number", amount |-> n, written |-> "integer"]
Decimal(n)     == [is |-> "number", amount |-> n, written |-> "decimal"]
Text(t)        == [is |-> "string", text |-> t]
List(vs)       == [is |-> "array", items |-> vs]
Document(vs)   ==
  [is |-> "object",
   members |-> [n \in Name \cup DOMAIN vs |-> IF n \in DOMAIN vs THEN vs[n] ELSE Absent]]

Scalar ==
  {Null} \cup [is : {"boolean"}, truth : BOOLEAN]
         \cup [is : {"number"}, amount : Nat, written : {"integer", "decimal"}]
         \cup [is : {"string"}, text : STRING]

\* No version is the empty text, and no component admits what is not there.
ASSUME ShapesAssumption ==
  /\ IsFiniteSet(Name) /\ Name \subseteq STRING
  /\ Depth \in Nat
  /\ \A o \in DOMAIN Contributed : Absent \notin Contributed[o]
  /\ \A o \in DOMAIN Language : o[1] = "semver" => "" \notin Language[o]

\* The values at most n levels deep, over those of the level below.
ValueOver(inner) ==
  Scalar \cup [is : {"array"}, items : Seq(inner)]
         \cup [is : {"object"}, members : [Name -> inner \cup {Absent}]]

ValueTo[n \in Nat] == ValueOver(IF n = 0 THEN {} ELSE ValueTo[n - 1])

Present == ValueTo[Depth]
Value   == Present \cup {Absent}

\* The value at a member: absent where the value has none.
Member(v, name) == IF v.is = "object" THEN v.members[name] ELSE Absent

MemberNames(v) == {n \in Name : v.members[n] # Absent}

\* Equality: a number is its amount, however it is written.
EqualNode(sameValue, a, b) ==
  /\ a.is = b.is
  /\ a.is = "number" => a.amount = b.amount
  /\ a.is = "array" =>
       /\ Len(a.items) = Len(b.items)
       /\ \A i \in DOMAIN a.items : sameValue[<<a.items[i], b.items[i]>>]
  /\ a.is = "object" =>
       \A n \in Name : sameValue[<<a.members[n], b.members[n]>>]
  /\ a.is \notin {"number", "array", "object"} => a = b

sameValue[x \in Value \X Value] == EqualNode(sameValue, x[1], x[2])

SameValue(a, b) == sameValue[<<a, b>>]

\* The text of a scalar, as JSON writes it but for the quotes of a string.
Written(v) ==
  CASE v.is = "string"  -> v.text
    [] v.is = "number"  -> ToString(v.amount) \o (IF v.written = "decimal" THEN ".0" ELSE "")
    [] v.is = "boolean" -> IF v.truth THEN "true" ELSE "false"
    [] v.is = "null"    -> "null"

IsEmpty(v) ==
  \/ v.is \in {"absent", "null"}
  \/ v.is = "string" /\ v.text = ""
  \/ v.is = "array"  /\ v.items = <<>>
  \/ v.is = "object" /\ MemberNames(v) = {}

\* The texts an operator on texts reads: a regex reads a number or a boolean
\* by the text of it.
Readable(op, v) ==
  IF v.is = "string" \/ (op = "regex" /\ v.is \in {"number", "boolean"})
  THEN {Written(v)} ELSE {}

----------------------------------------------------------------------------
(* Shapes.                                                                 *)

TextOps == {"regex", "datetime", "include", "semver"}
LeafOps == {"any", "equality", "type", "kind", "not-empty", "component"} \cup TextOps

\* Where an object or a one-of has no shape of a name.
None == [op |-> "none"]

Given(shapes) == {n \in Name : shapes[n] # None}

\* An optional part: nothing, or one of a set.
Maybe(S) == {m \in SUBSET S : \A x, y \in m : x = y}

\* The shapes at most n levels deep, over those of the level below.
ShapeOver(inner) ==
  LET examples == SUBSET Present
  IN  [op : {"any", "not-empty", "forbidden"}, example : examples]
      \cup [op : {"equality", "type"}, example : examples \ {{}}]
      \cup [op : {"kind"}, example : examples,
            kind : {"null", "boolean", "number", "integer", "decimal", "string"}]
      \cup {s \in [op : TextOps, parameter : STRING, example : examples] :
              <<s.op, s.parameter>> \in DOMAIN Language}
      \cup [op : {"component"}, operator : DOMAIN Contributed, example : examples]
      \cup [op : {"any-of"}, options : Seq(Present), example : examples]
      \cup [op : {"optional", "nullable"}, of : inner, example : examples]
      \cup [op : {"object"}, members : [Name -> inner \cup {None}], example : examples]
      \cup [op : {"array", "contains"}, entries : Seq(inner), example : examples]
      \cup [op : {"each-like"}, items : inner, min : Nat, max : Maybe(Nat),
            example : examples]
      \cup [op : {"each-entry"}, keys : Maybe(inner), values : inner,
            min : Nat, max : Maybe(Nat), example : examples]
      \cup [op : {"one-of"}, discriminator : Name, default : Maybe(Name),
            alternatives : [Name -> inner \cup {None}], example : examples]

ShapeTo[n \in Nat] == ShapeOver(IF n = 0 THEN {} ELSE ShapeTo[n - 1])

\* Deep enough for what is recorded of the values.
ShapeOf(depth) == ShapeTo[3 * depth + 2]

\* The steps of a path.
InMember(n)      == <<".", n>>
InAlternative(n) == <<"@", n>>
Index(i)         == <<"[", i>>
EachItem         == <<"[*]">>
EachKey          == <<"{key}">>
EachValue        == <<"{*}">>

Step == ({".", "@"} \X Name) \cup ({"["} \X Nat) \cup {EachItem, EachKey, EachValue}
Path == Seq(Step)

\* Mutant of HasChildren: the entries of a contains count.
HasChildrenOrEntries(s) ==
  s.op \in {"object", "array", "each-like", "each-entry", "one-of", "optional", "nullable",
            "contains"}

\* Whether the subsumption walk goes into a node: not into a contains.
HasChildren(s) ==
  s.op \in {"object", "array", "each-like", "each-entry", "one-of", "optional", "nullable"}

\* The sub-shapes of a node, with the path from it to each; `of` has no step of
\* its own.
Children(s) ==
  CASE s.op \in {"optional", "nullable"} -> {<<<<>>, s.of>>}
    [] s.op = "object" -> {<<<<InMember(n)>>, s.members[n]>> : n \in Given(s.members)}
    [] s.op \in {"array", "contains"} ->
         {<<<<Index(i)>>, s.entries[i]>> : i \in DOMAIN s.entries}
    [] s.op = "each-like"  -> {<<<<EachItem>>, s.items>>}
    [] s.op = "each-entry" ->
         {<<<<EachKey>>, k>> : k \in s.keys} \cup {<<<<EachValue>>, s.values>>}
    [] s.op = "one-of" ->
         {<<<<InAlternative(n)>>, s.alternatives[n]>> : n \in Given(s.alternatives)}
    [] OTHER -> {}

Example(s) == CHOOSE e \in s.example : TRUE

Object(alternative) ==
  IF alternative.op = "nullable" THEN alternative.of ELSE alternative

\* The literals an alternative binds its discriminator to.
Literals(alternative, discriminator) ==
  LET o == Object(alternative)
      tag == o.members[discriminator]
  IN  IF o.op # "object" THEN {}
      ELSE CASE tag.op = "equality" -> {Example(tag)}
             [] tag.op = "any-of"   -> Range(tag.options)
             [] OTHER -> {}

AdmitsAbsent(s) == s.op \in {"optional", "forbidden"}

AnyOfParses(s) ==
  /\ s.options # <<>>
  /\ \A i, j \in DOMAIN s.options : i # j => ~SameValue(s.options[i], s.options[j])
  /\ \A e \in s.example : \E o \in Range(s.options) : SameValue(o, e)

\* Each alternative is an object bound to literals of the discriminator that no
\* other is bound to.
OneOfParses(s) ==
  LET alternatives == Given(s.alternatives)
      Bound(n) == Literals(s.alternatives[n], s.discriminator)
  IN  /\ Cardinality(alternatives) >= 2
      /\ \A n \in alternatives : Bound(n) # {}
      /\ \A m, n \in alternatives : m # n =>
           \A a \in Bound(m), b \in Bound(n) : ~SameValue(a, b)
      /\ s.default \subseteq alternatives

\* What the parser asks of a tree of shapes; `member` says whether the node is a
\* member of an object.
NodeParses(wellFormed, s, member) ==
  /\ AdmitsAbsent(s) => member
  /\ s.op \in {"each-like", "each-entry"} => \A m \in s.max : s.min <= m
  /\ s.op = "nullable" => s.of.op # "nullable"
  /\ s.op = "any-of" => AnyOfParses(s)
  /\ s.op = "one-of" => OneOfParses(s)
  /\ \A c \in Children(s) : wellFormed[<<c[2], s.op = "object">>]

WellFormed(s) ==
  LET wellFormed[x \in ShapeOf(Depth) \X BOOLEAN] == NodeParses(wellFormed, x[1], x[2])
  IN  wellFormed[<<s, FALSE>>]

----------------------------------------------------------------------------
(* Dimensions.  A dimension is named by the path of its node and a facet.  *)

Dimension(at, facet) == <<at, facet>>

\* What an assignment pins a dimension to, or nothing.
Pin(asg, at, facet) ==
  LET d == Dimension(at, facet) IN IF d \in DOMAIN asg THEN {asg[d]} ELSE {}

\* Mutant of CardinalityPoints: a single length has a point beyond it too.
CardinalityPointsBeyond(s) ==
  {"min"} \cup (IF \A m \in s.max : m >= s.min THEN {"min+1"} ELSE {})
          \cup {"max" : m \in {n \in s.max : n > s.min + 1}}

\* min, one more where there is room for it, and a largest distinct from both.
CardinalityPoints(s) ==
  {"min"} \cup (IF \A m \in s.max : m > s.min THEN {"min+1"} ELSE {})
          \cup {"max" : m \in {n \in s.max : n > s.min + 1}}

\* The lengths a point is matched as: min+1 is every length between the points
\* on either side of it.
Region(s, point) ==
  CASE point = "min"   -> [min |-> s.min, max |-> {s.min}]
    [] point = "max"   -> [min |-> CHOOSE m \in s.max : TRUE, max |-> s.max]
    [] point = "min+1" ->
         [min |-> s.min + 1,
          max |-> IF "max" \in CardinalityPoints(s) THEN {m - 1 : m \in s.max} ELSE s.max]

----------------------------------------------------------------------------
(* Matching: whether the plan compiled for a shape, under an assignment,   *)
(* reports no mismatch for a value.  `admits` decides the nodes below.     *)

OfKind(kind, v) ==
  IF kind \in {"integer", "decimal"} THEN v.is = "number" /\ v.written = kind
  ELSE v.is = kind

Bounds(s, at, asg) ==
  LET points == Pin(asg, at, "cardinality") \cap CardinalityPoints(s)
  IN  IF points = {} THEN [min |-> s.min, max |-> s.max]
      ELSE Region(s, CHOOSE p \in points : TRUE)

Within(n, bounds) == bounds.min <= n /\ \A m \in bounds.max : n <= m

\* The alternatives of a one-of whose literals hold the value's discriminator.
Selected(s, v) ==
  {n \in Given(s.alternatives) :
     \E l \in Literals(s.alternatives[n], s.discriminator) :
       SameValue(Member(v, s.discriminator), l)}

\* A node that reads the value and holds no shapes.
AdmitsLeaf(s, v) ==
  \/ s.op = "any"        /\ v.is # "absent"
  \/ s.op = "equality"   /\ SameValue(v, Example(s))
  \/ s.op = "type"       /\ v.is = Example(s).is
  \/ s.op = "kind"       /\ OfKind(s.kind, v)
  \/ s.op = "not-empty"  /\ ~IsEmpty(v)
  \/ s.op \in TextOps    /\ Readable(s.op, v) \cap Language[<<s.op, s.parameter>>] # {}
  \/ s.op = "component"  /\ v \in Contributed[s.operator]
  \/ s.op = "forbidden"  /\ v.is = "absent"

AdmitsObject(admits, s, v, at) ==
  /\ v.is = "object"
  /\ \A n \in Given(s.members) :
       admits[<<s.members[n], v.members[n], Append(at, InMember(n))>>]

AdmitsArray(admits, s, v, at) ==
  /\ v.is = "array" /\ Len(v.items) = Len(s.entries)
  /\ \A i \in DOMAIN s.entries :
       admits[<<s.entries[i], v.items[i], Append(at, Index(i))>>]

AdmitsEachLike(admits, s, v, at, asg) ==
  /\ v.is = "array" /\ Within(Len(v.items), Bounds(s, at, asg))
  /\ \A i \in DOMAIN v.items : admits[<<s.items, v.items[i], Append(at, EachItem)>>]

AdmitsEachEntry(admits, s, v, at, asg) ==
  /\ v.is = "object" /\ Within(Cardinality(MemberNames(v)), Bounds(s, at, asg))
  /\ \A n \in MemberNames(v) :
       /\ admits[<<s.values, v.members[n], Append(at, EachValue)>>]
       /\ \A k \in s.keys : admits[<<k, Text(n), Append(at, EachKey)>>]

\* The elements an entry admits that none before it claimed.
Unclaimed(admits, s, v, at, claim, i) ==
  {j \in DOMAIN v.items :
     /\ \A k \in 1..(i - 1) : claim[k] # j
     /\ admits[<<s.entries[i], v.items[j], Append(at, Index(i))>>]}

\* Each entry claims the first element it may.
AdmitsContains(admits, s, v, at) ==
  /\ v.is = "array"
  /\ \E claim \in [DOMAIN s.entries -> DOMAIN v.items] :
       \A i \in DOMAIN s.entries :
         LET free == Unclaimed(admits, s, v, at, claim, i)
         IN  claim[i] \in free /\ \A j \in free : claim[i] <= j

\* optional and nullable: the shape, or what stands in for it unless pinned out.
AdmitsOrStandIn(admits, s, v, at, pin, standIn) ==
  IF pin = {standIn} THEN v.is = standIn
  ELSE (pin = {} /\ v.is = standIn) \/ admits[<<s.of, v, at>>]

PinnedOptions(s, at, asg) ==
  {i \in DOMAIN s.options : Pin(asg, at, "value") = {Written(s.options[i])}}

AdmitsAnyOf(s, v, at, asg) ==
  LET pinned == PinnedOptions(s, at, asg)
  IN  IF pinned # {} THEN SameValue(v, s.options[Min(pinned)])
      ELSE \E o \in Range(s.options) : SameValue(v, o)

AdmitsOneOf(admits, s, v, at, asg) ==
  LET pin == Pin(asg, at, "alternative") \cap Given(s.alternatives)
  IN  \E n \in IF pin # {} THEN pin ELSE Selected(s, v) :
        admits[<<s.alternatives[n], v, Append(at, InAlternative(n))>>]

AdmitsNode(admits, s, v, at, asg) ==
  \/ AdmitsLeaf(s, v)
  \/ s.op = "object"     /\ AdmitsObject(admits, s, v, at)
  \/ s.op = "array"      /\ AdmitsArray(admits, s, v, at)
  \/ s.op = "each-like"  /\ AdmitsEachLike(admits, s, v, at, asg)
  \/ s.op = "each-entry" /\ AdmitsEachEntry(admits, s, v, at, asg)
  \/ s.op = "contains"   /\ AdmitsContains(admits, s, v, at)
  \/ s.op = "optional"   /\ AdmitsOrStandIn(admits, s, v, at, Pin(asg, at, "presence"), "absent")
  \/ s.op = "nullable"   /\ AdmitsOrStandIn(admits, s, v, at, Pin(asg, at, "nullability"), "null")
  \/ s.op = "any-of"     /\ AdmitsAnyOf(s, v, at, asg)
  \/ s.op = "one-of"     /\ AdmitsOneOf(admits, s, v, at, asg)

Matcher(asg) ==
  LET admits[x \in ShapeOf(Depth) \X Value \X Path] == AdmitsNode(admits, x[1], x[2], x[3], asg)
  IN  admits

Admits(s, v, at, asg) == Matcher(asg)[<<s, v, at>>]

\* Membership: the plan with nothing pinned.
AdmitsAny(s, v) == Admits(s, v, <<>>, <<>>)
=============================================================================
