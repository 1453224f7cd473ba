--------------------------- MODULE ShapeGeneration ---------------------------
(***************************************************************************)
(* The dimensions a shape varies along, and the value it produces for one  *)
(* variant (engine/kernel/src/shape/variant_space.rs, variant/generate.rs),*)
(* against what its plan admits.                                           *)
(***************************************************************************)
EXTENDS ShapeCheck

----------------------------------------------------------------------------
(* Dimensions.                                                             *)

\* The length a point is produced as.
SizeAt(s, point) ==
  CASE point = "min"   -> s.min
    [] point = "min+1" -> s.min + 1
    [] point = "max"   -> CHOOSE m \in s.max : TRUE

\* What gates a dimension: points of others, all of which are to be taken.
Gating == {"presence", "nullability", "alternative"}
Gates  == SUBSET ((Path \X Gating) \X ({"present", "non-null"} \cup Name))

\* The dimensions of a node and of those under it, each with its points and its
\* gates.  A cardinality gates nothing: what varies in an item varies in all of
\* them.
NodeDimensions(dimensions, s, at, gates) ==
  LET Here(facet, points) == {[id |-> Dimension(at, facet), points |-> points, gates |-> gates]}
      Taking(facet, point) == gates \cup {<<Dimension(at, facet), point>>}
      Under(gated) == UNION {dimensions[<<c[2], at \o c[1], gated>>] : c \in Children(s)}
  IN  CASE s.op = "optional" ->
             Here("presence", {"present", "absent"}) \cup Under(Taking("presence", "present"))
        [] s.op = "nullable" ->
             Here("nullability", {"non-null", "null"}) \cup Under(Taking("nullability", "non-null"))
        [] s.op = "any-of" ->
             IF Len(s.options) < 2 THEN {}
             ELSE Here("value", {Written(s.options[i]) : i \in DOMAIN s.options})
        [] s.op = "one-of" ->
             IF Cardinality(Given(s.alternatives)) < 2 THEN {}
             ELSE Here("alternative", Given(s.alternatives))
                    \cup UNION {dimensions[<<s.alternatives[n], Append(at, InAlternative(n)),
                                             Taking("alternative", n)>>] :
                                n \in Given(s.alternatives)}
        [] s.op \in {"each-like", "each-entry"} ->
             Under(gates) \cup
               (IF Cardinality(CardinalityPoints(s)) < 2 THEN {}
                ELSE Here("cardinality", CardinalityPoints(s)))
        [] OTHER -> Under(gates)

Dimensions(s) ==
  LET dimensions[x \in ShapeOf(Depth) \X Path \X Gates] ==
        NodeDimensions(dimensions, x[1], x[2], x[3])
  IN  dimensions[<<s, <<>>, {}>>]

\* The variants of a shape: a point of each dimension whose gates are taken.
Variants(s) ==
  LET dims == Dimensions(s)
      ids  == {d.id : d \in dims}
      Full == {f \in [ids -> UNION {d.points : d \in dims}] :
                 \A d \in dims : f[d.id] \in d.points}
      Open(f) == {d.id : d \in {e \in dims : \A g \in e.gates : f[g[1]] = g[2]}}
  IN  {Restrict(f, Open(f)) : f \in Full}

----------------------------------------------------------------------------
(* Production: the value of a shape under an assignment; absent when the   *)
(* node contributes no member.                                             *)

OrNull(v) == IF v = Absent THEN Null ELSE v

\* What is there of a sequence, in its order.
Contributing(vs) ==
  LET there[n \in 0..Len(vs)] ==
        IF n = 0 THEN <<>>
        ELSE IF vs[n] = Absent THEN there[n - 1] ELSE Append(there[n - 1], vs[n])
  IN  there[Len(vs)]

\* The key of the entry at an index, where there is no shape to make it from.
MadeUp(i) == "key" \o ToString(i - 1)

\* Keys made up for as many entries as there are names differ.
ASSUME MadeUpAssumption ==
  \A i, j \in 1..(Cardinality(Name) + 1) : MadeUp(i) = MadeUp(j) => i = j

\* How long a list or a map is produced.
Size(s, at, asg) ==
  LET points == Pin(asg, at, "cardinality") \cap CardinalityPoints(s)
  IN  IF points = {} THEN s.min ELSE SizeAt(s, CHOOSE p \in points : TRUE)

\* The alternative produced: the one pinned, the default, or the first by name,
\* which is any here.
Chosen(s, at, asg) ==
  LET pin == Pin(asg, at, "alternative")
  IN  (IF pin # {} THEN pin ELSE IF s.default # {} THEN s.default ELSE Given(s.alternatives))
        \cap Given(s.alternatives)

\* The value of a node, from those of the nodes it holds.
Generate(generated, s, at, asg) ==
  LET At(inner, step) == generated[<<inner, Append(at, step)>>]
      Items(entries) == [i \in DOMAIN entries |-> At(entries[i], Index(i))]
  IN
  CASE s.op = "forbidden"  -> Absent
    [] s.op = "optional"   ->
         IF Pin(asg, at, "presence") = {"absent"} THEN Absent ELSE generated[<<s.of, at>>]
    [] s.op = "nullable"   ->
         IF Pin(asg, at, "nullability") = {"null"} THEN Null ELSE generated[<<s.of, at>>]
    [] s.op = "any-of"     ->
         IF PinnedOptions(s, at, asg) # {} THEN s.options[Min(PinnedOptions(s, at, asg))]
         ELSE IF s.example # {} THEN Example(s) ELSE s.options[1]
    [] s.op = "one-of"     ->
         IF Chosen(s, at, asg) = {} THEN Absent
         ELSE LET n == CHOOSE m \in Chosen(s, at, asg) : TRUE
              IN  At(s.alternatives[n], InAlternative(n))
    [] s.op = "each-like"  -> List([i \in 1..Size(s, at, asg) |-> OrNull(At(s.items, EachItem))])
    [] s.op = "each-entry" ->
         LET texts == {v.text : v \in {At(k, EachKey) : k \in {l \in s.keys : At(l, EachKey).is = "string"}}}
             keys  == UNION {IF texts = {} THEN {MadeUp(i)} ELSE texts : i \in 1..Size(s, at, asg)}
         IN  Document([n \in keys |-> OrNull(At(s.values, EachValue))])
    [] s.op = "object"     ->
         Document([n \in Given(s.members) |-> At(s.members[n], InMember(n))])
    [] s.op = "array"      -> List([i \in DOMAIN s.entries |-> OrNull(Items(s.entries)[i])])
    [] s.op = "contains"   -> List(Contributing(Items(s.entries)))
    [] OTHER -> IF s.example # {} THEN Example(s)
                ELSE IF s.op = "component" THEN Absent ELSE Null

Generator(asg) ==
  LET generated[x \in ShapeOf(Depth) \X Path] == Generate(generated, x[1], x[2], asg)
  IN  generated

Generated(s, asg) == Generator(asg)[<<s, <<>>>>]

----------------------------------------------------------------------------

\* Every leaf of a shape has an example the leaf admits, and no key is made up
\* from a shape: what production needs of an author.
NodeProducible(producible, s) ==
  /\ s.op \in LeafOps \cup {"any-of"} =>
       \A e \in s.example : AdmitsAny(s, e)
  /\ s.op \in LeafOps => s.example # {}
  /\ s.op = "each-entry" => s.keys = {}
  /\ \A c \in Children(s) : producible[c[2]]

Producible(s) ==
  LET producible[t \in ShapeOf(Depth)] == NodeProducible(producible, t)
  IN  producible[s]

\* Shape spec 7.2: the value a variant produces is admitted by the shape under
\* the variant's assignment, for every combination of points; of the values
\* that Depth and Name leave room for.
GeneratedIsAdmitted ==
  \A c \in contract :
    Producible(c.shape) =>
      \A variant \in Variants(c.shape) :
        LET v == Generated(c.shape, variant)
        IN  v \in Value => Admits(c.shape, v, <<>>, variant)
=============================================================================
