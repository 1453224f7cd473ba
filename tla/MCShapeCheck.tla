---------------------------- MODULE MCShapeCheck ----------------------------
(***************************************************************************)
(* An instance of ShapeCheck with values two levels deep: every leaf       *)
(* against every leaf, and members, elements, entries and alternatives of  *)
(* each structure.                                                         *)
(***************************************************************************)
EXTENDS ShapeGeneration

\* The texts the operators on texts admit: none is the text of a number or of
\* a boolean.
MCLanguage ==
  (<<"regex", "a.*">> :> {"a", "ab"}) @@ (<<"regex", "b?">> :> {"", "b"})
  @@ (<<"include", "a">> :> {"a", "ab"}) @@ (<<"datetime", "y">> :> {"2020"})
  @@ (<<"semver", "">> :> {"1.0.0"})

MCContributed == [uuid |-> {Text("ab")}, even |-> {Integer(0)}]

Of(name, v) == Document(name :> v)

MCNames == {"x", "xt", "p", "q", "r", "key0", "key1", "key2"}

\* The text of one member's path begins that of the other's.
MCBegins == {<<"x", "xt">>}

Scalars == {Null, Truth(TRUE), Truth(FALSE), Integer(0), Integer(1), Decimal(1), Decimal(2),
            Text(""), Text("a"), Text("ab"), Text("b"), Text("2020"), Text("1.0.0")}

MCValues ==
  Scalars \cup {Document(<<>>), List(<<>>)}
  \cup {Of("x", v) : v \in Scalars}
  \cup {List(<<v>>) : v \in {Null, Integer(1), Text("a"), Text("b")}}
  \cup {List(<<v, w>>) : v, w \in {Integer(1), Text("a")}}
  \cup {List(<<Text("a"), Text("a"), Text("a")>>)}
  \cup {Document(("xt" :> Text(t)) @@ ("x" :> v)) :
          t \in {"a", "b"}, v \in {Integer(1), Text("a")}}

\* Leaves.
Leaf(op, e)      == [op |-> op, example |-> e]
KindOf(k, e)     == [op |-> "kind", kind |-> k, example |-> e]
TextOp(op, p, e) == [op |-> op, parameter |-> p, example |-> {Text(e)}]
AnyOf(options)   == [op |-> "any-of", options |-> options, example |-> {}]
Component(o)     == [op |-> "component", operator |-> o, example |-> MCContributed[o]]

Plain == {
  Leaf("any", {Text("a")}), Leaf("equality", {Integer(1)}), Leaf("equality", {Text("a")}),
  Leaf("type", {Text("a")}), KindOf("integer", {Integer(1)}), KindOf("string", {Text("a")}),
  TextOp("regex", "a.*", "a"), AnyOf(<<Text("a"), Text("ab")>>), Component("uuid")}

Leaves == Plain \cup {
  Leaf("equality", {Null}), Leaf("type", {Document(<<>>)}), Leaf("type", {List(<<>>)}),
  Leaf("not-empty", {Text("a")}), KindOf("number", {Integer(1)}), KindOf("decimal", {Decimal(2)}),
  KindOf("boolean", {Truth(TRUE)}), KindOf("null", {Null}),
  TextOp("regex", "b?", "b"), TextOp("include", "a", "ab"), TextOp("semver", "", "1.0.0"),
  TextOp("datetime", "y", "2020"),
  AnyOf(<<Text("a"), Null>>), AnyOf(<<Integer(0), Integer(1)>>)}

\* Wrappers and structures.
Optional(s) == [op |-> "optional", of |-> s, example |-> {}]
Nullable(s) == [op |-> "nullable", of |-> s, example |-> {}]
Forbidden   == [op |-> "forbidden", example |-> {}]
\* Shapes by name, for all names.
ByName(shapes) == [n \in Name |-> IF n \in DOMAIN shapes THEN shapes[n] ELSE None]
WithMembers(members) == [op |-> "object", members |-> ByName(members), example |-> {}]
Having(s)   == WithMembers("x" :> s)
Fixed(s)    == [op |-> "array", entries |-> s, example |-> {}]
Holding(s)  == [op |-> "contains", entries |-> s, example |-> {}]
Each(s, min, max)    == [op |-> "each-like", items |-> s, min |-> min, max |-> max, example |-> {}]
Entries(k, v, min, max) ==
  [op |-> "each-entry", keys |-> k, values |-> v, min |-> min, max |-> max, example |-> {}]
Tagged(tag, s) == WithMembers(("xt" :> Leaf("equality", {Text(tag)})) @@ ("x" :> s))
OneOf(alternatives) ==
  [op |-> "one-of", discriminator |-> "xt", alternatives |-> ByName(alternatives), default |-> {},
   example |-> {}]

Str == KindOf("string", {Text("a")})
Whole == KindOf("integer", {Integer(1)})

Lists == {
  Fixed(<<>>), Fixed(<<Str>>), Fixed(<<Str, Str>>), Fixed(<<Whole, Str>>), Holding(<<Str>>),
  Holding(<<Str, Leaf("any", {Text("a")})>>),
  Each(Str, 0, {}), Each(Str, 1, {}), Each(Str, 1, {1}), Each(Str, 1, {3}), Each(Nullable(Str), 1, {2}),
  Each(Leaf("any", {Text("a")}), 0, {2})}

Maps == {
  Entries({}, Str, 0, {}), Entries({}, Str, 1, {2}), Entries({}, Str, 0, {1}),
  Entries({TextOp("regex", "a.*", "a")}, Str, 0, {}), Entries({Str}, Leaf("any", {Null}), 0, {})}

Both == WithMembers(("x" :> Optional(Str)) @@ ("xt" :> Optional(Str)))

Members ==
  {Having(s) : s \in Plain}
  \cup {Having(Optional(s)) : s \in {Leaf("any", {Null}), Str, Whole, Nullable(Str)}}
  \cup {Having(Nullable(s)) : s \in {Str, AnyOf(<<Text("a"), Text("ab")>>)}}
  \cup {Both, WithMembers(<<>>), Having(Forbidden), Having(Holding(<<Str>>)),
        WithMembers(("x" :> Whole) @@ ("xt" :> Str)),
        WithMembers(("x" :> Whole) @@ ("xt" :> Optional(Leaf("any", {Null}))))}

Taggings == {
  Tagged("a", Whole), Tagged("b", Str),
  OneOf(("p" :> Tagged("a", Whole)) @@ ("q" :> Tagged("b", Str))),
  OneOf(("p" :> Tagged("a", Whole)) @@ ("q" :> Tagged("b", Optional(Str)))),
  OneOf(("p" :> Nullable(Tagged("a", Whole))) @@ ("r" :> Tagged("c", Str)))}

MCAuthored == Leaves \cup {Nullable(Str), Nullable(Whole)} \cup Lists \cup Maps \cup Members \cup Taggings

\* A consumer's contracts, with no exclusions, or with one of a member's
\* presence and the node's own cardinality, or of the presence of a member
\* whose name goes on from another's.
Excluded == {Dimension(<<InMember("x")>>, "presence"), Dimension(<<>>, "cardinality")}

Declares(s, exclusions) == [shape |-> s, exclusions |-> exclusions, description |-> "published"]

MCDeclared ==
  {Declares(s, {}) : s \in MCAuthored}
  \cup {Declares(s, {Excluded}) : s \in {t \in MCAuthored : HasChildren(t)}}
  \cup {Declares(Both, {{Dimension(<<InMember("xt")>>, "presence")}})}
  \cup {[Declares(Str, {}) EXCEPT !.description = "unpublished"]}

MCObservations ==
  {Null, Truth(TRUE), Integer(1), Decimal(1), Text("a"), Text("b"), List(<<>>), List(<<Text("a"), Null>>),
   Of("x", Integer(1)), Of("x", Null), Document(("x" :> Integer(1)) @@ ("xt" :> Text("a")))}

----------------------------------------------------------------------------
(* What is decided, for a few of the checks.                               *)

Checked == <<"web", "api">>
Other   == <<"app", "api">>
MCOtherPairs == {Other}

\* A run of both pairs that reports entries, and older summaries.
Paired(ours, theirs) ==
  [paired |-> TRUE, named |-> {{Checked, Other}}, failed |-> {}, aborted |-> FALSE, filtered |-> FALSE,
   entries |-> {[pair |-> Checked, status |-> ours], [pair |-> Other, status |-> theirs]}]
Older(named, failed, aborted, filtered) ==
  [paired |-> FALSE, named |-> named, entries |-> {}, failed |-> failed, aborted |-> aborted,
   filtered |-> filtered]

MCVerifications == {
  {}, {Paired("verified", "failed")}, {Paired("verified", "verified")},
  {Paired("verified", "verified"), Paired("filtered", "verified")},
  {Older({{Checked, Other}}, {Other}, TRUE, FALSE)}, {Older({{Checked}}, {}, FALSE, TRUE)},
  {Older({}, {}, FALSE, FALSE), Older({{Checked}}, {}, FALSE, FALSE)}}

Layer(onFinding, onReview, exemptions) ==
  [onFinding |-> onFinding, onReview |-> onReview, exemptions |-> exemptions]
Accepting(consumer, path, expires) ==
  [consumer |-> consumer, interaction |-> {}, path |-> path, expires |-> expires]
AcceptingHere(path) ==
  [consumer |-> {}, interaction |-> {[description |-> "published", states |-> {{}}]},
   path |-> {path}, expires |-> {}]

MCPolicies == {
  <<>>,
  <<Layer({"block"}, {}, <<>>), Layer({"warn"}, {"block"}, <<>>)>>,
  <<Layer({}, {}, <<Accepting({"web"}, {<<InMember("x")>>}, {2})>>), Layer({"block"}, {}, <<AcceptingHere(<<>>)>>)>>,
  <<Layer({}, {}, <<Accepting({"app"}, {}, {}), AcceptingHere(<<InMember("x")>>)>>)>>}

MCDates == {{}, {2}, {3}}

\* The shapes of the checks that are decided.
Deciding ==
  {Str, TextOp("regex", "a.*", "a"), TextOp("include", "a", "ab"), Having(Whole), Having(Str),
   Having(Optional(Str)), Having(Optional(Nullable(Str))), Holding(<<Str>>)}

Scenario ==
  answered # {} =>
    published \subseteq Deciding /\ \A c \in contract : c.shape \in Deciding

MCSpec == CheckInit /\ [][CheckNext /\ Scenario']_checkVars
=============================================================================
