------------------------- MODULE MCVariantSelection -------------------------
(***************************************************************************)
(* Spaces and policies for TLC: the dimensions of an order payload, flat   *)
(* and with one inside an optional or an alternative, under every strategy *)
(* and with pins and exclusions.                                           *)
(***************************************************************************)
EXTENDS VariantSelection, TLC

Dimension(facet, points, gates) ==
  [facet |-> facet, points |-> points, default |-> 1, gates |-> gates]

\* Items, payment, shippedAt and status.
Payload ==
  <<Dimension("cardinality", 2, {}), Dimension("alternative", 2, {}),
    Dimension("presence", 2, {}), Dimension("value", 3, {})>>

\* A nullable dimension inside the second way of paying.
Nested ==
  <<Dimension("cardinality", 2, {}), Dimension("alternative", 2, {}),
    Dimension("presence", 2, {<<2, 2>>}), Dimension("presence", 2, {}),
    Dimension("value", 3, {})>>

Asking(dimensions, asked, strength) ==
  [space |-> dimensions, strategy |-> asked, strength |-> strength,
   threshold |-> 8, budget |-> 50, boundaries |-> TRUE, pins |-> << >>,
   exclusions |-> {}]

\* An optional member with three values inside, beside another of three.
Optional ==
  <<Dimension("presence", 2, {}), Dimension("value", 3, {<<1, 1>>}),
    Dimension("value", 3, {})>>

\* Two gates deep: a nullable list inside an optional member.
Deep ==
  <<Dimension("presence", 2, {}), Dimension("nullability", 2, {<<1, 1>>}),
    Dimension("cardinality", 3, {<<1, 1>>, <<2, 1>>}),
    Dimension("presence", 2, {})>>

Spaces ==
  {<< >>, <<Dimension("value", 3, {})>>, Payload, Nested, Optional, Deep}

Strategies ==
  UNION {{Asking(s, "auto", 2), Asking(s, "t-wise", 0), Asking(s, "t-wise", 2),
          Asking(s, "t-wise", 3), Asking(s, "exhaustive", 2),
          Asking(s, "base-only", 2)} : s \in Spaces}

\* A second present dimension and the first at its second point, as a pin and
\* as an exclusion, and one pair that is excluded.
Both(s) == (1 :> 2) @@ (Len(s) :> 2)

Policies ==
  UNION {{r,
          [r EXCEPT !.boundaries = FALSE],
          [r EXCEPT !.budget = 5]}
           \cup (IF Len(r.space) < 2 THEN {}
                 ELSE {[r EXCEPT !.pins = <<Both(r.space), 2 :> 2>>],
                       [r EXCEPT !.exclusions = {Both(r.space)}],
                       [r EXCEPT !.exclusions = {1 :> 1, 2 :> 1}],
                       [r EXCEPT !.exclusions = {(1 :> 1) @@ (2 :> 1),
                                                 (1 :> 2) @@ (2 :> 2)}]}) :
           r \in Strategies}

MCPolicies == Policies
MCGated    == {Asking(Nested, "auto", 2)}
====
