----------------------- MODULE VariantSelectionProofs -----------------------
(***************************************************************************)
(* What a selection keeps for every space and policy: its variants are     *)
(* variants of the space, its covering array places every target and,      *)
(* where nothing is gated, covers it, and the size that chose its strategy *)
(* counts the variants.                                                    *)
(***************************************************************************)
EXTENDS VariantSelection, FiniteSetTheorems, WellFoundedInduction, TLAPS

-----------------------------------------------------------------------------
\* Induction and recursion, for sets and functions.

\* A set of naturals that holds each number whose predecessors it holds is all of
\* them.
LEMMA Induction ==
  ASSUME NEW S \in SUBSET Nat, \A n \in Nat : (\A m \in Nat : m < n => m \in S) => n \in S
  PROVE  S = Nat
<1>1. ASSUME Nat \ S # {} PROVE FALSE
  <2> DEFINE R == OpToRel(<, Nat)
  <2>0. Nat \ S \subseteq Nat /\ IsWellFoundedOn(R, Nat)
    BY NatLessThanWellFounded
  <2>1. PICK n \in Nat \ S : \A m \in Nat \ S : ~(<<m, n>> \in R)
    <3> HIDE DEF R
    <3> QED BY <1>1, <2>0, WFMin
  <2>2. \A m \in Nat : m < n => m \in S
    BY <2>1 DEF OpToRel
  <2> QED BY <2>1, <2>2
<1> QED BY <1>1

\* A definition by recursion: D takes a function to the one whose value at x is
\* the body of the definition, which reads the function at lower ranks only, and
\* no rank is beyond a bound.
Recurs(S, T, rank, D) ==
  /\ T # {} /\ rank \in [S -> Nat] /\ D \in [[S -> T] -> [S -> T]]
  /\ \A f, g \in [S -> T], x \in S :
       (\A y \in S : rank[y] < rank[x] => f[y] = g[y]) => D[f][x] = D[g][x]
  /\ \E bound \in Nat : \A x \in S : rank[x] < bound

\* It has a solution: D makes it right for one more rank each time.
LEMMA Recursion ==
  ASSUME NEW S, NEW T, NEW rank, NEW D, Recurs(S, T, rank, D)
  PROVE  \E f \in [S -> T] : f = D[f]
<1>0. /\ T # {} /\ rank \in [S -> Nat] /\ D \in [[S -> T] -> [S -> T]]
      /\ \A f, g \in [S -> T], x \in S :
           (\A y \in S : rank[y] < rank[x] => f[y] = g[y]) => D[f][x] = D[g][x]
  BY DEF Recurs
<1> USE <1>0
<1> DEFINE F == [S -> T]
           Solves(n, f) == \A x \in S : rank[x] < n => f[x] = D[f][x]
           Solved == {n \in Nat : \E f \in F : Solves(n, f)}
<1>1. ASSUME NEW n \in Nat, \A m \in Nat : m < n => m \in Solved
      PROVE  n \in Solved
  <2>1. CASE n = 0
    <3>1. PICK t : t \in T
      OBVIOUS
    <3>2. [x \in S |-> t] \in F /\ Solves(0, [x \in S |-> t])
      BY <3>1
    <3> QED BY <2>1, <3>2
  <2>2. CASE n # 0
    <3>1. n - 1 \in Nat /\ n - 1 < n
      BY <2>2
    <3>2. PICK f \in F : Solves(n - 1, f)
      BY <1>1, <3>1
    <3>3. D[f] \in F
      OBVIOUS
    <3>4. ASSUME NEW x \in S, rank[x] < n PROVE D[f][x] = D[D[f]][x]
      <4>1. \A y \in S : rank[y] < rank[x] => f[y] = D[f][y]
        BY <3>1, <3>2, <3>4
      <4> QED BY <3>3, <4>1
    <3>5. Solves(n, D[f])
      BY <3>4
    <3> QED BY <3>3, <3>5
  <2> QED BY <2>1, <2>2
<1> HIDE DEF Solved
<1>2. Solved = Nat
  <2>1. Solved \in SUBSET Nat
    BY DEF Solved
  <2> QED BY <1>1, <2>1, Induction
<1>3. PICK bound \in Nat : \A x \in S : rank[x] < bound
  BY DEF Recurs
<1>4. PICK f \in F : Solves(bound, f)
  BY <1>2 DEF Solved
<1>5. D[f] \in F /\ \A x \in S : f[x] = D[f][x]
  BY <1>3, <1>4
<1>6. f = D[f]
  BY <1>4, <1>5
<1> QED BY <1>4, <1>6

-----------------------------------------------------------------------------
\* Folds over finite sets, one member at a time.

Some(s) == CHOOSE x \in s : TRUE

Weighs(f, S) == \A x \in S : f[x] \in Nat

\* An operation on naturals that may be applied in any order.
Commutes(op) ==
  /\ op \in [Nat \X Nat -> Nat]
  /\ \A i, j, k \in Nat : op[<<i, op[<<j, k>>]>>] = op[<<j, op[<<i, k>>]>>]

IsFold(F, S, f, base, op) ==
  /\ F \in [SUBSET S -> Nat] /\ F[{}] = base
  /\ \A s \in SUBSET S : \A x \in s : F[s] = op[<<f[x], F[s \ {x}]>>]

\* A fold takes the members of a set in whatever order they are chosen; where the
\* order does not matter, any of them may be taken first.
LEMMA Folding ==
  ASSUME NEW S, IsFiniteSet(S), NEW f, Weighs(f, S), NEW base \in Nat, NEW op, Commutes(op)
  PROVE  \E F : IsFold(F, S, f, base, op)
<1>0. /\ \A x \in S : f[x] \in Nat
      /\ op \in [Nat \X Nat -> Nat]
      /\ \A i, j, k \in Nat : op[<<i, op[<<j, k>>]>>] = op[<<j, op[<<i, k>>]>>]
  BY DEF Weighs, Commutes
<1> USE <1>0
<1> DEFINE P == SUBSET S
           rank == [s \in P |-> Cardinality(s)]
           Body(g, s) == IF s = {} THEN base ELSE op[<<f[Some(s)], g[s \ {Some(s)}]>>]
           D == [g \in [P -> Nat] |-> [s \in P |-> Body(g, s)]]
<1>1. \A s \in P : s # {} => Some(s) \in s /\ s \ {Some(s)} \in P
  BY DEF Some
<1>2. ASSUME NEW s \in P
      PROVE  /\ IsFiniteSet(s) /\ Cardinality(s) \in Nat
             /\ \A x \in s : s \ {x} \in P /\ Cardinality(s \ {x}) < Cardinality(s)
  <2>1. IsFiniteSet(s) /\ Cardinality(s) \in Nat
    BY FS_Subset, FS_CardinalityType
  <2>2. ASSUME NEW x \in s
        PROVE  s \ {x} \in P /\ Cardinality(s \ {x}) < Cardinality(s)
    <3>1. Cardinality(s \ {x}) = Cardinality(s) - 1
      BY <2>1, FS_RemoveElement
    <3>2. s \ {x} \in P
      OBVIOUS
    <3> HIDE DEF P
    <3> QED BY <2>1, <3>1, <3>2
  <2> QED BY <2>1, <2>2
<1>3. rank \in [P -> Nat]
  BY <1>2
<1>4. D \in [[P -> Nat] -> [P -> Nat]]
  <2>1. ASSUME NEW g \in [P -> Nat], NEW s \in P PROVE Body(g, s) \in Nat
    <3>1. CASE s = {}
      BY <3>1
    <3>2. CASE s # {}
      <4>1. f[Some(s)] \in Nat /\ g[s \ {Some(s)}] \in Nat
        BY <1>1, <3>2
      <4> QED BY <3>2, <4>1
    <3> QED BY <3>1, <3>2
  <2> QED BY <2>1
<1>5. ASSUME NEW g \in [P -> Nat], NEW h \in [P -> Nat], NEW s \in P,
             \A t \in P : rank[t] < rank[s] => g[t] = h[t]
      PROVE  D[g][s] = D[h][s]
  <2>1. CASE s = {}
    BY <2>1
  <2>2. CASE s # {}
    <3>1. g[s \ {Some(s)}] = h[s \ {Some(s)}]
      BY <1>1, <1>2, <1>5, <2>2
    <3> QED BY <2>2, <3>1
  <2> QED BY <2>1, <2>2
<1>b. \E bound \in Nat : \A s \in P : rank[s] < bound
  <2>1. Cardinality(S) + 1 \in Nat
    BY FS_CardinalityType
  <2>2. ASSUME NEW s \in P PROVE rank[s] < Cardinality(S) + 1
    <3>1. Cardinality(s) <= Cardinality(S) /\ Cardinality(s) \in Nat /\ Cardinality(S) \in Nat
      BY <1>2, FS_Subset, FS_CardinalityType
    <3> QED BY <3>1
  <2> HIDE DEF rank
  <2> QED BY <2>1, <2>2
<1> HIDE DEF rank
<1>6. Recurs(P, Nat, rank, D)
  <2> HIDE DEF D, P
  <2> QED BY <1>3, <1>4, <1>5, <1>b DEF Recurs
<1>7. PICK F \in [P -> Nat] : F = D[F]
  <2> HIDE DEF D, P
  <2> QED BY <1>6, Recursion
<1>8. F = [s \in P |-> Body(F, s)]
  BY <1>7
<1>9. \A s \in P : F[s] = Body(F, s)
  BY <1>8
<1> DEFINE Any(s) == \A x \in s : F[s] = op[<<f[x], F[s \ {x}]>>]
           Q == {n \in Nat : \A s \in P : Cardinality(s) = n => Any(s)}
<1>10. ASSUME NEW n \in Nat, \A m \in Nat : m < n => m \in Q PROVE n \in Q
  <2> SUFFICES ASSUME NEW s \in P, Cardinality(s) = n, NEW x \in s
               PROVE  F[s] = op[<<f[x], F[s \ {x}]>>]
    OBVIOUS
  <2> DEFINE c == Some(s)
  <2>1. c \in s
    BY <1>1
  <2> HIDE DEF c
  <2>2. F[s] = op[<<f[c], F[s \ {c}]>>]
    BY <1>9 DEF c
  <2>3. CASE c = x
    BY <2>2, <2>3
  <2>4. CASE c # x
    <3>1. s \ {c} \in P /\ s \ {x} \in P /\ (s \ {c}) \ {x} = (s \ {x}) \ {c}
      OBVIOUS
    <3>2. Any(s \ {c}) /\ Any(s \ {x})
      <4>1. Cardinality(s \ {c}) \in Q /\ Cardinality(s \ {x}) \in Q
        BY <1>2, <1>10, <2>1, <3>1
      <4> QED BY <3>1, <4>1
    <3>3. /\ F[s \ {c}] = op[<<f[x], F[(s \ {c}) \ {x}]>>]
          /\ F[s \ {x}] = op[<<f[c], F[(s \ {x}) \ {c}]>>]
      BY <2>1, <2>4, <3>2
    <3>4. f[x] \in Nat /\ f[c] \in Nat /\ F[(s \ {x}) \ {c}] \in Nat
      BY <2>1
    <3>5. /\ F[s] = op[<<f[c], op[<<f[x], F[(s \ {x}) \ {c}]>>]>>]
          /\ op[<<f[x], F[s \ {x}]>>] = op[<<f[x], op[<<f[c], F[(s \ {x}) \ {c}]>>]>>]
      BY <2>2, <3>1, <3>3
    <3>6. \A u \in Nat : op[<<f[c], op[<<f[x], u>>]>>] = op[<<f[x], op[<<f[c], u>>]>>]
      BY <3>4
    <3> QED BY <3>4, <3>5, <3>6
  <2> QED BY <2>3, <2>4
<1>11. Q = Nat
  <2> HIDE DEF Q
  <2>1. Q \in SUBSET Nat
    BY DEF Q
  <2> QED BY <1>10, <2>1, Induction
<1>12. ASSUME NEW s \in P PROVE Any(s)
  <2>1. Cardinality(s) \in Q
    BY <1>2, <1>11
  <2> QED BY <2>1
<1>13. F[{}] = base
  BY <1>9
<1>14. F \in [SUBSET S -> Nat]
  OBVIOUS
<1>15. \A s \in SUBSET S : \A x \in s : F[s] = op[<<f[x], F[s \ {x}]>>]
  BY <1>12
<1>16. IsFold(F, S, f, base, op)
  BY <1>13, <1>14, <1>15 DEF IsFold
<1> QED BY <1>16

\* Folds that are alike for the empty set and for each set when they are for what
\* is left of it.
FollowAlike(F, G, S) ==
  /\ F[{}] = G[{}]
  /\ \A s \in SUBSET S :
       s # {} /\ F[s \ {Some(s)}] = G[s \ {Some(s)}] => F[s] = G[s]

LEMMA FoldsAgree ==
  ASSUME NEW S, IsFiniteSet(S), NEW F, NEW G, FollowAlike(F, G, S)
  PROVE  \A s \in SUBSET S : F[s] = G[s]
<1>0. /\ F[{}] = G[{}]
      /\ \A s \in SUBSET S :
           s # {} /\ F[s \ {Some(s)}] = G[s \ {Some(s)}] => F[s] = G[s]
  BY DEF FollowAlike
<1> USE <1>0
<1> DEFINE Q == {n \in Nat : \A s \in SUBSET S : Cardinality(s) = n => F[s] = G[s]}
<1>1. ASSUME NEW n \in Nat, \A m \in Nat : m < n => m \in Q PROVE n \in Q
  <2> SUFFICES ASSUME NEW s \in SUBSET S, Cardinality(s) = n PROVE F[s] = G[s]
    OBVIOUS
  <2>1. CASE s = {}
    BY <2>1
  <2>2. CASE s # {}
    <3>1. Some(s) \in s
      BY <2>2 DEF Some
    <3>2. IsFiniteSet(s) /\ Cardinality(s) \in Nat
      BY FS_Subset, FS_CardinalityType
    <3>3. /\ Cardinality(s \ {Some(s)}) = n - 1 /\ IsFiniteSet(s \ {Some(s)})
          /\ Cardinality(s \ {Some(s)}) \in Nat
      BY <3>1, <3>2, FS_RemoveElement, FS_CardinalityType
    <3>4. n - 1 \in Q
      BY <1>1, <3>3
    <3> QED BY <2>2, <3>3, <3>4
  <2> QED BY <2>1, <2>2
<1>2. Q = Nat
  <2> HIDE DEF Q
  <2>1. Q \in SUBSET Nat
    BY DEF Q
  <2> QED BY <1>1, <2>1, Induction
<1>3. ASSUME NEW s \in SUBSET S PROVE F[s] = G[s]
  <2>1. Cardinality(s) \in Q
    BY <1>2, FS_Subset, FS_CardinalityType
  <2> QED BY <2>1
<1> QED BY <1>3

-----------------------------------------------------------------------------
\* Spaces and assignments.

LEMMA SpaceFacts ==
  ASSUME request \in Requests
  PROVE  /\ space \in Seq([facet : STRING, points : Nat, default : Nat,
                           gates : SUBSET (Nat \X Nat)])
         /\ Dims = 1..Len(space) /\ Len(space) \in Nat
         /\ \A d \in Dims :
              /\ space[d].points \in Nat
              /\ space[d].default \in 1..space[d].points
              /\ space[d].facet \in {"presence", "nullability"} =>
                   space[d].points = 2
              /\ space[d].gates \subseteq Nat \X Nat
              /\ \A g \in space[d].gates :
                   /\ g[1] \in 1..(d - 1) /\ g[1] \in Dims
                   /\ g[2] \in 1..space[g[1]].points
                   /\ space[g[1]].gates \subseteq space[d].gates
                   /\ \A h \in space[d].gates :
                        /\ g[1] = h[1] => g = h
                        /\ g = h \/ h \in space[g[1]].gates \/ g \in space[h[1]].gates
         /\ request.strength \in Nat
         /\ request.strategy \in {"auto", "exhaustive", "t-wise", "base-only"}
         /\ request.pins \in Seq(Partials(space))
         /\ request.exclusions \subseteq Partials(space)
<1> DEFINE S == [facet : STRING, points : Nat, default : Nat,
                 gates : SUBSET (Nat \X Nat)]
<1>1. /\ space \in Seq(S)
      /\ WellFormed(space)
      /\ request.strength \in Nat
      /\ request.strategy \in {"auto", "exhaustive", "t-wise", "base-only"}
      /\ request.pins \in Seq(Partials(space))
      /\ request.exclusions \subseteq Partials(space)
  BY RequestsAreResolved DEF space
<1>2. /\ Dims = 1..Len(space) /\ Len(space) \in Nat
      /\ Dims = DOMAIN space
  BY <1>1 DEF Dims
<1> HIDE DEF S
<1>3. ASSUME NEW d \in Dims
      PROVE  /\ space[d].points \in Nat
             /\ space[d].default \in 1..space[d].points
             /\ space[d].facet \in {"presence", "nullability"} =>
                  space[d].points = 2
             /\ space[d].gates \subseteq Nat \X Nat
             /\ \A g \in space[d].gates : g \in Nat \X Nat
  <2>1. space[d] \in S
    BY <1>1, <1>2
  <2>2. space[d].points \in Nat /\ space[d].gates \in SUBSET (Nat \X Nat)
    BY <2>1 DEF S
  <2>3. /\ space[d].default \in 1..space[d].points
        /\ space[d].facet \in {"presence", "nullability"} =>
             space[d].points = 2
    BY <1>1, <1>2 DEF WellFormed
  <2> QED BY <2>2, <2>3
<1>4. ASSUME NEW d \in Dims, NEW g \in space[d].gates
      PROVE  /\ g[1] \in 1..(d - 1) /\ g[1] \in Dims
             /\ g[2] \in 1..space[g[1]].points
             /\ space[g[1]].gates \subseteq space[d].gates
             /\ \A h \in space[d].gates :
                  /\ g[1] = h[1] => g = h
                  /\ g = h \/ h \in space[g[1]].gates \/ g \in space[h[1]].gates
  <2>1. /\ g[1] \in 1..(d - 1) /\ g[2] \in 1..space[g[1]].points
        /\ space[g[1]].gates \subseteq space[d].gates
        /\ \A h \in space[d].gates :
             g = h \/ h \in space[g[1]].gates \/ g \in space[h[1]].gates
    BY <1>1, <1>2 DEF WellFormed
  <2>2. g[1] \in Dims
    BY <2>1, <1>2
  <2>3. ASSUME NEW h \in space[d].gates, g[1] = h[1] PROVE g = h
    <3>1. \A e \in Dims : \A x \in space[e].gates : x[1] \in 1..(e - 1)
      BY <1>1, <1>2 DEF WellFormed
    <3>2. ~(h \in space[g[1]].gates) /\ ~(g \in space[h[1]].gates)
      BY <2>2, <2>3, <3>1, <1>2
    <3> QED BY <2>1, <3>2
  <2> QED BY <2>1, <2>2, <2>3
<1> QED BY <1>1, <1>2, <1>3, <1>4 DEF S

\* Whether a function is an assignment of the space.
LEMMA PartialIs ==
  ASSUME request \in Requests, NEW p
  PROVE  /\ p \in Partials(space) <=>
              /\ DOMAIN p \in SUBSET Dims /\ p = [d \in DOMAIN p |-> p[d]]
              /\ \A d \in DOMAIN p : p[d] \in 1..space[d].points
         /\ \A D \in SUBSET Dims :
              p \in Over(space, D) <=> p \in Partials(space) /\ DOMAIN p = D
<1>1. ASSUME NEW D \in SUBSET Dims
      PROVE  p \in Over(space, D) <=>
               /\ DOMAIN p = D /\ p = [d \in DOMAIN p |-> p[d]]
               /\ \A d \in D : p[d] \in 1..space[d].points
  <2>1. ASSUME p \in Over(space, D)
        PROVE  /\ DOMAIN p = D /\ p = [d \in DOMAIN p |-> p[d]]
               /\ \A d \in D : p[d] \in 1..space[d].points
    BY <2>1, SpaceFacts DEF Over, Points, Dims
  <2>2. ASSUME DOMAIN p = D, p = [d \in DOMAIN p |-> p[d]],
               \A d \in D : p[d] \in 1..space[d].points
        PROVE  p \in Over(space, D)
    <3>1. \A d \in D : p[d] \in Points(space) /\ p[d] <= space[d].points
      BY <2>2, SpaceFacts DEF Points, Dims
    <3>2. p \in [D -> Points(space)]
      BY <2>2, <3>1
    <3> QED BY <3>1, <3>2 DEF Over
  <2> QED BY <2>1, <2>2
<1> QED BY <1>1 DEF Partials, Dims

\* Completion makes a variant of any partial assignment, and keeps its points
\* where nothing is gated.
LEMMA CompleteIs ==
  ASSUME request \in Requests, NEW p \in Partials(space)
  PROVE  /\ Complete(p) \in Partials(space)
         /\ IsVariant(Complete(p))
         /\ (\A d \in Dims : space[d].gates = {}) =>
              DOMAIN Complete(p) = Dims /\ Within(p, Complete(p))
<1> DEFINE c == Chosen(space, p)
           A == {e \in Dims : \A g \in space[e].gates : c[g[1]] = g[2]}
<1>1. DOMAIN c = Dims /\ \A d \in Dims : c[d] \in 1..space[d].points
  BY SpaceFacts, PartialIs DEF Chosen, Dims
<1>2. /\ Complete(p) = [d \in A |-> c[d]] /\ DOMAIN Complete(p) = A
      /\ \A d \in A : Complete(p)[d] = c[d]
  BY DEF Complete
<1>3. A \subseteq Dims
  OBVIOUS
<1>4. Complete(p) \in Partials(space)
  BY <1>1, <1>2, <1>3, PartialIs
<1>5. ASSUME NEW d \in Dims
      PROVE  d \in A <=> IsActive(Complete(p), d)
  <2>1. ASSUME d \in A, NEW g \in space[d].gates
        PROVE  g[1] \in A /\ Complete(p)[g[1]] = g[2]
    <3>1. g[1] \in Dims /\ space[g[1]].gates \subseteq space[d].gates
      BY SpaceFacts
    <3>2. g[1] \in A
      BY <3>1, <2>1
    <3> QED BY <3>2, <2>1, <1>2
  <2>2. ASSUME IsActive(Complete(p), d), NEW g \in space[d].gates
        PROVE  c[g[1]] = g[2]
    BY <2>2, <1>2 DEF IsActive
  <2> QED BY <2>1, <2>2, <1>2 DEF IsActive
<1>6. IsVariant(Complete(p))
  BY <1>2, <1>5 DEF IsVariant
<1>7. ASSUME \A d \in Dims : space[d].gates = {}
      PROVE  DOMAIN Complete(p) = Dims /\ Within(p, Complete(p))
  <2>1. A = Dims
    BY <1>7
  <2>2. \A d \in DOMAIN p : d \in Dims /\ c[d] = p[d]
    BY PartialIs DEF Chosen, Dims
  <2> QED BY <2>1, <2>2, <1>2 DEF Within
<1> QED BY <1>4, <1>6, <1>7

\* A pair more.
LEMMA WithIs ==
  ASSUME request \in Requests, NEW p \in Partials(space), NEW d \in Dims,
         NEW n \in 1..space[d].points
  PROVE  /\ With(p, d, n) \in Partials(space)
         /\ DOMAIN With(p, d, n) = DOMAIN p \cup {d}
         /\ \A q : d \notin DOMAIN p /\ Within(q, p) =>
              Within(q, With(p, d, n))
<1>1. /\ DOMAIN With(p, d, n) = DOMAIN p \cup {d}
      /\ With(p, d, n) = [e \in DOMAIN p \cup {d} |->
                           IF e = d THEN n ELSE p[e]]
  BY DEF With
<1>2. \A e \in DOMAIN p \cup {d} : With(p, d, n)[e] = IF e = d THEN n ELSE p[e]
  BY <1>1
<1>3. /\ DOMAIN p \in SUBSET Dims
      /\ \A e \in DOMAIN p : p[e] \in 1..space[e].points
  BY PartialIs
<1>4. With(p, d, n) \in Partials(space)
  BY <1>1, <1>2, <1>3, PartialIs
<1>5. ASSUME NEW q, d \notin DOMAIN p, Within(q, p)
      PROVE  Within(q, With(p, d, n))
  BY <1>1, <1>2, <1>5 DEF Within
<1> QED BY <1>1, <1>4, <1>5

\* The pairs a row lacks.
LEMMA ExtendIs ==
  ASSUME request \in Requests, NEW p \in Partials(space),
         NEW q \in Partials(space)
  PROVE  /\ Extend(p, q) \in Partials(space)
         /\ DOMAIN Extend(p, q) = DOMAIN p \cup DOMAIN q
         /\ \A s : Within(s, p) => Within(s, Extend(p, q))
<1>1. /\ DOMAIN Extend(p, q) = DOMAIN p \cup DOMAIN q
      /\ Extend(p, q) = [d \in DOMAIN p \cup DOMAIN q |->
                           IF d \in DOMAIN p THEN p[d] ELSE q[d]]
  BY DEF Extend
<1>2. \A d \in DOMAIN p \cup DOMAIN q :
         Extend(p, q)[d] = IF d \in DOMAIN p THEN p[d] ELSE q[d]
  BY <1>1
<1>3. /\ DOMAIN p \in SUBSET Dims /\ DOMAIN q \in SUBSET Dims
      /\ \A e \in DOMAIN p : p[e] \in 1..space[e].points
      /\ \A e \in DOMAIN q : q[e] \in 1..space[e].points
  BY PartialIs
<1>4. Extend(p, q) \in Partials(space)
  BY <1>1, <1>2, <1>3, PartialIs
<1>5. ASSUME NEW s, Within(s, p)
      PROVE  Within(s, Extend(p, q))
  BY <1>1, <1>2, <1>5 DEF Within
<1> QED BY <1>1, <1>4, <1>5

\* What a target requires: its own pairs, and those of the gates.
LEMMA NeedsAre ==
  ASSUME request \in Requests, NEW t \in Partials(space)
  PROVE  /\ AsPartial(Requirements(t)) \in Partials(space)
         /\ DOMAIN AsPartial(Requirements(t)) = {q[1] : q \in Requirements(t)}
         /\ Consistent(Requirements(t)) =>
              \A q \in Requirements(t) : AsPartial(Requirements(t))[q[1]] = q[2]
<1> DEFINE R == Requirements(t)
           D == {q[1] : q \in R}
<1>1. ASSUME NEW q \in R
      PROVE  q[1] \in Dims /\ q[2] \in 1..space[q[1]].points
  <2>1. CASE \E d \in DOMAIN t : q = <<d, t[d]>>
    BY <2>1, PartialIs
  <2>2. CASE \E d \in DOMAIN t : q \in space[d].gates
    BY <2>2, PartialIs, SpaceFacts
  <2> QED BY <2>1, <2>2 DEF Requirements
<1>2. /\ AsPartial(R) = [d \in D |-> (CHOOSE q \in R : q[1] = d)[2]]
      /\ DOMAIN AsPartial(R) = D
  BY DEF AsPartial
<1>3. ASSUME NEW d \in D
      PROVE  AsPartial(R)[d] \in 1..space[d].points
  <2>1. PICK q \in R : q[1] = d
    OBVIOUS
  <2>2. (CHOOSE r \in R : r[1] = d) \in R /\ (CHOOSE r \in R : r[1] = d)[1] = d
    BY <2>1
  <2>3. AsPartial(R)[d] = (CHOOSE r \in R : r[1] = d)[2]
    BY <1>2
  <2> HIDE DEF R
  <2> QED BY <2>2, <2>3, <1>1
<1>4. D \in SUBSET Dims
  BY <1>1
<1>5. AsPartial(R) \in Partials(space)
  <2> HIDE DEF R, D
  <2> QED BY <1>2, <1>3, <1>4, PartialIs
<1>6. ASSUME Consistent(R), NEW q \in R
      PROVE  AsPartial(R)[q[1]] = q[2]
  <2> DEFINE x == CHOOSE y \in R : y[1] = q[1]
  <2>1. x \in R /\ x[1] = q[1]
    <3> HIDE DEF R
    <3> QED OBVIOUS
  <2>2. x = q
    BY <1>6, <2>1 DEF Consistent
  <2>3. AsPartial(R)[q[1]] = x[2]
    BY <1>2
  <2> QED BY <2>2, <2>3
<1> QED BY <1>2, <1>5, <1>6

-----------------------------------------------------------------------------
\* The extremes of a dimension are points of it.

LEMMA LeastNumber ==
  ASSUME NEW T \in SUBSET Nat, T # {}
  PROVE  \E m \in T : \A n \in T : m <= n
<1>1. PICK m \in T : \A n \in T : <<n, m>> \notin OpToRel(<, Nat)
  BY NatLessThanWellFounded, WFMin, T \subseteq Nat
<1>2. \A n \in T : ~(n < m)
  BY <1>1 DEF OpToRel
<1> QED BY <1>2

LEMMA UnderIs ==
  ASSUME request \in Requests, NEW d, NEW p
  PROVE  Under(d, p) \in Nat /\ Under(d, p) <= Len(space)
<1>1. IsFiniteSet(Dims) /\ Cardinality(Dims) = Len(space)
  <2>1. Len(space) \in Nat /\ Dims = 1..Len(space) /\ 1 \in Int
    BY SpaceFacts
  <2>2. /\ IsFiniteSet(1..Len(space))
        /\ Cardinality(1..Len(space)) =
             IF 1 > Len(space) THEN 0 ELSE Len(space) - 1 + 1
    BY <2>1, FS_Interval
  <2> QED BY <2>1, <2>2
<1>2. {e \in Dims : <<d, p>> \in space[e].gates} \in SUBSET Dims
  OBVIOUS
<1> QED BY <1>1, <1>2, FS_Subset, FS_CardinalityType, SpaceFacts DEF Under

LEMMA ExtremeIs ==
  ASSUME request \in Requests, NEW d \in Dims, NEW minimal \in BOOLEAN
  PROVE  Extreme(d, minimal) \in 1..space[d].points
<1> DEFINE P == 1..space[d].points
           rank(p) == IF minimal THEN Under(d, p) ELSE Len(space) - Under(d, p)
           least == {n \in Nat : \E p \in P : n = rank(p)}
<1>1. /\ space[d].points \in Nat /\ space[d].default \in P /\ P # {}
      /\ space[d].facet \in {"presence", "nullability"} => space[d].points = 2
  BY SpaceFacts
<1>2. \A p \in P : rank(p) \in Nat
  BY UnderIs, SpaceFacts
<1>3. PICK n \in least : \A m \in least : n <= m
  BY <1>1, <1>2, LeastNumber
<1>4. PICK p \in {q \in P : rank(q) = n} :
        \A q \in {r \in P : rank(r) = n} : p <= q
  <2> DEFINE T == {r \in P : rank(r) = n}
  <2>1. T \in SUBSET Nat
    OBVIOUS
  <2>2. T # {}
    BY <1>3
  <2> HIDE DEF T
  <2>3. \E r \in T : \A q \in T : r <= q
    BY <2>1, <2>2, LeastNumber
  <2> QED BY <2>3 DEF T
<1>5. ASSUME NEW q \in P
      PROVE  \/ rank(p) < rank(q)
             \/ rank(p) = rank(q) /\ p <= q
  <2>1. n <= rank(q) /\ rank(p) = n
    BY <1>2, <1>3, <1>4
  <2>2. rank(q) = n => p <= q
    BY <1>4
  <2> QED BY <2>1, <2>2, <1>2, <1>4
<1> DEFINE Ahead(r, q) == IF minimal THEN Under(d, r) < Under(d, q)
                                     ELSE Under(d, r) > Under(d, q)
           Chooses(r) == \A q \in P : \/ Ahead(r, q)
                                      \/ Under(d, r) = Under(d, q) /\ r <= q
<1>6. \E r \in P : Chooses(r)
  <2>1. ASSUME NEW q \in P
        PROVE  Ahead(p, q) \/ (Under(d, p) = Under(d, q) /\ p <= q)
    <3>1. /\ Under(d, p) \in Nat /\ Under(d, q) \in Nat /\ Len(space) \in Nat
          /\ Under(d, p) <= Len(space) /\ Under(d, q) <= Len(space)
      BY UnderIs, SpaceFacts
    <3>2. CASE minimal
      BY <3>1, <3>2, <1>5
    <3>3. CASE ~minimal
      <4>1. \/ Len(space) - Under(d, p) < Len(space) - Under(d, q)
            \/ Len(space) - Under(d, p) = Len(space) - Under(d, q) /\ p <= q
        BY <3>3, <1>5
      <4> QED BY <3>1, <3>3, <4>1
    <3> QED BY <3>2, <3>3
  <2> QED BY <2>1, <1>4
<1>7. (CHOOSE r \in P : Chooses(r)) \in P
  <2> HIDE DEF Chooses
  <2> QED BY <1>6
<1>8. Extreme(d, minimal) =
        CASE space[d].facet \in {"presence", "nullability"} ->
               IF minimal THEN 2 ELSE 1
          [] space[d].facet = "cardinality" ->
               IF minimal THEN 1 ELSE space[d].points
          [] space[d].facet = "alternative" -> CHOOSE r \in P : Chooses(r)
          [] OTHER -> space[d].default
  BY DEF Extreme
<1> HIDE DEF P
<1>9. space[d].facet = "alternative" => Extreme(d, minimal) \in P
  BY <1>7, <1>8
<1>10. space[d].facet # "alternative" => Extreme(d, minimal) \in P
  BY <1>8, <1>1 DEF P
<1> QED BY <1>9, <1>10 DEF P

LEMMA BoundaryIs ==
  ASSUME request \in Requests, NEW minimal \in BOOLEAN
  PROVE  /\ Boundary(minimal) \in Partials(space)
         /\ IsVariant(Boundary(minimal))
<1> DEFINE x == [d \in Dims |-> Extreme(d, minimal)]
<1>1. x \in Partials(space)
  BY ExtremeIs, PartialIs
<1> QED BY <1>1, CompleteIs DEF Boundary

-----------------------------------------------------------------------------
\* The list of variants.

Origins == {"base", "boundary", "pinned", "covering"}

VariantRecord == [assignment : Partials(space), origin : Origins]

LEMMA PushIs ==
  ASSUME NEW list \in Seq(VariantRecord), NEW a \in Partials(space),
         NEW o \in Origins
  PROVE  /\ Push(list, a, o) \in Seq(VariantRecord)
         /\ Len(list) <= Len(Push(list, a, o))
         /\ \A i \in DOMAIN list : /\ i \in DOMAIN Push(list, a, o)
                                   /\ Push(list, a, o)[i] = list[i]
         /\ \A i \in DOMAIN Push(list, a, o) :
              \/ i \in DOMAIN list /\ Push(list, a, o)[i] = list[i]
              \/ /\ Push(list, a, o)[i] = [assignment |-> a, origin |-> o]
                 /\ \A j \in DOMAIN list : list[j].assignment # a
                 /\ i = Len(list) + 1
         /\ \E i \in DOMAIN Push(list, a, o) :
              Push(list, a, o)[i].assignment = a
<1> DEFINE r == [assignment |-> a, origin |-> o]
<1>1. CASE \E i \in DOMAIN list : list[i].assignment = a
  <2>1. Push(list, a, o) = list
    BY <1>1 DEF Push
  <2> QED BY <2>1, <1>1
<1>2. CASE ~ \E i \in DOMAIN list : list[i].assignment = a
  <2>1. Push(list, a, o) = Append(list, r)
    BY <1>2 DEF Push
  <2>2. r \in VariantRecord
    BY DEF VariantRecord
  <2>3. /\ Append(list, r) \in Seq(VariantRecord)
        /\ DOMAIN Append(list, r) = 1..(Len(list) + 1)
        /\ DOMAIN list = 1..Len(list) /\ Len(list) \in Nat
        /\ Len(Append(list, r)) = Len(list) + 1
        /\ \A i \in 1..Len(list) : Append(list, r)[i] = list[i]
        /\ Append(list, r)[Len(list) + 1] = r
    BY <2>2
  <2>4. r.assignment = a
    OBVIOUS
  <2> HIDE DEF r
  <2>5. \A i \in DOMAIN Append(list, r) :
          i \in DOMAIN list \/ i = Len(list) + 1
    BY <2>3
  <2> QED BY <2>1, <2>3, <2>4, <2>5, <1>2 DEF r
<1> QED BY <1>1, <1>2

\* The parts of SelectsVariants, for a list.
Sound(list) ==
  /\ \A i \in DOMAIN list :
       /\ IsVariant(list[i].assignment)
       /\ list[i].origin = "covering" => ~Excluded(list[i].assignment)
  /\ \A i, j \in DOMAIN list : list[i].assignment = list[j].assignment => i = j

LEMMA PushSound ==
  ASSUME NEW list \in Seq(VariantRecord), Sound(list),
         NEW a \in Partials(space), NEW o \in Origins,
         IsVariant(a), o = "covering" => ~Excluded(a)
  PROVE  Sound(Push(list, a, o))
<1> DEFINE pushed == Push(list, a, o)
           r == [assignment |-> a, origin |-> o]
<1>1. \A i \in DOMAIN pushed :
        \/ i \in DOMAIN list /\ pushed[i] = list[i]
        \/ /\ pushed[i] = r
           /\ \A j \in DOMAIN list : list[j].assignment # a
           /\ i = Len(list) + 1
  BY PushIs
<1>2. r.assignment = a /\ r.origin = o
  OBVIOUS
<1> HIDE DEF r, pushed
<1>3. ASSUME NEW i \in DOMAIN pushed
      PROVE  /\ IsVariant(pushed[i].assignment)
             /\ pushed[i].origin = "covering" =>
                  ~Excluded(pushed[i].assignment)
  <2>1. CASE i \in DOMAIN list /\ pushed[i] = list[i]
    BY <2>1 DEF Sound
  <2>2. CASE pushed[i] = r
    BY <2>2, <1>2
  <2> QED BY <2>1, <2>2, <1>1
<1>4. ASSUME NEW i \in DOMAIN pushed, NEW j \in DOMAIN pushed,
             pushed[i].assignment = pushed[j].assignment
      PROVE  i = j
  <2>1. CASE i \in DOMAIN list /\ j \in DOMAIN list /\ pushed[i] = list[i]
               /\ pushed[j] = list[j]
    BY <2>1, <1>4 DEF Sound
  <2>2. CASE i = Len(list) + 1 /\ j = Len(list) + 1
    BY <2>2
  <2> QED BY <2>1, <2>2, <1>1, <1>2, <1>4
<1> QED BY <1>3, <1>4 DEF Sound, pushed

-----------------------------------------------------------------------------
\* A step keeps the request, and with it what the request alone decides.

LEMMA SameRequest ==
  ASSUME request' = request
  PROVE  /\ space' = space /\ Dims' = Dims
         /\ Partials(space)' = Partials(space)
         /\ VariantRecord' = VariantRecord
         /\ \A a : Excluded(a)' <=> Excluded(a)
         /\ \A a : IsVariant(a)' <=> IsVariant(a)
         /\ Targets' = Targets
         /\ \A list : Sound(list)' <=> Sound(list)
<1>1. space' = space
  BY DEF space
<1>2. Dims' = Dims /\ Partials(space)' = Partials(space)
  BY <1>1 DEF Dims
<1>3. VariantRecord' = VariantRecord
  BY <1>2 DEF VariantRecord
<1>4. \A a : Excluded(a)' <=> Excluded(a)
  BY DEF Excluded
<1>5. \A a : IsVariant(a)' <=> IsVariant(a)
  BY <1>1, <1>2 DEF IsVariant, IsActive
<1>6. Targets' = Targets
  <2>1. \A t : Requirements(t)' = Requirements(t)
    BY <1>1 DEF Requirements
  <2>2. Strength' = Strength
    BY DEF Strength
  <2>3. Reachable' = Reachable
    BY <1>1, <1>2, <2>1, <2>2 DEF Reachable
  <2> QED BY <2>3, <1>4 DEF Targets
<1>7. \A list : Sound(list)' <=> Sound(list)
  BY <1>4, <1>5 DEF Sound
<1> QED BY <1>1, <1>2, <1>3, <1>4, <1>5, <1>6, <1>7

LEMMA TargetsAre ==
  ASSUME request \in Requests, NEW t \in Targets
  PROVE  /\ t \in Partials(space) /\ ~Excluded(t)
         /\ Cardinality(DOMAIN t) = Strength
         /\ Consistent(Requirements(t))
<1>1. t \in Reachable /\ ~Excluded(t)
  BY DEF Targets
<1>2. PICK D \in {E \in SUBSET Dims : Cardinality(E) = Strength} :
        t \in Over(space, D) /\ Consistent(Requirements(t))
  BY <1>1 DEF Reachable
<1> QED BY <1>1, <1>2, PartialIs

\* With what it requires, a target is held by a row that it extends and by one
\* of its own.
LEMMA NeedsHold ==
  ASSUME request \in Requests, NEW t \in Targets
  PROVE  /\ Within(t, AsPartial(Requirements(t)))
         /\ \A tau : Compatible(tau, t) =>
              Within(t, Extend(tau, AsPartial(Requirements(t))))
<1> DEFINE needs == AsPartial(Requirements(t))
<1>1. \A d \in DOMAIN t : <<d, t[d]>> \in Requirements(t)
  BY DEF Requirements
<1>2. t \in Partials(space) /\ Consistent(Requirements(t))
  BY TargetsAre
<1>3. \A q \in Requirements(t) : q[1] \in DOMAIN needs /\ needs[q[1]] = q[2]
  BY <1>2, NeedsAre
<1>4. \A d \in DOMAIN t : d \in DOMAIN needs /\ needs[d] = t[d]
  <2> SUFFICES ASSUME NEW d \in DOMAIN t
               PROVE  d \in DOMAIN needs /\ needs[d] = t[d]
    OBVIOUS
  <2> DEFINE q == <<d, t[d]>>
  <2>1. q \in Requirements(t) /\ q[1] = d /\ q[2] = t[d]
    BY <1>1
  <2> HIDE DEF q, needs
  <2> QED BY <1>3, <2>1
<1> HIDE DEF needs
<1>5. ASSUME NEW tau, Compatible(tau, t)
      PROVE  Within(t, Extend(tau, needs))
  BY <1>4, <1>5 DEF Compatible, Extend, Within
<1> QED BY <1>4, <1>5 DEF needs, Within

\* A variant cut to some dimensions is an assignment.
LEMMA CombinationsAre ==
  ASSUME request \in Requests, NEW D \in SUBSET Dims
  PROVE  /\ Combinations(D) \subseteq Partials(space)
         /\ \A c \in Combinations(D) : DOMAIN c \subseteq D
         /\ Variants \subseteq Partials(space)
         /\ \A v \in Variants : IsVariant(v)
<1>1. ASSUME NEW v \in Variants
      PROVE  v \in Partials(space) /\ IsVariant(v)
  <2>1. PICK f \in Over(space, Dims) : v = Complete(f)
    BY DEF Variants
  <2>2. f \in Partials(space)
    BY <2>1, PartialIs
  <2> QED BY <2>1, <2>2, CompleteIs
<1>2. ASSUME NEW c \in Combinations(D)
      PROVE  c \in Partials(space) /\ DOMAIN c \subseteq D
  <2>1. PICK v \in Variants : c = [d \in DOMAIN v \cap D |-> v[d]]
    BY DEF Combinations
  <2>2. /\ DOMAIN c = DOMAIN v \cap D /\ c = [d \in DOMAIN c |-> c[d]]
        /\ \A d \in DOMAIN c : c[d] = v[d]
    BY <2>1
  <2>3. \A d \in DOMAIN v : v[d] \in 1..space[d].points
    BY <1>1, PartialIs
  <2> QED BY <2>2, <2>3, PartialIs
<1> QED BY <1>1, <1>2

LEMMA ResolvedIs ==
  ASSUME request \in Requests
  PROVE  Resolved \in {"exhaustive", "t-wise", "base-only"}
BY SpaceFacts DEF Resolved

-----------------------------------------------------------------------------
\* The first invariant: types, and a list of distinct variants no covering one
\* of which is excluded.

Phases == {"seeds", "pins", "listing", "targets", "ordering", "block",
           "across", "down", "completing", "report", "done", "refused"}

Kinds == /\ (phase # "seeds" => strategy # "auto")
         /\ (phase = "listing" => strategy = "exhaustive")
         /\ (phase \in {"across", "down"} => grown < Len(order))

ListedAre == phase = "listing" =>
               \A v \in pending : IsVariant(v) /\ ~Excluded(v)

Inv == TypeOK /\ Kinds /\ Sound(variants) /\ ListedAre

LEMMA InitInv == Init => Inv
<1> SUFFICES ASSUME Init PROVE Inv
  OBVIOUS
<1>1. TypeOK
  BY DEF Init, TypeOK
<1>2. Sound(variants)
  BY DEF Init, Sound
<1> QED BY <1>1, <1>2 DEF Init, Inv, Kinds, ListedAre

\* What the seeds, a pin, a listed variant and a completed row add.
LEMMA SeedsStep ==
  ASSUME Inv, Seed
  PROVE  Inv'
<1>1. TypeOK /\ request' = request
  BY DEF Inv, Seed
<1> DEFINE base == Push(<< >>, Complete(<< >>), "base")
           less == Push(base, Boundary(TRUE), "boundary")
           more == Push(less, Boundary(FALSE), "boundary")
<1>2. << >> \in Seq(VariantRecord) /\ Sound(<< >>)
  BY DEF Sound
<1>3. << >> \in Partials(space)
  <2>1. DOMAIN << >> = {} /\ << >> = [d \in {} |-> << >>[d]]
    OBVIOUS
  <2> QED BY <1>1, <2>1, PartialIs DEF TypeOK
<1>4. base \in Seq(VariantRecord) /\ Sound(base)
  <2>1. Complete(<< >>) \in Partials(space) /\ IsVariant(Complete(<< >>))
    BY <1>1, <1>3, CompleteIs DEF TypeOK
  <2>2. "base" \in Origins /\ "base" # "covering"
    BY DEF Origins
  <2> QED BY <1>1, <1>2, <2>1, <2>2, PushIs, PushSound DEF TypeOK
<1>5. "boundary" \in Origins /\ "boundary" # "covering"
  BY DEF Origins
<1>6. /\ Boundary(TRUE) \in Partials(space) /\ IsVariant(Boundary(TRUE))
      /\ Boundary(FALSE) \in Partials(space) /\ IsVariant(Boundary(FALSE))
  BY <1>1, BoundaryIs DEF TypeOK
<1> HIDE DEF base
<1>7. less \in Seq(VariantRecord) /\ Sound(less)
  BY <1>1, <1>4, <1>5, <1>6, PushIs, PushSound DEF TypeOK
<1> HIDE DEF less
<1>8. more \in Seq(VariantRecord) /\ Sound(more)
  BY <1>1, <1>5, <1>6, <1>7, PushIs, PushSound DEF TypeOK
<1> HIDE DEF more
<1>9. variants' = more \/ variants' = base
  BY DEF Seed, base, less, more
<1>10. variants' \in Seq(VariantRecord) /\ Sound(variants')
  BY <1>4, <1>8, <1>9
<1>11. strategy' \in {"exhaustive", "t-wise", "base-only"} /\ phase' = "pins"
  BY <1>1, ResolvedIs DEF Seed, TypeOK
<1>12. TypeOK'
  BY <1>1, <1>10, <1>11, SameRequest DEF Seed, TypeOK, VariantRecord, Origins
<1> QED BY <1>1, <1>10, <1>11, <1>12, SameRequest DEF Inv, Kinds, ListedAre

LEMMA PinStep ==
  ASSUME Inv, SeedPin
  PROVE  Inv'
<1> DEFINE pin == request.pins[row]
<1>1. /\ TypeOK /\ request' = request /\ request \in Requests
      /\ Sound(variants)
      /\ row \in Nat \ {0} /\ variants \in Seq(VariantRecord)
  BY DEF Inv, SeedPin, TypeOK, VariantRecord, Origins
<1>2. pin \in Partials(space)
  <2>1. row \in 1..Len(request.pins)
    BY <1>1, SpaceFacts DEF SeedPin
  <2> QED BY <1>1, <2>1, SpaceFacts
<1>3. Complete(pin) \in Partials(space) /\ IsVariant(Complete(pin))
  BY <1>1, <1>2, CompleteIs
<1>4. "pinned" \in Origins /\ "pinned" # "covering"
  BY DEF Origins
<1>5. variants' = Push(variants, Complete(pin), "pinned")
  BY DEF SeedPin
<1> HIDE DEF pin
<1>6. variants' \in Seq(VariantRecord) /\ Sound(variants')
  BY <1>1, <1>3, <1>4, <1>5, PushIs, PushSound
<1>7. TypeOK'
  BY <1>1, <1>6, SameRequest DEF SeedPin, TypeOK, VariantRecord, Origins
<1> QED BY <1>1, <1>6, <1>7, SameRequest DEF SeedPin, Inv, Kinds, ListedAre

LEMMA SeededStep ==
  ASSUME Inv, Seeded
  PROVE  Inv'
<1>1. TypeOK /\ request' = request /\ request \in Requests /\ Sound(variants)
      /\ strategy \in {"exhaustive", "t-wise", "base-only"}
      /\ strategy' = strategy /\ variants' = variants
  BY DEF Inv, Seeded, TypeOK, Kinds
<1>2. phase' \in {"listing", "targets", "report"}
      /\ (phase' = "listing" => strategy = "exhaustive")
  BY <1>1 DEF Seeded
<1>3. \A v \in pending' : v \in Partials(space) /\ IsVariant(v) /\ ~Excluded(v)
  BY <1>1, CombinationsAre DEF Seeded
<1>4. TypeOK'
  BY <1>1, <1>2, <1>3, SameRequest DEF Seeded, TypeOK
<1>5. ListedAre'
  BY <1>1, <1>3, SameRequest DEF ListedAre
<1> QED BY <1>1, <1>2, <1>4, <1>5, SameRequest DEF Inv, Kinds

LEMMA ListStep ==
  ASSUME Inv, ListVariant
  PROVE  Inv'
<1>1. /\ TypeOK /\ request' = request /\ request \in Requests
      /\ Sound(variants)
      /\ variants \in Seq(VariantRecord)
  BY DEF Inv, ListVariant, TypeOK, VariantRecord, Origins
<1>2. PICK v \in pending : /\ variants' = Push(variants, v, "covering")
                           /\ pending' = pending \ {v}
  BY DEF ListVariant
<1>3. v \in Partials(space) /\ IsVariant(v) /\ ~Excluded(v)
  BY <1>1 DEF Inv, ListedAre, ListVariant, TypeOK
<1>4. "covering" \in Origins
  BY DEF Origins
<1>5. variants' \in Seq(VariantRecord) /\ Sound(variants')
  BY <1>1, <1>2, <1>3, <1>4, PushIs, PushSound
<1>6. TypeOK'
  BY <1>1, <1>2, <1>5, SameRequest
  DEF ListVariant, TypeOK, VariantRecord, Origins
<1>7. ListedAre'
  BY <1>1, <1>2, SameRequest DEF ListVariant, ListedAre, Inv
<1> QED BY <1>1, <1>5, <1>6, <1>7, SameRequest DEF ListVariant, Inv, Kinds

LEMMA CompleteRowStep ==
  ASSUME Inv, CompleteRow
  PROVE  Inv'
<1>1. /\ TypeOK /\ request' = request /\ request \in Requests
      /\ Sound(variants)
      /\ variants \in Seq(VariantRecord) /\ rows \in Seq(Partials(space))
      /\ rows # << >> /\ rows' = Tail(rows) /\ dropped \in Nat
      /\ phase' = phase /\ phase = "completing"
  BY DEF Inv, CompleteRow, TypeOK, VariantRecord, Origins
<1> DEFINE tau == Head(rows)
<1>2. tau \in Partials(space) /\ rows' \in Seq(Partials(space))
  BY <1>1
<1>3. "covering" \in Origins
  BY DEF Origins
<1>4. \/ variants' = variants
      \/ \E p \in Partials(space) :
           /\ ~Excluded(Complete(p))
           /\ variants' = Push(variants, Complete(p), "covering")
  <2>1. CASE ~Excluded(Complete(tau))
    BY <1>2, <2>1 DEF CompleteRow
  <2>2. ASSUME NEW s \in Substitutes(tau),
               variants' =
                 Push(variants, Complete(With(tau, s[1], s[2])), "covering")
        PROVE  \E p \in Partials(space) :
                 /\ ~Excluded(Complete(p))
                 /\ variants' = Push(variants, Complete(p), "covering")
    <3>1. /\ s[1] \in Dims /\ s[2] \in 1..space[s[1]].points
          /\ ~Excluded(Complete(With(tau, s[1], s[2])))
      BY <1>1, SpaceFacts DEF Substitutes, Points
    <3>2. With(tau, s[1], s[2]) \in Partials(space)
      BY <1>1, <1>2, <3>1, WithIs
    <3> QED BY <2>2, <3>1, <3>2
  <2>3. CASE Excluded(Complete(tau))
    BY <2>2, <2>3 DEF CompleteRow
  <2> QED BY <2>1, <2>3
<1>5. variants' \in Seq(VariantRecord) /\ Sound(variants')
  <2>1. CASE variants' = variants
    BY <1>1, <2>1
  <2>2. ASSUME NEW p \in Partials(space), ~Excluded(Complete(p)),
               variants' = Push(variants, Complete(p), "covering")
        PROVE  variants' \in Seq(VariantRecord) /\ Sound(variants')
    BY <1>1, <1>3, <2>2, CompleteIs, PushIs, PushSound
  <2> QED BY <1>4, <2>1, <2>2
<1>6. dropped' \in Nat
  BY <1>1 DEF CompleteRow
<1>7. TypeOK'
  BY <1>1, <1>2, <1>5, <1>6, SameRequest
  DEF CompleteRow, TypeOK, VariantRecord, Origins
<1> QED BY <1>1, <1>5, <1>7, SameRequest DEF CompleteRow, Inv, Kinds, ListedAre

\* What the type invariant asks of the next state, in terms of this one.
LEMMA TypeNext ==
  ASSUME TypeOK, request' = request, phase' \in Phases, strategy' = strategy,
         order' \in Seq(Dims), pending' \subseteq Partials(space),
         targets' \subseteq Targets, rows' \in Seq(Partials(space)),
         grown' \in Nat, row' \in Nat \ {0}, dropped' \in Nat,
         variants' = variants,
         DOMAIN report' = {"targets", "covered", "removed", "selected"}
  PROVE  TypeOK'
<1>1. variants' \in Seq(VariantRecord)'
  BY SameRequest DEF TypeOK, VariantRecord, Origins
<1>2. /\ request' \in Requests
      /\ strategy' \in {"auto", "exhaustive", "t-wise", "base-only"}
  BY DEF TypeOK
<1>3. /\ order' \in Seq(Dims)' /\ pending' \subseteq Partials(space)'
      /\ targets' \subseteq Targets' /\ rows' \in Seq(Partials(space))'
  BY SameRequest
<1> QED BY <1>1, <1>2, <1>3 DEF TypeOK, Phases, VariantRecord, Origins

\* The steps that build the array leave the variants alone.
LEMMA ArrayStep ==
  ASSUME Inv,
         Listed \/ Enumerate \/ PlaceDimension \/ Ordered \/ TakeCombination
           \/ BlockBuilt \/ GrowAcross \/ GrownAcross \/ GrowDown \/ GrownDown
           \/ Completed \/ Report
  PROVE  Inv'
<1>1. /\ TypeOK /\ request' = request /\ request \in Requests
      /\ variants' = variants /\ strategy' = strategy /\ Sound(variants)
      /\ rows \in Seq(Partials(space)) /\ order \in Seq(Dims)
      /\ grown \in Nat /\ row \in Nat \ {0}
      /\ targets \subseteq Targets /\ pending \subseteq Partials(space)
      /\ dropped \in Nat /\ phase \in Phases
      /\ DOMAIN report = {"targets", "covered", "removed", "selected"}
      /\ Kinds
  BY DEF Phases, Inv, TypeOK, Listed, Enumerate, PlaceDimension, Ordered,
     TakeCombination, BlockBuilt, GrowAcross, GrownAcross, GrowDown, GrownDown,
     Completed, Report
<1>2. Sound(variants)'
  BY <1>1, SameRequest
<1>3. Kinds' /\ ListedAre'
  BY <1>1 DEF Kinds, ListedAre, Listed, Enumerate, PlaceDimension, Ordered,
     TakeCombination, BlockBuilt, GrowAcross, GrownAcross, GrowDown, GrownDown,
     Completed, Report
<1> SUFFICES TypeOK'
  BY <1>2, <1>3 DEF Inv
<1>4. CASE Listed
  BY <1>1, <1>4, TypeNext DEF Listed, Phases
<1>5. CASE Enumerate
  BY <1>1, <1>5, TypeNext DEF Enumerate, Phases
<1>6. CASE PlaceDimension
  BY <1>1, <1>6, TypeNext DEF PlaceDimension, Phases
<1>7. CASE Ordered
  <2>1. \A n \in Nat : n <= Len(order) =>
          {order[i] : i \in 1..n} \in SUBSET Dims
    BY <1>1
  <2>2. (IF Strength <= Len(order) THEN Strength ELSE Len(order)) \in Nat
    BY <1>1, SpaceFacts DEF Strength
  <2>3. pending' \subseteq Partials(space) /\ grown' \in Nat
    BY <1>1, <1>7, <2>1, <2>2, CombinationsAre DEF Ordered
  <2> QED BY <1>1, <1>7, <2>3, TypeNext DEF Ordered, Phases
<1>8. CASE TakeCombination
  <2>1. PICK c \in pending :
          /\ pending' = pending \ {c}
          /\ rows' = rows \/ rows' = Append(rows, c)
    BY <1>8 DEF TakeCombination
  <2>2. rows' \in Seq(Partials(space))
    BY <1>1, <2>1 DEF TypeOK
  <2> QED BY <1>1, <1>8, <2>1, <2>2, TypeNext DEF TakeCombination, Phases
<1>9. CASE BlockBuilt
  BY <1>1, <1>9, TypeNext DEF BlockBuilt, Phases
<1>10. CASE GrowAcross
  <2>1. CASE UNCHANGED <<rows, targets>>
    BY <1>1, <1>10, <2>1, TypeNext DEF GrowAcross, Phases
  <2>2. ASSUME NEW n \in Allowed(rows[row]),
               rows' = [rows EXCEPT ![row] = With(rows[row], Growing, n)],
               targets' \subseteq targets
        PROVE  TypeOK'
    <3>1. row \in DOMAIN rows /\ phase = "across"
      BY <1>1, <1>10 DEF GrowAcross
    <3>2. n \in 1..space[Growing].points
      BY DEF Allowed
    <3>3. Growing \in Dims
      BY <1>1, <3>1 DEF Growing, Kinds
    <3>4. rows[row] \in Partials(space)
      BY <1>1, <3>1
    <3>5. With(rows[row], Growing, n) \in Partials(space)
      BY <1>1, <3>2, <3>3, <3>4, WithIs
    <3>6. rows' \in Seq(Partials(space))
      BY <1>1, <2>2, <3>1, <3>5
    <3> QED BY <1>1, <1>10, <2>2, <3>6, TypeNext DEF GrowAcross, Phases
  <2> QED BY <1>10, <2>1, <2>2 DEF GrowAcross
<1>11. CASE GrownAcross
  <2>1. pending' \subseteq Partials(space)
    BY <1>1, <1>11, TargetsAre DEF GrownAcross, Current
  <2> QED BY <1>1, <1>11, <2>1, TypeNext DEF GrownAcross, Phases
<1>12. CASE GrowDown
  <2>1. PICK t \in pending :
          \/ rows' = rows
          \/ \E i \in DOMAIN rows :
               rows' = [rows EXCEPT ![i] =
                 Extend(rows[i], AsPartial(Requirements(t)))]
          \/ rows' = Append(rows, AsPartial(Requirements(t)))
    BY <1>12 DEF GrowDown
  <2>2. AsPartial(Requirements(t)) \in Partials(space)
    BY <1>1, NeedsAre
  <2>3. rows' \in Seq(Partials(space))
    <3>1. CASE rows' = Append(rows, AsPartial(Requirements(t)))
      BY <1>1, <2>2, <3>1
    <3>2. ASSUME NEW i \in DOMAIN rows,
                 rows' = [rows EXCEPT ![i] =
                   Extend(rows[i], AsPartial(Requirements(t)))]
          PROVE  rows' \in Seq(Partials(space))
      <4>1. rows[i] \in Partials(space)
        BY <1>1
      <4>2. Extend(rows[i], AsPartial(Requirements(t))) \in Partials(space)
        BY <1>1, <2>2, <4>1, ExtendIs
      <4> QED BY <1>1, <3>2, <4>2
    <3> QED BY <1>1, <2>1, <3>1, <3>2
  <2>4. targets' \subseteq targets /\ pending' \subseteq pending
    BY <1>12 DEF GrowDown
  <2> QED BY <1>1, <1>12, <2>3, <2>4, TypeNext DEF GrowDown, Phases
<1>13. CASE GrownDown
  BY <1>1, <1>13, TypeNext DEF GrownDown, Phases
<1>14. CASE Completed
  BY <1>1, <1>14, TypeNext DEF Completed, Phases
<1>15. CASE Report
  <2>1. DOMAIN report' = {"targets", "covered", "removed", "selected"}
    BY <1>1, <1>15 DEF Report, Phases
  <2> QED BY <1>1, <1>15, <2>1, TypeNext DEF Report, Phases
<1> QED
  BY <1>4, <1>5, <1>6, <1>7, <1>8, <1>9, <1>10, <1>11, <1>12, <1>13, <1>14,
     <1>15

LEMMA InvStep == Inv /\ [Next]_vars => Inv'
<1> SUFFICES ASSUME Inv, [Next]_vars PROVE Inv'
  OBVIOUS
<1>1. CASE Next
  BY <1>1, SeedsStep, PinStep, SeededStep, ListStep, CompleteRowStep, ArrayStep
  DEF Next
<1>2. CASE UNCHANGED vars
  <2>1. request' = request /\ variants' = variants
    BY <1>2 DEF vars
  <2>2. TypeOK'
    BY <1>2, TypeNext DEF vars, Inv, TypeOK, Phases
  <2>3. Sound(variants)'
    BY <2>1, SameRequest DEF Inv
  <2>4. Kinds' /\ ListedAre'
    BY <1>2, <2>1, SameRequest DEF vars, Inv, Kinds, ListedAre
  <2> QED BY <2>2, <2>3, <2>4 DEF Inv
<1> QED BY <1>1, <1>2

LEMMA Invariance == Spec => []Inv
<1> QED BY InitInv, InvStep, PTL DEF Spec

\* The list holds variants, the rows assignments, and a next row or dimension
\* is one there is (`select`).
THEOREM TypeCorrect == Spec => []TypeOK
<1>1. Inv => TypeOK
  BY DEF Inv
<1> QED BY <1>1, Invariance, PTL

\* Whatever the space, the policy, the pins and the exclusions, what `select`
\* puts in the list can be produced and is listed once, and no covering variant
\* is an excluded one.
THEOREM OnlyVariants == Spec => []SelectsVariants
<1>1. Inv => SelectsVariants
  BY DEF Inv, Sound, SelectsVariants
<1> QED BY <1>1, Invariance, PTL

-----------------------------------------------------------------------------
\* Exhaustive selections.

\* The variants of a space are the completions of its full assignments: were
\* one not its own completion, the first dimension they disagree on would have
\* a gate whose dimension they disagree on.
LEMMA VariantsAre ==
  ASSUME request \in Requests
  PROVE  Variants = AllVariants
<1>1. Variants \subseteq AllVariants
  BY CombinationsAre DEF AllVariants
<1>2. ASSUME NEW a \in AllVariants
      PROVE  a \in Variants
  <2> DEFINE f == Chosen(space, a)
             A == {e \in Dims : \A g \in space[e].gates : f[g[1]] = g[2]}
             stray == {e \in Dims : e \in A /\ e \notin DOMAIN a}
  <2>1. a \in Partials(space) /\ IsVariant(a)
    BY DEF AllVariants
  <2>2. /\ DOMAIN a \in SUBSET Dims /\ a = [d \in DOMAIN a |-> a[d]]
        /\ \A d \in DOMAIN a : a[d] \in 1..space[d].points
    BY <2>1, PartialIs
  <2>3. /\ DOMAIN f = Dims /\ f = [d \in Dims |-> f[d]]
        /\ \A d \in Dims : f[d] \in 1..space[d].points
        /\ \A d \in DOMAIN a : f[d] = a[d]
    BY <2>2, SpaceFacts DEF Chosen, Dims
  <2>4. f \in Over(space, Dims)
    BY <2>3, PartialIs
  <2>5. Complete(f) = [d \in A |-> f[d]]
    <3>1. Chosen(space, f) = f
      BY <2>3 DEF Chosen, Dims
    <3> HIDE DEF f
    <3> QED BY <3>1 DEF Complete
  <2> HIDE DEF f
  <2>6. DOMAIN a \subseteq A
    BY <2>1, <2>2, <2>3 DEF IsVariant, IsActive
  <2>7. stray = {}
    <3>1. SUFFICES ASSUME stray # {} PROVE FALSE
      OBVIOUS
    <3>2. stray \in SUBSET Nat
      BY SpaceFacts
    <3>3. PICK e \in stray : \A d \in stray : e <= d
      BY <3>1, <3>2, LeastNumber
    <3>4. e \in Dims /\ e \in A /\ ~IsActive(a, e)
      BY <2>1, <3>3 DEF IsVariant
    <3>5. PICK g \in space[e].gates : ~(g[1] \in DOMAIN a /\ a[g[1]] = g[2])
      BY <3>4 DEF IsActive
    <3>6. /\ g[1] \in 1..(e - 1) /\ g[1] \in Dims
          /\ space[g[1]].gates \subseteq space[e].gates
      BY <3>4, SpaceFacts
    <3>7. g[1] \in A /\ f[g[1]] = g[2]
      BY <3>4, <3>6
    <3>8. g[1] \notin DOMAIN a
      BY <3>5, <3>7, <2>3
    <3>9. e <= g[1] /\ e \in Nat
      BY <3>2, <3>3, <3>6, <3>7, <3>8
    <3> QED BY <3>6, <3>9
  <2>8. DOMAIN a = A
    BY <2>6, <2>7
  <2>9. a = [d \in A |-> f[d]]
    <3> HIDE DEF A
    <3> QED BY <2>2, <2>3, <2>8
  <2> QED BY <2>4, <2>5, <2>9 DEF Variants
<1> QED BY <1>1, <1>2

Building == {"block", "across", "down", "completing"}

\* Each variant an exhaustive selection still owes is in the list to go
\* through.
Exhaustive ==
  /\ phase = "listing" => \A a \in Variants :
                            Excluded(a) \/ a \in Selected \/ a \in pending
  /\ phase \in {"targets", "ordering"} \cup Building => strategy = "t-wise"
  /\ phase \in {"report", "done"} /\ strategy = "exhaustive" =>
       \A a \in Variants : Excluded(a) \/ a \in Selected

LEMMA PushSelects ==
  ASSUME variants \in Seq(VariantRecord), NEW a \in Partials(space),
         NEW o \in Origins, variants' = Push(variants, a, o)
  PROVE  Selected' = Selected \cup {a}
<1>1. /\ \A i \in DOMAIN variants :
           i \in DOMAIN variants' /\ variants'[i] = variants[i]
      /\ \A i \in DOMAIN variants' :
           \/ i \in DOMAIN variants /\ variants'[i] = variants[i]
           \/ variants'[i] = [assignment |-> a, origin |-> o]
      /\ \E i \in DOMAIN variants' : variants'[i].assignment = a
  BY PushIs
<1>2. \A i \in DOMAIN variants' : variants'[i].assignment \in Selected \cup {a}
  BY <1>1 DEF Selected
<1>3. \A b \in Selected : \E i \in DOMAIN variants' :
        variants'[i].assignment = b
  BY <1>1 DEF Selected
<1> QED BY <1>1, <1>2, <1>3 DEF Selected

LEMMA ExhaustiveStep ==
  ASSUME Inv, Exhaustive, [Next]_vars
  PROVE  Exhaustive'
<1>1. /\ request' = request /\ request \in Requests
      /\ variants \in Seq(VariantRecord) /\ pending \subseteq Partials(space)
      /\ phase # "seeds" => strategy \in {"exhaustive", "t-wise", "base-only"}
  BY DEF Inv, TypeOK, Kinds, VariantRecord, Origins, Next, vars, Seed, SeedPin,
     Seeded, ListVariant, Listed, Enumerate, PlaceDimension, Ordered,
     TakeCombination, BlockBuilt, GrowAcross, GrownAcross, GrowDown, GrownDown,
     CompleteRow, Completed, Report
<1>2. Variants' = Variants
  <2>1. space' = space /\ Dims' = Dims
    BY <1>1, SameRequest
  <2>2. \A f : Complete(f)' = Complete(f)
    BY <2>1 DEF Complete
  <2> QED BY <2>1, <2>2 DEF Variants
<1>3. CASE Seeded
  <2>1. CASE strategy = "exhaustive"
    BY <1>1, <1>2, <1>3, <2>1, SameRequest DEF Seeded, Exhaustive, Building
  <2>2. CASE strategy # "exhaustive"
    BY <1>1, <1>3, <2>2 DEF Seeded, Exhaustive, Building
  <2> QED BY <2>1, <2>2
<1>4. CASE ListVariant
  <2>1. PICK v \in pending : /\ variants' = Push(variants, v, "covering")
                             /\ pending' = pending \ {v}
    BY <1>4 DEF ListVariant
  <2>2. Selected' = Selected \cup {v}
    BY <1>1, <2>1, PushSelects DEF Origins
  <2> QED BY <1>1, <1>2, <1>4, <2>1, <2>2, SameRequest
          DEF ListVariant, Exhaustive, Building
<1>5. CASE Listed
  <2>1. Selected' = Selected
    BY <1>5 DEF Listed, Selected
  <2> QED BY <1>1, <1>2, <1>5, <2>1, SameRequest
      DEF Listed, Exhaustive, Building
<1>6. CASE Report
  <2>1. Selected' = Selected
    BY <1>6 DEF Report, Selected
  <2> QED BY <1>1, <1>2, <1>6, <2>1, SameRequest
      DEF Report, Exhaustive, Building
<1>7. CASE UNCHANGED vars
  <2>1. Selected' = Selected
    BY <1>7 DEF vars, Selected
  <2> QED BY <1>1, <1>2, <1>7, <2>1, SameRequest DEF vars, Exhaustive
<1>8. CASE Seed \/ SeedPin \/ Enumerate \/ PlaceDimension \/ Ordered
             \/ TakeCombination \/ BlockBuilt \/ GrowAcross \/ GrownAcross
             \/ GrowDown \/ GrownDown \/ CompleteRow \/ Completed
  BY <1>1, <1>8 DEF Exhaustive, Building, Seed, SeedPin, Enumerate,
     PlaceDimension, Ordered, TakeCombination, BlockBuilt, GrowAcross,
     GrownAcross, GrowDown, GrownDown, CompleteRow, Completed
<1> QED BY <1>3, <1>4, <1>5, <1>6, <1>7, <1>8 DEF Next

LEMMA Exhausting == Spec => []Exhaustive
<1>1. Init => Exhaustive
  BY DEF Init, Exhaustive, Building
<1>2. Inv /\ Exhaustive /\ [Next]_vars => Exhaustive'
  BY ExhaustiveStep
<1> QED BY <1>1, <1>2, Invariance, PTL DEF Spec

\* Whatever gates the dimensions of the space have, an exhaustive selection
\* ends with every variant no exclusion takes out (`enumerate_all`).
THEOREM ExhaustiveIsComplete == Spec => []NothingLeftOut
<1>1. Inv /\ Exhaustive => NothingLeftOut
  BY VariantsAre DEF Inv, TypeOK, Exhaustive, NothingLeftOut
<1> QED BY <1>1, Invariance, Exhausting, PTL

-----------------------------------------------------------------------------
\* Covering arrays, whatever gates the dimensions; and what is left of them by
\* completion in spaces in which nothing is gated.

Flat == \A d \in Dims : space[d].gates = {}

Taken(n) == {order[i] : i \in 1..n}

Block == IF Strength <= Len(order) THEN Strength ELSE Len(order)

\* What the rows give points to: the dimensions grown over, and the growing one
\* in the rows that have been through it.
Shape ==
  /\ phase \in {"seeds", "pins", "targets", "ordering"} => rows = << >>
  /\ \A i, j \in DOMAIN order : order[i] = order[j] => i = j
  /\ \A i \in DOMAIN order : \A g \in space[order[i]].gates :
       \E j \in 1..(i - 1) : order[j] = g[1]
  /\ phase \in Building => Placed = Dims
  /\ phase = "block" => /\ grown = Block
                        /\ \A i \in DOMAIN rows :
                             DOMAIN rows[i] \subseteq Taken(grown)
                        /\ \A c \in pending : DOMAIN c \subseteq Taken(grown)
  /\ phase \in {"across", "down"} => grown < Len(order)
  /\ phase = "across" =>
       \A i \in DOMAIN rows :
         /\ DOMAIN rows[i] \subseteq Taken(grown + 1)
         /\ i >= row => DOMAIN rows[i] \subseteq Taken(grown)
  /\ phase = "down" =>
       /\ \A i \in DOMAIN rows : DOMAIN rows[i] \subseteq Taken(grown + 1)
       /\ \A t \in pending : t \in Targets /\ DOMAIN t \subseteq Taken(grown + 1)
  /\ phase = "completing" => grown = Len(order)
  /\ phase \in {"seeds", "pins", "targets", "ordering", "block", "across", "down"} =>
       dropped = 0

Exercised(t) == \E v \in Selected : Within(t, v)

Held(t) == \/ dropped > 0
           \/ Exercised(t)
           \/ \E i \in DOMAIN rows : Within(t, rows[i])

\* Where a target is until the array is complete: still to be covered, or held.
Accounted ==
  /\ phase \in {"ordering", "block", "across", "down"} =>
       \A t \in Targets : Held(t) \/ t \in targets
  /\ phase = "block" =>
       \A t \in targets : DOMAIN t = Taken(grown) => Held(t) \/ t \in pending
  /\ phase \in {"across", "down"} =>
       \A t \in targets : DOMAIN t \subseteq Taken(grown) => Held(t)
  /\ phase = "down" =>
       \A t \in targets : DOMAIN t \subseteq Taken(grown + 1) => Held(t) \/ t \in pending
  /\ phase = "completing" /\ Flat => \A t \in Targets : Held(t)
  /\ phase \in {"report", "done"} /\ strategy = "t-wise" /\ Flat =>
       \A t \in Targets : dropped > 0 \/ Exercised(t)

LEMMA WithinTransitive ==
  ASSUME NEW p, NEW q, NEW r, Within(p, q), Within(q, r)
  PROVE  Within(p, r)
BY DEF Within

\* A target is a combination of its dimensions: some variant holds it.
LEMMA TargetCombines ==
  ASSUME request \in Requests, NEW t \in Targets
  PROVE  t \in Combinations(DOMAIN t)
<1> DEFINE R == Requirements(t)
           needs == AsPartial(R)
           f == Chosen(space, needs)
           A == {e \in Dims : \A g \in space[e].gates : f[g[1]] = g[2]}
<1>1. t \in Partials(space) /\ Consistent(R)
  BY TargetsAre
<1>2. /\ DOMAIN t \in SUBSET Dims /\ t = [d \in DOMAIN t |-> t[d]]
      /\ needs \in Partials(space)
      /\ \A q \in R : q[1] \in DOMAIN needs /\ needs[q[1]] = q[2]
  <2>1. DOMAIN t \in SUBSET Dims /\ t = [d \in DOMAIN t |-> t[d]]
    BY <1>1, PartialIs
  <2>2. /\ needs \in Partials(space)
        /\ DOMAIN needs = {q[1] : q \in R}
        /\ \A q \in R : needs[q[1]] = q[2]
    BY <1>1, NeedsAre
  <2> HIDE DEF R, needs
  <2> QED BY <2>1, <2>2
<1>3. \A d \in DOMAIN t : d \in DOMAIN needs /\ needs[d] = t[d]
  BY NeedsHold DEF Within
<1> HIDE DEF R, needs
<1>4. /\ DOMAIN f = Dims /\ f = [d \in Dims |-> f[d]]
      /\ \A d \in Dims : f[d] \in 1..space[d].points
      /\ \A d \in DOMAIN needs : d \in Dims /\ f[d] = needs[d]
  BY <1>2, SpaceFacts, PartialIs DEF Chosen, Dims
<1>5. f \in Over(space, Dims)
  BY <1>4, PartialIs
<1>6. Chosen(space, f) = f
  BY <1>4 DEF Chosen, Dims
<1>7. \A d \in DOMAIN t : d \in A /\ f[d] = t[d]
  <2> SUFFICES ASSUME NEW d \in DOMAIN t PROVE d \in A /\ f[d] = t[d]
    OBVIOUS
  <2>1. \A g \in space[d].gates : g \in R
    BY DEF R, Requirements
  <2> HIDE DEF f
  <2>2. \A g \in space[d].gates : f[g[1]] = g[2]
    BY <1>2, <1>4, <2>1
  <2> QED BY <1>2, <1>3, <1>4, <2>2
<1> HIDE DEF f
<1>8. Complete(f) = [d \in A |-> f[d]]
  BY <1>6 DEF Complete
<1>9. Complete(f) \in Variants
  BY <1>5 DEF Variants
<1>10. t = [d \in DOMAIN Complete(f) \cap DOMAIN t |-> Complete(f)[d]]
  <2> HIDE DEF A
  <2>1. DOMAIN Complete(f) \cap DOMAIN t = DOMAIN t
    BY <1>7, <1>8
  <2>2. \A d \in DOMAIN t : Complete(f)[d] = t[d]
    BY <1>7, <1>8
  <2> QED BY <1>2, <2>1, <2>2
<1> QED BY <1>9, <1>10 DEF Combinations

\* The first dimensions of an order of distinct ones.
LEMMA TakenIs ==
  ASSUME order \in Seq(Dims), NEW n \in Nat, n <= Len(order)
  PROVE  /\ IsFiniteSet(Taken(n)) /\ Cardinality(Taken(n)) <= n
         /\ Taken(n) \subseteq Dims
         /\ n < Len(order) => Taken(n + 1) = Taken(n) \cup {order[n + 1]}
         /\ Placed = Taken(Len(order))
<1> DEFINE f == [i \in 1..n |-> order[i]]
<1>1. f \in Surjection(1..n, Taken(n))
  BY DEF Surjection, Taken
<1>2. IsFiniteSet(1..n) /\ Cardinality(1..n) = n
  <2>1. 1 \in Int /\ n \in Int
    OBVIOUS
  <2>2. /\ IsFiniteSet(1..n)
        /\ Cardinality(1..n) = IF 1 > n THEN 0 ELSE n - 1 + 1
    BY <2>1, FS_Interval
  <2> QED BY <2>2
<1>3. IsFiniteSet(Taken(n)) /\ Cardinality(Taken(n)) <= n
  BY <1>1, <1>2, FS_Surjection
<1>4. Taken(n) \subseteq Dims /\ Placed = Taken(Len(order))
  BY DEF Taken, Placed
<1>5. n < Len(order) => Taken(n + 1) = Taken(n) \cup {order[n + 1]}
  BY DEF Taken
<1> QED BY <1>3, <1>4, <1>5

\* A dimension is taken after those that gate it.
LEMMA TakenClosed ==
  ASSUME request \in Requests, order \in Seq(Dims), Shape,
         NEW n \in Nat, n <= Len(order), NEW d \in Taken(n), NEW g \in space[d].gates
  PROVE  g[1] \in Taken(n)
<1>1. PICK i \in 1..n : d = order[i]
  BY DEF Taken
<1>2. i \in DOMAIN order
  OBVIOUS
<1>3. PICK j \in 1..(i - 1) : order[j] = g[1]
  BY <1>1, <1>2 DEF Shape
<1> QED BY <1>3 DEF Taken

\* So is all that a target of taken dimensions requires.
LEMMA NeedsTaken ==
  ASSUME request \in Requests, order \in Seq(Dims), Shape,
         NEW n \in Nat, n <= Len(order), NEW t \in Targets, DOMAIN t \subseteq Taken(n)
  PROVE  DOMAIN AsPartial(Requirements(t)) \subseteq Taken(n)
<1>1. DOMAIN AsPartial(Requirements(t)) = {q[1] : q \in Requirements(t)}
  BY TargetsAre, NeedsAre
<1>2. ASSUME NEW q \in Requirements(t) PROVE q[1] \in Taken(n)
  <2>1. CASE \E d \in DOMAIN t : q = <<d, t[d]>>
    BY <2>1
  <2>2. CASE \E d \in DOMAIN t : q \in space[d].gates
    BY <2>2, TakenClosed
  <2> QED BY <2>1, <2>2 DEF Requirements
<1> QED BY <1>1, <1>2

LEMMA ShapeStep ==
  ASSUME Inv, Shape, Next
  PROVE  Shape'
<1>1. /\ request' = request /\ request \in Requests
      /\ order \in Seq(Dims) /\ grown \in Nat /\ row \in Nat \ {0}
      /\ rows \in Seq(Partials(space))
      /\ targets \subseteq Targets
      /\ \/ dropped' = dropped
         \/ phase = "completing" /\ phase' = "completing"
  BY DEF Inv, TypeOK, Next, Seed, SeedPin,
     Seeded, ListVariant, Listed, Enumerate, PlaceDimension, Ordered,
     TakeCombination, BlockBuilt, GrowAcross, GrownAcross, GrowDown, GrownDown,
     CompleteRow, Completed, Report
<1>2. /\ Dims' = Dims /\ Strength \in Nat /\ Strength' = Strength
      /\ space' = space /\ Targets' = Targets
  BY <1>1, SameRequest, SpaceFacts DEF Strength
<1>3. order' = order => /\ Placed' = Placed /\ Block' = Block
                        /\ \A n \in Nat : Taken(n)' = Taken(n)
  BY <1>2 DEF Placed, Block, Taken
<1>4. CASE Seed \/ SeedPin \/ Seeded \/ ListVariant \/ Listed \/ Enumerate
             \/ Completed \/ Report
  <2>1. order' = order /\ rows' = rows /\ dropped' = dropped
    BY <1>4
    DEF Seed, SeedPin, Seeded, ListVariant, Listed, Enumerate, Completed,
       Report
  <2>2. phase = "pins" => strategy \in {"exhaustive", "t-wise", "base-only"}
    BY DEF Inv, TypeOK, Kinds
  <2>3. /\ phase' \notin Building
        /\ phase' \in {"pins", "targets", "ordering"} =>
             phase \in {"seeds", "pins", "targets"}
        /\ phase' # "seeds"
    BY <1>4, <2>2 DEF Building, Seed, SeedPin, Seeded, ListVariant, Listed,
       Enumerate, Completed, Report
  <2> QED BY <1>2, <2>1, <2>3 DEF Shape, Building
<1>5. CASE PlaceDimension
  <2>1. PICK d \in Dims \ Placed : /\ order' = Append(order, d)
                                   /\ \A g \in space[d].gates : g[1] \in Placed
    BY <1>5 DEF PlaceDimension
  <2>2. \A i \in DOMAIN order : order[i] # d
    BY <2>1 DEF Placed
  <2>3. /\ DOMAIN order' = 1..(Len(order) + 1) /\ DOMAIN order = 1..Len(order)
        /\ Len(order) \in Nat
        /\ \A i \in 1..Len(order) : order'[i] = order[i]
        /\ order'[Len(order) + 1] = d
    BY <1>1, <2>1
  <2>4. \A i, j \in DOMAIN order' : order'[i] = order'[j] => i = j
    BY <2>2, <2>3 DEF Shape
  <2>5. \A i \in DOMAIN order' : \A g \in space[order'[i]].gates :
          \E j \in 1..(i - 1) : order'[j] = g[1]
    <3>1. \A i \in DOMAIN order : \A g \in space[order[i]].gates :
            \E j \in 1..(i - 1) : order'[j] = g[1]
      BY <2>3 DEF Shape
    <3>2. \A g \in space[d].gates : \E j \in 1..Len(order) : order'[j] = g[1]
      BY <2>1, <2>3 DEF Placed
    <3> QED BY <2>3, <3>1, <3>2
  <2> QED BY <1>1, <1>2, <1>5, <2>4, <2>5 DEF Shape, Building, PlaceDimension
<1>6. CASE Ordered
  <2>1. /\ rows' = << >> /\ grown' = Block /\ Placed = Dims /\ order' = order
        /\ phase' = "block"
    BY <1>6 DEF Shape, Ordered, Block
  <2>2. pending' = Combinations(Taken(Block))
    BY <1>6 DEF Ordered, Block, Taken
  <2>3. Block \in Nat /\ Block <= Len(order)
    BY <1>1, <1>2 DEF Block
  <2>4. \A c \in pending' : DOMAIN c \subseteq Taken(Block)
    BY <1>1, <2>2, <2>3, TakenIs, CombinationsAre
  <2> QED BY <1>1, <1>2, <1>3, <1>6, <2>1, <2>3, <2>4 DEF Shape, Building, Ordered
<1>7. CASE TakeCombination
  <2>1. /\ phase = "block" /\ phase' = "block" /\ order' = order
        /\ grown' = grown
    BY <1>7 DEF TakeCombination
  <2>2. PICK c \in pending : /\ pending' = pending \ {c}
                             /\ rows' = rows \/ rows' = Append(rows, c)
    BY <1>7 DEF TakeCombination
  <2>3. \A i \in DOMAIN rows' :
          (i \in DOMAIN rows /\ rows'[i] = rows[i]) \/ rows'[i] = c
    BY <1>1, <2>2
  <2>4. \A i \in DOMAIN rows' : DOMAIN rows'[i] \subseteq Taken(grown)
    BY <2>1, <2>2, <2>3 DEF Shape
  <2> QED BY <1>1, <1>2, <1>3, <2>1, <2>2, <2>4 DEF Shape, Building
<1>8. CASE BlockBuilt
  <2>1. /\ phase = "block" /\ order' = order /\ grown' = grown /\ rows' = rows
        /\ phase' = IF grown < Len(order) THEN "across" ELSE "completing"
    BY <1>8 DEF BlockBuilt
  <2>2. grown <= Len(order) /\ Len(order) \in Nat
    BY <1>1, <1>2, <2>1 DEF Shape, Block
  <2>3. grown < Len(order) => Taken(grown) \subseteq Taken(grown + 1)
    BY <1>1, <2>2, TakenIs
  <2> QED BY <1>1, <1>2, <1>3, <2>1, <2>2, <2>3 DEF Shape, Building
<1>9. CASE GrowAcross
  <2>1. /\ phase = "across" /\ phase' = "across" /\ order' = order
        /\ grown' = grown
        /\ row \in DOMAIN rows /\ row' = row + 1
    BY <1>1, <1>9 DEF GrowAcross
  <2>2. \/ rows' = rows
        \/ \E n : rows' = [rows EXCEPT ![row] = With(rows[row], Growing, n)]
    BY <1>9 DEF GrowAcross
  <2>3. /\ grown < Len(order) /\ Len(order) \in Nat
        /\ Taken(grown + 1) = Taken(grown) \cup {Growing}
    BY <1>1, <2>1, TakenIs DEF Shape, Growing
  <2>4. \A n : DOMAIN With(rows[row], Growing, n) \subseteq Taken(grown + 1)
    BY <2>1, <2>3, <1>1 DEF Shape, With
  <2>5. /\ DOMAIN rows' = DOMAIN rows
        /\ \A i \in DOMAIN rows' :
             /\ DOMAIN rows'[i] \subseteq Taken(grown + 1)
             /\ i >= row + 1 => DOMAIN rows'[i] \subseteq Taken(grown)
    <3>1. CASE rows' = rows
      BY <1>1, <2>1, <3>1 DEF Shape
    <3>2. ASSUME NEW n, rows' = [rows EXCEPT ![row] =
                   With(rows[row], Growing, n)]
          PROVE  /\ DOMAIN rows' = DOMAIN rows
                 /\ \A i \in DOMAIN rows' :
                      /\ DOMAIN rows'[i] \subseteq Taken(grown + 1)
                      /\ i >= row + 1 => DOMAIN rows'[i] \subseteq Taken(grown)
      <4>1. DOMAIN rows' = DOMAIN rows
        BY <3>2
      <4>2. ASSUME NEW i \in DOMAIN rows, i # row
            PROVE  rows'[i] = rows[i]
        BY <3>2, <4>2
      <4>3. rows'[row] = With(rows[row], Growing, n)
        BY <3>2, <2>1
      <4> QED BY <4>1, <4>2, <4>3, <2>1, <2>4, <1>1 DEF Shape
    <3> QED BY <2>2, <3>1, <3>2
  <2> QED BY <1>1, <1>2, <1>3, <2>1, <2>3, <2>5 DEF Shape, Building
<1>10. CASE GrownAcross
  <2>1. /\ phase = "across" /\ phase' = "down" /\ order' = order /\ rows' = rows
        /\ grown' = grown /\ dropped' = dropped /\ pending' = Current
    BY <1>10 DEF GrownAcross
  <2>2. \A t \in pending' : t \in Targets /\ DOMAIN t \subseteq Taken(grown + 1)
    BY <1>1, <2>1 DEF Current, Taken
  <2> QED BY <1>1, <1>2, <1>3, <2>1, <2>2 DEF Shape, Building
<1>11. CASE GrowDown
  <2>1. /\ phase = "down" /\ phase' = "down" /\ order' = order
        /\ grown' = grown /\ pending' \subseteq pending /\ dropped' = dropped
    BY <1>11 DEF GrowDown
  <2>2. PICK t \in pending :
          \/ rows' = rows
          \/ \E i \in DOMAIN rows :
               rows' = [rows EXCEPT ![i] =
                 Extend(rows[i], AsPartial(Requirements(t)))]
          \/ rows' = Append(rows, AsPartial(Requirements(t)))
    BY <1>11 DEF GrowDown
  <2>3. t \in Targets /\ DOMAIN t \subseteq Taken(grown + 1)
    BY <2>1, <2>2 DEF Shape
  <2>4. DOMAIN AsPartial(Requirements(t)) \subseteq Taken(grown + 1)
    <3>1. grown + 1 \in Nat /\ grown + 1 <= Len(order)
      BY <1>1, <2>1 DEF Shape
    <3> QED BY <1>1, <2>3, <3>1, NeedsTaken
  <2> DEFINE needs == AsPartial(Requirements(t))
  <2> HIDE DEF needs
  <2>5. \A i \in DOMAIN rows' : DOMAIN rows'[i] \subseteq Taken(grown + 1)
    <3>1. CASE rows' = Append(rows, AsPartial(Requirements(t)))
      <4>1. \A i \in DOMAIN rows' :
              (i \in DOMAIN rows /\ rows'[i] = rows[i]) \/ rows'[i] = needs
        BY <1>1, <3>1 DEF needs
      <4> QED BY <4>1, <2>1, <2>4 DEF Shape, needs
    <3>2. ASSUME NEW j \in DOMAIN rows,
                 rows' = [rows EXCEPT ![j] =
                   Extend(rows[j], AsPartial(Requirements(t)))]
          PROVE  \A i \in DOMAIN rows' :
                   DOMAIN rows'[i] \subseteq Taken(grown + 1)
      <4>1. \A i \in DOMAIN rows' :
              /\ i \in DOMAIN rows
              /\ \/ rows'[i] = rows[i]
                 \/ i = j /\ rows'[i] = Extend(rows[j], needs)
        BY <1>1, <3>2 DEF needs
      <4>2. DOMAIN Extend(rows[j], needs) \subseteq Taken(grown + 1)
        BY <2>1, <2>4, <3>2 DEF Shape, Extend, needs
      <4> QED BY <4>1, <4>2, <2>1 DEF Shape
    <3>3. CASE rows' = rows
      BY <2>1, <3>3 DEF Shape
    <3> QED BY <2>2, <3>1, <3>2, <3>3
  <2> QED BY <1>1, <1>2, <1>3, <2>1, <2>5 DEF Shape, Building
<1>12. CASE GrownDown
  <2>1. /\ phase = "down" /\ order' = order /\ grown' = grown + 1
        /\ rows' = rows
        /\ phase' = IF grown + 1 < Len(order) THEN "across" ELSE "completing"
    BY <1>12 DEF GrownDown
  <2>2. grown + 1 <= Len(order) /\ Len(order) \in Nat /\ grown + 1 \in Nat
    BY <1>1, <2>1 DEF Shape
  <2>3. grown + 1 < Len(order) =>
          Taken(grown + 1) \subseteq Taken((grown + 1) + 1)
    <3> DEFINE g == grown + 1
    <3>1. g \in Nat /\ g <= Len(order)
      BY <2>2
    <3> HIDE DEF g
    <3>2. g < Len(order) => Taken(g) \subseteq Taken(g + 1)
      BY <1>1, <3>1, TakenIs
    <3> QED BY <3>2 DEF g
  <2>4. \A i \in DOMAIN rows : DOMAIN rows[i] \subseteq Taken(grown + 1)
    BY <2>1 DEF Shape
  <2>5. /\ Taken(grown)' = Taken(grown + 1)
        /\ Taken(grown + 1)' = Taken((grown + 1) + 1)
    BY <2>1 DEF Taken
  <2>6. Placed' = Placed /\ Placed = Dims
    BY <1>3, <2>1 DEF Shape, Building
  <2> QED BY <1>1, <1>2, <2>1, <2>2, <2>3, <2>4, <2>5, <2>6 DEF Shape, Building
<1>13. CASE CompleteRow
  BY <1>1, <1>2, <1>3, <1>13 DEF Shape, Building, CompleteRow
<1> QED BY <1>4, <1>5, <1>6, <1>7, <1>8, <1>9, <1>10, <1>11, <1>12, <1>13
    DEF Next

\* A target stays held while rows only gain points or become variants.
LEMMA HeldKept ==
  ASSUME Selected \subseteq Selected', dropped \in Nat, dropped' \in Nat,
         dropped <= dropped',
         \A i \in DOMAIN rows : \/ dropped' > 0
                                \/ \E v \in Selected' : Within(rows[i], v)
                                \/ \E j \in DOMAIN rows' :
                                     Within(rows[i], rows'[j])
  PROVE  \A t : (Exercised(t) => Exercised(t)') /\ (Held(t) => Held(t)')
<1>1. ASSUME NEW t, Exercised(t)
      PROVE  Exercised(t)'
  BY <1>1 DEF Exercised, Within
<1>2. ASSUME NEW t, Held(t)
      PROVE  Held(t)'
  <2>1. CASE dropped > 0
    BY <2>1 DEF Held
  <2>2. CASE Exercised(t)
    BY <1>1, <2>2 DEF Held
  <2>3. ASSUME NEW i \in DOMAIN rows, Within(t, rows[i])
        PROVE  Held(t)'
    <3>1. CASE dropped' > 0
      BY <3>1 DEF Held
    <3>2. ASSUME NEW v \in Selected', Within(rows[i], v)
          PROVE  Held(t)'
      <4>1. Within(t, v)
        BY <2>3, <3>2, WithinTransitive
      <4>2. Exercised(t)'
        BY <3>2, <4>1 DEF Exercised, Within
      <4> QED BY <4>2 DEF Held
    <3>3. ASSUME NEW j \in DOMAIN rows', Within(rows[i], rows'[j])
          PROVE  Held(t)'
      <4>1. Within(t, rows'[j])
        BY <2>3, <3>3, WithinTransitive
      <4> QED BY <3>3, <4>1 DEF Held, Within
    <3> QED BY <3>1, <3>2, <3>3
  <2> QED BY <1>2, <2>1, <2>2, <2>3 DEF Held
<1> QED BY <1>1, <1>2

LEMMA WithinItself == ASSUME NEW p PROVE Within(p, p)
BY DEF Within

\* The block holds every target it is made of.
LEMMA BlockHolds ==
  ASSUME Inv, Shape, Accounted, phase = "block", pending = {},
         NEW t \in targets, DOMAIN t \subseteq Taken(grown)
  PROVE  Held(t)
<1>1. /\ request \in Requests /\ order \in Seq(Dims) /\ targets \subseteq Targets
      /\ Len(order) \in Nat
  BY DEF Inv, TypeOK
<1>2. Strength \in Nat
  BY <1>1, SpaceFacts DEF Strength
<1>3. grown = Block /\ grown <= Len(order) /\ grown <= Strength /\ grown \in Nat
  BY <1>1, <1>2 DEF Shape, Block
<1>4. /\ IsFiniteSet(Taken(grown)) /\ Cardinality(Taken(grown)) <= grown
  BY <1>1, <1>3, TakenIs
<1>5. Cardinality(DOMAIN t) = Strength
  BY <1>1, TargetsAre
<1>6. /\ Cardinality(DOMAIN t) <= Cardinality(Taken(grown))
      /\ Cardinality(Taken(grown)) = Cardinality(DOMAIN t) => Taken(grown) = DOMAIN t
  BY <1>4, FS_Subset
<1>7. Cardinality(Taken(grown)) \in Nat
  BY <1>4, FS_CardinalityType
<1>8. DOMAIN t = Taken(grown)
  BY <1>2, <1>3, <1>4, <1>5, <1>6, <1>7
<1> QED BY <1>8 DEF Accounted

\* When the last dimension is grown over, every target is held.
LEMMA PlacedAtEnd ==
  ASSUME Inv, Shape, Accounted, BlockBuilt \/ GrownDown, phase' = "completing"
  PROVE  \A t \in Targets : Held(t)
<1>1. /\ request \in Requests /\ order \in Seq(Dims) /\ grown \in Nat
      /\ targets \subseteq Targets /\ Len(order) \in Nat
      /\ phase \in {"block", "down"} /\ Strength \in Nat
  BY SpaceFacts DEF Inv, TypeOK, BlockBuilt, GrownDown, Strength
<1>2. Taken(Len(order)) = Dims
  BY <1>1, TakenIs DEF Shape, Building
<1>3. SUFFICES ASSUME NEW t \in targets PROVE Held(t)
  BY <1>1 DEF Accounted
<1>4. DOMAIN t \subseteq Taken(Len(order))
  BY <1>1, <1>2, TargetsAre, PartialIs
<1>5. CASE BlockBuilt
  <2>1. phase = "block" /\ pending = {} /\ ~(grown < Len(order))
    BY <1>5 DEF BlockBuilt
  <2>2. grown = Len(order)
    BY <1>1, <2>1 DEF Shape, Block
  <2> QED BY <1>4, <2>1, <2>2, BlockHolds
<1>6. CASE GrownDown
  <2>1. phase = "down" /\ pending = {} /\ ~(grown + 1 < Len(order))
    BY <1>6 DEF GrownDown
  <2>2. grown + 1 = Len(order)
    BY <1>1, <2>1 DEF Shape
  <2> QED BY <1>4, <2>1, <2>2 DEF Accounted
<1> QED BY <1>1, <1>5, <1>6 DEF BlockBuilt, GrownDown

\* Once the current targets are gone the rows hold those of one more dimension.
LEMMA AccountedBlock ==
  ASSUME Inv, Shape, Accounted, Enumerate \/ PlaceDimension \/ Ordered
           \/ TakeCombination \/ BlockBuilt
  PROVE  Accounted'
<1>1. /\ request' = request /\ request \in Requests
      /\ order \in Seq(Dims) /\ grown \in Nat
      /\ rows \in Seq(Partials(space)) /\ targets \subseteq Targets
      /\ variants' = variants /\ dropped' = dropped /\ dropped \in Nat
      /\ strategy' = strategy
  BY DEF Inv, TypeOK, Enumerate, PlaceDimension, Ordered, TakeCombination,
     BlockBuilt
<1>2. Targets' = Targets /\ Selected' = Selected
  BY <1>1, SameRequest DEF Selected
<1>3. \A t : Exercised(t)' <=> Exercised(t)
  BY <1>2 DEF Exercised, Within
<1>4. rows' = rows => \A t : Held(t)' <=> Held(t)
  BY <1>1, <1>3 DEF Held, Within
<1>5. CASE Enumerate
  <2>1. \A t \in Targets : Exercised(t) \/ t \in targets'
    BY <1>5 DEF Enumerate, CoveredBy, Exercised
  <2>2. /\ rows' = rows /\ phase' \in {"report", "ordering"}
        /\ phase' = "report" => targets' = {}
    BY <1>5 DEF Enumerate
  <2> QED BY <1>2, <1>3, <2>1, <2>2 DEF Accounted, Held
<1>6. CASE PlaceDimension
  <2>1. /\ phase = "ordering" /\ phase' = "ordering"
        /\ rows' = rows /\ targets' = targets
    BY <1>6 DEF PlaceDimension
  <2> QED BY <1>2, <1>4, <2>1 DEF Accounted
<1>7. CASE Ordered
  <2>1. /\ phase = "ordering" /\ phase' = "block" /\ rows' = rows
        /\ targets' = targets /\ order' = order /\ grown' = Block
        /\ pending' = Combinations(Taken(Block))
    BY <1>7 DEF Ordered, Block, Taken
  <2>2. Block \in Nat /\ Block <= Len(order)
    BY <1>1, SpaceFacts DEF Block, Strength
  <2>3. Taken(grown)' = Taken(Block)
    BY <2>1 DEF Taken
  <2>4. ASSUME NEW t \in targets, DOMAIN t = Taken(Block)
        PROVE  t \in pending'
    BY <1>1, <2>1, <2>4, TargetCombines
  <2> QED BY <1>2, <1>4, <2>1, <2>3, <2>4 DEF Accounted
<1>8. CASE TakeCombination
  <2>1. /\ phase = "block" /\ phase' = "block" /\ order' = order
        /\ grown' = grown /\ targets' = targets
    BY <1>8 DEF TakeCombination
  <2>2. PICK c \in pending :
          /\ pending' = pending \ {c}
          /\ rows' = IF Excluded(c) \/ \E v \in Selected : Within(c, v)
                     THEN rows ELSE Append(rows, c)
    BY <1>8 DEF TakeCombination
  <2>3. \A t : Held(t) => Held(t)'
    <3>1. \A i \in DOMAIN rows : i \in DOMAIN rows' /\ rows'[i] = rows[i]
      BY <1>1, <2>2
    <3> QED BY <1>1, <1>2, <3>1, HeldKept, WithinItself
  <2>4. ~Excluded(c) => Held(c)'
    <3>1. CASE \E v \in Selected : Within(c, v)
      BY <1>3, <3>1 DEF Held, Exercised
    <3>2. CASE ~Excluded(c) /\ ~ \E v \in Selected : Within(c, v)
      <4>1. Len(rows) + 1 \in DOMAIN rows' /\ rows'[Len(rows) + 1] = c
        BY <1>1, <2>2, <3>2
      <4> QED BY <4>1, WithinItself DEF Held, Within
    <3> QED BY <3>1, <3>2
  <2>5. Taken(grown)' = Taken(grown)
    BY <2>1 DEF Taken
  <2>6. \A t \in targets : ~Excluded(t)
    BY <1>1, TargetsAre
  <2> QED BY <1>2, <2>1, <2>2, <2>3, <2>4, <2>5, <2>6 DEF Accounted
<1>9. CASE BlockBuilt
  <2>1. /\ phase = "block" /\ pending = {} /\ rows' = rows
        /\ targets' = targets
        /\ order' = order /\ grown' = grown
        /\ phase' = IF grown < Len(order) THEN "across" ELSE "completing"
    BY <1>9 DEF BlockBuilt
  <2>2. \A t \in targets : DOMAIN t \subseteq Taken(grown) => Held(t)
    BY <2>1, BlockHolds
  <2>3. Taken(grown)' = Taken(grown)
    BY <2>1 DEF Taken
  <2>4. phase' = "completing" => \A t \in Targets : Held(t)
    BY <1>9, PlacedAtEnd
  <2> QED BY <1>2, <1>4, <2>1, <2>2, <2>3, <2>4 DEF Accounted
<1> QED BY <1>5, <1>6, <1>7, <1>8, <1>9

LEMMA AccountedGrowth ==
  ASSUME Inv, Shape, Accounted, GrowAcross \/ GrownAcross
           \/ GrowDown \/ GrownDown
  PROVE  Accounted'
<1>1. /\ request' = request /\ request \in Requests
      /\ order \in Seq(Dims) /\ grown \in Nat /\ row \in Nat \ {0}
      /\ rows \in Seq(Partials(space)) /\ targets \subseteq Targets
      /\ variants' = variants /\ dropped' = dropped /\ dropped \in Nat
      /\ strategy' = strategy /\ order' = order
      /\ phase \in {"across", "down"}
  BY DEF Inv, TypeOK, GrowAcross, GrownAcross, GrowDown, GrownDown
<1>2. Targets' = Targets /\ Selected' = Selected
  BY <1>1, SameRequest DEF Selected
<1>3. \A t : Exercised(t)' <=> Exercised(t)
  BY <1>2 DEF Exercised, Within
<1>4. rows' = rows => \A t : Held(t)' <=> Held(t)
  BY <1>1, <1>3 DEF Held, Within
<1>5. /\ grown < Len(order) /\ Len(order) \in Nat
      /\ Taken(grown + 1) = Taken(grown) \cup {Growing}
      /\ Placed = Taken(Len(order)) /\ Placed = Dims
  BY <1>1, TakenIs DEF Shape, Building, Growing
<1>6. Growing \notin Taken(grown)
  BY <1>1, <1>5 DEF Shape, Growing, Taken
\* A step of either growth keeps what is held, and takes off the targets what
\* the rows now hold.
<1>7. ASSUME phase' = phase, grown' = grown, targets' \subseteq targets,
             \A t : Held(t) => Held(t)',
             \A t \in targets \ targets' : Held(t)',
             phase = "down" =>
               \A t \in pending \ pending' : t \in targets' => Held(t)'
      PROVE  Accounted'
  <2>1. Taken(grown)' = Taken(grown) /\ Taken(grown + 1)' = Taken(grown + 1)
    BY <1>1, <1>7 DEF Taken
  <2> QED BY <1>1, <1>2, <1>7, <2>1 DEF Accounted
<1>8. CASE GrowAcross
  <2>1. /\ phase' = phase /\ grown' = grown /\ phase = "across"
        /\ row \in DOMAIN rows
    BY <1>1, <1>8 DEF GrowAcross
  <2>2. CASE UNCHANGED <<rows, targets>>
    BY <1>4, <1>7, <2>1, <2>2
  <2>3. ASSUME NEW n,
               rows' = [rows EXCEPT ![row] = With(rows[row], Growing, n)],
               targets' = {t \in targets :
                 ~Within(t, With(rows[row], Growing, n))}
        PROVE  Accounted'
    <3>1. /\ DOMAIN rows' = DOMAIN rows
          /\ rows'[row] = With(rows[row], Growing, n)
          /\ \A i \in DOMAIN rows : i # row => rows'[i] = rows[i]
      BY <1>1, <2>1, <2>3
    <3>2. DOMAIN rows[row] \subseteq Taken(grown)
      BY <1>1, <2>1 DEF Shape
    <3>3. Within(rows[row], With(rows[row], Growing, n))
      BY <1>6, <3>2 DEF Within, With
    <3>4. \A i \in DOMAIN rows : Within(rows[i], rows'[i])
      BY <3>1, <3>3, WithinItself
    <3>5. \A t : Held(t) => Held(t)'
      BY <1>1, <1>2, <3>1, <3>4, HeldKept
    <3>6. ASSUME NEW t \in targets \ targets'
          PROVE  Held(t)'
      <4>1. Within(t, rows'[row])
        BY <2>3, <3>1, <3>6
      <4> QED BY <2>1, <3>1, <4>1 DEF Held, Within
    <3> QED BY <1>7, <2>1, <2>3, <3>5, <3>6
  <2> QED BY <1>8, <2>2, <2>3 DEF GrowAcross
<1>9. CASE GrownAcross
  <2>1. /\ phase = "across" /\ phase' = "down" /\ rows' = rows
        /\ targets' = targets /\ grown' = grown /\ pending' = Current
    BY <1>9 DEF GrownAcross
  <2>2. Taken(grown)' = Taken(grown) /\ Taken(grown + 1)' = Taken(grown + 1)
    BY <1>1, <2>1 DEF Taken
  <2>3. ASSUME NEW t \in targets, DOMAIN t \subseteq Taken(grown + 1)
        PROVE  Held(t) \/ t \in pending'
    <3>1. CASE Growing \in DOMAIN t
      BY <2>1, <2>3, <3>1 DEF Current, Taken
    <3>2. CASE Growing \notin DOMAIN t
      <4>1. DOMAIN t \subseteq Taken(grown)
        BY <1>5, <2>3, <3>2
      <4> QED BY <2>1, <4>1 DEF Accounted
    <3> QED BY <3>1, <3>2
  <2> QED BY <1>2, <1>4, <2>1, <2>2, <2>3 DEF Accounted
<1>10. CASE GrowDown
  <2>1. phase' = phase /\ grown' = grown
    BY <1>10 DEF GrowDown
  <2>2. PICK t \in pending :
          /\ pending' = pending \ {t}
          /\ \/ /\ t \notin targets
                /\ UNCHANGED <<rows, targets>>
             \/ /\ \/ \E i \in DOMAIN rows :
                        /\ Compatible(rows[i], t)
                        /\ rows' = [rows EXCEPT ![i] =
                             Extend(rows[i], AsPartial(Requirements(t)))]
                   \/ rows' = Append(rows, AsPartial(Requirements(t)))
                /\ targets' = {s \in targets : \A i \in DOMAIN rows' : ~Within(s, rows'[i])}
    BY <1>10 DEF GrowDown
  <2> DEFINE needs == AsPartial(Requirements(t))
  <2>a. t \in Targets
    BY <1>10, <2>2 DEF GrowDown, Shape
  <2>b. Within(t, needs) /\ \A tau : Compatible(tau, t) => Within(t, Extend(tau, needs))
    BY <1>1, <2>a, NeedsHold
  <2> HIDE DEF needs
  <2>3. CASE UNCHANGED <<rows, targets>> /\ t \notin targets
    BY <1>4, <1>7, <2>1, <2>2, <2>3
  <2>4. CASE /\ \/ \E i \in DOMAIN rows :
                     /\ Compatible(rows[i], t)
                     /\ rows' = [rows EXCEPT ![i] = Extend(rows[i], needs)]
                \/ rows' = Append(rows, needs)
             /\ targets' = {s \in targets : \A i \in DOMAIN rows' : ~Within(s, rows'[i])}
    <3>1. /\ \A i \in DOMAIN rows : i \in DOMAIN rows' /\ Within(rows[i], rows'[i])
          /\ \E i \in DOMAIN rows' : Within(t, rows'[i])
      <4>1. CASE rows' = Append(rows, needs)
        <5>1. /\ \A i \in DOMAIN rows : i \in DOMAIN rows' /\ rows'[i] = rows[i]
              /\ Len(rows) + 1 \in DOMAIN rows' /\ rows'[Len(rows) + 1] = needs
          BY <1>1, <4>1
        <5> QED BY <5>1, <2>b, WithinItself
      <4>2. ASSUME NEW j \in DOMAIN rows, Compatible(rows[j], t),
                   rows' = [rows EXCEPT ![j] = Extend(rows[j], needs)]
            PROVE  /\ \A i \in DOMAIN rows : i \in DOMAIN rows' /\ Within(rows[i], rows'[i])
                   /\ \E i \in DOMAIN rows' : Within(t, rows'[i])
        <5>1. /\ DOMAIN rows' = DOMAIN rows /\ rows'[j] = Extend(rows[j], needs)
              /\ \A i \in DOMAIN rows : i # j => rows'[i] = rows[i]
          BY <1>1, <4>2
        <5>2. Within(rows[j], Extend(rows[j], needs))
          BY DEF Within, Extend
        <5> QED BY <4>2, <5>1, <5>2, <2>b, WithinItself
      <4> QED BY <2>4, <4>1, <4>2
    <3>2. \A s : Held(s) => Held(s)'
      BY <1>1, <1>2, <3>1, HeldKept
    <3>3. \A s : (\E i \in DOMAIN rows' : Within(s, rows'[i])) => Held(s)'
      BY DEF Held, Within
    <3>4. \A s \in targets \ targets' : Held(s)'
      BY <2>4, <3>3
    <3>5. targets' \subseteq targets /\ Held(t)'
      BY <2>4, <3>1, <3>3
    <3> QED BY <1>7, <2>1, <2>2, <3>2, <3>4, <3>5
  <2> QED BY <2>2, <2>3, <2>4 DEF needs
<1>11. CASE GrownDown
  <2>1. /\ phase = "down" /\ pending = {} /\ grown' = grown + 1 /\ rows' = rows
        /\ targets' = targets
        /\ phase' = IF grown + 1 < Len(order) THEN "across" ELSE "completing"
    BY <1>11 DEF GrownDown
  <2>2. \A t \in targets : DOMAIN t \subseteq Taken(grown + 1) => Held(t)
    BY <2>1 DEF Accounted
  <2>3. Taken(grown)' = Taken(grown + 1)
    BY <1>1, <2>1 DEF Taken
  <2>4. phase' = "completing" => \A t \in Targets : Held(t)
    BY <1>11, PlacedAtEnd
  <2> QED BY <1>2, <1>4, <2>1, <2>2, <2>3, <2>4 DEF Accounted
<1> QED BY <1>8, <1>9, <1>10, <1>11

\* Completing a row keeps its points, so what it held is exercised.
LEMMA AccountedCompletion ==
  ASSUME Inv, Shape, Accounted, CompleteRow \/ Completed \/ Report
  PROVE  Accounted'
<1>1. /\ request' = request /\ request \in Requests
      /\ rows \in Seq(Partials(space)) /\ dropped \in Nat
      /\ variants \in Seq(VariantRecord) /\ strategy' = strategy
  BY DEF Inv, TypeOK, VariantRecord, Origins, CompleteRow, Completed, Report
<1>2. Targets' = Targets /\ (Flat' <=> Flat)
  BY <1>1, SameRequest DEF Flat
<1>3. CASE CompleteRow
  <2>1. /\ phase = "completing" /\ phase' = "completing" /\ rows # << >>
        /\ rows' = Tail(rows)
    BY <1>3 DEF CompleteRow
  <2> SUFFICES ASSUME Flat PROVE Accounted'
    BY <1>2, <2>1 DEF Accounted
  <2> DEFINE tau == Head(rows)
  <2>2. /\ tau \in Partials(space) /\ tau = rows[1]
        /\ \A i \in DOMAIN rows :
             i = 1 \/ (i - 1 \in DOMAIN rows' /\ rows'[i - 1] = rows[i])
    BY <1>1, <2>1
  <2>3. \/ variants' = variants /\ dropped' = dropped + 1
        \/ /\ dropped' = dropped
           /\ \E p \in Partials(space) :
                /\ Within(tau, p)
                /\ variants' = Push(variants, Complete(p), "covering")
    <3>1. CASE ~Excluded(Complete(tau))
      BY <1>3, <2>2, <3>1, WithinItself DEF CompleteRow
    <3>2. ASSUME NEW s \in Substitutes(tau), dropped' = dropped,
                 variants' =
                   Push(variants, Complete(With(tau, s[1], s[2])), "covering")
          PROVE  /\ dropped' = dropped
                 /\ \E p \in Partials(space) :
                      /\ Within(tau, p)
                      /\ variants' = Push(variants, Complete(p), "covering")
      <4>1. /\ s[1] \in Dims /\ s[2] \in 1..space[s[1]].points
            /\ s[1] \notin DOMAIN tau
        BY <1>1, SpaceFacts DEF Substitutes, Points
      <4>2. /\ With(tau, s[1], s[2]) \in Partials(space)
            /\ Within(tau, With(tau, s[1], s[2]))
        BY <1>1, <2>2, <4>1, WithIs, WithinItself
      <4> QED BY <3>2, <4>2
    <3>3. CASE Excluded(Complete(tau))
      BY <1>3, <3>2, <3>3 DEF CompleteRow
    <3> QED BY <3>1, <3>3
  <2>4. /\ dropped' \in Nat /\ dropped <= dropped'
        /\ Selected \subseteq Selected'
        /\ dropped' > 0 \/ \E v \in Selected' : Within(tau, v)
    <3>1. CASE variants' = variants /\ dropped' = dropped + 1
      BY <1>1, <3>1 DEF Selected
    <3>2. ASSUME NEW p \in Partials(space), dropped' = dropped, Within(tau, p),
                 variants' = Push(variants, Complete(p), "covering")
          PROVE  /\ dropped' \in Nat /\ dropped <= dropped'
                 /\ Selected \subseteq Selected'
                 /\ \E v \in Selected' : Within(tau, v)
      <4>1. /\ Complete(p) \in Partials(space) /\ Within(p, Complete(p))
        BY <1>1, CompleteIs DEF Flat
      <4>2. Selected' = Selected \cup {Complete(p)}
        BY <1>1, <3>2, <4>1, PushSelects DEF Origins
      <4>3. Within(tau, Complete(p))
        BY <3>2, <4>1, WithinTransitive
      <4> QED BY <1>1, <3>2, <4>2, <4>3
    <3> QED BY <2>3, <3>1, <3>2
  <2>5. \A t : Held(t) => Held(t)'
    <3>1. \A i \in DOMAIN rows :
            \/ dropped' > 0
            \/ \E v \in Selected' : Within(rows[i], v)
            \/ \E j \in DOMAIN rows' : Within(rows[i], rows'[j])
      BY <2>2, <2>4, WithinItself
    <3> QED BY <1>1, <2>4, <3>1, HeldKept
  <2> QED BY <1>2, <2>1, <2>5 DEF Accounted
<1>4. CASE Completed
  <2>1. /\ phase = "completing" /\ phase' = "report" /\ rows = << >>
        /\ variants' = variants /\ dropped' = dropped
    BY <1>4 DEF Completed
  <2>2. \A t : Exercised(t)' <=> Exercised(t)
    BY <2>1 DEF Exercised, Selected, Within
  <2> QED BY <1>2, <2>1, <2>2 DEF Accounted, Held
<1>5. CASE Report
  <2>1. /\ phase = "report" /\ phase' \in {"done", "refused"}
        /\ variants' = variants /\ dropped' = dropped
    BY <1>5 DEF Report
  <2>2. \A t : Exercised(t)' <=> Exercised(t)
    BY <2>1 DEF Exercised, Selected, Within
  <2> QED BY <1>1, <1>2, <2>1, <2>2 DEF Accounted
<1> QED BY <1>3, <1>4, <1>5

\* The invariant of the covering algorithm.
Covering == Shape /\ Accounted

LEMMA CoveringInit == Init => Covering
<1> SUFFICES ASSUME Init PROVE Shape /\ Accounted
  BY DEF Covering
<1>1. Shape
  BY DEF Init, Shape, Building
<1>2. Accounted
  BY DEF Init, Accounted
<1> QED BY <1>1, <1>2

LEMMA CoveringStep ==
  ASSUME Inv, Covering, [Next]_vars
  PROVE  Covering'
<1>1. CASE UNCHANGED vars
  <2>1. Flat' <=> Flat
    BY <1>1 DEF vars, Flat, Dims, space
  <2>2. Targets' = Targets
    BY <1>1, SameRequest DEF vars
  <2>3. Shape' <=> Shape
    BY <1>1, <2>2 DEF vars, Shape, Dims, space, Placed, Block, Strength, Taken
  <2>4. Accounted' <=> Accounted
    BY <1>1, <2>1, <2>2 DEF vars, Accounted, Held, Exercised, Selected, Within, Taken
  <2> QED BY <2>3, <2>4 DEF Covering
<1>2. CASE Next
  <2>1. Shape /\ Accounted
    BY DEF Covering
  <2>2. Shape'
    BY <1>2, <2>1, ShapeStep
  <2>3. CASE Enumerate \/ PlaceDimension \/ Ordered \/ TakeCombination
          \/ BlockBuilt
    BY <2>1, <2>2, <2>3, AccountedBlock DEF Covering
  <2>4. CASE GrowAcross \/ GrownAcross \/ GrowDown \/ GrownDown
    BY <2>1, <2>2, <2>4, AccountedGrowth DEF Covering
  <2>5. CASE CompleteRow \/ Completed \/ Report
    BY <2>1, <2>2, <2>5, AccountedCompletion DEF Covering
  <2>6. CASE Seed \/ SeedPin \/ Seeded \/ ListVariant \/ Listed
    <3>1. /\ phase' \notin {"ordering", "block", "across", "down",
                            "completing"}
          /\ phase' \in {"report", "done"} => strategy' # "t-wise"
      BY <2>6
      DEF Inv, TypeOK, Kinds, Seed, SeedPin, Seeded, ListVariant, Listed
    <3> QED BY <2>2, <3>1 DEF Accounted, Covering
  <2> QED BY <1>2, <2>3, <2>4, <2>5, <2>6 DEF Next
<1> QED BY <1>1, <1>2

LEMMA CoveringAlways == Spec => []Covering
<1>1. Inv /\ Covering /\ [Next]_vars => Covering'
  BY CoveringStep
<1> QED BY <1>1, CoveringInit, Invariance, PTL DEF Spec

\* For every space and policy, however the dimensions gate one another, the
\* array covers before its rows are completed: each target that no seed
\* exercises is in a row (`ipog`, steps 3 and 4).
THEOREM ArraysCover == Spec => TargetsArePlaced
<1>1. ASSUME Inv, Covering, [Next]_vars, phase # "completing", phase' = "completing",
             NEW t \in Targets
      PROVE  \/ \E i \in DOMAIN rows' : Within(t, rows'[i])
             \/ \E v \in Selected : Within(t, v)
  <2>1. BlockBuilt \/ GrownDown
    BY <1>1 DEF Next, vars, Inv, TypeOK, Kinds, Seed, SeedPin, Seeded, ListVariant, Listed, Enumerate,
       PlaceDimension, Ordered, TakeCombination, BlockBuilt, GrowAcross,
       GrownAcross, GrowDown, GrownDown, CompleteRow, Completed, Report
  <2>2. Held(t)
    BY <1>1, <2>1, PlacedAtEnd DEF Covering
  <2>3. rows' = rows /\ dropped = 0
    BY <1>1, <2>1 DEF BlockBuilt, GrownDown, Covering, Shape
  <2> QED BY <2>2, <2>3 DEF Held, Exercised
<1>2. Inv /\ Covering /\ [Next]_vars =>
        [phase # "completing" /\ phase' = "completing" =>
           \A target \in Targets :
             \/ \E i \in DOMAIN rows' : Within(target, rows'[i])
             \/ \E v \in Selected : Within(target, v)]_vars
  BY <1>1
<1> QED BY <1>2, Invariance, CoveringAlways, PTL DEF Spec, TargetsArePlaced

\* For every flat space and policy, pins and exclusions included, a selection
\* by covering array that drops no row exercises every coverage target
\* (`ipog`).
THEOREM PairsCovered == Spec => []PairsAreExercised
<1>1. Inv /\ Covering => PairsAreExercised
  BY DEF Inv, TypeOK, Covering, Flat, Accounted, Exercised, PairsAreExercised,
     CoveredBy
<1> QED BY <1>1, CoveringAlways, Invariance, PTL

-----------------------------------------------------------------------------
\* Products and sums over finite sets.

Multiplies(F, S, f) ==
  /\ F \in [SUBSET S -> Nat] /\ F[{}] = 1
  /\ \A s \in SUBSET S : \A x \in s : F[s] = f[x] * F[s \ {x}]

\* A product is a fold in which any factor may be taken first.
LEMMA ProductFold ==
  ASSUME NEW S, IsFiniteSet(S), NEW f, Weighs(f, S)
  PROVE  \E F : Multiplies(F, S, f) /\ \A T \in SUBSET S : Product(f, T) = F[T]
<1> DEFINE op == [p \in Nat \X Nat |-> p[1] * p[2]]
<1>1. op \in [Nat \X Nat -> Nat] /\ \A i, j \in Nat : op[<<i, j>>] = i * j /\ i * j \in Nat
  OBVIOUS
<1>2. \A i, j, k \in Nat : i * (j * k) = j * (i * k)
  OBVIOUS
<1> HIDE DEF op
<1>3. Commutes(op)
  BY <1>1, <1>2 DEF Commutes
<1>4. PICK F : IsFold(F, S, f, 1, op)
  BY <1>3, Folding
<1>5. F \in [SUBSET S -> Nat] /\ F[{}] = 1
  BY <1>4 DEF IsFold
<1>6. \A s \in SUBSET S : \A x \in s : F[s] = f[x] * F[s \ {x}]
  BY <1>1, <1>4 DEF IsFold, Weighs
<1>7. \A s \in SUBSET S : s # {} => F[s] = f[Some(s)] * F[s \ {Some(s)}]
  BY <1>6 DEF Some
<1>8. ASSUME NEW T \in SUBSET S PROVE Product(f, T) = F[T]
  <2> DEFINE Body(g, s) == IF s = {} THEN 1 ELSE f[Some(s)] * g[s \ {Some(s)}]
             G == [s \in SUBSET T |-> F[s]]
             H == CHOOSE h : h = [s \in SUBSET T |-> Body(h, s)]
  <2>1. \A s \in SUBSET T : s \in SUBSET S /\ s \ {Some(s)} \in SUBSET T
    OBVIOUS
  <2>2. \A s \in SUBSET T : F[s] = Body(G, s)
    BY <1>5, <1>7, <2>1
  <2>3. G = [s \in SUBSET T |-> Body(G, s)]
    BY <2>2
  <2>4. H = [s \in SUBSET T |-> Body(H, s)]
    <3> HIDE DEF Body, G
    <3> QED BY <2>3
  <2>5. Product(f, T) = H[T]
    BY DEF Product, FoldFunctionOnSet, MapThenFoldSet, Some
  <2> HIDE DEF H, G
  <2>6. \A s \in SUBSET T : H[s] = Body(H, s)
    BY <2>4
  <2>7. \A s \in SUBSET T : H[s] = F[s]
    <3>1. FollowAlike(H, F, T)
      BY <2>1, <2>6, <1>5, <1>7 DEF FollowAlike
    <3>2. IsFiniteSet(T)
      BY FS_Subset
    <3> QED BY <3>1, <3>2, FoldsAgree
  <2> QED BY <2>5, <2>7
<1>9. Multiplies(F, S, f)
  BY <1>5, <1>6 DEF Multiplies
<1> QED BY <1>8, <1>9

\* Nothing multiplies to 1, and a product is any factor times the rest.
LEMMA ProductIs ==
  ASSUME NEW S, IsFiniteSet(S), NEW f, Weighs(f, S)
  PROVE  /\ Product(f, S) \in Nat
         /\ S = {} => Product(f, S) = 1
         /\ \A x \in S : Product(f, S) = f[x] * Product(f, S \ {x})
<1>1. PICK F : Multiplies(F, S, f) /\ \A T \in SUBSET S : Product(f, T) = F[T]
  BY ProductFold
<1>2. Product(f, S) = F[S] /\ \A x \in S : Product(f, S \ {x}) = F[S \ {x}]
  BY <1>1
<1>3. F[S] \in Nat /\ F[{}] = 1 /\ \A x \in S : F[S] = f[x] * F[S \ {x}]
  BY <1>1 DEF Multiplies
<1> QED BY <1>2, <1>3

\* Equal factors, equal products.
LEMMA ProductOfEquals ==
  ASSUME NEW S, IsFiniteSet(S), NEW f, Weighs(f, S), NEW g, \A x \in S : f[x] = g[x]
  PROVE  Product(f, S) = Product(g, S)
<1>1. PICK F : Multiplies(F, S, f) /\ \A T \in SUBSET S : Product(f, T) = F[T]
  BY ProductFold
<1>2. Weighs(g, S)
  BY DEF Weighs
<1>3. PICK G : Multiplies(G, S, g) /\ \A T \in SUBSET S : Product(g, T) = G[T]
  BY <1>2, ProductFold
<1>4. \A s \in SUBSET S : s # {} => Some(s) \in s /\ Some(s) \in S
  BY DEF Some
<1>5. FollowAlike(F, G, S)
  BY <1>1, <1>3, <1>4 DEF Multiplies, FollowAlike
<1>6. F[S] = G[S]
  BY <1>5, FoldsAgree
<1> QED BY <1>1, <1>3, <1>6

\* A product over two disjoint sets.
LEMMA ProductOfUnion ==
  ASSUME NEW S, IsFiniteSet(S), NEW T, IsFiniteSet(T), S \cap T = {},
         NEW f, Weighs(f, S \cup T)
  PROVE  Product(f, S \cup T) = Product(f, S) * Product(f, T)
<1> DEFINE Q == {n \in Nat : \A s \in SUBSET S : Cardinality(s) = n =>
                   Product(f, s \cup T) = Product(f, s) * Product(f, T)}
<1>1. ASSUME NEW n \in Nat, \A m \in Nat : m < n => m \in Q PROVE n \in Q
  <2> SUFFICES ASSUME NEW s \in SUBSET S, Cardinality(s) = n
               PROVE  Product(f, s \cup T) = Product(f, s) * Product(f, T)
    OBVIOUS
  <2>1. /\ IsFiniteSet(s) /\ IsFiniteSet(s \cup T)
        /\ Weighs(f, s \cup T) /\ Weighs(f, s) /\ Weighs(f, T)
    BY FS_Subset, FS_Union DEF Weighs
  <2>4. Product(f, T) \in Nat
    BY <2>1, ProductIs
  <2>2. CASE s = {}
    <3>1. Product(f, s) = 1 /\ s \cup T = T
      BY <2>1, <2>2, ProductIs
    <3> QED BY <2>4, <3>1
  <2>3. CASE s # {}
    <3>1. PICK x \in s : TRUE
      BY <2>3
    <3> DEFINE t == s \ {x}
    <3>2. IsFiniteSet(t) /\ Cardinality(t) = n - 1 /\ n - 1 \in Nat /\ t \in SUBSET S
      <4>1. IsFiniteSet(t) /\ Cardinality(t) = n - 1
        BY <2>1, FS_RemoveElement
      <4>2. Cardinality(t) \in Nat
        BY <4>1, FS_CardinalityType
      <4> QED BY <4>1, <4>2
    <3>3. Product(f, t \cup T) = Product(f, t) * Product(f, T)
      <4>1. n - 1 \in Q
        BY <1>1, <3>2
      <4> QED BY <3>2, <4>1
    <3>4. (s \cup T) \ {x} = t \cup T /\ x \in s \cup T
      OBVIOUS
    <3>5. Product(f, s \cup T) = f[x] * Product(f, t \cup T)
      BY <2>1, <3>4, ProductIs
    <3>6. Product(f, s) = f[x] * Product(f, t)
      BY <2>1, ProductIs
    <3>7. f[x] \in Nat /\ Product(f, t) \in Nat
      <4>1. Weighs(f, t)
        BY DEF Weighs
      <4> QED BY <3>2, <4>1, ProductIs DEF Weighs
    <3> HIDE DEF t
    <3>8. \A i, j, k \in Nat : i * (j * k) = (i * j) * k
      OBVIOUS
    <3> QED BY <2>4, <3>3, <3>5, <3>6, <3>7, <3>8
  <2> QED BY <2>2, <2>3
<1>2. Q = Nat
  <2> HIDE DEF Q
  <2>1. Q \in SUBSET Nat
    BY DEF Q
  <2> QED BY <1>1, <2>1, Induction
<1>3. Cardinality(S) \in Q
  BY <1>2, FS_CardinalityType
<1> QED BY <1>3

\* A sum, the same way.
LEMMA SumIs ==
  ASSUME NEW S, IsFiniteSet(S), NEW f, Weighs(f, S)
  PROVE  /\ SumFunctionOnSet(f, S) \in Nat
         /\ S = {} => SumFunctionOnSet(f, S) = 0
         /\ \A x \in S : SumFunctionOnSet(f, S) = f[x] + SumFunctionOnSet(f, S \ {x})
<1> DEFINE op == [p \in Nat \X Nat |-> p[1] + p[2]]
<1>1. op \in [Nat \X Nat -> Nat] /\ \A i, j \in Nat : op[<<i, j>>] = i + j /\ i + j \in Nat
  OBVIOUS
<1> HIDE DEF op
<1>2. Commutes(op)
  BY <1>1 DEF Commutes
<1>3. PICK F : IsFold(F, S, f, 0, op)
  BY <1>2, Folding
<1>4. F \in [SUBSET S -> Nat] /\ F[{}] = 0
  BY <1>3 DEF IsFold
<1>5. \A s \in SUBSET S : \A x \in s : F[s] = f[x] + F[s \ {x}]
  BY <1>1, <1>3 DEF IsFold, Weighs
<1>6. \A s \in SUBSET S : s # {} => F[s] = f[Some(s)] + F[s \ {Some(s)}]
  BY <1>5 DEF Some
<1>7. ASSUME NEW T \in SUBSET S PROVE SumFunctionOnSet(f, T) = F[T]
  <2> DEFINE Body(g, s) == IF s = {} THEN 0 ELSE f[Some(s)] + g[s \ {Some(s)}]
             G == [s \in SUBSET T |-> F[s]]
             H == CHOOSE h : h = [s \in SUBSET T |-> Body(h, s)]
  <2>1. \A s \in SUBSET T : s \in SUBSET S /\ s \ {Some(s)} \in SUBSET T
    OBVIOUS
  <2>2. \A s \in SUBSET T : F[s] = Body(G, s)
    BY <1>4, <1>6, <2>1
  <2>3. G = [s \in SUBSET T |-> Body(G, s)]
    BY <2>2
  <2>4. H = [s \in SUBSET T |-> Body(H, s)]
    <3> HIDE DEF Body, G
    <3> QED BY <2>3
  <2>5. SumFunctionOnSet(f, T) = H[T]
    BY DEF SumFunctionOnSet, FoldFunctionOnSet, MapThenFoldSet, Some
  <2> HIDE DEF H, G
  <2>6. \A s \in SUBSET T : H[s] = Body(H, s)
    BY <2>4
  <2>7. \A s \in SUBSET T : H[s] = F[s]
    <3>1. FollowAlike(H, F, T)
      BY <2>1, <2>6, <1>4, <1>6 DEF FollowAlike
    <3>2. IsFiniteSet(T)
      BY FS_Subset
    <3> QED BY <3>1, <3>2, FoldsAgree
  <2> QED BY <2>5, <2>7
<1>8. SumFunctionOnSet(f, S) = F[S] /\ \A x \in S : SumFunctionOnSet(f, S \ {x}) = F[S \ {x}]
  BY <1>7
<1> QED BY <1>4, <1>5, <1>8

\* Disjoint sets, each of m times as many members as a function says.
LEMMA CountOfUnion ==
  ASSUME NEW I, IsFiniteSet(I), NEW m \in Nat,
         NEW c, Weighs(c, I),
         NEW X, \A i \in I : IsFiniteSet(X[i]) /\ Cardinality(X[i]) = m * c[i],
         \A i, j \in I : i # j => X[i] \cap X[j] = {}
  PROVE  /\ IsFiniteSet(UNION {X[i] : i \in I})
         /\ Cardinality(UNION {X[i] : i \in I}) = m * SumFunctionOnSet(c, I)
<1> DEFINE U(J) == UNION {X[i] : i \in J}
           Q == {n \in Nat : \A J \in SUBSET I : Cardinality(J) = n =>
                   IsFiniteSet(U(J)) /\ Cardinality(U(J)) = m * SumFunctionOnSet(c, J)}
<1>1. ASSUME NEW n \in Nat, \A k \in Nat : k < n => k \in Q PROVE n \in Q
  <2> SUFFICES ASSUME NEW J \in SUBSET I, Cardinality(J) = n
               PROVE  IsFiniteSet(U(J)) /\ Cardinality(U(J)) = m * SumFunctionOnSet(c, J)
    OBVIOUS
  <2>1. IsFiniteSet(J) /\ Weighs(c, J)
    BY FS_Subset DEF Weighs
  <2>2. CASE J = {}
    <3>1. U(J) = {} /\ SumFunctionOnSet(c, J) = 0
      BY <2>1, <2>2, SumIs
    <3>2. m * 0 = 0
      OBVIOUS
    <3> QED BY <3>1, <3>2, FS_EmptySet
  <2>3. CASE J # {}
    <3>1. PICK x \in J : TRUE
      BY <2>3
    <3> DEFINE K == J \ {x}
    <3>2. IsFiniteSet(K) /\ Cardinality(K) = n - 1 /\ n - 1 \in Nat /\ K \in SUBSET I
      <4>1. IsFiniteSet(K) /\ Cardinality(K) = n - 1
        BY <2>1, FS_RemoveElement
      <4>2. Cardinality(K) \in Nat
        BY <4>1, FS_CardinalityType
      <4> QED BY <4>1, <4>2
    <3>3. IsFiniteSet(U(K)) /\ Cardinality(U(K)) = m * SumFunctionOnSet(c, K)
      <4>1. n - 1 \in Q
        BY <1>1, <3>2
      <4> QED BY <3>2, <4>1
    <3>4. U(J) = U(K) \cup X[x] /\ U(K) \cap X[x] = {}
      OBVIOUS
    <3>5. SumFunctionOnSet(c, J) = c[x] + SumFunctionOnSet(c, K)
      BY <2>1, SumIs
    <3>6. c[x] \in Nat /\ SumFunctionOnSet(c, K) \in Nat
      <4>1. Weighs(c, K)
        BY DEF Weighs
      <4> QED BY <3>2, <4>1, SumIs DEF Weighs
    <3>7. /\ IsFiniteSet(U(J)) /\ Cardinality(U(J)) = Cardinality(U(K)) + Cardinality(X[x])
      <4> HIDE DEF U, K
      <4>1. /\ IsFiniteSet(U(K) \cup X[x])
            /\ Cardinality(U(K) \cup X[x]) = Cardinality(U(K)) + Cardinality(X[x])
                                               - Cardinality(U(K) \cap X[x])
        BY <3>3, FS_Union
      <4>2. Cardinality(U(K)) \in Nat /\ Cardinality(X[x]) \in Nat
        BY <3>3, FS_CardinalityType
      <4>3. Cardinality(U(K) \cap X[x]) = 0
        BY <3>4, FS_EmptySet
      <4> QED BY <3>4, <4>1, <4>2, <4>3
    <3> HIDE DEF U, K
    <3>8. \A i, j, k \in Nat : i * (j + k) = i * j + i * k /\ i * j + i * k = i * k + i * j
      OBVIOUS
    <3> QED BY <3>3, <3>5, <3>6, <3>7, <3>8
  <2> QED BY <2>2, <2>3
<1>2. Q = Nat
  <2> HIDE DEF Q
  <2>1. Q \in SUBSET Nat
    BY DEF Q
  <2> QED BY <1>1, <2>1, Induction
<1>3. Cardinality(I) \in Q
  BY <1>2, FS_CardinalityType
<1> QED BY <1>3

-----------------------------------------------------------------------------
\* The weights.

LEMMA DimsFinite ==
  ASSUME request \in Requests
  PROVE  /\ IsFiniteSet(Dims)
         /\ \A D \in SUBSET Dims : IsFiniteSet(D)
         /\ \A d \in Dims : IsFiniteSet(1..space[d].points)
<1>1. Len(space) \in Nat /\ Dims = 1..Len(space)
  BY SpaceFacts
<1>2. IsFiniteSet(Dims)
  BY <1>1, FS_Interval
<1>3. \A D \in SUBSET Dims : IsFiniteSet(D)
  BY <1>2, FS_Subset
<1>4. ASSUME NEW d \in Dims PROVE IsFiniteSet(1..space[d].points)
  <2>1. space[d].points \in Nat
    BY SpaceFacts
  <2> QED BY <2>1, FS_Interval
<1> QED BY <1>2, <1>3, <1>4

\* What the points of a dimension gate, with the weights of a function.
PointWeights(w, d) == [p \in 1..space[d].points |-> Product(w, Kids(d, p))]

LEMMA PointWeightsAre ==
  ASSUME request \in Requests, NEW w, Weighs(w, Dims), NEW d \in Dims
  PROVE  /\ Weighs(PointWeights(w, d), 1..space[d].points)
         /\ SumFunctionOnSet(PointWeights(w, d), 1..space[d].points) \in Nat
<1>1. ASSUME NEW p \in 1..space[d].points
      PROVE  PointWeights(w, d)[p] \in Nat
  <2>1. Kids(d, p) \in SUBSET Dims
    BY DEF Kids
  <2>2. IsFiniteSet(Kids(d, p)) /\ Weighs(w, Kids(d, p))
    BY <2>1, DimsFinite DEF Weighs
  <2>3. Product(w, Kids(d, p)) \in Nat
    BY <2>2, ProductIs
  <2> QED BY <2>3 DEF PointWeights
<1>2. Weighs(PointWeights(w, d), 1..space[d].points)
  BY <1>1 DEF Weighs
<1> QED BY <1>2, DimsFinite, SumIs

\* The recursion on weights has a solution, which weight is: a point gates later
\* dimensions only.
LEMMA WeightIs ==
  ASSUME request \in Requests
  PROVE  /\ Weighs(weight, Dims)
         /\ \A d \in Dims :
              weight[d] = SumFunctionOnSet(PointWeights(weight, d), 1..space[d].points)
<1> DEFINE rank == [d \in Dims |-> Len(space) - d]
           Body(w, d) == SumFunctionOnSet(PointWeights(w, d), 1..space[d].points)
           D == [w \in [Dims -> Nat] |-> [d \in Dims |-> Body(w, d)]]
<1>1. rank \in [Dims -> Nat]
  BY SpaceFacts
<1>2. \A w \in [Dims -> Nat] : Weighs(w, Dims)
  BY DEF Weighs
<1>3. D \in [[Dims -> Nat] -> [Dims -> Nat]]
  <2>1. \A w \in [Dims -> Nat], d \in Dims : Body(w, d) \in Nat
    BY <1>2, PointWeightsAre
  <2> HIDE DEF Body
  <2> QED BY <2>1
<1>4. ASSUME NEW v \in [Dims -> Nat], NEW w \in [Dims -> Nat], NEW d \in Dims,
             \A e \in Dims : rank[e] < rank[d] => v[e] = w[e]
      PROVE  D[v][d] = D[w][d]
  <2>1. ASSUME NEW p \in 1..space[d].points
        PROVE  Product(v, Kids(d, p)) = Product(w, Kids(d, p))
    <3>1. Kids(d, p) \in SUBSET Dims
      BY DEF Kids
    <3>2. ASSUME NEW e \in Kids(d, p) PROVE v[e] = w[e]
      <4>1. e \in Dims /\ <<d, p>> \in space[e].gates
        BY DEF Kids
      <4>2. d \in 1..(e - 1)
        <5>1. <<d, p>>[1] \in 1..(e - 1)
          BY <4>1, SpaceFacts
        <5> QED BY <5>1
      <4>3. rank[e] < rank[d]
        BY <4>1, <4>2, SpaceFacts
      <4> QED BY <4>1, <4>3, <1>4
    <3>3. IsFiniteSet(Kids(d, p)) /\ Weighs(v, Kids(d, p))
      BY <3>1, DimsFinite DEF Weighs
    <3> QED BY <3>2, <3>3, ProductOfEquals
  <2>2. PointWeights(v, d) = PointWeights(w, d)
    BY <2>1 DEF PointWeights
  <2>3. Body(v, d) = Body(w, d)
    BY <2>2
  <2> HIDE DEF Body
  <2> QED BY <2>3
<1>b. Len(space) \in Nat /\ \A d \in Dims : rank[d] < Len(space)
  BY SpaceFacts
<1> HIDE DEF rank
<1>5. Recurs(Dims, Nat, rank, D)
  <2> HIDE DEF D
  <2> QED BY <1>1, <1>3, <1>4, <1>b DEF Recurs
<1>6. PICK w \in [Dims -> Nat] : w = D[w]
  <2> HIDE DEF D
  <2> QED BY <1>5, Recursion
<1>7. w = [d \in Dims |-> Body(w, d)]
  BY <1>6
<1>8. weight = [d \in Dims |-> Body(weight, d)]
  BY <1>7 DEF weight, PointWeights
\* One solution: two agree from the last dimension on.
<1> DEFINE Q == {n \in Nat : \A d \in Dims : rank[d] = n => weight[d] = w[d]}
<1>9. ASSUME NEW n \in Nat, \A m \in Nat : m < n => m \in Q PROVE n \in Q
  <2> SUFFICES ASSUME NEW d \in Dims, rank[d] = n PROVE weight[d] = w[d]
    OBVIOUS
  <2>1. ASSUME NEW p \in 1..space[d].points
        PROVE  Product(w, Kids(d, p)) = Product(weight, Kids(d, p))
    <3>1. Kids(d, p) \in SUBSET Dims
      BY DEF Kids
    <3>2. ASSUME NEW e \in Kids(d, p) PROVE weight[e] = w[e]
      <4>1. e \in Dims /\ <<d, p>> \in space[e].gates
        BY DEF Kids
      <4>2. d \in 1..(e - 1)
        <5>1. <<d, p>>[1] \in 1..(e - 1)
          BY <4>1, SpaceFacts
        <5> QED BY <5>1
      <4>3. rank[e] < rank[d]
        BY <4>1, <4>2, SpaceFacts DEF rank
      <4>4. rank[e] \in Q
        BY <1>1, <1>9, <4>1, <4>3
      <4> QED BY <4>1, <4>4
    <3>3. IsFiniteSet(Kids(d, p)) /\ Weighs(w, Kids(d, p))
      BY <3>1, DimsFinite DEF Weighs
    <3> QED BY <3>2, <3>3, ProductOfEquals
  <2>2. PointWeights(weight, d) = PointWeights(w, d)
    BY <2>1 DEF PointWeights
  <2>3. Body(weight, d) = Body(w, d)
    BY <2>2
  <2>4. weight[d] = Body(weight, d) /\ w[d] = Body(w, d)
    <3> HIDE DEF Body
    <3>1. \A e \in Dims : weight[e] = Body(weight, e)
      BY <1>8
    <3>2. \A e \in Dims : w[e] = Body(w, e)
      BY <1>7
    <3> QED BY <3>1, <3>2
  <2> QED BY <2>3, <2>4
<1>10. Q = Nat
  <2> HIDE DEF Q
  <2>1. Q \in SUBSET Nat
    BY DEF Q
  <2> QED BY <1>9, <2>1, Induction
<1>11. ASSUME NEW d \in Dims PROVE weight[d] \in Nat /\ weight[d] = Body(weight, d)
  <2>1. rank[d] \in Q
    BY <1>1, <1>10
  <2>2. weight[d] = w[d]
    BY <2>1
  <2>3. weight[d] = Body(weight, d)
    <3> HIDE DEF Body
    <3>1. \A e \in Dims : weight[e] = Body(weight, e)
      BY <1>8
    <3> QED BY <3>1
  <2> QED BY <2>2, <2>3
<1> QED BY <1>11 DEF Weighs

-----------------------------------------------------------------------------
\* The variants that agree with the points of the first k dimensions.

\* Points for the active ones of the first k dimensions.
Prefix(k, b) ==
  /\ b \in Partials(space) /\ DOMAIN b \subseteq 1..k
  /\ \A d \in Dims : d <= k => (d \in DOMAIN b <=> IsActive(b, d))

Extending(k, b) ==
  {a \in AllVariants :
     \A d \in Dims : d <= k =>
       /\ d \in DOMAIN a <=> d \in DOMAIN b
       /\ d \in DOMAIN b => a[d] = b[d]}

\* The later dimensions those points open.
Opened(k, b) == {e \in Dims : e > k /\ IsActive(b, e)}

\* A variant is active in a dimension when the points before it are.
LEMMA ActiveBelow ==
  ASSUME request \in Requests, NEW a, NEW b, NEW k, NEW d \in Dims, d <= k + 1, k \in Nat,
         \A e \in Dims : e <= k =>
           /\ e \in DOMAIN a <=> e \in DOMAIN b
           /\ e \in DOMAIN b => a[e] = b[e]
  PROVE  IsActive(a, d) <=> IsActive(b, d)
<1>1. \A g \in space[d].gates : g[1] \in Dims /\ g[1] <= k
  BY SpaceFacts
<1> QED BY <1>1 DEF IsActive

\* One point more.
LEMMA PrefixGrows ==
  ASSUME request \in Requests, NEW k \in Nat, k + 1 \in Dims, NEW b, Prefix(k, b),
         IsActive(b, k + 1), NEW p \in 1..space[k + 1].points
  PROVE  /\ Prefix(k + 1, With(b, k + 1, p))
         /\ Opened(k + 1, With(b, k + 1, p)) = (Opened(k, b) \ {k + 1}) \cup Kids(k + 1, p)
         /\ (Opened(k, b) \ {k + 1}) \cap Kids(k + 1, p) = {}
<1> DEFINE n == k + 1
           c == With(b, n, p)
<1>1. /\ b \in Partials(space) /\ DOMAIN b \subseteq 1..k /\ DOMAIN b \subseteq Dims
      /\ \A d \in Dims : d <= k => (d \in DOMAIN b <=> IsActive(b, d))
  BY PartialIs DEF Prefix
<1>2. c \in Partials(space) /\ DOMAIN c = DOMAIN b \cup {n}
  BY <1>1, WithIs
<1>3. c[n] = p /\ \A d \in DOMAIN b : c[d] = b[d]
  BY <1>1 DEF With
<1>4. ASSUME NEW d \in Dims, d <= n PROVE d \in DOMAIN c <=> IsActive(c, d)
  <2>1. IsActive(c, d) <=> IsActive(b, d)
    <3>1. \A e \in Dims : e <= k => /\ e \in DOMAIN c <=> e \in DOMAIN b
                                    /\ e \in DOMAIN b => c[e] = b[e]
      BY <1>1, <1>2, <1>3
    <3> HIDE DEF c
    <3> QED BY <1>4, <3>1, ActiveBelow
  <2>2. CASE d = n
    BY <2>1, <2>2, <1>2
  <2>3. CASE d # n
    <3>1. d <= k
      BY <1>4, <2>3, SpaceFacts
    <3> QED BY <3>1, <2>1, <2>3, <1>1, <1>2
  <2> QED BY <2>2, <2>3
<1>5. Prefix(n, c)
  <2>1. DOMAIN c \subseteq 1..n
    BY <1>1, <1>2
  <2> QED BY <1>2, <1>4, <2>1 DEF Prefix
<1>6. ASSUME NEW e \in Dims
      PROVE  <<n, p>> \in space[e].gates <=>
               \E g \in space[e].gates : g[1] = n /\ g[2] = p
  <2>1. \A g \in space[e].gates : g = <<g[1], g[2]>>
    BY SpaceFacts
  <2> QED BY <2>1
<1>7. ASSUME NEW e \in Opened(n, c)
      PROVE  e \in (Opened(k, b) \ {n}) \cup Kids(n, p)
  <2>1. e \in Dims /\ e > n /\ \A g \in space[e].gates : g[1] \in DOMAIN c /\ c[g[1]] = g[2]
    BY <1>7 DEF Opened, IsActive
  <2>2. CASE \E g \in space[e].gates : g[1] = n
    <3>1. <<n, p>> \in space[e].gates
      BY <1>3, <1>6, <2>1, <2>2
    <3>2. \A g \in space[e].gates : g[1] <= n
      BY <1>1, <1>2, <2>1
    <3> QED BY <2>1, <3>1, <3>2 DEF Kids
  <2>3. CASE ~ \E g \in space[e].gates : g[1] = n
    <3>1. \A g \in space[e].gates : g[1] \in DOMAIN b /\ b[g[1]] = g[2]
      BY <1>2, <1>3, <2>1, <2>3
    <3>2. IsActive(b, e)
      BY <3>1 DEF IsActive
    <3> QED BY <2>1, <3>2, SpaceFacts DEF Opened
  <2> QED BY <2>2, <2>3
<1>8. ASSUME NEW e \in Opened(k, b), e # n
      PROVE  e \in Opened(n, c) /\ e \notin Kids(n, p)
  <2>1. e \in Dims /\ e > k /\ \A g \in space[e].gates : g[1] \in DOMAIN b /\ b[g[1]] = g[2]
    BY DEF Opened, IsActive
  <2>2. e > n
    BY <1>8, <2>1, SpaceFacts
  <2>3. IsActive(c, e)
    BY <1>2, <1>3, <2>1 DEF IsActive
  <2>4. n \notin DOMAIN b
    BY <1>1
  <2>5. e \notin Kids(n, p)
    BY <1>6, <2>1, <2>4 DEF Kids
  <2> QED BY <2>1, <2>2, <2>3, <2>5 DEF Opened
<1>9. ASSUME NEW e \in Kids(n, p)
      PROVE  e \in Opened(n, c)
  <2>1. e \in Dims /\ <<n, p>> \in space[e].gates /\ \A g \in space[e].gates : g[1] <= n
    BY DEF Kids
  <2>2. PICK h \in space[e].gates : h[1] = n /\ h[2] = p
    BY <1>6, <2>1
  <2>3. e > n
    <3>1. h[1] \in 1..(e - 1)
      BY <2>1, SpaceFacts
    <3>2. e \in Nat /\ n \in Nat
      BY <2>1, SpaceFacts
    <3> QED BY <3>1, <3>2, <2>2
  <2>4. ASSUME NEW g \in space[e].gates PROVE g[1] \in DOMAIN c /\ c[g[1]] = g[2]
    <3>1. \/ g = h \/ h \in space[g[1]].gates \/ g \in space[n].gates
      BY <2>1, <2>2, SpaceFacts
    <3>2. CASE g = h
      BY <3>2, <2>2, <1>2, <1>3
    <3>3. CASE h \in space[g[1]].gates
      <4>1. g[1] \in Dims /\ h[1] \in 1..(g[1] - 1)
        BY <2>1, <3>3, SpaceFacts
      <4>2. g[1] <= n
        BY <2>1
      <4> QED BY <4>1, <4>2, <2>2, SpaceFacts
    <3>4. CASE g \in space[n].gates
      <4>1. g[1] \in DOMAIN b /\ b[g[1]] = g[2]
        BY <3>4 DEF IsActive
      <4> QED BY <4>1, <1>2, <1>3
    <3> QED BY <3>1, <3>2, <3>3, <3>4
  <2>5. IsActive(c, e)
    BY <2>4 DEF IsActive
  <2> QED BY <2>1, <2>3, <2>5 DEF Opened
<1> HIDE DEF c
<1>10. Opened(n, c) = (Opened(k, b) \ {n}) \cup Kids(n, p)
  BY <1>7, <1>8, <1>9
<1>11. (Opened(k, b) \ {n}) \cap Kids(n, p) = {}
  BY <1>8
<1> QED BY <1>5, <1>10, <1>11 DEF c

\* The extensions of a prefix: its own where the next dimension is inactive, and
\* else those of each point of it, none of which is two points'.
LEMMA ExtensionsSplit ==
  ASSUME request \in Requests, NEW k \in Nat, k + 1 \in Dims, NEW b, Prefix(k, b)
  PROVE  /\ ~IsActive(b, k + 1) =>
              /\ Prefix(k + 1, b) /\ Extending(k, b) = Extending(k + 1, b)
              /\ Opened(k, b) = Opened(k + 1, b)
         /\ IsActive(b, k + 1) =>
              /\ Extending(k, b) = UNION {Extending(k + 1, With(b, k + 1, p)) :
                                            p \in 1..space[k + 1].points}
              /\ \A p, q \in 1..space[k + 1].points : p # q =>
                   Extending(k + 1, With(b, k + 1, p))
                     \cap Extending(k + 1, With(b, k + 1, q)) = {}
<1> DEFINE n == k + 1
<1>1. /\ b \in Partials(space) /\ DOMAIN b \subseteq 1..k /\ DOMAIN b \subseteq Dims
      /\ \A d \in Dims : d <= k => (d \in DOMAIN b <=> IsActive(b, d))
  BY PartialIs DEF Prefix
<1>2. \A d \in Dims : d <= n <=> d <= k \/ d = n
  BY SpaceFacts
<1>3. ASSUME NEW a \in Extending(k, b)
      PROVE  /\ a \in AllVariants
             /\ a \in Partials(space) /\ IsVariant(a)
             /\ n \in DOMAIN a <=> IsActive(b, n)
             /\ \A d \in Dims : d <= k => /\ d \in DOMAIN a <=> d \in DOMAIN b
                                          /\ d \in DOMAIN b => a[d] = b[d]
  <2>1. \A d \in Dims : d <= k => /\ d \in DOMAIN a <=> d \in DOMAIN b
                                  /\ d \in DOMAIN b => a[d] = b[d]
    BY DEF Extending
  <2>2. a \in AllVariants /\ a \in Partials(space) /\ IsVariant(a)
    BY DEF Extending, AllVariants
  <2>3. IsActive(a, n) <=> IsActive(b, n)
    BY <2>1, ActiveBelow
  <2> QED BY <2>1, <2>2, <2>3 DEF IsVariant
<1>4. ASSUME ~IsActive(b, n)
      PROVE  /\ Prefix(n, b) /\ Extending(k, b) = Extending(n, b)
             /\ Opened(k, b) = Opened(n, b)
  <2>1. n \notin DOMAIN b
    BY <1>1
  <2>2. Prefix(n, b)
    <3>1. DOMAIN b \subseteq 1..n
      BY <1>1
    <3> QED BY <1>1, <1>2, <1>4, <2>1, <3>1 DEF Prefix
  <2>3. ASSUME NEW a \in Extending(k, b) PROVE a \in Extending(n, b)
    <3>1. n \notin DOMAIN a
      BY <1>3, <1>4
    <3> QED BY <1>2, <1>3, <2>1, <3>1 DEF Extending
  <2>4. Extending(n, b) \subseteq Extending(k, b)
    BY <1>2 DEF Extending
  <2>5. Opened(k, b) = Opened(n, b)
    <3>1. \A e \in Dims : e > k <=> e > n \/ e = n
      BY SpaceFacts
    <3> QED BY <3>1, <1>4 DEF Opened
  <2> QED BY <2>2, <2>3, <2>4, <2>5
<1>5. ASSUME IsActive(b, n), NEW p \in 1..space[n].points
      PROVE  \A a : a \in Extending(n, With(b, n, p)) <=>
                      a \in Extending(k, b) /\ a[n] = p
  <2>1. /\ n \notin DOMAIN b /\ DOMAIN With(b, n, p) = DOMAIN b \cup {n}
        /\ With(b, n, p)[n] = p /\ \A d \in DOMAIN b : With(b, n, p)[d] = b[d]
    BY <1>1 DEF With
  <2>2. ASSUME NEW a, a \in Extending(n, With(b, n, p))
        PROVE  a \in Extending(k, b) /\ a[n] = p
    <3>1. /\ a \in AllVariants
          /\ \A d \in Dims : d <= n =>
               /\ d \in DOMAIN a <=> d \in DOMAIN With(b, n, p)
               /\ d \in DOMAIN With(b, n, p) => a[d] = With(b, n, p)[d]
      BY <2>2 DEF Extending
    <3>2. a[n] = p
      BY <1>2, <2>1, <3>1
    <3>3. \A d \in Dims : d <= k => d <= n /\ d # n
      <4>1. Dims \subseteq Nat
        BY SpaceFacts
      <4> QED BY <4>1
    <3>4. \A d \in Dims : d <= k => /\ d \in DOMAIN a <=> d \in DOMAIN b
                                    /\ d \in DOMAIN b => a[d] = b[d]
      BY <2>1, <3>1, <3>3
    <3> QED BY <3>1, <3>2, <3>4 DEF Extending
  <2>3. ASSUME NEW a, a \in Extending(k, b), a[n] = p
        PROVE  a \in Extending(n, With(b, n, p))
    <3>1. n \in DOMAIN a
      BY <1>3, <1>5, <2>3
    <3>2. \A d \in Dims : d <= n =>
               /\ d \in DOMAIN a <=> d \in DOMAIN With(b, n, p)
               /\ d \in DOMAIN With(b, n, p) => a[d] = With(b, n, p)[d]
      BY <1>2, <1>3, <2>1, <2>3, <3>1
    <3> QED BY <1>3, <2>3, <3>2 DEF Extending
  <2> QED BY <2>2, <2>3
<1>6. ASSUME IsActive(b, n)
      PROVE  /\ Extending(k, b) = UNION {Extending(n, With(b, n, p)) :
                                            p \in 1..space[n].points}
             /\ \A p, q \in 1..space[n].points : p # q =>
                   Extending(n, With(b, n, p)) \cap Extending(n, With(b, n, q)) = {}
  <2>1. ASSUME NEW a \in Extending(k, b)
        PROVE  \E p \in 1..space[n].points : a \in Extending(n, With(b, n, p))
    <3>1. n \in DOMAIN a /\ a \in Partials(space)
      BY <1>3, <1>6
    <3>2. a[n] \in 1..space[n].points
      BY <3>1, PartialIs
    <3> QED BY <3>2, <1>5, <1>6
  <2>2. \A p \in 1..space[n].points : Extending(n, With(b, n, p)) \subseteq Extending(k, b)
    BY <1>5, <1>6
  <2>3. \A p, q \in 1..space[n].points : p # q =>
                   Extending(n, With(b, n, p)) \cap Extending(n, With(b, n, q)) = {}
    BY <1>5, <1>6
  <2> QED BY <2>1, <2>2, <2>3
<1> QED BY <1>4, <1>6

\* As many variants extend a prefix as the weights of what it opens multiply to.
Counts(k, b) ==
  /\ IsFiniteSet(Extending(k, b))
  /\ Cardinality(Extending(k, b)) = Product(weight, Opened(k, b))

\* A prefix over all the dimensions extends to itself alone.
LEMMA CountsAtEnd ==
  ASSUME request \in Requests, NEW b, Prefix(Len(space), b)
  PROVE  Counts(Len(space), b)
<1> DEFINE n == Len(space)
<1>1. n \in Nat /\ Dims = 1..n /\ \A d \in Dims : d <= n /\ ~(d > n)
  BY SpaceFacts
<1>2. /\ b \in Partials(space) /\ DOMAIN b \subseteq Dims /\ b = [d \in DOMAIN b |-> b[d]]
      /\ \A d \in Dims : d \in DOMAIN b <=> IsActive(b, d)
  BY <1>1, PartialIs DEF Prefix
<1>3. b \in Extending(n, b)
  BY <1>2 DEF Extending, AllVariants, IsVariant
<1>4. ASSUME NEW a \in Extending(n, b) PROVE a = b
  <2>1. /\ a \in Partials(space)
        /\ \A d \in Dims : /\ d \in DOMAIN a <=> d \in DOMAIN b
                           /\ d \in DOMAIN b => a[d] = b[d]
    BY <1>1 DEF Extending, AllVariants
  <2>2. DOMAIN a \subseteq Dims /\ a = [d \in DOMAIN a |-> a[d]]
    BY <2>1, PartialIs
  <2>3. DOMAIN a = DOMAIN b /\ \A d \in DOMAIN b : a[d] = b[d]
    BY <1>2, <2>1, <2>2
  <2> QED BY <1>2, <2>2, <2>3
<1>5. Extending(n, b) = {b}
  BY <1>3, <1>4
<1>6. Opened(n, b) = {}
  BY <1>1 DEF Opened
<1>7. Product(weight, {}) = 1
  <2>1. IsFiniteSet({}) /\ Weighs(weight, {})
    BY FS_EmptySet DEF Weighs
  <2> QED BY <2>1, ProductIs
<1> QED BY <1>5, <1>6, <1>7, FS_Singleton DEF Counts

\* What counts right one dimension on counts right here.
LEMMA CountsBefore ==
  ASSUME request \in Requests, NEW k \in Nat, k + 1 \in Dims,
         \A c : Prefix(k + 1, c) => Counts(k + 1, c),
         NEW b, Prefix(k, b)
  PROVE  Counts(k, b)
<1> DEFINE n == k + 1
           rest == Opened(k, b) \ {n}
           I == 1..space[n].points
           X == [p \in I |-> Extending(n, With(b, n, p))]
           c == PointWeights(weight, n)
           m == Product(weight, rest)
<1>1. CASE ~IsActive(b, n)
  BY <1>1, ExtensionsSplit DEF Counts
<1>2. CASE IsActive(b, n)
  <2>1. Weighs(weight, Dims) /\ weight[n] = SumFunctionOnSet(c, I)
    BY WeightIs
  <2>2. Weighs(c, I) /\ IsFiniteSet(I)
    BY <2>1, PointWeightsAre, DimsFinite
  <2>3. rest \in SUBSET Dims /\ IsFiniteSet(rest) /\ Weighs(weight, rest)
    BY <2>1, DimsFinite DEF Opened, Weighs
  <2>4. m \in Nat
    BY <2>3, ProductIs
  <2>5. ASSUME NEW p \in I
        PROVE  IsFiniteSet(X[p]) /\ Cardinality(X[p]) = m * c[p]
    <3>1. /\ Prefix(n, With(b, n, p))
          /\ Opened(n, With(b, n, p)) = rest \cup Kids(n, p)
          /\ rest \cap Kids(n, p) = {}
      BY <1>2, PrefixGrows
    <3>2. Counts(n, With(b, n, p))
      BY <3>1
    <3>3. /\ Kids(n, p) \in SUBSET Dims /\ IsFiniteSet(Kids(n, p))
          /\ Weighs(weight, rest \cup Kids(n, p))
      BY <2>1, <2>3, DimsFinite DEF Kids, Weighs
    <3>4. Product(weight, rest \cup Kids(n, p)) = m * Product(weight, Kids(n, p))
      BY <2>3, <3>1, <3>3, ProductOfUnion
    <3>5. c[p] = Product(weight, Kids(n, p))
      BY DEF PointWeights
    <3> HIDE DEF rest, m, c
    <3> QED BY <3>1, <3>2, <3>4, <3>5 DEF Counts
  <2>6. \A p, q \in I : p # q => X[p] \cap X[q] = {}
    BY <1>2, ExtensionsSplit
  <2>7. UNION {X[p] : p \in I} = Extending(k, b)
    <3>1. Extending(k, b) = UNION {Extending(n, With(b, n, p)) : p \in I}
      BY <1>2, ExtensionsSplit
    <3>2. \A p \in I : X[p] = Extending(n, With(b, n, p))
      OBVIOUS
    <3> HIDE DEF X, I
    <3>3. {X[p] : p \in I} = {Extending(n, With(b, n, p)) : p \in I}
      BY <3>2
    <3> QED BY <3>1, <3>3
  <2>8. /\ IsFiniteSet(Extending(k, b))
        /\ Cardinality(Extending(k, b)) = m * weight[n]
    <3> HIDE DEF X, I, c, m
    <3>1. \A p \in I : IsFiniteSet(X[p]) /\ Cardinality(X[p]) = m * c[p]
      BY <2>5
    <3>2. /\ IsFiniteSet(UNION {X[p] : p \in I})
          /\ Cardinality(UNION {X[p] : p \in I}) = m * SumFunctionOnSet(c, I)
      BY <2>2, <2>4, <2>6, <3>1, CountOfUnion, SMTT(60)
    <3> QED BY <2>1, <2>7, <3>2
  <2>9. Product(weight, Opened(k, b)) = weight[n] * m
    <3>1. n \in Opened(k, b) /\ Opened(k, b) \in SUBSET Dims
      BY <1>2 DEF Opened
    <3>2. IsFiniteSet(Opened(k, b)) /\ Weighs(weight, Opened(k, b))
      BY <2>1, <3>1, DimsFinite DEF Weighs
    <3> QED BY <3>1, <3>2, ProductIs
  <2>10. weight[n] \in Nat
    BY <2>1 DEF Weighs
  <2> HIDE DEF m
  <2>11. m * weight[n] = weight[n] * m
    BY <2>4, <2>10
  <2> QED BY <2>8, <2>9, <2>11 DEF Counts
<1> QED BY <1>1, <1>2

\* The size counts the variants, for every space whose dimensions carry the gates
\* they were reached through.
LEMMA SizeCounts ==
  ASSUME request \in Requests
  PROVE  SizeIsExact
<1> DEFINE n == Len(space)
           Q == {j \in Nat : j <= n => \A b : Prefix(n - j, b) => Counts(n - j, b)}
<1>1. n \in Nat /\ Dims = 1..n
  BY SpaceFacts
<1>2. ASSUME NEW j \in Nat, \A i \in Nat : i < j => i \in Q PROVE j \in Q
  <2> SUFFICES ASSUME j <= n, NEW b, Prefix(n - j, b) PROVE Counts(n - j, b)
    OBVIOUS
  <2>1. CASE j = 0
    <3>1. n - j = n
      BY <1>1, <2>1
    <3> QED BY <3>1, CountsAtEnd
  <2>2. CASE j # 0
    <3> DEFINE k == n - j
    <3>1. /\ j - 1 \in Nat /\ j - 1 < j /\ j - 1 <= n
          /\ k \in Nat /\ k + 1 = n - (j - 1) /\ k + 1 \in Dims
      BY <1>1, <2>2
    <3>2. j - 1 \in Q
      BY <1>2, <3>1
    <3>3. \A c : Prefix(k + 1, c) => Counts(k + 1, c)
      BY <3>1, <3>2
    <3> HIDE DEF k
    <3>4. Prefix(k, b)
      BY DEF k
    <3>5. Counts(k, b)
      BY <3>1, <3>3, <3>4, CountsBefore
    <3> QED BY <3>5 DEF k
  <2> QED BY <2>1, <2>2
<1>3. Q = Nat
  <2> HIDE DEF Q
  <2>1. Q \in SUBSET Nat
    BY DEF Q
  <2> QED BY <1>2, <2>1, Induction
<1>4. \A b : Prefix(0, b) => Counts(0, b)
  <2>1. n \in Q /\ n - n = 0 /\ n <= n
    BY <1>1, <1>3
  <2> QED BY <2>1
<1> DEFINE none == [d \in {} |-> 0]
<1>5. none \in Partials(space) /\ DOMAIN none = {}
  BY PartialIs
<1>6. \A d \in Dims : ~(d <= 0)
  BY <1>1
<1> HIDE DEF none
<1>7. Prefix(0, none)
  BY <1>5, <1>6 DEF Prefix
<1>8. Extending(0, none) = AllVariants
  BY <1>6 DEF Extending
<1>9. Opened(0, none) = {d \in Dims : space[d].gates = {}}
  <2>1. \A d \in Dims : d > 0
    BY <1>1
  <2>2. \A d \in Dims : IsActive(none, d) <=> space[d].gates = {}
    BY <1>5 DEF IsActive
  <2> QED BY <2>1, <2>2 DEF Opened
<1> QED BY <1>4, <1>7, <1>8, <1>9 DEF Counts, SizeIsExact, SpaceSize

\* The size that chose the strategy is exact (`space_size`), for every request
\* `select` is called with.
THEOREM SizesAreExact == Spec => []SizeIsExact
<1>1. Inv => SizeIsExact
  BY SizeCounts DEF Inv, TypeOK
<1> QED BY <1>1, Invariance, PTL
====
