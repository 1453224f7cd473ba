-------------------------- MODULE VariantSelection --------------------------
(***************************************************************************)
(* The selection of the variants an interaction is exercised with          *)
(* (engine/kernel/src/variant/mod.rs, `select` and the `janus-ipog-v1`     *)
(* covering algorithm): seeds, then every variant of a small space or a    *)
(* covering array of a wide one, then the report.                          *)
(*                                                                         *)
(* A space is a sequence of dimensions, parents before those they gate,    *)
(* and a dimension is known by its position in it, a point by its position *)
(* in its dimension.  gates holds every gate of a dimension, those of its  *)
(* ancestors included, as the walk that emits it accumulates them.  An     *)
(* assignment is a function from some dimensions to points.                *)
(***************************************************************************)
EXTENDS Naturals, Sequences, FiniteSets, FiniteSetsExt

CONSTANT Requests      \* the spaces and policies `select` is called with

WellFormed(s) ==
  \A d \in DOMAIN s :
    /\ s[d].points \in Nat /\ s[d].default \in 1..s[d].points
    /\ s[d].facet \in {"presence", "nullability"} => s[d].points = 2
    /\ \A g \in s[d].gates :
         /\ g[1] \in 1..(d - 1) /\ g[2] \in 1..s[g[1]].points
         /\ s[g[1]].gates \subseteq s[d].gates
         /\ \A h \in s[d].gates :
              g = h \/ h \in s[g[1]].gates \/ g \in s[h[1]].gates

Points(s) == UNION {1..s[d].points : d \in DOMAIN s}

\* The assignments of some dimensions.
Over(s, D) ==
  {f \in [D -> Points(s)] : \A d \in D : f[d] <= s[d].points}

Partials(s) == UNION {Over(s, D) : D \in SUBSET DOMAIN s}

\* Every dimension at its chosen point, or at its default.
Chosen(s, partial) ==
  [d \in DOMAIN s |-> IF d \in DOMAIN partial THEN partial[d]
                                                  ELSE s[d].default]

ASSUME RequestsAreResolved ==
  \A r \in Requests :
    /\ r.space \in Seq([facet : STRING, points : Nat, default : Nat,
                        gates : SUBSET (Nat \X Nat)])
    /\ WellFormed(r.space)
    /\ r.strength \in Nat /\ r.threshold \in Nat /\ r.budget \in Nat
    /\ r.strategy \in {"auto", "exhaustive", "t-wise", "base-only"}
    /\ r.boundaries \in BOOLEAN
    /\ r.pins \in Seq(Partials(r.space))
    /\ r.exclusions \subseteq Partials(r.space)

VARIABLES
  request,   \* the space and the resolved policy
  phase,     \* how far `select` has come
  strategy,  \* the strategy in force
  order,     \* the order the covering algorithm takes the dimensions in
  pending,   \* what a loop still has to go through: the combinations of the
             \* block or of the space, or the targets of the vertical pass
  rows,      \* the covering array so far: partial assignments, in order
  targets,   \* the coverage targets nothing covers yet
  grown,     \* how many dimensions of order the rows have grown over
  row,       \* the next row to grow
  variants,  \* the selection
  dropped,   \* rows no completion of which avoids every exclusion
  report     \* the coverage the selection report states

vars == <<request, phase, strategy, order, pending, rows, targets, grown, row,
          variants, dropped, report>>

space == request.space
Dims  == DOMAIN space

-----------------------------------------------------------------------------
\* Assignments.

\* The pairs of the first are pairs of the second: a target is covered, an
\* exclusion matched, a row inside a seed.
Within(partial, assignment) ==
  \A d \in DOMAIN partial :
    d \in DOMAIN assignment /\ assignment[d] = partial[d]

IsActive(assignment, d) ==
  \A g \in space[d].gates :
    g[1] \in DOMAIN assignment /\ assignment[g[1]] = g[2]

\* A fault: the points of inactive dimensions are kept.
CompleteUngated(partial) == Chosen(space, partial)

\* One pass over the dimensions, defaults where the partial assignment says
\* nothing: a dimension is kept when the points chosen satisfy its gates, and
\* those of its gates' own dimensions are among them.
Complete(partial) ==
  LET chosen == Chosen(space, partial)
  IN  [d \in {e \in Dims : \A g \in space[e].gates : chosen[g[1]] = g[2]} |->
         chosen[d]]

Excluded(assignment) == \E e \in request.exclusions : Within(e, assignment)

\* A fault: gated dimensions stay at their defaults.
VariantsOfOpen ==
  {Complete(f) : f \in Over(space, {d \in Dims : space[d].gates = {}})}

Variants == {Complete(f) : f \in Over(space, Dims)}

With(partial, d, p) ==
  [e \in DOMAIN partial \cup {d} |-> IF e = d THEN p ELSE partial[e]]

-----------------------------------------------------------------------------
\* The size of the space, and the seeds.

\* A fault: a dimension counts under every gate it has.
KidsOfEveryGate(d, p) == {e \in Dims : <<d, p>> \in space[e].gates}

\* The dimensions a point gates directly: it is the last of their gates.
Kids(d, p) ==
  {e \in Dims : <<d, p>> \in space[e].gates
                /\ \A g \in space[e].gates : g[1] <= d}

Product(f, S) == FoldFunctionOnSet(LAMBDA x, y : x * y, 1, f, S)

\* The variants of a dimension and of what its points gate, point by point.
weight[d \in Dims] ==
  SumFunctionOnSet([p \in 1..space[d].points |-> Product(weight, Kids(d, p))],
                   1..space[d].points)

SpaceSize == Product(weight, {d \in Dims : space[d].gates = {}})

Resolved ==
  IF request.strategy = "auto"
  THEN IF SpaceSize <= request.threshold THEN "exhaustive" ELSE "t-wise"
  ELSE request.strategy

Under(d, p) == Cardinality({e \in Dims : <<d, p>> \in space[e].gates})

\* The least or the most a dimension can produce: the first of equal points.
Extreme(d, minimal) ==
  CASE space[d].facet \in {"presence", "nullability"} ->
         IF minimal THEN 2 ELSE 1
    [] space[d].facet = "cardinality" -> IF minimal THEN 1 ELSE space[d].points
    [] space[d].facet = "alternative" ->
         CHOOSE p \in 1..space[d].points : \A q \in 1..space[d].points :
           LET ahead == IF minimal THEN Under(d, p) < Under(d, q)
                                   ELSE Under(d, p) > Under(d, q)
           IN  ahead \/ (Under(d, p) = Under(d, q) /\ p <= q)
    [] OTHER -> space[d].default

Boundary(minimal) == Complete([d \in Dims |-> Extreme(d, minimal)])

Selected == {variants[i].assignment : i \in DOMAIN variants}

Push(list, assignment, origin) ==
  IF \E i \in DOMAIN list : list[i].assignment = assignment THEN list
  ELSE Append(list, [assignment |-> assignment, origin |-> origin])

-----------------------------------------------------------------------------
\* The targets and the order they are taken in.

\* A dimension and its gates are required together; a target is reachable when
\* nothing is required at two points.
Requirements(target) ==
  {<<d, target[d]>> : d \in DOMAIN target}
    \cup UNION {space[d].gates : d \in DOMAIN target}

Consistent(pairs) == \A q, r \in pairs : q[1] = r[1] => q = r

AsPartial(pairs) ==
  [d \in {q[1] : q \in pairs} |-> (CHOOSE q \in pairs : q[1] = d)[2]]

Strength == IF request.strength = 0 THEN 1 ELSE request.strength

Reachable ==
  UNION {{f \in Over(space, D) : Consistent(Requirements(f))} :
           D \in {E \in SUBSET Dims : Cardinality(E) = Strength}}

Targets == {f \in Reachable : ~Excluded(f)}

CoveredBy(assignments) ==
  {target \in Targets : \E a \in assignments : Within(target, a)}

\* Combinations of dimensions in the order of the space, and the points of each
\* in their order.
TargetBefore(s, t) ==
  LET one == DOMAIN s \ DOMAIN t
      two == DOMAIN t \ DOMAIN s
  IN  \/ \E d \in one : \A e \in two : d < e
      \/ /\ DOMAIN s = DOMAIN t
         /\ \E d \in DOMAIN s : /\ s[d] < t[d]
                                /\ \A e \in DOMAIN s : e < d => s[e] = t[e]

\* The combinations one nested loop over the dimensions in a sequence goes
\* through, and the order it meets them in: a dimension a combination gives no
\* point is inactive there.
Combinations(D) == {[d \in DOMAIN v \cap D |-> v[d]] : v \in Variants}

CombinationBefore(list, a, b) ==
  \E i \in DOMAIN list :
    /\ list[i] \in DOMAIN a \cap DOMAIN b
    /\ a[list[i]] < b[list[i]]
    /\ \A j \in 1..(i - 1) :
         /\ list[j] \in DOMAIN a <=> list[j] \in DOMAIN b
         /\ list[j] \in DOMAIN a => a[list[j]] = b[list[j]]

InSpaceOrder == [d \in Dims |-> d]

FirstCombination(list, c) ==
  \A other \in pending \ {c} : CombinationBefore(list, c, other)

-----------------------------------------------------------------------------
Init ==
  /\ request \in Requests
  /\ phase = "seeds" /\ strategy = "auto"
  /\ order = << >> /\ pending = {} /\ rows = << >> /\ targets = {}
  /\ grown = 0 /\ row = 1 /\ variants = << >> /\ dropped = 0
  /\ report = [targets |-> 0, covered |-> 0, removed |-> 0, selected |-> 0]

\* The base and the boundaries, whatever the exclusions say.
Seed ==
  LET base == Push(<< >>, Complete(<< >>), "base")
  IN  /\ phase = "seeds"
      /\ strategy' = Resolved
      /\ variants' = IF request.boundaries /\ strategy' # "base-only"
                     THEN Push(Push(base, Boundary(TRUE), "boundary"),
                               Boundary(FALSE), "boundary")
                     ELSE base
      /\ phase' = "pins"
      /\ UNCHANGED <<request, order, pending, rows, targets, grown, row,
                     dropped, report>>

\* One variant extending each pin, whatever the exclusions say.
SeedPin ==
  /\ phase = "pins" /\ row <= Len(request.pins)
  /\ variants' = Push(variants, Complete(request.pins[row]), "pinned")
  /\ row' = row + 1
  /\ UNCHANGED <<request, strategy, phase, order, pending, rows, targets,
                 grown, dropped, report>>

Seeded ==
  /\ phase = "pins" /\ row > Len(request.pins)
  /\ row' = 1
  /\ phase' = CASE strategy = "base-only"  -> "report"
                [] strategy = "exhaustive" -> "listing"
                [] strategy = "t-wise"     -> "targets"
  /\ pending' = IF strategy = "exhaustive"
                THEN {v \in Variants : ~Excluded(v)} ELSE {}
  /\ UNCHANGED <<request, strategy, order, rows, targets, grown, variants,
                 dropped, report>>

\* Exhaustive: every variant of the space that no exclusion takes out.
ListVariant ==
  /\ phase = "listing"
  /\ \E v \in pending :
       /\ FirstCombination(InSpaceOrder, v)
       /\ variants' = Push(variants, v, "covering")
       /\ pending' = pending \ {v}
  /\ UNCHANGED <<request, strategy, phase, order, rows, targets, grown, row,
                 dropped, report>>

Listed ==
  /\ phase = "listing" /\ pending = {}
  /\ phase' = "report"
  /\ UNCHANGED <<request, strategy, order, pending, rows, targets, grown, row,
                 variants, dropped, report>>

\* Targets a seed covers cost nothing; without any left there is no array.
Enumerate ==
  LET left == Targets \ CoveredBy(Selected)
  IN  /\ phase = "targets"
      /\ targets' = left
      /\ phase' = IF left = {} THEN "report" ELSE "ordering"
      /\ UNCHANGED <<request, strategy, order, pending, rows, grown, row,
                     variants, dropped, report>>

Placed == {order[i] : i \in DOMAIN order}

\* The widest dimension next, the earlier of two as wide, never before one that
\* gates it.
PlaceDimension ==
  LET ready == {d \in Dims \ Placed :
                  \A g \in space[d].gates : g[1] \in Placed}
  IN  /\ phase = "ordering"
      /\ \E d \in ready :
           /\ \A e \in ready : \/ space[d].points > space[e].points
                               \/ space[d].points = space[e].points /\ d <= e
           /\ order' = Append(order, d)
      /\ UNCHANGED <<request, strategy, phase, pending, rows, targets, grown,
                     row, variants, dropped, report>>

Ordered ==
  LET t == IF Strength <= Len(order) THEN Strength ELSE Len(order)
  IN  /\ phase = "ordering" /\ Placed = Dims
      /\ pending' = Combinations({order[i] : i \in 1..t})
      /\ grown' = t
      /\ phase' = "block"
      /\ UNCHANGED <<request, strategy, order, rows, targets, row, variants,
                     dropped, report>>

\* The initial block, without what an exclusion or a seed already settles.
TakeCombination ==
  /\ phase = "block"
  /\ \E c \in pending :
       /\ FirstCombination(order, c)
       /\ pending' = pending \ {c}
       /\ rows' = IF Excluded(c) \/ \E v \in Selected : Within(c, v)
                  THEN rows ELSE Append(rows, c)
  /\ UNCHANGED <<request, strategy, phase, order, targets, grown, row,
                 variants, dropped, report>>

BlockBuilt ==
  /\ phase = "block" /\ pending = {}
  /\ phase' = IF grown < Len(order) THEN "across" ELSE "completing"
  /\ UNCHANGED <<request, strategy, order, pending, rows, targets, grown, row,
                 variants, dropped, report>>

Growing == order[grown + 1]

\* The points a row may take for the dimension that is growing.
Allowed(tau) ==
  {p \in 1..space[Growing].points : ~Excluded(With(tau, Growing, p))}

Gain(tau, p) ==
  Cardinality({target \in targets : /\ Growing \in DOMAIN target
                                    /\ Within(target, With(tau, Growing, p))})

\* Horizontal growth: a row in which the dimension is active takes the first
\* of the points that cover the most targets.
GrowAcross ==
  /\ phase = "across" /\ row <= Len(rows)
  /\ row' = row + 1
  /\ LET tau == rows[row]
     IN  IF IsActive(tau, Growing) /\ Allowed(tau) # {}
         THEN \E p \in Allowed(tau) :
                /\ \A q \in Allowed(tau) :
                     \/ Gain(tau, p) > Gain(tau, q)
                     \/ Gain(tau, p) = Gain(tau, q) /\ p <= q
                /\ rows' = [rows EXCEPT ![row] = With(tau, Growing, p)]
                /\ targets' = {target \in targets :
                                 ~Within(target, With(tau, Growing, p))}
         ELSE UNCHANGED <<rows, targets>>
  /\ UNCHANGED <<request, strategy, phase, order, pending, grown, variants,
                 dropped, report>>

\* A fault: the growing dimension is not counted as grown over.
CurrentTooEarly ==
  {target \in targets : /\ Growing \in DOMAIN target
                        /\ DOMAIN target \subseteq {order[i] : i \in 1..grown}}

\* The targets the vertical pass takes: those of the growing dimension whose
\* other dimensions have all been grown over.
Current ==
  LET processed == {order[i] : i \in 1..(grown + 1)}
  IN  {target \in targets : Growing \in DOMAIN target
                            /\ DOMAIN target \subseteq processed}

\* A row may hold a target when it gives none of its dimensions another point:
\* the gates of those dimensions are not asked.
Compatible(tau, target) ==
  \A d \in DOMAIN target : d \in DOMAIN tau => tau[d] = target[d]

Extend(tau, partial) ==
  [d \in DOMAIN tau \cup DOMAIN partial |->
     IF d \in DOMAIN tau THEN tau[d] ELSE partial[d]]

\* The vertical pass goes through the targets that are left when it begins.
GrownAcross ==
  /\ phase = "across" /\ row > Len(rows)
  /\ pending' = Current
  /\ phase' = "down"
  /\ UNCHANGED <<request, strategy, order, rows, targets, grown, row, variants,
                 dropped, report>>

\* Vertical growth: the next target goes into the first compatible row, with
\* the gates it requires where the row has none, or into a row of its own,
\* unless one of the pass's rows covers it by now.
GrowDown ==
  /\ phase = "down"
  /\ \E target \in pending :
       /\ \A other \in pending \ {target} : TargetBefore(target, other)
       /\ pending' = pending \ {target}
       /\ LET needs == AsPartial(Requirements(target))
              fits  == {i \in DOMAIN rows : Compatible(rows[i], target)}
          IN  \/ /\ target \notin targets
                 /\ UNCHANGED <<rows, targets>>
              \/ /\ target \in targets
                 /\ \/ \E i \in fits :
                         /\ \A j \in fits : i <= j
                         /\ rows' = [rows EXCEPT ![i] = Extend(rows[i], needs)]
                    \/ /\ fits = {}
                       /\ rows' = Append(rows, needs)
                 /\ targets' = {t \in targets : \A i \in DOMAIN rows' :
                                                ~Within(t, rows'[i])}
  /\ UNCHANGED <<request, strategy, phase, order, grown, row, variants, dropped,
                 report>>

GrownDown ==
  /\ phase = "down" /\ pending = {}
  /\ grown' = grown + 1
  /\ row' = 1
  /\ phase' = IF grown + 1 < Len(order) THEN "across" ELSE "completing"
  /\ UNCHANGED <<request, strategy, order, pending, rows, targets, variants,
                 dropped, report>>

\* A fault: a dimension the row holds a target by is as good as a free one.
SubstitutesOfAny(tau) ==
  {s \in Dims \X Points(space) :
     /\ s[1] \in DOMAIN Complete(tau)
     /\ s[2] <= space[s[1]].points /\ s[2] # Complete(tau)[s[1]]
     /\ ~Excluded(Complete(With(tau, s[1], s[2])))}

\* The points a dimension the row leaves free could take instead.
Substitutes(tau) ==
  {s \in Dims \X Points(space) :
     /\ s[1] \in DOMAIN Complete(tau) \ DOMAIN tau
     /\ s[2] <= space[s[1]].points /\ s[2] # Complete(tau)[s[1]]
     /\ ~Excluded(Complete(With(tau, s[1], s[2])))}

\* A row is completed with defaults, or with the first substitute that clears
\* the exclusions; a row without one is dropped.
CompleteRow ==
  /\ phase = "completing" /\ rows # << >>
  /\ rows' = Tail(rows)
  /\ LET tau == Head(rows)
     IN  \/ /\ ~Excluded(Complete(tau))
            /\ variants' = Push(variants, Complete(tau), "covering")
            /\ UNCHANGED dropped
         \/ /\ Excluded(Complete(tau))
            /\ \E s \in Substitutes(tau) :
                 /\ \A other \in Substitutes(tau) :
                      \/ s[1] < other[1]
                      \/ s[1] = other[1] /\ s[2] <= other[2]
                 /\ variants' = Push(variants, Complete(With(tau, s[1], s[2])),
                                     "covering")
            /\ UNCHANGED dropped
         \/ /\ Excluded(Complete(tau)) /\ Substitutes(tau) = {}
            /\ dropped' = dropped + 1
            /\ UNCHANGED variants
  /\ UNCHANGED <<request, strategy, phase, order, pending, targets, grown, row,
                 report>>

Completed ==
  /\ phase = "completing" /\ rows = << >>
  /\ phase' = "report"
  /\ UNCHANGED <<request, strategy, order, pending, rows, targets, grown, row,
                 variants, dropped, report>>

Less(m, n) == IF m < n THEN 0 ELSE m - n

\* A selection over its budget is refused, never cut short.
Report ==
  /\ phase = "report"
  /\ IF Len(variants) > request.budget
     THEN phase' = "refused" /\ UNCHANGED report
     ELSE /\ phase' = "done"
          /\ report' =
               IF strategy = "t-wise"
               THEN [targets  |-> Cardinality(Targets),
                     covered  |-> Less(Cardinality(Targets), dropped),
                     removed  |-> Cardinality(Reachable \ Targets),
                     selected |-> Len(variants)]
               ELSE [targets |-> 0, covered |-> 0, removed |-> 0,
                     selected |-> Len(variants)]
  /\ UNCHANGED <<request, strategy, order, pending, rows, targets, grown, row,
                 variants, dropped>>

Next ==
  \/ Seed \/ SeedPin \/ Seeded \/ ListVariant \/ Listed \/ Enumerate
  \/ PlaceDimension \/ Ordered
  \/ TakeCombination \/ BlockBuilt \/ GrowAcross \/ GrownAcross \/ GrowDown
  \/ GrownDown \/ CompleteRow \/ Completed \/ Report

Spec == Init /\ [][Next]_vars

-----------------------------------------------------------------------------
\* The state of a selection: a list of variants, and of rows that give each
\* dimension they name one of its points.
TypeOK ==
  /\ request \in Requests
  /\ phase \in {"seeds", "pins", "listing", "targets", "ordering", "block",
                "across", "down", "completing", "report", "done", "refused"}
  /\ strategy \in {"auto", "exhaustive", "t-wise", "base-only"}
  /\ order \in Seq(Dims)
  /\ pending \subseteq Partials(space) /\ targets \subseteq Targets
  /\ rows \in Seq(Partials(space))
  /\ grown \in Nat /\ row \in Nat \ {0} /\ dropped \in Nat
  /\ variants \in Seq([assignment : Partials(space),
                       origin : {"base", "boundary", "pinned", "covering"}])
  /\ DOMAIN report = {"targets", "covered", "removed", "selected"}

IsVariant(a) ==
  \A d \in Dims : d \in DOMAIN a <=> IsActive(a, d)

\* What is selected can be produced: an assignment has a point for exactly the
\* dimensions active in it, whatever row, pin or substitute it was completed
\* from; no two are the same, and only a seed may match an exclusion
\* (`complete`, `complete_avoiding_exclusions`, `push`).
SelectsVariants ==
  /\ \A i \in DOMAIN variants :
       /\ IsVariant(variants[i].assignment)
       /\ variants[i].origin = "covering" => ~Excluded(variants[i].assignment)
  /\ \A i, j \in DOMAIN variants :
       variants[i].assignment = variants[j].assignment => i = j

AllVariants == {a \in Partials(space) : IsVariant(a)}

\* An exhaustive selection leaves out what is excluded and nothing else,
\* however the dimensions gate one another (`enumerate_all`).
NothingLeftOut ==
  phase = "done" /\ strategy = "exhaustive" =>
    \A a \in AllVariants : Excluded(a) \/ a \in Selected

\* The size that chose the strategy counts the variants there are, gated
\* dimensions included (`space_size`, `weight`).
SizeIsExact == SpaceSize = Cardinality(AllVariants)

\* Where no dimension gates another and no row had to be dropped, the covering
\* array covers: every target is in a selected variant (`ipog`).
PairsAreExercised ==
  phase = "done" /\ strategy = "t-wise" /\ dropped = 0
    /\ (\A d \in Dims : space[d].gates = {})
  => CoveredBy(Selected) = Targets

\* When the rows have grown over every dimension, each target is in one of them
\* or in a seed, whatever gates its dimensions: none is put off past the turn of
\* its last dimension, and none is lost in a row that is only thought to take it
\* (`ipog`, steps 3 and 4).
TargetsArePlaced ==
  [][phase # "completing" /\ phase' = "completing" =>
       \A target \in Targets :
         \/ \E i \in DOMAIN rows' : Within(target, rows'[i])
         \/ \E v \in Selected : Within(target, v)]_vars

\* Not kept: "It MUST NOT report a coverage figure it did not compute"
\* (Documentation/specs/variant-semantics/spec.md).  The report subtracts the
\* rows it dropped from the targets there were; a row that took a gated
\* dimension's point without its gate loses it on completion.
CoverageIsComputed ==
  phase = "done" /\ strategy = "t-wise" =>
    report.covered = Cardinality(CoveredBy(Selected))
====
