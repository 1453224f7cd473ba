---------------------------- MODULE ShapeRecorder ----------------------------
(***************************************************************************)
(* The recorder of provider shapes (engine/kernel/src/subsumption/         *)
(* record.rs): the evidence each position of the observed values adds up   *)
(* to, and the shape emitted from it.                                      *)
(***************************************************************************)
EXTENDS Shapes

CONSTANTS
  MaxOptions,   \* beyond this many distinct values a position is open
  MinEvidence   \* below this many scalars, never repeating shows nothing

ASSUME PolicyAssumption == MaxOptions \in Nat /\ MinEvidence \in Nat

----------------------------------------------------------------------------
(* Evidence: how often a position was seen, how often null, which literals *)
(* and kinds of scalar, and the objects and the arrays seen there.         *)

NoEvidence ==
  [seen |-> 0, nulls |-> 0, scalars |-> 0, literals |-> {}, kinds |-> {},
   object |-> {}, array |-> {}]

\* What the counts and the sets of one position tell of each other.
Consistent(e) ==
  /\ e.nulls <= e.seen
  /\ e.scalars > 0 \/ e.object # {} \/ e.array # {} => e.nulls < e.seen
  /\ \A o \in e.object, n \in Name : o.members[n].seen <= o.count
  /\ IsFiniteSet(e.literals)
  /\ \A l, m \in e.literals : SameValue(l, m) => l = m
  /\ e.scalars > 0 => e.literals # {} /\ e.kinds # {}
  /\ \A a \in e.array : a.lengths # {} /\ IsFiniteSet(a.lengths)
  /\ \A o, q \in e.object : o = q
  /\ \A a, b \in e.array : a = b

\* The evidence of values at most n levels deep, over that of the level below.
EvidenceOver(inner) ==
  {e \in [seen : Nat, nulls : Nat, scalars : Nat, literals : SUBSET Scalar,
          kinds : SUBSET {"boolean", "integer", "decimal", "string"},
          object : SUBSET [count : Nat, members : [Name -> inner]],
          array : SUBSET [lengths : SUBSET Nat, items : inner]] : Consistent(e)}

EvidenceTo[n \in Nat] == EvidenceOver(IF n = 0 THEN {NoEvidence} ELSE EvidenceTo[n - 1])

Evidence == EvidenceTo[Depth]

\* Two spellings of one number are one literal, the first.
WithLiteral(literals, v) ==
  IF \E l \in literals : SameValue(l, v) THEN literals ELSE literals \cup {v}

ObjectOf(e) ==
  IF e.object = {} THEN [count |-> 0, members |-> [n \in Name |-> NoEvidence]]
  ELSE CHOOSE o \in e.object : TRUE

ArrayOf(e) ==
  IF e.array = {} THEN [lengths |-> {}, items |-> NoEvidence]
  ELSE CHOOSE a \in e.array : TRUE

\* One more value at a position; `observing` observes the values below.
Observing(observing, v, e) ==
  LET object == ObjectOf(e)
      array  == ArrayOf(e)
      seen   == [e EXCEPT !.seen = @ + 1]
      items[i \in 0..Len(v.items)] ==
        IF i = 0 THEN array.items ELSE observing[<<v.items[i], items[i - 1]>>]
  IN
  CASE v.is = "null"   -> [seen EXCEPT !.nulls = @ + 1]
    [] v.is = "object" ->
         [seen EXCEPT !.object =
            {[count   |-> object.count + 1,
              members |-> [n \in Name |->
                 IF n \in MemberNames(v) THEN observing[<<v.members[n], object.members[n]>>]
                 ELSE object.members[n]]]}]
    [] v.is = "array"  ->
         [seen EXCEPT !.array =
            {[lengths |-> array.lengths \cup {Len(v.items)}, items |-> items[Len(v.items)]]}]
    [] OTHER ->
         [seen EXCEPT !.scalars  = @ + 1,
                      !.literals = WithLiteral(@, v),
                      !.kinds    = @ \cup {IF v.is = "number" THEN v.written ELSE v.is}]

observing[x \in Present \X Evidence] == Observing(observing, x[1], x[2])

Observed(e, v) == observing[<<v, e>>]

----------------------------------------------------------------------------
(* The shape the evidence adds up to.                                      *)

Bare(op)   == [op |-> op, example |-> {}]
Kind(kind, example) == [op |-> "kind", kind |-> kind, example |-> example]

\* Whether the literals are a set the provider chooses from, or samples.
KeepsLiterals(e) ==
  LET distinct == Cardinality(e.literals)
  IN  distinct <= MaxOptions /\ ~(distinct = e.scalars /\ e.scalars >= MinEvidence)

\* The code lists literals by their text; any order stands for that one here.
ScalarShape(e) ==
  LET options == SetToSeq(e.literals)
      first   == {options[1]}
      kind    == IF e.kinds = {"integer", "decimal"} THEN "number"
                 ELSE CHOOSE k \in e.kinds : TRUE
  IN  IF e.kinds = {"boolean"} /\ Len(options) = 2 THEN Kind("boolean", {})
      ELSE IF KeepsLiterals(e)
      THEN IF Len(options) = 1 THEN [op |-> "equality", example |-> first]
           ELSE [op |-> "any-of", options |-> options, example |-> first]
      ELSE IF Cardinality(e.kinds) = 1 \/ kind = "number" THEN Kind(kind, first)
      ELSE Bare("any")

\* Mutant of Presence: a member seen in some of the objects is in all of them.
PresenceAlways(shape, e, count) == shape

\* A member that was not in every object is optional.
Presence(shape, e, count) ==
  IF e.seen < count THEN [op |-> "optional", of |-> shape, example |-> {}] ELSE shape

\* What an object, an array or a value adds up to; `toShape` gives the shapes
\* below.
ObjectShape(toShape, object) ==
  LET MemberShape(n) ==
        LET shapes == toShape[object.members[n]]
        IN  IF shapes = {} THEN None
            ELSE Presence(CHOOSE s \in shapes : TRUE, object.members[n], object.count)
  IN  [op |-> "object", example |-> {}, members |-> [n \in Name |-> MemberShape(n)]]

ArrayShape(toShape, array) ==
  LET items == toShape[array.items]
  IN  [op |-> "each-like", example |-> {},
       min |-> Min(array.lengths), max |-> {Max(array.lengths)},
       items |-> IF items = {} THEN Bare("any") ELSE CHOOSE s \in items : TRUE]

ValueShape(toShape, e) ==
  LET kinds == {k \in {"object", "array", "scalar"} :
                  \/ k = "object" /\ e.object # {}
                  \/ k = "array"  /\ e.array # {}
                  \/ k = "scalar" /\ e.scalars > 0}
  IN  CASE kinds = {"object"} -> ObjectShape(toShape, ObjectOf(e))
        [] kinds = {"array"}  -> ArrayShape(toShape, ArrayOf(e))
        [] kinds = {"scalar"} -> ScalarShape(e)
        [] OTHER -> Bare("any")

\* The shape of a position, or nothing for one never reached.
Emitted(toShape, e) ==
  IF e.seen = 0 THEN {}
  ELSE IF e.seen = e.nulls THEN {Kind("null", {})}
  ELSE IF e.nulls > 0
  THEN {[op |-> "nullable", of |-> ValueShape(toShape, e), example |-> {}]}
  ELSE {ValueShape(toShape, e)}

toShape[e \in Evidence] == Emitted(toShape, e)

ToShape(e) == toShape[e]
=============================================================================
