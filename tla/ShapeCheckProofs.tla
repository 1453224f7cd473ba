---------------------------- MODULE ShapeCheckProofs ----------------------------
(***************************************************************************)
(* What holds of a provider's recorded shape and of the check against a    *)
(* consumer's, whatever the observations, the shapes and the exclusions.   *)
(*                                                                         *)
(* The argument rests on what SubsumptionProofs shows of the walk:         *)
(*   - the recorder: that what is observed is evidence, that it adds up to *)
(*     a shape the parser reads, that evidence holds each value it was     *)
(*     given and keeps it, and that the shape admits each value it holds   *)
(*     (ShapeRecorder);                                                    *)
(*   - production: that a variant settles the dimensions that are open     *)
(*     under it, and that a node under a settled assignment is produced as *)
(*     a value that it admits (ShapeGeneration);                           *)
(*   - the check from end to end: CheckInv and RecordInv, which are        *)
(*     inductive, and the theorems (ShapeCheck, Compatibility).            *)
(***************************************************************************)
EXTENDS SubsumptionProofs, ShapeGeneration

-----------------------------------------------------------------------------
\* Evidence, level by level.

NoneBelow == {NoEvidence}

\* The evidence of a level is that over the level below.
EvidenceStage(n, f) ==
  f = [m \in 0..n |-> EvidenceOver(IF m = 0 THEN NoneBelow ELSE f[m - 1])]

\* There is such a function to every level, and they agree.
LEMMA EvidenceStages ==
  /\ \A n \in Nat : \E f : EvidenceStage(n, f)
  /\ \A m \in Nat : \A n, k \in Nat : \A f, g :
       m <= n /\ m <= k /\ EvidenceStage(n, f) /\ EvidenceStage(k, g) => f[m] = g[m]
<1> DEFINE Staged == {n \in Nat : \E f : EvidenceStage(n, f)}
           Agreed == {m \in Nat : \A n, k \in Nat : \A f, g :
                        m <= n /\ m <= k /\ EvidenceStage(n, f) /\ EvidenceStage(k, g) => f[m] = g[m]}
<1>1. ASSUME NEW n \in Nat, \A m \in Nat : m < n => m \in Staged PROVE n \in Staged
  <2>1. CASE n = 0
    <3>1. EvidenceStage(0, [m \in 0..0 |-> EvidenceOver(NoneBelow)])
      BY DEF EvidenceStage
    <3> QED BY <2>1, <3>1
  <2>2. CASE n # 0
    <3>1. n - 1 \in Nat /\ n - 1 < n
      BY <2>2
    <3>2. PICK f : EvidenceStage(n - 1, f)
      BY <1>1, <3>1
    <3> DEFINE g == [m \in 0..n |-> IF m = n THEN EvidenceOver(f[n - 1]) ELSE f[m]]
    <3>3. ASSUME NEW m \in 0..n PROVE g[m] = EvidenceOver(IF m = 0 THEN NoneBelow ELSE g[m - 1])
      <4>1. CASE m = n
        BY <2>2, <3>1, <4>1
      <4>2. CASE m # n
        <5>1. m \in 0..(n - 1) /\ (m # 0 => m - 1 \in 0..n /\ m - 1 # n)
          BY <3>1, <4>2
        <5>2. g[m] = f[m] /\ (m # 0 => g[m - 1] = f[m - 1])
          BY <4>2, <5>1
        <5>3. f[m] = EvidenceOver(IF m = 0 THEN NoneBelow ELSE f[m - 1])
          BY <3>2, <5>1 DEF EvidenceStage
        <5> QED BY <5>2, <5>3
      <4> QED BY <4>1, <4>2
    <3>4. g = [m \in 0..n |-> g[m]]
      OBVIOUS
    <3> HIDE DEF g
    <3>5. g = [m \in 0..n |-> EvidenceOver(IF m = 0 THEN NoneBelow ELSE g[m - 1])]
      BY <3>3, <3>4
    <3> QED BY <3>5 DEF EvidenceStage
  <2> QED BY <2>1, <2>2
<1>2. ASSUME NEW m \in Nat, \A j \in Nat : j < m => j \in Agreed PROVE m \in Agreed
  <2> SUFFICES ASSUME NEW n \in Nat, NEW k \in Nat, NEW f, NEW g, m <= n, m <= k,
                      EvidenceStage(n, f), EvidenceStage(k, g)
               PROVE  f[m] = g[m]
    OBVIOUS
  <2>1. /\ f[m] = EvidenceOver(IF m = 0 THEN NoneBelow ELSE f[m - 1])
        /\ g[m] = EvidenceOver(IF m = 0 THEN NoneBelow ELSE g[m - 1])
    BY DEF EvidenceStage
  <2>2. ASSUME m # 0 PROVE f[m - 1] = g[m - 1]
    <3>1. m - 1 \in Nat /\ m - 1 < m /\ m - 1 <= n /\ m - 1 <= k
      BY <2>2
    <3>2. m - 1 \in Agreed
      BY <1>2, <3>1
    <3> QED BY <3>1, <3>2
  <2> QED BY <2>1, <2>2
<1> HIDE DEF Staged, Agreed
<1>3. Staged = Nat
  <2>1. Staged \in SUBSET Nat
    BY DEF Staged
  <2> QED BY <1>1, <2>1, Induction
<1>4. Agreed = Nat
  <2>1. Agreed \in SUBSET Nat
    BY DEF Agreed
  <2> QED BY <1>2, <2>1, Induction
<1> QED BY <1>3, <1>4 DEF Staged, Agreed

\* The evidence of each level is that over the level below.
LEMMA EvidenceLevels ==
  \A n \in Nat : EvidenceTo[n] = EvidenceOver(IF n = 0 THEN NoneBelow ELSE EvidenceTo[n - 1])
<1> DEFINE Stage(n) == CHOOSE f : EvidenceStage(n, f)
           h == [n \in Nat |-> Stage(n)[n]]
<1>1. \A n \in Nat : EvidenceStage(n, Stage(n))
  BY EvidenceStages
<1> HIDE DEF Stage
<1>2. ASSUME NEW n \in Nat PROVE h[n] = EvidenceOver(IF n = 0 THEN NoneBelow ELSE h[n - 1])
  <2>1. h[n] = EvidenceOver(IF n = 0 THEN NoneBelow ELSE Stage(n)[n - 1])
    BY <1>1 DEF EvidenceStage
  <2>2. ASSUME n # 0 PROVE Stage(n)[n - 1] = h[n - 1]
    <3>1. n - 1 \in Nat /\ n - 1 <= n
      BY <2>2
    <3>2. Stage(n)[n - 1] = Stage(n - 1)[n - 1]
      BY <1>1, <3>1, EvidenceStages
    <3> QED BY <3>1, <3>2
  <2> QED BY <2>1, <2>2
<1>3. h = [n \in Nat |-> h[n]]
  OBVIOUS
<1> HIDE DEF h
<1>4. h = [n \in Nat |-> EvidenceOver(IF n = 0 THEN NoneBelow ELSE h[n - 1])]
  BY <1>2, <1>3
<1>5. EvidenceTo = [n \in Nat |-> EvidenceOver(IF n = 0 THEN NoneBelow ELSE EvidenceTo[n - 1])]
  BY <1>4 DEF EvidenceTo, NoneBelow
<1> QED BY <1>5

\* What the fields of evidence are.
Counted(inner, e) ==
  /\ e.seen \in Nat /\ e.nulls \in Nat /\ e.scalars \in Nat
  /\ e.literals \subseteq Scalar /\ e.kinds \subseteq {"boolean", "integer", "decimal", "string"}
  /\ e.object \subseteq [count : Nat, members : [Name -> inner]]
  /\ e.array \subseteq [lengths : SUBSET Nat, items : inner]
  /\ Consistent(e)

\* The record of its fields.
Fields(e) ==
  [seen |-> e.seen, nulls |-> e.nulls, scalars |-> e.scalars, literals |-> e.literals,
   kinds |-> e.kinds, object |-> e.object, array |-> e.array]

\* Evidence is the record of its fields.
LEMMA EvidenceCases ==
  ASSUME NEW inner, NEW e \in EvidenceOver(inner)
  PROVE  Counted(inner, e) /\ e = Fields(e)
BY DEF EvidenceOver, Counted, Fields

\* The record of such fields is evidence.
LEMMA EvidenceIntro ==
  ASSUME NEW inner, NEW e, e = Fields(e), Counted(inner, e)
  PROVE  e \in EvidenceOver(inner)
BY DEF EvidenceOver, Counted, Fields

\* No evidence is evidence of every level.
LEMMA NothingSeen ==
  ASSUME NEW inner
  PROVE  NoEvidence \in EvidenceOver(inner)
<1>1. IsFiniteSet({})
  BY FS_EmptySet
<1>2. Counted(inner, NoEvidence)
  BY <1>1 DEF Counted, NoEvidence, Consistent
<1>3. NoEvidence = Fields(NoEvidence)
  BY DEF NoEvidence, Fields
<1> QED BY <1>2, <1>3, EvidenceIntro

\* Over more evidence there is more.
LEMMA EvidenceOverGrows ==
  ASSUME NEW A, NEW B, A \subseteq B
  PROVE  EvidenceOver(A) \subseteq EvidenceOver(B)
<1> SUFFICES ASSUME NEW e \in EvidenceOver(A) PROVE e \in EvidenceOver(B)
  OBVIOUS
<1>1. Counted(A, e) /\ e = Fields(e)
  BY EvidenceCases
<1>2. [Name -> A] \subseteq [Name -> B]
  OBVIOUS
<1>3. /\ [count : Nat, members : [Name -> A]] \subseteq [count : Nat, members : [Name -> B]]
      /\ [lengths : SUBSET Nat, items : A] \subseteq [lengths : SUBSET Nat, items : B]
  BY <1>2
<1>4. Counted(B, e)
  BY <1>1, <1>3 DEF Counted
<1> QED BY <1>1, <1>4, EvidenceIntro

\* A level holds the ones below.
LEMMA EvidenceGrows ==
  \A n \in Nat : \A m \in Nat : m <= n => EvidenceTo[m] \subseteq EvidenceTo[n]
<1> DEFINE Q == {n \in Nat : EvidenceTo[n] \subseteq EvidenceTo[n + 1]}
<1>2. ASSUME NEW n \in Nat, \A m \in Nat : m < n => m \in Q PROVE n \in Q
  <2>1. /\ EvidenceTo[n] = EvidenceOver(IF n = 0 THEN NoneBelow ELSE EvidenceTo[n - 1])
        /\ EvidenceTo[n + 1] = EvidenceOver(EvidenceTo[n])
    BY EvidenceLevels
  <2>2. (IF n = 0 THEN NoneBelow ELSE EvidenceTo[n - 1]) \subseteq EvidenceTo[n]
    <3>1. CASE n = 0
      BY <2>1, <3>1, NothingSeen DEF NoneBelow
    <3>2. CASE n # 0
      <4>1. n - 1 \in Nat /\ n - 1 < n /\ (n - 1) + 1 = n
        BY <3>2
      <4>2. n - 1 \in Q
        BY <1>2, <4>1
      <4> QED BY <3>2, <4>1, <4>2
    <3> QED BY <3>1, <3>2
  <2> QED BY <2>1, <2>2, EvidenceOverGrows
<1>3. Q = Nat
  <2> HIDE DEF Q
  <2>1. Q \in SUBSET Nat
    BY DEF Q
  <2> QED BY <1>2, <2>1, Induction
<1> DEFINE P == {n \in Nat : \A m \in Nat : m <= n => EvidenceTo[m] \subseteq EvidenceTo[n]}
<1>4. ASSUME NEW n \in Nat, \A m \in Nat : m < n => m \in P PROVE n \in P
  <2> SUFFICES ASSUME NEW m \in Nat, m <= n PROVE EvidenceTo[m] \subseteq EvidenceTo[n]
    OBVIOUS
  <2>1. CASE m = n
    BY <2>1
  <2>2. CASE m < n
    <3>1. n - 1 \in Nat /\ n - 1 < n /\ (n - 1) + 1 = n /\ m <= n - 1
      BY <2>2
    <3>2. n - 1 \in P /\ n - 1 \in Q
      BY <1>3, <1>4, <3>1
    <3>3. EvidenceTo[m] \subseteq EvidenceTo[n - 1] /\ EvidenceTo[n - 1] \subseteq EvidenceTo[n]
      BY <3>1, <3>2
    <3> QED BY <3>3
  <2> QED BY <2>1, <2>2
<1>5. P = Nat
  <2> HIDE DEF P
  <2>1. P \in SUBSET Nat
    BY DEF P
  <2> QED BY <1>4, <2>1, Induction
<1> QED BY <1>5

EvidenceBelow(n) == IF n = 0 THEN NoneBelow ELSE EvidenceTo[n - 1]

\* A level of evidence, the one below it, and that no evidence is in both.
LEMMA EvidenceBelowFacts ==
  ASSUME NEW n \in Nat
  PROVE  /\ EvidenceTo[n] = EvidenceOver(EvidenceBelow(n))
         /\ NoEvidence \in EvidenceTo[n] /\ NoEvidence \in EvidenceBelow(n)
         /\ EvidenceBelow(n) \subseteq EvidenceTo[n]
         /\ n <= Depth => EvidenceTo[n] \subseteq Evidence /\ EvidenceBelow(n) \subseteq Evidence
<1>1. EvidenceTo[n] = EvidenceOver(EvidenceBelow(n))
  BY EvidenceLevels DEF EvidenceBelow
<1>2. NoEvidence \in EvidenceTo[n]
  BY <1>1, NothingSeen
<1>3. n # 0 => n - 1 \in Nat /\ n - 1 <= n
  OBVIOUS
<1>4. NoEvidence \in EvidenceBelow(n)
  <2>1. n # 0 => EvidenceTo[n - 1] = EvidenceOver(EvidenceBelow(n - 1))
    BY <1>3, EvidenceLevels DEF EvidenceBelow
  <2> QED BY <2>1, NothingSeen DEF EvidenceBelow, NoneBelow
<1>5. EvidenceBelow(n) \subseteq EvidenceTo[n]
  BY <1>2, <1>3, EvidenceGrows DEF EvidenceBelow, NoneBelow
<1>6. n <= Depth => EvidenceTo[n] \subseteq Evidence
  BY DepthIsNat, EvidenceGrows DEF Evidence
<1> QED BY <1>1, <1>2, <1>4, <1>5, <1>6

-----------------------------------------------------------------------------
\* One more value at a position.

\* The evidence of a list's items, one after the other.
ItemsFrom(f, list, start) ==
  CHOOSE h : h = [i \in 0..Len(list) |-> IF i = 0 THEN start ELSE f[<<list[i], h[i - 1]>>]]

\* What a value adds to the evidence of its position.
After(e, nulls, scalars, literals, kinds, object, array) ==
  [seen |-> e.seen + 1, nulls |-> nulls, scalars |-> scalars, literals |-> literals,
   kinds |-> kinds, object |-> object, array |-> array]

MembersFrom(f, v, e) ==
  [n \in Name |-> IF n \in MemberNames(v) THEN f[<<v.members[n], ObjectOf(e).members[n]>>]
                  ELSE ObjectOf(e).members[n]]

\* What a value adds, kind by kind.
LEMMA ObservingCases ==
  ASSUME NEW f, NEW v \in Present, NEW e, e = Fields(e)
  PROVE  /\ v.is = "null" =>
              Observing(f, v, e) =
                After(e, e.nulls + 1, e.scalars, e.literals, e.kinds, e.object, e.array)
         /\ v.is = "object" =>
              Observing(f, v, e) =
                After(e, e.nulls, e.scalars, e.literals, e.kinds,
                      {[count |-> ObjectOf(e).count + 1, members |-> MembersFrom(f, v, e)]}, e.array)
         /\ v.is = "array" =>
              Observing(f, v, e) =
                After(e, e.nulls, e.scalars, e.literals, e.kinds, e.object,
                      {[lengths |-> ArrayOf(e).lengths \cup {Len(v.items)},
                        items |-> ItemsFrom(f, v.items, ArrayOf(e).items)[Len(v.items)]]})
         /\ v.is \notin {"null", "object", "array"} =>
              Observing(f, v, e) =
                After(e, e.nulls, e.scalars + 1, WithLiteral(e.literals, v),
                      e.kinds \cup {IF v.is = "number" THEN v.written ELSE v.is}, e.object, e.array)
<1> DEFINE seen == [e EXCEPT !.seen = @ + 1]
<1>0. seen = After(e, e.nulls, e.scalars, e.literals, e.kinds, e.object, e.array)
  BY DEF Fields, After
<1>1. CASE v.is = "null"
  BY <1>1, <1>0 DEF Observing, After
<1>2. CASE v.is = "object"
  BY <1>2, <1>0 DEF Observing, After, MembersFrom
<1>3. CASE v.is = "array"
  BY <1>3, <1>0 DEF Observing, After, ItemsFrom
<1>4. CASE v.is \notin {"null", "object", "array"}
  BY <1>4, <1>0 DEF Observing, After
<1> QED BY <1>1, <1>2, <1>3, <1>4

Stays(f, A, T) == \A a \in A, t \in T : f[<<a, t>>] \in T
AgreeOn(f, g, A, T) == \A a \in A, t \in T : f[<<a, t>>] = g[<<a, t>>]

\* One observation is counted as one.
CountsOne(f, A, T) == \A a \in A, t \in T : f[<<a, t>>].seen = t.seen + 1

StepsOf(h, f, T, list, start) ==
  /\ h \in [0..Len(list) -> T] /\ h[0] = start
  /\ \A i \in 1..Len(list) : h[i] = f[<<list[i], h[i - 1]>>]

\* Each step of the list's evidence comes of the one before.
LEMMA ItemsFacts ==
  ASSUME NEW f, NEW A, NEW T, Stays(f, A, T), NEW list \in Seq(A), NEW start \in T
  PROVE  StepsOf(ItemsFrom(f, list, start), f, T, list, start)
<1>a. \A a \in A, t \in T : f[<<a, t>>] \in T
  BY DEF Stays
<1> DEFINE n == Len(list)
           S == 0..n
           rank == [i \in S |-> i]
           D == [h \in [S -> T] |-> [i \in S |-> IF i = 0 THEN start ELSE f[<<list[i], h[i - 1]>>]]]
<1>0. n \in Nat
  OBVIOUS
<1>1. rank \in [S -> Nat]
  BY <1>0
<1>2. ASSUME NEW h \in [S -> T], NEW i \in S, i # 0
      PROVE  i \in Nat /\ i - 1 \in S /\ i - 1 < i /\ list[i] \in A /\ h[i - 1] \in T
  <2>1. i \in 1..n /\ i - 1 \in S /\ i - 1 < i /\ i \in Nat
    BY <1>0, <1>2
  <2>2. list[i] \in A
    BY <2>1
  <2> HIDE DEF S
  <2> QED BY <2>1, <2>2
<1>3. D \in [[S -> T] -> [S -> T]]
  <2>1. ASSUME NEW h \in [S -> T], NEW i \in S
        PROVE  (IF i = 0 THEN start ELSE f[<<list[i], h[i - 1]>>]) \in T
    BY <1>a, <1>2, <2>1
  <2> HIDE DEF S
  <2> QED BY <2>1
<1>4. ASSUME NEW h \in [S -> T], NEW k \in [S -> T], NEW i \in S,
             \A j \in S : rank[j] < rank[i] => h[j] = k[j]
      PROVE  D[h][i] = D[k][i]
  <2>1. CASE i = 0
    BY <2>1
  <2>2. CASE i # 0
    <3>1. i - 1 \in S /\ rank[i - 1] < rank[i]
      BY <1>2, <2>2
    <3>2. h[i - 1] = k[i - 1]
      BY <1>4, <3>1
    <3> HIDE DEF S
    <3> QED BY <2>2, <3>2
  <2> QED BY <2>1, <2>2
<1>5. PICK h \in [S -> T] : h = D[h]
  <2> HIDE DEF S, rank, D
  <2>1. Recurs(S, T, rank, D)
    BY <1>1, <1>3, <1>4 DEF Recurs
  <2> QED BY <2>1, Recursion
<1>6. h = [i \in 0..Len(list) |-> IF i = 0 THEN start ELSE f[<<list[i], h[i - 1]>>]]
  BY <1>5
<1> DEFINE k == ItemsFrom(f, list, start)
<1>7. k = [i \in 0..Len(list) |-> IF i = 0 THEN start ELSE f[<<list[i], k[i - 1]>>]]
  BY <1>6 DEF ItemsFrom
<1> HIDE DEF k
<1>8. k[0] = start
  BY <1>0, <1>7
<1>9. ASSUME NEW i \in 1..Len(list) PROVE k[i] = f[<<list[i], k[i - 1]>>]
  <2>1. i \in 0..Len(list) /\ i # 0
    BY <1>0
  <2> QED BY <1>7, <2>1
<1> DEFINE Q == {i \in Nat : i \in S => k[i] \in T}
<1>10. ASSUME NEW i \in Nat, \A j \in Nat : j < i => j \in Q PROVE i \in Q
  <2>1. CASE i = 0
    BY <1>8, <2>1
  <2>2. CASE i # 0 /\ i \in S
    <3>1. i \in 1..Len(list) /\ i - 1 \in Nat /\ i - 1 < i /\ i - 1 \in S
      BY <1>0, <2>2
    <3>2. k[i - 1] \in T
      BY <1>10, <3>1
    <3>3. list[i] \in A
      BY <3>1
    <3> QED BY <1>a, <1>9, <3>1, <3>2, <3>3
  <2>3. CASE i \notin S
    BY <2>3
  <2> QED BY <2>1, <2>2, <2>3
<1>11. Q = Nat
  <2> HIDE DEF Q
  <2>1. Q \in SUBSET Nat
    BY DEF Q
  <2> QED BY <1>10, <2>1, Induction
<1>12. \A i \in 0..Len(list) : k[i] \in T
  BY <1>0, <1>11
<1>13. k = [i \in 0..Len(list) |-> k[i]]
  BY <1>7
<1>14. k \in [0..Len(list) -> T]
  BY <1>12, <1>13
<1> QED BY <1>8, <1>9, <1>14 DEF k, StepsOf

\* It reads only what its items are observed as.
LEMMA ItemsAlike ==
  ASSUME NEW f, NEW g, NEW A, NEW T, Stays(f, A, T), AgreeOn(f, g, A, T),
         NEW list \in Seq(A), NEW start \in T
  PROVE  ItemsFrom(f, list, start)[Len(list)] = ItemsFrom(g, list, start)[Len(list)]
<1> DEFINE h == ItemsFrom(f, list, start)
           k == ItemsFrom(g, list, start)
           Q == {i \in Nat : i <= Len(list) => h[i] = k[i]}
<1>0. Len(list) \in Nat
  OBVIOUS
<1>a. Stays(g, A, T)
  BY DEF Stays, AgreeOn
<1>b. StepsOf(h, f, T, list, start) /\ StepsOf(k, g, T, list, start)
  BY <1>a, ItemsFacts
<1> HIDE DEF h, k
<1>1. /\ h \in [0..Len(list) -> T] /\ h[0] = start
      /\ \A i \in 1..Len(list) : h[i] = f[<<list[i], h[i - 1]>>]
  BY <1>b DEF StepsOf
<1>2. /\ k[0] = start
      /\ \A i \in 1..Len(list) : k[i] = g[<<list[i], k[i - 1]>>]
  BY <1>b DEF StepsOf
<1>3. ASSUME NEW i \in Nat, \A j \in Nat : j < i => j \in Q PROVE i \in Q
  <2>1. CASE i = 0
    BY <1>1, <1>2, <2>1
  <2>2. CASE i # 0 /\ i <= Len(list)
    <3>1. i \in 1..Len(list) /\ i - 1 \in Nat /\ i - 1 < i /\ i - 1 \in 0..Len(list)
          /\ i - 1 <= Len(list)
      BY <1>0, <2>2
    <3>2. h[i - 1] = k[i - 1]
      BY <1>3, <3>1
    <3>3. list[i] \in A /\ h[i - 1] \in T
      BY <1>1, <3>1
    <3>4. h[i] = f[<<list[i], h[i - 1]>>] /\ k[i] = g[<<list[i], h[i - 1]>>]
      BY <1>1, <1>2, <3>1, <3>2
    <3> QED BY <3>3, <3>4 DEF AgreeOn
  <2>3. CASE ~(i <= Len(list))
    BY <2>3
  <2> QED BY <2>1, <2>2, <2>3
<1>4. Q = Nat
  <2> HIDE DEF Q
  <2>1. Q \in SUBSET Nat
    BY DEF Q
  <2> QED BY <1>3, <2>1, Induction
<1>5. h[Len(list)] = k[Len(list)]
  BY <1>0, <1>4
<1> QED BY <1>5 DEF h, k

-----------------------------------------------------------------------------
\* What is observed is evidence.

\* A set of literals, none of them the same, stays one with one more.
LEMMA WithLiteralFacts ==
  ASSUME NEW literals, literals \subseteq Scalar, IsFiniteSet(literals),
         \A l, m \in literals : SameValue(l, m) => l = m, NEW v \in Scalar
  PROVE  /\ WithLiteral(literals, v) \subseteq Scalar /\ IsFiniteSet(WithLiteral(literals, v))
         /\ \A l, m \in WithLiteral(literals, v) : SameValue(l, m) => l = m
         /\ WithLiteral(literals, v) # {}
<1>1. CASE \E l \in literals : SameValue(l, v)
  BY <1>1 DEF WithLiteral
<1>2. CASE ~\E l \in literals : SameValue(l, v)
  <2>1. WithLiteral(literals, v) = literals \cup {v}
    BY <1>2 DEF WithLiteral
  <2>2. IsFiniteSet(literals \cup {v})
    BY FS_AddElement
  <2>3. ASSUME NEW l \in literals PROVE ~SameValue(l, v) /\ ~SameValue(v, l)
    <3>1. l \in Value /\ v \in Value
      BY ScalarsPresent
    <3> QED BY <1>2, <3>1, EqualSymmetric
  <2> QED BY <2>1, <2>2, <2>3
<1> QED BY <1>1, <1>2

\* The object and the array of a position, or those of one that has seen neither.
LEMMA PartsOf ==
  ASSUME NEW inner, NoEvidence \in inner, NEW e, Counted(inner, e)
  PROVE  /\ ObjectOf(e).count \in Nat /\ ObjectOf(e).members \in [Name -> inner]
         /\ ArrayOf(e).lengths \subseteq Nat /\ IsFiniteSet(ArrayOf(e).lengths)
         /\ ArrayOf(e).items \in inner
<1>1. ObjectOf(e).count \in Nat /\ ObjectOf(e).members \in [Name -> inner]
  <2>1. CASE e.object = {}
    BY <2>1 DEF ObjectOf
  <2>2. CASE e.object # {}
    <3>1. ObjectOf(e) \in e.object
      BY <2>2 DEF ObjectOf
    <3>2. ObjectOf(e) \in [count : Nat, members : [Name -> inner]]
      BY <3>1 DEF Counted
    <3> QED BY <3>2
  <2> QED BY <2>1, <2>2
<1>2. /\ ArrayOf(e).lengths \subseteq Nat /\ IsFiniteSet(ArrayOf(e).lengths)
      /\ ArrayOf(e).items \in inner
  <2>1. CASE e.array = {}
    BY <2>1, FS_EmptySet DEF ArrayOf
  <2>2. CASE e.array # {}
    <3>1. ArrayOf(e) \in e.array
      BY <2>2 DEF ArrayOf
    <3>2. ArrayOf(e) \in [lengths : SUBSET Nat, items : inner] /\ IsFiniteSet(ArrayOf(e).lengths)
      BY <3>1 DEF Counted, Consistent
    <3> QED BY <3>2
  <2> QED BY <2>1, <2>2
<1> QED BY <1>1, <1>2

\* A member is seen at most as often as its object.
LEMMA MemberCounts ==
  ASSUME NEW inner, NoEvidence \in inner, \A d \in inner : d.seen \in Nat,
         NEW e, Counted(inner, e), NEW n \in Name
  PROVE  /\ ObjectOf(e).members[n] \in inner /\ ObjectOf(e).members[n].seen \in Nat
         /\ ObjectOf(e).members[n].seen <= ObjectOf(e).count
<1>1. ObjectOf(e).members \in [Name -> inner]
  BY PartsOf
<1>2. ObjectOf(e).members[n] \in inner
  BY <1>1
<1>3. CASE e.object = {}
  BY <1>2, <1>3 DEF ObjectOf, NoEvidence
<1>4. CASE e.object # {}
  <2>1. ObjectOf(e) \in e.object
    BY <1>4 DEF ObjectOf
  <2> QED BY <1>2, <2>1 DEF Counted, Consistent
<1> QED BY <1>3, <1>4

\* The counts of the evidence after one more value.
LEMMA AfterFacts ==
  ASSUME NEW e, NEW nulls, NEW scalars, NEW literals, NEW kinds, NEW object, NEW array
  PROVE  LET a == After(e, nulls, scalars, literals, kinds, object, array)
         IN  /\ a = Fields(a)
             /\ a.seen = e.seen + 1 /\ a.nulls = nulls /\ a.scalars = scalars
             /\ a.literals = literals /\ a.kinds = kinds /\ a.object = object /\ a.array = array
BY DEF After, Fields

\* One more value is counted as one.
LEMMA ObservingCounts ==
  ASSUME NEW f, NEW v \in Present, NEW e, e = Fields(e)
  PROVE  Observing(f, v, e).seen = e.seen + 1
<1>1. CASE v.is = "null"
  BY <1>1, ObservingCases DEF After
<1>2. CASE v.is = "object"
  BY <1>2, ObservingCases DEF After
<1>3. CASE v.is = "array"
  BY <1>3, ObservingCases DEF After
<1>4. CASE v.is \notin {"null", "object", "array"}
  BY <1>4, ObservingCases DEF After
<1> QED BY <1>1, <1>2, <1>3, <1>4

\* Evidence is the record of its fields, and holds evidence.
LEMMA EvidenceFields ==
  ASSUME NEW e \in Evidence
  PROVE  e = Fields(e) /\ Counted(Evidence, e) /\ NoEvidence \in Evidence
<1> DEFINE inner == EvidenceBelow(Depth)
<1>1. Evidence = EvidenceOver(inner) /\ NoEvidence \in Evidence /\ inner \subseteq Evidence
  BY DepthIsNat, EvidenceBelowFacts DEF Evidence
<1>2. Counted(inner, e) /\ e = Fields(e)
  BY <1>1, EvidenceCases
<1> HIDE DEF inner
<1>3. [Name -> inner] \subseteq [Name -> Evidence]
  BY <1>1
<1>4. /\ [count : Nat, members : [Name -> inner]] \subseteq [count : Nat, members : [Name -> Evidence]]
      /\ [lengths : SUBSET Nat, items : inner] \subseteq [lengths : SUBSET Nat, items : Evidence]
  BY <1>1, <1>3
<1> QED BY <1>1, <1>2, <1>4 DEF Counted

\* One more value of a level makes evidence of the level.
LEMMA ObservingTyped ==
  ASSUME NEW n \in Nat, n <= Depth, NEW v \in ValueTo[n], NEW e \in EvidenceTo[n], NEW f,
         Stays(f, Below(n), EvidenceBelow(n)), CountsOne(f, Below(n), EvidenceBelow(n))
  PROVE  Observing(f, v, e) \in EvidenceTo[n]
<1> DEFINE inner == EvidenceBelow(n)
<1>1. EvidenceTo[n] = EvidenceOver(inner) /\ NoEvidence \in inner /\ inner \subseteq EvidenceTo[n]
  BY EvidenceBelowFacts
<1>2. Counted(inner, e) /\ e = Fields(e)
  BY <1>1, EvidenceCases
<1>a. \A d \in inner : d.seen \in Nat
  BY <1>1, EvidenceCases DEF Counted
<1>3. v \in Present
  BY DepthIsNat, ValueGrows DEF Present
<1>4. /\ Consistent(e) /\ e.seen \in Nat /\ e.seen + 1 \in Nat
      /\ e.nulls \in Nat /\ e.nulls <= e.seen /\ e.nulls + 1 <= e.seen + 1 /\ e.nulls < e.seen + 1
      /\ e.nulls < e.seen => e.nulls + 1 < e.seen + 1
  BY <1>2 DEF Counted, Consistent
<1>5. /\ ObjectOf(e).count \in Nat /\ ObjectOf(e).members \in [Name -> inner]
      /\ ArrayOf(e).lengths \subseteq Nat /\ IsFiniteSet(ArrayOf(e).lengths)
      /\ ArrayOf(e).items \in inner
  BY <1>1, <1>2, PartsOf
<1>6. \A a \in Below(n), t \in inner : f[<<a, t>>] \in inner
  BY DEF Stays
<1> DEFINE a == Observing(f, v, e)
<1> SUFFICES Counted(inner, a) /\ a = Fields(a)
  BY <1>1, EvidenceIntro
<1> HIDE DEF inner
<1>7. CASE v.is = "null"
  <2>1. a = After(e, e.nulls + 1, e.scalars, e.literals, e.kinds, e.object, e.array)
    BY <1>2, <1>3, <1>7, ObservingCases
  <2> HIDE DEF a
  <2>2. /\ a = Fields(a) /\ a.seen = e.seen + 1 /\ a.nulls = e.nulls + 1 /\ a.scalars = e.scalars
        /\ a.literals = e.literals /\ a.kinds = e.kinds /\ a.object = e.object /\ a.array = e.array
    BY <2>1, AfterFacts
  <2>3. Counted(inner, a)
    BY <1>2, <1>4, <2>2 DEF Counted, Consistent
  <2> QED BY <2>2, <2>3
<1>8. CASE v.is = "object"
  <2> DEFINE object == [count |-> ObjectOf(e).count + 1, members |-> MembersFrom(f, v, e)]
  <2>1. a = After(e, e.nulls, e.scalars, e.literals, e.kinds, {object}, e.array)
    BY <1>2, <1>3, <1>8, ObservingCases
  <2> HIDE DEF a
  <2>2. v.members \in [Name -> Below(n) \cup {Absent}]
    BY <1>8, LevelParts
  <2>3. ASSUME NEW m \in Name
        PROVE  (IF m \in MemberNames(v) THEN f[<<v.members[m], ObjectOf(e).members[m]>>]
                ELSE ObjectOf(e).members[m]) \in inner
    <3>1. ObjectOf(e).members[m] \in inner
      BY <1>5
    <3>2. m \in MemberNames(v) => v.members[m] \in Below(n)
      BY <2>2 DEF MemberNames
    <3> QED BY <1>6, <3>1, <3>2
  <2>4. MembersFrom(f, v, e) \in [Name -> inner]
    BY <2>3 DEF MembersFrom
  <2>5. object \in [count : Nat, members : [Name -> inner]]
    BY <1>5, <2>4
  <2>8. ASSUME NEW m \in Name PROVE object.members[m].seen <= object.count
    <3> DEFINE t == ObjectOf(e).members[m]
    <3>1. t \in inner /\ t.seen \in Nat /\ t.seen <= ObjectOf(e).count /\ ObjectOf(e).count \in Nat
      BY <1>1, <1>2, <1>5, <1>a, MemberCounts
    <3>2. m \in MemberNames(v) => v.members[m] \in Below(n)
      BY <2>2 DEF MemberNames
    <3>3. m \in MemberNames(v) => f[<<v.members[m], t>>].seen = t.seen + 1
      BY <3>1, <3>2 DEF CountsOne, inner
    <3>4. object.count = ObjectOf(e).count + 1
          /\ object.members[m] = IF m \in MemberNames(v) THEN f[<<v.members[m], t>>] ELSE t
      BY DEF MembersFrom
    <3> HIDE DEF object, t
    <3> QED BY <3>1, <3>3, <3>4
  <2> HIDE DEF object
  <2>6. /\ a = Fields(a) /\ a.seen = e.seen + 1 /\ a.nulls = e.nulls /\ a.scalars = e.scalars
        /\ a.literals = e.literals /\ a.kinds = e.kinds /\ a.object = {object} /\ a.array = e.array
    BY <2>1, AfterFacts
  <2>7. Counted(inner, a)
    BY <1>2, <1>4, <2>5, <2>6, <2>8 DEF Counted, Consistent
  <2> QED BY <2>6, <2>7
<1>9. CASE v.is = "array"
  <2> DEFINE items == ItemsFrom(f, v.items, ArrayOf(e).items)
             array == [lengths |-> ArrayOf(e).lengths \cup {Len(v.items)},
                       items |-> items[Len(v.items)]]
  <2>1. a = After(e, e.nulls, e.scalars, e.literals, e.kinds, e.object, {array})
    BY <1>2, <1>3, <1>9, ObservingCases
  <2> HIDE DEF a
  <2>2. v.items \in Seq(Below(n)) /\ Len(v.items) \in Nat
    BY <1>9, LevelParts
  <2>3. StepsOf(items, f, inner, v.items, ArrayOf(e).items)
    BY <1>5, <2>2, ItemsFacts DEF inner
  <2>4. items[Len(v.items)] \in inner
    BY <2>2, <2>3 DEF StepsOf
  <2>5. IsFiniteSet(ArrayOf(e).lengths \cup {Len(v.items)})
    BY <1>5, FS_AddElement
  <2> HIDE DEF items
  <2>6. array \in [lengths : SUBSET Nat, items : inner]
    BY <1>5, <2>2, <2>4
  <2>7. array.lengths # {} /\ IsFiniteSet(array.lengths)
    BY <2>5
  <2> HIDE DEF array
  <2>8. /\ a = Fields(a) /\ a.seen = e.seen + 1 /\ a.nulls = e.nulls /\ a.scalars = e.scalars
        /\ a.literals = e.literals /\ a.kinds = e.kinds /\ a.object = e.object /\ a.array = {array}
    BY <2>1, AfterFacts
  <2>9. Counted(inner, a)
    BY <1>2, <1>4, <2>6, <2>7, <2>8 DEF Counted, Consistent
  <2> QED BY <2>8, <2>9
<1>10. CASE v.is \notin {"null", "object", "array"}
  <2> DEFINE literals == WithLiteral(e.literals, v)
             kind == IF v.is = "number" THEN v.written ELSE v.is
  <2>1. a = After(e, e.nulls, e.scalars + 1, literals, e.kinds \cup {kind}, e.object, e.array)
    BY <1>2, <1>3, <1>10, ObservingCases
  <2> HIDE DEF a
  <2>2. v \in Scalar /\ v.is \in {"boolean", "number", "string"}
    BY <1>10, LevelParts DEF AllKinds, ScalarKinds
  <2>3. kind \in {"boolean", "integer", "decimal", "string"}
    BY <2>2, ScalarFacts
  <2>4. /\ e.literals \subseteq Scalar /\ IsFiniteSet(e.literals)
        /\ \A l, m \in e.literals : SameValue(l, m) => l = m
    BY <1>2 DEF Counted, Consistent
  <2>5. /\ literals \subseteq Scalar /\ IsFiniteSet(literals) /\ literals # {}
        /\ \A l, m \in literals : SameValue(l, m) => l = m
    BY <2>2, <2>4, WithLiteralFacts
  <2> HIDE DEF literals, kind
  <2>6. /\ a = Fields(a) /\ a.seen = e.seen + 1 /\ a.nulls = e.nulls /\ a.scalars = e.scalars + 1
        /\ a.literals = literals /\ a.kinds = e.kinds \cup {kind}
        /\ a.object = e.object /\ a.array = e.array
    BY <2>1, AfterFacts
  <2>7. Counted(inner, a)
    BY <1>2, <1>4, <2>3, <2>5, <2>6 DEF Counted, Consistent
  <2> QED BY <2>6, <2>7
<1> QED BY <1>7, <1>8, <1>9, <1>10

Sights == Present \X Evidence

\* What an array adds.
LEMMA ObservingArray ==
  ASSUME NEW f, NEW v \in Present, NEW e, e = Fields(e), v.is = "array"
  PROVE  Observing(f, v, e) =
           After(e, e.nulls, e.scalars, e.literals, e.kinds, e.object,
                 {[lengths |-> ArrayOf(e).lengths \cup {Len(v.items)},
                   items |-> ItemsFrom(f, v.items, ArrayOf(e).items)[Len(v.items)]]})
BY ObservingCases

\* What observing a value reads of the observations below.
LEMMA ObservingReads ==
  ASSUME NEW f \in [Sights -> Evidence], NEW g \in [Sights -> Evidence],
         NEW v \in Present, NEW e \in Evidence,
         \A u \in Present, d \in Evidence : valueRank[u] < valueRank[v] => f[<<u, d>>] = g[<<u, d>>]
  PROVE  Observing(f, v, e) = Observing(g, v, e)
<1> DEFINE inner == EvidenceBelow(Depth)
           small == {u \in Present : valueRank[u] < valueRank[v]}
<1>1. Evidence = EvidenceOver(inner) /\ NoEvidence \in inner /\ inner \subseteq Evidence
  BY DepthIsNat, EvidenceBelowFacts DEF Evidence
<1>2. Counted(inner, e) /\ e = Fields(e)
  BY <1>1, EvidenceCases
<1>a. e = Fields(e)
  BY <1>2
<1>3. ObjectOf(e).members \in [Name -> inner] /\ ArrayOf(e).items \in inner
  BY <1>1, <1>2, PartsOf
<1>4. AgreeOn(f, g, small, Evidence) /\ Stays(f, small, Evidence)
  BY DEF AgreeOn, Stays, Sights
<1>5. v \in Value
  BY ScalarsPresent
<1> HIDE DEF inner
<1>6. CASE v.is = "object"
  <2>1. v.members \in [Name -> Value] /\ \A n \in Name : valueRank[v.members[n]] < valueRank[v]
    BY <1>5, <1>6, ValueFacts
  <2>2. ASSUME NEW n \in MemberNames(v)
        PROVE  f[<<v.members[n], ObjectOf(e).members[n]>>] = g[<<v.members[n], ObjectOf(e).members[n]>>]
    <3>1. n \in Name /\ v.members[n] # Absent
      BY DEF MemberNames
    <3>2. v.members[n] \in small
      BY <2>1, <3>1, ValueFacts
    <3>3. ObjectOf(e).members[n] \in Evidence
      BY <1>1, <1>3, <3>1
    <3> HIDE DEF small
    <3> QED BY <1>4, <3>2, <3>3 DEF AgreeOn
  <2>3. MembersFrom(f, v, e) = MembersFrom(g, v, e)
    BY <2>2 DEF MembersFrom
  <2> HIDE DEF small
  <2>4. Observing(f, v, e) =
          After(e, e.nulls, e.scalars, e.literals, e.kinds,
                {[count |-> ObjectOf(e).count + 1, members |-> MembersFrom(f, v, e)]}, e.array)
    BY <1>a, <1>6, ObservingCases
  <2>5. Observing(g, v, e) =
          After(e, e.nulls, e.scalars, e.literals, e.kinds,
                {[count |-> ObjectOf(e).count + 1, members |-> MembersFrom(g, v, e)]}, e.array)
    BY <1>a, <1>6, ObservingCases
  <2> QED BY <2>3, <2>4, <2>5
<1>7. CASE v.is = "array"
  <2>1. /\ v.items \in Seq(Present)
        /\ \A i \in DOMAIN v.items : v.items[i] \in Value /\ v.items[i] # Absent
                                      /\ valueRank[v.items[i]] < valueRank[v]
    BY <1>5, <1>7, ValueFacts
  <2>2. \A i \in DOMAIN v.items : v.items[i] \in small
    BY <2>1, ValueFacts
  <2> HIDE DEF small
  <2>3. v.items \in Seq(small)
    BY <2>1, <2>2
  <2>4. ArrayOf(e).items \in Evidence
    BY <1>1, <1>3
  <2>5. ItemsFrom(f, v.items, ArrayOf(e).items)[Len(v.items)]
          = ItemsFrom(g, v.items, ArrayOf(e).items)[Len(v.items)]
    BY <1>4, <2>3, <2>4, ItemsAlike
  <2>6. Observing(f, v, e) =
          After(e, e.nulls, e.scalars, e.literals, e.kinds, e.object,
                {[lengths |-> ArrayOf(e).lengths \cup {Len(v.items)},
                  items |-> ItemsFrom(f, v.items, ArrayOf(e).items)[Len(v.items)]]})
    BY <1>a, <1>7, ObservingArray
  <2>7. Observing(g, v, e) =
          After(e, e.nulls, e.scalars, e.literals, e.kinds, e.object,
                {[lengths |-> ArrayOf(e).lengths \cup {Len(v.items)},
                  items |-> ItemsFrom(g, v.items, ArrayOf(e).items)[Len(v.items)]]})
    BY <1>a, <1>7, ObservingArray
  <2> QED BY <2>5, <2>6, <2>7
<1>8. CASE v.is = "null"
  BY <1>8 DEF Observing
<1>9. CASE v.is \notin {"null", "object", "array"}
  BY <1>9 DEF Observing
<1> QED BY <1>6, <1>7, <1>8, <1>9

\* There is a function that observes as Observing says.
LEMMA ObservingIs ==
  observing = [x \in Present \X Evidence |-> Observing(observing, x[1], x[2])]
<1> DEFINE S == Sights
           rank == [x \in S |-> valueRank[x[1]]]
           Kept(a) == IF a \in Evidence THEN a ELSE NoEvidence
           D == [f \in [S -> Evidence] |-> [x \in S |-> Kept(Observing(f, x[1], x[2]))]]
<1>0. NoEvidence \in Evidence /\ Evidence = EvidenceTo[Depth] /\ Present = ValueTo[Depth]
  BY DepthIsNat, EvidenceBelowFacts DEF Evidence, Present
<1>1. rank \in [S -> Nat]
  BY RankFacts, ScalarsPresent DEF Sights
<1>2. D \in [[S -> Evidence] -> [S -> Evidence]]
  BY <1>0
<1>3. ASSUME NEW f \in [S -> Evidence], NEW g \in [S -> Evidence], NEW x \in S,
             \A y \in S : rank[y] < rank[x] => f[y] = g[y]
      PROVE  D[f][x] = D[g][x]
  <2>1. x[1] \in Present /\ x[2] \in Evidence
    BY DEF Sights
  <2>2. \A u \in Present, d \in Evidence : valueRank[u] < valueRank[x[1]] => f[<<u, d>>] = g[<<u, d>>]
    BY <1>3 DEF Sights
  <2>3. Observing(f, x[1], x[2]) = Observing(g, x[1], x[2])
    BY <2>1, <2>2, ObservingReads
  <2> QED BY <2>3
<1>4. PICK f \in [S -> Evidence] : f = D[f]
  <2> HIDE DEF S, rank, D
  <2>1. Recurs(S, Evidence, rank, D)
    BY <1>0, <1>1, <1>2, <1>3 DEF Recurs
  <2> QED BY <2>1, Recursion
<1>5. \A v \in Present, e \in Evidence : f[<<v, e>>] = Kept(Observing(f, v, e))
  BY <1>4 DEF Sights
<1> HIDE DEF S, rank, D
<1> DEFINE Stepped(n) == \A v \in ValueTo[n], e \in EvidenceTo[n] :
                           f[<<v, e>>] \in EvidenceTo[n] /\ f[<<v, e>>] = Observing(f, v, e)
           Q == {n \in Nat : n <= Depth => Stepped(n)}
<1>6. ASSUME NEW n \in Nat, \A m \in Nat : m < n => m \in Q PROVE n \in Q
  <2> SUFFICES ASSUME n <= Depth, NEW v \in ValueTo[n], NEW e \in EvidenceTo[n]
               PROVE  f[<<v, e>>] \in EvidenceTo[n] /\ f[<<v, e>>] = Observing(f, v, e)
    OBVIOUS
  <2>1. v \in Present /\ e \in Evidence /\ EvidenceTo[n] \subseteq Evidence
    BY <1>0, DepthIsNat, ValueGrows, EvidenceBelowFacts
  <2>2. Stays(f, Below(n), EvidenceBelow(n))
    <3>1. ASSUME NEW u \in Below(n), NEW d \in EvidenceBelow(n) PROVE f[<<u, d>>] \in EvidenceBelow(n)
      <4>1. n # 0 /\ n - 1 \in Nat /\ n - 1 < n /\ n - 1 <= Depth /\ u \in ValueTo[n - 1]
        BY BelowFacts
      <4>2. d \in EvidenceTo[n - 1] /\ EvidenceBelow(n) = EvidenceTo[n - 1]
        BY <4>1 DEF EvidenceBelow
      <4>3. n - 1 \in Q
        BY <1>6, <4>1
      <4> QED BY <4>1, <4>2, <4>3
    <3> QED BY <3>1 DEF Stays
  <2>6. CountsOne(f, Below(n), EvidenceBelow(n))
    <3>1. ASSUME NEW u \in Below(n), NEW d \in EvidenceBelow(n) PROVE f[<<u, d>>].seen = d.seen + 1
      <4>1. n # 0 /\ n - 1 \in Nat /\ n - 1 < n /\ n - 1 <= Depth /\ u \in ValueTo[n - 1]
        BY BelowFacts
      <4>2. d \in EvidenceTo[n - 1]
        BY <4>1 DEF EvidenceBelow
      <4>3. n - 1 \in Q
        BY <1>6, <4>1
      <4>4. f[<<u, d>>] = Observing(f, u, d)
        BY <4>1, <4>2, <4>3
      <4>5. u \in Present /\ d \in Evidence
        BY <1>0, <4>1, <4>2, DepthIsNat, ValueGrows, EvidenceBelowFacts
      <4> QED BY <4>4, <4>5, EvidenceFields, ObservingCounts
    <3> QED BY <3>1 DEF CountsOne
  <2>3. Observing(f, v, e) \in EvidenceTo[n]
    BY <2>2, <2>6, ObservingTyped
  <2>4. Observing(f, v, e) \in Evidence
    BY <2>1, <2>3
  <2>5. f[<<v, e>>] = Observing(f, v, e)
    BY <1>5, <2>1, <2>4
  <2> QED BY <2>3, <2>5
<1>7. Q = Nat
  <2> HIDE DEF Q
  <2>1. Q \in SUBSET Nat
    BY DEF Q
  <2> QED BY <1>6, <2>1, Induction
<1> HIDE DEF Q
<1>a. Depth \in Q /\ Depth \in Nat /\ Depth <= Depth
  BY <1>7, DepthIsNat
<1>b. Stepped(Depth)
  BY <1>a DEF Q
<1>8. \A v \in Present, e \in Evidence : f[<<v, e>>] = Observing(f, v, e)
  BY <1>0, <1>b
<1>9. f = [x \in Present \X Evidence |-> Observing(f, x[1], x[2])]
  <2>1. f = [x \in Present \X Evidence |-> f[x]]
    BY DEF S, Sights
  <2>2. \A x \in Present \X Evidence : f[x] = Observing(f, x[1], x[2])
    <3> TAKE x \in Present \X Evidence
    <3>1. x[1] \in Present /\ x[2] \in Evidence /\ x = <<x[1], x[2]>>
      OBVIOUS
    <3> QED BY <1>8, <3>1
  <2> QED BY <2>1, <2>2
<1>10. observing = [x \in Present \X Evidence |-> Observing(observing, x[1], x[2])]
  BY <1>9 DEF observing
<1> QED BY <1>10

\* Observing is defined.
LEMMA ObservedUnfolds ==
  ASSUME NEW v \in Present, NEW e \in Evidence
  PROVE  /\ observing[<<v, e>>] = Observing(observing, v, e)
         /\ Observed(e, v) = observing[<<v, e>>]
<1>1. <<v, e>> \in Present \X Evidence /\ <<v, e>>[1] = v /\ <<v, e>>[2] = e
  OBVIOUS
<1>2. observing[<<v, e>>] = Observing(observing, <<v, e>>[1], <<v, e>>[2])
  BY <1>1, ObservingIs
<1> QED BY <1>1, <1>2 DEF Observed

\* It takes evidence of a level to evidence of that level.
LEMMA ObservedFacts ==
  \A n \in Nat : n <= Depth => Stays(observing, ValueTo[n], EvidenceTo[n])
<1> DEFINE Q == {n \in Nat : n <= Depth => Stays(observing, ValueTo[n], EvidenceTo[n])}
<1>1. ASSUME NEW n \in Nat, \A m \in Nat : m < n => m \in Q PROVE n \in Q
  <2> SUFFICES ASSUME n <= Depth, NEW v \in ValueTo[n], NEW e \in EvidenceTo[n]
               PROVE  observing[<<v, e>>] \in EvidenceTo[n]
    BY DEF Stays
  <2>1. v \in Present /\ e \in Evidence
    BY DepthIsNat, ValueGrows, EvidenceBelowFacts DEF Present
  <2>2. Stays(observing, Below(n), EvidenceBelow(n))
    <3>1. ASSUME NEW u \in Below(n), NEW d \in EvidenceBelow(n)
          PROVE  observing[<<u, d>>] \in EvidenceBelow(n)
      <4>1. n # 0 /\ n - 1 \in Nat /\ n - 1 < n /\ n - 1 <= Depth /\ u \in ValueTo[n - 1]
        BY BelowFacts
      <4>2. d \in EvidenceTo[n - 1] /\ EvidenceBelow(n) = EvidenceTo[n - 1]
        BY <4>1 DEF EvidenceBelow
      <4>3. n - 1 \in Q
        BY <1>1, <4>1
      <4>4. Stays(observing, ValueTo[n - 1], EvidenceTo[n - 1])
        BY <4>1, <4>3
      <4> QED BY <4>1, <4>2, <4>4 DEF Stays
    <3> QED BY <3>1 DEF Stays
  <2>4. CountsOne(observing, Below(n), EvidenceBelow(n))
    <3>1. ASSUME NEW u \in Below(n), NEW d \in EvidenceBelow(n)
          PROVE  observing[<<u, d>>].seen = d.seen + 1
      <4>1. n # 0 /\ n - 1 \in Nat /\ n - 1 <= Depth /\ u \in ValueTo[n - 1]
        BY BelowFacts
      <4>2. d \in EvidenceTo[n - 1]
        BY <4>1 DEF EvidenceBelow
      <4>3. u \in Present /\ d \in Evidence
        BY <4>1, <4>2, DepthIsNat, ValueGrows, EvidenceBelowFacts DEF Present
      <4> QED BY <4>3, EvidenceFields, ObservingCounts, ObservedUnfolds
    <3> QED BY <3>1 DEF CountsOne
  <2>3. Observing(observing, v, e) \in EvidenceTo[n]
    BY <2>2, <2>4, ObservingTyped
  <2> QED BY <2>1, <2>3, ObservedUnfolds
<1>2. Q = Nat
  <2> HIDE DEF Q
  <2>1. Q \in SUBSET Nat
    BY DEF Q
  <2> QED BY <1>1, <2>1, Induction
<1> QED BY <1>2

-----------------------------------------------------------------------------
\* The least and the greatest of a set of lengths, and a listing of a set.

\* A set of lengths that is not empty has a least.
LEMMA MinFacts ==
  ASSUME NEW S \in SUBSET Nat, S # {}
  PROVE  Min(S) \in S /\ \A n \in S : Min(S) <= n
<1> DEFINE Outside == {n \in Nat : n \notin S}
<1>1. Outside # Nat
  OBVIOUS
<1>2. PICK k \in Nat : k \notin Outside /\ \A m \in Nat : m < k => m \in Outside
  <2>1. Outside \in SUBSET Nat
    OBVIOUS
  <2> HIDE DEF Outside
  <2> QED BY <1>1, <2>1, Induction
<1>3. k \in S
  BY <1>2
<1>4. ASSUME NEW n \in S PROVE k <= n
  <2>1. n \in Nat /\ ~(n < k)
    BY <1>2
  <2> QED BY <2>1
<1>5. \E x \in S : \A y \in S : x <= y
  BY <1>3, <1>4
<1> QED BY <1>5 DEF Min

\* A finite one has a greatest.
LEMMA MaxFacts ==
  ASSUME NEW S \in SUBSET Nat, S # {}, IsFiniteSet(S)
  PROVE  Max(S) \in S /\ \A n \in S : n <= Max(S)
<1> DEFINE Tops == {n \in Nat : \A T \in SUBSET S : T # {} /\ Cardinality(T) = n =>
                      \E x \in T : \A y \in T : x >= y}
<1>1. ASSUME NEW n \in Nat, \A m \in Nat : m < n => m \in Tops PROVE n \in Tops
  <2> SUFFICES ASSUME NEW T \in SUBSET S, T # {}, Cardinality(T) = n
               PROVE  \E x \in T : \A y \in T : x >= y
    OBVIOUS
  <2>1. PICK t : t \in T
    OBVIOUS
  <2> DEFINE R == T \ {t}
  <2>2. IsFiniteSet(T)
    BY FS_Subset
  <2>3. Cardinality(R) = n - 1 /\ IsFiniteSet(R) /\ Cardinality(R) \in Nat
    BY <2>1, <2>2, FS_RemoveElement, FS_CardinalityType
  <2>4. R \in SUBSET S /\ T = R \cup {t}
    BY <2>1
  <2> HIDE DEF R
  <2>5. CASE R = {}
    BY <2>1, <2>4, <2>5
  <2>6. CASE R # {}
    <3>1. n - 1 \in Tops
      BY <1>1, <2>3
    <3>2. PICK x \in R : \A y \in R : x >= y
      BY <2>3, <2>4, <2>6, <3>1
    <3>3. x \in Nat /\ t \in Nat /\ R \subseteq Nat
      BY <2>1, <2>4
    <3>4. CASE x >= t
      <4>1. \A y \in T : x >= y
        BY <2>4, <3>2, <3>4
      <4> QED BY <2>4, <4>1
    <3>5. CASE ~(x >= t)
      <4>1. \A y \in R : t >= y
        BY <3>2, <3>3, <3>5
      <4>2. \A y \in T : t >= y
        BY <2>4, <3>3, <4>1
      <4> QED BY <2>1, <4>2
    <3> QED BY <3>4, <3>5
  <2> QED BY <2>5, <2>6
<1>2. Tops = Nat
  <2> HIDE DEF Tops
  <2>1. Tops \in SUBSET Nat
    BY DEF Tops
  <2> QED BY <1>1, <2>1, Induction
<1>3. \E x \in S : \A y \in S : x >= y
  <2>1. Cardinality(S) \in Tops
    BY <1>2, FS_CardinalityType
  <2> QED BY <2>1
<1>4. Max(S) \in S /\ \A n \in S : Max(S) >= n
  BY <1>3 DEF Max
<1> QED BY <1>4

\* The listing of a finite set has each member once.
LEMMA ListingFacts ==
  ASSUME NEW S, IsFiniteSet(S)
  PROVE  /\ SetToSeq(S) \in Seq(S) /\ Len(SetToSeq(S)) = Cardinality(S)
         /\ \A i, j \in DOMAIN SetToSeq(S) : SetToSeq(S)[i] = SetToSeq(S)[j] => i = j
<1> DEFINE n == Cardinality(S)
           N == 1..n
<1>1. n \in Nat /\ ExistsBijection(N, S)
  BY FS_CardinalityType
<1> HIDE DEF N
<1>2. PICK f \in [N -> S] : \A i, j \in N : f[i] = f[j] => i = j
  BY <1>1, Zenon DEF ExistsBijection, Bijection, Injection, IsInjective
<1>3. \E g \in [1..n -> S] : IsInjective(g)
  BY <1>2 DEF N, IsInjective
<1>4. SetToSeq(S) \in [1..n -> S] /\ IsInjective(SetToSeq(S))
  BY <1>3 DEF SetToSeq
<1> QED BY <1>1, <1>4 DEF IsInjective

-----------------------------------------------------------------------------
\* The shapes the evidence of a level adds up to.

\* Those of the evidence of a level, and of the level below.
DrawnTo(n)    == {s \in ShapeTo[3 * n + 2] : Parses(s, FALSE)}
DrawnBelow(n) == IF n = 0 THEN {} ELSE DrawnTo(n - 1)

\* Those of a position that was never null.
DrawnFirm(n) == {s \in ShapeTo[3 * n + 1] : Parses(s, FALSE) /\ s.op # "nullable"}

\* The levels they are on are levels of shapes.
LEMMA DrawnFacts ==
  ASSUME NEW n \in Nat, n <= Depth
  PROVE  /\ 3 * n \in Nat
         /\ ShapeTo[3 * n + 1] = ShapeOver(ShapeTo[3 * n])
         /\ ShapeTo[3 * n + 2] = ShapeOver(ShapeTo[3 * n + 1])
         /\ ShapeTo[0] \subseteq ShapeTo[3 * n] /\ ShapeTo[0] \subseteq ShapeTo[3 * n + 1]
         /\ ShapeTo[3 * n] \subseteq ShapeTo[3 * n + 1]
         /\ ShapeTo[3 * n + 1] \subseteq ShapeTo[3 * n + 2]
         /\ ShapeTo[3 * n] \subseteq Shape /\ ShapeTo[3 * n + 1] \subseteq Shape
         /\ ShapeTo[3 * n + 2] \subseteq Shape
         /\ DrawnBelow(n) \subseteq ShapeTo[3 * n]
         /\ \A s \in DrawnBelow(n) : [op |-> "optional", of |-> s, example |-> {}] \in ShapeTo[3 * n]
         /\ \A s \in DrawnBelow(n) : Parses(s, FALSE)
<1> DEFINE k == 3 * n
<1>1. /\ k \in Nat /\ k + 1 \in Nat /\ k + 2 \in Nat /\ 0 <= k /\ 0 <= k + 1
      /\ k <= k + 1 /\ k + 1 <= k + 2 /\ k + 2 <= Top
      /\ (k + 1) - 1 = k /\ (k + 2) - 1 = k + 1 /\ k + 1 # 0 /\ k + 2 # 0
      /\ k <= Top /\ k + 1 <= Top
  BY DepthIsNat DEF Top
<1>a. n # 0 => n - 1 \in Nat /\ 3 * (n - 1) + 2 = k - 1 /\ k - 1 \in Nat /\ k - 1 <= k /\ k # 0
  OBVIOUS
<1> HIDE DEF k
<1>2. ShapeTo[k + 1] = ShapeOver(ShapeTo[k]) /\ ShapeTo[k + 2] = ShapeOver(ShapeTo[k + 1])
  BY <1>1, ShapeLevels
<1>3. /\ ShapeTo[0] \subseteq ShapeTo[k] /\ ShapeTo[0] \subseteq ShapeTo[k + 1]
      /\ ShapeTo[k] \subseteq ShapeTo[k + 1] /\ ShapeTo[k + 1] \subseteq ShapeTo[k + 2]
      /\ ShapeTo[k] \subseteq Shape /\ ShapeTo[k + 1] \subseteq Shape /\ ShapeTo[k + 2] \subseteq Shape
  BY <1>1, ShapeGrows, TopFacts
<1>4. ASSUME NEW s \in DrawnBelow(n)
      PROVE  /\ s \in ShapeTo[k] /\ [op |-> "optional", of |-> s, example |-> {}] \in ShapeTo[k]
             /\ Parses(s, FALSE)
  <2>1. n # 0 /\ s \in DrawnTo(n - 1)
    BY DEF DrawnBelow
  <2>2. s \in ShapeTo[k - 1] /\ Parses(s, FALSE)
    BY <1>a, <2>1 DEF DrawnTo
  <2>3. ShapeTo[k] = ShapeOver(ShapeTo[k - 1])
    BY <1>1, <1>a, <2>1, ShapeLevels
  <2>4. [op |-> "optional", of |-> s, example |-> {}] \in ShapeOver(ShapeTo[k - 1])
    BY <2>2 DEF ShapeOver
  <2>5. s \in ShapeTo[k]
    BY <1>1, <1>a, <2>1, <2>2, ShapeGrows
  <2> QED BY <2>2, <2>3, <2>4, <2>5
<1> QED BY <1>1, <1>2, <1>3, <1>4 DEF k

\* A shape is read when its own part is and the shapes it holds are.
LEMMA ParsesIntro ==
  ASSUME NEW s \in Shape, NEW b \in BOOLEAN,
         AdmitsAbsent(s) => b,
         s.op \in {"each-like", "each-entry"} => \A m \in s.max : s.min <= m,
         s.op = "nullable" => s.of.op # "nullable",
         s.op = "any-of" => AnyOfParses(s), s.op # "one-of",
         \A c \in Children(s) : Parses(c[2], s.op = "object")
  PROVE  Parses(s, b)
<1>1. NodeParses(wellFormedSolution, s, b)
  BY DEF NodeParses, Parses
<1> QED BY <1>1, ParsesUnfolds

\* One that holds no shapes.
LEMMA LeafParses ==
  ASSUME NEW s \in Shape, s.op \in {"any", "kind", "equality", "any-of"},
         s.op = "any-of" => AnyOfParses(s)
  PROVE  Parses(s, FALSE)
<1>1. Children(s) = {}
  BY DEF Children
<1> QED BY <1>1, ParsesIntro DEF AdmitsAbsent

\* A position that is sometimes null.
LEMMA NullableDrawn ==
  ASSUME NEW n \in Nat, n <= Depth, NEW s \in DrawnFirm(n)
  PROVE  [op |-> "nullable", of |-> s, example |-> {}] \in DrawnTo(n)
<1> DEFINE t == [op |-> "nullable", of |-> s, example |-> {}]
<1>1. s \in ShapeTo[3 * n + 1] /\ Parses(s, FALSE) /\ s.op # "nullable"
  BY DEF DrawnFirm
<1>2. t \in ShapeOver(ShapeTo[3 * n + 1])
  BY <1>1 DEF ShapeOver
<1>3. t \in ShapeTo[3 * n + 2] /\ t \in Shape
  BY <1>2, DrawnFacts
<1>4. t.op = "nullable" /\ t.of = s
  OBVIOUS
<1> HIDE DEF t
<1>5. \A c \in Children(t) : Parses(c[2], t.op = "object")
  <2>1. Children(t) = {<<<<>>, s>>}
    BY <1>4 DEF Children
  <2>2. (t.op = "object") = FALSE
    BY <1>4
  <2>3. \A c \in Children(t) : c[2] = s
    BY <2>1
  <2> QED BY <1>1, <2>2, <2>3
<1>6. Parses(t, FALSE)
  BY <1>1, <1>3, <1>4, <1>5, ParsesIntro DEF AdmitsAbsent
<1> QED BY <1>3, <1>6 DEF DrawnTo, t

\* The members of objects that were seen.
LEMMA ObjectDrawn ==
  ASSUME NEW n \in Nat, n <= Depth, NEW members,
         members \in MayHold(ShapeTo[3 * n]),
         \A m \in Given(members) : Parses(members[m], TRUE)
  PROVE  [op |-> "object", example |-> {}, members |-> members] \in DrawnFirm(n)
<1> DEFINE t == [op |-> "object", example |-> {}, members |-> members]
<1>1. t \in ShapeOver(ShapeTo[3 * n])
  BY DEF ShapeOver, MayHold
<1>2. t \in ShapeTo[3 * n + 1] /\ t \in Shape
  BY <1>1, DrawnFacts
<1>3. t.op = "object" /\ t.members = members
  OBVIOUS
<1> HIDE DEF t
<1>4. \A c \in Children(t) : Parses(c[2], t.op = "object")
  <2>1. ASSUME NEW c \in Children(t) PROVE Parses(c[2], TRUE)
    <3>1. PICK m \in Given(members) : c = <<<<InMember(m)>>, members[m]>>
      BY <1>3 DEF Children
    <3> QED BY <3>1
  <2>2. (t.op = "object") = TRUE
    BY <1>3
  <2> QED BY <2>1, <2>2
<1>5. Parses(t, FALSE)
  BY <1>2, <1>3, <1>4, ParsesIntro DEF AdmitsAbsent
<1> QED BY <1>2, <1>3, <1>5 DEF DrawnFirm, t

\* The items of arrays that were seen.
LEMMA ArrayDrawn ==
  ASSUME NEW n \in Nat, n <= Depth, NEW items \in ShapeTo[3 * n], Parses(items, FALSE),
         NEW low \in Nat, NEW high \in Nat, low <= high
  PROVE  [op |-> "each-like", example |-> {}, min |-> low, max |-> {high}, items |-> items]
           \in DrawnFirm(n)
<1> DEFINE t == [op |-> "each-like", example |-> {}, min |-> low, max |-> {high}, items |-> items]
<1>1. t \in ShapeOver(ShapeTo[3 * n])
  <2>1. t \in [op : {"each-like"}, items : ShapeTo[3 * n], min : Nat, max : Maybe(Nat),
               example : SUBSET Present]
    BY DEF Maybe
  <2> QED BY <2>1 DEF ShapeOver
<1>2. t \in ShapeTo[3 * n + 1] /\ t \in Shape
  BY <1>1, DrawnFacts
<1>3. t.op = "each-like" /\ t.items = items /\ t.min = low /\ t.max = {high}
  OBVIOUS
<1> HIDE DEF t
<1>4. \A c \in Children(t) : Parses(c[2], t.op = "object")
  <2>1. Children(t) = {<<<<EachItem>>, items>>}
    BY <1>3 DEF Children
  <2>2. (t.op = "object") = FALSE
    BY <1>3
  <2>3. \A c \in Children(t) : c[2] = items
    BY <2>1
  <2> QED BY <2>2, <2>3
<1>5. \A m \in t.max : t.min <= m
  BY <1>3
<1>6. Parses(t, FALSE)
  BY <1>2, <1>3, <1>4, <1>5, ParsesIntro DEF AdmitsAbsent
<1> QED BY <1>2, <1>3, <1>6 DEF DrawnFirm, t

\* A leaf.
LEMMA LeafDrawn ==
  ASSUME NEW n \in Nat, n <= Depth, NEW s \in ShapeTo[0],
         s.op \in {"any", "kind", "equality", "any-of"}, s.op = "any-of" => AnyOfParses(s)
  PROVE  s \in DrawnFirm(n)
<1>1. s \in ShapeTo[3 * n + 1] /\ s \in Shape
  BY DrawnFacts
<1>2. Parses(s, FALSE)
  BY <1>1, LeafParses
<1> QED BY <1>1, <1>2 DEF DrawnFirm

\* One whose values were all null.
LEMMA FirmDrawn ==
  ASSUME NEW n \in Nat, n <= Depth
  PROVE  DrawnFirm(n) \subseteq DrawnTo(n)
BY DrawnFacts DEF DrawnFirm, DrawnTo

-----------------------------------------------------------------------------
\* What a position of scalars adds up to.

\* The shape of a position of scalars is one of its level.
LEMMA ScalarDrawn ==
  ASSUME NEW n \in Nat, n <= Depth, NEW inner, NEW e, Counted(inner, e), e.scalars > 0
  PROVE  ScalarShape(e) \in DrawnFirm(n)
<1> DEFINE options == SetToSeq(e.literals)
           first   == {options[1]}
           kind    == IF e.kinds = {"integer", "decimal"} THEN "number"
                      ELSE CHOOSE k \in e.kinds : TRUE
           chosen  == [op |-> "any-of", options |-> options, example |-> first]
           only    == [op |-> "equality", example |-> first]
<1>1. /\ e.literals \subseteq Scalar /\ IsFiniteSet(e.literals) /\ e.literals # {} /\ e.kinds # {}
      /\ \A l, m \in e.literals : SameValue(l, m) => l = m
      /\ e.kinds \subseteq {"boolean", "integer", "decimal", "string"}
  BY DEF Counted, Consistent
<1>2. /\ options \in Seq(e.literals) /\ Len(options) = Cardinality(e.literals)
      /\ \A i, j \in DOMAIN options : options[i] = options[j] => i = j
  BY <1>1, ListingFacts
<1>3. Cardinality(e.literals) # 0 /\ Cardinality(e.literals) \in Nat
  BY <1>1, FS_EmptySet, FS_CardinalityType
<1> HIDE DEF options
<1>4. 1 \in DOMAIN options /\ options # <<>> /\ options[1] \in e.literals
  BY <1>2, <1>3
<1>5. first \subseteq Present /\ first # {} /\ e.literals \subseteq Value /\ e.literals \subseteq Present
  BY <1>1, <1>4, ScalarsPresent
<1>6. options \in Seq(Present)
  BY <1>2, <1>5
<1>7. kind \in {"null", "boolean", "number", "integer", "decimal", "string"}
  BY <1>1
<1>8. \A i \in DOMAIN options : options[i] \in e.literals
  BY <1>2
<1>9. AnyOfParses(chosen)
  <2>1. \A i, j \in DOMAIN options : i # j => ~SameValue(options[i], options[j])
    BY <1>1, <1>2, <1>8
  <2>2. options[1] \in Range(options) /\ SameValue(options[1], options[1])
    BY <1>4, <1>5, EqualReflexive DEF Range
  <2> QED BY <1>4, <2>1, <2>2 DEF AnyOfParses
<1>10. chosen \in ShapeTo[0] /\ chosen.op = "any-of"
  BY <1>5, <1>6, LeafIntro
<1>11. only \in ShapeTo[0] /\ only.op = "equality"
  <2>1. only \in [op : {"equality", "type"}, example : (SUBSET Present) \ {{}}]
    BY <1>5
  <2>2. only \in ShapeOver({})
    BY <2>1 DEF ShapeOver
  <2>3. ShapeTo[0] = ShapeOver({})
    BY ShapeLevels
  <2> QED BY <2>2, <2>3
<1> HIDE DEF first, kind, chosen, only
<1>12. /\ Kind("boolean", {}) \in ShapeTo[0] /\ Kind(kind, first) \in ShapeTo[0]
       /\ Bare("any") \in ShapeTo[0]
       /\ Kind("boolean", {}).op = "kind" /\ Kind(kind, first).op = "kind" /\ Bare("any").op = "any"
  <2>1. {} \in SUBSET Present /\ first \in SUBSET Present
    BY <1>5
  <2> QED BY <1>7, <2>1, LeafIntro DEF Kind, Bare
<1>13. /\ chosen \in DrawnFirm(n) /\ only \in DrawnFirm(n) /\ Kind("boolean", {}) \in DrawnFirm(n)
       /\ Kind(kind, first) \in DrawnFirm(n) /\ Bare("any") \in DrawnFirm(n)
  BY <1>9, <1>10, <1>11, <1>12, LeafDrawn
<1>14. ScalarShape(e) \in {chosen, only, Kind("boolean", {}), Kind(kind, first), Bare("any")}
  BY DEF ScalarShape, chosen, only, kind, first, options
<1> QED BY <1>13, <1>14

-----------------------------------------------------------------------------
\* What any position adds up to.

Draws(f, n) == \A d \in EvidenceBelow(n) : f[d] \subseteq DrawnBelow(n)

\* An object's members add up to a shape the parser reads.
LEMMA MembersDrawn ==
  ASSUME NEW n \in Nat, n <= Depth, NEW f, Draws(f, n), NEW o,
         o.members \in [Name -> EvidenceBelow(n)]
  PROVE  ObjectShape(f, o) \in DrawnFirm(n)
<1> DEFINE Shapes(m) == f[o.members[m]]
           MemberShape(m) ==
             IF Shapes(m) = {} THEN None
             ELSE Presence(CHOOSE s \in Shapes(m) : TRUE, o.members[m], o.count)
           members == [m \in Name |-> MemberShape(m)]
<1>1. ASSUME NEW m \in Name
      PROVE  \/ MemberShape(m) = None
             \/ MemberShape(m) \in ShapeTo[3 * n] /\ Parses(MemberShape(m), TRUE)
  <2>1. CASE Shapes(m) = {}
    BY <2>1
  <2>2. CASE Shapes(m) # {}
    <3> DEFINE s == CHOOSE x \in Shapes(m) : TRUE
               t == [op |-> "optional", of |-> s, example |-> {}]
    <3>0. Shapes(m) \subseteq DrawnBelow(n)
      BY DEF Draws
    <3>1. s \in DrawnBelow(n)
      BY <2>2, <3>0
    <3> HIDE DEF s
    <3>2. s \in ShapeTo[3 * n] /\ s \in Shape /\ Parses(s, FALSE) /\ t \in ShapeTo[3 * n] /\ t \in Shape
      BY <3>1, DrawnFacts
    <3>3. Parses(s, TRUE)
      BY <3>2, ParsesFacts
    <3>4. Parses(t, TRUE)
      <4>1. t.op = "optional" /\ t.of = s
        OBVIOUS
      <4> HIDE DEF t
      <4>2. \A c \in Children(t) : Parses(c[2], t.op = "object")
        <5>1. Children(t) = {<<<<>>, s>>}
          BY <4>1 DEF Children
        <5>2. (t.op = "object") = FALSE
          BY <4>1
        <5>3. \A c \in Children(t) : c[2] = s
          BY <5>1
        <5> QED BY <3>2, <5>2, <5>3
      <4> QED BY <3>2, <4>1, <4>2, ParsesIntro
    <3>5. MemberShape(m) \in {s, t}
      BY <2>2 DEF Presence, s
    <3> QED BY <3>2, <3>3, <3>4, <3>5
  <2> QED BY <2>1, <2>2
<1> HIDE DEF MemberShape
<1>2. members \in MayHold(ShapeTo[3 * n])
  BY <1>1 DEF MayHold
<1>3. \A m \in Given(members) : Parses(members[m], TRUE)
  BY <1>1 DEF Given
<1>4. ObjectShape(f, o) = [op |-> "object", example |-> {}, members |-> members]
  BY DEF ObjectShape, MemberShape
<1> HIDE DEF members
<1> QED BY <1>2, <1>3, <1>4, ObjectDrawn

\* So do an array's items.
LEMMA ItemsDrawn ==
  ASSUME NEW n \in Nat, n <= Depth, NEW f, Draws(f, n), NEW a,
         a.items \in EvidenceBelow(n), a.lengths \in SUBSET Nat, a.lengths # {},
         IsFiniteSet(a.lengths)
  PROVE  ArrayShape(f, a) \in DrawnFirm(n)
<1> DEFINE items == IF f[a.items] = {} THEN Bare("any") ELSE CHOOSE s \in f[a.items] : TRUE
           low == Min(a.lengths)
           high == Max(a.lengths)
<1>1. low \in Nat /\ high \in Nat /\ low <= high
  BY MinFacts, MaxFacts
<1>2. Bare("any") \in ShapeTo[3 * n] /\ Parses(Bare("any"), FALSE)
  <2>1. Bare("any") \in ShapeTo[0] /\ Bare("any").op = "any"
    <3>1. {} \in SUBSET Present
      OBVIOUS
    <3> QED BY <3>1, LeafIntro DEF Bare
  <2> QED BY <2>1, DrawnFacts, LeafParses
<1>3. f[a.items] \subseteq DrawnBelow(n)
  BY DEF Draws
<1>4. items \in ShapeTo[3 * n] /\ Parses(items, FALSE)
  <2>1. CASE f[a.items] = {}
    BY <1>2, <2>1
  <2>2. CASE f[a.items] # {}
    <3>1. items \in DrawnBelow(n)
      BY <1>3, <2>2
    <3> HIDE DEF items
    <3> QED BY <3>1, DrawnFacts
  <2> QED BY <2>1, <2>2
<1>5. ArrayShape(f, a) =
        [op |-> "each-like", example |-> {}, min |-> low, max |-> {high}, items |-> items]
  BY DEF ArrayShape
<1> HIDE DEF items, low, high
<1> QED BY <1>1, <1>4, <1>5, ArrayDrawn

\* So does a position that was never null.
LEMMA ValueDrawn ==
  ASSUME NEW n \in Nat, n <= Depth, NEW f, Draws(f, n), NEW e \in EvidenceTo[n]
  PROVE  ValueShape(f, e) \in DrawnFirm(n)
<1> DEFINE inner == EvidenceBelow(n)
           kinds == {k \in {"object", "array", "scalar"} :
                       \/ k = "object" /\ e.object # {}
                       \/ k = "array"  /\ e.array # {}
                       \/ k = "scalar" /\ e.scalars > 0}
<1>1. Counted(inner, e) /\ NoEvidence \in inner
  BY EvidenceBelowFacts, EvidenceCases
<1>2. /\ ObjectOf(e).members \in [Name -> inner]
      /\ ArrayOf(e).lengths \subseteq Nat /\ IsFiniteSet(ArrayOf(e).lengths)
      /\ ArrayOf(e).items \in inner
  BY <1>1, PartsOf
<1>3. kinds = {"array"} => ArrayOf(e).lengths # {}
  <2>1. kinds = {"array"} => e.array # {}
    OBVIOUS
  <2>2. e.array # {} => ArrayOf(e) \in e.array
    BY DEF ArrayOf
  <2> QED BY <1>1, <2>1, <2>2 DEF Counted, Consistent
<1>4. kinds = {"scalar"} => e.scalars > 0
  OBVIOUS
<1>5. ValueShape(f, e) =
        CASE kinds = {"object"} -> ObjectShape(f, ObjectOf(e))
          [] kinds = {"array"}  -> ArrayShape(f, ArrayOf(e))
          [] kinds = {"scalar"} -> ScalarShape(e)
          [] OTHER -> Bare("any")
  BY DEF ValueShape
<1> HIDE DEF kinds
<1>6. CASE kinds = {"object"}
  <2>1. ObjectShape(f, ObjectOf(e)) \in DrawnFirm(n)
    BY <1>2, MembersDrawn
  <2> QED BY <1>5, <1>6, <2>1
<1>7. CASE kinds = {"array"}
  <2>1. ArrayShape(f, ArrayOf(e)) \in DrawnFirm(n)
    BY <1>2, <1>3, <1>7, ItemsDrawn
  <2>2. "array" # "object"
    OBVIOUS
  <2>3. kinds # {"object"}
    BY <1>7
  <2> QED BY <1>5, <1>7, <2>1, <2>3
<1>8. CASE kinds = {"scalar"}
  <2>1. ScalarShape(e) \in DrawnFirm(n)
    BY <1>1, <1>4, <1>8, ScalarDrawn
  <2>2. kinds # {"object"} /\ kinds # {"array"}
    BY <1>8
  <2> QED BY <1>5, <1>8, <2>1, <2>2
<1>9. CASE kinds # {"object"} /\ kinds # {"array"} /\ kinds # {"scalar"}
  <2>1. Bare("any") \in ShapeTo[0] /\ Bare("any").op = "any"
    <3>1. {} \in SUBSET Present
      OBVIOUS
    <3> QED BY <3>1, LeafIntro DEF Bare
  <2>2. Bare("any") \in DrawnFirm(n)
    BY <2>1, LeafDrawn
  <2> QED BY <1>5, <1>9, <2>2
<1> QED BY <1>6, <1>7, <1>8, <1>9

\* So does any position.
LEMMA EmittedDrawn ==
  ASSUME NEW n \in Nat, n <= Depth, NEW f, Draws(f, n), NEW e \in EvidenceTo[n]
  PROVE  Emitted(f, e) \subseteq DrawnTo(n)
<1>1. ValueShape(f, e) \in DrawnFirm(n)
  BY ValueDrawn
<1>2. ValueShape(f, e) \in DrawnTo(n)
  BY <1>1, FirmDrawn
<1>3. [op |-> "nullable", of |-> ValueShape(f, e), example |-> {}] \in DrawnTo(n)
  BY <1>1, NullableDrawn
<1>4. Kind("null", {}) \in DrawnTo(n)
  <2>1. Kind("null", {}) \in ShapeTo[0] /\ Kind("null", {}).op = "kind"
    <3>1. {} \in SUBSET Present
      OBVIOUS
    <3> QED BY <3>1, LeafIntro DEF Kind
  <2>2. Kind("null", {}) \in DrawnFirm(n)
    BY <2>1, LeafDrawn
  <2> QED BY <2>2, FirmDrawn
<1> QED BY <1>2, <1>3, <1>4 DEF Emitted

-----------------------------------------------------------------------------
\* The rank of evidence: what a position that was seen holds comes before it.

EvidenceHeight(e) ==
  CHOOSE n \in Nat : e \in EvidenceTo[n] /\ \A m \in Nat : e \in EvidenceTo[m] => n <= m

evidenceRank == [e \in Evidence |-> IF e = NoEvidence THEN 0 ELSE 1 + EvidenceHeight(e)]

\* Each evidence has a rank, one after its level but for that of nothing seen.
LEMMA EvidenceRankFacts ==
  /\ \A e \in Evidence : EvidenceHeight(e) \in Nat /\ EvidenceHeight(e) <= Depth
                         /\ e \in EvidenceTo[EvidenceHeight(e)]
  /\ \A e \in Evidence, n \in Nat : e \in EvidenceTo[n] => EvidenceHeight(e) <= n
  /\ evidenceRank \in [Evidence -> Nat]
<1>1. ASSUME NEW e \in Evidence
      PROVE  /\ EvidenceHeight(e) \in Nat /\ e \in EvidenceTo[EvidenceHeight(e)]
             /\ \A m \in Nat : e \in EvidenceTo[m] => EvidenceHeight(e) <= m
  <2> DEFINE S == {m \in Nat : e \notin EvidenceTo[m]}
  <2>1. S # Nat
    BY DepthIsNat DEF Evidence
  <2>2. PICK k \in Nat : k \notin S /\ \A m \in Nat : m < k => m \in S
    <3>1. S \in SUBSET Nat
      OBVIOUS
    <3> HIDE DEF S
    <3> QED BY <2>1, <3>1, Induction
  <2>3. e \in EvidenceTo[k] /\ \A m \in Nat : e \in EvidenceTo[m] => k <= m
    BY <2>2
  <2> QED BY <2>3 DEF EvidenceHeight
<1>2. evidenceRank \in [Evidence -> Nat]
  BY <1>1 DEF evidenceRank
<1>3. \A e \in Evidence : EvidenceHeight(e) <= Depth
  BY <1>1, DepthIsNat DEF Evidence
<1> QED BY <1>1, <1>2, <1>3

\* What a position that was seen holds is of a lower rank.
LEMMA EvidencePartsLower ==
  ASSUME NEW e \in Evidence, e.seen # 0
  PROVE  /\ ObjectOf(e).members \in [Name -> Evidence]
         /\ \A n \in Name : evidenceRank[ObjectOf(e).members[n]] < evidenceRank[e]
         /\ ArrayOf(e).items \in Evidence
         /\ evidenceRank[ArrayOf(e).items] < evidenceRank[e]
<1> DEFINE k == EvidenceHeight(e)
           inner == EvidenceBelow(k)
<1>1. k \in Nat /\ k <= Depth /\ e \in EvidenceTo[k]
  BY EvidenceRankFacts
<1>2. e # NoEvidence
  BY DEF NoEvidence
<1>3. evidenceRank[e] = 1 + k
  BY <1>2 DEF evidenceRank
<1> HIDE DEF k
<1>4. EvidenceTo[k] = EvidenceOver(inner) /\ NoEvidence \in inner /\ inner \subseteq Evidence
  BY <1>1, EvidenceBelowFacts
<1>5. Counted(inner, e)
  BY <1>1, <1>4, EvidenceCases
<1>6. ObjectOf(e).members \in [Name -> inner] /\ ArrayOf(e).items \in inner
  BY <1>4, <1>5, PartsOf
<1>7. ASSUME NEW d \in inner PROVE evidenceRank[d] < 1 + k
  <2>1. d \in Evidence
    BY <1>4
  <2>2. CASE d = NoEvidence
    <3>1. evidenceRank[d] = 0
      BY <2>1, <2>2 DEF evidenceRank
    <3> QED BY <1>1, <3>1
  <2>3. CASE d # NoEvidence
    <3>1. k # 0 /\ d \in EvidenceTo[k - 1]
      BY <2>3 DEF EvidenceBelow, NoneBelow
    <3>2. k - 1 \in Nat
      BY <1>1, <3>1
    <3>3. EvidenceHeight(d) <= k - 1 /\ EvidenceHeight(d) \in Nat
      BY <2>1, <3>1, <3>2, EvidenceRankFacts
    <3>4. evidenceRank[d] = 1 + EvidenceHeight(d)
      BY <2>1, <2>3 DEF evidenceRank
    <3> QED BY <1>1, <3>2, <3>3, <3>4
  <2> QED BY <2>2, <2>3
<1> HIDE DEF inner
<1> QED BY <1>3, <1>4, <1>6, <1>7

\* What is emitted for a position depends on what is emitted for its parts.
LEMMA EmittedReads ==
  ASSUME NEW f, NEW g, NEW e \in Evidence,
         \A d \in Evidence : evidenceRank[d] < evidenceRank[e] => f[d] = g[d]
  PROVE  Emitted(f, e) = Emitted(g, e)
<1>1. CASE e.seen = 0
  BY <1>1 DEF Emitted
<1>2. CASE e.seen # 0
  <2>1. /\ ObjectOf(e).members \in [Name -> Evidence]
        /\ \A n \in Name : evidenceRank[ObjectOf(e).members[n]] < evidenceRank[e]
        /\ ArrayOf(e).items \in Evidence
        /\ evidenceRank[ArrayOf(e).items] < evidenceRank[e]
    BY <1>2, EvidencePartsLower
  <2>2. \A n \in Name : f[ObjectOf(e).members[n]] = g[ObjectOf(e).members[n]]
    BY <2>1
  <2>3. f[ArrayOf(e).items] = g[ArrayOf(e).items]
    BY <2>1
  <2>4. ObjectShape(f, ObjectOf(e)) = ObjectShape(g, ObjectOf(e))
    <3> DEFINE o == ObjectOf(e)
               Of(shapes, m) ==
                 IF shapes = {} THEN None
                 ELSE Presence(CHOOSE s \in shapes : TRUE, o.members[m], o.count)
               Shown(h, m) == Of(h[o.members[m]], m)
    <3>1. \A m \in Name : Shown(f, m) = Shown(g, m)
      <4> HIDE DEF Of
      <4> QED BY <2>2
    <3>2. /\ ObjectShape(f, o) = [op |-> "object", example |-> {}, members |-> [m \in Name |-> Shown(f, m)]]
          /\ ObjectShape(g, o) = [op |-> "object", example |-> {}, members |-> [m \in Name |-> Shown(g, m)]]
      BY DEF ObjectShape
    <3> HIDE DEF o, Shown
    <3>3. ObjectShape(f, o) = ObjectShape(g, o)
      BY <3>1, <3>2
    <3> QED BY <3>3 DEF o
  <2>5. ArrayShape(f, ArrayOf(e)) = ArrayShape(g, ArrayOf(e))
    BY <2>3 DEF ArrayShape
  <2>6. ValueShape(f, e) = ValueShape(g, e)
    BY <2>4, <2>5 DEF ValueShape
  <2> QED BY <2>6 DEF Emitted
<1> QED BY <1>1, <1>2

\* There is a function that emits as Emitted says.
LEMMA ToShapeIs ==
  toShape = [e \in Evidence |-> Emitted(toShape, e)]
<1> DEFINE S == Evidence
           T == SUBSET Shape
           Kept(a) == IF a \in T THEN a ELSE {}
           D == [f \in [S -> T] |-> [e \in S |-> Kept(Emitted(f, e))]]
<1>1. D \in [[S -> T] -> [S -> T]]
  OBVIOUS
<1>2. ASSUME NEW f \in [S -> T], NEW g \in [S -> T], NEW e \in S,
             \A d \in S : evidenceRank[d] < evidenceRank[e] => f[d] = g[d]
      PROVE  D[f][e] = D[g][e]
  <2>1. Emitted(f, e) = Emitted(g, e)
    BY <1>2, EmittedReads
  <2> QED BY <2>1
<1>3. PICK f \in [S -> T] : f = D[f]
  <2>1. T # {} /\ evidenceRank \in [S -> Nat]
    BY EvidenceRankFacts
  <2> HIDE DEF S, T, D
  <2>2. Recurs(S, T, evidenceRank, D)
    BY <1>1, <1>2, <2>1 DEF Recurs
  <2> QED BY <2>2, Recursion
<1>4. \A e \in Evidence : f[e] = Kept(Emitted(f, e))
  BY <1>3
<1>5. f = [e \in Evidence |-> f[e]]
  OBVIOUS
<1> HIDE DEF S, D
<1> DEFINE Q == {n \in Nat : n <= Depth =>
                   \A e \in EvidenceTo[n] : f[e] \subseteq DrawnTo(n) /\ f[e] = Emitted(f, e)}
<1>6. ASSUME NEW n \in Nat, \A m \in Nat : m < n => m \in Q PROVE n \in Q
  <2> SUFFICES ASSUME n <= Depth, NEW e \in EvidenceTo[n]
               PROVE  f[e] \subseteq DrawnTo(n) /\ f[e] = Emitted(f, e)
    OBVIOUS
  <2>1. e \in Evidence
    BY EvidenceBelowFacts
  <2>2. Draws(f, n)
    <3> SUFFICES ASSUME NEW d \in EvidenceBelow(n) PROVE f[d] \subseteq DrawnBelow(n)
      BY DEF Draws
    <3>1. CASE n = 0
      <4>1. d = NoEvidence /\ d \in Evidence
        BY <3>1, EvidenceBelowFacts DEF EvidenceBelow, NoneBelow
      <4>2. Emitted(f, d) = {}
        BY <4>1 DEF Emitted, NoEvidence
      <4>3. f[d] = {}
        BY <1>4, <4>1, <4>2
      <4> QED BY <4>3
    <3>2. CASE n # 0
      <4>1. n - 1 \in Nat /\ n - 1 < n /\ n - 1 <= Depth
        BY <3>2, DepthIsNat
      <4>2. n - 1 \in Q /\ d \in EvidenceTo[n - 1] /\ DrawnBelow(n) = DrawnTo(n - 1)
        BY <1>6, <3>2, <4>1 DEF EvidenceBelow, DrawnBelow
      <4> QED BY <4>1, <4>2
    <3> QED BY <3>1, <3>2
  <2>3. Emitted(f, e) \subseteq DrawnTo(n)
    BY <2>2, EmittedDrawn
  <2>4. DrawnTo(n) \subseteq Shape
    BY DrawnFacts DEF DrawnTo
  <2>5. Emitted(f, e) \in T
    BY <2>3, <2>4
  <2>6. f[e] = Emitted(f, e)
    BY <1>4, <2>1, <2>5
  <2> QED BY <2>3, <2>6
<1>7. Q = Nat
  <2> HIDE DEF Q
  <2>1. Q \in SUBSET Nat
    BY DEF Q
  <2> QED BY <1>6, <2>1, Induction
<1>8. \A e \in Evidence : f[e] = Emitted(f, e)
  <2>1. Depth \in Q /\ Depth \in Nat /\ Depth <= Depth
    BY <1>7, DepthIsNat
  <2> QED BY <2>1 DEF Evidence
<1>9. f = [e \in Evidence |-> Emitted(f, e)]
  BY <1>5, <1>8
<1> QED BY <1>9 DEF toShape

\* What is emitted for evidence of a level is of the level, and the parser reads it.
LEMMA ToShapeFacts ==
  /\ \A e \in Evidence : toShape[e] = Emitted(toShape, e)
  /\ \A n \in Nat : n <= Depth => \A e \in EvidenceTo[n] : toShape[e] \subseteq DrawnTo(n)
<1>1. \A e \in Evidence : toShape[e] = Emitted(toShape, e)
  BY ToShapeIs
<1> DEFINE Q == {n \in Nat : n <= Depth => \A e \in EvidenceTo[n] : toShape[e] \subseteq DrawnTo(n)}
<1>2. ASSUME NEW n \in Nat, \A m \in Nat : m < n => m \in Q PROVE n \in Q
  <2> SUFFICES ASSUME n <= Depth, NEW e \in EvidenceTo[n] PROVE toShape[e] \subseteq DrawnTo(n)
    OBVIOUS
  <2>1. e \in Evidence
    BY EvidenceBelowFacts
  <2>2. Draws(toShape, n)
    <3> SUFFICES ASSUME NEW d \in EvidenceBelow(n) PROVE toShape[d] \subseteq DrawnBelow(n)
      BY DEF Draws
    <3>1. CASE n = 0
      <4>1. d = NoEvidence /\ d \in Evidence
        BY <3>1, EvidenceBelowFacts DEF EvidenceBelow, NoneBelow
      <4>2. Emitted(toShape, d) = {}
        BY <4>1 DEF Emitted, NoEvidence
      <4> QED BY <1>1, <4>1, <4>2
    <3>2. CASE n # 0
      <4>1. n - 1 \in Nat /\ n - 1 < n /\ n - 1 <= Depth
        BY <3>2, DepthIsNat
      <4>2. n - 1 \in Q /\ d \in EvidenceTo[n - 1] /\ DrawnBelow(n) = DrawnTo(n - 1)
        BY <1>2, <3>2, <4>1 DEF EvidenceBelow, DrawnBelow
      <4> QED BY <4>1, <4>2
    <3> QED BY <3>1, <3>2
  <2>3. Emitted(toShape, e) \subseteq DrawnTo(n)
    BY <2>2, EmittedDrawn
  <2> QED BY <1>1, <2>1, <2>3
<1>3. Q = Nat
  <2> HIDE DEF Q
  <2>1. Q \in SUBSET Nat
    BY DEF Q
  <2> QED BY <1>2, <2>1, Induction
<1> QED BY <1>1, <1>3

-----------------------------------------------------------------------------
\* What the evidence of a position holds of the values observed there.

\* How the recorder names the kind of a scalar.
KindSeen(v) == IF v.is = "number" THEN v.written ELSE v.is

\* A null was seen, a scalar like the value, or an object or an array with such
\* parts; `held` says what the positions below hold.
HoldsScalar(e, v) ==
  v.is \in {"boolean", "number", "string"} =>
    e.scalars > 0 /\ KindSeen(v) \in e.kinds /\ \E l \in e.literals : SameValue(l, v)

HoldsArray(held, e, v) ==
  v.is = "array" =>
    /\ e.array # {} /\ Len(v.items) \in ArrayOf(e).lengths
    /\ \A i \in DOMAIN v.items : <<ArrayOf(e).items, v.items[i]>> \in held

\* A name the object has not was absent from one of the objects.
HoldsMember(held, o, v, n) ==
  IF n \in MemberNames(v) THEN <<o.members[n], v.members[n]>> \in held
  ELSE o.members[n].seen < o.count

HoldsObject(held, e, v) ==
  v.is = "object" => e.object # {} /\ \A n \in Name : HoldsMember(held, ObjectOf(e), v, n)

HoldsNode(held, e, v) ==
  /\ v.is = "null" => e.nulls > 0
  /\ HoldsScalar(e, v) /\ HoldsArray(held, e, v) /\ HoldsObject(held, e, v)

\* The largest such relation of evidence and values.
Bears(held) == \A e \in Evidence, v \in Present : <<e, v>> \in held => HoldsNode(held, e, v)
Held == UNION {R \in SUBSET (Evidence \X Present) : Bears(R)}

Holds(e, v) == <<e, v>> \in Held

\* What holds more parts holds more values.
LEMMA HoldsGrows ==
  ASSUME NEW R, NEW S, R \subseteq S, NEW e, NEW v, HoldsNode(R, e, v)
  PROVE  HoldsNode(S, e, v)
BY DEF HoldsNode, HoldsArray, HoldsObject, HoldsMember

\* Evidence holds a value just when it holds its parts.
LEMMA HoldsUnfolds ==
  ASSUME NEW e \in Evidence, NEW v \in Present
  PROVE  Holds(e, v) <=> HoldsNode(Held, e, v)
<1>1. ASSUME NEW d \in Evidence, NEW u \in Present, <<d, u>> \in Held PROVE HoldsNode(Held, d, u)
  <2>1. PICK R \in SUBSET (Evidence \X Present) : Bears(R) /\ <<d, u>> \in R
    BY <1>1 DEF Held
  <2>2. HoldsNode(R, d, u)
    BY <2>1 DEF Bears
  <2>3. R \subseteq Held
    BY <2>1 DEF Held
  <2> QED BY <2>2, <2>3, HoldsGrows
<1>2. ASSUME HoldsNode(Held, e, v) PROVE <<e, v>> \in Held
  <2> DEFINE S == Held \cup {<<e, v>>}
  <2>1. Held \subseteq Evidence \X Present
    BY DEF Held
  <2>2. S \in SUBSET (Evidence \X Present) /\ Held \subseteq S /\ <<e, v>> \in S
    BY <2>1
  <2>3. ASSUME NEW d \in Evidence, NEW u \in Present, <<d, u>> \in S PROVE HoldsNode(S, d, u)
    <3>1. HoldsNode(Held, d, u)
      <4>1. CASE <<d, u>> \in Held
        BY <1>1, <4>1
      <4>2. CASE <<d, u>> = <<e, v>>
        <5>1. d = e /\ u = v
          BY <4>2
        <5> QED BY <1>2, <5>1
      <4> QED BY <2>3, <4>1, <4>2
    <3> HIDE DEF S
    <3> QED BY <2>2, <3>1, HoldsGrows
  <2> HIDE DEF S
  <2>4. Bears(S)
    BY <2>3 DEF Bears
  <2> QED BY <2>2, <2>4 DEF Held
<1> QED BY <1>1, <1>2 DEF Holds

\* What is observed of present values is evidence, and is counted.
LEMMA ObservedTyped ==
  ASSUME NEW e \in Evidence, NEW w \in Present
  PROVE  /\ Observed(e, w) \in Evidence /\ Observed(e, w) = Observing(observing, w, e)
         /\ Observed(e, w) = observing[<<w, e>>]
         /\ Observed(e, w).seen = e.seen + 1
         /\ e = Fields(e) /\ Counted(Evidence, e) /\ NoEvidence \in Evidence
<1>1. Stays(observing, ValueTo[Depth], EvidenceTo[Depth])
  BY DepthIsNat, ObservedFacts
<1>2. observing[<<w, e>>] \in Evidence
  BY <1>1 DEF Stays, Present, Evidence
<1>3. Observing(observing, w, e).seen = e.seen + 1
  BY EvidenceFields, ObservingCounts
<1> QED BY <1>2, <1>3, ObservedUnfolds, EvidenceFields

\* What an object adds.
LEMMA ObservingObject ==
  ASSUME NEW f, NEW v \in Present, NEW e, e = Fields(e), v.is = "object"
  PROVE  Observing(f, v, e) =
           After(e, e.nulls, e.scalars, e.literals, e.kinds,
                 {[count |-> ObjectOf(e).count + 1, members |-> MembersFrom(f, v, e)]}, e.array)
BY ObservingCases

\* What a scalar adds.
LEMMA ObservingScalar ==
  ASSUME NEW f, NEW v \in Present, NEW e, e = Fields(e), v.is \notin {"null", "object", "array"}
  PROVE  Observing(f, v, e) =
           After(e, e.nulls, e.scalars + 1, WithLiteral(e.literals, v), e.kinds \cup {KindSeen(v)},
                 e.object, e.array)
BY ObservingCases DEF KindSeen

\* What of the evidence an observation leaves, or adds to.
LEMMA ObservedScalars ==
  ASSUME NEW e \in Evidence, NEW w \in Present
  PROVE  /\ Observed(e, w).nulls = IF w.is = "null" THEN e.nulls + 1 ELSE e.nulls
         /\ IF w.is \in {"null", "object", "array"}
            THEN /\ Observed(e, w).scalars = e.scalars /\ Observed(e, w).literals = e.literals
                 /\ Observed(e, w).kinds = e.kinds
            ELSE /\ Observed(e, w).scalars = e.scalars + 1
                 /\ Observed(e, w).literals = WithLiteral(e.literals, w)
                 /\ Observed(e, w).kinds = e.kinds \cup {KindSeen(w)}
<1>1. Observed(e, w) = Observing(observing, w, e) /\ e = Fields(e)
  BY ObservedTyped
<1>2. CASE w.is = "null"
  BY <1>1, <1>2, ObservingCases DEF After
<1>3. CASE w.is = "object"
  BY <1>1, <1>3, ObservingCases DEF After
<1>4. CASE w.is = "array"
  BY <1>1, <1>4, ObservingCases DEF After
<1>5. CASE w.is \notin {"null", "object", "array"}
  BY <1>1, <1>5, ObservingScalar DEF After
<1> QED BY <1>2, <1>3, <1>4, <1>5

\* Its object is that of the evidence but for an object's observation.
LEMMA ObservedObject ==
  ASSUME NEW e \in Evidence, NEW w \in Present
  PROVE  IF w.is = "object"
         THEN /\ Observed(e, w).object # {}
              /\ ObjectOf(Observed(e, w)).count = ObjectOf(e).count + 1
              /\ ObjectOf(Observed(e, w)).members = MembersFrom(observing, w, e)
         ELSE Observed(e, w).object = e.object
<1>1. Observed(e, w) = Observing(observing, w, e) /\ e = Fields(e)
  BY ObservedTyped
<1>2. CASE w.is = "null"
  BY <1>1, <1>2, ObservingCases DEF After
<1>3. CASE w.is = "object"
  <2> DEFINE o == [count |-> ObjectOf(e).count + 1, members |-> MembersFrom(observing, w, e)]
             a == Observed(e, w)
  <2>1. a.object = {o}
    BY <1>1, <1>3, ObservingObject DEF After
  <2>2. o.count = ObjectOf(e).count + 1 /\ o.members = MembersFrom(observing, w, e)
    OBVIOUS
  <2> HIDE DEF o, a
  <2>3. a.object # {} /\ ObjectOf(a) = o
    BY <2>1 DEF ObjectOf
  <2> QED BY <1>3, <2>2, <2>3 DEF a
<1>4. CASE w.is = "array"
  BY <1>1, <1>4, ObservingCases DEF After
<1>5. CASE w.is \notin {"null", "object", "array"}
  BY <1>1, <1>5, ObservingScalar DEF After
<1> QED BY <1>2, <1>3, <1>4, <1>5

\* So is its array, but for an array's.
LEMMA ObservedArray ==
  ASSUME NEW e \in Evidence, NEW w \in Present
  PROVE  IF w.is = "array"
         THEN /\ Observed(e, w).array # {}
              /\ ArrayOf(Observed(e, w)).lengths = ArrayOf(e).lengths \cup {Len(w.items)}
              /\ ArrayOf(Observed(e, w)).items
                   = ItemsFrom(observing, w.items, ArrayOf(e).items)[Len(w.items)]
         ELSE Observed(e, w).array = e.array
<1>1. Observed(e, w) = Observing(observing, w, e) /\ e = Fields(e)
  BY ObservedTyped
<1>2. CASE w.is = "null"
  BY <1>1, <1>2, ObservingCases DEF After
<1>3. CASE w.is = "object"
  BY <1>1, <1>3, ObservingCases DEF After
<1>4. CASE w.is = "array"
  <2> DEFINE r == [lengths |-> ArrayOf(e).lengths \cup {Len(w.items)},
                   items |-> ItemsFrom(observing, w.items, ArrayOf(e).items)[Len(w.items)]]
             a == Observed(e, w)
  <2>1. a.array = {r}
    BY <1>1, <1>4, ObservingArray DEF After
  <2>2. /\ r.lengths = ArrayOf(e).lengths \cup {Len(w.items)}
        /\ r.items = ItemsFrom(observing, w.items, ArrayOf(e).items)[Len(w.items)]
    OBVIOUS
  <2> HIDE DEF r, a
  <2>3. a.array # {} /\ ArrayOf(a) = r
    BY <2>1 DEF ArrayOf
  <2> QED BY <1>4, <2>2, <2>3 DEF a
<1>5. CASE w.is \notin {"null", "object", "array"}
  BY <1>1, <1>5, ObservingScalar DEF After
<1> QED BY <1>2, <1>3, <1>4, <1>5

\* The parts of what a position has seen are evidence.
LEMMA PartsAreEvidence ==
  ASSUME NEW e \in Evidence
  PROVE  /\ e.nulls \in Nat /\ e.scalars \in Nat
         /\ ArrayOf(e).items \in Evidence
         /\ \A n \in Name : /\ ObjectOf(e).members[n] \in Evidence
                            /\ ObjectOf(e).members[n].seen \in Nat
                            /\ ObjectOf(e).count \in Nat
                            /\ ObjectOf(e).members[n].seen <= ObjectOf(e).count
<1>1. Counted(Evidence, e) /\ NoEvidence \in Evidence
  BY EvidenceFields
<1>2. \A d \in Evidence : d.seen \in Nat
  BY EvidenceFields DEF Counted
<1>3. ArrayOf(e).items \in Evidence /\ ObjectOf(e).count \in Nat
  BY <1>1, PartsOf
<1>4. e.nulls \in Nat /\ e.scalars \in Nat
  BY <1>1 DEF Counted
<1> QED BY <1>1, <1>2, <1>3, <1>4, MemberCounts

\* The parts of a value are values of a lower rank.
LEMMA PartsOfPresent ==
  ASSUME NEW v \in Present
  PROVE  /\ v \in Value
         /\ v.is = "array" =>
              /\ v.items \in Seq(Present)
              /\ \A i \in DOMAIN v.items :
                   v.items[i] \in Present /\ valueRank[v.items[i]] < valueRank[v]
         /\ v.is = "object" =>
              \A n \in Name : /\ v.members[n] \in Value /\ valueRank[v.members[n]] < valueRank[v]
                              /\ n \in MemberNames(v) => v.members[n] \in Present
                              /\ n \notin MemberNames(v) => v.members[n] = Absent
<1>1. v \in Value
  BY ScalarsPresent
<1> QED BY <1>1, ValueFacts DEF MemberNames

\* What is held stays held, whatever else is observed.
Remains(v) == \A e \in Evidence, w \in Present : Holds(e, v) => Holds(Observed(e, w), v)

\* A list's items keep what their position holds.
LEMMA ItemsRemain ==
  ASSUME NEW v \in Present, Remains(v), NEW list \in Seq(Present), NEW start \in Evidence,
         Holds(start, v)
  PROVE  Holds(ItemsFrom(observing, list, start)[Len(list)], v)
<1> DEFINE T == {t \in Evidence : Holds(t, v)}
<1>1. Stays(observing, Present, T)
  <2>1. ASSUME NEW u \in Present, NEW t \in T PROVE observing[<<u, t>>] \in T
    BY ObservedTyped DEF Remains
  <2> QED BY <2>1 DEF Stays
<1>2. start \in T
  OBVIOUS
<1>3. StepsOf(ItemsFrom(observing, list, start), observing, T, list, start)
  BY <1>1, <1>2, ItemsFacts
<1>4. Len(list) \in 0..Len(list)
  OBVIOUS
<1>5. ItemsFrom(observing, list, start)[Len(list)] \in T
  BY <1>3, <1>4 DEF StepsOf
<1> QED BY <1>5

\* An array keeps its items.
LEMMA ArrayRemains ==
  ASSUME NEW v \in Present, v.is = "array", \A i \in DOMAIN v.items : Remains(v.items[i]),
         NEW e \in Evidence, NEW w \in Present, HoldsArray(Held, e, v)
  PROVE  HoldsArray(Held, Observed(e, w), v)
<1>0. /\ e.array # {} /\ Len(v.items) \in ArrayOf(e).lengths
      /\ \A i \in DOMAIN v.items : Holds(ArrayOf(e).items, v.items[i])
  BY DEF HoldsArray, Holds
<1>1. CASE w.is = "array"
  <2>1. /\ Observed(e, w).array # {}
        /\ ArrayOf(Observed(e, w)).lengths = ArrayOf(e).lengths \cup {Len(w.items)}
        /\ ArrayOf(Observed(e, w)).items
             = ItemsFrom(observing, w.items, ArrayOf(e).items)[Len(w.items)]
    BY <1>1, ObservedArray
  <2>2. w.items \in Seq(Present) /\ ArrayOf(e).items \in Evidence
    BY <1>1, PartsOfPresent, PartsAreEvidence
  <2>3. ASSUME NEW i \in DOMAIN v.items PROVE Holds(ArrayOf(Observed(e, w)).items, v.items[i])
    <3>1. v.items[i] \in Present
      BY PartsOfPresent
    <3> QED BY <1>0, <2>1, <2>2, <3>1, ItemsRemain
  <2> QED BY <1>0, <2>1, <2>3 DEF HoldsArray, Holds
<1>2. CASE w.is # "array"
  <2>1. Observed(e, w).array = e.array
    BY <1>2, ObservedArray
  <2>2. ArrayOf(Observed(e, w)) = ArrayOf(e)
    BY <2>1 DEF ArrayOf
  <2> QED BY <1>0, <2>1, <2>2 DEF HoldsArray, Holds
<1> QED BY <1>1, <1>2

\* An object keeps its members, and the absence of the others.
LEMMA ObjectRemains ==
  ASSUME NEW v \in Present, v.is = "object",
         \A n \in MemberNames(v) : Remains(v.members[n]),
         NEW e \in Evidence, NEW w \in Present, HoldsObject(Held, e, v)
  PROVE  HoldsObject(Held, Observed(e, w), v)
<1>0. e.object # {} /\ \A n \in Name : HoldsMember(Held, ObjectOf(e), v, n)
  BY DEF HoldsObject
<1>1. CASE w.is = "object"
  <2> DEFINE o == ObjectOf(e)
             q == ObjectOf(Observed(e, w))
  <2>1. /\ Observed(e, w).object # {} /\ q.count = o.count + 1
        /\ q.members = MembersFrom(observing, w, e)
    BY <1>1, ObservedObject
  <2>2. ASSUME NEW n \in Name PROVE HoldsMember(Held, q, v, n)
    <3>1. /\ o.members[n] \in Evidence /\ o.members[n].seen \in Nat /\ o.count \in Nat
          /\ n \in MemberNames(w) => w.members[n] \in Present
      BY <1>1, PartsAreEvidence, PartsOfPresent
    <3>2. q.members[n] = IF n \in MemberNames(w) THEN observing[<<w.members[n], o.members[n]>>]
                         ELSE o.members[n]
      BY <2>1 DEF MembersFrom
    <3>3. q.members[n] \in {o.members[n], Observed(o.members[n], w.members[n])}
          /\ (n \notin MemberNames(w) => q.members[n] = o.members[n])
      BY <3>1, <3>2, ObservedTyped
    <3>4. q.members[n].seen <= o.members[n].seen + 1
      <4> DEFINE d == o.members[n]
      <4>1. d \in Evidence /\ d.seen \in Nat
        BY <3>1
      <4>2. n \in MemberNames(w) => Observed(d, w.members[n]).seen = d.seen + 1
        BY <3>1, ObservedTyped
      <4>3. q.members[n] = IF n \in MemberNames(w) THEN Observed(d, w.members[n]) ELSE d
        BY <3>1, <3>2, ObservedTyped
      <4> HIDE DEF d, q
      <4>4. q.members[n].seen \in {d.seen, d.seen + 1}
        BY <4>2, <4>3
      <4>5. q.members[n].seen <= d.seen + 1
        BY <4>1, <4>4
      <4> QED BY <4>5 DEF d
    <3>5. HoldsMember(Held, o, v, n)
      BY <1>0
    <3> HIDE DEF o, q
    <3>6. CASE n \in MemberNames(v)
      <4>1. Holds(o.members[n], v.members[n]) /\ v.members[n] \in Present
        BY <3>5, <3>6, PartsOfPresent DEF HoldsMember, Holds
      <4>2. Holds(q.members[n], v.members[n])
        <5>1. CASE n \in MemberNames(w)
          BY <3>1, <3>3, <3>6, <4>1, <5>1 DEF Remains
        <5>2. CASE n \notin MemberNames(w)
          BY <3>3, <4>1, <5>2
        <5> QED BY <5>1, <5>2
      <4> QED BY <3>6, <4>2 DEF HoldsMember, Holds
    <3>7. CASE n \notin MemberNames(v)
      <4>1. o.members[n].seen < o.count
        BY <3>5, <3>7 DEF HoldsMember
      <4>2. q.members[n].seen \in Nat
        BY <1>1, PartsAreEvidence, ObservedTyped DEF q
      <4>3. q.members[n].seen < q.count
        BY <2>1, <3>1, <3>4, <4>1, <4>2
      <4> QED BY <3>7, <4>3 DEF HoldsMember
    <3> QED BY <3>6, <3>7
  <2> QED BY <2>1, <2>2 DEF HoldsObject
<1>2. CASE w.is # "object"
  <2>1. Observed(e, w).object = e.object
    BY <1>2, ObservedObject
  <2>2. ObjectOf(Observed(e, w)) = ObjectOf(e)
    BY <2>1 DEF ObjectOf
  <2> QED BY <1>0, <2>1, <2>2 DEF HoldsObject
<1> QED BY <1>1, <1>2

\* A scalar stays, as a literal and by its kind.
LEMMA ScalarRemains ==
  ASSUME NEW v \in Present, NEW e \in Evidence, NEW w \in Present, HoldsScalar(e, v)
  PROVE  HoldsScalar(Observed(e, w), v)
<1>1. e.literals \subseteq WithLiteral(e.literals, w)
  BY DEF WithLiteral
<1>2. e.scalars \in Nat
  BY PartsAreEvidence
<1>3. CASE w.is \in {"null", "object", "array"}
  BY <1>3, ObservedScalars DEF HoldsScalar
<1>4. CASE w.is \notin {"null", "object", "array"}
  <2>1. /\ Observed(e, w).scalars = e.scalars + 1
        /\ e.literals \subseteq Observed(e, w).literals /\ e.kinds \subseteq Observed(e, w).kinds
    BY <1>1, <1>4, ObservedScalars
  <2> QED BY <1>2, <2>1 DEF HoldsScalar
<1> QED BY <1>3, <1>4

\* Every value stays held.
LEMMA AllRemain ==
  \A v \in Present : Remains(v)
<1> DEFINE S == {v \in Value : v # Absent => Remains(v)}
<1>1. ASSUME NEW v \in Value, \A u \in Value : valueRank[u] < valueRank[v] => u \in S
      PROVE  v \in S
  <2> SUFFICES ASSUME v # Absent, NEW e \in Evidence, NEW w \in Present, Holds(e, v)
               PROVE  Holds(Observed(e, w), v)
    BY DEF Remains
  <2>1. v \in Present
    BY ValueFacts
  <2>2. ASSUME NEW u \in Present, valueRank[u] < valueRank[v] PROVE Remains(u)
    <3>1. u \in Value /\ u # Absent
      BY ScalarsPresent, AbsentFacts
    <3> QED BY <1>1, <2>2, <3>1
  <2> HIDE DEF S
  <2>3. HoldsNode(Held, e, v) /\ Observed(e, w) \in Evidence
    BY <2>1, HoldsUnfolds, ObservedTyped
  <2>4. HoldsArray(Held, Observed(e, w), v)
    <3>1. CASE v.is = "array"
      <4>1. \A i \in DOMAIN v.items : Remains(v.items[i])
        BY <2>1, <2>2, <3>1, PartsOfPresent
      <4> QED BY <2>1, <2>3, <3>1, <4>1, ArrayRemains DEF HoldsNode
    <3>2. CASE v.is # "array"
      BY <3>2 DEF HoldsArray
    <3> QED BY <3>1, <3>2
  <2>5. HoldsObject(Held, Observed(e, w), v)
    <3>1. CASE v.is = "object"
      <4>1. \A n \in MemberNames(v) : n \in Name
        BY DEF MemberNames
      <4>2. \A n \in MemberNames(v) : Remains(v.members[n])
        BY <2>1, <2>2, <3>1, <4>1, PartsOfPresent
      <4> QED BY <2>1, <2>3, <3>1, <4>2, ObjectRemains DEF HoldsNode
    <3>2. CASE v.is # "object"
      BY <3>2 DEF HoldsObject
    <3> QED BY <3>1, <3>2
  <2>6. HoldsScalar(Observed(e, w), v)
    BY <2>1, <2>3, ScalarRemains DEF HoldsNode
  <2>7. v.is = "null" => Observed(e, w).nulls > 0
    BY <2>3, ObservedScalars, PartsAreEvidence DEF HoldsNode
  <2> QED BY <2>1, <2>3, <2>4, <2>5, <2>6, <2>7, HoldsUnfolds DEF HoldsNode
<1>2. Value \subseteq S
  <2> HIDE DEF S
  <2> QED BY <1>1, ValueInduction
<1> QED BY <1>2, AbsentFacts, ScalarsPresent

\* What is observed is held.
Enters(v) == \A e \in Evidence : Holds(Observed(e, v), v)

\* Each item of a list that was observed is held.
LEMMA ItemsHeld ==
  ASSUME NEW list \in Seq(Present), NEW start \in Evidence,
         \A i \in DOMAIN list : Enters(list[i]), NEW i \in DOMAIN list
  PROVE  Holds(ItemsFrom(observing, list, start)[Len(list)], list[i])
<1> DEFINE h == ItemsFrom(observing, list, start)
           n == Len(list)
           Q == {j \in Nat : i <= j /\ j <= n => Holds(h[j], list[i])}
<1>0. n \in Nat /\ i \in 1..n /\ i \in Nat /\ list[i] \in Present
  OBVIOUS
<1>1. Stays(observing, Present, Evidence)
  BY ObservedTyped DEF Stays
<1>2. StepsOf(h, observing, Evidence, list, start)
  BY <1>1, ItemsFacts
<1> HIDE DEF h
<1>3. ASSUME NEW j \in 1..n
      PROVE  /\ j \in Nat /\ j - 1 \in Nat /\ h[j - 1] \in Evidence /\ list[j] \in Present
             /\ h[j] = Observed(h[j - 1], list[j])
  <2>1. j - 1 \in 0..n /\ j \in Nat /\ list[j] \in Present
    BY <1>0
  <2>2. h[j] = observing[<<list[j], h[j - 1]>>] /\ h[j - 1] \in Evidence
    BY <1>2, <2>1 DEF StepsOf
  <2> QED BY <2>1, <2>2, ObservedTyped
<1>4. ASSUME NEW j \in Nat, \A k \in Nat : k < j => k \in Q PROVE j \in Q
  <2> SUFFICES ASSUME i <= j, j <= n PROVE Holds(h[j], list[i])
    OBVIOUS
  <2>1. j \in 1..n
    BY <1>0
  <2>2. CASE j = i
    BY <1>3, <2>1, <2>2 DEF Enters
  <2>3. CASE j # i
    <3>1. j - 1 \in Nat /\ j - 1 < j /\ i <= j - 1 /\ j - 1 <= n
      BY <1>0, <2>1, <2>3
    <3>2. Holds(h[j - 1], list[i])
      BY <1>4, <3>1
    <3> QED BY <1>0, <1>3, <2>1, <3>2, AllRemain DEF Remains
  <2> QED BY <2>2, <2>3
<1>5. Q = Nat
  <2> HIDE DEF Q
  <2>1. Q \in SUBSET Nat
    BY DEF Q
  <2> QED BY <1>4, <2>1, Induction
<1>6. n \in Q /\ i <= n /\ n <= n
  BY <1>0, <1>5
<1>7. Holds(h[n], list[i])
  BY <1>6
<1> QED BY <1>7 DEF h

\* A literal the same as the scalar is kept.
LEMMA LiteralKept ==
  ASSUME NEW literals, NEW v \in Value
  PROVE  \E l \in WithLiteral(literals, v) : SameValue(l, v)
<1>1. SameValue(v, v)
  BY EqualReflexive
<1> QED BY <1>1 DEF WithLiteral

\* A scalar is held once it is observed.
LEMMA ScalarHeld ==
  ASSUME NEW v \in Present, NEW e \in Evidence
  PROVE  HoldsScalar(Observed(e, v), v)
<1> SUFFICES ASSUME v.is \in {"boolean", "number", "string"}
             PROVE  HoldsScalar(Observed(e, v), v)
  BY DEF HoldsScalar
<1>1. /\ Observed(e, v).scalars = e.scalars + 1
      /\ Observed(e, v).literals = WithLiteral(e.literals, v)
      /\ Observed(e, v).kinds = e.kinds \cup {KindSeen(v)}
  BY ObservedScalars
<1>2. e.scalars \in Nat /\ v \in Value
  BY PartsAreEvidence, ScalarsPresent
<1>3. \E l \in WithLiteral(e.literals, v) : SameValue(l, v)
  BY <1>2, LiteralKept
<1>4. e.scalars + 1 > 0
  BY <1>2
<1> QED BY <1>1, <1>3, <1>4 DEF HoldsScalar

\* An array is held once it is observed, when its items are once they are.
LEMMA ArrayHeld ==
  ASSUME NEW v \in Present, v.is = "array", \A i \in DOMAIN v.items : Enters(v.items[i]),
         NEW e \in Evidence
  PROVE  HoldsArray(Held, Observed(e, v), v)
<1>1. /\ Observed(e, v).array # {}
      /\ ArrayOf(Observed(e, v)).lengths = ArrayOf(e).lengths \cup {Len(v.items)}
      /\ ArrayOf(Observed(e, v)).items
           = ItemsFrom(observing, v.items, ArrayOf(e).items)[Len(v.items)]
  BY ObservedArray
<1>2. v.items \in Seq(Present) /\ ArrayOf(e).items \in Evidence
  BY PartsOfPresent, PartsAreEvidence
<1>3. \A i \in DOMAIN v.items : Holds(ArrayOf(Observed(e, v)).items, v.items[i])
  BY <1>1, <1>2, ItemsHeld
<1> QED BY <1>1, <1>3 DEF HoldsArray, Holds

\* An object is held once it is observed, when its members are once they are.
LEMMA ObjectHeld ==
  ASSUME NEW v \in Present, v.is = "object", \A n \in MemberNames(v) : Enters(v.members[n]),
         NEW e \in Evidence
  PROVE  HoldsObject(Held, Observed(e, v), v)
<1> DEFINE o == ObjectOf(e)
           q == ObjectOf(Observed(e, v))
<1>1. /\ Observed(e, v).object # {} /\ q.count = o.count + 1
      /\ q.members = MembersFrom(observing, v, e)
  BY ObservedObject
<1>2. ASSUME NEW n \in Name PROVE HoldsMember(Held, q, v, n)
  <2>1. /\ o.members[n] \in Evidence /\ o.members[n].seen \in Nat /\ o.count \in Nat
        /\ o.members[n].seen <= o.count
        /\ n \in MemberNames(v) => v.members[n] \in Present
    BY PartsAreEvidence, PartsOfPresent
  <2>2. q.members[n] = IF n \in MemberNames(v) THEN Observed(o.members[n], v.members[n])
                       ELSE o.members[n]
    BY <1>1, <2>1, ObservedTyped DEF MembersFrom
  <2> HIDE DEF o, q
  <2>3. CASE n \in MemberNames(v)
    <3>1. Holds(q.members[n], v.members[n])
      BY <2>1, <2>2, <2>3 DEF Enters
    <3> QED BY <2>3, <3>1 DEF HoldsMember, Holds
  <2>4. CASE n \notin MemberNames(v)
    <3>1. q.members[n].seen = o.members[n].seen
      BY <2>2, <2>4
    <3>2. q.members[n].seen < q.count
      BY <1>1, <2>1, <3>1
    <3> QED BY <2>4, <3>2 DEF HoldsMember
  <2> QED BY <2>3, <2>4
<1> QED BY <1>1, <1>2 DEF HoldsObject

\* Every value is held once it is observed.
LEMMA AllHeld ==
  \A v \in Present : Enters(v)
<1> DEFINE S == {v \in Value : v # Absent => Enters(v)}
<1>1. ASSUME NEW v \in Value, \A u \in Value : valueRank[u] < valueRank[v] => u \in S
      PROVE  v \in S
  <2> SUFFICES ASSUME v # Absent, NEW e \in Evidence PROVE Holds(Observed(e, v), v)
    BY DEF Enters
  <2>1. v \in Present
    BY ValueFacts
  <2>2. ASSUME NEW u \in Present, valueRank[u] < valueRank[v] PROVE Enters(u)
    <3>1. u \in Value /\ u # Absent
      BY ScalarsPresent, AbsentFacts
    <3> QED BY <1>1, <2>2, <3>1
  <2> HIDE DEF S
  <2>4. HoldsArray(Held, Observed(e, v), v)
    <3>1. CASE v.is = "array"
      <4>1. \A i \in DOMAIN v.items : Enters(v.items[i])
        BY <2>1, <2>2, <3>1, PartsOfPresent
      <4> QED BY <2>1, <3>1, <4>1, ArrayHeld
    <3>2. CASE v.is # "array"
      BY <3>2 DEF HoldsArray
    <3> QED BY <3>1, <3>2
  <2>5. HoldsObject(Held, Observed(e, v), v)
    <3>1. CASE v.is = "object"
      <4>1. \A n \in MemberNames(v) : n \in Name
        BY DEF MemberNames
      <4>2. \A n \in MemberNames(v) : Enters(v.members[n])
        BY <2>1, <2>2, <3>1, <4>1, PartsOfPresent
      <4> QED BY <2>1, <3>1, <4>2, ObjectHeld
    <3>2. CASE v.is # "object"
      BY <3>2 DEF HoldsObject
    <3> QED BY <3>1, <3>2
  <2>6. HoldsScalar(Observed(e, v), v)
    BY <2>1, ScalarHeld
  <2>7. v.is = "null" => Observed(e, v).nulls > 0
    <3>1. v.is = "null" => Observed(e, v).nulls = e.nulls + 1
      BY <2>1, ObservedScalars
    <3>2. e.nulls \in Nat
      BY PartsAreEvidence
    <3> QED BY <3>1, <3>2
  <2>8. Observed(e, v) \in Evidence
    BY <2>1, ObservedTyped
  <2> QED BY <2>1, <2>4, <2>5, <2>6, <2>7, <2>8, HoldsUnfolds DEF HoldsNode
<1>2. Value \subseteq S
  <2> HIDE DEF S
  <2> QED BY <1>1, ValueInduction
<1> QED BY <1>2, AbsentFacts, ScalarsPresent

\* The listing of a finite set leaves nothing out.
LEMMA ListingHasAll ==
  ASSUME NEW S, IsFiniteSet(S), NEW l \in S
  PROVE  \E i \in DOMAIN SetToSeq(S) : SetToSeq(S)[i] = l
<1> DEFINE f == SetToSeq(S)
           n == Cardinality(S)
           T == S \ {l}
<1>1. /\ f \in Seq(S) /\ Len(f) = n /\ n \in Nat
      /\ \A i, j \in DOMAIN f : f[i] = f[j] => i = j
  BY ListingFacts, FS_CardinalityType
<1>2. Cardinality(T) = n - 1 /\ IsFiniteSet(T)
  BY FS_RemoveElement
<1>3. IsFiniteSet(1..n) /\ Cardinality(1..n) = n
  BY <1>1, FS_Interval
<1> HIDE DEF f, n
<1>4. SUFFICES ASSUME \A i \in DOMAIN f : f[i] # l PROVE FALSE
  BY DEF f
<1>5. DOMAIN f = 1..n /\ f \in [1..n -> T]
  BY <1>1, <1>4
<1>6. Cardinality(T) < Cardinality(1..n)
  BY <1>1, <1>2, <1>3
<1> HIDE DEF T
<1>7. \E x, y \in 1..n : x # y /\ f[x] = f[y]
  BY <1>2, <1>3, <1>5, <1>6, FS_PigeonHole
<1> QED BY <1>1, <1>5, <1>7

-----------------------------------------------------------------------------
\* What evidence holds, the shape it adds up to admits.

\* The shape emitted for a position is one of the level drawn for its depth.
LEMMA ToShapeDraws == Draws(toShape, Depth)
<1> SUFFICES ASSUME NEW d \in EvidenceBelow(Depth) PROVE toShape[d] \subseteq DrawnBelow(Depth)
  BY DEF Draws
<1>1. CASE Depth = 0
  <2>1. d = NoEvidence /\ d \in Evidence
    BY <1>1, DepthIsNat, EvidenceBelowFacts DEF EvidenceBelow, NoneBelow
  <2>2. Emitted(toShape, d) = {}
    BY <2>1 DEF Emitted, NoEvidence
  <2> QED BY <2>1, <2>2, ToShapeFacts
<1>2. CASE Depth # 0
  <2>1. Depth - 1 \in Nat /\ Depth - 1 <= Depth
    BY <1>2, DepthIsNat
  <2>2. d \in EvidenceTo[Depth - 1] /\ DrawnBelow(Depth) = DrawnTo(Depth - 1)
    BY <1>2 DEF EvidenceBelow, DrawnBelow
  <2> QED BY <2>1, <2>2, ToShapeFacts
<1> QED BY <1>1, <1>2

\* What is emitted for evidence, and for its values, is a shape.
LEMMA EmittedTyped ==
  ASSUME NEW e \in Evidence
  PROVE  /\ toShape[e] = Emitted(toShape, e) /\ toShape[e] \subseteq Shape
         /\ ValueShape(toShape, e) \in Shape
<1>1. e \in EvidenceTo[Depth]
  BY DEF Evidence
<1>2. ValueShape(toShape, e) \in DrawnFirm(Depth)
  BY <1>1, DepthIsNat, ToShapeDraws, ValueDrawn
<1>3. toShape[e] \subseteq DrawnTo(Depth)
  BY <1>1, DepthIsNat, ToShapeFacts
<1>4. DrawnTo(Depth) \subseteq Shape /\ DrawnFirm(Depth) \subseteq Shape
  <2>1. Depth \in Nat /\ Depth <= Depth
    BY DepthIsNat
  <2>2. ShapeTo[3 * Depth + 2] \subseteq Shape /\ ShapeTo[3 * Depth + 1] \subseteq Shape
    BY <2>1, DrawnFacts
  <2> QED BY <2>2 DEF DrawnTo, DrawnFirm
<1> QED BY <1>2, <1>3, <1>4, ToShapeFacts

\* A scalar is one of the literals, or of one of the kinds.
LEMMA ScalarAdmitted ==
  ASSUME NEW e \in Evidence, NEW v \in Present, v.is \in {"boolean", "number", "string"},
         HoldsScalar(e, v), ScalarShape(e) \in Shape, NEW at \in Path
  PROVE  Adm(ScalarShape(e), v, at)
<1> DEFINE options == SetToSeq(e.literals)
           first   == {options[1]}
           kind    == IF e.kinds = {"integer", "decimal"} THEN "number"
                      ELSE CHOOSE k \in e.kinds : TRUE
           s       == ScalarShape(e)
<1>1. /\ e.literals \subseteq Scalar /\ IsFiniteSet(e.literals)
      /\ e.kinds \subseteq {"boolean", "integer", "decimal", "string"}
  BY EvidenceFields DEF Counted, Consistent
<1>2. KindSeen(v) \in e.kinds /\ \E l \in e.literals : SameValue(l, v)
  BY DEF HoldsScalar
<1>3. PICK l \in e.literals : SameValue(l, v)
  BY <1>2
<1>4. PICK i \in DOMAIN options : options[i] = l
  BY <1>1, ListingHasAll
<1>5. v \in Value /\ l \in Value
  BY <1>1, ScalarsPresent
<1>6. SameValue(v, options[i])
  BY <1>3, <1>4, <1>5, EqualSymmetric
<1>7. v \in Scalar /\ (v.is = "number" => v.written \in {"integer", "decimal"})
  BY <1>5, ValueFacts, ScalarFacts DEF ScalarKinds
<1>8. options \in Seq(e.literals)
  BY <1>1, ListingFacts
<1> HIDE DEF options
<1>9. CASE s = Kind("boolean", {}) /\ e.kinds = {"boolean"}
  <2>1. v.is = "boolean"
    BY <1>2, <1>7, <1>9 DEF KindSeen
  <2>2. s.op = "kind" /\ s.kind = "boolean"
    BY <1>9 DEF Kind
  <2> HIDE DEF s
  <2> QED BY <1>5, <2>1, <2>2, AdmLeaf DEF OfKind, s
<1>10. CASE s = [op |-> "equality", example |-> first] /\ Len(options) = 1
  <2>1. i = 1
    BY <1>4, <1>8, <1>10
  <2>2. s.op = "equality" /\ Example(s) = options[1]
    BY <1>10 DEF Example
  <2> HIDE DEF s
  <2> QED BY <1>5, <1>6, <2>1, <2>2, AdmLeaf DEF s
<1>11. CASE s = [op |-> "any-of", options |-> options, example |-> first]
  <2>1. s.op = "any-of" /\ s.options = options
    BY <1>11
  <2>2. options[i] \in Range(options)
    BY <1>4 DEF Range
  <2> HIDE DEF s
  <2> QED BY <1>5, <1>6, <2>1, <2>2, AdmNested DEF s
<1>12. CASE s = Kind(kind, first) /\ (Cardinality(e.kinds) = 1 \/ kind = "number")
  <2>1. s.op = "kind" /\ s.kind = kind
    BY <1>12 DEF Kind
  <2>2. OfKind(kind, v)
    <3>1. CASE e.kinds = {"integer", "decimal"}
      <4>1. v.is = "number"
        BY <1>2, <1>7, <3>1 DEF KindSeen
      <4> QED BY <3>1, <4>1 DEF OfKind
    <3>2. CASE e.kinds # {"integer", "decimal"}
      <4>1. kind \in e.kinds /\ kind # "number"
        BY <1>1, <1>2, <3>2
      <4>2. Cardinality(e.kinds) = 1
        BY <1>12, <4>1
      <4>3. IsFiniteSet(e.kinds)
        <5> DEFINE both == {"boolean", "integer"}
                   three == both \cup {"decimal"}
                   all == three \cup {"string"}
        <5>1. IsFiniteSet({"boolean"}) /\ both = {"boolean"} \cup {"integer"}
          BY FS_Singleton
        <5>2. IsFiniteSet(both)
          BY <5>1, FS_AddElement
        <5> HIDE DEF both
        <5>3. IsFiniteSet(three)
          BY <5>2, FS_AddElement
        <5> HIDE DEF three
        <5>4. IsFiniteSet(all)
          BY <5>3, FS_AddElement
        <5>5. e.kinds \subseteq all
          BY <1>1 DEF all, three, both
        <5> QED BY <5>4, <5>5, FS_Subset
      <4>4. PICK k : e.kinds = {k}
        BY <4>2, <4>3, FS_Singleton
      <4> HIDE DEF kind
      <4>5. KindSeen(v) = kind
        BY <1>2, <4>1, <4>4
      <4>6. kind \in {"boolean", "integer", "decimal", "string"}
        BY <1>1, <4>1
      <4> QED BY <1>7, <4>5, <4>6 DEF KindSeen, OfKind
    <3> QED BY <3>1, <3>2
  <2> HIDE DEF s, kind
  <2> QED BY <1>5, <2>1, <2>2, AdmLeaf DEF s
<1>13. CASE s = Bare("any")
  <2>1. s.op = "any"
    BY <1>13 DEF Bare
  <2> HIDE DEF s
  <2>2. v.is # "absent"
    OBVIOUS
  <2> QED BY <1>5, <2>1, <2>2, AdmLeaf DEF s
<1>14. \/ s = Kind("boolean", {}) /\ e.kinds = {"boolean"}
       \/ s = [op |-> "equality", example |-> first] /\ Len(options) = 1
       \/ s = [op |-> "any-of", options |-> options, example |-> first]
       \/ s = Kind(kind, first) /\ (Cardinality(e.kinds) = 1 \/ kind = "number")
       \/ s = Bare("any")
  BY DEF ScalarShape, options
<1> QED BY <1>9, <1>10, <1>11, <1>12, <1>13, <1>14

\* A value is admitted wherever its evidence holds it.
Admitted(v) ==
  \A e \in Evidence, at \in Path : Holds(e, v) => \A s \in toShape[e] : Adm(s, v, at)

\* An array: its length was seen, and its items were.
LEMMA ArrayAdmitted ==
  ASSUME NEW v \in Present, v.is = "array", \A i \in DOMAIN v.items : Admitted(v.items[i]),
         NEW e \in Evidence, HoldsArray(Held, e, v), NEW at \in Path,
         ArrayShape(toShape, ArrayOf(e)) \in Shape
  PROVE  Adm(ArrayShape(toShape, ArrayOf(e)), v, at)
<1> DEFINE a == ArrayOf(e)
           s == ArrayShape(toShape, a)
           items == IF toShape[a.items] = {} THEN Bare("any") ELSE CHOOSE t \in toShape[a.items] : TRUE
<1>1. /\ e.array # {} /\ Len(v.items) \in a.lengths
      /\ \A i \in DOMAIN v.items : Holds(a.items, v.items[i])
  BY DEF HoldsArray, Holds
<1>2. a.lengths \subseteq Nat /\ IsFiniteSet(a.lengths) /\ a.items \in Evidence
  BY EvidenceFields, PartsOf
<1>3. s.op = "each-like" /\ s.min = Min(a.lengths) /\ s.max = {Max(a.lengths)} /\ s.items = items
  BY DEF ArrayShape
<1> HIDE DEF a, s
<1>4. Min(a.lengths) <= Len(v.items) /\ Len(v.items) <= Max(a.lengths)
  BY <1>1, <1>2, MinFacts, MaxFacts
<1>5. Within(Len(v.items), s)
  BY <1>3, <1>4 DEF Within
<1>6. ASSUME NEW i \in DOMAIN v.items PROVE Adm(s.items, v.items[i], Append(at, EachItem))
  <2>1. v.items[i] \in Present /\ v.items[i] \in Value /\ Append(at, EachItem) \in Path
    BY PartsOfPresent, ScalarsPresent, StepFacts
  <2>2. CASE toShape[a.items] = {}
    <3>1. items = AnyValue /\ v.items[i].is # "absent"
      BY <2>1, <2>2, AbsentFacts, ValueFacts DEF Bare, AnyValue
    <3> QED BY <1>3, <2>1, <3>1, AnyValueFacts
  <2>3. CASE toShape[a.items] # {}
    <3>1. items \in toShape[a.items]
      BY <2>3
    <3> HIDE DEF items
    <3> QED BY <1>1, <1>2, <1>3, <2>1, <3>1 DEF Admitted
  <2> QED BY <2>2, <2>3
<1>7. v \in Value /\ s \in Shape
  BY ScalarsPresent DEF s, a
<1>8. Adm(s, v, at)
  BY <1>3, <1>5, <1>6, <1>7, AdmNested
<1> QED BY <1>8 DEF s, a

\* The shape of a member, and what it admits.
LEMMA MemberAdmitted ==
  ASSUME NEW v \in Present, v.is = "object",
         \A n \in MemberNames(v) : Admitted(v.members[n]),
         NEW o, NEW n \in Name, o.members[n] \in Evidence, HoldsMember(Held, o, v, n),
         NEW s \in toShape[o.members[n]], NEW t \in Shape, t = Presence(s, o.members[n], o.count),
         NEW at \in Path
  PROVE  Adm(t, v.members[n], at)
<1> DEFINE u == v.members[n]
<1>1. /\ u \in Value
      /\ n \in MemberNames(v) => u \in Present
      /\ n \notin MemberNames(v) => u = Absent
  BY PartsOfPresent
<1>2. s \in Shape
  BY EmittedTyped
<1>3. n \in MemberNames(v) => Adm(s, u, at)
  BY <1>1 DEF HoldsMember, Holds, Admitted
<1>4. CASE o.members[n].seen < o.count
  <2>1. t.op = "optional" /\ t.of = s
    BY <1>4 DEF Presence
  <2>2. u.is = "absent" \/ Adm(s, u, at)
    <3>1. CASE n \in MemberNames(v)
      BY <1>3, <3>1
    <3>2. CASE n \notin MemberNames(v)
      BY <1>1, <3>2, AbsentFacts
    <3> QED BY <3>1, <3>2
  <2>3. u \in Value
    BY <1>1
  <2> HIDE DEF u
  <2>4. Adm(t, u, at)
    BY <2>1, <2>2, <2>3, AdmNested
  <2> QED BY <2>4 DEF u
<1>5. CASE ~(o.members[n].seen < o.count)
  BY <1>3, <1>5 DEF Presence, HoldsMember
<1> QED BY <1>4, <1>5

\* An object: its members were seen, and the absence of the others was.
LEMMA ObjectAdmitted ==
  ASSUME NEW v \in Present, v.is = "object",
         \A n \in MemberNames(v) : Admitted(v.members[n]),
         NEW e \in Evidence, HoldsObject(Held, e, v), NEW at \in Path,
         ObjectShape(toShape, ObjectOf(e)) \in Shape
  PROVE  Adm(ObjectShape(toShape, ObjectOf(e)), v, at)
<1> DEFINE o == ObjectOf(e)
           s == ObjectShape(toShape, o)
           Of(shapes, m) == IF shapes = {} THEN None
                            ELSE Presence(CHOOSE x \in shapes : TRUE, o.members[m], o.count)
<1>1. \A n \in Name : HoldsMember(Held, o, v, n)
  BY DEF HoldsObject
<1>2. s.op = "object" /\ s.members = [m \in Name |-> Of(toShape[o.members[m]], m)]
  BY DEF ObjectShape
<1>3. \A n \in Name : o.members[n] \in Evidence
  BY PartsAreEvidence
<1>4. s \in Shape /\ v \in Value
  BY ScalarsPresent
<1> HIDE DEF s, o
<1>5. ASSUME NEW n \in Given(s.members)
      PROVE  Adm(s.members[n], v.members[n], Append(at, InMember(n)))
  <2>1. n \in Name /\ s.members[n] # None /\ s.members[n] = Of(toShape[o.members[n]], n)
    BY <1>2 DEF Given
  <2>2. toShape[o.members[n]] # {}
    BY <2>1
  <2>3. PICK x \in toShape[o.members[n]] : s.members[n] = Presence(x, o.members[n], o.count)
    BY <2>1, <2>2
  <2>4. s.members[n] \in Shape /\ Append(at, InMember(n)) \in Path
    <3>1. s.members \in MayHold(Lower(s))
      BY <1>2, <1>4, ShapeParts DEF MadeOf
    <3> QED BY <2>1, <3>1, GivenBelow, StepFacts DEF Lower
  <2> HIDE DEF Of
  <2> QED BY <1>1, <1>3, <2>1, <2>3, <2>4, MemberAdmitted
<1>6. Adm(s, v, at)
  BY <1>2, <1>4, <1>5, AdmNested
<1> QED BY <1>6 DEF s, o

\* Any value but null.
LEMMA ValueAdmitted ==
  ASSUME NEW v \in Present, v.is # "null",
         v.is = "array" => \A i \in DOMAIN v.items : Admitted(v.items[i]),
         v.is = "object" => \A n \in MemberNames(v) : Admitted(v.members[n]),
         NEW e \in Evidence, HoldsNode(Held, e, v), NEW at \in Path
  PROVE  Adm(ValueShape(toShape, e), v, at)
<1> DEFINE kinds == {k \in {"object", "array", "scalar"} :
                       \/ k = "object" /\ e.object # {}
                       \/ k = "array"  /\ e.array # {}
                       \/ k = "scalar" /\ e.scalars > 0}
           s == ValueShape(toShape, e)
<1>1. s = CASE kinds = {"object"} -> ObjectShape(toShape, ObjectOf(e))
            [] kinds = {"array"}  -> ArrayShape(toShape, ArrayOf(e))
            [] kinds = {"scalar"} -> ScalarShape(e)
            [] OTHER -> Bare("any")
  BY DEF ValueShape
<1>2. s \in Shape /\ v \in Value /\ v.is # "absent"
  BY EmittedTyped, ScalarsPresent, ValueFacts, AbsentFacts
<1>3. v.is \in {"object", "array", "boolean", "number", "string"}
  BY <1>2, ValueFacts DEF AllKinds
<1>4. /\ v.is = "object" => "object" \in kinds
      /\ v.is = "array" => "array" \in kinds
      /\ v.is \in {"boolean", "number", "string"} => "scalar" \in kinds
  BY DEF HoldsNode, HoldsObject, HoldsArray, HoldsScalar
<1>5. HoldsScalar(e, v) /\ HoldsArray(Held, e, v) /\ HoldsObject(Held, e, v)
  BY DEF HoldsNode
<1> HIDE DEF kinds, s
<1>6. CASE kinds = {"object"}
  <2>1. v.is = "object" /\ s = ObjectShape(toShape, ObjectOf(e))
    BY <1>1, <1>3, <1>4, <1>6
  <2>2. Adm(s, v, at)
    BY <1>2, <1>5, <2>1, ObjectAdmitted
  <2> QED BY <2>2 DEF s
<1>7. CASE kinds = {"array"}
  <2>1. kinds # {"object"}
    BY <1>7
  <2>2. v.is = "array" /\ s = ArrayShape(toShape, ArrayOf(e))
    BY <1>1, <1>3, <1>4, <1>7, <2>1
  <2>3. Adm(s, v, at)
    BY <1>2, <1>5, <2>2, ArrayAdmitted
  <2> QED BY <2>3 DEF s
<1>8. CASE kinds = {"scalar"}
  <2>1. kinds # {"object"} /\ kinds # {"array"}
    BY <1>8
  <2>2. v.is \in {"boolean", "number", "string"} /\ s = ScalarShape(e)
    BY <1>1, <1>3, <1>4, <1>8, <2>1
  <2>3. Adm(s, v, at)
    BY <1>2, <1>5, <2>2, ScalarAdmitted
  <2> QED BY <2>3 DEF s
<1>9. CASE kinds # {"object"} /\ kinds # {"array"} /\ kinds # {"scalar"}
  <2>1. s = Bare("any")
    BY <1>1, <1>9
  <2>2. s.op = "any"
    BY <2>1 DEF Bare
  <2>3. Adm(s, v, at)
    BY <1>2, <2>2, AdmLeaf
  <2> QED BY <2>3 DEF s
<1> QED BY <1>6, <1>7, <1>8, <1>9

\* What is emitted for a position admits the value, when it does every part of it.
LEMMA EmittedAdmits ==
  ASSUME NEW v \in Present,
         v.is = "array" => \A i \in DOMAIN v.items : Admitted(v.items[i]),
         v.is = "object" => \A n \in MemberNames(v) : Admitted(v.members[n]),
         NEW e \in Evidence, HoldsNode(Held, e, v), NEW at \in Path, NEW s \in toShape[e]
  PROVE  Adm(s, v, at)
<1>1. toShape[e] = Emitted(toShape, e) /\ s \in Shape /\ ValueShape(toShape, e) \in Shape
  BY EmittedTyped
<1>2. v \in Value /\ v.is # "absent"
  BY ScalarsPresent, AbsentFacts, ValueFacts
<1>3. Consistent(e) /\ e.seen \in Nat /\ e.nulls \in Nat /\ e.scalars \in Nat
  BY EvidenceFields DEF Counted
<1>4. e.scalars > 0 \/ e.object # {} \/ e.array # {} => e.nulls < e.seen
  BY <1>3 DEF Consistent
<1>5. v.is # "null" => e.nulls < e.seen
  <2>1. v.is # "null" => v.is \in {"object", "array", "boolean", "number", "string"}
    BY <1>2, ValueFacts DEF AllKinds
  <2> QED BY <1>4, <2>1 DEF HoldsNode, HoldsScalar, HoldsArray, HoldsObject
<1>6. v.is = "null" => e.nulls > 0
  BY DEF HoldsNode
<1>7. v.is # "null" => Adm(ValueShape(toShape, e), v, at)
  BY ValueAdmitted
<1>8. CASE e.seen = e.nulls
  <2>1. v.is = "null"
    BY <1>3, <1>5, <1>8
  <2>2. s = Kind("null", {})
    BY <1>1, <1>8 DEF Emitted
  <2>3. s.op = "kind" /\ s.kind = "null"
    BY <2>2 DEF Kind
  <2> QED BY <1>1, <1>2, <2>1, <2>3, AdmLeaf DEF OfKind
<1>9. CASE e.seen # e.nulls /\ e.nulls > 0
  <2>1. s = [op |-> "nullable", of |-> ValueShape(toShape, e), example |-> {}]
    BY <1>1, <1>9 DEF Emitted
  <2>2. s.op = "nullable" /\ s.of = ValueShape(toShape, e)
    BY <2>1
  <2> QED BY <1>1, <1>2, <1>7, <2>2, AdmNested
<1>10. CASE e.seen # e.nulls /\ ~(e.nulls > 0)
  <2>1. s = ValueShape(toShape, e) /\ v.is # "null"
    BY <1>1, <1>6, <1>10 DEF Emitted
  <2> QED BY <1>7, <2>1
<1> QED BY <1>8, <1>9, <1>10

\* Every value is admitted wherever its evidence holds it.
LEMMA AllAdmitted ==
  \A v \in Present : Admitted(v)
<1> DEFINE S == {v \in Value : v # Absent => Admitted(v)}
<1>1. ASSUME NEW v \in Value, \A u \in Value : valueRank[u] < valueRank[v] => u \in S
      PROVE  v \in S
  <2> SUFFICES ASSUME v # Absent, NEW e \in Evidence, NEW at \in Path, Holds(e, v),
                      NEW s \in toShape[e]
               PROVE  Adm(s, v, at)
    BY DEF Admitted
  <2>1. v \in Present
    BY ValueFacts
  <2>2. ASSUME NEW u \in Present, valueRank[u] < valueRank[v] PROVE Admitted(u)
    <3>1. u \in Value /\ u # Absent
      BY ScalarsPresent, AbsentFacts
    <3> QED BY <1>1, <2>2, <3>1
  <2> HIDE DEF S
  <2>3. HoldsNode(Held, e, v)
    BY <2>1, HoldsUnfolds
  <2>4. v.is = "array" => \A i \in DOMAIN v.items : Admitted(v.items[i])
    BY <2>1, <2>2, PartsOfPresent
  <2>5. v.is = "object" => \A n \in MemberNames(v) : Admitted(v.members[n])
    <3>1. \A n \in MemberNames(v) : n \in Name
      BY DEF MemberNames
    <3> QED BY <2>1, <2>2, <3>1, PartsOfPresent
  <2> QED BY <2>1, <2>3, <2>4, <2>5, EmittedAdmits
<1>2. Value \subseteq S
  <2> HIDE DEF S
  <2> QED BY <1>1, ValueInduction
<1> QED BY <1>2, AbsentFacts, ScalarsPresent

-----------------------------------------------------------------------------
\* What a shape produces: the value of each node.

\* What a node is produced as reads the values of lower shapes only.
LEMMA GenerateReads ==
  ASSUME NEW f, NEW g, NEW s \in Shape, NEW at \in Path, NEW asg,
         \A t \in Lower(s), p \in Path : f[<<t, p>>] = g[<<t, p>>]
  PROVE  Generate(f, s, at, asg) = Generate(g, s, at, asg)
<1>0. MadeOf(Lower(s), s)
  BY ShapeParts
<1>1. CASE s.op \in {"optional", "nullable"}
  <2>1. f[<<s.of, at>>] = g[<<s.of, at>>]
    BY <1>0, <1>1 DEF MadeOf
  <2> QED BY <1>1, <2>1 DEF Generate
<1>2. CASE s.op = "one-of"
  <2>1. Given(s.alternatives) \subseteq Name
        /\ \A n \in Given(s.alternatives) : s.alternatives[n] \in Lower(s)
    BY <1>0, <1>2, GivenBelow DEF MadeOf
  <2>2. \A n \in Given(s.alternatives) :
          f[<<s.alternatives[n], Append(at, InAlternative(n))>>]
            = g[<<s.alternatives[n], Append(at, InAlternative(n))>>]
    BY <2>1, StepFacts
  <2>3. Chosen(s, at, asg) \subseteq Given(s.alternatives)
    BY DEF Chosen
  <2>4. Chosen(s, at, asg) # {} =>
          (CHOOSE m \in Chosen(s, at, asg) : TRUE) \in Given(s.alternatives)
    BY <2>3
  <2> QED BY <1>2, <2>2, <2>4 DEF Generate
<1>3. CASE s.op = "each-like"
  <2>1. f[<<s.items, Append(at, EachItem)>>] = g[<<s.items, Append(at, EachItem)>>]
    BY <1>0, <1>3, StepFacts DEF MadeOf
  <2> QED BY <1>3, <2>1 DEF Generate
<1>4. CASE s.op = "each-entry"
  <2>1. f[<<s.values, Append(at, EachValue)>>] = g[<<s.values, Append(at, EachValue)>>]
        /\ \A k \in s.keys : f[<<k, Append(at, EachKey)>>] = g[<<k, Append(at, EachKey)>>]
    BY <1>0, <1>4, StepFacts DEF MadeOf
  <2>2. {l \in s.keys : f[<<l, Append(at, EachKey)>>].is = "string"}
          = {l \in s.keys : g[<<l, Append(at, EachKey)>>].is = "string"}
    BY <2>1
  <2>3. {f[<<k, Append(at, EachKey)>>] : k \in {l \in s.keys : f[<<l, Append(at, EachKey)>>].is = "string"}}
          = {g[<<k, Append(at, EachKey)>>] : k \in {l \in s.keys : g[<<l, Append(at, EachKey)>>].is = "string"}}
    BY <2>1
  <2> QED BY <1>4, <2>1, <2>3 DEF Generate
<1>5. CASE s.op = "object"
  <2>1. \A n \in Given(s.members) : s.members[n] \in Lower(s) /\ n \in Name
    BY <1>0, <1>5, GivenBelow DEF MadeOf
  <2>2. \A n \in Given(s.members) :
          f[<<s.members[n], Append(at, InMember(n))>>] = g[<<s.members[n], Append(at, InMember(n))>>]
    BY <2>1, StepFacts
  <2>3. [n \in Given(s.members) |-> f[<<s.members[n], Append(at, InMember(n))>>]]
          = [n \in Given(s.members) |-> g[<<s.members[n], Append(at, InMember(n))>>]]
    BY <2>2
  <2> QED BY <1>5, <2>3 DEF Generate
<1>6. CASE s.op \in {"array", "contains"}
  <2>1. s.entries \in Seq(Lower(s))
    BY <1>0, <1>6 DEF MadeOf
  <2>2. \A i \in DOMAIN s.entries : s.entries[i] \in Lower(s) /\ i \in Nat
    BY <2>1
  <2>3. \A i \in DOMAIN s.entries :
          f[<<s.entries[i], Append(at, Index(i))>>] = g[<<s.entries[i], Append(at, Index(i))>>]
    BY <2>2, StepFacts
  <2>4. [i \in DOMAIN s.entries |-> f[<<s.entries[i], Append(at, Index(i))>>]]
          = [i \in DOMAIN s.entries |-> g[<<s.entries[i], Append(at, Index(i))>>]]
    BY <2>3
  <2> QED BY <1>6, <2>4 DEF Generate
<1>7. CASE s.op \notin {"optional", "nullable", "one-of", "each-like", "each-entry", "object", "array",
                        "contains"}
  BY <1>7 DEF Generate
<1> QED BY <1>1, <1>2, <1>3, <1>4, <1>5, <1>6, <1>7

Nodes == Shape \X Path

\* A generator of an assignment for the shapes of a rank below n.
GeneratesTo(n, f, asg) ==
  \A s \in Shape, at \in Path :
    shapeRank[s] < n => f[<<s, at>>] = Generate(f, s, at, asg)

\* There is a generator up to every rank.
LEMMA GeneratorStages ==
  ASSUME NEW asg
  PROVE  \A n \in Nat : \E f : GeneratesTo(n, f, asg)
<1>0. \A s \in Shape : shapeRank[s] \in Nat
  BY ShapeRankFacts
<1> DEFINE Staged == {n \in Nat : \E f : GeneratesTo(n, f, asg)}
<1>1. ASSUME NEW n \in Nat, \A m \in Nat : m < n => m \in Staged PROVE n \in Staged
  <2>1. CASE n = 0
    <3>1. \A f : GeneratesTo(0, f, asg)
      BY <1>0 DEF GeneratesTo
    <3> QED BY <2>1, <3>1
  <2>2. CASE n # 0
    <3>1. n - 1 \in Nat /\ n - 1 < n
      BY <2>2
    <3>2. PICK f : GeneratesTo(n - 1, f, asg)
      BY <1>1, <3>1
    <3> DEFINE g == [x \in Nodes |-> Generate(f, x[1], x[2], asg)]
    <3>3. \A s \in Shape, at \in Path : g[<<s, at>>] = Generate(f, s, at, asg)
      BY DEF Nodes
    <3> HIDE DEF g
    <3>4. ASSUME NEW s \in Shape, NEW at \in Path, shapeRank[s] < n
          PROVE  Generate(f, s, at, asg) = Generate(g, s, at, asg)
      <4>1. ASSUME NEW t \in Lower(s), NEW p \in Path PROVE f[<<t, p>>] = g[<<t, p>>]
        <5>1. t \in Shape /\ shapeRank[t] < n - 1
          BY <1>0, <3>1, <3>4 DEF Lower
        <5> QED BY <3>2, <3>3, <5>1 DEF GeneratesTo
      <4> QED BY <4>1, GenerateReads
    <3>5. GeneratesTo(n, g, asg)
      BY <3>3, <3>4 DEF GeneratesTo
    <3> QED BY <3>5
  <2> QED BY <2>1, <2>2
<1>2. Staged = Nat
  <2> HIDE DEF Staged
  <2>1. Staged \in SUBSET Nat
    BY DEF Staged
  <2> QED BY <1>1, <2>1, Induction
<1> QED BY <1>2

\* The value of a node is that of its rule.
LEMMA GeneratorUnfolds ==
  ASSUME NEW asg
  PROVE  \A s \in Shape, at \in Path :
           Generator(asg)[<<s, at>>] = Generate(Generator(asg), s, at, asg)
<1>0. Top + 1 \in Nat /\ \A s \in Shape : shapeRank[s] < Top + 1
  BY TopFacts, ShapeRankFacts
<1>1. PICK f : GeneratesTo(Top + 1, f, asg)
  BY <1>0, GeneratorStages
<1> DEFINE h == [x \in ShapeOf(Depth) \X Path |-> f[x]]
<1>2. \A s \in Shape, at \in Path : h[<<s, at>>] = f[<<s, at>>]
  BY DEF Shape
<1>a. h = [x \in ShapeOf(Depth) \X Path |-> h[x]]
  OBVIOUS
<1> HIDE DEF h
<1>3. \A s \in Shape, at \in Path : h[<<s, at>>] = Generate(h, s, at, asg)
  <2> SUFFICES ASSUME NEW s \in Shape, NEW at \in Path PROVE h[<<s, at>>] = Generate(h, s, at, asg)
    OBVIOUS
  <2>1. f[<<s, at>>] = Generate(f, s, at, asg)
    BY <1>0, <1>1 DEF GeneratesTo
  <2>2. \A t \in Lower(s), p \in Path : f[<<t, p>>] = h[<<t, p>>]
    BY <1>2 DEF Lower
  <2>3. Generate(f, s, at, asg) = Generate(h, s, at, asg)
    BY <2>2, GenerateReads
  <2> QED BY <1>2, <2>1, <2>3
<1>4. h = [x \in ShapeOf(Depth) \X Path |-> Generate(h, x[1], x[2], asg)]
  <2>1. \A x \in ShapeOf(Depth) \X Path : h[x] = Generate(h, x[1], x[2], asg)
    <3> SUFFICES ASSUME NEW x \in ShapeOf(Depth) \X Path PROVE h[x] = Generate(h, x[1], x[2], asg)
      OBVIOUS
    <3>1. x = <<x[1], x[2]>> /\ x[1] \in Shape /\ x[2] \in Path
      BY DEF Shape
    <3> QED BY <1>3, <3>1
  <2> QED BY <1>a, <2>1
<1> DEFINE m == CHOOSE k : k = [x \in ShapeOf(Depth) \X Path |-> Generate(k, x[1], x[2], asg)]
<1>5. m = [x \in ShapeOf(Depth) \X Path |-> Generate(m, x[1], x[2], asg)]
  BY <1>4
<1>6. Generator(asg) = m
  BY DEF Generator
<1> HIDE DEF m
<1>7. \A s \in Shape, at \in Path : m[<<s, at>>] = Generate(m, s, at, asg)
  BY <1>5 DEF Shape
<1> QED BY <1>6, <1>7

-----------------------------------------------------------------------------
\* The dimensions of each node.

\* The path to a child, and what gates it, are a path and gates.
LEMMA ChildPlaces ==
  ASSUME NEW s \in Shape, NEW at \in Path
  PROVE  /\ \A c \in Children(s) : c[2] \in Lower(s) /\ at \o c[1] \in Path
         /\ at \o <<>> = at
         /\ \A step \in Step : at \o <<step>> = Append(at, step)
<1>1. at \in Seq(Step)
  BY DEF Path
<1>2. at \o <<>> = at /\ \A step \in Step : at \o <<step>> = Append(at, step) /\ Append(at, step) \in Path
  BY <1>1 DEF Path
<1>3. EachItem \in Step /\ EachKey \in Step /\ EachValue \in Step
      /\ \A n \in Name : InMember(n) \in Step /\ InAlternative(n) \in Step
      /\ \A i \in Nat : Index(i) \in Step
  BY DEF Step, InMember, InAlternative, Index
<1>4. MadeOf(Lower(s), s)
  BY ShapeParts
<1>5. ASSUME NEW c \in Children(s) PROVE c[1] = <<>> \/ \E step \in Step : c[1] = <<step>>
  <2>1. CASE s.op \in {"optional", "nullable"}
    BY <1>5, <2>1 DEF Children
  <2>2. CASE s.op = "object"
    <3>1. PICK n \in Given(s.members) : c = <<<<InMember(n)>>, s.members[n]>>
      BY <1>5, <2>2 DEF Children
    <3>2. n \in Name
      BY DEF Given
    <3> QED BY <1>3, <3>1, <3>2
  <2>3. CASE s.op \in {"array", "contains"}
    <3>1. PICK i \in DOMAIN s.entries : c = <<<<Index(i)>>, s.entries[i]>>
      BY <1>5, <2>3 DEF Children
    <3>2. s.entries \in Seq(Lower(s))
      BY <1>4, <2>3 DEF MadeOf
    <3>3. i \in Nat
      BY <3>2
    <3>4. Index(i) \in Step
      BY <3>3 DEF Step, Index
    <3>5. c[1] = <<Index(i)>>
      BY <3>1
    <3> QED BY <3>4, <3>5
  <2>4. CASE s.op \in {"each-like", "each-entry"}
    <3>1. c[1] \in {<<EachItem>>, <<EachKey>>, <<EachValue>>}
      BY <1>5, <2>4 DEF Children
    <3> QED BY <1>3, <3>1
  <2>5. CASE s.op = "one-of"
    <3>1. PICK n \in Given(s.alternatives) : c = <<<<InAlternative(n)>>, s.alternatives[n]>>
      BY <1>5, <2>5 DEF Children
    <3>2. n \in Name
      BY DEF Given
    <3> QED BY <1>3, <3>1, <3>2
  <2>6. CASE s.op \notin {"optional", "nullable", "object", "array", "contains", "each-like",
                          "each-entry", "one-of"}
    BY <1>5, <2>6 DEF Children
  <2> QED BY <2>1, <2>2, <2>3, <2>4, <2>5, <2>6
<1>6. \A c \in Children(s) : at \o c[1] \in Path
  BY <1>2, <1>5
<1> QED BY <1>2, <1>6, ChildrenBelow

\* One more point taken is another set of gates.
LEMMA MoreGates ==
  ASSUME NEW at \in Path, NEW gates \in Gates, NEW facet \in Gating,
         NEW point \in {"present", "non-null"} \cup Name
  PROVE  gates \cup {<<Dimension(at, facet), point>>} \in Gates
<1>1. <<Dimension(at, facet), point>> \in (Path \X Gating) \X ({"present", "non-null"} \cup Name)
  BY DEF Dimension
<1> QED BY <1>1 DEF Gates

\* What a node's dimensions are reads those of lower shapes only.
LEMMA DimensionsRead ==
  ASSUME NEW f, NEW g, NEW s \in Shape, NEW at \in Path, NEW gates \in Gates,
         \A t \in Lower(s), p \in Path, h \in Gates : f[<<t, p, h>>] = g[<<t, p, h>>]
  PROVE  NodeDimensions(f, s, at, gates) = NodeDimensions(g, s, at, gates)
<1>1. \A h \in Gates :
        UNION {f[<<c[2], at \o c[1], h>>] : c \in Children(s)}
          = UNION {g[<<c[2], at \o c[1], h>>] : c \in Children(s)}
  <2> SUFFICES ASSUME NEW h \in Gates
               PROVE  {f[<<c[2], at \o c[1], h>>] : c \in Children(s)}
                        = {g[<<c[2], at \o c[1], h>>] : c \in Children(s)}
    OBVIOUS
  <2>1. \A c \in Children(s) : f[<<c[2], at \o c[1], h>>] = g[<<c[2], at \o c[1], h>>]
    BY ChildPlaces
  <2> QED BY <2>1
<1>2. CASE s.op = "optional"
  <2>1. gates \cup {<<Dimension(at, "presence"), "present">>} \in Gates
    BY MoreGates DEF Gating
  <2> QED BY <1>1, <1>2, <2>1 DEF NodeDimensions
<1>3. CASE s.op = "nullable"
  <2>1. gates \cup {<<Dimension(at, "nullability"), "non-null">>} \in Gates
    BY MoreGates DEF Gating
  <2> QED BY <1>1, <1>3, <2>1 DEF NodeDimensions
<1>4. CASE s.op = "one-of"
  <2>1. s.alternatives \in MayHold(Lower(s))
    BY <1>4, ShapeParts DEF MadeOf
  <2>2. \A n \in Given(s.alternatives) : 
          n \in Name /\ s.alternatives[n] \in Lower(s)
    BY <2>1, GivenBelow
  <2>3. \A n \in Given(s.alternatives) :
          gates \cup {<<Dimension(at, "alternative"), n>>} \in Gates
    BY <2>2, MoreGates DEF Gating
  <2>4. \A n \in Given(s.alternatives) :
          f[<<s.alternatives[n], Append(at, InAlternative(n)),
              gates \cup {<<Dimension(at, "alternative"), n>>}>>]
            = g[<<s.alternatives[n], Append(at, InAlternative(n)),
                  gates \cup {<<Dimension(at, "alternative"), n>>}>>]
    BY <2>2, <2>3, StepFacts
  <2>5. {f[<<s.alternatives[n], Append(at, InAlternative(n)),
              gates \cup {<<Dimension(at, "alternative"), n>>}>>] : n \in Given(s.alternatives)}
          = {g[<<s.alternatives[n], Append(at, InAlternative(n)),
                 gates \cup {<<Dimension(at, "alternative"), n>>}>>] : n \in Given(s.alternatives)}
    BY <2>4
  <2> QED BY <1>4, <2>5 DEF NodeDimensions
<1>5. CASE s.op \notin {"optional", "nullable", "one-of"}
  BY <1>1, <1>5 DEF NodeDimensions
<1> QED BY <1>2, <1>3, <1>4, <1>5

\* The dimensions of each node, for the shapes of a rank below n.
OpensTo(n, f) ==
  \A s \in Shape, at \in Path, gates \in Gates :
    shapeRank[s] < n => f[<<s, at, gates>>] = NodeDimensions(f, s, at, gates)

\* There are such dimensions up to every rank.
LEMMA DimensionsStages ==
  \A n \in Nat : \E f : OpensTo(n, f)
<1>0. \A s \in Shape : shapeRank[s] \in Nat
  BY ShapeRankFacts
<1> DEFINE Staged == {n \in Nat : \E f : OpensTo(n, f)}
<1>1. ASSUME NEW n \in Nat, \A m \in Nat : m < n => m \in Staged PROVE n \in Staged
  <2>1. CASE n = 0
    <3>1. \A f : OpensTo(0, f)
      BY <1>0 DEF OpensTo
    <3> QED BY <2>1, <3>1
  <2>2. CASE n # 0
    <3>1. n - 1 \in Nat /\ n - 1 < n
      BY <2>2
    <3>2. PICK f : OpensTo(n - 1, f)
      BY <1>1, <3>1
    <3> DEFINE g == [x \in Shape \X Path \X Gates |-> NodeDimensions(f, x[1], x[2], x[3])]
    <3>3. \A s \in Shape, at \in Path, gates \in Gates :
            g[<<s, at, gates>>] = NodeDimensions(f, s, at, gates)
      OBVIOUS
    <3> HIDE DEF g
    <3>4. ASSUME NEW s \in Shape, NEW at \in Path, NEW gates \in Gates, shapeRank[s] < n
          PROVE  NodeDimensions(f, s, at, gates) = NodeDimensions(g, s, at, gates)
      <4>1. ASSUME NEW t \in Lower(s), NEW p \in Path, NEW h \in Gates
            PROVE  f[<<t, p, h>>] = g[<<t, p, h>>]
        <5>1. t \in Shape /\ shapeRank[t] < n - 1
          BY <1>0, <3>1, <3>4 DEF Lower
        <5> QED BY <3>2, <3>3, <5>1 DEF OpensTo
      <4> QED BY <4>1, DimensionsRead
    <3>5. OpensTo(n, g)
      BY <3>3, <3>4 DEF OpensTo
    <3> QED BY <3>5
  <2> QED BY <2>1, <2>2
<1>2. Staged = Nat
  <2> HIDE DEF Staged
  <2>1. Staged \in SUBSET Nat
    BY DEF Staged
  <2> QED BY <1>1, <2>1, Induction
<1> QED BY <1>2

dimensionsSolution ==
  CHOOSE d : d = [x \in ShapeOf(Depth) \X Path \X Gates |-> NodeDimensions(d, x[1], x[2], x[3])]

\* The dimensions of a node at a place, under gates.
DimensionsAt(s, at, gates) == dimensionsSolution[<<s, at, gates>>]

\* The dimensions of a node are those of its rule.
LEMMA DimensionsUnfold ==
  /\ \A s : Dimensions(s) = DimensionsAt(s, <<>>, {})
  /\ \A s \in Shape, at \in Path, gates \in Gates :
       DimensionsAt(s, at, gates) = NodeDimensions(dimensionsSolution, s, at, gates)
<1>0. Top + 1 \in Nat /\ \A s \in Shape : shapeRank[s] < Top + 1
  BY TopFacts, ShapeRankFacts
<1>1. PICK f : OpensTo(Top + 1, f)
  BY <1>0, DimensionsStages
<1> DEFINE h == [x \in ShapeOf(Depth) \X Path \X Gates |-> f[x]]
<1>2. \A s \in Shape, at \in Path, gates \in Gates : h[<<s, at, gates>>] = f[<<s, at, gates>>]
  BY DEF Shape
<1>a. h = [x \in ShapeOf(Depth) \X Path \X Gates |-> h[x]]
  OBVIOUS
<1> HIDE DEF h
<1>3. ASSUME NEW s \in Shape, NEW at \in Path, NEW gates \in Gates
      PROVE  h[<<s, at, gates>>] = NodeDimensions(h, s, at, gates)
  <2>1. f[<<s, at, gates>>] = NodeDimensions(f, s, at, gates)
    BY <1>0, <1>1 DEF OpensTo
  <2>2. \A t \in Lower(s), p \in Path, g \in Gates : f[<<t, p, g>>] = h[<<t, p, g>>]
    BY <1>2 DEF Lower
  <2>3. NodeDimensions(f, s, at, gates) = NodeDimensions(h, s, at, gates)
    BY <2>2, DimensionsRead
  <2> QED BY <1>2, <2>1, <2>3
<1>4. h = [x \in ShapeOf(Depth) \X Path \X Gates |-> NodeDimensions(h, x[1], x[2], x[3])]
  <2>1. ASSUME NEW x \in ShapeOf(Depth) \X Path \X Gates
        PROVE h[x] = NodeDimensions(h, x[1], x[2], x[3])
    <3>1. x = <<x[1], x[2], x[3]>> /\ x[1] \in Shape /\ x[2] \in Path /\ x[3] \in Gates
      BY DEF Shape
    <3> QED BY <1>3, <3>1
  <2> QED BY <1>a, <2>1
<1>5. dimensionsSolution
        = [x \in ShapeOf(Depth) \X Path \X Gates |-> NodeDimensions(dimensionsSolution, x[1], x[2], x[3])]
  BY <1>4 DEF dimensionsSolution
<1>6. \A s \in Shape, at \in Path, gates \in Gates :
        DimensionsAt(s, at, gates) = NodeDimensions(dimensionsSolution, s, at, gates)
  BY <1>5 DEF DimensionsAt, Shape
<1>7. \A s : Dimensions(s) = DimensionsAt(s, <<>>, {})
  BY DEF Dimensions, DimensionsAt, dimensionsSolution
<1> QED BY <1>6, <1>7

-----------------------------------------------------------------------------
\* What can be produced, and what is never admitted as absent.

producibleSolution ==
  CHOOSE f : f = [t \in ShapeOf(Depth) |-> NodeProducible(f, t)]

\* Whether a shape can be produced is decided as NodeProducible says.
LEMMA ProducibleUnfolds ==
  /\ \A s : Producible(s) = producibleSolution[s]
  /\ \A s \in Shape : producibleSolution[s] = NodeProducible(producibleSolution, s)
<1> DEFINE D == [f \in [Shape -> BOOLEAN] |-> [s \in Shape |-> NodeProducible(f, s)]]
<1>1. D \in [[Shape -> BOOLEAN] -> [Shape -> BOOLEAN]]
  BY DEF NodeProducible
<1>2. ASSUME NEW f \in [Shape -> BOOLEAN], NEW g \in [Shape -> BOOLEAN], NEW s \in Shape,
             \A t \in Shape : shapeRank[t] < shapeRank[s] => f[t] = g[t]
      PROVE  D[f][s] = D[g][s]
  <2>1. \A c \in Children(s) : f[c[2]] = g[c[2]]
    BY <1>2, ChildrenBelow DEF Lower
  <2>2. NodeProducible(f, s) <=> NodeProducible(g, s)
    BY <2>1 DEF NodeProducible
  <2>3. NodeProducible(f, s) = NodeProducible(g, s)
    BY <2>2 DEF NodeProducible
  <2> QED BY <2>3
<1> HIDE DEF D
<1>3. Recurs(Shape, BOOLEAN, shapeRank, D)
  BY <1>1, <1>2, ShapeRankFacts DEF Recurs
<1>4. PICK f \in [Shape -> BOOLEAN] : f = D[f]
  BY <1>3, Recursion
<1>5. f = [t \in ShapeOf(Depth) |-> NodeProducible(f, t)]
  BY <1>4 DEF D, Shape
<1>6. producibleSolution = [t \in ShapeOf(Depth) |-> NodeProducible(producibleSolution, t)]
  BY <1>5 DEF producibleSolution
<1>7. \A s : Producible(s) = producibleSolution[s]
  BY DEF Producible, producibleSolution
<1> QED BY <1>6, <1>7 DEF Shape

\* What can be produced has children that can.
LEMMA ProducibleFacts ==
  ASSUME NEW s \in Shape, Producible(s)
  PROVE  /\ s.op \in LeafOps \cup {"any-of"} => \A e \in s.example : AdmitsAny(s, e)
         /\ s.op \in LeafOps => s.example # {}
         /\ s.op = "each-entry" => s.keys = {}
         /\ s.op \in {"optional", "nullable"} => Producible(s.of)
         /\ s.op = "object" => \A n \in Given(s.members) : Producible(s.members[n])
         /\ s.op \in {"array", "contains"} => \A i \in DOMAIN s.entries : Producible(s.entries[i])
         /\ s.op = "each-like" => Producible(s.items)
         /\ s.op = "each-entry" => Producible(s.values)
         /\ s.op = "one-of" => \A n \in Given(s.alternatives) : Producible(s.alternatives[n])
<1>1. NodeProducible(producibleSolution, s)
  BY ProducibleUnfolds
<1>2. \A c \in Children(s) : Producible(c[2])
  BY <1>1, ProducibleUnfolds DEF NodeProducible
<1>a. \A step, t : <<step, t>> \in Children(s) => Producible(t)
  <2> SUFFICES ASSUME NEW step, NEW t, <<step, t>> \in Children(s) PROVE Producible(t)
    OBVIOUS
  <2>1. Producible(<<step, t>>[2])
    BY <1>2
  <2> QED BY <2>1
<1>3. s.op \in {"optional", "nullable"} => Producible(s.of)
  BY <1>a DEF Children
<1>4. ASSUME s.op = "object", NEW n \in Given(s.members) PROVE Producible(s.members[n])
  <2>1. <<<<InMember(n)>>, s.members[n]>> \in Children(s)
    BY <1>4 DEF Children
  <2> QED BY <1>a, <2>1
<1>5. ASSUME s.op \in {"array", "contains"}, NEW i \in DOMAIN s.entries
      PROVE  Producible(s.entries[i])
  <2>1. <<<<Index(i)>>, s.entries[i]>> \in Children(s)
    BY <1>5 DEF Children
  <2> QED BY <1>a, <2>1
<1>6. s.op = "each-like" => Producible(s.items)
  BY <1>a DEF Children
<1>7. s.op = "each-entry" => Producible(s.values)
  BY <1>a DEF Children
<1>8. ASSUME s.op = "one-of", NEW n \in Given(s.alternatives) PROVE Producible(s.alternatives[n])
  <2>1. <<<<InAlternative(n)>>, s.alternatives[n]>> \in Children(s)
    BY <1>8 DEF Children
  <2> QED BY <1>a, <2>1
<1> QED BY <1>1, <1>3, <1>4, <1>5, <1>6, <1>7, <1>8 DEF NodeProducible

\* A leaf that is not forbidden admits nothing absent, and one alone may.
LEMMA PresentLeaf ==
  ASSUME NEW s \in Shape, AdmitsLeaf(s, Absent)
  PROVE  s.op = "forbidden"
<1>0. MadeOf(Lower(s), s)
  BY ShapeParts
<1>1. Absent.is = "absent" /\ Absent \notin Present /\ Absent \in Value
  BY AbsentFacts
<1>2. s.op # "any"
  BY <1>1 DEF AdmitsLeaf, LeafOps, TextOps
<1>3. s.op # "equality"
  <2>1. SUFFICES ASSUME s.op = "equality" PROVE FALSE
    OBVIOUS
  <2>2. SameValue(Absent, Example(s)) /\ Example(s) \in Present
    BY <1>0, <2>1 DEF AdmitsLeaf, MadeOf, TextOps
  <2>3. Example(s) \in Value
    BY <2>2 DEF Value
  <2>4. Absent = Example(s)
    BY <1>1, <2>2, <2>3, EqualKinds
  <2> QED BY <1>1, <2>2, <2>4
<1>4. s.op # "type"
  <2>1. SUFFICES ASSUME s.op = "type" PROVE FALSE
    OBVIOUS
  <2>2. Example(s).is = "absent" /\ Example(s) \in Present
    BY <1>0, <1>1, <2>1 DEF AdmitsLeaf, MadeOf, TextOps
  <2>3. Example(s) \in Value
    BY <2>2 DEF Value
  <2> QED BY <1>1, <2>2, <2>3, AbsentFacts
<1>5. s.op # "kind"
  BY <1>0, <1>1 DEF AdmitsLeaf, MadeOf, OfKind, TextOps
<1>6. s.op # "not-empty"
  BY <1>1 DEF AdmitsLeaf, IsEmpty, TextOps
<1>7. s.op \notin TextOps
  BY <1>1 DEF AdmitsLeaf, Readable, TextOps
<1>8. s.op # "component"
  BY <1>0, ShapesAssumption DEF AdmitsLeaf, MadeOf, TextOps
<1> QED BY <1>2, <1>3, <1>4, <1>5, <1>6, <1>7, <1>8 DEF AdmitsLeaf

\* A shape that is no member admits nothing absent, whatever is pinned.
LEMMA PresentOnly ==
  ASSUME NEW asg
  PROVE  \A s \in Shape : Parses(s, FALSE) =>
           \A at \in Path : ~Admits(s, Absent, at, asg)
<1> DEFINE S == {s \in Shape : Parses(s, FALSE) => \A at \in Path : ~Admits(s, Absent, at, asg)}
<1>0. Absent.is = "absent" /\ Absent \notin Present /\ Absent \in Value
  BY AbsentFacts
<1>1. ASSUME NEW s \in Shape, \A t \in Shape : shapeRank[t] < shapeRank[s] => t \in S
      PROVE  s \in S
  <2> SUFFICES ASSUME Parses(s, FALSE), NEW at \in Path, Admits(s, Absent, at, asg) PROVE FALSE
    OBVIOUS
  <2>1. MadeOf(Lower(s), s) /\ ~AdmitsAbsent(s)
    BY ShapeParts, ParsesFacts
  <2>2. s.op \notin {"optional", "forbidden"}
    BY <2>1 DEF AdmitsAbsent
  <2>3. AdmitsNode(Matcher(asg), s, Absent, at, asg)
    BY <1>0, MatcherUnfolds
  <2>4. \A t \in Lower(s), p \in Path : Parses(t, FALSE) => ~Matcher(asg)[<<t, Absent, p>>]
    BY <1>1 DEF Lower, Admits
  <2>5. ~AdmitsLeaf(s, Absent)
    BY <2>2, PresentLeaf
  <2>6. ~AdmitsObject(Matcher(asg), s, Absent, at) /\ ~AdmitsArray(Matcher(asg), s, Absent, at)
        /\ ~AdmitsEachLike(Matcher(asg), s, Absent, at, asg)
        /\ ~AdmitsEachEntry(Matcher(asg), s, Absent, at, asg)
        /\ ~AdmitsContains(Matcher(asg), s, Absent, at)
    BY <1>0 DEF AdmitsObject, AdmitsArray, AdmitsEachLike, AdmitsEachEntry, AdmitsContains
  <2>7. ASSUME s.op = "nullable" PROVE ~AdmitsOrStandIn(Matcher(asg), s, Absent, at,
                                                         Pin(asg, at, "nullability"), "null")
    <3>1. ~Matcher(asg)[<<s.of, Absent, at>>]
      BY <2>1, <2>4, <2>7, ParsesFacts DEF MadeOf
    <3> QED BY <1>0, <3>1 DEF AdmitsOrStandIn
  <2>8. ASSUME s.op = "any-of" PROVE ~AdmitsAnyOf(s, Absent, at, asg)
    <3>1. s.options \in Seq(Present)
      BY <2>1, <2>8 DEF MadeOf
    <3>2. ASSUME NEW i \in DOMAIN s.options PROVE ~SameValue(Absent, s.options[i])
      <4>1. s.options[i] \in Present
        BY <3>1
      <4>2. s.options[i] \in Value
        BY <4>1 DEF Value
      <4> QED BY <1>0, <4>1, <4>2, EqualKinds
    <3>3. \A o \in Range(s.options) : ~SameValue(Absent, o)
      BY <3>2 DEF Range
    <3>4. ASSUME PinnedOptions(s, at, asg) # {} PROVE Min(PinnedOptions(s, at, asg)) \in DOMAIN s.options
      <4>1. PinnedOptions(s, at, asg) \subseteq DOMAIN s.options
        BY DEF PinnedOptions
      <4>2. PinnedOptions(s, at, asg) \subseteq Nat
        BY <3>1, <4>1
      <4> QED BY <3>4, <4>1, <4>2, MinFacts
    <3> QED BY <3>2, <3>3, <3>4 DEF AdmitsAnyOf
  <2>9. ASSUME s.op = "one-of" PROVE ~AdmitsOneOf(Matcher(asg), s, Absent, at, asg)
    <3>1. \A n \in Given(s.alternatives) : 
            n \in Name /\ s.alternatives[n] \in Lower(s) /\ Parses(s.alternatives[n], FALSE)
      BY <2>1, <2>9, GivenBelow, ParsesFacts DEF MadeOf
    <3>2. \A n \in Given(s.alternatives) :
            ~Matcher(asg)[<<s.alternatives[n], Absent, Append(at, InAlternative(n))>>]
      BY <2>4, <3>1, StepFacts
    <3>3. Selected(s, Absent) \subseteq Given(s.alternatives)
      BY DEF Selected
    <3> QED BY <3>2, <3>3 DEF AdmitsOneOf
  <2> QED BY <2>2, <2>3, <2>5, <2>6, <2>7, <2>8, <2>9 DEF AdmitsNode
<1>2. Shape \subseteq S
  <2> HIDE DEF S
  <2> QED BY <1>1, ShapeInduction
<1> QED BY <1>2

-----------------------------------------------------------------------------
\* Lists, documents and their sizes.

\* Where nothing of a sequence is absent, all of it is there.
LEMMA AllContributes ==
  ASSUME NEW T, NEW vs \in Seq(T), \A i \in DOMAIN vs : vs[i] # Absent
  PROVE  Contributing(vs) = vs
<1> DEFINE k == Len(vs)
           Upto(n) == [i \in 1..n |-> vs[i]]
           h == [n \in 0..k |-> Upto(n)]
           Body(f, n) == IF n = 0 THEN <<>>
                         ELSE IF vs[n] = Absent THEN f[n - 1] ELSE Append(f[n - 1], vs[n])
           there == CHOOSE f : f = [n \in 0..k |-> Body(f, n)]
<1>0. k \in Nat /\ DOMAIN vs = 1..k /\ vs = Upto(k) /\ \A i \in 1..k : vs[i] \in T /\ vs[i] # Absent
  OBVIOUS
<1>1. Contributing(vs) = there[k]
  BY DEF Contributing
<1> HIDE DEF k
<1>2. ASSUME NEW n \in 0..k PROVE Upto(n) \in Seq(T) /\ Len(Upto(n)) = n
  <2>1. n \in Nat /\ \A i \in 1..n : i \in 1..k
    BY <1>0, <1>2
  <2>2. Upto(n) \in [1..n -> T]
    BY <1>0, <2>1
  <2> HIDE DEF Upto
  <2>3. Upto(n) \in Seq(T)
    BY <2>1, <2>2
  <2>4. DOMAIN Upto(n) = 1..n /\ DOMAIN Upto(n) = 1..Len(Upto(n)) /\ Len(Upto(n)) \in Nat
    BY <2>2, <2>3
  <2> QED BY <2>1, <2>3, <2>4
<1>3. ASSUME NEW n \in 0..k, n # 0 PROVE Upto(n) = Append(Upto(n - 1), vs[n])
  <2>1. n \in 1..k /\ n - 1 \in 0..k /\ vs[n] \in T
    BY <1>0, <1>3
  <2>2. Upto(n - 1) \in Seq(T) /\ Len(Upto(n - 1)) = n - 1 /\ Upto(n) \in Seq(T) /\ Len(Upto(n)) = n
    BY <1>2, <2>1
  <2>3. \A i \in 1..n : Append(Upto(n - 1), vs[n])[i] = Upto(n)[i]
    BY <1>0, <2>1, <2>2
  <2>4. Append(Upto(n - 1), vs[n]) \in Seq(T) /\ Len(Append(Upto(n - 1), vs[n])) = n
    BY <1>0, <2>1, <2>2
  <2> DEFINE a == Append(Upto(n - 1), vs[n])
             b == Upto(n)
  <2>5. a \in Seq(T) /\ b \in Seq(T) /\ Len(a) = n /\ Len(b) = n /\ \A i \in 1..n : a[i] = b[i]
    BY <2>2, <2>3, <2>4
  <2> HIDE DEF a, b
  <2>6. a = b
    BY <2>5
  <2> QED BY <2>6 DEF a, b
<1>4. Upto(0) = <<>>
  OBVIOUS
<1>5. \A n \in 0..k : h[n] = Body(h, n)
  <2> SUFFICES ASSUME NEW n \in 0..k PROVE h[n] = Body(h, n)
    OBVIOUS
  <2>1. h[n] = Upto(n) /\ (n # 0 => n - 1 \in 0..k /\ h[n - 1] = Upto(n - 1) /\ vs[n] # Absent)
    BY <1>0
  <2> HIDE DEF h, Upto
  <2> QED BY <1>3, <1>4, <2>1
<1>6. h = [n \in 0..k |-> Body(h, n)]
  <2>1. h = [n \in 0..k |-> h[n]]
    OBVIOUS
  <2> HIDE DEF h, Body
  <2> QED BY <1>5, <2>1
<1>7. there = [n \in 0..k |-> Body(there, n)]
  <2> HIDE DEF h
  <2> QED BY <1>6
<1> HIDE DEF there, h
<1> DEFINE S == {n \in Nat : n <= k => there[n] = Upto(n)}
<1>8. ASSUME NEW n \in Nat, \A m \in Nat : m < n => m \in S PROVE n \in S
  <2> SUFFICES ASSUME n <= k PROVE there[n] = Upto(n)
    OBVIOUS
  <2>0. n \in 0..k
    BY <1>0
  <2>1. there[n] = Body(there, n)
    BY <1>7, <2>0
  <2>2. ASSUME n # 0 PROVE there[n - 1] = Upto(n - 1) /\ vs[n] # Absent
    <3>1. n - 1 \in Nat /\ n - 1 < n /\ n - 1 <= k /\ n \in 1..k
      BY <1>0, <2>2
    <3> HIDE DEF Upto
    <3> QED BY <1>0, <1>8, <3>1
  <2> HIDE DEF Upto
  <2> QED BY <1>3, <1>4, <2>0, <2>1, <2>2
<1>9. S = Nat
  <2> HIDE DEF S
  <2>1. S \in SUBSET Nat
    BY DEF S
  <2> QED BY <1>8, <2>1, Induction
<1>10. there[k] = Upto(k)
  BY <1>0, <1>9
<1> QED BY <1>0, <1>1, <1>10

\* The items of a list that is a value are values that are there.
LEMMA ListParts ==
  ASSUME NEW items, List(items) \in Value
  PROVE  /\ items \in Seq(Present)
         /\ \A i \in DOMAIN items : items[i] \in Value /\ items[i] # Absent
<1>1. List(items).is = "array" /\ List(items).items = items
  BY DEF List
<1> QED BY <1>1, ValueFacts

\* A document that is a value has members by the names of the model alone.
LEMMA DocumentParts ==
  ASSUME NEW vs, Document(vs) \in Value
  PROVE  /\ Document(vs).is = "object" /\ DOMAIN vs \subseteq Name
         /\ \A n \in DOMAIN vs : Document(vs).members[n] = vs[n] /\ vs[n] \in Value
         /\ \A n \in Name \ DOMAIN vs : Document(vs).members[n] = Absent
<1> DEFINE m == [n \in Name \cup DOMAIN vs |-> IF n \in DOMAIN vs THEN vs[n] ELSE Absent]
<1>1. Document(vs).is = "object" /\ Document(vs).members = m
  BY DEF Document
<1>2. m \in [Name -> Value]
  BY <1>1, ValueFacts
<1>3. DOMAIN m = Name \cup DOMAIN vs /\ DOMAIN m = Name
  <2>1. DOMAIN m = Name \cup DOMAIN vs
    OBVIOUS
  <2> HIDE DEF m
  <2> QED BY <1>2, <2>1
<1>4. DOMAIN vs \subseteq Name
  BY <1>3
<1>5. \A n \in DOMAIN vs : m[n] = vs[n] /\ m[n] \in Value
  <2>1. \A n \in DOMAIN vs : m[n] = vs[n]
    OBVIOUS
  <2> HIDE DEF m
  <2> QED BY <1>2, <1>4, <2>1
<1>6. \A n \in Name \ DOMAIN vs : m[n] = Absent
  OBVIOUS
<1> HIDE DEF m
<1> QED BY <1>1, <1>4, <1>5, <1>6

\* A list or a map is produced as long as it is matched.
LEMMA SizeWithin ==
  ASSUME NEW s \in Shape, s.op \in {"each-like", "each-entry"}, NEW at, NEW asg,
         \A m \in s.max : s.min <= m
  PROVE  Size(s, at, asg) \in Nat /\ Within(Size(s, at, asg), Bounds(s, at, asg))
<1> DEFINE points == Pin(asg, at, "cardinality") \cap CardinalityPoints(s)
           p == CHOOSE q \in points : TRUE
<1>0. s.min \in Nat /\ s.max \subseteq Nat /\ \A m, n \in s.max : m = n
  BY ShapeParts DEF MadeOf, Maybe
<1>1. CASE points = {}
  <2>1. Size(s, at, asg) = s.min /\ Bounds(s, at, asg) = [min |-> s.min, max |-> s.max]
    BY <1>1 DEF Size, Bounds
  <2> QED BY <1>0, <2>1 DEF Within
<1>2. CASE points # {}
  <2>0. p \in CardinalityPoints(s)
    BY <1>2
  <2>1. Size(s, at, asg) = SizeAt(s, p) /\ Bounds(s, at, asg) = Region(s, p)
    BY <1>2 DEF Size, Bounds
  <2> HIDE DEF p, points
  <2>2. CASE p = "min"
    <3>1. SizeAt(s, p) = s.min /\ Region(s, p) = [min |-> s.min, max |-> {s.min}]
      BY <2>2 DEF SizeAt, Region
    <3> QED BY <1>0, <2>1, <3>1 DEF Within
  <2>3. CASE p = "max"
    <3>1. PICK m \in s.max : TRUE
      BY <2>0, <2>3 DEF CardinalityPoints
    <3>2. s.max = {m} /\ (CHOOSE n \in s.max : TRUE) = m /\ m \in Nat
      BY <1>0, <3>1
    <3>3. SizeAt(s, p) = m /\ Region(s, p) = [min |-> m, max |-> s.max]
      BY <2>3, <3>2 DEF SizeAt, Region
    <3> QED BY <2>1, <3>2, <3>3 DEF Within
  <2>4. CASE p = "min+1"
    <3>1. SizeAt(s, p) = s.min + 1
          /\ Region(s, p) = [min |-> s.min + 1,
                             max |-> IF "max" \in CardinalityPoints(s) THEN {m - 1 : m \in s.max} ELSE s.max]
      BY <2>4 DEF SizeAt, Region
    <3>2. \A m \in s.max : m > s.min
      BY <2>0, <2>4 DEF CardinalityPoints
    <3>3. ASSUME "max" \in CardinalityPoints(s) PROVE \A m \in s.max : s.min + 1 <= m - 1
      <4>1. \E n \in s.max : n > s.min + 1
        BY <3>3 DEF CardinalityPoints
      <4> QED BY <1>0, <4>1
    <3>4. \A m \in s.max : s.min + 1 <= m
      BY <1>0, <3>2
    <3>5. CASE "max" \in CardinalityPoints(s)
      BY <1>0, <2>1, <3>1, <3>3, <3>5 DEF Within
    <3>6. CASE "max" \notin CardinalityPoints(s)
      BY <1>0, <2>1, <3>1, <3>4, <3>6 DEF Within
    <3> QED BY <3>5, <3>6
  <2>5. p \in {"min", "min+1", "max"}
    BY <2>0 DEF CardinalityPoints
  <2> QED BY <2>2, <2>3, <2>4, <2>5
<1> QED BY <1>1, <1>2

\* As many keys are made up as there are entries, where they are all names.
LEMMA MadeUpKeys ==
  ASSUME NEW k \in Nat, {MadeUp(i) : i \in 1..k} \subseteq Name
  PROVE  Cardinality({MadeUp(i) : i \in 1..k}) = k
<1> DEFINE N == Cardinality(Name)
           keys == {MadeUp(i) : i \in 1..k}
           f == [i \in 1..k |-> MadeUp(i)]
           g == [i \in 1..(N + 1) |-> MadeUp(i)]
<1>0. N \in Nat /\ IsFiniteSet(Name)
  BY ShapesAssumption, FS_CardinalityType
<1>1. k <= N
  <2> SUFFICES ASSUME k > N PROVE FALSE
    BY <1>0
  <2>1. \A i \in 1..(N + 1) : i \in 1..k
    BY <1>0
  <2>2. g \in [1..(N + 1) -> Name]
    BY <2>1
  <2>3. IsFiniteSet(1..(N + 1)) /\ Cardinality(1..(N + 1)) = N + 1
    <3>1. 1 \in Int /\ N + 1 \in Int /\ ~(1 > N + 1) /\ N + 1 - 1 + 1 = N + 1
      BY <1>0
    <3> HIDE DEF N
    <3> QED BY <3>1, FS_Interval
  <2>4. N < N + 1
    BY <1>0
  <2>5. \E i, j \in 1..(N + 1) : i # j /\ g[i] = g[j]
    <3> HIDE DEF g
    <3> QED BY <1>0, <2>2, <2>3, <2>4, FS_PigeonHole
  <2> QED BY <2>5, MadeUpAssumption
<1>2. \A i, j \in 1..k : f[i] = f[j] => i = j
  <2>1. \A i \in 1..k : i \in 1..(N + 1)
    BY <1>0, <1>1
  <2> QED BY <2>1, MadeUpAssumption
<1>3. f \in Injection(1..k, keys)
  BY <1>2 DEF Injection, IsInjective
<1>4. f \in Surjection(1..k, keys)
  BY DEF Surjection
<1>5. IsFiniteSet(1..k) /\ Cardinality(1..k) = k
  BY FS_Interval
<1> HIDE DEF f, keys
<1>6. Cardinality(keys) = Cardinality(1..k)
  BY <1>3, <1>4, <1>5, FS_Surjection
<1> QED BY <1>5, <1>6 DEF keys

-----------------------------------------------------------------------------
\* What a variant settles.

\* What a node opens, and that what is under it is open along with it.
LEMMA DimensionsParts ==
  ASSUME NEW s \in Shape, NEW at \in Path, NEW gates \in Gates
  PROVE  LET dims == DimensionsAt(s, at, gates)
             Opens(facet, points) ==
               [id |-> Dimension(at, facet), points |-> points, gates |-> gates] \in dims
             Taking(facet, point) == gates \cup {<<Dimension(at, facet), point>>}
         IN  /\ s.op = "optional" =>
                  /\ Opens("presence", {"present", "absent"})
                  /\ DimensionsAt(s.of, at, Taking("presence", "present")) \subseteq dims
             /\ s.op = "nullable" =>
                  /\ Opens("nullability", {"non-null", "null"})
                  /\ DimensionsAt(s.of, at, Taking("nullability", "non-null")) \subseteq dims
             /\ s.op = "one-of" /\ OneOfParses(s) =>
                  /\ Opens("alternative", Given(s.alternatives))
                  /\ \A n \in Given(s.alternatives) :
                       DimensionsAt(s.alternatives[n], Append(at, InAlternative(n)),
                                    Taking("alternative", n)) \subseteq dims
             /\ s.op = "object" =>
                  \A n \in Given(s.members) :
                    DimensionsAt(s.members[n], Append(at, InMember(n)), gates) \subseteq dims
             /\ s.op \in {"array", "contains"} =>
                  \A i \in DOMAIN s.entries :
                    DimensionsAt(s.entries[i], Append(at, Index(i)), gates) \subseteq dims
             /\ s.op = "each-like" =>
                  DimensionsAt(s.items, Append(at, EachItem), gates) \subseteq dims
             /\ s.op = "each-entry" =>
                  DimensionsAt(s.values, Append(at, EachValue), gates) \subseteq dims
<1> DEFINE dims == DimensionsAt(s, at, gates)
           Under(h) == UNION {dimensionsSolution[<<c[2], at \o c[1], h>>] : c \in Children(s)}
           Here(facet, points) == {[id |-> Dimension(at, facet), points |-> points, gates |-> gates]}
           Taking(facet, point) == gates \cup {<<Dimension(at, facet), point>>}
<1>0. dims = NodeDimensions(dimensionsSolution, s, at, gates)
  BY DimensionsUnfold
<1>1. \A h, step, t : <<step, t>> \in Children(s) => DimensionsAt(t, at \o step, h) \subseteq Under(h)
  <2> SUFFICES ASSUME NEW h, NEW step, NEW t, <<step, t>> \in Children(s)
               PROVE  DimensionsAt(t, at \o step, h) \subseteq Under(h)
    OBVIOUS
  <2>1. dimensionsSolution[<<<<step, t>>[2], at \o <<step, t>>[1], h>>] \subseteq Under(h)
    OBVIOUS
  <2> QED BY <2>1 DEF DimensionsAt
<1>2. at \o <<>> = at /\ \A step \in Step : at \o <<step>> = Append(at, step)
  BY ChildPlaces
<1>3. ASSUME NEW step \in Step, NEW t, NEW h, <<<<step>>, t>> \in Children(s)
      PROVE  DimensionsAt(t, Append(at, step), h) \subseteq Under(h)
  BY <1>1, <1>2, <1>3
<1>4. ASSUME s.op = "optional"
      PROVE  dims = Here("presence", {"present", "absent"}) \cup Under(Taking("presence", "present"))
  BY <1>0, <1>4 DEF NodeDimensions
<1>5. ASSUME s.op = "nullable"
      PROVE  dims = Here("nullability", {"non-null", "null"}) \cup Under(Taking("nullability", "non-null"))
  BY <1>0, <1>5 DEF NodeDimensions
<1>6. ASSUME s.op \in {"optional", "nullable"}, NEW h
      PROVE  DimensionsAt(s.of, at, h) \subseteq Under(h)
  <2>1. <<<<>>, s.of>> \in Children(s)
    BY <1>6 DEF Children
  <2> QED BY <1>1, <1>2, <2>1
<1>7. ASSUME s.op = "one-of", OneOfParses(s)
      PROVE  /\ Here("alternative", Given(s.alternatives)) \subseteq dims
             /\ \A n \in Given(s.alternatives) :
                  DimensionsAt(s.alternatives[n], Append(at, InAlternative(n)),
                               Taking("alternative", n)) \subseteq dims
  <2>1. IsFiniteSet(Given(s.alternatives)) /\ Cardinality(Given(s.alternatives)) >= 2
    <3>1. Given(s.alternatives) \subseteq Name
      BY DEF Given
    <3> QED BY <1>7, <3>1, ShapesAssumption, FS_Subset DEF OneOfParses
  <2>2. ~(Cardinality(Given(s.alternatives)) < 2)
    BY <2>1, FS_CardinalityType
  <2>3. dims = Here("alternative", Given(s.alternatives))
                 \cup UNION {DimensionsAt(s.alternatives[n], Append(at, InAlternative(n)),
                                          Taking("alternative", n)) : n \in Given(s.alternatives)}
    BY <1>0, <1>7, <2>2 DEF NodeDimensions, DimensionsAt
  <2> HIDE DEF dims, Taking, Here
  <2> QED BY <2>3
<1>8. ASSUME s.op \in {"object", "array", "contains", "each-like", "each-entry"}
      PROVE  Under(gates) \subseteq dims
  BY <1>0, <1>8 DEF NodeDimensions
<1>9. ASSUME s.op = "object", NEW n \in Given(s.members)
      PROVE  DimensionsAt(s.members[n], Append(at, InMember(n)), gates) \subseteq dims
  <2>1. <<<<InMember(n)>>, s.members[n]>> \in Children(s) /\ InMember(n) \in Step
    BY <1>9 DEF Children, Given, InMember, Step
  <2> HIDE DEF dims, Under
  <2> QED BY <1>3, <1>8, <1>9, <2>1
<1>10. ASSUME s.op \in {"array", "contains"}, NEW i \in DOMAIN s.entries
       PROVE  DimensionsAt(s.entries[i], Append(at, Index(i)), gates) \subseteq dims
  <2>1. s.entries \in Seq(Lower(s))
    BY <1>10, ShapeParts DEF MadeOf
  <2>2. i \in Nat
    BY <2>1
  <2>3. <<<<Index(i)>>, s.entries[i]>> \in Children(s) /\ Index(i) \in Step
    BY <1>10, <2>2 DEF Children, Index, Step
  <2> HIDE DEF dims, Under
  <2> QED BY <1>3, <1>8, <1>10, <2>3
<1>11. ASSUME s.op = "each-like"
       PROVE  DimensionsAt(s.items, Append(at, EachItem), gates) \subseteq dims
  <2>1. <<<<EachItem>>, s.items>> \in Children(s) /\ EachItem \in Step
    BY <1>11 DEF Children, Step
  <2> HIDE DEF dims, Under
  <2> QED BY <1>3, <1>8, <1>11, <2>1
<1>12. ASSUME s.op = "each-entry"
       PROVE  DimensionsAt(s.values, Append(at, EachValue), gates) \subseteq dims
  <2>1. <<<<EachValue>>, s.values>> \in Children(s) /\ EachValue \in Step
    BY <1>12 DEF Children, Step
  <2> HIDE DEF dims, Under
  <2> QED BY <1>3, <1>8, <1>12, <2>1
<1> HIDE DEF dims, Under
<1> QED BY <1>4, <1>5, <1>6, <1>7, <1>9, <1>10, <1>11, <1>12 DEF dims

\* Whether a choice takes all of some gates.
Takes(f, gates) == \A g \in gates : f[g[1]] = g[2]

\* An assignment settles the dimensions whose gates a choice takes as it does.
Settles(asg, f, dims) ==
  \A d \in dims : Takes(f, d.gates) =>
    d.id \in DOMAIN asg /\ asg[d.id] = f[d.id] /\ f[d.id] \in d.points

\* One more gate that is taken.
LEMMA TakesMore ==
  ASSUME NEW f, NEW gates, Takes(f, gates), NEW d, NEW point, f[d] = point
  PROVE  Takes(f, gates \cup {<<d, point>>})
BY DEF Takes

\* A dimension of the node that is settled is pinned to one of its points.
LEMMA SettledPin ==
  ASSUME NEW asg, NEW f, NEW dims, Settles(asg, f, dims), NEW gates, Takes(f, gates),
         NEW at, NEW facet, NEW points,
         [id |-> Dimension(at, facet), points |-> points, gates |-> gates] \in dims
  PROVE  /\ Pin(asg, at, facet) = {f[Dimension(at, facet)]}
         /\ f[Dimension(at, facet)] \in points
<1> DEFINE d == [id |-> Dimension(at, facet), points |-> points, gates |-> gates]
<1>1. d.id = Dimension(at, facet) /\ d.points = points /\ d.gates = gates /\ d \in dims
  OBVIOUS
<1> HIDE DEF d
<1>2. d.id \in DOMAIN asg /\ asg[d.id] = f[d.id] /\ f[d.id] \in d.points
  BY <1>1 DEF Settles
<1> QED BY <1>1, <1>2 DEF Pin

-----------------------------------------------------------------------------
\* A node that is produced is matched, operator by operator.

\* The value of a shape at a place, where it is one of the model, is admitted.
ProducesMatch(asg, s, at) ==
  LET v == Generator(asg)[<<s, at>>] IN v \in Value => Admits(s, v, at, asg)

\* Nothing is produced as absent where the parser asks for a value.
LEMMA ProducedPresent ==
  ASSUME NEW asg, NEW s \in Shape, NEW at \in Path, Parses(s, FALSE), ProducesMatch(asg, s, at)
  PROVE  Generator(asg)[<<s, at>>] # Absent
BY PresentOnly, AbsentFacts DEF ProducesMatch

\* The example of a leaf is admitted under any assignment.
LEMMA LeafProduced ==
  ASSUME NEW asg, NEW s \in Shape, NEW at \in Path, Producible(s), s.op \in LeafOps
  PROVE  ProducesMatch(asg, s, at)
<1>1. s.example # {} /\ AdmitsAny(s, Example(s)) /\ Example(s) \in s.example
  BY ProducibleFacts DEF Example
<1>2. s.example \subseteq Present
  BY ShapeParts DEF MadeOf
<1>3. Example(s) \in Value
  BY <1>1, <1>2 DEF Value
<1>4. Generator(asg)[<<s, at>>] = Example(s)
  <2>1. Generate(Generator(asg), s, at, asg) = Example(s)
    BY <1>1 DEF Generate, LeafOps, TextOps
  <2> QED BY <2>1, GeneratorUnfolds
<1>5. <<>> \in Path
  BY DEF Path
<1>6. AdmitsNode(Matcher(<<>>), s, Example(s), <<>>, <<>>)
  BY <1>1, <1>3, <1>5, MatcherUnfolds DEF AdmitsAny
<1>7. AdmitsLeaf(s, Example(s))
  BY <1>6 DEF AdmitsNode, LeafOps, TextOps
<1>8. Admits(s, Example(s), at, asg)
  BY <1>3, <1>7, MatcherUnfolds DEF AdmitsNode
<1> QED BY <1>4, <1>8 DEF ProducesMatch

\* An option, or an example, of an any-of is admitted.
LEMMA AnyOfProduced ==
  ASSUME NEW asg, NEW s \in Shape, NEW at \in Path, s.op = "any-of", AnyOfParses(s)
  PROVE  ProducesMatch(asg, s, at)
<1> DEFINE v == Generator(asg)[<<s, at>>]
           pinned == PinnedOptions(s, at, asg)
<1>1. s.options \in Seq(Present) /\ s.example \subseteq Present
  BY ShapeParts DEF MadeOf
<1>2. s.options # <<>> /\ \A e \in s.example : \E o \in Range(s.options) : SameValue(o, e)
  BY DEF AnyOfParses
<1>3. v = IF pinned # {} THEN s.options[Min(pinned)]
          ELSE IF s.example # {} THEN Example(s) ELSE s.options[1]
  <2>1. Generate(Generator(asg), s, at, asg)
          = IF pinned # {} THEN s.options[Min(pinned)]
            ELSE IF s.example # {} THEN Example(s) ELSE s.options[1]
    BY DEF Generate
  <2> QED BY <2>1, GeneratorUnfolds
<1> SUFFICES ASSUME v \in Value PROVE Admits(s, v, at, asg)
  BY DEF ProducesMatch
<1> HIDE DEF v
<1>4. SameValue(v, v)
  BY EqualReflexive
<1>5. CASE pinned # {}
  BY <1>3, <1>4, <1>5, MatcherUnfolds DEF AdmitsNode, AdmitsAnyOf
<1>6. CASE pinned = {}
  <2>1. \A o \in Range(s.options) : o \in Value
    <3>1. \A i \in DOMAIN s.options : s.options[i] \in Present
      BY <1>1
    <3> QED BY <3>1 DEF Range, Value
  <2>2. \E o \in Range(s.options) : SameValue(v, o)
    <3>1. CASE s.example # {}
      <4>1. v \in s.example
        BY <1>3, <1>6, <3>1 DEF Example
      <4>2. PICK o \in Range(s.options) : SameValue(o, v)
        BY <1>2, <4>1
      <4> QED BY <2>1, <4>2, EqualSymmetric
    <3>2. CASE s.example = {}
      <4>1. v = s.options[1]
        BY <1>3, <1>6, <3>2
      <4>2. 1 \in DOMAIN s.options
        BY <1>1, <1>2
      <4>3. v \in Range(s.options)
        BY <4>1, <4>2 DEF Range
      <4> QED BY <1>4, <4>3
    <3> QED BY <3>1, <3>2
  <2> QED BY <1>6, <2>2, MatcherUnfolds DEF AdmitsNode, AdmitsAnyOf
<1> QED BY <1>5, <1>6

\* A list of a node's value, as often as it is produced, is admitted.
LEMMA EachLikeProduced ==
  ASSUME NEW asg, NEW s \in Shape, NEW at \in Path, s.op = "each-like", Parses(s, TRUE),
         ProducesMatch(asg, s.items, Append(at, EachItem))
  PROVE  ProducesMatch(asg, s, at)
<1> DEFINE v == Generator(asg)[<<s, at>>]
           item == Generator(asg)[<<s.items, Append(at, EachItem)>>]
           size == Size(s, at, asg)
           items == [i \in 1..size |-> OrNull(item)]
<1>1. s.items \in Shape /\ Append(at, EachItem) \in Path
  BY ShapeParts, StepFacts DEF MadeOf, Lower
<1>2. Parses(s.items, FALSE) /\ \A m \in s.max : s.min <= m
  BY ParsesFacts
<1>3. item # Absent
  BY <1>1, <1>2, ProducedPresent
<1>4. size \in Nat /\ Within(size, Bounds(s, at, asg))
  BY <1>2, SizeWithin
<1>5. v = List(items)
  <2>1. Generate(Generator(asg), s, at, asg) = List(items)
    BY DEF Generate
  <2> QED BY <2>1, GeneratorUnfolds
<1> SUFFICES ASSUME v \in Value PROVE Admits(s, v, at, asg)
  BY DEF ProducesMatch
<1>6. \A i \in 1..size : items[i] = item
  BY <1>3 DEF OrNull
<1>7. DOMAIN items = 1..size
  OBVIOUS
<1> HIDE DEF v, item, size, items
<1>8. v.is = "array" /\ v.items = items
  BY <1>5 DEF List
<1>9. items \in Seq(Present) /\ \A i \in DOMAIN items : items[i] \in Value
  BY <1>5, ListParts
<1>10. Len(items) = size
  BY <1>4, <1>7, <1>9
<1>11. \A i \in DOMAIN items : Matcher(asg)[<<s.items, items[i], Append(at, EachItem)>>]
  BY <1>6, <1>7, <1>9 DEF ProducesMatch, item, Admits
<1>12. AdmitsEachLike(Matcher(asg), s, v, at, asg)
  BY <1>4, <1>8, <1>10, <1>11 DEF AdmitsEachLike
<1> QED BY <1>12, MatcherUnfolds DEF AdmitsNode

\* A map of a node's value, by as many keys as are made up, is admitted.
LEMMA EachEntryProduced ==
  ASSUME NEW asg, NEW s \in Shape, NEW at \in Path, s.op = "each-entry", s.keys = {},
         Parses(s, TRUE), ProducesMatch(asg, s.values, Append(at, EachValue))
  PROVE  ProducesMatch(asg, s, at)
<1> DEFINE v == Generator(asg)[<<s, at>>]
           entry == Generator(asg)[<<s.values, Append(at, EachValue)>>]
           size == Size(s, at, asg)
           keys == {MadeUp(i) : i \in 1..size}
           entries == [n \in keys |-> OrNull(entry)]
<1>1. s.values \in Shape /\ Append(at, EachValue) \in Path
  BY ShapeParts, StepFacts DEF MadeOf, Lower
<1>2. Parses(s.values, FALSE) /\ \A m \in s.max : s.min <= m
  BY ParsesFacts
<1>3. entry # Absent
  BY <1>1, <1>2, ProducedPresent
<1>4. size \in Nat /\ Within(size, Bounds(s, at, asg))
  BY <1>2, SizeWithin
<1>5. v = Document(entries)
  <2> DEFINE texts == {w.text : w \in {Generator(asg)[<<k, Append(at, EachKey)>>] :
                         k \in {l \in s.keys : Generator(asg)[<<l, Append(at, EachKey)>>].is = "string"}}}
             names == UNION {IF texts = {} THEN {MadeUp(i)} ELSE texts : i \in 1..size}
  <2>1. texts = {}
    OBVIOUS
  <2>2. names = keys
    <3> HIDE DEF texts, size
    <3> QED BY <2>1
  <2>3. Generate(Generator(asg), s, at, asg) = Document([n \in names |-> OrNull(entry)])
    BY DEF Generate
  <2> HIDE DEF names, keys
  <2> QED BY <2>2, <2>3, GeneratorUnfolds
<1> SUFFICES ASSUME v \in Value PROVE Admits(s, v, at, asg)
  BY DEF ProducesMatch
<1>6. DOMAIN entries = keys /\ \A n \in keys : entries[n] = entry
  BY <1>3 DEF OrNull
<1> HIDE DEF v, entry, size, entries, keys
<1>7. /\ v.is = "object" /\ keys \subseteq Name
      /\ \A n \in keys : v.members[n] = entry /\ entry \in Value
      /\ \A n \in Name \ keys : v.members[n] = Absent
  BY <1>5, <1>6, DocumentParts
<1>8. MemberNames(v) = keys
  BY <1>3, <1>7 DEF MemberNames
<1>9. Cardinality(keys) = size
  BY <1>4, <1>7, MadeUpKeys DEF keys
<1>10. \A n \in keys : Matcher(asg)[<<s.values, v.members[n], Append(at, EachValue)>>]
  BY <1>7 DEF ProducesMatch, entry, Admits
<1>11. AdmitsEachEntry(Matcher(asg), s, v, at, asg)
  BY <1>4, <1>7, <1>8, <1>9, <1>10 DEF AdmitsEachEntry
<1> QED BY <1>11, MatcherUnfolds DEF AdmitsNode

\* An object of the values of its members is admitted.
LEMMA ObjectProduced ==
  ASSUME NEW asg, NEW s \in Shape, NEW at \in Path, s.op = "object",
         \A n \in Given(s.members) : ProducesMatch(asg, s.members[n], Append(at, InMember(n)))
  PROVE  ProducesMatch(asg, s, at)
<1> DEFINE v == Generator(asg)[<<s, at>>]
           members == [n \in Given(s.members) |->
                         Generator(asg)[<<s.members[n], Append(at, InMember(n))>>]]
<1>1. v = Document(members)
  <2>1. Generate(Generator(asg), s, at, asg) = Document(members)
    BY DEF Generate
  <2> QED BY <2>1, GeneratorUnfolds
<1> SUFFICES ASSUME v \in Value PROVE Admits(s, v, at, asg)
  BY DEF ProducesMatch
<1>2. DOMAIN members = Given(s.members)
      /\ \A n \in Given(s.members) :
           members[n] = Generator(asg)[<<s.members[n], Append(at, InMember(n))>>]
  OBVIOUS
<1> HIDE DEF v, members
<1>3. v.is = "object" /\ \A n \in Given(s.members) : v.members[n] = members[n] /\ members[n] \in Value
  BY <1>1, <1>2, DocumentParts
<1>4. \A n \in Given(s.members) :
        Matcher(asg)[<<s.members[n], v.members[n], Append(at, InMember(n))>>]
  BY <1>2, <1>3 DEF ProducesMatch, Admits
<1>5. AdmitsObject(Matcher(asg), s, v, at)
  BY <1>3, <1>4 DEF AdmitsObject
<1> QED BY <1>5, MatcherUnfolds DEF AdmitsNode

\* A list of the values of its entries is admitted, in their order.
LEMMA EntriesProduced ==
  ASSUME NEW asg, NEW s \in Shape, NEW at \in Path, s.op \in {"array", "contains"}, Parses(s, TRUE),
         \A i \in DOMAIN s.entries : ProducesMatch(asg, s.entries[i], Append(at, Index(i)))
  PROVE  ProducesMatch(asg, s, at)
<1> DEFINE v == Generator(asg)[<<s, at>>]
           items == [i \in DOMAIN s.entries |-> Generator(asg)[<<s.entries[i], Append(at, Index(i))>>]]
<1>1. s.entries \in Seq(Lower(s))
  BY ShapeParts DEF MadeOf
<1>2. \A i \in DOMAIN s.entries : s.entries[i] \in Shape /\ i \in Nat
  BY <1>1 DEF Lower
<1>3. \A i \in DOMAIN s.entries : Append(at, Index(i)) \in Path /\ Parses(s.entries[i], FALSE)
  BY <1>2, StepFacts, ParsesFacts
<1>4. /\ DOMAIN items = DOMAIN s.entries
      /\ \A i \in DOMAIN items : 
           items[i] = Generator(asg)[<<s.entries[i], Append(at, Index(i))>>]
  OBVIOUS
<1>5. \A i \in DOMAIN items : items[i] # Absent
  BY <1>2, <1>3, <1>4, ProducedPresent
<1>6. v = List(items)
  <2>1. CASE s.op = "array"
    <3>1. Generate(Generator(asg), s, at, asg) = List([i \in DOMAIN s.entries |-> OrNull(items[i])])
      BY <2>1 DEF Generate
    <3>2. [i \in DOMAIN s.entries |-> OrNull(items[i])] = items
      BY <1>5 DEF OrNull
    <3> QED BY <3>1, <3>2, GeneratorUnfolds
  <2>2. CASE s.op = "contains"
    <3>1. Generate(Generator(asg), s, at, asg) = List(Contributing(items))
      BY <2>2 DEF Generate
    <3> DEFINE T == {items[i] : i \in DOMAIN items}
               k == Len(s.entries)
    <3>2. k \in Nat /\ DOMAIN items = 1..k
      BY <1>1, <1>4
    <3>3. items \in [1..k -> T]
      BY <3>2
    <3> HIDE DEF items, T, k
    <3>4. items \in Seq(T)
      BY <3>2, <3>3
    <3>5. Contributing(items) = items
      BY <1>5, <3>4, AllContributes
    <3> QED BY <3>1, <3>5, GeneratorUnfolds
  <2> QED BY <2>1, <2>2
<1> SUFFICES ASSUME v \in Value PROVE Admits(s, v, at, asg)
  BY DEF ProducesMatch
<1> HIDE DEF v, items
<1>7. v.is = "array" /\ v.items = items
  BY <1>6 DEF List
<1>8. items \in Seq(Present) /\ \A i \in DOMAIN items : items[i] \in Value
  BY <1>6, ListParts
<1>9. \A i \in DOMAIN s.entries : Matcher(asg)[<<s.entries[i], items[i], Append(at, Index(i))>>]
  BY <1>4, <1>8 DEF ProducesMatch, Admits
<1>10. Len(items) = Len(s.entries) /\ DOMAIN items = 1..Len(items) /\ Len(items) \in Nat
  BY <1>1, <1>4, <1>8
<1>11. CASE s.op = "array"
  <2>1. AdmitsArray(Matcher(asg), s, v, at)
    BY <1>7, <1>9, <1>10 DEF AdmitsArray
  <2> QED BY <1>11, <2>1, MatcherUnfolds DEF AdmitsNode
<1>12. CASE s.op = "contains"
  <2> DEFINE claim == [i \in DOMAIN s.entries |-> i]
  <2>1. claim \in [DOMAIN s.entries -> DOMAIN v.items]
    BY <1>4, <1>7
  <2>2. ASSUME NEW i \in DOMAIN s.entries
        PROVE  /\ claim[i] \in Unclaimed(Matcher(asg), s, v, at, claim, i)
               /\ \A j \in Unclaimed(Matcher(asg), s, v, at, claim, i) : claim[i] <= j
    <3>1. i \in 1..Len(items) /\ i \in Nat /\ claim[i] = i /\ \A k \in 1..(i - 1) : claim[k] = k
      BY <1>4, <1>10
    <3>2. i \in Unclaimed(Matcher(asg), s, v, at, claim, i)
      <4>1. \A k \in 1..(i - 1) : claim[k] # i
        BY <3>1
      <4> QED BY <1>4, <1>7, <1>9, <4>1 DEF Unclaimed
    <3>3. ASSUME NEW j \in Unclaimed(Matcher(asg), s, v, at, claim, i) PROVE i <= j
      <4>1. j \in DOMAIN items /\ \A k \in 1..(i - 1) : claim[k] # j
        BY <1>7 DEF Unclaimed
      <4>2. j \in 1..Len(items) /\ j \in Nat
        BY <1>10, <4>1
      <4>3. j \notin 1..(i - 1)
        BY <3>1, <4>1
      <4> HIDE DEF claim
      <4> QED BY <3>1, <4>2, <4>3
    <3> QED BY <3>1, <3>2, <3>3
  <2> HIDE DEF claim
  <2>3. AdmitsContains(Matcher(asg), s, v, at)
    BY <1>7, <2>1, <2>2 DEF AdmitsContains
  <2> QED BY <1>12, <2>3, MatcherUnfolds DEF AdmitsNode
<1> QED BY <1>11, <1>12

-----------------------------------------------------------------------------
\* Every shape, under every variant.

\* What a shape produces under a choice that its assignment settles is admitted,
\* at any place whose gates the choice takes.
LEMMA ChoiceProduced ==
  ASSUME NEW f, NEW asg
  PROVE  \A s \in Shape : Parses(s, TRUE) /\ Producible(s) =>
           \A at \in Path, gates \in Gates :
             Takes(f, gates) /\ Settles(asg, f, DimensionsAt(s, at, gates)) =>
               ProducesMatch(asg, s, at)
<1> DEFINE S == {s \in Shape : Parses(s, TRUE) /\ Producible(s) =>
                   \A at \in Path, gates \in Gates :
                     Takes(f, gates) /\ Settles(asg, f, DimensionsAt(s, at, gates)) =>
                       ProducesMatch(asg, s, at)}
<1>1. ASSUME NEW s \in Shape, \A t \in Shape : shapeRank[t] < shapeRank[s] => t \in S
      PROVE  s \in S
  <2> SUFFICES ASSUME Parses(s, TRUE), Producible(s), NEW at \in Path, NEW gates \in Gates,
                      Takes(f, gates), Settles(asg, f, DimensionsAt(s, at, gates))
               PROVE  ProducesMatch(asg, s, at)
    OBVIOUS
  <2> DEFINE v == Generator(asg)[<<s, at>>]
             dims == DimensionsAt(s, at, gates)
  <2>1. ASSUME NEW t \in Lower(s), NEW p \in Path, NEW h \in Gates, NEW b \in BOOLEAN, Parses(t, b),
               Producible(t), Takes(f, h), DimensionsAt(t, p, h) \subseteq dims
        PROVE  ProducesMatch(asg, t, p)
    <3>1. t \in Shape /\ t \in S
      BY <1>1 DEF Lower
    <3>2. Parses(t, TRUE)
      BY <2>1, <3>1, ParsesFacts
    <3>3. Settles(asg, f, DimensionsAt(t, p, h))
      BY <2>1 DEF Settles
    <3> QED BY <2>1, <3>1, <3>2, <3>3
  <2> HIDE DEF dims
  <2>2. MadeOf(Lower(s), s)
    BY ShapeParts
  <2>3. CASE s.op \in LeafOps
    BY <2>3, LeafProduced
  <2>4. CASE s.op = "forbidden"
    <3>1. Generate(Generator(asg), s, at, asg) = Absent
      BY <2>4 DEF Generate
    <3>2. v = Absent
      BY <3>1, GeneratorUnfolds
    <3>3. AdmitsLeaf(s, Absent)
      BY <2>4, AbsentFacts DEF AdmitsLeaf
    <3>4. Admits(s, Absent, at, asg)
      BY <3>3, AbsentFacts, MatcherUnfolds DEF AdmitsNode
    <3> QED BY <3>2, <3>4 DEF ProducesMatch
  <2>5. CASE s.op = "any-of"
    BY <2>5, AnyOfProduced, ParsesFacts
  <2>6. CASE s.op = "optional"
    <3> DEFINE d == Dimension(at, "presence")
    <3>1. [id |-> d, points |-> {"present", "absent"}, gates |-> gates] \in dims
          /\ DimensionsAt(s.of, at, gates \cup {<<d, "present">>}) \subseteq dims
      BY <2>6, DimensionsParts DEF dims
    <3>2. Pin(asg, at, "presence") = {f[d]} /\ f[d] \in {"present", "absent"}
      BY <3>1, SettledPin DEF dims
    <3>3. Generate(Generator(asg), s, at, asg)
            = IF f[d] = "absent" THEN Absent ELSE Generator(asg)[<<s.of, at>>]
      BY <2>6, <3>2 DEF Generate
    <3>4. v = IF f[d] = "absent" THEN Absent ELSE Generator(asg)[<<s.of, at>>]
      BY <3>3, GeneratorUnfolds
    <3>5. CASE f[d] = "absent"
      <4>1. AdmitsOrStandIn(Matcher(asg), s, Absent, at, Pin(asg, at, "presence"), "absent")
        BY <3>2, <3>5, AbsentFacts DEF AdmitsOrStandIn
      <4>2. Admits(s, Absent, at, asg)
        BY <2>6, <4>1, AbsentFacts, MatcherUnfolds DEF AdmitsNode
      <4> QED BY <3>4, <3>5, <4>2 DEF ProducesMatch
    <3>6. CASE f[d] = "present"
      <4>1. gates \cup {<<d, "present">>} \in Gates
        BY MoreGates DEF Gating
      <4>2. Takes(f, gates \cup {<<d, "present">>})
        BY <3>6, TakesMore
      <4>3. s.of \in Lower(s) /\ Parses(s.of, FALSE) /\ Producible(s.of)
        BY <2>2, <2>6, ParsesFacts, ProducibleFacts DEF MadeOf
      <4>4. ProducesMatch(asg, s.of, at)
        BY <2>1, <3>1, <4>1, <4>2, <4>3
      <4>5. v = Generator(asg)[<<s.of, at>>]
        BY <3>4, <3>6
      <4> SUFFICES ASSUME v \in Value PROVE Admits(s, v, at, asg)
        BY DEF ProducesMatch
      <4>6. Matcher(asg)[<<s.of, v, at>>]
        BY <4>4, <4>5 DEF ProducesMatch, Admits
      <4> HIDE DEF v
      <4>7. AdmitsOrStandIn(Matcher(asg), s, v, at, Pin(asg, at, "presence"), "absent")
        BY <3>2, <3>6, <4>6 DEF AdmitsOrStandIn
      <4> QED BY <2>6, <4>7, MatcherUnfolds DEF AdmitsNode
    <3> QED BY <3>2, <3>5, <3>6
  <2>7. CASE s.op = "nullable"
    <3> DEFINE d == Dimension(at, "nullability")
    <3>1. [id |-> d, points |-> {"non-null", "null"}, gates |-> gates] \in dims
          /\ DimensionsAt(s.of, at, gates \cup {<<d, "non-null">>}) \subseteq dims
      BY <2>7, DimensionsParts DEF dims
    <3>2. Pin(asg, at, "nullability") = {f[d]} /\ f[d] \in {"non-null", "null"}
      BY <3>1, SettledPin DEF dims
    <3>3. Generate(Generator(asg), s, at, asg)
            = IF f[d] = "null" THEN Null ELSE Generator(asg)[<<s.of, at>>]
      BY <2>7, <3>2 DEF Generate
    <3>4. v = IF f[d] = "null" THEN Null ELSE Generator(asg)[<<s.of, at>>]
      BY <3>3, GeneratorUnfolds
    <3>5. CASE f[d] = "null"
      <4>1. Null \in Value /\ Null.is = "null"
        BY ScalarsPresent DEF Null, Scalar
      <4>2. AdmitsOrStandIn(Matcher(asg), s, Null, at, Pin(asg, at, "nullability"), "null")
        BY <3>2, <3>5, <4>1 DEF AdmitsOrStandIn
      <4>3. Admits(s, Null, at, asg)
        BY <2>7, <4>1, <4>2, MatcherUnfolds DEF AdmitsNode
      <4> QED BY <3>4, <3>5, <4>3 DEF ProducesMatch
    <3>6. CASE f[d] = "non-null"
      <4>1. gates \cup {<<d, "non-null">>} \in Gates
        BY MoreGates DEF Gating
      <4>2. Takes(f, gates \cup {<<d, "non-null">>})
        BY <3>6, TakesMore
      <4>3. s.of \in Lower(s) /\ Parses(s.of, FALSE) /\ Producible(s.of)
        BY <2>2, <2>7, ParsesFacts, ProducibleFacts DEF MadeOf
      <4>4. ProducesMatch(asg, s.of, at)
        BY <2>1, <3>1, <4>1, <4>2, <4>3
      <4>5. v = Generator(asg)[<<s.of, at>>]
        BY <3>4, <3>6
      <4> SUFFICES ASSUME v \in Value PROVE Admits(s, v, at, asg)
        BY DEF ProducesMatch
      <4>6. Matcher(asg)[<<s.of, v, at>>]
        BY <4>4, <4>5 DEF ProducesMatch, Admits
      <4> HIDE DEF v
      <4>7. AdmitsOrStandIn(Matcher(asg), s, v, at, Pin(asg, at, "nullability"), "null")
        BY <3>2, <3>6, <4>6 DEF AdmitsOrStandIn
      <4> QED BY <2>7, <4>7, MatcherUnfolds DEF AdmitsNode
    <3> QED BY <3>2, <3>5, <3>6
  <2>8. CASE s.op = "one-of"
    <3> DEFINE d == Dimension(at, "alternative")
               n == f[d]
    <3>1. OneOfParses(s)
      BY <2>8, ParsesFacts
    <3>2. [id |-> d, points |-> Given(s.alternatives), gates |-> gates] \in dims
          /\ \A m \in Given(s.alternatives) :
               DimensionsAt(s.alternatives[m], Append(at, InAlternative(m)),
                            gates \cup {<<d, m>>}) \subseteq dims
      BY <2>8, <3>1, DimensionsParts DEF dims
    <3>3. Pin(asg, at, "alternative") = {n} /\ n \in Given(s.alternatives)
      BY <3>2, SettledPin DEF dims
    <3> HIDE DEF n
    <3>4. Chosen(s, at, asg) = {n}
      BY <3>3 DEF Chosen
    <3>5. Generate(Generator(asg), s, at, asg)
            = Generator(asg)[<<s.alternatives[n], Append(at, InAlternative(n))>>]
      <4>1. (CHOOSE m \in {n} : TRUE) = n
        OBVIOUS
      <4> QED BY <2>8, <3>4, <4>1 DEF Generate
    <3>6. v = Generator(asg)[<<s.alternatives[n], Append(at, InAlternative(n))>>]
      BY <3>5, GeneratorUnfolds
    <3>7. n \in Name /\ s.alternatives[n] \in Lower(s)
      BY <2>2, <2>8, <3>3, GivenBelow DEF MadeOf
    <3>8. Parses(s.alternatives[n], FALSE) /\ Producible(s.alternatives[n])
      BY <2>8, <3>3, ParsesFacts, ProducibleFacts
    <3>9. gates \cup {<<d, n>>} \in Gates /\ Append(at, InAlternative(n)) \in Path
      BY <3>7, MoreGates, StepFacts DEF Gating
    <3>10. Takes(f, gates \cup {<<d, n>>})
      BY TakesMore DEF n
    <3>11. ProducesMatch(asg, s.alternatives[n], Append(at, InAlternative(n)))
      BY <2>1, <3>2, <3>3, <3>7, <3>8, <3>9, <3>10
    <3> SUFFICES ASSUME v \in Value PROVE Admits(s, v, at, asg)
      BY DEF ProducesMatch
    <3>12. Matcher(asg)[<<s.alternatives[n], v, Append(at, InAlternative(n))>>]
      BY <3>6, <3>11 DEF ProducesMatch, Admits
    <3> HIDE DEF v
    <3>13. AdmitsOneOf(Matcher(asg), s, v, at, asg)
      BY <3>3, <3>12 DEF AdmitsOneOf
    <3> QED BY <2>8, <3>13, MatcherUnfolds DEF AdmitsNode
  <2>9. CASE s.op = "each-like"
    <3>1. s.items \in Lower(s) /\ Parses(s.items, FALSE) /\ Producible(s.items)
          /\ Append(at, EachItem) \in Path
      BY <2>2, <2>9, ParsesFacts, ProducibleFacts, StepFacts DEF MadeOf
    <3>2. DimensionsAt(s.items, Append(at, EachItem), gates) \subseteq dims
      BY <2>9, DimensionsParts DEF dims
    <3>3. ProducesMatch(asg, s.items, Append(at, EachItem))
      BY <2>1, <3>1, <3>2
    <3> QED BY <2>9, <3>3, EachLikeProduced
  <2>10. CASE s.op = "each-entry"
    <3>1. s.values \in Lower(s) /\ Parses(s.values, FALSE) /\ Producible(s.values)
          /\ Append(at, EachValue) \in Path /\ s.keys = {}
      BY <2>2, <2>10, ParsesFacts, ProducibleFacts, StepFacts DEF MadeOf
    <3>2. DimensionsAt(s.values, Append(at, EachValue), gates) \subseteq dims
      BY <2>10, DimensionsParts DEF dims
    <3>3. ProducesMatch(asg, s.values, Append(at, EachValue))
      BY <2>1, <3>1, <3>2
    <3> QED BY <2>10, <3>1, <3>3, EachEntryProduced
  <2>11. CASE s.op = "object"
    <3>1. ASSUME NEW n \in Given(s.members)
          PROVE  ProducesMatch(asg, s.members[n], Append(at, InMember(n)))
      <4>1. n \in Name /\ s.members[n] \in Lower(s)
        BY <2>2, <2>11, GivenBelow DEF MadeOf
      <4>2. Parses(s.members[n], TRUE) /\ Producible(s.members[n]) /\ Append(at, InMember(n)) \in Path
        BY <2>11, <4>1, ParsesFacts, ProducibleFacts, StepFacts
      <4>3. DimensionsAt(s.members[n], Append(at, InMember(n)), gates) \subseteq dims
        BY <2>11, DimensionsParts DEF dims
      <4> QED BY <2>1, <4>1, <4>2, <4>3
    <3> QED BY <2>11, <3>1, ObjectProduced
  <2>12. CASE s.op \in {"array", "contains"}
    <3>1. ASSUME NEW i \in DOMAIN s.entries
          PROVE  ProducesMatch(asg, s.entries[i], Append(at, Index(i)))
      <4>1. s.entries \in Seq(Lower(s))
        BY <2>2, <2>12 DEF MadeOf
      <4>2. i \in Nat /\ s.entries[i] \in Lower(s)
        BY <4>1
      <4>3. Parses(s.entries[i], FALSE) /\ Producible(s.entries[i]) /\ Append(at, Index(i)) \in Path
        BY <2>12, <4>2, ParsesFacts, ProducibleFacts, StepFacts
      <4>4. DimensionsAt(s.entries[i], Append(at, Index(i)), gates) \subseteq dims
        BY <2>12, DimensionsParts DEF dims
      <4> QED BY <2>1, <4>2, <4>3, <4>4
    <3> QED BY <2>12, <3>1, EntriesProduced
  <2>13. s.op \in LeafOps \cup {"forbidden", "any-of", "optional", "nullable", "object", "array",
                "contains", "each-like", "each-entry", "one-of"}
    BY <2>2 DEF MadeOf
  <2> QED
    BY <2>3, <2>4, <2>5, <2>6, <2>7, <2>8, <2>9, <2>10, <2>11, <2>12, <2>13
<1>2. Shape \subseteq S
  <2> HIDE DEF S
  <2> QED BY <1>1, ShapeInduction
<1> QED BY <1>2

\* A variant of a shape settles the shape's dimensions as some choice of points.
LEMMA VariantSettles ==
  ASSUME NEW s, NEW asg \in Variants(s)
  PROVE  \E f : Settles(asg, f, Dimensions(s))
<1> DEFINE dims == Dimensions(s)
           ids == {d.id : d \in dims}
           Full == {f \in [ids -> UNION {d.points : d \in dims}] :
                      \A d \in dims : f[d.id] \in d.points}
           Open(f) == {d.id : d \in {e \in dims : \A g \in e.gates : f[g[1]] = g[2]}}
<1>1. PICK f \in Full : asg = Restrict(f, Open(f))
  BY DEF Variants
<1>2. ASSUME NEW d \in dims, Takes(f, d.gates)
      PROVE  d.id \in DOMAIN asg /\ asg[d.id] = f[d.id] /\ f[d.id] \in d.points
  <2>1. d.id \in Open(f)
    BY <1>2 DEF Takes
  <2> HIDE DEF Open
  <2>2. asg = [x \in Open(f) |-> f[x]]
    BY <1>1 DEF Restrict
  <2> QED BY <1>1, <2>1, <2>2
<1> QED BY <1>2 DEF Settles

\* Whatever a variant of a shape that the parser reads produces is admitted by
\* the shape under the variant.
LEMMA VariantProduced ==
  ASSUME NEW s \in Shape, WellFormed(s), Producible(s), NEW asg \in Variants(s)
  PROVE  LET v == Generated(s, asg) IN v \in Value => Admits(s, v, <<>>, asg)
<1>1. PICK f : Settles(asg, f, Dimensions(s))
  BY VariantSettles
<1>2. Parses(s, TRUE)
  BY ParsesUnfolds, ParsesFacts
<1>3. <<>> \in Path /\ {} \in Gates /\ Takes(f, {})
  BY DEF Path, Gates, Takes
<1>4. Settles(asg, f, DimensionsAt(s, <<>>, {}))
  BY <1>1, DimensionsUnfold
<1>5. ProducesMatch(asg, s, <<>>)
  BY <1>2, <1>3, <1>4, ChoiceProduced
<1> QED BY <1>5 DEF ProducesMatch, Generated

-----------------------------------------------------------------------------
\* The check from end to end.

\* The shapes the parser reads.
ParsedShape == {s \in Shape : Parses(s, FALSE)}

\* What the slot holds: evidence, at most one shape, which is published when no
\* evidence is held, at most one contract, and the report of the two.
CheckInv ==
  /\ evidence \in Evidence
  /\ published \subseteq ParsedShape /\ \A p, q \in published : p = q
  /\ published # {} => evidence.seen = 0
  /\ contract \subseteq Declared /\ \A c, d \in contract : c = d
  /\ contract # {} => published # {}
  /\ report = {{Result(p, c) : p \in published} : c \in contract}

\* The shapes that are published and declared as written are ones the parser reads.
LEMMA DeclaredRead ==
  /\ \A s \in Authored : s \in ParsedShape
  /\ \A c \in Declared : c.shape \in ParsedShape
BY CheckAssumption, ParsesUnfolds DEF ParsedShape, Shape

\* Nothing seen is evidence.
LEMMA NoEvidenceFacts == NoEvidence \in Evidence /\ NoEvidence.seen = 0
BY DepthIsNat, EvidenceBelowFacts DEF Evidence, NoEvidence

\* One more observation is evidence.
LEMMA ObservedIsEvidence ==
  ASSUME NEW e \in Evidence, NEW v \in Observations
  PROVE  Observed(e, v) \in Evidence
<1>1. v \in ValueTo[Depth] /\ e \in EvidenceTo[Depth] /\ v \in Present
  BY CheckAssumption DEF Present, Evidence
<1>2. Stays(observing, ValueTo[Depth], EvidenceTo[Depth])
  BY DepthIsNat, ObservedFacts
<1>3. observing[<<v, e>>] \in EvidenceTo[Depth]
  BY <1>1, <1>2 DEF Stays
<1> QED BY <1>1, <1>3, ObservedUnfolds DEF Evidence

\* What is emitted is at most one shape, which the parser reads; it is one when
\* anything was seen.
LEMMA EmittedIsRead ==
  ASSUME NEW e \in Evidence
  PROVE  /\ ToShape(e) \subseteq ParsedShape
         /\ \A p, q \in ToShape(e) : p = q
<1>1. ToShape(e) \subseteq DrawnTo(Depth)
  BY DepthIsNat, ToShapeFacts DEF ToShape, Evidence
<1>2. DrawnTo(Depth) \subseteq ParsedShape
  BY TopFacts DEF DrawnTo, ParsedShape, Top
<1>3. \A p, q \in ToShape(e) : p = q
  BY ToShapeFacts DEF ToShape, Emitted
<1> QED BY <1>1, <1>2, <1>3

\* The slot starts out so.
LEMMA CheckInitInv == CheckInit => CheckInv
BY NoEvidenceFacts DEF CheckInit, CheckInv

\* Every step keeps it so.
LEMMA CheckInvNext ==
  CheckInv /\ [CheckNext]_checkVars => CheckInv'
<1> SUFFICES ASSUME CheckInv, [CheckNext]_checkVars PROVE CheckInv'
  OBVIOUS
<1>0. /\ evidence \in Evidence
      /\ published \subseteq ParsedShape /\ \A p, q \in published : p = q
      /\ published # {} => evidence.seen = 0
      /\ contract \subseteq Declared /\ \A c, d \in contract : c = d
      /\ contract # {} => published # {}
      /\ report = {{Result(p, c) : p \in published} : c \in contract}
  BY DEF CheckInv
<1>1. ASSUME NEW v \in Observations, Observe(v) PROVE CheckInv'
  <2>1. published = {} /\ UNCHANGED <<published, contract, report>> /\ evidence' = Observed(evidence, v)
    BY <1>1 DEF Observe
  <2>2. evidence' \in Evidence
    BY <1>0, <2>1, ObservedIsEvidence
  <2> QED BY <1>0, <2>1, <2>2 DEF CheckInv
<1>2. ASSUME Finish PROVE CheckInv'
  <2>1. /\ evidence.seen > 0 /\ published' = ToShape(evidence) /\ evidence' = NoEvidence
        /\ UNCHANGED <<contract, report>>
    BY <1>2 DEF Finish
  <2>2. published = {} /\ contract = {} /\ report = {}
    BY <1>0, <2>1
  <2>3. published' \subseteq ParsedShape /\ \A p, q \in published' : p = q
    BY <1>0, <2>1, EmittedIsRead
  <2>4. contract' = {} /\ report' = {}
    BY <2>1, <2>2
  <2> QED BY <2>1, <2>3, <2>4, NoEvidenceFacts DEF CheckInv
<1>3. ASSUME NEW s \in Authored, Publish(s) PROVE CheckInv'
  <2>1. /\ published = {} /\ evidence.seen = 0 /\ published' = {s}
        /\ UNCHANGED <<evidence, contract, report>>
    BY <1>3 DEF Publish
  <2>2. contract' = {} /\ report' = {}
    BY <1>0, <2>1
  <2>3. s \in ParsedShape
    BY DeclaredRead
  <2> QED BY <1>0, <2>1, <2>2, <2>3 DEF CheckInv
<1>4. ASSUME NEW c \in Declared, Check(c) PROVE CheckInv'
  <2>1. /\ contract = {} /\ published # {} /\ contract' = {c}
        /\ report' = {{Result(p, c) : p \in published}}
        /\ UNCHANGED <<evidence, published>>
    BY <1>4 DEF Check
  <2>2. report' = {{Result(p, d) : p \in published} : d \in {c}}
    BY <2>1
  <2>3. report' = {{Result(p, d) : p \in published'} : d \in contract'}
    BY <2>1, <2>2
  <2> QED BY <1>0, <2>1, <2>3 DEF CheckInv
<1>5. ASSUME DecideChecked PROVE CheckInv'
  <2>1. UNCHANGED <<evidence, published, contract, report>>
    BY <1>5 DEF DecideChecked
  <2> QED BY <1>0, <2>1 DEF CheckInv
<1>6. ASSUME UNCHANGED checkVars PROVE CheckInv'
  <2>1. UNCHANGED <<evidence, published, contract, report>>
    BY <1>6 DEF checkVars
  <2> QED BY <1>0, <2>1 DEF CheckInv
<1> QED BY <1>1, <1>2, <1>3, <1>4, <1>5, <1>6 DEF CheckNext

\* The slot's evidence holds the values it was given.
RecordInv ==
  observed \subseteq Present /\ \A v \in observed : Holds(evidence, v)

\* One more observation is held, and keeps the others.
LEMMA ObserveKeeps ==
  ASSUME evidence \in Evidence, RecordInv, NEW v \in Observations, Observe(v)
  PROVE  RecordInv'
<1>1. evidence' = Observed(evidence, v) /\ observed' = observed \cup {v} /\ v \in Present
  BY CheckAssumption DEF Observe
<1>2. Holds(Observed(evidence, v), v)
  BY <1>1, AllHeld DEF Enters
<1>3. ASSUME NEW u \in observed PROVE Holds(Observed(evidence, v), u)
  BY <1>1, AllRemain DEF RecordInv, Remains
<1>4. observed' \subseteq Present
  BY <1>1 DEF RecordInv
<1>5. \A u \in observed' : Holds(evidence', u)
  BY <1>1, <1>2, <1>3
<1> QED BY <1>4, <1>5 DEF RecordInv, Holds, Held

\* Every step keeps what is held.
LEMMA RecordInvNext ==
  CheckInv /\ RecordInv /\ [CheckNext]_checkVars => RecordInv'
<1> SUFFICES ASSUME CheckInv, RecordInv, [CheckNext]_checkVars PROVE RecordInv'
  OBVIOUS
<1>1. ASSUME NEW v \in Observations, Observe(v) PROVE RecordInv'
  BY <1>1, ObserveKeeps DEF CheckInv
<1>2. ASSUME Finish PROVE RecordInv'
  <2>1. observed' = {}
    BY <1>2 DEF Finish
  <2> QED BY <2>1 DEF RecordInv
<1>3. ASSUME UNCHANGED <<evidence, observed>> PROVE RecordInv'
  BY <1>3 DEF RecordInv
<1> QED BY <1>1, <1>2, <1>3 DEF CheckNext, checkVars, Publish, Check, DecideChecked

\* A yes of one report is sound.
LEMMA ResultIsSound ==
  ASSUME NEW p \in ParsedShape, NEW c, c.shape \in ParsedShape, Result(p, c).verdict = "yes",
         NEW v \in Value, unread[v], AdmitsAny(p, v)
  PROVE  \E w \in spellings[v] : AdmitsAny(c.shape, w)
<1>1. /\ p \in Shape /\ c.shape \in Shape /\ Read(p) /\ Read(c.shape)
  BY ParsesFacts DEF ParsedShape, Read
<1>2. <<>> \in Path
  BY DEF Path
<1>3. Node(p, c.shape, <<>>, c.exclusions).verdict = "yes"
  BY DEF Result
<1>4. Covers(p, c.shape)
  BY <1>1, <1>2, <1>3, NodeSound
<1>5. Adm(p, v, <<>>)
  BY DEF AdmitsAny, Adm
<1>6. \E w \in Value : SameValue(v, w) /\ Adm(c.shape, w, <<>>)
  BY <1>2, <1>4, <1>5 DEF Covers
<1>7. PICK w \in Value : SameValue(v, w) /\ Adm(c.shape, w, <<>>)
  BY <1>6
<1>8. w \in spellings[v]
  BY <1>7, SpellingsAreEqual
<1> QED BY <1>7, <1>8 DEF AdmitsAny, Adm

\* So is every yes of a slot that is as the invariant says.
LEMMA CheckedIsSound == CheckInv => YesIsSound
<1> SUFFICES ASSUME CheckInv, NEW p \in published, NEW c \in contract,
                    NEW results \in report, NEW result \in results, result.verdict = "yes",
                    NEW v \in Values, unread[v], AdmitsAny(p, v)
             PROVE  \E w \in spellings[v] : AdmitsAny(c.shape, w)
  BY DEF YesIsSound
<1>1. PICK d \in contract : results = {Result(q, d) : q \in published}
  BY DEF CheckInv
<1>2. PICK q \in published : result = Result(q, d)
  BY <1>1
<1>3. p = q /\ c = d
  BY DEF CheckInv
<1>4. p \in ParsedShape /\ c.shape \in ParsedShape /\ v \in Value
  BY DeclaredRead, CheckAssumption DEF CheckInv
<1> QED BY <1>2, <1>3, <1>4, ResultIsSound

\* A yes is never a guess, whatever the shapes, the values and the names: every
\* value the provider's shape admits is one the consumer's admits, but for how a
\* number is written (the walk of subsumption/compare.rs and its rules).
THEOREM YesesAreSound == CheckSpec => []YesIsSound
<1>1. CheckSpec => []CheckInv
  BY CheckInitInv, CheckInvNext, PTL DEF CheckSpec
<1> QED BY <1>1, CheckedIsSound, PTL

\* What holds the values is emitted as a shape that admits them.
LEMMA HeldIsAdmitted == CheckInv /\ RecordInv => RecordedAdmitsObserved
<1> SUFFICES ASSUME CheckInv, RecordInv, NEW s \in ToShape(evidence)
             PROVE  WellFormed(s) /\ \A v \in observed : AdmitsAny(s, v)
  BY DEF RecordedAdmitsObserved
<1>1. evidence \in Evidence /\ <<>> \in Path
  BY DEF CheckInv, Path
<1>2. s \in Shape /\ Parses(s, FALSE)
  BY <1>1, EmittedIsRead DEF ParsedShape
<1>3. WellFormed(s)
  BY <1>2, ParsesUnfolds
<1>4. ASSUME NEW v \in observed PROVE AdmitsAny(s, v)
  <2>1. v \in Present /\ Holds(evidence, v)
    BY DEF RecordInv
  <2>2. Adm(s, v, <<>>)
    BY <1>1, <2>1, AllAdmitted DEF Admitted, ToShape
  <2> QED BY <2>2 DEF AdmitsAny, Adm
<1> QED BY <1>3, <1>4

\* A recording is what the tests produced: whatever values a provider's tests give
\* the recorder, in any order, the shape it emits is one the parser reads and
\* admits each of them (subsumption/record.rs).
THEOREM RecordedShapesAdmit == CheckSpec => []RecordedAdmitsObserved
<1>1. CheckInit => RecordInv
  BY DEF CheckInit, RecordInv
<1>2. CheckSpec => [](CheckInv /\ RecordInv)
  BY <1>1, CheckInitInv, CheckInvNext, RecordInvNext, PTL DEF CheckSpec
<1> QED BY <1>2, HeldIsAdmitted, PTL

\* A report without the exclusions says the same.
LEMMA ResultIsInert ==
  ASSUME NEW p \in ParsedShape, NEW c \in Declared
  PROVE  Like(Result(p, c), Result(p, [c EXCEPT !.exclusions = {}]))
<1> DEFINE b == [c EXCEPT !.exclusions = {}]
<1>1. b.shape = c.shape /\ b.exclusions = {} /\ b.description = c.description
  BY CheckAssumption
<1>2. c.shape \in ParsedShape
  BY DeclaredRead
<1>a. \A s \in ParsedShape : s \in Shape /\ Read(s)
  BY ParsesFacts DEF ParsedShape, Read
<1>3. p \in Shape /\ c.shape \in Shape /\ Read(p) /\ Read(c.shape) /\ <<>> \in Path
  <2>1. <<>> \in Path
    BY DEF Path
  <2> QED BY <1>2, <1>a, <2>1
<1>4. Like(Node(p, c.shape, <<>>, c.exclusions), Node(p, c.shape, <<>>, {}))
  BY <1>3, NodeLike
<1> HIDE DEF b
<1> DEFINE M == c.description = "published"
           out(o) == [description |-> c.description, states |-> {}, matched |-> M,
                      verdict  |-> IF M THEN o.verdict ELSE "not-published",
                      findings |-> IF M THEN o.findings ELSE {}]
<1>5. /\ Result(p, c) = out(Node(p, c.shape, <<>>, c.exclusions))
      /\ Result(p, b) = out(Node(p, c.shape, <<>>, {}))
  BY <1>1 DEF Result
<1>6. ASSUME NEW x, NEW y, Like(x, y) PROVE Like(out(x), out(y))
  <2>1. CASE M
    <3>1. /\ out(x).verdict = x.verdict /\ out(x).findings = x.findings
          /\ out(y).verdict = y.verdict /\ out(y).findings = y.findings
      BY <2>1
    <3> HIDE DEF out
    <3> QED BY <1>6, <3>1 DEF Like
  <2>2. CASE ~M
    BY <2>2, LikeFacts
  <2> QED BY <2>1, <2>2
<1> HIDE DEF out
<1> QED BY <1>4, <1>5, <1>6 DEF b

\* So it is of a slot that is as the invariant says.
LEMMA CheckedIsInert == CheckInv => CaveatsAreInert
<1> SUFFICES ASSUME CheckInv, NEW p \in published, NEW c \in contract,
                    NEW results \in report, NEW result \in results
             PROVE  Like(result, Result(p, [c EXCEPT !.exclusions = {}]))
  BY DEF CaveatsAreInert, Like, Said
<1>1. PICK d \in contract : results = {Result(q, d) : q \in published}
  BY DEF CheckInv
<1>2. PICK q \in published : result = Result(q, d)
  BY <1>1
<1>3. p = q /\ c = d
  BY DEF CheckInv
<1>4. p \in ParsedShape /\ c \in Declared
  BY DEF CheckInv
<1> QED BY <1>2, <1>3, <1>4, ResultIsInert

\* Caveats decide nothing, whatever the shapes, the exclusions and where they are
\* recorded: a report says of every interaction what it would say with no
\* exclusion at all, but for the advisories (section 5 of the subsumption spec;
\* the floor and the caveats of subsumption/compare.rs).
THEOREM CaveatsDecideNothing == CheckSpec => []CaveatsAreInert
<1>1. CheckSpec => []CheckInv
  BY CheckInitInv, CheckInvNext, PTL DEF CheckSpec
<1> QED BY <1>1, CheckedIsInert, PTL

\* Every shape of a contract that is checked produces, under each of its
\* variants, a value that the shape admits under the variant.
LEMMA DeclaredProduces == CheckInv => GeneratedIsAdmitted
<1> SUFFICES ASSUME CheckInv, NEW c \in contract, Producible(c.shape),
                    NEW variant \in Variants(c.shape)
             PROVE  LET v == Generated(c.shape, variant)
                    IN  v \in Value => Admits(c.shape, v, <<>>, variant)
  BY DEF GeneratedIsAdmitted
<1>1. c.shape \in Shape /\ WellFormed(c.shape)
  BY CheckAssumption DEF CheckInv, Shape
<1> QED BY <1>1, VariantProduced

\* What a variant produces is a match, whatever the shape, the names and the
\* points chosen: production and matching read one assignment alike, down to the
\* lengths of its cardinalities (variant/generate.rs, shape/variant_space.rs and
\* the plan; section 7.2 of the shape spec).
THEOREM VariantsProduceMatches == CheckSpec => []GeneratedIsAdmitted
<1>1. CheckSpec => []CheckInv
  BY CheckInitInv, CheckInvNext, PTL DEF CheckSpec
<1> QED BY <1>1, DeclaredProduces, PTL

-----------------------------------------------------------------------------
\* The decision: whatever documents a host sends, a pass is earned.

\* Whatever the layers set, a decided finding warns or blocks.
LEMMA ResolvedActs ==
  ASSUME NEW layers, NEW member
  PROVE  Resolved(layers, member) \in {"warn", "block"}
BY DEF Resolved

\* A condition that holds gives its reason.
LEMMA WhenHolds ==
  ASSUME NEW condition, condition, NEW code, NEW action
  PROVE  \E r \in When(condition, code, action) : r.action = action
BY DEF When

\* A request that passes has no reason that warns or blocks.
LEMMA PassHasNotes ==
  ASSUME NEW request, Decision(request) = "pass",
         NEW pair \in DOMAIN request.reports,
         NEW r \in Reasons(request, pair)
  PROVE  r.action \notin {"warn", "block"}
<1>1. r \in UNION {Reasons(request, p) : p \in DOMAIN request.reports}
  OBVIOUS
<1>2. r.action \in {x.action : x \in UNION {Reasons(request, p) : p \in DOMAIN request.reports}}
  BY <1>1
<1> QED
  BY <1>2 DEF Decision

\* The runs that covered a pair that passes: there is one, and none of them
\* failed, was cut short or left variants of the pair out.
LEMMA PassIsVerified ==
  ASSUME NEW request, Decision(request) = "pass",
         NEW pair \in DOMAIN request.reports
  PROVE  /\ Covering(request, pair) # {}
         /\ \A s \in Covering(request, pair) :
              ~FailedIn(s, pair) /\ ~IncompleteIn(s, pair) /\ ~FilteredIn(s, pair)
<1> DEFINE status == StatusOf(request, pair)
<1>1. \A r \in VerificationReasons(request, pair) : r.action \notin {"warn", "block"}
  BY PassHasNotes DEF Reasons
<1>2. status # "failed"
  <2> SUFFICES ASSUME status = "failed" PROVE FALSE
    OBVIOUS
  <2>1. \E r \in When(status = "failed", "verification-failed", "block") : r.action = "block"
    BY WhenHolds
  <2> QED
    BY <1>1, <2>1 DEF VerificationReasons
<1>3. status # "incomplete"
  <2> SUFFICES ASSUME status = "incomplete" PROVE FALSE
    OBVIOUS
  <2>1. \E r \in When(status = "incomplete", "verification-incomplete", "block") :
          r.action = "block"
    BY WhenHolds
  <2> QED
    BY <1>1, <2>1 DEF VerificationReasons
<1>4. status # "unknown"
  <2> SUFFICES ASSUME status = "unknown" PROVE FALSE
    OBVIOUS
  <2>1. \E r \in When(status = "unknown", "verification-missing", "warn") : r.action = "warn"
    BY WhenHolds
  <2> QED
    BY <1>1, <2>1 DEF VerificationReasons
<1>5. ASSUME NEW s \in Covering(request, pair)
      PROVE  ~FilteredIn(s, pair)
  <2> SUFFICES ASSUME FilteredIn(s, pair) PROVE FALSE
    OBVIOUS
  <2> DEFINE filtered == \E x \in Covering(request, pair) : FilteredIn(x, pair)
  <2>1. filtered
    OBVIOUS
  <2> HIDE DEF filtered
  <2>2. \E r \in When(filtered, "verification-filtered", "warn") : r.action = "warn"
    BY <2>1, WhenHolds
  <2> QED
    BY <1>1, <2>2 DEF VerificationReasons, filtered
<1> QED
  BY <1>2, <1>3, <1>4, <1>5 DEF StatusOf

\* A finding of a passing pair that policy governs is exempt.
LEMMA PassIsExempt ==
  ASSUME NEW request, Decision(request) = "pass",
         NEW pair \in DOMAIN request.reports,
         NEW doc \in request.reports[pair], NEW i \in doc, NEW f \in i.findings,
         f.severity \in {"finding", "review"}
  PROVE  Exempt(request, pair, i, f)
<1> DEFINE code   == IF f.severity = "finding" THEN "subsumption-findings" ELSE "subsumption-reviews"
           action == IF f.severity = "finding" THEN OnFinding(request.layers)
                     ELSE OnReview(request.layers)
           live   == Live(request, pair, f.severity)
<1> SUFFICES ASSUME ~Exempt(request, pair, i, f) PROVE FALSE
  OBVIOUS
<1>1. live
  BY DEF Live
<1>2. action \in {"warn", "block"}
  BY ResolvedActs DEF OnFinding, OnReview
<1>3. When(live, code, action) \subseteq ReportReasons(request, pair)
  BY DEF ReportReasons
<1> HIDE DEF live, code, action
<1>4. \E r \in When(live, code, action) : r.action = action
  BY <1>1 DEF When
<1> QED
  BY <1>2, <1>3, <1>4, PassHasNotes DEF Reasons

\* What an exemption that silences a finding must be.
LEMMA ExemptIsAccepted ==
  ASSUME NEW request, NEW pair, NEW i, NEW f, Exempt(request, pair, i, f)
  PROVE  \E x \in Exemptions(request.layers) :
           /\ Matches(Exemption(request.layers, x), pair, i, f)
           /\ ~Lapsed(Exemption(request.layers, x), request.asOf)
BY DEF Exempt, Silencing

\* An answer carries the request it is the decision of, so that the invariant is
\* inductive as it stands.
LEMMA EveryPassIsEarned == PassIsEarned /\ [Next]_answered => PassIsEarned'
<1> SUFFICES ASSUME PassIsEarned, [Next]_answered PROVE PassIsEarned'
  OBVIOUS
<1>1. CASE UNCHANGED answered
  BY <1>1 DEF PassIsEarned
<1>2. ASSUME NEW request, Decide(request)
      PROVE  PassIsEarned'
  <2>1. answered' = {[request |-> request, decision |-> Decision(request)]}
    BY <1>2 DEF Decide
  <2>2. ASSUME Decision(request) = "pass", NEW pair \in DOMAIN request.reports
        PROVE  LET covering == {s \in request.verification : Names(s, pair)}
               IN  /\ covering # {}
                   /\ \A s \in covering :
                        ~FailedIn(s, pair) /\ ~IncompleteIn(s, pair) /\ ~FilteredIn(s, pair)
    BY <2>2, PassIsVerified DEF Covering
  <2>3. ASSUME Decision(request) = "pass", NEW pair \in DOMAIN request.reports,
               NEW doc \in request.reports[pair], NEW i \in doc, NEW f \in i.findings,
               f.severity \in {"finding", "review"}
        PROVE  \E x \in Exemptions(request.layers) :
                 LET exemption == Exemption(request.layers, x)
                 IN  /\ Matches(exemption, pair, i, f)
                     /\ \A last \in exemption.expires, today \in request.asOf : ~(today > last)
    BY <2>3, PassIsExempt, ExemptIsAccepted DEF Lapsed
  <2> QED
    BY <2>1, <2>2, <2>3 DEF PassIsEarned
<1> QED
  BY <1>1, <1>2 DEF Next

\* Compatibility!PassIsEarned holds of every answer, for any documents.
THEOREM PassesAreEarned == Spec => []PassIsEarned
<1>1. Init => PassIsEarned
  BY DEF Init, PassIsEarned
<1> QED BY <1>1, EveryPassIsEarned, PTL DEF Spec

\* So it does of every answer about the checked pair, whose report is that of the
\* shapes.
THEOREM CheckedPassesAreEarned == CheckSpec => []PassIsEarned
<1>1. CheckInit => PassIsEarned
  BY DEF CheckInit, Init, PassIsEarned
<1>2. PassIsEarned /\ [CheckNext]_checkVars => PassIsEarned'
  <2>1. [CheckNext]_checkVars => [Next]_answered
    BY DEF CheckNext, checkVars, Observe, Finish, Publish, Check, DecideChecked, Next
  <2> QED BY <2>1, EveryPassIsEarned
<1> QED BY <1>1, <1>2, PTL DEF CheckSpec
=============================================================================
