---------------------------- MODULE SubsumptionProofs ----------------------------
(***************************************************************************)
(* What holds of shapes, of the values they admit and of the subsumption   *)
(* walk, for any names, texts and components.                              *)
(*                                                                         *)
(* The shapes and the values are defined level by level, and the functions *)
(* on them by recursion over what they are made of.  The argument goes     *)
(* through the modules in their order:                                     *)
(*   - induction and recursion, with sets and functions for what would be  *)
(*     predicates and operators;                                           *)
(*   - values: levels, ranks, equality, spellings (Shapes, ShapeCheck);    *)
(*   - shapes: levels, ranks, what the parser reads, membership (Shapes);  *)
(*   - the walk: absence and null taken out, equality but for examples,    *)
(*     each rule's outcome and what it reads, and that a yes of each rule  *)
(*     is sound when the walk below is (Subsumption), up to NodeSound;     *)
(*   - caveats: that each rule says the same with exclusions and without   *)
(*     when the walks below do, and that nodes which are the same get a    *)
(*     plain yes even where a caveat takes the floor away, up to NodeLike. *)
(***************************************************************************)
EXTENDS ShapeCheck, FiniteSetTheorems, WellFoundedInduction, TLAPS

-----------------------------------------------------------------------------
\* Induction and recursion.

\* A set of naturals that holds each number whose predecessors it holds is all of
\* them.
LEMMA Induction ==
  ASSUME NEW S \in SUBSET Nat, \A n \in Nat : (\A m \in Nat : m < n => m \in S) => n \in S
  PROVE  S = Nat
<1>1. ASSUME Nat \ S # {} PROVE FALSE
  <2> DEFINE R == OpToRel(<, Nat)
  <2>0. Nat \ S \subseteq Nat /\ IsWellFoundedOn(R, Nat)
    BY NatLessThanWellFounded
  <2>1. PICK n \in Nat \ S : \A m \in Nat \ S : ~(<<m, n>> \in R)
    <3> HIDE DEF R
    <3> QED BY <1>1, <2>0, WFMin
  <2>2. \A m \in Nat : m < n => m \in S
    BY <2>1 DEF OpToRel
  <2> QED BY <2>1, <2>2
<1> QED BY <1>1

\* A definition by recursion: D takes a function to the one whose value at x is
\* the body of the definition, which reads the function at lower ranks only.
Recurs(S, T, rank, D) ==
  /\ T # {} /\ rank \in [S -> Nat] /\ D \in [[S -> T] -> [S -> T]]
  /\ \A f, g \in [S -> T], x \in S :
       (\A y \in S : rank[y] < rank[x] => f[y] = g[y]) => D[f][x] = D[g][x]

\* It has a solution.
LEMMA Recursion ==
  ASSUME NEW S, NEW T, NEW rank, NEW D, Recurs(S, T, rank, D)
  PROVE  \E f \in [S -> T] : f = D[f]
<1>0. /\ T # {} /\ rank \in [S -> Nat] /\ D \in [[S -> T] -> [S -> T]]
      /\ \A f, g \in [S -> T], x \in S :
           (\A y \in S : rank[y] < rank[x] => f[y] = g[y]) => D[f][x] = D[g][x]
  BY DEF Recurs
<1> USE <1>0
<1> DEFINE F == [S -> T]
            Solves(n, f) == \A x \in S : rank[x] < n => f[x] = D[f][x]
<1>1. \A n \in Nat : \E f \in F : Solves(n, f)
  <2> DEFINE Solved == {n \in Nat : \E f \in F : Solves(n, f)}
  <2>1. ASSUME NEW n \in Nat, \A m \in Nat : m < n => m \in Solved
        PROVE  n \in Solved
    <3>1. CASE n = 0
      <4>1. PICK t : t \in T
        OBVIOUS
      <4>2. [x \in S |-> t] \in F /\ Solves(0, [x \in S |-> t])
        BY <4>1
      <4> QED BY <3>1, <4>2
    <3>2. CASE n # 0
      <4>1. n - 1 \in Nat /\ n - 1 < n
        BY <3>2
      <4>2. PICK f \in F : Solves(n - 1, f)
        BY <2>1, <4>1
      <4>3. D[f] \in F
        OBVIOUS
      <4>4. ASSUME NEW x \in S, rank[x] < n PROVE D[f][x] = D[D[f]][x]
        <5>1. \A y \in S : rank[y] < rank[x] => f[y] = D[f][y]
          BY <4>1, <4>2, <4>4
        <5> QED BY <4>3, <5>1
      <4>5. Solves(n, D[f])
        BY <4>4
      <4> QED BY <4>3, <4>5
    <3> QED BY <3>1, <3>2
  <2> HIDE DEF Solved
  <2>2. Solved = Nat
    <3>1. Solved \in SUBSET Nat
      BY DEF Solved
    <3> QED BY <2>1, <3>1, Induction
  <2> QED BY <2>2 DEF Solved
<1>2. ASSUME NEW n \in Nat, NEW f \in F, NEW g \in F, Solves(n, f), Solves(n, g)
      PROVE  \A x \in S : rank[x] < n => f[x] = g[x]
  <2> DEFINE Agree == {m \in Nat : \A x \in S : rank[x] = m /\ m < n => f[x] = g[x]}
  <2>1. ASSUME NEW m \in Nat, \A k \in Nat : k < m => k \in Agree
        PROVE  m \in Agree
    <3>1. ASSUME NEW x \in S, rank[x] = m, m < n PROVE f[x] = g[x]
      <4>1. \A y \in S : rank[y] < rank[x] => f[y] = g[y]
        BY <2>1, <3>1
      <4>2. D[f][x] = D[g][x]
        BY <4>1
      <4> QED BY <1>2, <3>1, <4>2
    <3> QED BY <3>1
  <2> HIDE DEF Agree
  <2>2. Agree = Nat
    <3>1. Agree \in SUBSET Nat
      BY DEF Agree
    <3> QED BY <2>1, <3>1, Induction
  <2> QED BY <2>2 DEF Agree
<1> DEFINE Pick(n) == CHOOSE f \in F : Solves(n, f)
            G == [x \in S |-> Pick(rank[x] + 1)[x]]
<1>3. \A n \in Nat : Pick(n) \in F /\ Solves(n, Pick(n))
  BY <1>1
<1> HIDE DEF Pick
<1>4. G \in F
  BY <1>3
<1>5. ASSUME NEW x \in S PROVE G[x] = D[G][x]
  <2> DEFINE f == Pick(rank[x] + 1)
  <2>1. f \in F /\ f[x] = D[f][x] /\ G[x] = f[x] /\ Solves(rank[x] + 1, f)
    BY <1>3
  <2>2. ASSUME NEW y \in S, rank[y] < rank[x] PROVE f[y] = G[y]
    <3> DEFINE g == Pick(rank[y] + 1)
    <3>1. g \in F /\ Solves(rank[y] + 1, g) /\ G[y] = g[y]
      BY <1>3
    <3>2. Solves(rank[y] + 1, f)
      BY <2>1, <2>2
    <3> HIDE DEF g, f, Solves
    <3>3. rank[y] + 1 \in Nat /\ rank[y] < rank[y] + 1
      OBVIOUS
    <3> QED BY <1>2, <2>1, <3>1, <3>2, <3>3
  <2> HIDE DEF f, G
  <2>3. D[f][x] = D[G][x]
    BY <1>4, <2>1, <2>2
  <2> QED BY <2>1, <2>3
<1>6. D[G] \in F
  BY <1>4
<1> HIDE DEF G
<1> QED BY <1>4, <1>5, <1>6

-----------------------------------------------------------------------------
\* Levels.

\* The values of a level are those over the level below.
ValueStage(n, f) == f = [m \in 0..n |-> ValueOver(IF m = 0 THEN {} ELSE f[m - 1])]

\* There is a function to every level of values, and they agree.
LEMMA ValueStages ==
  /\ \A n \in Nat : \E f : ValueStage(n, f)
  /\ \A m \in Nat : \A n, k \in Nat : \A f, g :
       m <= n /\ m <= k /\ ValueStage(n, f) /\ ValueStage(k, g) => f[m] = g[m]
<1> DEFINE Staged == {n \in Nat : \E f : ValueStage(n, f)}
           Agreed == {m \in Nat : \A n, k \in Nat : \A f, g :
                        m <= n /\ m <= k /\ ValueStage(n, f) /\ ValueStage(k, g) => f[m] = g[m]}
<1>1. ASSUME NEW n \in Nat, \A m \in Nat : m < n => m \in Staged PROVE n \in Staged
  <2>1. CASE n = 0
    <3>1. ValueStage(0, [m \in 0..0 |-> ValueOver({})])
      BY DEF ValueStage
    <3> QED BY <2>1, <3>1
  <2>2. CASE n # 0
    <3>1. n - 1 \in Nat /\ n - 1 < n
      BY <2>2
    <3>2. PICK f : ValueStage(n - 1, f)
      BY <1>1, <3>1
    <3> DEFINE g == [m \in 0..n |-> IF m = n THEN ValueOver(f[n - 1]) ELSE f[m]]
    <3>3. ASSUME NEW m \in 0..n PROVE g[m] = ValueOver(IF m = 0 THEN {} ELSE g[m - 1])
      <4>1. CASE m = n
        BY <2>2, <3>1, <4>1
      <4>2. CASE m # n
        <5>1. m \in 0..(n - 1) /\ (m # 0 => m - 1 \in 0..n /\ m - 1 # n)
          BY <3>1, <4>2
        <5>2. g[m] = f[m] /\ (m # 0 => g[m - 1] = f[m - 1])
          BY <4>2, <5>1
        <5>3. f[m] = ValueOver(IF m = 0 THEN {} ELSE f[m - 1])
          BY <3>2, <5>1 DEF ValueStage
        <5> QED BY <5>2, <5>3
      <4> QED BY <4>1, <4>2
    <3>4. g = [m \in 0..n |-> g[m]]
      OBVIOUS
    <3> HIDE DEF g
    <3>5. g = [m \in 0..n |-> ValueOver(IF m = 0 THEN {} ELSE g[m - 1])]
      BY <3>3, <3>4
    <3> QED BY <3>5 DEF ValueStage
  <2> QED BY <2>1, <2>2
<1>2. ASSUME NEW m \in Nat, \A j \in Nat : j < m => j \in Agreed PROVE m \in Agreed
  <2> SUFFICES ASSUME NEW n \in Nat, NEW k \in Nat, NEW f, NEW g, m <= n, m <= k,
                      ValueStage(n, f), ValueStage(k, g)
               PROVE  f[m] = g[m]
    OBVIOUS
  <2>1. /\ f[m] = ValueOver(IF m = 0 THEN {} ELSE f[m - 1])
        /\ g[m] = ValueOver(IF m = 0 THEN {} ELSE g[m - 1])
    BY DEF ValueStage
  <2>2. ASSUME m # 0 PROVE f[m - 1] = g[m - 1]
    <3>1. m - 1 \in Nat /\ m - 1 < m /\ m - 1 <= n /\ m - 1 <= k
      BY <2>2
    <3>2. m - 1 \in Agreed
      BY <1>2, <3>1
    <3> QED BY <3>1, <3>2
  <2> QED BY <2>1, <2>2
<1> HIDE DEF Staged, Agreed
<1>3. Staged = Nat
  <2>1. Staged \in SUBSET Nat
    BY DEF Staged
  <2> QED BY <1>1, <2>1, Induction
<1>4. Agreed = Nat
  <2>1. Agreed \in SUBSET Nat
    BY DEF Agreed
  <2> QED BY <1>2, <2>1, Induction
<1> QED BY <1>3, <1>4 DEF Staged, Agreed

\* The values of each level are those over the level below.
LEMMA ValueLevels ==
  \A n \in Nat : ValueTo[n] = ValueOver(IF n = 0 THEN {} ELSE ValueTo[n - 1])
<1> DEFINE Stage(n) == CHOOSE f : ValueStage(n, f)
           h == [n \in Nat |-> Stage(n)[n]]
<1>1. \A n \in Nat : ValueStage(n, Stage(n))
  BY ValueStages
<1> HIDE DEF Stage
<1>2. ASSUME NEW n \in Nat PROVE h[n] = ValueOver(IF n = 0 THEN {} ELSE h[n - 1])
  <2>1. h[n] = ValueOver(IF n = 0 THEN {} ELSE Stage(n)[n - 1])
    BY <1>1 DEF ValueStage
  <2>2. ASSUME n # 0 PROVE Stage(n)[n - 1] = h[n - 1]
    <3>1. n - 1 \in Nat /\ n - 1 <= n
      BY <2>2
    <3>2. Stage(n)[n - 1] = Stage(n - 1)[n - 1]
      BY <1>1, <3>1, ValueStages
    <3> QED BY <3>1, <3>2
  <2> QED BY <2>1, <2>2
<1>3. h = [n \in Nat |-> h[n]]
  OBVIOUS
<1> HIDE DEF h
<1>4. h = [n \in Nat |-> ValueOver(IF n = 0 THEN {} ELSE h[n - 1])]
  BY <1>2, <1>3
<1>5. ValueTo = [n \in Nat |-> ValueOver(IF n = 0 THEN {} ELSE ValueTo[n - 1])]
  BY <1>4 DEF ValueTo
<1> QED BY <1>5
\* The sequences over a larger set are more.
LEMMA SeqGrows ==
  ASSUME NEW A, NEW B, A \subseteq B
  PROVE  Seq(A) \subseteq Seq(B)
<1> SUFFICES ASSUME NEW s \in Seq(A) PROVE s \in Seq(B)
  OBVIOUS
<1>1. Len(s) \in Nat /\ s \in [1..Len(s) -> A]
  OBVIOUS
<1>2. s \in [1..Len(s) -> B]
  BY <1>1
<1> QED BY <1>1, <1>2

\* A level of values holds the ones below.
LEMMA ValueGrows ==
  \A n \in Nat : \A m \in Nat : m <= n => ValueTo[m] \subseteq ValueTo[n]
<1>1. ASSUME NEW A, NEW B, A \subseteq B PROVE ValueOver(A) \subseteq ValueOver(B)
  <2>1. Seq(A) \subseteq Seq(B)
    BY <1>1, SeqGrows
  <2>2. [Name -> A \cup {Absent}] \subseteq [Name -> B \cup {Absent}]
    BY <1>1
  <2>3. [is : {"array"}, items : Seq(A)] \subseteq [is : {"array"}, items : Seq(B)]
    BY <2>1
  <2>4. /\ [is : {"object"}, members : [Name -> A \cup {Absent}]]
            \subseteq [is : {"object"}, members : [Name -> B \cup {Absent}]]
    BY <2>2
  <2> QED BY <2>3, <2>4 DEF ValueOver
<1> DEFINE Q == {n \in Nat : ValueTo[n] \subseteq ValueTo[n + 1]}
<1>2. ASSUME NEW n \in Nat, \A m \in Nat : m < n => m \in Q PROVE n \in Q
  <2>1. /\ ValueTo[n] = ValueOver(IF n = 0 THEN {} ELSE ValueTo[n - 1])
        /\ ValueTo[n + 1] = ValueOver(ValueTo[n])
    BY ValueLevels
  <2>2. (IF n = 0 THEN {} ELSE ValueTo[n - 1]) \subseteq ValueTo[n]
    <3>1. CASE n = 0
      BY <3>1
    <3>2. CASE n # 0
      <4>1. n - 1 \in Nat /\ n - 1 < n /\ (n - 1) + 1 = n
        BY <3>2
      <4>2. n - 1 \in Q
        BY <1>2, <4>1
      <4> QED BY <3>2, <4>1, <4>2
    <3> QED BY <3>1, <3>2
  <2> QED BY <1>1, <2>1, <2>2
<1>3. Q = Nat
  <2> HIDE DEF Q
  <2>1. Q \in SUBSET Nat
    BY DEF Q
  <2> QED BY <1>2, <2>1, Induction
<1> DEFINE P == {n \in Nat : \A m \in Nat : m <= n => ValueTo[m] \subseteq ValueTo[n]}
<1>4. ASSUME NEW n \in Nat, \A m \in Nat : m < n => m \in P PROVE n \in P
  <2> SUFFICES ASSUME NEW m \in Nat, m <= n PROVE ValueTo[m] \subseteq ValueTo[n]
    OBVIOUS
  <2>1. CASE m = n
    BY <2>1
  <2>2. CASE m < n
    <3>1. n - 1 \in Nat /\ n - 1 < n /\ (n - 1) + 1 = n /\ m <= n - 1
      BY <2>2
    <3>2. n - 1 \in P /\ n - 1 \in Q
      BY <1>3, <1>4, <3>1
    <3>3. ValueTo[m] \subseteq ValueTo[n - 1] /\ ValueTo[n - 1] \subseteq ValueTo[n]
      BY <3>1, <3>2
    <3> QED BY <3>3
  <2> QED BY <2>1, <2>2
<1>5. P = Nat
  <2> HIDE DEF P
  <2>1. P \in SUBSET Nat
    BY DEF P
  <2> QED BY <1>4, <2>1, Induction
<1> QED BY <1>5

\* What a value of each kind is made of.
ScalarKinds == {"null", "boolean", "number", "string"}

\* A value of a level is a scalar, an array or an object of the level below.
LEMMA LevelCases ==
  ASSUME NEW inner, NEW v \in ValueOver(inner)
  PROVE  \/ v.is \in ScalarKinds /\ v \in Scalar
         \/ v.is = "array" /\ v = List(v.items) /\ v.items \in Seq(inner)
         \/ /\ v.is = "object" /\ v = [is |-> "object", members |-> v.members]
            /\ v.members \in [Name -> inner \cup {Absent}]
<1>1. CASE v \in Scalar
  BY <1>1 DEF Scalar, Null, ScalarKinds
<1>2. CASE v \in [is : {"array"}, items : Seq(inner)]
  BY <1>2 DEF List
<1>3. CASE v \in [is : {"object"}, members : [Name -> inner \cup {Absent}]]
  BY <1>3
<1> QED BY <1>1, <1>2, <1>3 DEF ValueOver

\* The scalars, kind by kind.
LEMMA ScalarFacts ==
  ASSUME NEW v \in Scalar
  PROVE  /\ v.is = "null" => v = Null
         /\ v.is = "boolean" => v.truth \in BOOLEAN /\ v = Truth(v.truth)
         /\ v.is = "number" =>
              /\ v.amount \in Nat /\ v.written \in {"integer", "decimal"}
              /\ v = [is |-> "number", amount |-> v.amount, written |-> v.written]
         /\ v.is = "string" => v.text \in STRING /\ v = Text(v.text)
         /\ v.is \in ScalarKinds
BY DEF Scalar, Null, Truth, Text, ScalarKinds

AllKinds == {"absent", "null", "boolean", "number", "string", "array", "object"}

Below(n) == IF n = 0 THEN {} ELSE ValueTo[n - 1]

\* The parts of a value of a level are values of the level below.
LEMMA LevelParts ==
  ASSUME NEW n \in Nat, NEW v \in ValueTo[n]
  PROVE  /\ v.is \in AllKinds \ {"absent"}
         /\ v.is \in ScalarKinds => v \in Scalar
         /\ v.is = "array" => v = List(v.items) /\ v.items \in Seq(Below(n))
         /\ v.is = "object" =>
              /\ v = [is |-> "object", members |-> v.members]
              /\ v.members \in [Name -> Below(n) \cup {Absent}]
<1>1. v \in ValueOver(Below(n))
  BY ValueLevels DEF Below
<1>2. \/ v.is \in ScalarKinds /\ v \in Scalar
      \/ v.is = "array" /\ v = List(v.items) /\ v.items \in Seq(Below(n))
      \/ /\ v.is = "object" /\ v = [is |-> "object", members |-> v.members]
         /\ v.members \in [Name -> Below(n) \cup {Absent}]
  BY <1>1, LevelCases
<1> QED BY <1>2 DEF AllKinds, ScalarKinds

\* A value's height: the first level it is in.
Height(v) == CHOOSE n \in Nat : v \in ValueTo[n] /\ \A m \in Nat : v \in ValueTo[m] => n <= m

\* Each value has a first level it is in.
LEMMA HeightFacts ==
  ASSUME NEW n \in Nat, NEW v \in ValueTo[n]
  PROVE  Height(v) \in Nat /\ v \in ValueTo[Height(v)] /\ Height(v) <= n
<1> DEFINE S == {m \in Nat : v \notin ValueTo[m]}
<1>1. S # Nat
  OBVIOUS
<1>2. PICK k \in Nat : k \notin S /\ \A m \in Nat : m < k => m \in S
  <2>1. S \in SUBSET Nat
    OBVIOUS
  <2> HIDE DEF S
  <2> QED BY <1>1, <2>1, Induction
<1>3. v \in ValueTo[k] /\ \A m \in Nat : v \in ValueTo[m] => k <= m
  BY <1>2
<1>4. /\ Height(v) \in Nat /\ v \in ValueTo[Height(v)]
      /\ \A m \in Nat : v \in ValueTo[m] => Height(v) <= m
  BY <1>3 DEF Height
<1> QED BY <1>4

\* The rank of a value, by which its parts come before it.
valueRank == [v \in Value |-> IF v = Absent THEN 0 ELSE 1 + Height(v)]

\* What is absent is a value of its own, and no present value is it.
LEMMA AbsentFacts ==
  /\ Absent.is = "absent" /\ Absent \notin Present /\ Absent \in Value
  /\ \A v \in Value : v.is = "absent" <=> v = Absent
<1>1. Absent.is = "absent" /\ Absent \in Value
  BY DEF Absent, Value
<1>2. \A v \in Present : v.is # "absent"
  BY LevelParts, ShapesAssumption DEF Present
<1> QED BY <1>1, <1>2 DEF Value

\* The rank is a natural number: that of a present value follows its level.
LEMMA RankFacts ==
  /\ valueRank \in [Value -> Nat]
  /\ valueRank[Absent] = 0
  /\ \A v \in Present : valueRank[v] = 1 + Height(v) /\ v \in ValueTo[Height(v)]
                        /\ Height(v) \in 0..Depth
  /\ \A v \in Present, n \in Nat : v \in ValueTo[n] => Height(v) <= n
<1>1. ASSUME NEW v \in Present PROVE v \in ValueTo[Height(v)] /\ Height(v) \in 0..Depth
  <2>1. v \in ValueTo[Depth] /\ Depth \in Nat
    BY ShapesAssumption DEF Present
  <2>2. Height(v) \in Nat /\ v \in ValueTo[Height(v)] /\ Height(v) <= Depth
    BY <2>1, HeightFacts
  <2> QED BY <2>2
<1>2. \A v \in Present : v # Absent
  BY AbsentFacts
<1>3. \A v \in Value : v = Absent \/ v \in Present
  BY DEF Value
<1>4. \A v \in Present : v \in Value
  BY DEF Value
<1>5. valueRank[Absent] = 0
  BY AbsentFacts DEF valueRank
<1>6. \A v \in Present : valueRank[v] = 1 + Height(v)
  BY <1>2, <1>4 DEF valueRank
<1>7. valueRank \in [Value -> Nat]
  <2>1. \A v \in Value : (IF v = Absent THEN 0 ELSE 1 + Height(v)) \in Nat
    BY <1>1, <1>3
  <2> QED BY <2>1 DEF valueRank
<1> QED BY <1>1, <1>5, <1>6, <1>7, HeightFacts

\* What a value is made of, and that its parts come before it.
LEMMA ValueFacts ==
  ASSUME NEW v \in Value
  PROVE  /\ v.is \in AllKinds
         /\ v.is = "absent" <=> v = Absent
         /\ v # Absent => v \in Present
         /\ v.is \in ScalarKinds => v \in Scalar
         /\ v.is = "array" =>
              /\ v = List(v.items) /\ v.items \in Seq(Present)
              /\ \A i \in DOMAIN v.items :
                   /\ v.items[i] \in Value /\ v.items[i] # Absent
                   /\ valueRank[v.items[i]] < valueRank[v]
         /\ v.is = "object" =>
              /\ v = [is |-> "object", members |-> v.members]
              /\ v.members \in [Name -> Value]
              /\ \A n \in Name : valueRank[v.members[n]] < valueRank[v]
<1>1. CASE v = Absent
  BY <1>1, AbsentFacts DEF AllKinds, ScalarKinds
<1>2. CASE v # Absent
  <2> DEFINE k == Height(v)
  <2>0. v \in Present /\ Depth \in Nat
    BY <1>2, ShapesAssumption DEF Value
  <2>1. k \in 0..Depth /\ k \in Nat /\ v \in ValueTo[k] /\ valueRank[v] = 1 + k
    BY <2>0, RankFacts
  <2> HIDE DEF k
  <2>2. Below(k) \subseteq Present
    <3>1. CASE k = 0
      BY <3>1 DEF Below
    <3>2. CASE k # 0
      <4>1. k - 1 \in Nat /\ k - 1 <= Depth
        BY <2>0, <2>1, <3>2
      <4>2. ValueTo[k - 1] \subseteq ValueTo[Depth]
        BY <2>0, <4>1, ValueGrows
      <4> QED BY <3>2, <4>2 DEF Below, Present
    <3> QED BY <3>1, <3>2
  <2>3. ASSUME NEW w \in Below(k)
        PROVE  w \in Value /\ w # Absent /\ valueRank[w] < valueRank[v]
    <3>1. k # 0 /\ k - 1 \in Nat /\ w \in ValueTo[k - 1]
      BY <2>1, <2>3 DEF Below
    <3>2. w \in Present /\ w # Absent /\ w \in Value
      BY <2>2, <2>3, AbsentFacts DEF Value
    <3>3. valueRank[w] = 1 + Height(w) /\ Height(w) <= k - 1 /\ Height(w) \in 0..Depth
      BY <3>1, <3>2, RankFacts
    <3> QED BY <2>1, <3>1, <3>2, <3>3
  <2>4. valueRank[Absent] < valueRank[v] /\ Absent \in Value
    BY <2>1, RankFacts, AbsentFacts
  <2>5. /\ v.is \in AllKinds \ {"absent"}
        /\ v.is \in ScalarKinds => v \in Scalar
        /\ v.is = "array" => v = List(v.items) /\ v.items \in Seq(Below(k))
        /\ v.is = "object" =>
              /\ v = [is |-> "object", members |-> v.members]
              /\ v.members \in [Name -> Below(k) \cup {Absent}]
    BY <2>1, LevelParts
  <2>6. ASSUME v.is = "array"
        PROVE  /\ v.items \in Seq(Present)
               /\ \A i \in DOMAIN v.items :
                   /\ v.items[i] \in Value /\ v.items[i] # Absent
                   /\ valueRank[v.items[i]] < valueRank[v]
    <3>1. v.items \in Seq(Below(k))
      BY <2>5, <2>6
    <3>2. v.items \in Seq(Present)
      BY <2>2, <3>1, SeqGrows
    <3>3. \A i \in DOMAIN v.items : v.items[i] \in Below(k)
      BY <3>1
    <3> QED BY <2>3, <3>2, <3>3
  <2>7. ASSUME v.is = "object"
        PROVE  /\ v.members \in [Name -> Value]
               /\ \A n \in Name : valueRank[v.members[n]] < valueRank[v]
    <3>1. v.members \in [Name -> Below(k) \cup {Absent}]
      BY <2>5, <2>7
    <3>2. \A n \in Name : v.members[n] \in Below(k) \/ v.members[n] = Absent
      BY <3>1
    <3>3. \A n \in Name : v.members[n] \in Value /\ valueRank[v.members[n]] < valueRank[v]
      BY <2>3, <2>4, <3>2
    <3> QED BY <3>1, <3>3
  <2> QED BY <1>2, <2>0, <2>5, <2>6, <2>7
<1> QED BY <1>1, <1>2

\* Induction on values: a set that holds each value whose lower ones it holds is
\* all of them.
LEMMA ValueInduction ==
  ASSUME NEW S, \A v \in Value :
           (\A w \in Value : valueRank[w] < valueRank[v] => w \in S) => v \in S
  PROVE  Value \subseteq S
<1> DEFINE Q == {n \in Nat : \A v \in Value : valueRank[v] = n => v \in S}
<1>0. \A v \in Value : valueRank[v] \in Nat
  BY RankFacts
<1>1. ASSUME NEW n \in Nat, \A m \in Nat : m < n => m \in Q PROVE n \in Q
  <2> SUFFICES ASSUME NEW v \in Value, valueRank[v] = n PROVE v \in S
    OBVIOUS
  <2>1. ASSUME NEW w \in Value, valueRank[w] < valueRank[v] PROVE w \in S
    BY <1>0, <1>1, <2>1
  <2> QED BY <2>1
<1>2. Q = Nat
  <2> HIDE DEF Q
  <2>1. Q \in SUBSET Nat
    BY DEF Q
  <2> QED BY <1>1, <2>1, Induction
<1> QED BY <1>0, <1>2

\* The definition of equality has a solution.
LEMMA EqualityUnfolds ==
  /\ sameValue \in [Value \X Value -> BOOLEAN]
  /\ \A a, b \in Value : SameValue(a, b) <=> EqualNode(sameValue, a, b)
<1> DEFINE S == Value \X Value
           rank == [x \in S |-> valueRank[x[1]]]
           D == [f \in [S -> BOOLEAN] |-> [x \in S |-> EqualNode(f, x[1], x[2])]]
<1>1. rank \in [S -> Nat]
  BY RankFacts
<1>2. D \in [[S -> BOOLEAN] -> [S -> BOOLEAN]]
  BY DEF EqualNode
<1>3. ASSUME NEW f \in [S -> BOOLEAN], NEW g \in [S -> BOOLEAN], NEW x \in S,
             \A y \in S : rank[y] < rank[x] => f[y] = g[y]
      PROVE  D[f][x] = D[g][x]
  <2> DEFINE a == x[1]
             b == x[2]
  <2>0. a \in Value /\ b \in Value /\ rank[x] = valueRank[a]
    OBVIOUS
  <2>1. ASSUME NEW v \in Value, NEW w \in Value, valueRank[v] < valueRank[a]
        PROVE  f[<<v, w>>] = g[<<v, w>>]
    <3>1. <<v, w>> \in S /\ rank[<<v, w>>] = valueRank[v]
      OBVIOUS
    <3> QED BY <1>3, <2>0, <2>1, <3>1
  <2> HIDE DEF a, b
  <2>2. ASSUME a.is = b.is, a.is = "array", Len(a.items) = Len(b.items)
        PROVE  \A i \in DOMAIN a.items : f[<<a.items[i], b.items[i]>>] = g[<<a.items[i], b.items[i]>>]
    <3>1. a.items \in Seq(Present) /\ b.items \in Seq(Present)
      BY <2>0, <2>2, ValueFacts
    <3>2. DOMAIN a.items = DOMAIN b.items
      BY <2>2, <3>1
    <3> SUFFICES ASSUME NEW i \in DOMAIN a.items
                 PROVE  f[<<a.items[i], b.items[i]>>] = g[<<a.items[i], b.items[i]>>]
      OBVIOUS
    <3>3. a.items[i] \in Value /\ valueRank[a.items[i]] < valueRank[a]
      BY <2>0, <2>2, ValueFacts
    <3>4. b.items[i] \in Value
      BY <2>0, <2>2, <3>2, ValueFacts
    <3> QED BY <2>1, <3>3, <3>4
  <2>3. ASSUME a.is = b.is, a.is = "object"
        PROVE  \A n \in Name : f[<<a.members[n], b.members[n]>>] = g[<<a.members[n], b.members[n]>>]
    <3>1. \A n \in Name : a.members[n] \in Value /\ valueRank[a.members[n]] < valueRank[a]
      BY <2>0, <2>3, ValueFacts
    <3>2. \A n \in Name : b.members[n] \in Value
      BY <2>0, <2>3, ValueFacts
    <3> QED BY <2>1, <3>1, <3>2
  <2>4. EqualNode(f, a, b) <=> EqualNode(g, a, b)
    BY <2>2, <2>3 DEF EqualNode
  <2>5. EqualNode(f, a, b) = EqualNode(g, a, b)
    BY <2>4 DEF EqualNode
  <2> QED BY <2>5 DEF a, b
<1> HIDE DEF S, rank, D
<1>4. Recurs(S, BOOLEAN, rank, D)
  BY <1>1, <1>2, <1>3 DEF Recurs
<1>5. PICK f \in [S -> BOOLEAN] : f = D[f]
  BY <1>4, Recursion
<1>6. f = [x \in S |-> EqualNode(f, x[1], x[2])]
  BY <1>5 DEF D
<1>7. sameValue = [x \in S |-> EqualNode(sameValue, x[1], x[2])]
  BY <1>6 DEF sameValue, S
<1>8. \A a, b \in Value : SameValue(a, b) = EqualNode(sameValue, a, b)
  BY <1>7 DEF SameValue, S
<1>9. sameValue \in [S -> BOOLEAN]
  <2>1. \A x \in S : EqualNode(sameValue, x[1], x[2]) \in BOOLEAN
    BY DEF EqualNode
  <2> HIDE DEF S
  <2> QED BY <1>7, <2>1
<1> QED BY <1>8, <1>9 DEF S

-----------------------------------------------------------------------------
\* Equality of values.

\* What is equal has the same kind; what is absent, null, a truth or a text is
\* equal to itself alone.
LEMMA EqualKinds ==
  ASSUME NEW a \in Value, NEW b \in Value, SameValue(a, b)
  PROVE  /\ a.is = b.is
         /\ a.is = "number" => a.amount = b.amount
         /\ a.is \notin {"number", "array", "object"} => a = b
         /\ a.is = "array" =>
              /\ a.items \in Seq(Present) /\ b.items \in Seq(Present)
              /\ Len(a.items) = Len(b.items) /\ DOMAIN a.items = DOMAIN b.items
              /\ \A i \in DOMAIN a.items :
                   /\ a.items[i] \in Value /\ b.items[i] \in Value
                   /\ SameValue(a.items[i], b.items[i])
         /\ a.is = "object" =>
              \A n \in Name : /\ a.members[n] \in Value /\ b.members[n] \in Value
                              /\ SameValue(a.members[n], b.members[n])
<1>1. EqualNode(sameValue, a, b)
  BY EqualityUnfolds
<1>2. ASSUME a.is = "array"
      PROVE  /\ a.items \in Seq(Present) /\ b.items \in Seq(Present)
              /\ Len(a.items) = Len(b.items) /\ DOMAIN a.items = DOMAIN b.items
              /\ \A i \in DOMAIN a.items :
                   /\ a.items[i] \in Value /\ b.items[i] \in Value
                   /\ SameValue(a.items[i], b.items[i])
  <2>1. b.is = "array" /\ Len(a.items) = Len(b.items)
        /\ \A i \in DOMAIN a.items : SameValue(a.items[i], b.items[i])
    BY <1>1, <1>2 DEF EqualNode, SameValue
  <2>2. a.items \in Seq(Present) /\ b.items \in Seq(Present)
    BY <1>2, <2>1, ValueFacts
  <2>3. DOMAIN a.items = DOMAIN b.items
    BY <2>1, <2>2
  <2>4. \A i \in DOMAIN a.items : a.items[i] \in Value
    BY <1>2, ValueFacts
  <2>5. \A i \in DOMAIN b.items : b.items[i] \in Value
    BY <2>1, ValueFacts
  <2> QED BY <2>1, <2>2, <2>3, <2>4, <2>5
<1>3. ASSUME a.is = "object", NEW n \in Name
      PROVE  /\ a.members[n] \in Value /\ b.members[n] \in Value
             /\ SameValue(a.members[n], b.members[n])
  <2>1. b.is = "object" /\ SameValue(a.members[n], b.members[n])
    BY <1>1, <1>3 DEF EqualNode, SameValue
  <2>2. a.members \in [Name -> Value] /\ b.members \in [Name -> Value]
    BY <1>3, <2>1, ValueFacts
  <2> QED BY <2>1, <2>2
<1> QED BY <1>1, <1>2, <1>3 DEF EqualNode

\* And the other way round.
LEMMA EqualIntro ==
  ASSUME NEW a \in Value, NEW b \in Value, a.is = b.is,
         a.is = "number" => a.amount = b.amount,
         a.is \notin {"number", "array", "object"} => a = b,
         a.is = "array" => Len(a.items) = Len(b.items),
         a.is = "array" => \A i \in DOMAIN a.items : SameValue(a.items[i], b.items[i]),
         a.is = "object" => \A n \in Name : SameValue(a.members[n], b.members[n])
  PROVE  SameValue(a, b)
BY EqualityUnfolds DEF EqualNode, SameValue

\* A value equals itself.
LEMMA EqualReflexive ==
  \A v \in Value : SameValue(v, v)
<1> DEFINE S == {v \in Value : SameValue(v, v)}
<1>1. ASSUME NEW v \in Value, \A w \in Value : valueRank[w] < valueRank[v] => w \in S
      PROVE  v \in S
  <2>1. v.is = "array" => \A i \in DOMAIN v.items : SameValue(v.items[i], v.items[i])
    BY <1>1, ValueFacts
  <2>2. v.is = "object" => \A n \in Name : SameValue(v.members[n], v.members[n])
    BY <1>1, ValueFacts
  <2> QED BY <2>1, <2>2, EqualIntro
<1>2. Value \subseteq S
  <2> HIDE DEF S
  <2> QED BY <1>1, ValueInduction
<1> QED BY <1>2

\* Equality goes both ways.
LEMMA EqualSymmetric ==
  \A v, w \in Value : SameValue(v, w) => SameValue(w, v)
<1> DEFINE S == {v \in Value : \A w \in Value : SameValue(v, w) => SameValue(w, v)}
<1>1. ASSUME NEW v \in Value, \A u \in Value : valueRank[u] < valueRank[v] => u \in S
      PROVE  v \in S
  <2> SUFFICES ASSUME NEW w \in Value, SameValue(v, w) PROVE SameValue(w, v)
    OBVIOUS
  <2>1. ASSUME w.is = "array"
        PROVE  Len(w.items) = Len(v.items)
               /\ \A i \in DOMAIN w.items : SameValue(w.items[i], v.items[i])
    BY <1>1, <2>1, EqualKinds, ValueFacts
  <2>2. ASSUME w.is = "object" PROVE \A n \in Name : SameValue(w.members[n], v.members[n])
    BY <1>1, <2>2, EqualKinds, ValueFacts
  <2>3. /\ w.is = v.is
        /\ w.is = "number" => w.amount = v.amount
        /\ w.is \notin {"number", "array", "object"} => w = v
    BY EqualKinds
  <2> QED BY <2>1, <2>2, <2>3, EqualIntro
<1>2. Value \subseteq S
  <2> HIDE DEF S
  <2> QED BY <1>1, ValueInduction
<1> QED BY <1>2

\* Equality carries over.
LEMMA EqualTransitive ==
  \A u, v, w \in Value : SameValue(u, v) /\ SameValue(v, w) => SameValue(u, w)
<1> DEFINE S == {u \in Value : \A v, w \in Value :
                   SameValue(u, v) /\ SameValue(v, w) => SameValue(u, w)}
<1>1. ASSUME NEW u \in Value, \A x \in Value : valueRank[x] < valueRank[u] => x \in S
      PROVE  u \in S
  <2> SUFFICES ASSUME NEW v \in Value, NEW w \in Value, SameValue(u, v), SameValue(v, w)
               PROVE SameValue(u, w)
    OBVIOUS
  <2>0. u.is = v.is /\ v.is = w.is
    BY EqualKinds
  <2>1. ASSUME u.is = "array"
        PROVE  Len(u.items) = Len(w.items)
               /\ \A i \in DOMAIN u.items : SameValue(u.items[i], w.items[i])
    <3>1. /\ Len(u.items) = Len(v.items) /\ DOMAIN u.items = DOMAIN v.items
          /\ \A i \in DOMAIN u.items :
                   /\ u.items[i] \in Value /\ v.items[i] \in Value
                   /\ SameValue(u.items[i], v.items[i])
      BY <2>1, EqualKinds
    <3>2. /\ Len(v.items) = Len(w.items)
          /\ \A i \in DOMAIN v.items :
                   /\ w.items[i] \in Value /\ SameValue(v.items[i], w.items[i])
      BY <2>0, <2>1, EqualKinds
    <3>3. \A i \in DOMAIN u.items : u.items[i] \in S
      BY <1>1, <2>1, ValueFacts
    <3> QED BY <3>1, <3>2, <3>3
  <2>2. ASSUME u.is = "object", NEW n \in Name PROVE SameValue(u.members[n], w.members[n])
    <3>1. /\ u.members[n] \in Value /\ v.members[n] \in Value
          /\ SameValue(u.members[n], v.members[n])
      BY <2>2, EqualKinds
    <3>2. w.members[n] \in Value /\ SameValue(v.members[n], w.members[n])
      BY <2>0, <2>2, EqualKinds
    <3>3. u.members[n] \in S
      BY <1>1, <2>2, <3>1, ValueFacts
    <3> QED BY <3>1, <3>2, <3>3
  <2>3. /\ u.is = w.is
        /\ u.is = "number" => u.amount = w.amount
        /\ u.is \notin {"number", "array", "object"} => u = w
    BY <2>0, EqualKinds
  <2> QED BY <2>1, <2>2, <2>3, EqualIntro
<1>2. Value \subseteq S
  <2> HIDE DEF S
  <2> QED BY <1>1, ValueInduction
<1> QED BY <1>2

\* Values have a depth.
LEMMA DepthIsNat == Depth \in Nat
BY ShapesAssumption

\* What is below a level is on the level before it.
LEMMA BelowFacts ==
  ASSUME NEW n \in Nat, n <= Depth, NEW x \in Below(n)
  PROVE  n # 0 /\ n - 1 \in Nat /\ n - 1 < n /\ n - 1 <= Depth /\ x \in ValueTo[n - 1]
<1>1. n # 0 /\ x \in ValueTo[n - 1]
  BY DEF Below
<1>2. n - 1 \in Nat /\ n - 1 < n /\ n - 1 <= Depth
  BY <1>1, DepthIsNat
<1> QED BY <1>1, <1>2

\* A present value is on the level of its height.
LEMMA OwnLevel ==
  ASSUME NEW v \in Present
  PROVE  Height(v) \in Nat /\ Height(v) <= Depth /\ v \in ValueTo[Height(v)]
<1>1. v \in ValueTo[Height(v)] /\ Height(v) \in 0..Depth
  BY RankFacts
<1> QED BY <1>1, DepthIsNat

\* What a value of a level may be put together of.
LEMMA LevelIntro ==
  ASSUME NEW n \in Nat
  PROVE  /\ Scalar \subseteq ValueTo[n]
         /\ \A items \in Seq(Below(n)) : List(items) \in ValueTo[n]
         /\ \A members \in [Name -> Below(n) \cup {Absent}] :
              [is |-> "object", members |-> members] \in ValueTo[n]
<1>1. ValueTo[n] = ValueOver(Below(n))
  BY ValueLevels DEF Below
<1>2. \A items \in Seq(Below(n)) : List(items) \in ValueOver(Below(n))
  BY DEF ValueOver, List
<1>3. \A members \in [Name -> Below(n) \cup {Absent}] :
        [is |-> "object", members |-> members] \in ValueOver(Below(n))
  BY DEF ValueOver
<1> QED BY <1>1, <1>2, <1>3 DEF ValueOver

\* Scalars are present, and what is present is a value.
LEMMA ScalarsPresent ==
  Scalar \subseteq Present /\ Present \subseteq Value /\ Scalar \subseteq Value
BY LevelIntro, ShapesAssumption DEF Present, Value

\* What is equal to a value is as deep.
LEMMA EqualLevel ==
  \A n \in Nat : \A v \in ValueTo[n], w \in Value : 
    n <= Depth /\ SameValue(v, w) => w \in ValueTo[n]
<1> DEFINE Q == {n \in Nat : \A v \in ValueTo[n], w \in Value : 
                   n <= Depth /\ SameValue(v, w) => w \in ValueTo[n]}
<1>1. ASSUME NEW n \in Nat, \A m \in Nat : m < n => m \in Q PROVE n \in Q
  <2> SUFFICES ASSUME NEW v \in ValueTo[n], NEW w \in Value, n <= Depth, SameValue(v, w)
               PROVE  w \in ValueTo[n]
    OBVIOUS
  <2>0. v \in Value /\ v # Absent
    <3>1. ValueTo[n] \subseteq Present
      BY ValueGrows, DepthIsNat DEF Present
    <3> QED BY <3>1, AbsentFacts DEF Value
  <2>1. ASSUME NEW x \in Below(n), NEW y \in Value, SameValue(x, y) PROVE y \in Below(n)
    <3>1. n # 0 /\ n - 1 \in Nat /\ n - 1 < n /\ x \in ValueTo[n - 1] /\ n - 1 <= Depth
      BY <2>1, BelowFacts
    <3>2. n - 1 \in Q
      BY <1>1, <3>1
    <3> QED BY <2>1, <3>1, <3>2 DEF Below
  <2>2. /\ v.is \in AllKinds \ {"absent"}
        /\ v.is \in ScalarKinds => v \in Scalar
        /\ v.is = "array" => v = List(v.items) /\ v.items \in Seq(Below(n))
        /\ v.is = "object" =>
              /\ v = [is |-> "object", members |-> v.members]
              /\ v.members \in [Name -> Below(n) \cup {Absent}]
    BY LevelParts
  <2>3. w.is = v.is
    BY <2>0, EqualKinds
  <2>4. CASE v.is \in ScalarKinds
    BY <2>3, <2>4, ValueFacts, LevelIntro
  <2>5. CASE v.is = "array"
    <3>1. /\ w.items \in Seq(Present) /\ DOMAIN v.items = DOMAIN w.items
          /\ \A i \in DOMAIN v.items : w.items[i] \in Value /\ SameValue(v.items[i], w.items[i])
      BY <2>0, <2>5, EqualKinds
    <3>2. \A i \in DOMAIN v.items : v.items[i] \in Below(n)
      BY <2>2, <2>5
    <3>3. \A i \in DOMAIN w.items : w.items[i] \in Below(n)
      BY <2>1, <3>1, <3>2
    <3>4. w.items \in Seq(Below(n))
      BY <3>1, <3>3
    <3>5. w = List(w.items)
      BY <2>3, <2>5, ValueFacts
    <3> QED BY <3>4, <3>5, LevelIntro
  <2>6. CASE v.is = "object"
    <3>1. \A i \in Name : w.members[i] \in Value /\ SameValue(v.members[i], w.members[i])
                          /\ v.members[i] \in Value
      BY <2>0, <2>6, EqualKinds
    <3>2. \A i \in Name : v.members[i] \in Below(n) \/ v.members[i] = Absent
      BY <2>2, <2>6
    <3>3. ASSUME NEW i \in Name PROVE w.members[i] \in Below(n) \cup {Absent}
      <4>1. CASE v.members[i] \in Below(n)
        BY <2>1, <3>1, <4>1
      <4>2. CASE v.members[i] = Absent
        <5>1. v.members[i].is = w.members[i].is
          BY <3>1, EqualKinds
        <5> QED BY <3>1, <4>2, <5>1, AbsentFacts
      <4> QED BY <3>2, <4>1, <4>2
    <3>4. w = [is |-> "object", members |-> w.members] /\ w.members \in [Name -> Value]
      BY <2>3, <2>6, ValueFacts
    <3>5. w.members \in [Name -> Below(n) \cup {Absent}]
      BY <3>3, <3>4
    <3> QED BY <3>4, <3>5, LevelIntro
  <2> QED BY <2>2, <2>4, <2>5, <2>6 DEF AllKinds, ScalarKinds
<1>2. Q = Nat
  <2> HIDE DEF Q
  <2>1. Q \in SUBSET Nat
    BY DEF Q
  <2> QED BY <1>1, <2>1, Induction
<1> QED BY <1>2

\* A list or an object made anew of what is equal to each part is a value equal to
\* the whole.
LEMMA ListAnew ==
  ASSUME NEW v \in Value, v.is = "array", NEW items, items \in Seq(Value),
         Len(items) = Len(v.items),
         \A i \in DOMAIN v.items : SameValue(v.items[i], items[i])
  PROVE  List(items) \in Value /\ SameValue(v, List(items))
<1> DEFINE k == Height(v)
<1>1. v \in Present /\ v # Absent /\ v.items \in Seq(Present)
  BY ValueFacts, AbsentFacts
<1>2. k \in Nat /\ k <= Depth /\ v \in ValueTo[k]
  BY <1>1, OwnLevel
<1>3. v.items \in Seq(Below(k))
  BY <1>2, LevelParts
<1> HIDE DEF k
<1>4. DOMAIN items = DOMAIN v.items
  BY <1>1
<1>5. ASSUME NEW i \in DOMAIN items PROVE items[i] \in Below(k)
  <2>1. v.items[i] \in Below(k) /\ items[i] \in Value /\ SameValue(v.items[i], items[i])
    BY <1>3, <1>4, <1>5
  <2>2. k # 0 /\ k - 1 \in Nat /\ k - 1 <= Depth /\ v.items[i] \in ValueTo[k - 1]
    BY <1>2, <2>1, BelowFacts
  <2> QED BY <2>1, <2>2, EqualLevel DEF Below
<1>6. items \in Seq(Below(k))
  BY <1>5
<1>7. List(items) \in Value
  <2>1. List(items) \in ValueTo[k]
    BY <1>2, <1>6, LevelIntro
  <2>2. ValueTo[k] \subseteq Present
    BY <1>2, ValueGrows, DepthIsNat DEF Present
  <2> QED BY <2>1, <2>2 DEF Value
<1>8. List(items).is = "array" /\ List(items).items = items
  BY DEF List
<1> QED BY <1>7, <1>8, EqualIntro

\* An object with equal members in the place of its own is an equal value.
LEMMA ObjectAnew ==
  ASSUME NEW v \in Value, v.is = "object", NEW members, members \in [Name -> Value],
         \A n \in Name : SameValue(v.members[n], members[n])
  PROVE  /\ [is |-> "object", members |-> members] \in Value
         /\ SameValue(v, [is |-> "object", members |-> members])
<1> DEFINE k == Height(v)
           w == [is |-> "object", members |-> members]
<1>1. v \in Present /\ v # Absent /\ v.members \in [Name -> Value]
  BY ValueFacts, AbsentFacts
<1>2. k \in Nat /\ k <= Depth /\ v \in ValueTo[k]
  BY <1>1, OwnLevel
<1>3. v.members \in [Name -> Below(k) \cup {Absent}]
  BY <1>2, LevelParts
<1> HIDE DEF k
<1>5. ASSUME NEW i \in Name PROVE members[i] \in Below(k) \cup {Absent}
  <2>1. v.members[i] \in Below(k) \cup {Absent} /\ members[i] \in Value /\ SameValue(v.members[i], members[i])
        /\ v.members[i] \in Value
    BY <1>1, <1>3, <1>5
  <2>2. CASE v.members[i] \in Below(k)
    <3>1. k # 0 /\ k - 1 \in Nat /\ k - 1 <= Depth /\ v.members[i] \in ValueTo[k - 1]
      BY <1>2, <2>2, BelowFacts
    <3> QED BY <2>1, <3>1, EqualLevel DEF Below
  <2>3. CASE v.members[i] = Absent
    <3>1. v.members[i].is = members[i].is
      BY <2>1, EqualKinds
    <3> QED BY <2>1, <2>3, <3>1, AbsentFacts
  <2> QED BY <2>1, <2>2, <2>3
<1>6. members \in [Name -> Below(k) \cup {Absent}]
  BY <1>5
<1>7. w \in Value
  <2>1. w \in ValueTo[k]
    BY <1>2, <1>6, LevelIntro
  <2>2. ValueTo[k] \subseteq Present
    BY <1>2, ValueGrows, DepthIsNat DEF Present
  <2> QED BY <2>1, <2>2 DEF Value
<1>8. w.is = "object" /\ w.members = members
  OBVIOUS
<1> HIDE DEF w
<1>9. SameValue(v, w)
  BY <1>7, <1>8, EqualIntro
<1> QED BY <1>7, <1>9 DEF w

-----------------------------------------------------------------------------
\* The ways to write a value are the values equal to it.

\* Parts that are each in a set make a family of it.
LEMMA PartsTogether ==
  ASSUME NEW S, NEW w, NEW K, K \subseteq DOMAIN w, \A i \in K : w[i] \in S
  PROVE  [i \in K |-> w[i]] \in [K -> S]
OBVIOUS

\* Spelling a value's parts in every way gives the values equal to it.
LEMMA SpellingsStep ==
  ASSUME NEW v \in Value, NEW f, \A u \in Value : valueRank[u] < valueRank[v] => 
                                   f[u] = {w \in Value : SameValue(u, w)}
  PROVE  SpellingsNode(f, v) = {w \in Value : SameValue(v, w)}
<1> DEFINE Same(u) == {w \in Value : SameValue(u, w)}
<1>1. CASE v.is = "number"
  <2>0. v \in Scalar
    BY <1>1, ValueFacts DEF ScalarKinds
  <2>1. v.amount \in Nat
    BY <1>1, <2>0, ScalarFacts
  <2>2. Integer(v.amount) \in Scalar /\ Decimal(v.amount) \in Scalar
    BY <2>1 DEF Integer, Decimal, Scalar
  <2>3. /\ Integer(v.amount) \in Value /\ Integer(v.amount).is = "number"
        /\ Integer(v.amount).amount = v.amount
        /\ Decimal(v.amount) \in Value /\ Decimal(v.amount).is = "number"
        /\ Decimal(v.amount).amount = v.amount
    BY <2>2, ScalarsPresent DEF Integer, Decimal
  <2>4. SameValue(v, Integer(v.amount)) /\ SameValue(v, Decimal(v.amount))
    BY <1>1, <2>3, EqualIntro
  <2>5. ASSUME NEW w \in Value, SameValue(v, w)
        PROVE  w \in {Integer(v.amount), Decimal(v.amount)}
    <3>1. w.is = "number" /\ w.amount = v.amount
      BY <1>1, <2>5, EqualKinds
    <3>2. w \in Scalar
      BY <3>1, ValueFacts DEF ScalarKinds
    <3>3. /\ w.written \in {"integer", "decimal"}
          /\ w = [is |-> "number", amount |-> w.amount, written |-> w.written]
      BY <3>1, <3>2, ScalarFacts
    <3>4. w = [is |-> "number", amount |-> v.amount, written |-> w.written]
      BY <3>1, <3>3
    <3> QED BY <3>3, <3>4 DEF Integer, Decimal
  <2>6. {Integer(v.amount), Decimal(v.amount)} = Same(v)
    BY <2>3, <2>4, <2>5
  <2> QED BY <1>1, <2>6 DEF SpellingsNode
<1>2. CASE v.is = "array"
  <2> DEFINE I == DOMAIN v.items
             all == UNION {f[v.items[i]] : i \in I}
             Ways == {g \in [I -> all] : \A i \in I : g[i] \in f[v.items[i]]}
  <2>1. /\ v.items \in Seq(Present)
        /\ \A i \in I : v.items[i] \in Value /\ f[v.items[i]] = Same(v.items[i])
    BY <1>2, ValueFacts
  <2>2. ASSUME NEW g \in Ways PROVE List(g) \in Same(v)
    <3>1. I = 1..Len(v.items) /\ Len(v.items) \in Nat
      BY <2>1
    <3>2. \A i \in I : g[i] \in Value /\ SameValue(v.items[i], g[i])
      BY <2>1, <2>2
    <3>3. g \in [1..Len(v.items) -> Value]
      BY <2>2, <3>1, <3>2
    <3>4. g \in Seq(Value) /\ Len(g) = Len(v.items)
      BY <3>1, <3>3
    <3> QED BY <1>2, <3>2, <3>4, ListAnew
  <2>3. ASSUME NEW w \in Same(v) PROVE w.items \in Ways /\ w = List(w.items)
    <3>1. /\ w.is = "array" /\ w.items \in Seq(Present) /\ DOMAIN w.items = I
          /\ \A i \in I : w.items[i] \in Same(v.items[i])
      BY <1>2, <2>3, EqualKinds
    <3>2. \A i \in I : w.items[i] \in f[v.items[i]]
      BY <2>1, <3>1
    <3>3. \A i \in I : w.items[i] \in all
      BY <3>2
    <3>4. w.items = [i \in I |-> w.items[i]]
      BY <3>1
    <3>5. w.items \in [I -> all]
      <4> HIDE DEF all
      <4> QED BY <3>3, <3>4
    <3>6. w = List(w.items)
      BY <3>1, <2>3, ValueFacts
    <3> QED BY <3>2, <3>5, <3>6
  <2>4. {List(items) : items \in Ways} = Same(v)
    <3> HIDE DEF Ways, Same
    <3> QED BY <2>2, <2>3
  <2> QED BY <1>2, <2>4 DEF SpellingsNode
<1>3. CASE v.is = "object"
  <2> DEFINE I == MemberNames(v)
             all == UNION {f[v.members[i]] : i \in I}
             Ways == {g \in [I -> all] : \A i \in I : g[i] \in f[v.members[i]]}
  <2>1. /\ v.members \in [Name -> Value]
        /\ I \subseteq Name
        /\ \A i \in I : v.members[i] \in Value /\ f[v.members[i]] = Same(v.members[i])
        /\ \A i \in Name : i \notin I => v.members[i] = Absent
    BY <1>3, ValueFacts DEF MemberNames
  <2>2. ASSUME NEW g \in Ways PROVE Document(g) \in Same(v)
    <3> DEFINE m == [n \in Name |-> IF n \in DOMAIN g THEN g[n] ELSE Absent]
    <3>1. DOMAIN g = I
      OBVIOUS
    <3>2. \A i \in I : g[i] \in Value /\ SameValue(v.members[i], g[i])
      BY <2>1, <2>2
    <3>3. SameValue(Absent, Absent) /\ Absent \in Value
      BY EqualReflexive, AbsentFacts
    <3>4. \A n \in Name : m[n] \in Value /\ SameValue(v.members[n], m[n])
      BY <2>1, <3>1, <3>2, <3>3
    <3>5. m \in [Name -> Value]
      BY <3>4
    <3>6. Document(g) = [is |-> "object", members |-> m]
      <4>1. Name \cup DOMAIN g = Name
        BY <2>1, <3>1
      <4> QED BY <4>1 DEF Document
    <3> HIDE DEF m
    <3> QED BY <1>3, <3>4, <3>5, <3>6, ObjectAnew
  <2>3. ASSUME NEW w \in Same(v)
        PROVE  \E g \in Ways : w = Document(g)
    <3> DEFINE g == [i \in I |-> w.members[i]]
    <3>1. /\ w.is = "object"
          /\ \A n \in Name : v.members[n] \in Value /\ w.members[n] \in Value
                              /\ SameValue(v.members[n], w.members[n])
      BY <1>3, <2>3, EqualKinds
    <3>2. w = [is |-> "object", members |-> w.members] /\ w.members \in [Name -> Value]
      BY <2>3, <3>1, ValueFacts
    <3>3. \A i \in I : w.members[i] \in f[v.members[i]]
      BY <2>1, <3>1
    <3>4. \A i \in I : w.members[i] \in all
      BY <3>3
    <3>5. g \in [I -> all]
      <4> HIDE DEF all
      <4> QED BY <3>4
    <3>6. g \in Ways
      BY <3>3, <3>5
    <3>7. ASSUME NEW n \in Name, n \notin I PROVE w.members[n] = Absent
      <4>1. v.members[n] = Absent
        BY <2>1, <3>7
      <4>2. SameValue(v.members[n], w.members[n]) /\ v.members[n] \in Value /\ w.members[n] \in Value
        BY <3>1
      <4>3. v.members[n].is = w.members[n].is
        BY <4>2, EqualKinds
      <4> QED BY <4>1, <4>2, <4>3, AbsentFacts
    <3>8. \A n \in Name : (IF n \in DOMAIN g THEN g[n] ELSE Absent) = w.members[n]
      BY <3>7
    <3>9. [n \in Name |-> IF n \in DOMAIN g THEN g[n] ELSE Absent] = w.members
      <4> HIDE DEF g
      <4> QED BY <3>2, <3>8
    <3> HIDE DEF g, Ways
    <3>10. w = Document(g)
      <4>1. Name \cup DOMAIN g = Name
        BY <2>1 DEF g
      <4> QED BY <3>2, <3>9, <4>1 DEF Document
    <3> QED BY <3>6, <3>10
  <2>4. {Document(members) : members \in Ways} = Same(v)
    <3> HIDE DEF Ways, Same
    <3> QED BY <2>2, <2>3
  <2> QED BY <1>3, <2>4 DEF SpellingsNode
<1>4. CASE v.is \notin {"number", "array", "object"}
  <2>1. ASSUME NEW w \in Value, SameValue(v, w) PROVE w = v
    BY <1>4, <2>1, EqualKinds
  <2>2. SameValue(v, v)
    BY EqualReflexive
  <2>3. {v} = Same(v)
    BY <2>1, <2>2
  <2> QED BY <1>4, <2>3 DEF SpellingsNode
<1> QED BY <1>1, <1>2, <1>3, <1>4

\* The spellings of a value are the values equal to it.
LEMMA SpellingsAreEqual ==
  \A v \in Value : spellings[v] = {w \in Value : SameValue(v, w)}
<1> DEFINE Same(u) == {w \in Value : SameValue(u, w)}
           h == [v \in Value |-> Same(v)]
<1>1. \A v \in Value : h[v] = SpellingsNode(h, v)
  <2>1. \A v \in Value : h[v] = Same(v)
    OBVIOUS
  <2> HIDE DEF h
  <2> QED BY <2>1, SpellingsStep
<1>2. h = [v \in Value |-> SpellingsNode(h, v)]
  <2>1. h = [v \in Value |-> h[v]]
    OBVIOUS
  <2> HIDE DEF h
  <2> QED BY <1>1, <2>1
<1>3. spellings = [v \in Value |-> SpellingsNode(spellings, v)]
  <2> HIDE DEF h
  <2> QED BY <1>2 DEF spellings
<1> DEFINE S == {v \in Value : spellings[v] = Same(v)}
<1>4. ASSUME NEW v \in Value, \A u \in Value : valueRank[u] < valueRank[v] => u \in S
      PROVE  v \in S
  <2>1. SpellingsNode(spellings, v) = Same(v)
    BY <1>4, SpellingsStep
  <2> QED BY <1>3, <2>1
<1>5. Value \subseteq S
  <2> HIDE DEF S
  <2> QED BY <1>4, ValueInduction
<1> QED BY <1>5

\* Whether no regex reads a value otherwise is decided as UnreadNode says.
LEMMA UnreadUnfolds ==
  \A v \in Value : unread[v] = UnreadNode(unread, v)
<1> DEFINE D == [f \in [Value -> BOOLEAN] |-> [v \in Value |-> UnreadNode(f, v)]]
<1>1. D \in [[Value -> BOOLEAN] -> [Value -> BOOLEAN]]
  BY DEF UnreadNode
<1>2. ASSUME NEW f \in [Value -> BOOLEAN], NEW g \in [Value -> BOOLEAN], NEW v \in Value,
             \A w \in Value : valueRank[w] < valueRank[v] => f[w] = g[w]
      PROVE  D[f][v] = D[g][v]
  <2>1. ASSUME v.is = "array"
        PROVE  \A i \in DOMAIN v.items : f[v.items[i]] = g[v.items[i]]
    BY <1>2, <2>1, ValueFacts
  <2>2. ASSUME v.is = "object" PROVE \A n \in Name : f[v.members[n]] = g[v.members[n]]
    BY <1>2, <2>2, ValueFacts
  <2>3. UnreadNode(f, v) <=> UnreadNode(g, v)
    BY <2>1, <2>2 DEF UnreadNode
  <2>4. UnreadNode(f, v) = UnreadNode(g, v)
    BY <2>3 DEF UnreadNode
  <2> QED BY <2>4
<1> HIDE DEF D
<1>3. Recurs(Value, BOOLEAN, valueRank, D)
  BY <1>1, <1>2, RankFacts DEF Recurs
<1>4. PICK f \in [Value -> BOOLEAN] : f = D[f]
  BY <1>3, Recursion
<1>5. f = [v \in Value |-> UnreadNode(f, v)]
  BY <1>4 DEF D
<1>6. unread = [v \in Value |-> UnreadNode(unread, v)]
  BY <1>5 DEF unread
<1> QED BY <1>6

\* What no regex reads otherwise has parts that none does.
LEMMA UnreadFacts ==
  ASSUME NEW v \in Value, unread[v]
  PROVE  /\ v.is \in {"number", "boolean"} =>
               \A o \in DOMAIN Language : o[1] = "regex" => Written(v) \notin Language[o]
         /\ v.is = "array" => \A i \in DOMAIN v.items : unread[v.items[i]]
         /\ v.is = "object" => \A n \in Name : unread[v.members[n]]
<1>1. UnreadNode(unread, v)
  BY UnreadUnfolds
<1> QED BY <1>1 DEF UnreadNode

\* The text of a name is a value, and no regex reads it otherwise than as text.
LEMMA TextFacts ==
  ASSUME NEW n \in Name
  PROVE  Text(n) \in Value /\ Text(n).is = "string" /\ Text(n) # Absent /\ unread[Text(n)]
<1>1. n \in STRING
  BY ShapesAssumption
<1>2. Text(n) \in Value /\ Text(n).is = "string"
  BY <1>1, ScalarsPresent DEF Scalar, Text
<1>3. UnreadNode(unread, Text(n))
  BY <1>2 DEF UnreadNode
<1>4. Text(n) # Absent
  BY <1>2, AbsentFacts
<1> QED BY <1>2, <1>3, <1>4, UnreadUnfolds

-----------------------------------------------------------------------------
\* Shapes, level by level.

\* The shapes of a level are those over the level below.
ShapeStage(n, f) == f = [m \in 0..n |-> ShapeOver(IF m = 0 THEN {} ELSE f[m - 1])]

\* There is a function to every level of shapes, and they agree.
LEMMA ShapeStages ==
  /\ \A n \in Nat : \E f : ShapeStage(n, f)
  /\ \A m \in Nat : \A n, k \in Nat : \A f, g :
       m <= n /\ m <= k /\ ShapeStage(n, f) /\ ShapeStage(k, g) => f[m] = g[m]
<1> DEFINE Staged == {n \in Nat : \E f : ShapeStage(n, f)}
           Agreed == {m \in Nat : \A n, k \in Nat : \A f, g :
                        m <= n /\ m <= k /\ ShapeStage(n, f) /\ ShapeStage(k, g) => f[m] = g[m]}
<1>1. ASSUME NEW n \in Nat, \A m \in Nat : m < n => m \in Staged PROVE n \in Staged
  <2>1. CASE n = 0
    <3>1. ShapeStage(0, [m \in 0..0 |-> ShapeOver({})])
      BY DEF ShapeStage
    <3> QED BY <2>1, <3>1
  <2>2. CASE n # 0
    <3>1. n - 1 \in Nat /\ n - 1 < n
      BY <2>2
    <3>2. PICK f : ShapeStage(n - 1, f)
      BY <1>1, <3>1
    <3> DEFINE g == [m \in 0..n |-> IF m = n THEN ShapeOver(f[n - 1]) ELSE f[m]]
    <3>3. ASSUME NEW m \in 0..n PROVE g[m] = ShapeOver(IF m = 0 THEN {} ELSE g[m - 1])
      <4>1. CASE m = n
        BY <2>2, <3>1, <4>1
      <4>2. CASE m # n
        <5>1. m \in 0..(n - 1) /\ (m # 0 => m - 1 \in 0..n /\ m - 1 # n)
          BY <3>1, <4>2
        <5>2. g[m] = f[m] /\ (m # 0 => g[m - 1] = f[m - 1])
          BY <4>2, <5>1
        <5>3. f[m] = ShapeOver(IF m = 0 THEN {} ELSE f[m - 1])
          BY <3>2, <5>1 DEF ShapeStage
        <5> QED BY <5>2, <5>3
      <4> QED BY <4>1, <4>2
    <3>4. g = [m \in 0..n |-> g[m]]
      OBVIOUS
    <3> HIDE DEF g
    <3>5. g = [m \in 0..n |-> ShapeOver(IF m = 0 THEN {} ELSE g[m - 1])]
      BY <3>3, <3>4
    <3> QED BY <3>5 DEF ShapeStage
  <2> QED BY <2>1, <2>2
<1>2. ASSUME NEW m \in Nat, \A j \in Nat : j < m => j \in Agreed PROVE m \in Agreed
  <2> SUFFICES ASSUME NEW n \in Nat, NEW k \in Nat, NEW f, NEW g, m <= n, m <= k,
                      ShapeStage(n, f), ShapeStage(k, g)
               PROVE  f[m] = g[m]
    OBVIOUS
  <2>1. /\ f[m] = ShapeOver(IF m = 0 THEN {} ELSE f[m - 1])
        /\ g[m] = ShapeOver(IF m = 0 THEN {} ELSE g[m - 1])
    BY DEF ShapeStage
  <2>2. ASSUME m # 0 PROVE f[m - 1] = g[m - 1]
    <3>1. m - 1 \in Nat /\ m - 1 < m /\ m - 1 <= n /\ m - 1 <= k
      BY <2>2
    <3>2. m - 1 \in Agreed
      BY <1>2, <3>1
    <3> QED BY <3>1, <3>2
  <2> QED BY <2>1, <2>2
<1> HIDE DEF Staged, Agreed
<1>3. Staged = Nat
  <2>1. Staged \in SUBSET Nat
    BY DEF Staged
  <2> QED BY <1>1, <2>1, Induction
<1>4. Agreed = Nat
  <2>1. Agreed \in SUBSET Nat
    BY DEF Agreed
  <2> QED BY <1>2, <2>1, Induction
<1> QED BY <1>3, <1>4 DEF Staged, Agreed

\* The shapes of each level are those over the level below.
LEMMA ShapeLevels ==
  \A n \in Nat : ShapeTo[n] = ShapeOver(IF n = 0 THEN {} ELSE ShapeTo[n - 1])
<1> DEFINE Stage(n) == CHOOSE f : ShapeStage(n, f)
           h == [n \in Nat |-> Stage(n)[n]]
<1>1. \A n \in Nat : ShapeStage(n, Stage(n))
  BY ShapeStages
<1> HIDE DEF Stage
<1>2. ASSUME NEW n \in Nat PROVE h[n] = ShapeOver(IF n = 0 THEN {} ELSE h[n - 1])
  <2>1. h[n] = ShapeOver(IF n = 0 THEN {} ELSE Stage(n)[n - 1])
    BY <1>1 DEF ShapeStage
  <2>2. ASSUME n # 0 PROVE Stage(n)[n - 1] = h[n - 1]
    <3>1. n - 1 \in Nat /\ n - 1 <= n
      BY <2>2
    <3>2. Stage(n)[n - 1] = Stage(n - 1)[n - 1]
      BY <1>1, <3>1, ShapeStages
    <3> QED BY <3>1, <3>2
  <2> QED BY <2>1, <2>2
<1>3. h = [n \in Nat |-> h[n]]
  OBVIOUS
<1> HIDE DEF h
<1>4. h = [n \in Nat |-> ShapeOver(IF n = 0 THEN {} ELSE h[n - 1])]
  BY <1>2, <1>3
<1>5. ShapeTo = [n \in Nat |-> ShapeOver(IF n = 0 THEN {} ELSE ShapeTo[n - 1])]
  BY <1>4 DEF ShapeTo
<1> QED BY <1>5

Shape == ShapeOf(Depth)

MayHold(inner) == [Name -> inner \cup {None}]

\* What a shape is made of, over the shapes `inner` of the level below.
MadeOf(inner, s) ==
  /\ s.op \in LeafOps \cup {"forbidden", "any-of", "optional", "nullable", "object", "array",
                "contains", "each-like", "each-entry", "one-of"}
  /\ s.example \subseteq Present
  /\ s.op \in {"equality", "type"} => Example(s) \in Present
  /\ s.op = "kind" => s.kind \in {"null", "boolean", "number", "integer", "decimal", "string"}
  /\ s.op \in TextOps => s.parameter \in STRING /\ <<s.op, s.parameter>> \in DOMAIN Language
  /\ s.op = "component" => s.operator \in DOMAIN Contributed
  /\ s.op = "any-of" => s.options \in Seq(Present)
  /\ s.op \in {"optional", "nullable"} => s.of \in inner
  /\ s.op = "object" => s.members \in MayHold(inner)
  /\ s.op \in {"array", "contains"} => s.entries \in Seq(inner)
  /\ s.op = "each-like" => s.items \in inner
  /\ s.op = "each-entry" =>
       s.keys \subseteq inner /\ s.values \in inner /\ \A k, l \in s.keys : k = l
  /\ s.op \in {"each-like", "each-entry"} =>
       s.min \in Nat /\ s.max \subseteq Nat /\ s.max \in Maybe(Nat)
  /\ s.op = "one-of" => s.discriminator \in Name /\ s.alternatives \in MayHold(inner)

\* A shape over those below is made of them.
LEMMA ShapeCases ==
  ASSUME NEW inner, NEW s \in ShapeOver(inner)
  PROVE  MadeOf(inner, s)
<1> USE DEF MadeOf, LeafOps, TextOps, MayHold
<1>1. CASE s \in [op : {"any", "not-empty", "forbidden"}, example : SUBSET Present]
  BY <1>1
<1>a. CASE s \in [op : {"equality", "type"}, example : (SUBSET Present) \ {{}}]
  BY <1>a DEF Example
<1>2. CASE s \in [op : {"kind"}, example : SUBSET Present,
            kind : {"null", "boolean", "number", "integer", "decimal", "string"}]
  BY <1>2
<1>3. CASE s \in {t \in [op : TextOps, parameter : STRING, example : SUBSET Present] :
              <<t.op, t.parameter>> \in DOMAIN Language}
  BY <1>3
<1>4. CASE s \in [op : {"component"}, operator : DOMAIN Contributed, example : SUBSET Present]
  BY <1>4
<1>5. CASE s \in [op : {"any-of"}, options : Seq(Present), example : SUBSET Present]
  BY <1>5
<1>6. CASE s \in [op : {"optional", "nullable"}, of : inner, example : SUBSET Present]
  BY <1>6
<1>7. CASE s \in [op : {"object"}, members : [Name -> inner \cup {None}], example : SUBSET Present]
  BY <1>7
<1>8. CASE s \in [op : {"array", "contains"}, entries : Seq(inner), example : SUBSET Present]
  BY <1>8
<1>m. \A S : \A m \in Maybe(S) : m \subseteq S /\ \A x, y \in m : x = y
  BY DEF Maybe
<1>9. CASE s \in [op : {"each-like"}, items : inner, min : Nat, max : Maybe(Nat),
            example : SUBSET Present]
  BY <1>9, <1>m
<1>10. CASE s \in [op : {"each-entry"}, keys : Maybe(inner), values : inner,
             min : Nat, max : Maybe(Nat), example : SUBSET Present]
  BY <1>10, <1>m
<1>11. CASE s \in [op : {"one-of"}, discriminator : Name, default : Maybe(Name),
            alternatives : [Name -> inner \cup {None}], example : SUBSET Present]
  BY <1>11
<1> QED
  BY <1>1, <1>a, <1>2, <1>3, <1>4, <1>5, <1>6, <1>7, <1>8, <1>9, <1>10, <1>11 DEF ShapeOver

\* Over more shapes there are more.
LEMMA ShapeOverGrows ==
  ASSUME NEW A, NEW B, A \subseteq B
  PROVE  ShapeOver(A) \subseteq ShapeOver(B)
<1>1. Seq(A) \subseteq Seq(B) /\ Maybe(A) \subseteq Maybe(B)
  BY SeqGrows DEF Maybe
<1>2. [Name -> A \cup {None}] \subseteq [Name -> B \cup {None}]
  OBVIOUS
<1> DEFINE examples == SUBSET Present
<1>3. [op : {"optional", "nullable"}, of : A, example : examples]
        \subseteq [op : {"optional", "nullable"}, of : B, example : examples]
  OBVIOUS
<1>4. [op : {"object"}, members : [Name -> A \cup {None}], example : examples]
        \subseteq [op : {"object"}, members : [Name -> B \cup {None}], example : examples]
  BY <1>2
<1>5. [op : {"array", "contains"}, entries : Seq(A), example : examples]
        \subseteq [op : {"array", "contains"}, entries : Seq(B), example : examples]
  BY <1>1
<1>6. [op : {"each-like"}, items : A, min : Nat, max : Maybe(Nat), example : examples]
        \subseteq [op : {"each-like"}, items : B, min : Nat, max : Maybe(Nat), example : examples]
  OBVIOUS
<1>7. [op : {"each-entry"}, keys : Maybe(A), values : A,
       min : Nat, max : Maybe(Nat), example : examples]
        \subseteq
      [op : {"each-entry"}, keys : Maybe(B), values : B,
       min : Nat, max : Maybe(Nat), example : examples]
  BY <1>1
<1>8. [op : {"one-of"}, discriminator : Name, default : Maybe(Name),
       alternatives : [Name -> A \cup {None}], example : examples]
        \subseteq
      [op : {"one-of"}, discriminator : Name, default : Maybe(Name),
       alternatives : [Name -> B \cup {None}], example : examples]
  BY <1>2
<1> QED BY <1>3, <1>4, <1>5, <1>6, <1>7, <1>8 DEF ShapeOver

ShapesBelow(n) == IF n = 0 THEN {} ELSE ShapeTo[n - 1]

\* A level of shapes holds the ones below.
LEMMA ShapeGrows ==
  \A n \in Nat : \A m \in Nat : m <= n => ShapeTo[m] \subseteq ShapeTo[n]
<1> DEFINE Q == {n \in Nat : ShapeTo[n] \subseteq ShapeTo[n + 1]}
<1>2. ASSUME NEW n \in Nat, \A m \in Nat : m < n => m \in Q PROVE n \in Q
  <2>1. /\ ShapeTo[n] = ShapeOver(IF n = 0 THEN {} ELSE ShapeTo[n - 1])
        /\ ShapeTo[n + 1] = ShapeOver(ShapeTo[n])
    BY ShapeLevels
  <2>2. (IF n = 0 THEN {} ELSE ShapeTo[n - 1]) \subseteq ShapeTo[n]
    <3>1. CASE n = 0
      BY <3>1
    <3>2. CASE n # 0
      <4>1. n - 1 \in Nat /\ n - 1 < n /\ (n - 1) + 1 = n
        BY <3>2
      <4>2. n - 1 \in Q
        BY <1>2, <4>1
      <4> QED BY <3>2, <4>1, <4>2
    <3> QED BY <3>1, <3>2
  <2> QED BY <2>1, <2>2, ShapeOverGrows
<1>3. Q = Nat
  <2> HIDE DEF Q
  <2>1. Q \in SUBSET Nat
    BY DEF Q
  <2> QED BY <1>2, <2>1, Induction
<1> DEFINE P == {n \in Nat : \A m \in Nat : m <= n => ShapeTo[m] \subseteq ShapeTo[n]}
<1>4. ASSUME NEW n \in Nat, \A m \in Nat : m < n => m \in P PROVE n \in P
  <2> SUFFICES ASSUME NEW m \in Nat, m <= n PROVE ShapeTo[m] \subseteq ShapeTo[n]
    OBVIOUS
  <2>1. CASE m = n
    BY <2>1
  <2>2. CASE m < n
    <3>1. n - 1 \in Nat /\ n - 1 < n /\ (n - 1) + 1 = n /\ m <= n - 1
      BY <2>2
    <3>2. n - 1 \in P /\ n - 1 \in Q
      BY <1>3, <1>4, <3>1
    <3>3. ShapeTo[m] \subseteq ShapeTo[n - 1] /\ ShapeTo[n - 1] \subseteq ShapeTo[n]
      BY <3>1, <3>2
    <3> QED BY <3>3
  <2> QED BY <2>1, <2>2
<1>5. P = Nat
  <2> HIDE DEF P
  <2>1. P \in SUBSET Nat
    BY DEF P
  <2> QED BY <1>4, <2>1, Induction
<1> QED BY <1>5

Top == 3 * Depth + 2

\* All shapes are those of the top level.
LEMMA TopFacts ==
  Top \in Nat /\ Top >= 2 /\ Shape = ShapeTo[Top]
BY DepthIsNat DEF Top, Shape, ShapeOf

\* The rank of a shape: the first level it is in.
ShapeHeight(s) ==
  CHOOSE n \in Nat : s \in ShapeTo[n] /\ \A m \in Nat : s \in ShapeTo[m] => n <= m

shapeRank == [s \in Shape |-> ShapeHeight(s)]

\* Each shape has a rank, the first level it is in.
LEMMA ShapeRankFacts ==
  /\ shapeRank \in [Shape -> Nat]
  /\ \A s \in Shape : shapeRank[s] <= Top /\ s \in ShapeTo[shapeRank[s]]
  /\ \A s \in Shape, n \in Nat : s \in ShapeTo[n] => shapeRank[s] <= n
<1>1. ASSUME NEW s \in Shape
      PROVE  /\ ShapeHeight(s) \in Nat /\ s \in ShapeTo[ShapeHeight(s)]
             /\ \A m \in Nat : s \in ShapeTo[m] => ShapeHeight(s) <= m
  <2> DEFINE S == {m \in Nat : s \notin ShapeTo[m]}
  <2>1. S # Nat
    BY TopFacts
  <2>2. PICK k \in Nat : k \notin S /\ \A m \in Nat : m < k => m \in S
    <3>1. S \in SUBSET Nat
      OBVIOUS
    <3> HIDE DEF S
    <3> QED BY <2>1, <3>1, Induction
  <2>3. s \in ShapeTo[k] /\ \A m \in Nat : s \in ShapeTo[m] => k <= m
    BY <2>2
  <2> QED BY <2>3 DEF ShapeHeight
<1>2. \A s \in Shape : shapeRank[s] = ShapeHeight(s)
  BY DEF shapeRank
<1>3. shapeRank \in [Shape -> Nat]
  BY <1>1 DEF shapeRank
<1>4. \A s \in Shape : ShapeHeight(s) <= Top
  BY <1>1, TopFacts
<1> QED BY <1>1, <1>2, <1>3, <1>4

\* What a shape is made of: what it holds comes before it.
Lower(s) == {t \in Shape : shapeRank[t] < shapeRank[s]}

\* A shape is made of shapes of a lower rank.
LEMMA ShapeParts ==
  ASSUME NEW s \in Shape
  PROVE  MadeOf(Lower(s), s)
<1> DEFINE k == shapeRank[s]
<1>1. k \in Nat /\ k <= Top /\ s \in ShapeTo[k]
  BY ShapeRankFacts
<1> HIDE DEF k
<1>2. s \in ShapeOver(ShapesBelow(k))
  BY <1>1, ShapeLevels DEF ShapesBelow
<1>3. ShapesBelow(k) \subseteq Lower(s)
  <2> SUFFICES ASSUME NEW t \in ShapesBelow(k) PROVE t \in Lower(s)
    OBVIOUS
  <2>1. k # 0 /\ t \in ShapeTo[k - 1]
    BY DEF ShapesBelow
  <2>2. k - 1 \in Nat /\ k - 1 <= Top /\ k - 1 < k
    BY <1>1, <2>1, TopFacts
  <2>3. t \in Shape
    BY <2>1, <2>2, ShapeGrows, TopFacts
  <2>4. shapeRank[t] <= k - 1 /\ shapeRank[t] \in Nat
    BY <2>1, <2>2, <2>3, ShapeRankFacts
  <2>5. shapeRank[t] < k
    BY <1>1, <2>2, <2>4
  <2> QED BY <2>3, <2>5 DEF Lower, k
<1>4. s \in ShapeOver(Lower(s))
  BY <1>2, <1>3, ShapeOverGrows
<1> QED BY <1>4, ShapeCases

\* A set that holds each shape whose lower shapes it holds has them all.
LEMMA ShapeInduction ==
  ASSUME NEW S, \A s \in Shape :
           (\A t \in Shape : shapeRank[t] < shapeRank[s] => t \in S) => s \in S
  PROVE  Shape \subseteq S
<1> DEFINE Q == {n \in Nat : \A s \in Shape : shapeRank[s] = n => s \in S}
<1>0. \A s \in Shape : shapeRank[s] \in Nat
  BY ShapeRankFacts
<1>1. ASSUME NEW n \in Nat, \A m \in Nat : m < n => m \in Q PROVE n \in Q
  <2> SUFFICES ASSUME NEW s \in Shape, shapeRank[s] = n PROVE s \in S
    OBVIOUS
  <2>1. ASSUME NEW t \in Shape, shapeRank[t] < shapeRank[s] PROVE t \in S
    BY <1>0, <1>1, <2>1
  <2> QED BY <2>1
<1>2. Q = Nat
  <2> HIDE DEF Q
  <2>1. Q \in SUBSET Nat
    BY DEF Q
  <2> QED BY <1>1, <2>1, Induction
<1> QED BY <1>0, <1>2

-----------------------------------------------------------------------------
\* What the parser reads.

\* A name a shape has a shape of is held below it.
LEMMA GivenBelow ==
  ASSUME NEW A, NEW shapes \in MayHold(A)
  PROVE  Given(shapes) \subseteq Name /\ \A n \in Given(shapes) : shapes[n] \in A
BY DEF Given, MayHold

\* The children of a shape are of a lower rank.
LEMMA ChildrenBelow ==
  ASSUME NEW s \in Shape, NEW c \in Children(s)
  PROVE  c[2] \in Lower(s)
<1>1. MadeOf(Lower(s), s)
  BY ShapeParts
<1>2. CASE s.op \in {"optional", "nullable"}
  BY <1>1, <1>2 DEF MadeOf, Children
<1>3. CASE s.op = "object"
  <2>1. PICK n \in Given(s.members) : c = <<<<InMember(n)>>, s.members[n]>>
    BY <1>3 DEF Children
  <2>2. s.members \in MayHold(Lower(s))
    BY <1>1, <1>3 DEF MadeOf
  <2> QED BY <2>1, <2>2, GivenBelow
<1>4. CASE s.op \in {"array", "contains"}
  <2>1. PICK i \in DOMAIN s.entries : c = <<<<Index(i)>>, s.entries[i]>>
    BY <1>4 DEF Children
  <2>2. s.entries \in Seq(Lower(s))
    BY <1>1, <1>4 DEF MadeOf
  <2> QED BY <2>1, <2>2
<1>5. CASE s.op = "each-like"
  BY <1>1, <1>5 DEF MadeOf, Children
<1>6. CASE s.op = "each-entry"
  BY <1>1, <1>6 DEF MadeOf, Children
<1>7. CASE s.op = "one-of"
  <2>1. PICK n \in Given(s.alternatives) : c = <<<<InAlternative(n)>>, s.alternatives[n]>>
    BY <1>7 DEF Children
  <2>2. s.alternatives \in MayHold(Lower(s))
    BY <1>1, <1>7 DEF MadeOf
  <2> QED BY <2>1, <2>2, GivenBelow
<1>8. CASE s.op \notin {"optional", "nullable", "object", "array", "contains", "each-like",
                        "each-entry", "one-of"}
  BY <1>8 DEF Children
<1> QED BY <1>2, <1>3, <1>4, <1>5, <1>6, <1>7, <1>8

wellFormedSolution ==
  CHOOSE f : f = [x \in ShapeOf(Depth) \X BOOLEAN |-> NodeParses(f, x[1], x[2])]

\* Whether the parser reads a shape, as a member of an object or not.
Parses(s, member) == wellFormedSolution[<<s, member>>]

\* The parser's reading of a shape is decided as NodeParses says.
LEMMA ParsesUnfolds ==
  /\ \A s \in Shape : WellFormed(s) = Parses(s, FALSE)
  /\ \A s \in Shape, b \in BOOLEAN : Parses(s, b) = NodeParses(wellFormedSolution, s, b)
<1> DEFINE S == Shape \X BOOLEAN
           rank == [x \in S |-> shapeRank[x[1]]]
           D == [f \in [S -> BOOLEAN] |-> [x \in S |-> NodeParses(f, x[1], x[2])]]
<1>1. rank \in [S -> Nat]
  BY ShapeRankFacts
<1>2. D \in [[S -> BOOLEAN] -> [S -> BOOLEAN]]
  BY DEF NodeParses
<1>3. ASSUME NEW f \in [S -> BOOLEAN], NEW g \in [S -> BOOLEAN], NEW x \in S,
             \A y \in S : rank[y] < rank[x] => f[y] = g[y]
      PROVE  D[f][x] = D[g][x]
  <2> DEFINE s == x[1]
             b == x[2]
  <2>0. s \in Shape /\ b \in BOOLEAN /\ rank[x] = shapeRank[s]
    OBVIOUS
  <2>1. ASSUME NEW t \in Lower(s), NEW m \in BOOLEAN PROVE f[<<t, m>>] = g[<<t, m>>]
    <3>1. <<t, m>> \in S /\ rank[<<t, m>>] = shapeRank[t] /\ shapeRank[t] < shapeRank[s]
      BY <2>1 DEF Lower
    <3> QED BY <1>3, <2>0, <3>1
  <2> HIDE DEF s, b
  <2>2. ASSUME NEW c \in Children(s)
        PROVE  f[<<c[2], s.op = "object">>] = g[<<c[2], s.op = "object">>]
    <3>1. c[2] \in Lower(s) /\ (s.op = "object") \in BOOLEAN
      BY <2>0, ChildrenBelow
    <3> QED BY <2>1, <3>1
  <2>3. NodeParses(f, s, b) <=> NodeParses(g, s, b)
    BY <2>2 DEF NodeParses
  <2>4. NodeParses(f, s, b) = NodeParses(g, s, b)
    BY <2>3 DEF NodeParses
  <2> QED BY <2>4 DEF s, b
<1> HIDE DEF S, rank, D
<1>4. Recurs(S, BOOLEAN, rank, D)
  BY <1>1, <1>2, <1>3 DEF Recurs
<1>5. PICK f \in [S -> BOOLEAN] : f = D[f]
  BY <1>4, Recursion
<1>6. f = [x \in ShapeOf(Depth) \X BOOLEAN |-> NodeParses(f, x[1], x[2])]
  BY <1>5 DEF D, S, Shape
<1>7. wellFormedSolution = [x \in ShapeOf(Depth) \X BOOLEAN |-> NodeParses(wellFormedSolution, x[1], x[2])]
  BY <1>6 DEF wellFormedSolution
<1>8. \A s \in Shape, b \in BOOLEAN : Parses(s, b) = NodeParses(wellFormedSolution, s, b)
  BY <1>7 DEF Parses, Shape
<1>9. \A s \in Shape : WellFormed(s) = Parses(s, FALSE)
  BY DEF WellFormed, Parses, wellFormedSolution
<1> QED BY <1>8, <1>9

\* What the parser reads within a shape it reads.
LEMMA ParsesFacts ==
  ASSUME NEW s \in Shape, NEW b \in BOOLEAN, Parses(s, b)
  PROVE  /\ Parses(s, TRUE)
         /\ AdmitsAbsent(s) => b
         /\ s.op \in {"each-like", "each-entry"} => \A m \in s.max : s.min <= m
         /\ s.op = "nullable" => s.of.op # "nullable"
         /\ s.op = "any-of" => AnyOfParses(s)
         /\ s.op = "one-of" => OneOfParses(s)
         /\ s.op \in {"optional", "nullable"} => Parses(s.of, FALSE)
         /\ s.op = "object" => \A n \in Given(s.members) : Parses(s.members[n], TRUE)
         /\ s.op \in {"array", "contains"} =>
              \A i \in DOMAIN s.entries : Parses(s.entries[i], FALSE)
         /\ s.op = "each-like" => Parses(s.items, FALSE)
         /\ s.op = "each-entry" => Parses(s.values, FALSE) /\ \A k \in s.keys : Parses(k, FALSE)
         /\ s.op = "one-of" => \A n \in Given(s.alternatives) : Parses(s.alternatives[n], FALSE)
<1>1. NodeParses(wellFormedSolution, s, b)
  BY ParsesUnfolds
<1>2. NodeParses(wellFormedSolution, s, TRUE)
  BY <1>1 DEF NodeParses
<1>3. Parses(s, TRUE)
  BY <1>2, ParsesUnfolds
<1>4. \A c \in Children(s) : Parses(c[2], s.op = "object")
  BY <1>1 DEF NodeParses, Parses
<1>5. s.op \in {"optional", "nullable"} => Parses(s.of, FALSE)
  <2>1. s.op \in {"optional", "nullable"} => <<<<>>, s.of>> \in Children(s)
    BY DEF Children
  <2> QED BY <1>4, <2>1
<1>6. ASSUME s.op = "object", NEW n \in Given(s.members) PROVE Parses(s.members[n], TRUE)
  <2>1. <<<<InMember(n)>>, s.members[n]>> \in Children(s)
    BY <1>6 DEF Children
  <2>2. Parses(<<<<InMember(n)>>, s.members[n]>>[2], s.op = "object")
    BY <1>4, <2>1
  <2> QED BY <1>6, <2>2
<1>7. ASSUME s.op \in {"array", "contains"}, NEW i \in DOMAIN s.entries
      PROVE Parses(s.entries[i], FALSE)
  <2>1. <<<<Index(i)>>, s.entries[i]>> \in Children(s)
    BY <1>7 DEF Children
  <2>2. Parses(<<<<Index(i)>>, s.entries[i]>>[2], s.op = "object")
    BY <1>4, <2>1
  <2>3. (s.op = "object") = FALSE
    BY <1>7
  <2> QED BY <2>2, <2>3
<1>8. ASSUME s.op = "each-like" PROVE Parses(s.items, FALSE)
  <2>1. <<<<EachItem>>, s.items>> \in Children(s)
    BY <1>8 DEF Children
  <2>2. Parses(<<<<EachItem>>, s.items>>[2], s.op = "object")
    BY <1>4, <2>1
  <2>3. (s.op = "object") = FALSE
    BY <1>8
  <2> QED BY <2>2, <2>3
<1>9. ASSUME s.op = "each-entry" 
      PROVE Parses(s.values, FALSE) /\ \A k \in s.keys : Parses(k, FALSE)
  <2>1. <<<<EachValue>>, s.values>> \in Children(s)
        /\ \A k \in s.keys : <<<<EachKey>>, k>> \in Children(s)
    BY <1>9 DEF Children
  <2>2. Parses(<<<<EachValue>>, s.values>>[2], s.op = "object")
        /\ \A k \in s.keys : Parses(<<<<EachKey>>, k>>[2], s.op = "object")
    BY <1>4, <2>1
  <2>3. (s.op = "object") = FALSE
    BY <1>9
  <2> QED BY <2>2, <2>3
<1>10. ASSUME s.op = "one-of", NEW n \in Given(s.alternatives)
       PROVE Parses(s.alternatives[n], FALSE)
  <2>1. <<<<InAlternative(n)>>, s.alternatives[n]>> \in Children(s)
    BY <1>10 DEF Children
  <2>2. Parses(<<<<InAlternative(n)>>, s.alternatives[n]>>[2], s.op = "object")
    BY <1>4, <2>1
  <2>3. (s.op = "object") = FALSE
    BY <1>10
  <2> QED BY <2>2, <2>3
<1> QED
  BY <1>1, <1>3, <1>5, <1>6, <1>7, <1>8, <1>9, <1>10 DEF NodeParses

-----------------------------------------------------------------------------
\* Matching.

\* A path and one more step are a path.
LEMMA StepFacts ==
  ASSUME NEW at \in Path
  PROVE  /\ \A n \in Name : Append(at, InMember(n)) \in Path /\ Append(at, InAlternative(n)) \in Path
         /\ \A i \in Nat : Append(at, Index(i)) \in Path
         /\ Append(at, EachItem) \in Path /\ Append(at, EachKey) \in Path
         /\ Append(at, EachValue) \in Path
<1>1. \A step \in Step : Append(at, step) \in Path
  BY DEF Path
<1>2. /\ \A n \in Name : InMember(n) \in Step /\ InAlternative(n) \in Step
      /\ \A i \in Nat : Index(i) \in Step
  BY DEF Step, InMember, InAlternative, Index
<1>3. EachItem \in Step /\ EachKey \in Step /\ EachValue \in Step
  BY DEF Step
<1> QED BY <1>1, <1>2, <1>3

Alike(f, g, s) ==
  \A t \in Lower(s), v \in Value, at \in Path : f[<<t, v, at>>] = g[<<t, v, at>>]

\* Whether a node admits a value reads the decisions below it only.
LEMMA AdmitsReadsBelow ==
  ASSUME NEW f, NEW g, NEW s \in Shape, NEW v \in Value, NEW at \in Path, NEW asg, Alike(f, g, s),
         AdmitsNode(f, s, v, at, asg)
  PROVE  AdmitsNode(g, s, v, at, asg)
<1>0. MadeOf(Lower(s), s)
  BY ShapeParts
<1>a. \A t \in Lower(s), w \in Value, p \in Path : f[<<t, w, p>>] = g[<<t, w, p>>]
  BY DEF Alike
<1>1. CASE AdmitsLeaf(s, v)
  BY <1>1 DEF AdmitsNode
<1>2. CASE s.op = "object" /\ AdmitsObject(f, s, v, at)
  <2>1. v.members \in [Name -> Value]
    BY <1>2, ValueFacts DEF AdmitsObject
  <2>2. Given(s.members) \subseteq Name /\ \A n \in Given(s.members) : s.members[n] \in Lower(s)
    BY <1>0, <1>2, GivenBelow DEF MadeOf
  <2>3. \A n \in Given(s.members) : v.members[n] \in Value /\ Append(at, InMember(n)) \in Path
    BY <2>1, <2>2, StepFacts
  <2>4. AdmitsObject(g, s, v, at)
    BY <1>a, <1>2, <2>2, <2>3 DEF AdmitsObject
  <2> QED BY <1>2, <2>4 DEF AdmitsNode
<1>3. CASE s.op = "array" /\ AdmitsArray(f, s, v, at)
  <2>1. v.is = "array" /\ v.items \in Seq(Present) /\ Len(v.items) = Len(s.entries)
        /\ s.entries \in Seq(Lower(s))
    BY <1>0, <1>3, ValueFacts DEF AdmitsArray, MadeOf
  <2>2. DOMAIN s.entries = DOMAIN v.items /\ DOMAIN s.entries \subseteq Nat
    BY <2>1
  <2>3. \A i \in DOMAIN s.entries : 
          s.entries[i] \in Lower(s) /\ v.items[i] \in Value /\ Append(at, Index(i)) \in Path
    <3>1. \A i \in DOMAIN s.entries : s.entries[i] \in Lower(s) /\ i \in Nat /\ i \in DOMAIN v.items
      BY <2>1, <2>2
    <3>2. \A i \in DOMAIN v.items : v.items[i] \in Value
      BY <2>1, ValueFacts
    <3>3. \A i \in Nat : Append(at, Index(i)) \in Path
      BY StepFacts
    <3> QED BY <3>1, <3>2, <3>3
  <2>4. AdmitsArray(g, s, v, at)
    BY <1>a, <1>3, <2>3 DEF AdmitsArray
  <2> QED BY <1>3, <2>4 DEF AdmitsNode
<1>4. CASE s.op = "each-like" /\ AdmitsEachLike(f, s, v, at, asg)
  <2>1. \A i \in DOMAIN v.items : v.items[i] \in Value
    BY <1>4, ValueFacts DEF AdmitsEachLike
  <2>2. s.items \in Lower(s) /\ Append(at, EachItem) \in Path
    BY <1>0, <1>4, StepFacts DEF MadeOf
  <2>3. AdmitsEachLike(g, s, v, at, asg)
    BY <1>a, <1>4, <2>1, <2>2 DEF AdmitsEachLike
  <2> QED BY <1>4, <2>3 DEF AdmitsNode
<1>5. CASE s.op = "each-entry" /\ AdmitsEachEntry(f, s, v, at, asg)
  <2>1. \A n \in MemberNames(v) : n \in Name /\ v.members[n] \in Value /\ Text(n) \in Value
    BY <1>5, ValueFacts, TextFacts DEF AdmitsEachEntry, MemberNames
  <2>2. s.values \in Lower(s) /\ s.keys \subseteq Lower(s)
        /\ Append(at, EachValue) \in Path /\ Append(at, EachKey) \in Path
    BY <1>0, <1>5, StepFacts DEF MadeOf
  <2>3. AdmitsEachEntry(g, s, v, at, asg)
    BY <1>a, <1>5, <2>1, <2>2 DEF AdmitsEachEntry
  <2> QED BY <1>5, <2>3 DEF AdmitsNode
<1>6. CASE s.op = "contains" /\ AdmitsContains(f, s, v, at)
  <2>1. v.is = "array" /\ v.items \in Seq(Present) /\ s.entries \in Seq(Lower(s))
    BY <1>0, <1>6, ValueFacts DEF AdmitsContains, MadeOf
  <2>a. \A i \in DOMAIN s.entries : s.entries[i] \in Lower(s) /\ i \in Nat
    BY <2>1
  <2>2. \A i \in DOMAIN s.entries : s.entries[i] \in Lower(s) /\ Append(at, Index(i)) \in Path
    BY <2>a, StepFacts
  <2>3. \A j \in DOMAIN v.items : v.items[j] \in Value
    BY <2>1, ValueFacts
  <2>4. \A i \in DOMAIN s.entries, j \in DOMAIN v.items : 
          f[<<s.entries[i], v.items[j], Append(at, Index(i))>>]
            = g[<<s.entries[i], v.items[j], Append(at, Index(i))>>]
    BY <1>a, <2>2, <2>3
  <2>5. ASSUME NEW claim, NEW i \in DOMAIN s.entries
        PROVE  Unclaimed(f, s, v, at, claim, i) = Unclaimed(g, s, v, at, claim, i)
    BY <2>4 DEF Unclaimed
  <2>6. PICK claim \in [DOMAIN s.entries -> DOMAIN v.items] :
       \A i \in DOMAIN s.entries :
         LET free == Unclaimed(f, s, v, at, claim, i)
         IN  claim[i] \in free /\ \A j \in free : claim[i] <= j
    BY <1>6 DEF AdmitsContains
  <2>7. \A i \in DOMAIN s.entries :
         LET free == Unclaimed(g, s, v, at, claim, i)
         IN  claim[i] \in free /\ \A j \in free : claim[i] <= j
    BY <2>5, <2>6
  <2>8. AdmitsContains(g, s, v, at)
    BY <2>1, <2>7 DEF AdmitsContains
  <2> QED BY <1>6, <2>8 DEF AdmitsNode
<1>7. CASE s.op = "optional" /\ AdmitsOrStandIn(f, s, v, at, Pin(asg, at, "presence"), "absent")
  <2>1. f[<<s.of, v, at>>] = g[<<s.of, v, at>>]
    BY <1>0, <1>a, <1>7 DEF MadeOf
  <2> QED BY <1>7, <2>1 DEF AdmitsNode, AdmitsOrStandIn
<1>8. CASE s.op = "nullable" /\ AdmitsOrStandIn(f, s, v, at, Pin(asg, at, "nullability"), "null")
  <2>1. f[<<s.of, v, at>>] = g[<<s.of, v, at>>]
    BY <1>0, <1>a, <1>8 DEF MadeOf
  <2> QED BY <1>8, <2>1 DEF AdmitsNode, AdmitsOrStandIn
<1>9. CASE s.op = "any-of" /\ AdmitsAnyOf(s, v, at, asg)
  BY <1>9 DEF AdmitsNode
<1>10. CASE s.op = "one-of" /\ AdmitsOneOf(f, s, v, at, asg)
  <2>2. Given(s.alternatives) \subseteq Name
        /\ \A n \in Given(s.alternatives) : s.alternatives[n] \in Lower(s)
    BY <1>0, <1>10, GivenBelow DEF MadeOf
  <2>3. \A n \in Given(s.alternatives) : 
          f[<<s.alternatives[n], v, Append(at, InAlternative(n))>>]
            = g[<<s.alternatives[n], v, Append(at, InAlternative(n))>>]
    BY <1>a, <2>2, StepFacts
  <2> DEFINE pin == Pin(asg, at, "alternative") \cap Given(s.alternatives)
             among == IF pin # {} THEN pin ELSE Selected(s, v)
  <2>4. among \subseteq Given(s.alternatives)
    BY DEF Selected
  <2>5. \E n \in among : f[<<s.alternatives[n], v, Append(at, InAlternative(n))>>]
    BY <1>10 DEF AdmitsOneOf
  <2> HIDE DEF among
  <2>6. \E n \in among : g[<<s.alternatives[n], v, Append(at, InAlternative(n))>>]
    BY <2>3, <2>4, <2>5
  <2>7. AdmitsOneOf(g, s, v, at, asg)
    BY <2>6 DEF AdmitsOneOf, among
  <2> QED BY <1>10, <2>7 DEF AdmitsNode
<1> QED BY <1>1, <1>2, <1>3, <1>4, <1>5, <1>6, <1>7, <1>8, <1>9, <1>10 DEF AdmitsNode

\* The matcher of an assignment decides as AdmitsNode says.
LEMMA MatcherUnfolds ==
  ASSUME NEW asg
  PROVE  \A s \in Shape, v \in Value, at \in Path :
           Admits(s, v, at, asg) = AdmitsNode(Matcher(asg), s, v, at, asg)
<1> DEFINE S == Shape \X Value \X Path
           rank == [x \in S |-> shapeRank[x[1]]]
           D == [f \in [S -> BOOLEAN] |-> [x \in S |-> AdmitsNode(f, x[1], x[2], x[3], asg)]]
<1>1. rank \in [S -> Nat]
  BY ShapeRankFacts
<1>2. D \in [[S -> BOOLEAN] -> [S -> BOOLEAN]]
  BY DEF AdmitsNode
<1>3. ASSUME NEW f \in [S -> BOOLEAN], NEW g \in [S -> BOOLEAN], NEW x \in S,
             \A y \in S : rank[y] < rank[x] => f[y] = g[y]
      PROVE  D[f][x] = D[g][x]
  <2> DEFINE s == x[1]
             v == x[2]
             at == x[3]
  <2>0. s \in Shape /\ v \in Value /\ at \in Path /\ rank[x] = shapeRank[s]
    OBVIOUS
  <2>1. ASSUME NEW t \in Lower(s), NEW w \in Value, NEW p \in Path
        PROVE  f[<<t, w, p>>] = g[<<t, w, p>>]
    <3>1. <<t, w, p>> \in S /\ rank[<<t, w, p>>] = shapeRank[t] /\ shapeRank[t] < shapeRank[s]
      BY <2>1 DEF Lower
    <3> QED BY <1>3, <2>0, <3>1
  <2> HIDE DEF s, v, at
  <2>2. Alike(f, g, s) /\ Alike(g, f, s)
    BY <2>1 DEF Alike
  <2>3. AdmitsNode(f, s, v, at, asg) <=> AdmitsNode(g, s, v, at, asg)
    BY <2>0, <2>2, AdmitsReadsBelow
  <2>4. AdmitsNode(f, s, v, at, asg) = AdmitsNode(g, s, v, at, asg)
    BY <2>3 DEF AdmitsNode
  <2> QED BY <2>4 DEF s, v, at
<1> HIDE DEF S, rank, D
<1>4. Recurs(S, BOOLEAN, rank, D)
  BY <1>1, <1>2, <1>3 DEF Recurs
<1>5. PICK f \in [S -> BOOLEAN] : f = D[f]
  BY <1>4, Recursion
<1>6. f = [x \in ShapeOf(Depth) \X Value \X Path |-> AdmitsNode(f, x[1], x[2], x[3], asg)]
  BY <1>5 DEF D, S, Shape
<1> DEFINE m == CHOOSE h : h = [x \in ShapeOf(Depth) \X Value \X Path |->
                                  AdmitsNode(h, x[1], x[2], x[3], asg)]
<1>7. m = [x \in ShapeOf(Depth) \X Value \X Path |-> AdmitsNode(m, x[1], x[2], x[3], asg)]
  BY <1>6
<1>8. Matcher(asg) = m
  BY DEF Matcher
<1> HIDE DEF m
<1>9. \A s \in Shape, v \in Value, at \in Path :
        m[<<s, v, at>>] = AdmitsNode(m, s, v, at, asg)
  BY <1>7 DEF Shape
<1> QED BY <1>8, <1>9 DEF Admits

-----------------------------------------------------------------------------
\* Membership: matching with nothing pinned, operator by operator.

Adm(s, v, at) == Admits(s, v, at, <<>>)

\* The assignment of nothing pins nothing.
LEMMA NothingPinned ==
  \A at, facet : Pin(<<>>, at, facet) = {}
<1>1. DOMAIN <<>> = {}
  OBVIOUS
<1> QED BY <1>1 DEF Pin

\* Membership is decided as AdmitsNode says.
LEMMA AdmUnfolds ==
  ASSUME NEW s \in Shape, NEW v \in Value, NEW at \in Path
  PROVE  Adm(s, v, at) = AdmitsNode(Matcher(<<>>), s, v, at, <<>>)
BY MatcherUnfolds DEF Adm

\* Membership in a shape that holds no shapes, operator by operator.
LEMMA AdmLeaf ==
  ASSUME NEW s \in Shape, NEW v \in Value, NEW at \in Path
  PROVE  /\ s.op = "any" => (Adm(s, v, at) <=> v.is # "absent")
         /\ s.op = "equality" => (Adm(s, v, at) <=> SameValue(v, Example(s)))
         /\ s.op = "type" => (Adm(s, v, at) <=> v.is = Example(s).is)
         /\ s.op = "kind" => (Adm(s, v, at) <=> OfKind(s.kind, v))
         /\ s.op = "not-empty" => (Adm(s, v, at) <=> ~IsEmpty(v))
         /\ s.op \in TextOps =>
              (Adm(s, v, at) <=> Readable(s.op, v) \cap Language[<<s.op, s.parameter>>] # {})
         /\ s.op = "component" => (Adm(s, v, at) <=> v \in Contributed[s.operator])
         /\ s.op = "forbidden" => (Adm(s, v, at) <=> v.is = "absent")
BY AdmUnfolds DEF AdmitsNode, AdmitsLeaf, TextOps

\* Membership in a shape that holds shapes, operator by operator.
LEMMA AdmNested ==
  ASSUME NEW s \in Shape, NEW v \in Value, NEW at \in Path
  PROVE  /\ s.op = "object" =>
              (Adm(s, v, at) <=>
                 /\ v.is = "object"
                 /\ \A n \in Given(s.members) :
                      Adm(s.members[n], v.members[n], Append(at, InMember(n))))
         /\ s.op = "array" =>
              (Adm(s, v, at) <=>
                 /\ v.is = "array" /\ Len(v.items) = Len(s.entries)
                 /\ \A i \in DOMAIN s.entries :
                      Adm(s.entries[i], v.items[i], Append(at, Index(i))))
         /\ s.op = "each-like" =>
              (Adm(s, v, at) <=>
                 /\ v.is = "array" /\ Within(Len(v.items), s)
                 /\ \A i \in DOMAIN v.items : Adm(s.items, v.items[i], Append(at, EachItem)))
         /\ s.op = "each-entry" =>
              (Adm(s, v, at) <=>
                 /\ v.is = "object" /\ Within(Cardinality(MemberNames(v)), s)
                 /\ \A n \in MemberNames(v) :
                      /\ Adm(s.values, v.members[n], Append(at, EachValue))
                      /\ \A k \in s.keys : Adm(k, Text(n), Append(at, EachKey)))
         /\ s.op \in {"optional", "nullable"} =>
              (Adm(s, v, at) <=>
                 v.is = (IF s.op = "optional" THEN "absent" ELSE "null") \/ Adm(s.of, v, at))
         /\ s.op = "any-of" =>
              (Adm(s, v, at) <=> \E o \in Range(s.options) : SameValue(v, o))
         /\ s.op = "one-of" =>
              (Adm(s, v, at) <=>
                 \E n \in Selected(s, v) : Adm(s.alternatives[n], v, Append(at, InAlternative(n))))
<1> DEFINE m == Matcher(<<>>)
<1>0. Adm(s, v, at) = AdmitsNode(m, s, v, at, <<>>)
  BY AdmUnfolds
<1>a. \A t, w, p : Adm(t, w, p) = m[<<t, w, p>>]
  BY DEF Adm, Admits
<1> HIDE DEF m
<1>1. s.op = "object" => (Adm(s, v, at) <=> AdmitsObject(m, s, v, at))
  BY <1>0 DEF AdmitsNode, AdmitsLeaf, TextOps
<1>2. s.op = "array" => (Adm(s, v, at) <=> AdmitsArray(m, s, v, at))
  BY <1>0 DEF AdmitsNode, AdmitsLeaf, TextOps
<1>3. s.op = "each-like" => (Adm(s, v, at) <=> AdmitsEachLike(m, s, v, at, <<>>))
  BY <1>0 DEF AdmitsNode, AdmitsLeaf, TextOps
<1>4. s.op = "each-entry" => (Adm(s, v, at) <=> AdmitsEachEntry(m, s, v, at, <<>>))
  BY <1>0 DEF AdmitsNode, AdmitsLeaf, TextOps
<1>5. s.op = "optional" => (Adm(s, v, at) <=> v.is = "absent" \/ Adm(s.of, v, at))
  <2>1. s.op = "optional" => (Adm(s, v, at) <=> AdmitsOrStandIn(m, s, v, at, {}, "absent"))
    BY <1>0, NothingPinned DEF AdmitsNode, AdmitsLeaf, TextOps
  <2> QED BY <1>a, <2>1 DEF AdmitsOrStandIn
<1>6. s.op = "nullable" => (Adm(s, v, at) <=> v.is = "null" \/ Adm(s.of, v, at))
  <2>1. s.op = "nullable" => (Adm(s, v, at) <=> AdmitsOrStandIn(m, s, v, at, {}, "null"))
    BY <1>0, NothingPinned DEF AdmitsNode, AdmitsLeaf, TextOps
  <2> QED BY <1>a, <2>1 DEF AdmitsOrStandIn
<1>7. s.op = "any-of" => (Adm(s, v, at) <=> \E o \in Range(s.options) : SameValue(v, o))
  <2>1. s.op = "any-of" => (Adm(s, v, at) <=> AdmitsAnyOf(s, v, at, <<>>))
    BY <1>0 DEF AdmitsNode, AdmitsLeaf, TextOps
  <2>2. PinnedOptions(s, at, <<>>) = {}
    BY NothingPinned DEF PinnedOptions
  <2> QED BY <2>1, <2>2 DEF AdmitsAnyOf
<1>8. s.op = "one-of" => (Adm(s, v, at) <=> AdmitsOneOf(m, s, v, at, <<>>))
  BY <1>0 DEF AdmitsNode, AdmitsLeaf, TextOps
<1>9. AdmitsOneOf(m, s, v, at, <<>>) <=>
        \E n \in Selected(s, v) : Adm(s.alternatives[n], v, Append(at, InAlternative(n)))
  BY <1>a, NothingPinned DEF AdmitsOneOf
<1>10. AdmitsObject(m, s, v, at) <=>
                 /\ v.is = "object"
                 /\ \A n \in Given(s.members) :
                      Adm(s.members[n], v.members[n], Append(at, InMember(n)))
  BY <1>a DEF AdmitsObject
<1>11. AdmitsArray(m, s, v, at) <=>
                 /\ v.is = "array" /\ Len(v.items) = Len(s.entries)
                 /\ \A i \in DOMAIN s.entries :
                      Adm(s.entries[i], v.items[i], Append(at, Index(i)))
  BY <1>a DEF AdmitsArray
<1>12. \A n : Within(n, Bounds(s, at, <<>>)) <=> Within(n, s)
  <2>1. Bounds(s, at, <<>>) = [min |-> s.min, max |-> s.max]
    BY NothingPinned DEF Bounds
  <2> QED BY <2>1 DEF Within
<1>13. AdmitsEachLike(m, s, v, at, <<>>) <=>
                 /\ v.is = "array" /\ Within(Len(v.items), s)
                 /\ \A i \in DOMAIN v.items : Adm(s.items, v.items[i], Append(at, EachItem))
  BY <1>a, <1>12 DEF AdmitsEachLike
<1>14. AdmitsEachEntry(m, s, v, at, <<>>) <=>
                 /\ v.is = "object" /\ Within(Cardinality(MemberNames(v)), s)
                 /\ \A n \in MemberNames(v) :
                      /\ Adm(s.values, v.members[n], Append(at, EachValue))
                      /\ \A k \in s.keys : Adm(k, Text(n), Append(at, EachKey))
  BY <1>a, <1>12 DEF AdmitsEachEntry
<1> QED
  BY <1>1, <1>2, <1>3, <1>4, <1>5, <1>6, <1>7, <1>8, <1>9, <1>10, <1>11, <1>13, <1>14

\* Membership in a contains.
LEMMA AdmContains ==
  ASSUME NEW s \in Shape, NEW v \in Value, NEW at \in Path, s.op = "contains"
  PROVE  Adm(s, v, at) <=> AdmitsContains(Matcher(<<>>), s, v, at)
BY AdmUnfolds DEF AdmitsNode, AdmitsLeaf, TextOps

-----------------------------------------------------------------------------
\* Absence and null, taken out of a node.

\* Leaves are on the first level.
LEMMA LeafIntro ==
  /\ \A examples \in SUBSET Present :
       /\ [op |-> "any", example |-> examples] \in ShapeTo[0]
       /\ \A k \in {"null", "boolean", "number", "integer", "decimal", "string"} :
            [op |-> "kind", kind |-> k, example |-> examples] \in ShapeTo[0]
       /\ \A options \in Seq(Present) :
            [op |-> "any-of", options |-> options, example |-> examples] \in ShapeTo[0]
  /\ ShapeTo[0] \subseteq Shape
  /\ \A s \in ShapeTo[0] : shapeRank[s] = 0
<1>1. ShapeTo[0] = ShapeOver({})
  BY ShapeLevels
<1>2. ASSUME NEW examples \in SUBSET Present
      PROVE  /\ [op |-> "any", example |-> examples] \in ShapeOver({})
             /\ \A k \in {"null", "boolean", "number", "integer", "decimal", "string"} :
                  [op |-> "kind", kind |-> k, example |-> examples] \in ShapeOver({})
             /\ \A options \in Seq(Present) :
                  [op |-> "any-of", options |-> options, example |-> examples] \in ShapeOver({})
  BY DEF ShapeOver
<1>3. ShapeTo[0] \subseteq Shape
  BY TopFacts, ShapeGrows
<1>4. ASSUME NEW s \in ShapeTo[0] PROVE shapeRank[s] = 0
  <2>1. shapeRank[s] <= 0 /\ shapeRank[s] \in Nat
    BY <1>3, <1>4, ShapeRankFacts
  <2> QED BY <2>1
<1> QED BY <1>1, <1>2, <1>3, <1>4

\* The sequence w is the given one but for its element at i.
LeavesTheOthers(options, i, w) ==
  /\ \A j \in DOMAIN w :
       /\ j \in Nat /\ (IF j < i THEN j ELSE j + 1) \in DOMAIN options
       /\ (IF j < i THEN j ELSE j + 1) # i
       /\ w[j] = options[IF j < i THEN j ELSE j + 1]
  /\ \A k \in DOMAIN options : k # i => \E j \in DOMAIN w : w[j] = options[k]

\* Taking one of its elements out of a sequence.
LEMMA WithoutFacts ==
  ASSUME NEW S, NEW options \in Seq(S), NEW i \in DOMAIN options
  PROVE  /\ Without(options, i) \in Seq(S)
         /\ Len(Without(options, i)) = Len(options) - 1
         /\ LeavesTheOthers(options, i, Without(options, i))
<1> DEFINE n == Len(options)
           w == Without(options, i)
<1>1. n \in Nat /\ DOMAIN options = 1..n /\ i \in 1..n /\ n - 1 \in Nat
  OBVIOUS
<1>2. w = [j \in 1..(n - 1) |-> IF j < i THEN options[j] ELSE options[j + 1]]
  BY DEF Without
<1> HIDE DEF w, n
<1>3. \A j \in 1..(n - 1) : /\ j \in Nat /\ (IF j < i THEN j ELSE j + 1) \in 1..n
                            /\ (IF j < i THEN j ELSE j + 1) # i
  BY <1>1
<1>4. \A j \in 1..(n - 1) : w[j] = options[IF j < i THEN j ELSE j + 1]
  BY <1>2
<1>5. \A j \in 1..(n - 1) : w[j] \in S
  BY <1>1, <1>3, <1>4
<1>6. w \in Seq(S) /\ Len(w) = n - 1 /\ DOMAIN w = 1..(n - 1)
  BY <1>1, <1>2, <1>5
<1>7. ASSUME NEW k \in 1..n, k # i PROVE \E j \in 1..(n - 1) : w[j] = options[k]
  <2>1. CASE k < i
    <3>1. k \in 1..(n - 1)
      BY <1>1, <2>1
    <3> QED BY <1>2, <2>1, <3>1
  <2>2. CASE k > i
    <3>1. k - 1 \in 1..(n - 1) /\ ~(k - 1 < i) /\ (k - 1) + 1 = k
      BY <1>1, <2>2
    <3> QED BY <1>2, <3>1
  <2> QED BY <1>1, <1>7, <2>1, <2>2
<1> QED BY <1>1, <1>3, <1>4, <1>6, <1>7 DEF w, n, LeavesTheOthers

Taken == [absent : BOOLEAN, null : BOOLEAN, rest : SUBSET Shape]

\* The any-of that is left of one when a null is taken out of it.
LeftOf(s, i) ==
  [op |-> "any-of", options |-> Without(s.options, i),
   example |-> {e \in s.example : e.is # "null"}]

\* What is left of the options without one of them is a shape of the first level.
LEMMA LeftOfFacts ==
  ASSUME NEW s \in Shape, s.op = "any-of", NEW i \in DOMAIN s.options
  PROVE  /\ LeftOf(s, i) \in Shape /\ shapeRank[LeftOf(s, i)] = 0
         /\ LeftOf(s, i).op = "any-of"
         /\ LeftOf(s, i).options = Without(s.options, i)
         /\ LeftOf(s, i).example = {e \in s.example : e.is # "null"}
<1>1. s.options \in Seq(Present) /\ s.example \subseteq Present
  BY ShapeParts DEF MadeOf
<1>2. Without(s.options, i) \in Seq(Present) /\ {e \in s.example : e.is # "null"} \in SUBSET Present
  BY <1>1, WithoutFacts
<1>3. LeftOf(s, i) \in ShapeTo[0]
  BY <1>2, LeafIntro DEF LeftOf
<1> QED BY <1>3, LeafIntro DEF LeftOf

decomposeSolution == CHOOSE f : f = [x \in ShapeOf(Depth) |-> DecomposeNode(f, x)]

\* A node comes apart into absence, null and shapes.
LEMMA DecomposeTyped ==
  ASSUME NEW s \in Shape, NEW f, \A t \in Lower(s) : f[t] \in Taken
  PROVE  DecomposeNode(f, s) \in Taken
<1>0. MadeOf(Lower(s), s)
  BY ShapeParts
<1>1. CASE s.op \in {"optional", "nullable"}
  <2>1. f[s.of] \in Taken
    BY <1>0, <1>1 DEF MadeOf
  <2> QED BY <1>1, <2>1 DEF DecomposeNode, Taken
<1>2. CASE s.op = "any-of"
  <2> DEFINE nulls == {i \in DOMAIN s.options : s.options[i].is = "null"}
             i0 == CHOOSE i \in nulls : TRUE
  <2>1. CASE nulls = {}
    BY <1>2, <2>1 DEF DecomposeNode, Taken
  <2>2. CASE nulls # {}
    <3>1. i0 \in DOMAIN s.options
      BY <2>2
    <3>2. LeftOf(s, i0) \in Shape
      <4> HIDE DEF i0
      <4> QED BY <1>2, <3>1, LeftOfFacts
    <3>3. DecomposeNode(f, s) =
            [absent |-> FALSE, null |-> TRUE,
             rest |-> IF Without(s.options, i0) = <<>> THEN {} ELSE {LeftOf(s, i0)}]
      BY <1>2, <2>2 DEF DecomposeNode, LeftOf
    <3> HIDE DEF i0
    <3> QED BY <3>2, <3>3 DEF Taken
  <2> QED BY <2>1, <2>2
<1>3. CASE s.op \notin {"optional", "nullable", "any-of"}
  BY <1>3 DEF DecomposeNode, Taken
<1> QED BY <1>1, <1>2, <1>3

\* Taking absence and null out of a node is as DecomposeNode says.
LEMMA DecomposeUnfolds ==
  \A s \in Shape : /\ Decompose(s) \in Taken
                   /\ Decompose(s) = DecomposeNode(decomposeSolution, s)
                   /\ Decompose(s) = decomposeSolution[s]
<1> DEFINE D == [f \in [Shape -> Taken] |-> [s \in Shape |-> DecomposeNode(f, s)]]
<1>0. \A s \in Shape : Lower(s) \subseteq Shape
  BY DEF Lower
<1>1. D \in [[Shape -> Taken] -> [Shape -> Taken]]
  <2>1. ASSUME NEW f \in [Shape -> Taken], NEW s \in Shape PROVE DecomposeNode(f, s) \in Taken
    BY <1>0, DecomposeTyped
  <2> QED BY <2>1
<1>2. ASSUME NEW f \in [Shape -> Taken], NEW g \in [Shape -> Taken], NEW s \in Shape,
             \A t \in Shape : shapeRank[t] < shapeRank[s] => f[t] = g[t]
      PROVE  D[f][s] = D[g][s]
  <2>1. s.op \in {"optional", "nullable"} => f[s.of] = g[s.of]
    <3>1. s.op \in {"optional", "nullable"} => s.of \in Lower(s)
      BY ShapeParts DEF MadeOf
    <3> QED BY <1>2, <3>1 DEF Lower
  <2>2. DecomposeNode(f, s) = DecomposeNode(g, s)
    BY <2>1 DEF DecomposeNode
  <2> QED BY <2>2
<1>3. Taken # {}
  <2>1. [absent |-> FALSE, null |-> FALSE, rest |-> {}] \in Taken
    BY DEF Taken
  <2> QED BY <2>1
<1> HIDE DEF D
<1>4. Recurs(Shape, Taken, shapeRank, D)
  BY <1>1, <1>2, <1>3, ShapeRankFacts DEF Recurs
<1>5. PICK f \in [Shape -> Taken] : f = D[f]
  BY <1>4, Recursion
<1>6. f = [x \in ShapeOf(Depth) |-> DecomposeNode(f, x)]
  BY <1>5 DEF D, Shape
<1>7. decomposeSolution = [x \in ShapeOf(Depth) |-> DecomposeNode(decomposeSolution, x)]
  BY <1>6 DEF decomposeSolution
<1>8. \A s \in Shape : Decompose(s) = decomposeSolution[s]
  BY DEF Decompose, decomposeSolution
<1>9. \A s \in Shape : decomposeSolution[s] = DecomposeNode(decomposeSolution, s)
  BY <1>7 DEF Shape
<1> DEFINE S == {s \in Shape : decomposeSolution[s] \in Taken}
<1>10. ASSUME NEW s \in Shape, \A t \in Shape : shapeRank[t] < shapeRank[s] => t \in S
       PROVE  s \in S
  <2>1. \A t \in Lower(s) : decomposeSolution[t] \in Taken
    BY <1>10 DEF Lower
  <2> QED BY <1>9, <2>1, DecomposeTyped
<1>11. Shape \subseteq S
  <2> HIDE DEF S
  <2> QED BY <1>10, ShapeInduction
<1> QED BY <1>8, <1>9, <1>11

\* Nodes of an operator that is neither about absence nor about null.
Core(s) == s.op \notin {"optional", "nullable", "forbidden"}

\* What is left of the options without null is read when they are.
LEMMA LeftOfParses ==
  ASSUME NEW s \in Shape, s.op = "any-of", NEW b \in BOOLEAN, Parses(s, b),
         NEW i \in DOMAIN s.options, s.options[i].is = "null", Without(s.options, i) # <<>>
  PROVE  Parses(LeftOf(s, i), FALSE)
<1> DEFINE w == Without(s.options, i)
           t == LeftOf(s, i)
           p(j) == IF j < i THEN j ELSE j + 1
<1>1. /\ s.options \in Seq(Present) /\ s.example \subseteq Present
  BY ShapeParts DEF MadeOf
<1>2. AnyOfParses(s)
  BY ParsesFacts
<1>a. LeavesTheOthers(s.options, i, w)
  BY <1>1, WithoutFacts
<1>3. /\ \A j \in DOMAIN w : j \in Nat /\ p(j) \in DOMAIN s.options /\ p(j) # i /\ w[j] = s.options[p(j)]
      /\ \A k \in DOMAIN s.options : k # i => \E j \in DOMAIN w : w[j] = s.options[k]
  <2> HIDE DEF w
  <2> QED BY <1>a DEF LeavesTheOthers
<1>4. i \in Nat
  BY <1>1
<1>5. t.op = "any-of" /\ t.options = w /\ t.example = {e \in s.example : e.is # "null"} /\ t \in Shape
  BY LeftOfFacts
<1> HIDE DEF w, t
<1>6. ASSUME NEW j \in DOMAIN w, NEW k \in DOMAIN w, j # k PROVE ~SameValue(w[j], w[k])
  <2>1. p(j) # p(k)
    BY <1>3, <1>4, <1>6
  <2> QED BY <1>2, <1>3, <1>6, <2>1 DEF AnyOfParses
<1>7. ASSUME NEW e \in t.example PROVE \E o \in Range(w) : SameValue(o, e)
  <2>1. e \in s.example /\ e.is # "null" /\ e \in Value
    BY <1>1, <1>5, <1>7, ScalarsPresent
  <2>2. PICK k \in DOMAIN s.options : SameValue(s.options[k], e)
    BY <1>2, <2>1 DEF AnyOfParses, Range
  <2>3. s.options[k] \in Value
    BY <1>1, ScalarsPresent
  <2>4. s.options[k].is = e.is
    BY <2>1, <2>2, <2>3, EqualKinds
  <2>5. k # i
    BY <2>1, <2>4
  <2>6. PICK j \in DOMAIN w : w[j] = s.options[k]
    BY <1>3, <2>5
  <2> QED BY <2>2, <2>6 DEF Range
<1>8. AnyOfParses(t)
  BY <1>3, <1>5, <1>6, <1>7 DEF AnyOfParses, w
<1>9. Children(t) = {}
  BY <1>5 DEF Children
<1>10. NodeParses(wellFormedSolution, t, FALSE)
  BY <1>5, <1>8, <1>9 DEF NodeParses, AdmitsAbsent
<1>11. Parses(t, FALSE)
  BY <1>5, <1>10, ParsesUnfolds
<1> QED BY <1>11 DEF t

\* What is left of a node.
LEMMA DecomposeRest ==
  ASSUME NEW s \in Shape
  PROVE  \A r \in Decompose(s).rest :
           /\ r \in Shape /\ shapeRank[r] <= shapeRank[s] /\ Core(r)
           /\ Parses(s, TRUE) => Parses(r, FALSE)
<1> DEFINE Fit(x) == \A r \in Decompose(x).rest :
                       /\ r \in Shape /\ shapeRank[r] <= shapeRank[x] /\ Core(r)
                       /\ Parses(x, TRUE) => Parses(r, FALSE)
           S == {x \in Shape : Fit(x)}
<1>1. ASSUME NEW x \in Shape, \A t \in Shape : shapeRank[t] < shapeRank[x] => t \in S
      PROVE  x \in S
  <2> SUFFICES ASSUME NEW r \in Decompose(x).rest
               PROVE  /\ r \in Shape /\ shapeRank[r] <= shapeRank[x] /\ Core(r)
                      /\ Parses(x, TRUE) => Parses(r, FALSE)
    OBVIOUS
  <2>0. /\ MadeOf(Lower(x), x) /\ shapeRank[x] \in Nat
        /\ Decompose(x) = DecomposeNode(decomposeSolution, x)
    BY ShapeParts, ShapeRankFacts, DecomposeUnfolds
  <2>1. CASE x.op \in {"optional", "nullable"}
    <3>1. x.of \in Lower(x)
      BY <2>0, <2>1 DEF MadeOf
    <3>2. x.of \in Shape /\ shapeRank[x.of] < shapeRank[x] /\ x.of \in S
      BY <1>1, <3>1 DEF Lower
    <3>3. decomposeSolution[x.of] = Decompose(x.of) /\ Decompose(x.of) \in Taken
      BY <3>2, DecomposeUnfolds
    <3>4. Decompose(x).rest = Decompose(x.of).rest
      BY <2>0, <2>1, <3>3 DEF DecomposeNode, Taken
    <3>5. Fit(x.of)
      BY <3>2
    <3>6. /\ r \in Shape /\ shapeRank[r] <= shapeRank[x.of] /\ Core(r)
          /\ Parses(x.of, TRUE) => Parses(r, FALSE)
      BY <3>4, <3>5
    <3>7. shapeRank[r] \in Nat /\ shapeRank[x.of] \in Nat
      BY <3>2, <3>6, ShapeRankFacts
    <3>8. Parses(x, TRUE) => Parses(x.of, TRUE)
      BY <2>1, <3>2, ParsesFacts
    <3>9. shapeRank[r] <= shapeRank[x]
      BY <2>0, <3>2, <3>6, <3>7
    <3> QED BY <3>6, <3>8, <3>9
  <2>2. ASSUME r = x, Core(x), ~AdmitsAbsent(x) 
        PROVE  /\ r \in Shape /\ shapeRank[r] <= shapeRank[x] /\ Core(r)
               /\ Parses(x, TRUE) => Parses(r, FALSE)
    <3>1. NodeParses(wellFormedSolution, x, TRUE) => NodeParses(wellFormedSolution, x, FALSE)
      BY <2>2 DEF NodeParses
    <3>2. /\ Parses(x, TRUE) = NodeParses(wellFormedSolution, x, TRUE)
          /\ Parses(x, FALSE) = NodeParses(wellFormedSolution, x, FALSE)
      BY ParsesUnfolds
    <3>3. Parses(x, TRUE) => Parses(x, FALSE)
      BY <3>1, <3>2
    <3>4. shapeRank[x] <= shapeRank[x]
      BY <2>0
    <3> QED BY <2>2, <3>3, <3>4
  <2>3. CASE x.op = "any-of"
    <3> DEFINE nulls == {i \in DOMAIN x.options : x.options[i].is = "null"}
               i0 == CHOOSE i \in nulls : TRUE
    <3>1. CASE nulls = {}
      <4>1. r = x
        BY <2>0, <2>3, <3>1 DEF DecomposeNode
      <4> QED BY <2>2, <2>3, <4>1 DEF Core, AdmitsAbsent
    <3>2. CASE nulls # {}
      <4>1. i0 \in DOMAIN x.options /\ x.options[i0].is = "null"
        BY <3>2
      <4>2. Decompose(x) =
            [absent |-> FALSE, null |-> TRUE,
             rest |-> IF Without(x.options, i0) = <<>> THEN {} ELSE {LeftOf(x, i0)}]
        BY <2>0, <2>3, <3>2 DEF DecomposeNode, LeftOf
      <4> HIDE DEF i0
      <4>3. r = LeftOf(x, i0) /\ Without(x.options, i0) # <<>>
        BY <4>2
      <4>4. r \in Shape /\ shapeRank[r] = 0 /\ r.op = "any-of"
        BY <2>3, <4>1, <4>3, LeftOfFacts
      <4>5. Parses(x, TRUE) => Parses(r, FALSE)
        BY <2>3, <4>1, <4>3, LeftOfParses
      <4>6. shapeRank[r] <= shapeRank[x]
        BY <2>0, <4>4
      <4> QED BY <4>4, <4>5, <4>6 DEF Core
    <3> QED BY <3>1, <3>2
  <2>4. CASE x.op \notin {"optional", "nullable", "any-of"}
    <3>1. r = x /\ x.op # "forbidden"
      BY <2>0, <2>4 DEF DecomposeNode
    <3> QED BY <2>2, <2>4, <3>1 DEF Core, AdmitsAbsent
  <2> QED BY <2>1, <2>3, <2>4
<1>2. Shape \subseteq S
  <2> HIDE DEF S
  <2> QED BY <1>1, ShapeInduction
<1> QED BY <1>2

\* Decomposition keeps what a node admits.
AdmitsTaken(d, v, at) ==
  \/ d.absent /\ v.is = "absent"
  \/ d.null /\ v.is = "null"
  \/ \E r \in d.rest : Adm(r, v, at)

\* Taking absence and null out of a node keeps what it admits.
LEMMA DecomposeExact ==
  ASSUME NEW s \in Shape, NEW v \in Value, NEW at \in Path
  PROVE  Adm(s, v, at) <=> AdmitsTaken(Decompose(s), v, at)
<1> DEFINE S == {x \in Shape : Adm(x, v, at) <=> AdmitsTaken(Decompose(x), v, at)}
<1>1. ASSUME NEW x \in Shape, \A t \in Shape : shapeRank[t] < shapeRank[x] => t \in S
      PROVE  x \in S
  <2>0. /\ MadeOf(Lower(x), x)
        /\ Decompose(x) = DecomposeNode(decomposeSolution, x)
    BY ShapeParts, DecomposeUnfolds
  <2>1. CASE x.op \in {"optional", "nullable"}
    <3>1. x.of \in Lower(x)
      BY <2>0, <2>1 DEF MadeOf
    <3>2. x.of \in Shape /\ x.of \in S
      BY <1>1, <3>1 DEF Lower
    <3>3. decomposeSolution[x.of] = Decompose(x.of) /\ Decompose(x.of) \in Taken
      BY <3>2, DecomposeUnfolds
    <3>4. Adm(x.of, v, at) <=> AdmitsTaken(Decompose(x.of), v, at)
      BY <3>2
    <3>5. Adm(x, v, at) <=>
                 v.is = (IF x.op = "optional" THEN "absent" ELSE "null") \/ Adm(x.of, v, at)
      BY <2>1, AdmNested
    <3>6. CASE x.op = "optional"
      <4>1. Decompose(x) = [Decompose(x.of) EXCEPT !.absent = TRUE]
        BY <2>0, <3>3, <3>6 DEF DecomposeNode
      <4> QED BY <3>3, <3>4, <3>5, <3>6, <4>1 DEF AdmitsTaken, Taken
    <3>7. CASE x.op = "nullable"
      <4>1. Decompose(x) = [Decompose(x.of) EXCEPT !.null = TRUE]
        BY <2>0, <3>3, <3>7 DEF DecomposeNode
      <4> QED BY <3>3, <3>4, <3>5, <3>7, <4>1 DEF AdmitsTaken, Taken
    <3> QED BY <2>1, <3>6, <3>7
  <2>2. CASE x.op = "any-of"
    <3> DEFINE nulls == {i \in DOMAIN x.options : x.options[i].is = "null"}
               i0 == CHOOSE i \in nulls : TRUE
    <3>0. /\ Adm(x, v, at) <=> \E o \in Range(x.options) : SameValue(v, o)
          /\ x.options \in Seq(Present)
      BY <2>0, <2>2, AdmNested DEF MadeOf
    <3>1. CASE nulls = {}
      <4>1. Decompose(x) = [absent |-> FALSE, null |-> FALSE, rest |-> {x}]
        BY <2>0, <2>2, <3>1 DEF DecomposeNode
      <4> QED BY <4>1 DEF AdmitsTaken
    <3>2. CASE nulls # {}
      <4>1. i0 \in DOMAIN x.options /\ x.options[i0].is = "null"
        BY <3>2
      <4>2. Decompose(x) =
            [absent |-> FALSE, null |-> TRUE,
             rest |-> IF Without(x.options, i0) = <<>> THEN {} ELSE {LeftOf(x, i0)}]
        BY <2>0, <2>2, <3>2 DEF DecomposeNode, LeftOf
      <4> HIDE DEF i0
      <4>3. x.options[i0] \in Value /\ x.options[i0] = Null /\ Null \in Value
        <5>1. x.options[i0] \in Value
          BY <3>0, <4>1, ScalarsPresent
        <5>2. x.options[i0] \in Scalar
          BY <4>1, <5>1, ValueFacts DEF ScalarKinds
        <5> QED BY <4>1, <5>1, <5>2, ScalarFacts
      <4>4. SameValue(v, x.options[i0]) <=> v.is = "null"
        <5>1. SameValue(v, Null) => v.is = "null"
          BY <4>3, EqualKinds DEF Null
        <5>2. v.is = "null" => v = Null
          BY ValueFacts, ScalarFacts DEF ScalarKinds
        <5> QED BY <4>3, <5>1, <5>2, EqualReflexive
      <4> DEFINE t == LeftOf(x, i0)
                 w == Without(x.options, i0)
      <4>5. /\ t \in Shape /\ t.op = "any-of" /\ t.options = w
        BY <2>2, <4>1, LeftOfFacts
      <4>6. Adm(t, v, at) <=> \E j \in DOMAIN w : SameValue(v, w[j])
        <5> HIDE DEF t, w
        <5> QED BY <4>5, AdmNested DEF Range
      <4>a. LeavesTheOthers(x.options, i0, w)
        BY <3>0, <4>1, WithoutFacts
      <4>7. \A j \in DOMAIN w : \E k \in DOMAIN x.options : w[j] = x.options[k]
        <5> HIDE DEF w
        <5> QED BY <4>a DEF LeavesTheOthers
      <4>8. \A k \in DOMAIN x.options : k # i0 => \E j \in DOMAIN w : w[j] = x.options[k]
        <5> HIDE DEF w
        <5> QED BY <4>a DEF LeavesTheOthers
      <4>9. Adm(x, v, at) <=> \E k \in DOMAIN x.options : SameValue(v, x.options[k])
        BY <3>0 DEF Range
      <4> HIDE DEF w, t
      <4>10. Adm(x, v, at) <=> v.is = "null" \/ \E j \in DOMAIN w : SameValue(v, w[j])
        BY <4>1, <4>4, <4>7, <4>8, <4>9
      <4>11. CASE w = <<>>
        <5>1. Decompose(x) = [absent |-> FALSE, null |-> TRUE, rest |-> {}]
          BY <4>2, <4>11 DEF w
        <5>2. DOMAIN w = {}
          BY <4>11
        <5> QED BY <4>10, <5>1, <5>2 DEF AdmitsTaken
      <4>12. CASE w # <<>>
        <5>1. Decompose(x) = [absent |-> FALSE, null |-> TRUE, rest |-> {t}]
          BY <4>2, <4>12 DEF w, t
        <5> QED BY <4>6, <4>10, <5>1 DEF AdmitsTaken
      <4> QED BY <4>11, <4>12
    <3> QED BY <3>1, <3>2
  <2>3. CASE x.op = "forbidden"
    <3>1. Decompose(x) = [absent |-> TRUE, null |-> FALSE, rest |-> {}]
      BY <2>0, <2>3 DEF DecomposeNode
    <3>2. Adm(x, v, at) <=> v.is = "absent"
      BY <2>3, AdmLeaf
    <3> QED BY <3>1, <3>2 DEF AdmitsTaken
  <2>4. CASE x.op = "kind"
    <3>1. CASE x.kind = "null"
      <4>1. Decompose(x) = [absent |-> FALSE, null |-> TRUE, rest |-> {}]
        BY <2>0, <2>4, <3>1 DEF DecomposeNode
      <4>2. Adm(x, v, at) <=> v.is = "null"
        BY <2>4, <3>1, AdmLeaf DEF OfKind
      <4> QED BY <4>1, <4>2 DEF AdmitsTaken
    <3>2. CASE x.kind # "null"
      <4>1. Decompose(x) = [absent |-> FALSE, null |-> FALSE, rest |-> {x}]
        BY <2>0, <2>4, <3>2 DEF DecomposeNode
      <4> QED BY <4>1 DEF AdmitsTaken
    <3> QED BY <3>1, <3>2
  <2>5. CASE x.op = "equality"
    <3>1. CASE Example(x).is = "null"
      <4>1. Decompose(x) = [absent |-> FALSE, null |-> TRUE, rest |-> {}]
        BY <2>0, <2>5, <3>1 DEF DecomposeNode
      <4>2. Example(x) \in Value
        BY <2>0, <2>5, ScalarsPresent DEF MadeOf
      <4>3. SameValue(v, Example(x)) <=> v.is = "null"
        <5>1. SameValue(v, Example(x)) => v.is = "null"
          BY <3>1, <4>2, EqualKinds
        <5>2. v.is = "null" => v = Null
          BY ValueFacts, ScalarFacts DEF ScalarKinds
        <5>3. Example(x) = Null
          BY <3>1, <4>2, ValueFacts, ScalarFacts DEF ScalarKinds
        <5> QED BY <4>2, <5>1, <5>2, <5>3, EqualReflexive
      <4>4. Adm(x, v, at) <=> v.is = "null"
        BY <2>5, <4>3, AdmLeaf
      <4> QED BY <4>1, <4>4 DEF AdmitsTaken
    <3>2. CASE Example(x).is # "null"
      <4>1. Decompose(x) = [absent |-> FALSE, null |-> FALSE, rest |-> {x}]
        BY <2>0, <2>5, <3>2 DEF DecomposeNode
      <4> QED BY <4>1 DEF AdmitsTaken
    <3> QED BY <3>1, <3>2
  <2>6. CASE x.op = "any"
    <3>1. Decompose(x) = [absent |-> FALSE, null |-> TRUE, rest |-> {x}]
      BY <2>0, <2>6 DEF DecomposeNode
    <3>2. Adm(x, v, at) <=> v.is # "absent"
      BY <2>6, AdmLeaf
    <3>3. AdmitsTaken(Decompose(x), v, at) <=> v.is = "null" \/ Adm(x, v, at)
      BY <3>1 DEF AdmitsTaken
    <3> QED BY <3>2, <3>3
  <2>7. CASE x.op \notin {"optional", "nullable", "forbidden", "kind", "equality", "any-of", "any"}
    <3>1. Decompose(x) = [absent |-> FALSE, null |-> FALSE, rest |-> {x}]
      BY <2>0, <2>7 DEF DecomposeNode
    <3> QED BY <3>1 DEF AdmitsTaken
  <2> QED BY <2>1, <2>2, <2>3, <2>4, <2>5, <2>6, <2>7
<1>2. Shape \subseteq S
  <2> HIDE DEF S
  <2> QED BY <1>1, ShapeInduction
<1> QED BY <1>2

-----------------------------------------------------------------------------
\* The identity floor: nodes it takes for the same admit the same values.

\* Shapes the parser reads, within others or as members of them.
Read(s) == Parses(s, TRUE)

ReadBelow(s) == {t \in Lower(s) : Read(t)}

\* What the parser reads in a shape, it reads in its parts.
LEMMA ReadParts ==
  ASSUME NEW s \in Shape, Read(s)
  PROVE  /\ s.op \in {"optional", "nullable"} => s.of \in ReadBelow(s)
         /\ s.op = "object" =>
              /\ Given(s.members) \subseteq Name
              /\ \A n \in Given(s.members) : s.members[n] \in ReadBelow(s)
         /\ s.op \in {"array", "contains"} =>
              /\ s.entries \in Seq(Lower(s))
              /\ \A i \in DOMAIN s.entries : i \in Nat /\ s.entries[i] \in ReadBelow(s)
         /\ s.op = "each-like" => s.items \in ReadBelow(s)
         /\ s.op = "each-entry" => s.values \in ReadBelow(s) /\ s.keys \subseteq ReadBelow(s)
         /\ s.op = "one-of" =>
              /\ Given(s.alternatives) \subseteq Name
              /\ \A n \in Given(s.alternatives) : s.alternatives[n] \in ReadBelow(s)
<1>0. MadeOf(Lower(s), s) /\ Lower(s) \subseteq Shape
  BY ShapeParts DEF Lower
<1>1. ASSUME NEW t \in Lower(s), Parses(t, FALSE) PROVE t \in ReadBelow(s)
  <2>1. t \in Shape
    BY <1>0
  <2>2. Parses(t, TRUE)
    BY <1>1, <2>1, ParsesFacts
  <2> QED BY <2>2 DEF ReadBelow, Read
<1>2. s.op \in {"optional", "nullable"} => s.of \in Lower(s) /\ Parses(s.of, FALSE)
  BY <1>0, ParsesFacts DEF MadeOf, Read
<1>3. ASSUME s.op = "object"
      PROVE  /\ Given(s.members) \subseteq Name
             /\ \A n \in Given(s.members) : s.members[n] \in ReadBelow(s)
  <2>1. s.members \in MayHold(Lower(s))
    BY <1>0, <1>3 DEF MadeOf
  <2>2. Given(s.members) \subseteq Name /\ \A n \in Given(s.members) : s.members[n] \in Lower(s)
    BY <2>1, GivenBelow
  <2>3. \A n \in Given(s.members) : Parses(s.members[n], TRUE)
    BY <1>3, ParsesFacts DEF Read
  <2> QED BY <2>2, <2>3 DEF ReadBelow, Read
<1>4. ASSUME s.op \in {"array", "contains"}
      PROVE  /\ s.entries \in Seq(Lower(s))
             /\ \A i \in DOMAIN s.entries : i \in Nat /\ s.entries[i] \in ReadBelow(s)
  <2>1. s.entries \in Seq(Lower(s))
    BY <1>0, <1>4 DEF MadeOf
  <2>2. \A i \in DOMAIN s.entries : i \in Nat /\ s.entries[i] \in Lower(s)
    BY <2>1
  <2>3. \A i \in DOMAIN s.entries : Parses(s.entries[i], FALSE)
    BY <1>4, ParsesFacts DEF Read
  <2> QED BY <1>1, <2>1, <2>2, <2>3
<1>5. s.op = "each-like" => s.items \in Lower(s) /\ Parses(s.items, FALSE)
  BY <1>0, ParsesFacts DEF MadeOf, Read
<1>6. s.op = "each-entry" =>
        /\ s.values \in Lower(s) /\ Parses(s.values, FALSE)
        /\ \A k \in s.keys : k \in Lower(s) /\ Parses(k, FALSE)
  BY <1>0, ParsesFacts DEF MadeOf, Read
<1>7. ASSUME s.op = "one-of"
      PROVE  /\ Given(s.alternatives) \subseteq Name
             /\ \A n \in Given(s.alternatives) : s.alternatives[n] \in ReadBelow(s)
  <2>1. s.alternatives \in MayHold(Lower(s))
    BY <1>0, <1>7 DEF MadeOf
  <2>2. /\ Given(s.alternatives) \subseteq Name
        /\ \A n \in Given(s.alternatives) : s.alternatives[n] \in Lower(s)
    BY <2>1, GivenBelow
  <2>3. \A n \in Given(s.alternatives) : Parses(s.alternatives[n], FALSE)
    BY <1>7, ParsesFacts DEF Read
  <2> QED BY <1>1, <2>2, <2>3
<1> QED BY <1>1, <1>2, <1>3, <1>4, <1>5, <1>6, <1>7

sameAdmitsSolution ==
  CHOOSE f : f = [x \in ShapeOf(Depth) \X ShapeOf(Depth) |-> SameNode(f, x[1], x[2])]

\* Deciding whether two nodes are the same reads the decisions below them only.
LEMMA SameReadsBelow ==
  ASSUME NEW f, NEW g, NEW p \in Shape, NEW c \in Shape,
         \A a \in Lower(p), b \in Lower(c) : f[<<a, b>>] = g[<<a, b>>],
         SameNode(f, p, c)
  PROVE  SameNode(g, p, c)
<1>0. MadeOf(Lower(p), p) /\ MadeOf(Lower(c), c) /\ p.op = c.op
  BY ShapeParts DEF SameNode
<1>1. ASSUME p.op = "object", NEW n \in Given(p.members)
      PROVE  f[<<p.members[n], c.members[n]>>] = g[<<p.members[n], c.members[n]>>]
  <2>1. Given(p.members) = Given(c.members)
    BY <1>1 DEF SameNode
  <2>2. p.members \in MayHold(Lower(p)) /\ c.members \in MayHold(Lower(c))
    BY <1>0, <1>1 DEF MadeOf
  <2> QED BY <1>1, <2>1, <2>2, GivenBelow
<1>2. ASSUME p.op = "one-of", NEW n \in Given(p.alternatives)
      PROVE  f[<<p.alternatives[n], c.alternatives[n]>>] = g[<<p.alternatives[n], c.alternatives[n]>>]
  <2>1. Given(p.alternatives) = Given(c.alternatives)
    BY <1>2 DEF SameNode
  <2>2. p.alternatives \in MayHold(Lower(p)) /\ c.alternatives \in MayHold(Lower(c))
    BY <1>0, <1>2 DEF MadeOf
  <2> QED BY <1>2, <2>1, <2>2, GivenBelow
<1>3. ASSUME p.op \in {"array", "contains"}, NEW i \in DOMAIN p.entries
      PROVE  f[<<p.entries[i], c.entries[i]>>] = g[<<p.entries[i], c.entries[i]>>]
  <2>1. p.entries \in Seq(Lower(p)) /\ c.entries \in Seq(Lower(c)) /\ Len(p.entries) = Len(c.entries)
    BY <1>0, <1>3 DEF MadeOf, SameNode
  <2>2. p.entries[i] \in Lower(p) /\ c.entries[i] \in Lower(c)
    BY <1>3, <2>1
  <2> QED BY <2>2
<1>4. p.op = "each-like" => f[<<p.items, c.items>>] = g[<<p.items, c.items>>]
  BY <1>0 DEF MadeOf
<1>5. p.op = "each-entry" =>
        /\ f[<<p.values, c.values>>] = g[<<p.values, c.values>>]
        /\ \A k \in p.keys, l \in c.keys : f[<<k, l>>] = g[<<k, l>>]
  BY <1>0 DEF MadeOf
<1>6. p.op \in {"optional", "nullable"} => f[<<p.of, c.of>>] = g[<<p.of, c.of>>]
  BY <1>0 DEF MadeOf
<1> QED BY <1>1, <1>2, <1>3, <1>4, <1>5, <1>6 DEF SameNode

\* Whether two shapes are the same but for their examples is decided as SameNode says.
LEMMA SameUnfolds ==
  /\ \A p, c : SameAdmits(p, c) = sameAdmitsSolution[<<p, c>>]
  /\ \A p, c \in Shape : SameAdmits(p, c) = SameNode(sameAdmitsSolution, p, c)
<1> DEFINE S == Shape \X Shape
           rank == [x \in S |-> shapeRank[x[1]]]
           D == [f \in [S -> BOOLEAN] |-> [x \in S |-> SameNode(f, x[1], x[2])]]
<1>1. rank \in [S -> Nat]
  BY ShapeRankFacts
<1>2. D \in [[S -> BOOLEAN] -> [S -> BOOLEAN]]
  BY DEF SameNode
<1>3. ASSUME NEW f \in [S -> BOOLEAN], NEW g \in [S -> BOOLEAN], NEW x \in S,
             \A y \in S : rank[y] < rank[x] => f[y] = g[y]
      PROVE  D[f][x] = D[g][x]
  <2> DEFINE p == x[1]
             c == x[2]
  <2>0. p \in Shape /\ c \in Shape /\ rank[x] = shapeRank[p]
    OBVIOUS
  <2>1. ASSUME NEW a \in Lower(p), NEW b \in Lower(c) PROVE f[<<a, b>>] = g[<<a, b>>]
    <3>1. <<a, b>> \in S /\ rank[<<a, b>>] = shapeRank[a] /\ shapeRank[a] < shapeRank[p]
      BY <2>1 DEF Lower
    <3> QED BY <1>3, <2>0, <3>1
  <2> HIDE DEF p, c
  <2>2. SameNode(f, p, c) => SameNode(g, p, c)
    BY <2>0, <2>1, SameReadsBelow
  <2>3. SameNode(g, p, c) => SameNode(f, p, c)
    <3>1. \A a \in Lower(p), b \in Lower(c) : g[<<a, b>>] = f[<<a, b>>]
      BY <2>1
    <3> QED BY <2>0, <3>1, SameReadsBelow
  <2>4. SameNode(f, p, c) = SameNode(g, p, c)
    BY <2>2, <2>3 DEF SameNode
  <2> QED BY <2>4 DEF p, c
<1> HIDE DEF S, rank, D
<1>4. Recurs(S, BOOLEAN, rank, D)
  BY <1>1, <1>2, <1>3 DEF Recurs
<1>5. PICK f \in [S -> BOOLEAN] : f = D[f]
  BY <1>4, Recursion
<1>6. f = [x \in ShapeOf(Depth) \X ShapeOf(Depth) |-> SameNode(f, x[1], x[2])]
  BY <1>5 DEF D, S, Shape
<1>7. sameAdmitsSolution =
        [x \in ShapeOf(Depth) \X ShapeOf(Depth) |-> SameNode(sameAdmitsSolution, x[1], x[2])]
  BY <1>6 DEF sameAdmitsSolution
<1>8. \A p, c \in Shape : sameAdmitsSolution[<<p, c>>] = SameNode(sameAdmitsSolution, p, c)
  BY <1>7 DEF Shape
<1>9. \A p, c : SameAdmits(p, c) = sameAdmitsSolution[<<p, c>>]
  BY DEF SameAdmits, sameAdmitsSolution
<1> QED BY <1>8, <1>9

\* What two nodes that are the same have in common.
LEMMA SameParts ==
  ASSUME NEW p \in Shape, NEW c \in Shape, SameAdmits(p, c)
  PROVE  /\ p.op = c.op
         /\ p.op = "equality" => SameValue(Example(p), Example(c))
         /\ p.op = "type" => Example(p).is = Example(c).is
         /\ p.op = "kind" => p.kind = c.kind
         /\ p.op = "component" => p.operator = c.operator
         /\ p.op \in TextOps => p.parameter = c.parameter
         /\ p.op = "object" =>
              /\ Given(p.members) = Given(c.members)
              /\ \A n \in Given(p.members) : SameAdmits(p.members[n], c.members[n])
         /\ p.op \in {"array", "contains"} =>
              /\ Len(p.entries) = Len(c.entries)
              /\ \A i \in DOMAIN p.entries : SameAdmits(p.entries[i], c.entries[i])
         /\ p.op \in {"each-like", "each-entry"} => p.min = c.min /\ p.max = c.max
         /\ p.op = "each-like" => SameAdmits(p.items, c.items)
         /\ p.op = "each-entry" =>
              /\ SameAdmits(p.values, c.values)
              /\ p.keys = {} <=> c.keys = {}
              /\ \A k \in p.keys, l \in c.keys : SameAdmits(k, l)
         /\ p.op \in {"optional", "nullable"} => SameAdmits(p.of, c.of)
         /\ p.op = "any-of" =>
              /\ Len(p.options) = Len(c.options)
              /\ \A o \in Range(p.options) : \E q \in Range(c.options) : SameValue(o, q)
         /\ p.op = "one-of" =>
              /\ p.discriminator = c.discriminator
              /\ Given(p.alternatives) = Given(c.alternatives)
              /\ \A n \in Given(p.alternatives) : SameAdmits(p.alternatives[n], c.alternatives[n])
<1>1. SameNode(sameAdmitsSolution, p, c)
  BY SameUnfolds
<1>2. \A a, b : sameAdmitsSolution[<<a, b>>] = SameAdmits(a, b)
  BY SameUnfolds
<1> QED BY <1>1, <1>2 DEF SameNode

\* As many options, each one of the other's, are the other's options.
LEMMA OptionsBack ==
  ASSUME NEW p \in Shape, NEW c \in Shape, p.op = "any-of", c.op = "any-of", Read(p), Read(c),
         SameAdmits(p, c)
  PROVE  \A q \in Range(c.options) : \E o \in Range(p.options) : SameValue(q, o)
<1>1. p.options \in Seq(Present) /\ c.options \in Seq(Present)
  BY ShapeParts DEF MadeOf
<1>2. AnyOfParses(p) /\ AnyOfParses(c)
  BY ParsesFacts DEF Read
<1>3. \A i, j \in DOMAIN p.options : i # j => ~SameValue(p.options[i], p.options[j])
  BY <1>2 DEF AnyOfParses
<1> DEFINE n == Len(p.options)
           x == p.options
           y == c.options
<1>4. n \in Nat /\ DOMAIN x = 1..n /\ DOMAIN y = 1..n
  BY <1>1, SameParts
<1>5. \A i \in 1..n : \E j \in 1..n : SameValue(x[i], y[j])
  <2>1. \A o \in Range(p.options) : \E q \in Range(c.options) : SameValue(o, q)
    BY SameParts
  <2>2. \A i \in DOMAIN x : \E j \in DOMAIN y : SameValue(x[i], y[j])
    <3> HIDE DEF n
    <3> QED BY <2>1 DEF Range
  <2> QED BY <1>4, <2>2
<1>6. \A i \in 1..n : x[i] \in Value /\ y[i] \in Value
  BY <1>1, <1>4, ScalarsPresent
<1> HIDE DEF n, x, y
<1>7. ASSUME NEW k \in 1..n, \A i \in 1..n : ~SameValue(y[k], x[i]) PROVE FALSE
  <2> DEFINE T == (1..n) \ {k}
             f == [i \in 1..n |-> CHOOSE j \in 1..n : SameValue(x[i], y[j])]
  <2>1. \A i \in 1..n : f[i] \in 1..n /\ SameValue(x[i], y[f[i]])
    BY <1>5
  <2>2. \A i \in 1..n : f[i] # k
    BY <1>6, <1>7, <2>1, EqualSymmetric
  <2>3. f \in [1..n -> T]
    BY <2>1, <2>2
  <2>4. IsFiniteSet(1..n) /\ Cardinality(1..n) = n
    <3>1. 1 \in Int /\ n \in Int
      BY <1>4
    <3>2. IsFiniteSet(1..n) /\ Cardinality(1..n) = IF 1 > n THEN 0 ELSE n - 1 + 1
      BY <3>1, FS_Interval
    <3> QED BY <1>4, <3>2
  <2>5. IsFiniteSet(T) /\ Cardinality(T) = n - 1
    BY <1>7, <2>4, FS_RemoveElement
  <2>6. Cardinality(T) < Cardinality(1..n)
    BY <1>4, <2>4, <2>5
  <2> HIDE DEF f, T
  <2>7. \E i, j \in 1..n : i # j /\ f[i] = f[j]
    <3> DEFINE S == 1..n
    <3>1. IsFiniteSet(S) /\ IsFiniteSet(T) /\ Cardinality(T) < Cardinality(S) /\ f \in [S -> T]
      BY <2>3, <2>4, <2>5, <2>6
    <3> HIDE DEF S
    <3>2. \E i, j \in S : i # j /\ f[i] = f[j]
      BY <3>1, FS_PigeonHole
    <3> QED BY <3>2 DEF S
  <2>a. PICK i \in 1..n, j \in 1..n : i # j /\ f[i] = f[j]
    BY <2>7
  <2>8. SameValue(x[i], y[f[i]]) /\ SameValue(y[f[i]], x[j])
    <3>1. SameValue(x[j], y[f[i]]) /\ f[i] \in 1..n
      BY <2>1, <2>a
    <3> QED BY <1>6, <2>1, <3>1, EqualSymmetric
  <2>9. SameValue(x[i], x[j])
    BY <1>6, <2>1, <2>8, EqualTransitive
  <2> QED BY <1>3, <1>4, <2>a, <2>9 DEF x
<1>8. \A k \in 1..n : \E i \in 1..n : SameValue(y[k], x[i])
  BY <1>7
<1> QED BY <1>4, <1>8 DEF x, y, Range

\* Being the same is symmetric.
LEMMA SameSymmetric ==
  \A p, c \in Shape : Read(p) /\ Read(c) /\ SameAdmits(p, c) => SameAdmits(c, p)
<1> DEFINE S == {p \in Shape : \A c \in Shape :
                   Read(p) /\ Read(c) /\ SameAdmits(p, c) => SameAdmits(c, p)}
<1>1. ASSUME NEW p \in Shape, \A t \in Shape : shapeRank[t] < shapeRank[p] => t \in S
      PROVE  p \in S
  <2> SUFFICES ASSUME NEW c \in Shape, Read(p), Read(c), SameAdmits(p, c) PROVE SameAdmits(c, p)
    OBVIOUS
  <2> DEFINE g == sameAdmitsSolution
  <2>1. ASSUME NEW a \in ReadBelow(p), NEW b \in ReadBelow(c), SameAdmits(a, b)
        PROVE  g[<<b, a>>]
    <3>1. a \in Shape /\ shapeRank[a] < shapeRank[p] /\ Read(a) /\ b \in Shape /\ Read(b)
      BY DEF ReadBelow, Lower
    <3>2. SameAdmits(b, a)
      BY <1>1, <2>1, <3>1
    <3> QED BY <3>2, SameUnfolds
  <2>2. p.op = c.op /\ MadeOf(Lower(p), p) /\ MadeOf(Lower(c), c)
    BY SameParts, ShapeParts
  <2> HIDE DEF g
  <2>3. ASSUME c.op = "object"
        PROVE  /\ Given(c.members) = Given(p.members)
               /\ \A n \in Given(c.members) : g[<<c.members[n], p.members[n]>>]
    BY <2>1, <2>2, <2>3, SameParts, ReadParts
  <2>4. ASSUME c.op = "one-of"
        PROVE  /\ c.discriminator = p.discriminator
               /\ Given(c.alternatives) = Given(p.alternatives)
               /\ \A n \in Given(c.alternatives) : g[<<c.alternatives[n], p.alternatives[n]>>]
    BY <2>1, <2>2, <2>4, SameParts, ReadParts
  <2>5. ASSUME c.op \in {"array", "contains"}
        PROVE  /\ Len(c.entries) = Len(p.entries)
               /\ \A i \in DOMAIN c.entries : g[<<c.entries[i], p.entries[i]>>]
    <3>1. /\ Len(c.entries) = Len(p.entries)
          /\ \A i \in DOMAIN p.entries : SameAdmits(p.entries[i], c.entries[i])
      BY <2>2, <2>5, SameParts
    <3>2. /\ \A i \in DOMAIN p.entries : p.entries[i] \in ReadBelow(p)
          /\ \A i \in DOMAIN c.entries : c.entries[i] \in ReadBelow(c)
      BY <2>2, <2>5, ReadParts
    <3>3. DOMAIN c.entries = DOMAIN p.entries
      BY <2>2, <2>5, <3>1 DEF MadeOf
    <3> QED BY <2>1, <3>1, <3>2, <3>3
  <2>6. c.op \in {"each-like", "each-entry"} => c.min = p.min /\ c.max = p.max
    BY <2>2, SameParts
  <2>7. c.op = "each-like" => g[<<c.items, p.items>>]
    BY <2>1, <2>2, SameParts, ReadParts
  <2>8. ASSUME c.op = "each-entry"
        PROVE  /\ g[<<c.values, p.values>>] /\ (c.keys = {}) = (p.keys = {})
               /\ \A l \in c.keys, k \in p.keys : g[<<l, k>>]
    <3>1. /\ SameAdmits(p.values, c.values)
          /\ p.keys = {} <=> c.keys = {}
          /\ \A k \in p.keys, l \in c.keys : SameAdmits(k, l)
      BY <2>2, <2>8, SameParts
    <3>2. /\ p.values \in ReadBelow(p) /\ c.values \in ReadBelow(c)
          /\ p.keys \subseteq ReadBelow(p) /\ c.keys \subseteq ReadBelow(c)
      BY <2>2, <2>8, ReadParts
    <3> QED BY <2>1, <3>1, <3>2
  <2>9. c.op \in {"optional", "nullable"} => g[<<c.of, p.of>>]
    BY <2>1, <2>2, SameParts, ReadParts
  <2>10. ASSUME c.op = "any-of"
         PROVE  /\ Len(c.options) = Len(p.options)
                /\ \A q \in Range(c.options) : \E o \in Range(p.options) : SameValue(q, o)
    <3>1. Len(c.options) = Len(p.options)
      BY <2>2, <2>10, SameParts
    <3> QED BY <2>2, <2>10, <3>1, OptionsBack
  <2>11. c.op = "equality" => SameValue(Example(c), Example(p))
    <3>1. c.op = "equality" => Example(c) \in Value /\ Example(p) \in Value
      BY <2>2, ScalarsPresent DEF MadeOf
    <3> QED BY <2>2, <3>1, SameParts, EqualSymmetric
  <2>12. /\ c.op = "type" => Example(c).is = Example(p).is
         /\ c.op = "kind" => c.kind = p.kind
         /\ c.op = "component" => c.operator = p.operator
         /\ c.op \in TextOps => c.parameter = p.parameter
    BY <2>2, SameParts
  <2>13. SameNode(g, c, p)
    BY <2>2, <2>3, <2>4, <2>5, <2>6, <2>7, <2>8, <2>9, <2>10, <2>11, <2>12 DEF SameNode
  <2> QED BY <2>13, SameUnfolds DEF g
<1>2. Shape \subseteq S
  <2> HIDE DEF S
  <2> QED BY <1>1, ShapeInduction
<1> QED BY <1>2

\* Where the literals of an alternative come from.
TagOf(s, d) == Object(s).members[d]

\* A literal of an alternative is one its discriminator admits.
LEMMA LiteralFacts ==
  ASSUME NEW s \in Shape, NEW d \in Name, NEW l \in Literals(s, d)
  PROVE  /\ l \in Present /\ Object(s) \in Shape /\ Object(s).op = "object"
         /\ d \in Given(Object(s).members) /\ TagOf(s, d) \in Lower(Object(s))
         /\ \/ TagOf(s, d).op = "equality" /\ l = Example(TagOf(s, d))
            \/ TagOf(s, d).op = "any-of" /\ l \in Range(TagOf(s, d).options)
<1> DEFINE o == Object(s)
           t == TagOf(s, d)
<1>1. o \in Shape
  <2>1. CASE s.op = "nullable"
    <3>1. s.of \in Shape
      BY <2>1, ShapeParts DEF MadeOf, Lower
    <3> QED BY <2>1, <3>1 DEF Object
  <2>2. CASE s.op # "nullable"
    BY <2>2 DEF Object
  <2> QED BY <2>1, <2>2
<1>2. /\ o.op = "object"
      /\ \/ t.op = "equality" /\ l = Example(t)
         \/ t.op = "any-of" /\ l \in Range(t.options)
  BY DEF Literals, TagOf
<1>3. t = o.members[d]
  BY DEF TagOf
<1> HIDE DEF o, t
<1>4. o.members \in MayHold(Lower(o))
  BY <1>1, <1>2, ShapeParts DEF MadeOf
<1>5. d \in Given(o.members)
  BY <1>2, <1>3 DEF Given, None
<1>6. t \in Lower(o)
  BY <1>3, <1>4, <1>5, GivenBelow
<1>7. t \in Shape
  BY <1>6 DEF Lower
<1>8. l \in Present
  <2>1. t.op = "equality" => Example(t) \in Present
    BY <1>7, ShapeParts DEF MadeOf
  <2>2. t.op = "any-of" => \A x \in Range(t.options) : x \in Present
    <3>1. t.op = "any-of" => t.options \in Seq(Present)
      BY <1>7, ShapeParts DEF MadeOf
    <3> QED BY <3>1 DEF Range
  <2> QED BY <1>2, <2>1, <2>2
<1> QED BY <1>1, <1>2, <1>5, <1>6, <1>8 DEF o, t

\* A literal of a node is one of a node that is the same.
LEMMA SameLiterals ==
  ASSUME NEW p \in Shape, NEW c \in Shape, Read(p), Read(c), SameAdmits(p, c), NEW d \in Name,
         NEW l \in Literals(p, d)
  PROVE  \E m \in Literals(c, d) : SameValue(l, m)
<1> DEFINE o == Object(p)
           u == Object(c)
           t == TagOf(p, d)
           r == TagOf(c, d)
<1>1. /\ o \in Shape /\ o.op = "object" /\ d \in Given(o.members) /\ t \in Lower(o)
      /\ \/ t.op = "equality" /\ l = Example(t)
         \/ t.op = "any-of" /\ l \in Range(t.options)
  BY LiteralFacts
<1>2. u \in Shape /\ SameAdmits(o, u)
  <2>1. CASE p.op = "nullable"
    <3>1. c.op = "nullable" /\ SameAdmits(p.of, c.of)
      BY <2>1, SameParts
    <3>2. c.of \in Shape
      BY <3>1, ShapeParts DEF MadeOf, Lower
    <3> QED BY <2>1, <3>1, <3>2 DEF Object
  <2>2. CASE p.op # "nullable"
    <3>1. c.op # "nullable"
      BY <2>2, SameParts
    <3> QED BY <2>2, <3>1 DEF Object
  <2> QED BY <2>1, <2>2
<1>3. t = o.members[d] /\ r = u.members[d]
  BY DEF TagOf
<1>a. Literals(c, d) = (IF u.op # "object" THEN {}
                        ELSE CASE r.op = "equality" -> {Example(r)}
                               [] r.op = "any-of"   -> Range(r.options)
                               [] OTHER -> {})
  BY DEF Literals, TagOf
<1> HIDE DEF o, t, u, r
<1>4. u.op = "object" /\ d \in Given(u.members) /\ SameAdmits(t, r)
  BY <1>1, <1>2, <1>3, SameParts
<1>5. r \in Shape
  <2>1. u.members \in MayHold(Lower(u))
    BY <1>2, <1>4, ShapeParts DEF MadeOf
  <2>2. r \in Lower(u)
    BY <1>3, <1>4, <2>1, GivenBelow
  <2> QED BY <2>2 DEF Lower
<1>6. t \in Shape
  BY <1>1 DEF Lower
<1>7. r.op = t.op
  BY <1>4, <1>5, <1>6, SameParts
<1>8. CASE t.op = "equality"
  <2>1. SameValue(Example(t), Example(r))
    BY <1>4, <1>5, <1>6, <1>8, SameParts
  <2> QED BY <1>1, <1>4, <1>7, <1>8, <1>a, <2>1
<1>9. CASE t.op = "any-of"
  <2>1. \A x \in Range(t.options) : \E y \in Range(r.options) : SameValue(x, y)
    BY <1>4, <1>5, <1>6, <1>9, SameParts
  <2> QED BY <1>1, <1>4, <1>7, <1>9, <1>a, <2>1
<1> QED BY <1>1, <1>8, <1>9

\* Two nodes admit the same values.
Agree(a, b) == \A v \in Value, at1, at2 \in Path : Adm(a, v, at1) <=> Adm(b, v, at2)

\* The floor, one node, one way, given that it is right of the nodes below.
LEMMA SameForward ==
  ASSUME NEW p \in Shape, NEW c \in Shape, Read(p), Read(c), SameAdmits(p, c),
         \A a \in ReadBelow(p), b \in ReadBelow(c) : SameAdmits(a, b) => Agree(a, b),
         NEW v \in Value, NEW at1 \in Path, NEW at2 \in Path, Adm(p, v, at1)
  PROVE  Adm(c, v, at2)
<1>0. p.op = c.op /\ MadeOf(Lower(p), p) /\ MadeOf(Lower(c), c)
  BY SameParts, ShapeParts
<1>a. ASSUME NEW a \in ReadBelow(p), NEW b \in ReadBelow(c), SameAdmits(a, b),
             NEW w \in Value, NEW x \in Path, NEW y \in Path
      PROVE  Adm(a, w, x) <=> Adm(b, w, y)
  BY <1>a DEF Agree
<1>1. CASE p.op \in {"any", "not-empty", "forbidden", "type", "kind", "component"} \cup TextOps
  <2>1. CASE p.op \in {"any", "not-empty", "forbidden"}
    <3>1. \/ p.op = "any" /\ v.is # "absent"
          \/ p.op = "not-empty" /\ ~IsEmpty(v)
          \/ p.op = "forbidden" /\ v.is = "absent"
      BY <2>1, AdmLeaf
    <3> QED BY <1>0, <3>1, AdmLeaf
  <2>2. CASE p.op = "type"
    <3>1. v.is = Example(p).is
      BY <2>2, AdmLeaf
    <3>2. Example(p).is = Example(c).is
      BY <2>2, SameParts
    <3> QED BY <1>0, <2>2, <3>1, <3>2, AdmLeaf
  <2>3. CASE p.op = "kind"
    <3>1. OfKind(p.kind, v)
      BY <2>3, AdmLeaf
    <3>2. p.kind = c.kind
      BY <2>3, SameParts
    <3> QED BY <1>0, <2>3, <3>1, <3>2, AdmLeaf
  <2>4. CASE p.op = "component"
    <3>1. v \in Contributed[p.operator]
      BY <2>4, AdmLeaf
    <3>2. p.operator = c.operator
      BY <2>4, SameParts
    <3> QED BY <1>0, <2>4, <3>1, <3>2, AdmLeaf
  <2>5. CASE p.op \in TextOps
    <3>1. Readable(p.op, v) \cap Language[<<p.op, p.parameter>>] # {} /\ p.parameter = c.parameter
      BY <2>5, SameParts, AdmLeaf
    <3> QED BY <1>0, <2>5, <3>1, AdmLeaf
  <2> QED BY <1>1, <2>1, <2>2, <2>3, <2>4, <2>5
<1>2. CASE p.op = "equality"
  <2>1. SameValue(v, Example(p)) /\ SameValue(Example(p), Example(c))
    BY <1>2, SameParts, AdmLeaf
  <2>2. Example(p) \in Value /\ Example(c) \in Value
    BY <1>0, <1>2, ScalarsPresent DEF MadeOf
  <2>3. SameValue(v, Example(c))
    BY <2>1, <2>2, EqualTransitive
  <2> QED BY <1>0, <1>2, <2>3, AdmLeaf
<1>3. CASE p.op = "object"
  <2>1. v.is = "object"
    BY <1>3, AdmNested
  <2>a. \A n \in Given(p.members) : Adm(p.members[n], v.members[n], Append(at1, InMember(n)))
    BY <1>3, AdmNested
  <2>2. ASSUME NEW n \in Given(c.members)
        PROVE  Adm(c.members[n], v.members[n], Append(at2, InMember(n)))
    <3>1. /\ n \in Given(p.members) /\ n \in Name /\ SameAdmits(p.members[n], c.members[n])
          /\ p.members[n] \in ReadBelow(p) /\ c.members[n] \in ReadBelow(c)
      BY <1>0, <1>3, SameParts, ReadParts
    <3>2. Append(at1, InMember(n)) \in Path /\ Append(at2, InMember(n)) \in Path
      BY <3>1, StepFacts
    <3>3. v.members[n] \in Value
      BY <2>1, <3>1, ValueFacts
    <3> QED BY <1>a, <2>a, <3>1, <3>2, <3>3
  <2> QED BY <1>0, <1>3, <2>1, <2>2, AdmNested
<1>4. CASE p.op = "array"
  <2>1. v.is = "array" /\ Len(v.items) = Len(p.entries) /\ Len(p.entries) = Len(c.entries)
    BY <1>4, AdmNested, SameParts
  <2>a. \A i \in DOMAIN p.entries : Adm(p.entries[i], v.items[i], Append(at1, Index(i)))
    BY <1>4, AdmNested
  <2>b. p.entries \in Seq(Lower(p)) /\ c.entries \in Seq(Lower(c)) /\ v.items \in Seq(Present)
    BY <1>0, <1>4, <2>1, ValueFacts DEF MadeOf
  <2>c. DOMAIN c.entries = DOMAIN p.entries /\ DOMAIN v.items = DOMAIN p.entries
    BY <2>1, <2>b
  <2>2. ASSUME NEW i \in DOMAIN c.entries
        PROVE  Adm(c.entries[i], v.items[i], Append(at2, Index(i)))
    <3>1. /\ i \in DOMAIN p.entries /\ i \in Nat /\ SameAdmits(p.entries[i], c.entries[i])
          /\ p.entries[i] \in ReadBelow(p) /\ c.entries[i] \in ReadBelow(c)
      BY <1>0, <1>4, <2>c, SameParts, ReadParts
    <3>2. Append(at1, Index(i)) \in Path /\ Append(at2, Index(i)) \in Path
      BY <3>1, StepFacts
    <3>3. v.items[i] \in Value
      BY <2>1, <2>c, <3>1, ValueFacts
    <3> QED BY <1>a, <2>a, <3>1, <3>2, <3>3
  <2> QED BY <1>0, <1>4, <2>1, <2>2, AdmNested
<1>5. CASE p.op = "each-like"
  <2>1. /\ v.is = "array" /\ Within(Len(v.items), p)
        /\ \A i \in DOMAIN v.items : Adm(p.items, v.items[i], Append(at1, EachItem))
    BY <1>5, AdmNested
  <2>2. SameAdmits(p.items, c.items) /\ p.items \in ReadBelow(p) /\ c.items \in ReadBelow(c)
        /\ Append(at1, EachItem) \in Path /\ Append(at2, EachItem) \in Path
    BY <1>0, <1>5, SameParts, ReadParts, StepFacts
  <2>3. \A i \in DOMAIN v.items : v.items[i] \in Value
    BY <2>1, ValueFacts
  <2>4. \A i \in DOMAIN v.items : Adm(c.items, v.items[i], Append(at2, EachItem))
    BY <1>a, <2>1, <2>2, <2>3
  <2>5. Within(Len(v.items), c)
    <3>1. p.min = c.min /\ p.max = c.max
      BY <1>5, SameParts
    <3> QED BY <2>1, <3>1 DEF Within
  <2> QED BY <1>0, <1>5, <2>1, <2>4, <2>5, AdmNested
<1>6. CASE p.op = "each-entry"
  <2>1. /\ v.is = "object" /\ Within(Cardinality(MemberNames(v)), p)
        /\ \A n \in MemberNames(v) :
             /\ Adm(p.values, v.members[n], Append(at1, EachValue))
             /\ \A k \in p.keys : Adm(k, Text(n), Append(at1, EachKey))
    BY <1>6, AdmNested
  <2>2. /\ SameAdmits(p.values, c.values)
        /\ p.keys = {} <=> c.keys = {}
        /\ \A k \in p.keys, l \in c.keys : SameAdmits(k, l)
        /\ p.min = c.min /\ p.max = c.max
    BY <1>6, SameParts
  <2>3. /\ p.values \in ReadBelow(p) /\ c.values \in ReadBelow(c)
        /\ p.keys \subseteq ReadBelow(p) /\ c.keys \subseteq ReadBelow(c)
    BY <1>0, <1>6, ReadParts
  <2>4. /\ Append(at1, EachValue) \in Path /\ Append(at2, EachValue) \in Path
        /\ Append(at1, EachKey) \in Path /\ Append(at2, EachKey) \in Path
    BY StepFacts
  <2>5. Within(Cardinality(MemberNames(v)), c)
    BY <2>1, <2>2 DEF Within
  <2>6. ASSUME NEW n \in MemberNames(v)
        PROVE  /\ Adm(c.values, v.members[n], Append(at2, EachValue))
               /\ \A k \in c.keys : Adm(k, Text(n), Append(at2, EachKey))
    <3>1. n \in Name
      BY DEF MemberNames
    <3>2. v.members[n] \in Value /\ Text(n) \in Value
      BY <2>1, <3>1, ValueFacts, TextFacts
    <3>3. Adm(c.values, v.members[n], Append(at2, EachValue))
      BY <1>a, <2>1, <2>2, <2>3, <2>4, <3>2
    <3>4. ASSUME NEW l \in c.keys PROVE Adm(l, Text(n), Append(at2, EachKey))
      <4>1. PICK k \in p.keys : TRUE
        BY <2>2
      <4> QED BY <1>a, <2>1, <2>2, <2>3, <2>4, <3>2, <4>1
    <3> QED BY <3>3, <3>4
  <2> QED BY <1>0, <1>6, <2>1, <2>5, <2>6, AdmNested
<1>7. CASE p.op \in {"optional", "nullable"}
  <2>1. v.is = (IF p.op = "optional" THEN "absent" ELSE "null") \/ Adm(p.of, v, at1)
    BY <1>7, AdmNested
  <2>2. SameAdmits(p.of, c.of) /\ p.of \in ReadBelow(p) /\ c.of \in ReadBelow(c)
    BY <1>0, <1>7, SameParts, ReadParts
  <2>3. Adm(p.of, v, at1) <=> Adm(c.of, v, at2)
    BY <1>a, <2>2
  <2> QED BY <1>0, <1>7, <2>1, <2>3, AdmNested
<1>8. CASE p.op = "any-of"
  <2>1. PICK o \in Range(p.options) : SameValue(v, o)
    BY <1>8, AdmNested
  <2>2. PICK q \in Range(c.options) : SameValue(o, q)
    BY <1>8, SameParts
  <2>3. p.options \in Seq(Present) /\ c.options \in Seq(Present)
    BY <1>0, <1>8 DEF MadeOf
  <2>4. o \in Value /\ q \in Value
    BY <2>3, ScalarsPresent DEF Range
  <2>5. SameValue(v, q)
    BY <2>1, <2>2, <2>4, EqualTransitive
  <2> QED BY <1>0, <1>8, <2>5, AdmNested
<1>9. CASE p.op = "one-of"
  <2>1. PICK n \in Selected(p, v) : Adm(p.alternatives[n], v, Append(at1, InAlternative(n)))
    BY <1>9, AdmNested
  <2>2. /\ p.discriminator = c.discriminator /\ p.discriminator \in Name
        /\ Given(p.alternatives) = Given(c.alternatives)
        /\ \A m \in Given(p.alternatives) : SameAdmits(p.alternatives[m], c.alternatives[m])
    BY <1>0, <1>9, SameParts DEF MadeOf
  <2>3. /\ n \in Given(p.alternatives)
        /\ \E l \in Literals(p.alternatives[n], p.discriminator) :
             SameValue(Member(v, p.discriminator), l)
    BY DEF Selected
  <2>4. /\ n \in Name /\ p.alternatives[n] \in ReadBelow(p) /\ c.alternatives[n] \in ReadBelow(c)
        /\ SameAdmits(p.alternatives[n], c.alternatives[n])
    BY <1>0, <1>9, <2>2, <2>3, ReadParts
  <2>5. /\ p.alternatives[n] \in Shape /\ Read(p.alternatives[n])
        /\ c.alternatives[n] \in Shape /\ Read(c.alternatives[n])
    BY <2>4 DEF ReadBelow, Lower
  <2>6. PICK l \in Literals(p.alternatives[n], p.discriminator) :
          SameValue(Member(v, p.discriminator), l)
    BY <2>3
  <2>7. PICK m \in Literals(c.alternatives[n], p.discriminator) : SameValue(l, m)
    BY <2>2, <2>4, <2>5, SameLiterals
  <2>8. l \in Value /\ m \in Value
    BY <2>2, <2>5, LiteralFacts, ScalarsPresent
  <2>9. Member(v, p.discriminator) \in Value
    BY <2>2, ValueFacts, AbsentFacts DEF Member
  <2>10. SameValue(Member(v, p.discriminator), m)
    BY <2>6, <2>7, <2>8, <2>9, EqualTransitive
  <2>11. n \in Selected(c, v)
    BY <2>2, <2>3, <2>10 DEF Selected
  <2>12. Append(at1, InAlternative(n)) \in Path /\ Append(at2, InAlternative(n)) \in Path
    BY <2>4, StepFacts
  <2>13. Adm(c.alternatives[n], v, Append(at2, InAlternative(n)))
    BY <1>a, <2>1, <2>4, <2>12
  <2> QED BY <1>0, <1>9, <2>11, <2>13, AdmNested
<1>10. CASE p.op = "contains"
  <2> DEFINE m == Matcher(<<>>)
             U1(claim, i) == Unclaimed(m, p, v, at1, claim, i)
             U2(claim, i) == Unclaimed(m, c, v, at2, claim, i)
  <2>0. v.is = "array" /\ Len(p.entries) = Len(c.entries)
        /\ p.entries \in Seq(Lower(p)) /\ c.entries \in Seq(Lower(c))
    BY <1>0, <1>10, AdmContains, SameParts DEF AdmitsContains, MadeOf
  <2>c. DOMAIN c.entries = DOMAIN p.entries
    BY <2>0
  <2>1. ASSUME NEW i \in DOMAIN p.entries, NEW j \in DOMAIN v.items
        PROVE  Adm(p.entries[i], v.items[j], Append(at1, Index(i)))
                 <=> Adm(c.entries[i], v.items[j], Append(at2, Index(i)))
    <3>1. /\ i \in Nat /\ SameAdmits(p.entries[i], c.entries[i])
          /\ p.entries[i] \in ReadBelow(p) /\ c.entries[i] \in ReadBelow(c)
      BY <1>0, <1>10, <2>c, SameParts, ReadParts
    <3>2. Append(at1, Index(i)) \in Path /\ Append(at2, Index(i)) \in Path
      BY <3>1, StepFacts
    <3>3. v.items[j] \in Value
      BY <2>0, ValueFacts
    <3> QED BY <1>a, <3>1, <3>2, <3>3
  <2>2. \A i \in DOMAIN p.entries, j \in DOMAIN v.items :
          m[<<p.entries[i], v.items[j], Append(at1, Index(i))>>]
            <=> m[<<c.entries[i], v.items[j], Append(at2, Index(i))>>]
    BY <2>1 DEF Adm, Admits
  <2> HIDE DEF m
  <2>3. ASSUME NEW claim, NEW i \in DOMAIN p.entries PROVE U1(claim, i) = U2(claim, i)
    <3>1. \A j : j \in U1(claim, i) <=> j \in U2(claim, i)
      BY <2>2 DEF Unclaimed
    <3> QED BY <3>1
  <2>4. PICK claim \in [DOMAIN p.entries -> DOMAIN v.items] :
          \A i \in DOMAIN p.entries :
            LET free == U1(claim, i)
            IN  claim[i] \in free /\ \A j \in free : claim[i] <= j
    BY <1>10, AdmContains DEF AdmitsContains, m
  <2>5. \A i \in DOMAIN c.entries :
          LET free == U2(claim, i)
          IN  claim[i] \in free /\ \A j \in free : claim[i] <= j
    BY <2>3, <2>4, <2>c
  <2>6. claim \in [DOMAIN c.entries -> DOMAIN v.items]
    BY <2>4, <2>c
  <2>7. AdmitsContains(m, c, v, at2)
    BY <2>0, <2>5, <2>6 DEF AdmitsContains
  <2> QED BY <1>0, <1>10, <2>7, AdmContains DEF m
<1> QED BY <1>0, <1>1, <1>2, <1>3, <1>4, <1>5, <1>6, <1>7, <1>8, <1>9, <1>10 DEF MadeOf, LeafOps

\* Nodes that are the same admit the same values.
LEMMA SameAgree ==
  \A p, c \in Shape : Read(p) /\ Read(c) /\ SameAdmits(p, c) => Agree(p, c)
<1> DEFINE S == {p \in Shape : \A c \in Shape :
                   Read(p) /\ Read(c) /\ SameAdmits(p, c) => Agree(p, c)}
<1>1. ASSUME NEW p \in Shape, \A t \in Shape : shapeRank[t] < shapeRank[p] => t \in S
      PROVE  p \in S
  <2> SUFFICES ASSUME NEW c \in Shape, Read(p), Read(c), SameAdmits(p, c) PROVE Agree(p, c)
    OBVIOUS
  <2>1. ASSUME NEW a \in ReadBelow(p), NEW b \in ReadBelow(c), SameAdmits(a, b) PROVE Agree(a, b)
    <3>1. /\ a \in Shape /\ Read(a) /\ shapeRank[a] < shapeRank[p] /\ b \in Shape /\ Read(b)
      BY DEF ReadBelow, Lower
    <3> QED BY <1>1, <2>1, <3>1
  <2>2. ASSUME NEW b \in ReadBelow(c), NEW a \in ReadBelow(p), SameAdmits(b, a) PROVE Agree(b, a)
    <3>1. /\ a \in Shape /\ Read(a) /\ b \in Shape /\ Read(b)
      BY DEF ReadBelow, Lower
    <3>2. SameAdmits(a, b)
      BY <2>2, <3>1, SameSymmetric
    <3>3. Agree(a, b)
      BY <2>1, <3>2
    <3> QED BY <3>3 DEF Agree
  <2>3. SameAdmits(c, p)
    BY SameSymmetric
  <2>4. ASSUME NEW v \in Value, NEW at1 \in Path, NEW at2 \in Path
        PROVE  Adm(p, v, at1) <=> Adm(c, v, at2)
    <3>1. Adm(p, v, at1) => Adm(c, v, at2)
      BY <2>1, SameForward
    <3>2. Adm(c, v, at2) => Adm(p, v, at1)
      BY <2>2, <2>3, SameForward
    <3> QED BY <3>1, <3>2
  <2> QED BY <2>4 DEF Agree
<1>2. Shape \subseteq S
  <2> HIDE DEF S
  <2> QED BY <1>1, ShapeInduction
<1> QED BY <1>2

-----------------------------------------------------------------------------
\* `type` as the operator it is equivalent to.

\* `any` is a shape the parser reads, and admits every value but absence.
LEMMA AnyValueFacts ==
  /\ AnyValue \in Shape /\ shapeRank[AnyValue] = 0 /\ Read(AnyValue) /\ AnyValue.op = "any"
  /\ \A v \in Value, at \in Path : Adm(AnyValue, v, at) <=> v.is # "absent"
<1>1. {} \in SUBSET Present /\ AnyValue = [op |-> "any", example |-> {}]
  BY DEF AnyValue
<1>2. AnyValue \in ShapeTo[0]
  BY <1>1, LeafIntro
<1>3. AnyValue \in Shape /\ shapeRank[AnyValue] = 0 /\ AnyValue.op = "any"
  BY <1>1, <1>2, LeafIntro
<1>4. Children(AnyValue) = {}
  BY <1>3 DEF Children
<1>5. NodeParses(wellFormedSolution, AnyValue, TRUE)
  BY <1>3, <1>4 DEF NodeParses, AdmitsAbsent
<1>6. Read(AnyValue)
  BY <1>3, <1>5, ParsesUnfolds DEF Read
<1> QED BY <1>3, <1>6, AdmLeaf

\* The three forms it takes.
NoMembers    == [op |-> "object", members |-> [n \in Name |-> None], example |-> {}]
AnyItems     == [op |-> "each-like", items |-> AnyValue, min |-> 0, max |-> {}, example |-> {}]
OfItsKind(k) == [op |-> "kind", kind |-> k, example |-> {}]

\* The object that asks for no member admits every object.
LEMMA NoMembersFacts ==
  /\ NoMembers \in Shape /\ shapeRank[NoMembers] = 0 /\ Read(NoMembers)
  /\ NoMembers.op = "object" /\ Given(NoMembers.members) = {}
  /\ \A v \in Value, at \in Path : Adm(NoMembers, v, at) <=> v.is = "object"
<1> DEFINE s == NoMembers
<1>1. s.op = "object" /\ Given(s.members) = {} /\ s.members \in [Name -> {} \cup {None}]
  BY DEF NoMembers, Given
<1>2. s \in ShapeOver({})
  BY DEF NoMembers, ShapeOver
<1>3. s \in ShapeTo[0]
  BY <1>2, ShapeLevels
<1>4. s \in Shape /\ shapeRank[s] = 0
  BY <1>3, LeafIntro
<1> HIDE DEF s
<1>5. Children(s) = {}
  BY <1>1 DEF Children
<1>6. NodeParses(wellFormedSolution, s, TRUE)
  BY <1>1, <1>5 DEF NodeParses, AdmitsAbsent
<1>7. Read(s)
  BY <1>4, <1>6, ParsesUnfolds DEF Read
<1>8. \A v \in Value, at \in Path : Adm(s, v, at) <=> v.is = "object"
  BY <1>1, <1>4, AdmNested
<1> QED BY <1>1, <1>4, <1>7, <1>8 DEF s

\* The list of anything admits every array.
LEMMA AnyItemsFacts ==
  /\ AnyItems \in Shape /\ Read(AnyItems)
  /\ AnyItems.op = "each-like" /\ AnyItems.items = AnyValue
  /\ \A v \in Value, at \in Path : Adm(AnyItems, v, at) <=> v.is = "array"
<1> DEFINE s == AnyItems
<1>1. s.op = "each-like" /\ s.items = AnyValue /\ s.min = 0 /\ s.max = {}
  BY DEF AnyItems
<1>2. s \in ShapeOver(ShapeTo[0])
  <2>1. AnyValue \in ShapeTo[0]
    BY LeafIntro DEF AnyValue
  <2>2. AnyItems \in [op : {"each-like"}, items : ShapeTo[0], min : Nat, max : Maybe(Nat),
                      example : SUBSET Present]
    BY <2>1 DEF AnyItems, Maybe
  <2> QED BY <2>2 DEF ShapeOver
<1>3. s \in ShapeTo[1]
  BY <1>2, ShapeLevels
<1>4. s \in Shape
  BY <1>3, TopFacts, ShapeGrows
<1> HIDE DEF s
<1>5. Children(s) = {<<<<EachItem>>, AnyValue>>}
  BY <1>1 DEF Children
<1>6. wellFormedSolution[<<AnyValue, FALSE>>]
  <2>1. Children(AnyValue) = {}
    BY AnyValueFacts DEF Children
  <2>2. NodeParses(wellFormedSolution, AnyValue, FALSE)
    BY <2>1, AnyValueFacts DEF NodeParses, AdmitsAbsent
  <2>3. Parses(AnyValue, FALSE)
    BY <2>2, AnyValueFacts, ParsesUnfolds
  <2> QED BY <2>3 DEF Parses
<1>7. NodeParses(wellFormedSolution, s, TRUE)
  <2>1. \A c \in Children(s) : wellFormedSolution[<<c[2], s.op = "object">>]
    <3>1. (s.op = "object") = FALSE
      BY <1>1
    <3>2. \A c \in Children(s) : c[2] = AnyValue
      BY <1>5
    <3>3. \A c \in Children(s) : <<c[2], s.op = "object">> = <<AnyValue, FALSE>>
      BY <3>1, <3>2
    <3> QED BY <1>6, <3>3
  <2> QED BY <1>1, <2>1 DEF NodeParses, AdmitsAbsent
<1>8. Read(s)
  BY <1>4, <1>7, ParsesUnfolds DEF Read
<1>9. ASSUME NEW v \in Value, NEW at \in Path PROVE Adm(s, v, at) <=> v.is = "array"
  <2>1. Adm(s, v, at) => v.is = "array"
    BY <1>1, <1>4, AdmNested
  <2>2. ASSUME v.is = "array" PROVE Adm(s, v, at)
    <3>1. Append(at, EachItem) \in Path
      BY StepFacts
    <3>2. v.items \in Seq(Present) /\ \A i \in DOMAIN v.items : v.items[i] \in Value /\ v.items[i] # Absent
      BY <2>2, ValueFacts
    <3>3. \A i \in DOMAIN v.items : v.items[i].is # "absent"
      BY <3>2, AbsentFacts
    <3>4. \A i \in DOMAIN v.items : Adm(s.items, v.items[i], Append(at, EachItem))
      BY <1>1, <3>1, <3>2, <3>3, AnyValueFacts
    <3>5. Within(Len(v.items), s)
      BY <1>1, <3>2 DEF Within
    <3> QED BY <1>1, <1>4, <2>2, <3>4, <3>5, AdmNested
  <2> QED BY <2>1, <2>2
<1> QED BY <1>1, <1>4, <1>8, <1>9 DEF s

\* A kind admits the values of it.
LEMMA OfItsKindFacts ==
  ASSUME NEW k \in {"null", "boolean", "number", "string"}
  PROVE  /\ OfItsKind(k) \in Shape /\ shapeRank[OfItsKind(k)] = 0 /\ Read(OfItsKind(k))
         /\ OfItsKind(k).op = "kind" /\ OfItsKind(k).kind = k
         /\ \A v \in Value, at \in Path : Adm(OfItsKind(k), v, at) <=> v.is = k
<1> DEFINE s == OfItsKind(k)
<1>1. s.op = "kind" /\ s.kind = k /\ s \in ShapeTo[0]
  BY LeafIntro DEF OfItsKind
<1>2. s \in Shape /\ shapeRank[s] = 0
  BY <1>1, LeafIntro
<1> HIDE DEF s
<1>3. Children(s) = {}
  BY <1>1 DEF Children
<1>4. NodeParses(wellFormedSolution, s, TRUE)
  BY <1>1, <1>3 DEF NodeParses, AdmitsAbsent
<1>5. Read(s)
  BY <1>2, <1>4, ParsesUnfolds DEF Read
<1>6. \A v \in Value, at \in Path : Adm(s, v, at) <=> v.is = k
  BY <1>1, <1>2, AdmLeaf DEF OfKind
<1> QED BY <1>1, <1>2, <1>5, <1>6 DEF s

\* What Desugar makes of a shape.
Desugared(s, q) ==
  \/ s.op # "type" /\ q = s
  \/ s.op = "type" /\ Example(s).is = "object" /\ q = NoMembers
  \/ s.op = "type" /\ Example(s).is = "array" /\ q = AnyItems
  \/ s.op = "type" /\ Example(s).is \in ScalarKinds /\ q = OfItsKind(Example(s).is)

\* What a `type` is rewritten as, and that another shape is left as it is.
LEMMA DesugarCases ==
  ASSUME NEW s \in Shape
  PROVE  /\ Desugared(s, Desugar(s)) /\ Desugar(s) \in Shape
         /\ Read(s) => Read(Desugar(s))
<1>1. CASE s.op # "type"
  BY <1>1 DEF Desugar, Desugared
<1>2. CASE s.op = "type"
  <2> DEFINE k == Example(s).is
  <2>1. Example(s) \in Present
    BY <1>2, ShapeParts DEF MadeOf
  <2>2. k \in AllKinds \ {"absent"}
    <3>1. Example(s) \in Value /\ Example(s) # Absent
      BY <2>1, ScalarsPresent, AbsentFacts
    <3> QED BY <3>1, ValueFacts, AbsentFacts
  <2>3. Desugar(s) = IF k = "object" THEN NoMembers ELSE IF k = "array" THEN AnyItems ELSE OfItsKind(k)
    BY <1>2 DEF Desugar, NoMembers, AnyItems, OfItsKind
  <2> HIDE DEF k
  <2>4. CASE k = "object"
    BY <1>2, <2>3, <2>4, NoMembersFacts DEF Desugared, k
  <2>5. CASE k = "array"
    BY <1>2, <2>3, <2>5, AnyItemsFacts DEF Desugared, k
  <2>6. CASE k \notin {"object", "array"}
    <3>1. k \in ScalarKinds /\ k \in {"null", "boolean", "number", "string"}
      BY <2>2, <2>6 DEF AllKinds, ScalarKinds
    <3> QED BY <1>2, <2>3, <2>6, <3>1, OfItsKindFacts DEF Desugared, k
  <2> QED BY <2>4, <2>5, <2>6
<1> QED BY <1>1, <1>2

\* The rewriting keeps what a shape admits.
LEMMA DesugarAdmits ==
  ASSUME NEW s \in Shape, NEW v \in Value, NEW at \in Path
  PROVE  Adm(Desugar(s), v, at) <=> Adm(s, v, at)
<1>0. Desugared(s, Desugar(s))
  BY DesugarCases
<1>1. CASE s.op # "type"
  BY <1>0, <1>1 DEF Desugared
<1>2. CASE s.op = "type"
  <2>1. Adm(s, v, at) <=> v.is = Example(s).is
    BY <1>2, AdmLeaf
  <2>2. CASE Example(s).is = "object" /\ Desugar(s) = NoMembers
    BY <2>1, <2>2, NoMembersFacts
  <2>3. CASE Example(s).is = "array" /\ Desugar(s) = AnyItems
    BY <2>1, <2>3, AnyItemsFacts
  <2>4. CASE Example(s).is \in ScalarKinds /\ Desugar(s) = OfItsKind(Example(s).is)
    BY <2>1, <2>4, OfItsKindFacts DEF ScalarKinds
  <2> QED BY <1>0, <1>2, <2>2, <2>3, <2>4 DEF Desugared
<1> QED BY <1>1, <1>2

-----------------------------------------------------------------------------
\* Outcomes.

Findings == [path : Path, severity : {"finding", "review", "advisory"}, excluded : BOOLEAN]
Outcome  == [verdict : {"yes", "no", "unknown"}, findings : SUBSET Findings]

\* The outcomes of a leaf are outcomes.
LEMMA OutcomeFacts ==
  /\ Yes \in Outcome /\ Yes.verdict = "yes"
  /\ \A at \in Path : /\ No(at) \in Outcome /\ No(at).verdict = "no"
                      /\ Unknown(at) \in Outcome /\ Unknown(at).verdict = "unknown"
<1>1. Yes \in Outcome /\ Yes.verdict = "yes"
  BY DEF Yes, Outcome
<1>2. ASSUME NEW at \in Path, NEW verdict \in {"no", "unknown"}, NEW severity \in {"finding", "review"}
      PROVE  Out(verdict, at, severity) \in Outcome /\ Out(verdict, at, severity).verdict = verdict
  <2>1. [path |-> at, severity |-> severity, excluded |-> FALSE] \in Findings
    BY DEF Findings
  <2> QED BY <2>1 DEF Out, Outcome
<1> QED BY <1>1, <1>2 DEF No, Unknown

\* Outcomes together are an outcome, and a yes only when each of them is.
LEMMA TogetherFacts ==
  ASSUME NEW outs, outs \subseteq Outcome
  PROVE  /\ Together(outs) \in Outcome
         /\ Together(outs).verdict = "yes" <=> \A o \in outs : o.verdict = "yes"
<1> DEFINE verdicts == {o.verdict : o \in outs}
<1>1. verdicts \subseteq {"yes", "no", "unknown"}
  BY DEF Outcome
<1>2. UNION {o.findings : o \in outs} \in SUBSET Findings
  BY DEF Outcome
<1>3. Worst(verdicts) \in {"yes", "no", "unknown"}
  BY DEF Worst
<1>4. Worst(verdicts) = "yes" <=> "no" \notin verdicts /\ "unknown" \notin verdicts
  BY DEF Worst
<1>5. "no" \notin verdicts /\ "unknown" \notin verdicts <=> \A o \in outs : o.verdict = "yes"
  BY <1>1
<1>6. Together(outs) = [verdict |-> Worst(verdicts), findings |-> UNION {o.findings : o \in outs}]
  BY DEF Together
<1> HIDE DEF verdicts
<1> QED BY <1>2, <1>3, <1>4, <1>5, <1>6 DEF Outcome

\* A caveat changes no verdict.
LEMMA CaveatFacts ==
  ASSUME NEW out \in Outcome, NEW at \in Path, NEW E
  PROVE  Caveat(out, at, E) \in Outcome /\ Caveat(out, at, E).verdict = out.verdict
<1>0. /\ out.verdict \in {"yes", "no", "unknown"} /\ out.findings \subseteq Findings
      /\ out = [verdict |-> out.verdict, findings |-> out.findings]
  BY DEF Outcome
<1>1. Caveat(out, at, E) \in
        {out, [out EXCEPT !.findings = {[f EXCEPT !.excluded = @ \/ f.path = at] : f \in @}],
         [out EXCEPT !.findings =
            @ \cup {[path |-> at, severity |-> "advisory", excluded |-> TRUE]}]}
  BY DEF Caveat
<1>2. {[f EXCEPT !.excluded = @ \/ f.path = at] : f \in out.findings} \subseteq Findings
  <2>1. \A f \in Findings : [f EXCEPT !.excluded = @ \/ f.path = at] \in Findings
    BY DEF Findings
  <2> QED BY <1>0, <2>1
<1>3. [path |-> at, severity |-> "advisory", excluded |-> TRUE] \in Findings
  BY DEF Findings
<1>4. CASE Caveat(out, at, E) = out
  BY <1>4
<1>5. ASSUME NEW found \in SUBSET Findings, Caveat(out, at, E) = [out EXCEPT !.findings = found]
      PROVE  Caveat(out, at, E) \in Outcome /\ Caveat(out, at, E).verdict = out.verdict
  BY <1>0, <1>5 DEF Outcome
<1> DEFINE told == {[f EXCEPT !.excluded = @ \/ f.path = at] : f \in out.findings}
           advised == out.findings \cup {[path |-> at, severity |-> "advisory", excluded |-> TRUE]}
<1>6. told \in SUBSET Findings /\ advised \in SUBSET Findings
  BY <1>0, <1>2, <1>3
<1>7. Caveat(out, at, E) \in {out, [out EXCEPT !.findings = told], [out EXCEPT !.findings = advised]}
  BY <1>1
<1> HIDE DEF told, advised
<1> QED BY <1>4, <1>5, <1>6, <1>7

\* A decided question gives an outcome, and a yes only for a yes.
LEMMA DecidedFacts ==
  ASSUME NEW answer, NEW at \in Path
  PROVE  /\ Decided(answer, at) \in Outcome
         /\ Decided(answer, at).verdict = "yes" <=> answer = {TRUE}
BY OutcomeFacts DEF Decided

\* So does that of the lengths.
LEMMA ContainedFacts ==
  ASSUME NEW p, NEW c, NEW at \in Path
  PROVE  /\ Contained(p, c, at) \in Outcome
         /\ Contained(p, c, at).verdict = "yes" =>
              p.min >= c.min /\ \A n \in c.max : p.max # {} /\ \A m \in p.max : m <= n
BY OutcomeFacts DEF Contained

\* So does that of a member the provider does not declare.
LEMMA UndeclaredFacts ==
  ASSUME NEW c, NEW at \in Path
  PROVE  /\ Undeclared(c, at) \in Outcome
         /\ Undeclared(c, at).verdict = "yes" =>
              Decompose(c).absent /\ \E r \in Decompose(c).rest : r.op = "any"
BY OutcomeFacts DEF Undeclared

-----------------------------------------------------------------------------
\* What the walk of a pair asks of the walks below it.

\* The parts of two nodes have outcomes.
Answers(f, A, B) == \A a \in A, b \in B, at \in Path : f[<<a, b, at>>] \in Outcome

\* The parts of two nodes have the same outcomes.
SameAnswers(f, g, A, B) == \A a \in A, b \in B, at \in Path : f[<<a, b, at>>] = g[<<a, b, at>>]

\* What a node is made of is in a set, and its key too.
PartsIn(A, s) == MadeOf(A, s) /\ (s.op = "each-entry" => KeyOf(s) \in A)

\* The rules of structures give an outcome when the walk below does.
LEMMA StructuralTyped ==
  ASSUME NEW f, NEW A, NEW B, NEW p, NEW c, NEW at \in Path, PartsIn(A, p), PartsIn(B, c),
         Answers(f, A, B), <<p.op, c.op>> \in Structures
  PROVE  Structural(f, p, c, at) \in Outcome
<1>0. MadeOf(A, p) /\ MadeOf(B, c)
  BY DEF PartsIn
<1>a. ASSUME NEW a \in A, NEW b \in B, NEW x \in Path PROVE f[<<a, b, x>>] \in Outcome
  BY DEF Answers
<1>1. CASE p.op = "object" /\ c.op = "object"
  <2> DEFINE out(n) == IF n \in Given(p.members)
                   THEN f[<<p.members[n], c.members[n], Append(at, InMember(n))>>]
                   ELSE Undeclared(c.members[n], Append(at, InMember(n)))
  <2>1. Structural(f, p, c, at) = Together({out(n) : n \in Given(c.members)})
    BY <1>1 DEF Structural
  <2>2. p.members \in MayHold(A) /\ c.members \in MayHold(B)
    BY <1>0, <1>1 DEF MadeOf
  <2>3. ASSUME NEW n \in Given(c.members) PROVE out(n) \in Outcome
    <3>1. n \in Name /\ c.members[n] \in B /\ (n \in Given(p.members) => p.members[n] \in A)
      BY <2>2, GivenBelow
    <3>2. Append(at, InMember(n)) \in Path
      BY <3>1, StepFacts
    <3> QED BY <1>a, <3>1, <3>2, UndeclaredFacts
  <2> HIDE DEF out
  <2> QED BY <2>1, <2>3, TogetherFacts
<1>2. CASE p.op = "array" /\ c.op = "array"
  <2> DEFINE out(i) == f[<<p.entries[i], c.entries[i], Append(at, Index(i))>>]
  <2>1. Structural(f, p, c, at) =
          IF Len(p.entries) # Len(c.entries) THEN No(at) ELSE Together({out(i) : i \in DOMAIN p.entries})
    BY <1>2 DEF Structural
  <2>2. p.entries \in Seq(A) /\ c.entries \in Seq(B)
    BY <1>0, <1>2 DEF MadeOf
  <2>3. ASSUME Len(p.entries) = Len(c.entries), NEW i \in DOMAIN p.entries PROVE out(i) \in Outcome
    <3>1. i \in Nat /\ p.entries[i] \in A /\ c.entries[i] \in B
      BY <2>2, <2>3
    <3>2. Append(at, Index(i)) \in Path
      BY <3>1, StepFacts
    <3> QED BY <1>a, <3>1, <3>2
  <2> HIDE DEF out
  <2> QED BY <2>1, <2>3, TogetherFacts, OutcomeFacts
<1>3. CASE p.op = "each-like" /\ c.op = "each-like"
  <2> DEFINE out == f[<<p.items, c.items, Append(at, EachItem)>>]
  <2>1. Structural(f, p, c, at) = Together({Contained(p, c, at), out})
    BY <1>3 DEF Structural
  <2>2. p.items \in A /\ c.items \in B /\ Append(at, EachItem) \in Path
    BY <1>0, <1>3, StepFacts DEF MadeOf
  <2>3. out \in Outcome /\ Contained(p, c, at) \in Outcome
    BY <1>a, <2>2, ContainedFacts
  <2> HIDE DEF out
  <2> QED BY <2>1, <2>3, TogetherFacts
<1>4. CASE p.op = "each-like" /\ c.op = "array"
  <2> DEFINE out(i) == f[<<p.items, c.entries[i], Append(at, Index(i))>>]
             outs == {out(i) : i \in DOMAIN c.entries}
             lengths == Contained(p, Exactly(Len(c.entries)), at)
  <2>1. Structural(f, p, c, at) = Together({lengths} \cup outs)
    BY <1>4 DEF Structural
  <2>2. p.items \in A /\ c.entries \in Seq(B)
    BY <1>0, <1>4 DEF MadeOf
  <2>3. ASSUME NEW i \in DOMAIN c.entries PROVE out(i) \in Outcome
    <3>1. i \in Nat /\ c.entries[i] \in B
      BY <2>2, <2>3
    <3>2. Append(at, Index(i)) \in Path
      BY <3>1, StepFacts
    <3> QED BY <1>a, <2>2, <3>1, <3>2
  <2>4. lengths \in Outcome
    BY ContainedFacts
  <2> HIDE DEF out, lengths
  <2> QED BY <2>1, <2>3, <2>4, TogetherFacts
<1>5. CASE p.op = "array" /\ c.op = "each-like"
  <2> DEFINE out(i) == f[<<p.entries[i], c.items, Append(at, Index(i))>>]
             outs == {out(i) : i \in DOMAIN p.entries}
             lengths == Contained(Exactly(Len(p.entries)), c, at)
  <2>1. Structural(f, p, c, at) = Together({lengths} \cup outs)
    BY <1>5 DEF Structural
  <2>2. c.items \in B /\ p.entries \in Seq(A)
    BY <1>0, <1>5 DEF MadeOf
  <2>3. ASSUME NEW i \in DOMAIN p.entries PROVE out(i) \in Outcome
    <3>1. i \in Nat /\ p.entries[i] \in A
      BY <2>2, <2>3
    <3>2. Append(at, Index(i)) \in Path
      BY <3>1, StepFacts
    <3> QED BY <1>a, <2>2, <3>1, <3>2
  <2>4. lengths \in Outcome
    BY ContainedFacts
  <2> HIDE DEF out, lengths
  <2> QED BY <2>1, <2>3, <2>4, TogetherFacts
<1>6. CASE p.op = "each-entry" /\ c.op = "each-entry"
  <2> DEFINE keys == f[<<KeyOf(p), KeyOf(c), Append(at, EachKey)>>]
             values == f[<<p.values, c.values, Append(at, EachValue)>>]
  <2>1. Structural(f, p, c, at) = Together({Contained(p, c, at), keys, values})
    BY <1>6 DEF Structural
  <2>2. /\ p.values \in A /\ c.values \in B /\ KeyOf(p) \in A /\ KeyOf(c) \in B
        /\ Append(at, EachKey) \in Path /\ Append(at, EachValue) \in Path
    BY <1>0, <1>6, StepFacts DEF MadeOf, PartsIn
  <2>3. keys \in Outcome /\ values \in Outcome /\ Contained(p, c, at) \in Outcome
    BY <1>a, <2>2, ContainedFacts
  <2> HIDE DEF keys, values
  <2> QED BY <2>1, <2>3, TogetherFacts
<1> QED BY <1>1, <1>2, <1>3, <1>4, <1>5, <1>6 DEF Structures

\* They read of the walk below the pairs of their parts only.
LEMMA StructuralReads ==
  ASSUME NEW f, NEW g, NEW A, NEW B, NEW p, NEW c, NEW at \in Path, PartsIn(A, p), PartsIn(B, c),
         SameAnswers(f, g, A, B), <<p.op, c.op>> \in Structures
  PROVE  Structural(f, p, c, at) = Structural(g, p, c, at)
<1>0. MadeOf(A, p) /\ MadeOf(B, c)
  BY DEF PartsIn
<1>a. ASSUME NEW a \in A, NEW b \in B, NEW x \in Path PROVE f[<<a, b, x>>] = g[<<a, b, x>>]
  BY DEF SameAnswers
<1>1. CASE p.op = "object" /\ c.op = "object"
  <2> DEFINE out(h, n) == IF n \in Given(p.members)
                   THEN h[<<p.members[n], c.members[n], Append(at, InMember(n))>>]
                   ELSE Undeclared(c.members[n], Append(at, InMember(n)))
  <2>1. /\ Structural(f, p, c, at) = Together({out(f, n) : n \in Given(c.members)})
        /\ Structural(g, p, c, at) = Together({out(g, n) : n \in Given(c.members)})
    BY <1>1 DEF Structural
  <2>2. p.members \in MayHold(A) /\ c.members \in MayHold(B)
    BY <1>0, <1>1 DEF MadeOf
  <2>3. ASSUME NEW n \in Given(c.members) PROVE out(f, n) = out(g, n)
    <3>1. n \in Name /\ c.members[n] \in B /\ (n \in Given(p.members) => p.members[n] \in A)
      BY <2>2, GivenBelow
    <3>2. Append(at, InMember(n)) \in Path
      BY <3>1, StepFacts
    <3> QED BY <1>a, <3>1, <3>2
  <2> HIDE DEF out
  <2>4. {out(f, n) : n \in Given(c.members)} = {out(g, n) : n \in Given(c.members)}
    BY <2>3
  <2> QED BY <2>1, <2>4
<1>2. CASE p.op = "array" /\ c.op = "array"
  <2> DEFINE out(h, i) == h[<<p.entries[i], c.entries[i], Append(at, Index(i))>>]
             all(h) == IF Len(p.entries) # Len(c.entries) THEN No(at)
                       ELSE Together({out(h, i) : i \in DOMAIN p.entries})
  <2>1. Structural(f, p, c, at) = all(f) /\ Structural(g, p, c, at) = all(g)
    BY <1>2 DEF Structural
  <2>2. p.entries \in Seq(A) /\ c.entries \in Seq(B)
    BY <1>0, <1>2 DEF MadeOf
  <2>3. ASSUME Len(p.entries) = Len(c.entries), NEW i \in DOMAIN p.entries
        PROVE  out(f, i) = out(g, i)
    <3>1. i \in Nat /\ p.entries[i] \in A /\ c.entries[i] \in B
      BY <2>2, <2>3
    <3>2. Append(at, Index(i)) \in Path
      BY <3>1, StepFacts
    <3> QED BY <1>a, <3>1, <3>2
  <2> HIDE DEF out
  <2>4. Len(p.entries) = Len(c.entries) =>
          {out(f, i) : i \in DOMAIN p.entries} = {out(g, i) : i \in DOMAIN p.entries}
    BY <2>3
  <2>5. all(f) = all(g)
    BY <2>4
  <2> HIDE DEF all
  <2> QED BY <2>1, <2>5
<1>3. CASE p.op = "each-like" /\ c.op = "each-like"
  <2>1. p.items \in A /\ c.items \in B /\ Append(at, EachItem) \in Path
    BY <1>0, <1>3, StepFacts DEF MadeOf
  <2>2. f[<<p.items, c.items, Append(at, EachItem)>>] = g[<<p.items, c.items, Append(at, EachItem)>>]
    BY <1>a, <2>1
  <2> QED BY <1>3, <2>2 DEF Structural
<1>4. CASE p.op = "each-like" /\ c.op = "array"
  <2> DEFINE out(h, i) == h[<<p.items, c.entries[i], Append(at, Index(i))>>]
             lengths == Contained(p, Exactly(Len(c.entries)), at)
  <2>1. /\ Structural(f, p, c, at) = Together({lengths} \cup {out(f, i) : i \in DOMAIN c.entries})
        /\ Structural(g, p, c, at) = Together({lengths} \cup {out(g, i) : i \in DOMAIN c.entries})
    BY <1>4 DEF Structural
  <2>2. p.items \in A /\ c.entries \in Seq(B)
    BY <1>0, <1>4 DEF MadeOf
  <2>3. ASSUME NEW i \in DOMAIN c.entries PROVE out(f, i) = out(g, i)
    <3>1. i \in Nat /\ c.entries[i] \in B
      BY <2>2, <2>3
    <3>2. Append(at, Index(i)) \in Path
      BY <3>1, StepFacts
    <3> QED BY <1>a, <2>2, <3>1, <3>2
  <2> HIDE DEF out, lengths
  <2>4. {out(f, i) : i \in DOMAIN c.entries} = {out(g, i) : i \in DOMAIN c.entries}
    BY <2>3
  <2> QED BY <2>1, <2>4
<1>5. CASE p.op = "array" /\ c.op = "each-like"
  <2> DEFINE out(h, i) == h[<<p.entries[i], c.items, Append(at, Index(i))>>]
             lengths == Contained(Exactly(Len(p.entries)), c, at)
  <2>1. /\ Structural(f, p, c, at) = Together({lengths} \cup {out(f, i) : i \in DOMAIN p.entries})
        /\ Structural(g, p, c, at) = Together({lengths} \cup {out(g, i) : i \in DOMAIN p.entries})
    BY <1>5 DEF Structural
  <2>2. c.items \in B /\ p.entries \in Seq(A)
    BY <1>0, <1>5 DEF MadeOf
  <2>3. ASSUME NEW i \in DOMAIN p.entries PROVE out(f, i) = out(g, i)
    <3>1. i \in Nat /\ p.entries[i] \in A
      BY <2>2, <2>3
    <3>2. Append(at, Index(i)) \in Path
      BY <3>1, StepFacts
    <3> QED BY <1>a, <2>2, <3>1, <3>2
  <2> HIDE DEF out, lengths
  <2>4. {out(f, i) : i \in DOMAIN p.entries} = {out(g, i) : i \in DOMAIN p.entries}
    BY <2>3
  <2> QED BY <2>1, <2>4
<1>6. CASE p.op = "each-entry" /\ c.op = "each-entry"
  <2>1. /\ p.values \in A /\ c.values \in B /\ KeyOf(p) \in A /\ KeyOf(c) \in B
        /\ Append(at, EachKey) \in Path /\ Append(at, EachValue) \in Path
    BY <1>0, <1>6, StepFacts DEF MadeOf, PartsIn
  <2>2. /\ f[<<KeyOf(p), KeyOf(c), Append(at, EachKey)>>] = g[<<KeyOf(p), KeyOf(c), Append(at, EachKey)>>]
        /\ f[<<p.values, c.values, Append(at, EachValue)>>] = g[<<p.values, c.values, Append(at, EachValue)>>]
    BY <1>a, <2>1
  <2> QED BY <1>6, <2>2 DEF Structural
<1> QED BY <1>1, <1>2, <1>3, <1>4, <1>5, <1>6 DEF Structures

\* The one alternative of c that literals fall in.
LEMMA MatchFacts ==
  ASSUME NEW c, NEW literals, Cardinality(Matching(c, literals)) = 1
  PROVE  /\ (CHOOSE m \in Matching(c, literals) : TRUE) \in Matching(c, literals)
         /\ (CHOOSE m \in Matching(c, literals) : TRUE) \in Given(c.alternatives)
<1>1. Matching(c, literals) # {}
  BY FS_EmptySet
<1>2. Matching(c, literals) \subseteq Given(c.alternatives)
  BY DEF Matching
<1> HIDE DEF Matching
<1> QED BY <1>1, <1>2

\* What a union asks of the walks below: alternatives of p against those of c, or
\* against c itself, or p itself against those of c.
UnionPairs(p, c, a, b) ==
  \/ /\ p.op = "one-of" /\ c.op = "one-of"
     /\ \E n \in Given(p.alternatives) : a = p.alternatives[n]
     /\ \E m \in Given(c.alternatives) : b = c.alternatives[m]
  \/ /\ p.op = "one-of" /\ c.op # "one-of"
     /\ \E n \in Given(p.alternatives) : a = p.alternatives[n]
     /\ b = c
  \/ /\ p.op # "one-of" /\ c.op = "one-of" /\ Literals(p, c.discriminator) # {}
     /\ a = p
     /\ \E m \in Given(c.alternatives) : b = c.alternatives[m]

UnionAnswers(f, p, c) ==
  \A a, b : \A at \in Path : UnionPairs(p, c, a, b) => f[<<a, b, at>>] \in Outcome

SameUnionAnswers(f, g, p, c) ==
  \A a, b : \A at \in Path : UnionPairs(p, c, a, b) => f[<<a, b, at>>] = g[<<a, b, at>>]

\* An alternative bound to no literal is matched with none.
LEMMA NoLiteralsNoMatch ==
  ASSUME NEW c
  PROVE  Cardinality(Matching(c, {})) = 0
<1>1. Matching(c, {}) = {}
  BY DEF Matching
<1> QED BY <1>1, FS_EmptySet

\* The rules of one-ofs give an outcome when the walk below does.
LEMMA UnionsTyped ==
  ASSUME NEW f, NEW A, NEW B, NEW p, NEW c, NEW at \in Path, MadeOf(A, p), MadeOf(B, c),
         UnionAnswers(f, p, c), "one-of" \in {p.op, c.op}
  PROVE  Unions(f, p, c, at) \in Outcome
<1>a. ASSUME NEW a, NEW b, NEW x \in Path, UnionPairs(p, c, a, b) PROVE f[<<a, b, x>>] \in Outcome
  BY <1>a DEF UnionAnswers
<1>b. p.op = "one-of" => Given(p.alternatives) \subseteq Name
  BY GivenBelow DEF MadeOf
<1>c. c.op = "one-of" => Given(c.alternatives) \subseteq Name
  BY GivenBelow DEF MadeOf
<1>1. CASE p.op = "one-of" /\ c.op = "one-of"
  <2> DEFINE matching(n) == Matching(c, Literals(p.alternatives[n], p.discriminator))
             m(n) == CHOOSE k \in matching(n) : TRUE
             out(n) == IF Cardinality(matching(n)) # 1 THEN No(Append(at, InAlternative(n)))
                   ELSE f[<<p.alternatives[n], c.alternatives[m(n)], Append(at, InAlternative(m(n)))>>]
  <2>1. Unions(f, p, c, at) = IF p.discriminator # c.discriminator THEN Unknown(at)
                              ELSE Together({out(n) : n \in Given(p.alternatives)})
    BY <1>1 DEF Unions, OneOfPair
  <2>2. ASSUME NEW n \in Given(p.alternatives) PROVE out(n) \in Outcome
    <3>1. Cardinality(matching(n)) = 1 => m(n) \in Given(c.alternatives)
      BY MatchFacts
    <3> HIDE DEF matching, m
    <3>2. Append(at, InAlternative(n)) \in Path
      BY <1>1, <1>b, StepFacts
    <3>3. CASE Cardinality(matching(n)) # 1
      BY <3>2, <3>3, OutcomeFacts
    <3>4. CASE Cardinality(matching(n)) = 1
      <4>1. Append(at, InAlternative(m(n))) \in Path
        BY <1>1, <1>c, <3>1, <3>4, StepFacts
      <4>2. UnionPairs(p, c, p.alternatives[n], c.alternatives[m(n)])
        BY <1>1, <3>1, <3>4 DEF UnionPairs
      <4> QED BY <1>a, <3>4, <4>1, <4>2
    <3> QED BY <3>3, <3>4
  <2> HIDE DEF out
  <2>3. {out(n) : n \in Given(p.alternatives)} \subseteq Outcome
    BY <2>2
  <2> QED BY <2>1, <2>3, TogetherFacts, OutcomeFacts
<1>2. CASE p.op = "one-of" /\ c.op # "one-of"
  <2> DEFINE out(n) == f[<<p.alternatives[n], c, Append(at, InAlternative(n))>>]
  <2>1. Unions(f, p, c, at) = Together({out(n) : n \in Given(p.alternatives)})
    BY <1>2 DEF Unions
  <2>2. ASSUME NEW n \in Given(p.alternatives) PROVE out(n) \in Outcome
    <3>1. Append(at, InAlternative(n)) \in Path
      BY <1>2, <1>b, StepFacts
    <3>2. UnionPairs(p, c, p.alternatives[n], c)
      BY <1>2 DEF UnionPairs
    <3> QED BY <1>a, <3>1, <3>2
  <2> HIDE DEF out
  <2> QED BY <2>1, <2>2, TogetherFacts
<1>3. CASE p.op # "one-of" /\ c.op = "one-of"
  <2> DEFINE literals == Literals(p, c.discriminator)
             matching == Matching(c, literals)
             m == CHOOSE k \in matching : TRUE
  <2>1. Unions(f, p, c, at) = IF Cardinality(matching) # 1 THEN Unknown(at)
                              ELSE f[<<p, c.alternatives[m], Append(at, InAlternative(m))>>]
    BY <1>3 DEF Unions, InsideAlternative
  <2>2. Cardinality(matching) = 1 => m \in Given(c.alternatives) /\ literals # {}
    BY MatchFacts, NoLiteralsNoMatch
  <2> HIDE DEF m, matching
  <2>3. CASE Cardinality(matching) = 1
    <3>1. Append(at, InAlternative(m)) \in Path
      BY <1>3, <1>c, <2>2, <2>3, StepFacts
    <3>2. UnionPairs(p, c, p, c.alternatives[m])
      BY <1>3, <2>2, <2>3 DEF UnionPairs
    <3> QED BY <1>a, <2>1, <2>3, <3>1, <3>2
  <2>4. CASE Cardinality(matching) # 1
    BY <2>1, <2>4, OutcomeFacts
  <2> QED BY <2>3, <2>4
<1> QED BY <1>1, <1>2, <1>3

\* They read of the walk below the pairs of their alternatives only.
LEMMA UnionsReads ==
  ASSUME NEW f, NEW g, NEW A, NEW B, NEW p, NEW c, NEW at \in Path, MadeOf(A, p), MadeOf(B, c),
         SameUnionAnswers(f, g, p, c), "one-of" \in {p.op, c.op}
  PROVE  Unions(f, p, c, at) = Unions(g, p, c, at)
<1>a. ASSUME NEW a, NEW b, NEW x \in Path, UnionPairs(p, c, a, b) PROVE f[<<a, b, x>>] = g[<<a, b, x>>]
  BY <1>a DEF SameUnionAnswers
<1>b. p.op = "one-of" => Given(p.alternatives) \subseteq Name
  BY GivenBelow DEF MadeOf
<1>c. c.op = "one-of" => Given(c.alternatives) \subseteq Name
  BY GivenBelow DEF MadeOf
<1>1. CASE p.op = "one-of" /\ c.op = "one-of"
  <2> DEFINE matching(n) == Matching(c, Literals(p.alternatives[n], p.discriminator))
             m(n) == CHOOSE k \in matching(n) : TRUE
             out(h, n) == IF Cardinality(matching(n)) # 1 THEN No(Append(at, InAlternative(n)))
                   ELSE h[<<p.alternatives[n], c.alternatives[m(n)], Append(at, InAlternative(m(n)))>>]
  <2>1. /\ Unions(f, p, c, at) = IF p.discriminator # c.discriminator THEN Unknown(at)
                              ELSE Together({out(f, n) : n \in Given(p.alternatives)})
        /\ Unions(g, p, c, at) = IF p.discriminator # c.discriminator THEN Unknown(at)
                              ELSE Together({out(g, n) : n \in Given(p.alternatives)})
    BY <1>1 DEF Unions, OneOfPair
  <2>2. ASSUME NEW n \in Given(p.alternatives) PROVE out(f, n) = out(g, n)
    <3>1. Cardinality(matching(n)) = 1 => m(n) \in Given(c.alternatives)
      BY MatchFacts
    <3> HIDE DEF matching, m
    <3>2. CASE Cardinality(matching(n)) = 1
      <4>1. Append(at, InAlternative(m(n))) \in Path
        BY <1>1, <1>c, <3>1, <3>2, StepFacts
      <4>2. UnionPairs(p, c, p.alternatives[n], c.alternatives[m(n)])
        BY <1>1, <3>1, <3>2 DEF UnionPairs
      <4> QED BY <1>a, <3>2, <4>1, <4>2
    <3> QED BY <3>2
  <2> HIDE DEF out
  <2>3. {out(f, n) : n \in Given(p.alternatives)} = {out(g, n) : n \in Given(p.alternatives)}
    BY <2>2
  <2> QED BY <2>1, <2>3
<1>2. CASE p.op = "one-of" /\ c.op # "one-of"
  <2> DEFINE out(h, n) == h[<<p.alternatives[n], c, Append(at, InAlternative(n))>>]
  <2>1. /\ Unions(f, p, c, at) = Together({out(f, n) : n \in Given(p.alternatives)})
        /\ Unions(g, p, c, at) = Together({out(g, n) : n \in Given(p.alternatives)})
    BY <1>2 DEF Unions
  <2>2. ASSUME NEW n \in Given(p.alternatives) PROVE out(f, n) = out(g, n)
    <3>1. Append(at, InAlternative(n)) \in Path
      BY <1>2, <1>b, StepFacts
    <3>2. UnionPairs(p, c, p.alternatives[n], c)
      BY <1>2 DEF UnionPairs
    <3> QED BY <1>a, <3>1, <3>2
  <2> HIDE DEF out
  <2>3. {out(f, n) : n \in Given(p.alternatives)} = {out(g, n) : n \in Given(p.alternatives)}
    BY <2>2
  <2> QED BY <2>1, <2>3
<1>3. CASE p.op # "one-of" /\ c.op = "one-of"
  <2> DEFINE literals == Literals(p, c.discriminator)
             matching == Matching(c, literals)
             m == CHOOSE k \in matching : TRUE
  <2>1. /\ Unions(f, p, c, at) = IF Cardinality(matching) # 1 THEN Unknown(at)
                              ELSE f[<<p, c.alternatives[m], Append(at, InAlternative(m))>>]
        /\ Unions(g, p, c, at) = IF Cardinality(matching) # 1 THEN Unknown(at)
                              ELSE g[<<p, c.alternatives[m], Append(at, InAlternative(m))>>]
    BY <1>3 DEF Unions, InsideAlternative
  <2>2. Cardinality(matching) = 1 => m \in Given(c.alternatives) /\ literals # {}
    BY MatchFacts, NoLiteralsNoMatch
  <2> HIDE DEF m, matching
  <2>3. CASE Cardinality(matching) = 1
    <3>1. Append(at, InAlternative(m)) \in Path
      BY <1>3, <1>c, <2>2, <2>3, StepFacts
    <3>2. UnionPairs(p, c, p, c.alternatives[m])
      BY <1>3, <2>2, <2>3 DEF UnionPairs
    <3> QED BY <1>a, <2>1, <2>3, <3>1, <3>2
  <2> QED BY <2>1, <2>3
<1> QED BY <1>1, <1>2, <1>3

\* The shapes the parts of a node are among, once `type` is what it stands for.
Slack(s) == IF s.op = "type" THEN {t \in Shape : shapeRank[t] <= shapeRank[s]} ELSE Lower(s)

\* The parts of a shape, once rewritten, are of its rank or lower.
LEMMA SlackParts ==
  ASSUME NEW s \in Shape
  PROVE  PartsIn(Slack(s), Desugar(s))
<1>0. Desugared(s, Desugar(s)) /\ shapeRank[s] \in Nat
  BY DesugarCases, ShapeRankFacts
<1>1. CASE s.op # "type"
  <2>1. MadeOf(Slack(s), s) /\ Desugar(s) = s
    BY <1>0, <1>1, ShapeParts DEF Slack, Desugared
  <2>2. ASSUME s.op = "each-entry" PROVE KeyOf(s) \in Slack(s)
    <3>1. s.keys \subseteq Slack(s) /\ s.values \in Lower(s)
      BY <1>1, <2>1, <2>2 DEF MadeOf, Slack
    <3>2. shapeRank[s.values] \in Nat /\ shapeRank[s.values] < shapeRank[s]
      BY <3>1, ShapeRankFacts DEF Lower
    <3>3. 0 < shapeRank[s]
      BY <1>0, <3>2
    <3>4. AnyValue \in Lower(s)
      BY <3>3, AnyValueFacts DEF Lower
    <3> QED BY <1>1, <3>1, <3>4 DEF KeyOf, Slack
  <2> QED BY <2>1, <2>2 DEF PartsIn
<1>2. CASE s.op = "type"
  <2> DEFINE A == Slack(s)
  <2>1. 0 <= shapeRank[s]
    BY <1>0
  <2>2. AnyValue \in A
    BY <1>2, <2>1, AnyValueFacts DEF Slack
  <2> HIDE DEF A
  <2>3. MadeOf(A, NoMembers) /\ NoMembers.op # "each-entry"
    BY DEF NoMembers, MadeOf, MayHold, LeafOps, TextOps
  <2>4. MadeOf(A, AnyItems) /\ AnyItems.op # "each-entry"
    BY <2>2 DEF AnyItems, MadeOf, MayHold, LeafOps, TextOps, Maybe
  <2>5. \A k \in ScalarKinds : MadeOf(A, OfItsKind(k)) /\ OfItsKind(k).op # "each-entry"
    BY DEF OfItsKind, MadeOf, MayHold, LeafOps, TextOps, ScalarKinds
  <2>6. Desugar(s) \in {NoMembers, AnyItems} \cup {OfItsKind(k) : k \in ScalarKinds}
    BY <1>0, <1>2 DEF Desugared
  <2>7. PartsIn(A, Desugar(s))
    BY <2>3, <2>4, <2>5, <2>6 DEF PartsIn
  <2> QED BY <2>7 DEF A
<1> QED BY <1>1, <1>2

\* The pairs of parts the walk goes to are of a lower rank than the pair it is at.
LEMMA SlackRanks ==
  ASSUME NEW r \in Shape, NEW s \in Shape, ~(r.op = "type" /\ s.op = "type"),
         NEW a \in Slack(r), NEW b \in Slack(s)
  PROVE  a \in Shape /\ b \in Shape /\ shapeRank[a] + shapeRank[b] < shapeRank[r] + shapeRank[s]
<1>1. a \in Shape /\ b \in Shape
  BY DEF Slack, Lower
<1>2. /\ shapeRank[a] <= shapeRank[r] /\ shapeRank[b] <= shapeRank[s]
      /\ shapeRank[a] < shapeRank[r] \/ shapeRank[b] < shapeRank[s]
  <2>1. /\ shapeRank[a] \in Nat /\ shapeRank[b] \in Nat /\ shapeRank[r] \in Nat /\ shapeRank[s] \in Nat
    BY <1>1, ShapeRankFacts
  <2>2. /\ r.op # "type" => shapeRank[a] < shapeRank[r]
        /\ r.op = "type" => shapeRank[a] <= shapeRank[r]
        /\ s.op # "type" => shapeRank[b] < shapeRank[s]
        /\ s.op = "type" => shapeRank[b] <= shapeRank[s]
    BY DEF Slack, Lower
  <2> QED BY <2>1, <2>2
<1>3. shapeRank[a] \in Nat /\ shapeRank[b] \in Nat /\ shapeRank[r] \in Nat /\ shapeRank[s] \in Nat
  BY <1>1, ShapeRankFacts
<1>4. \A i, j, k, l \in Nat : i <= k /\ j <= l /\ (i < k \/ j < l) => i + j < k + l
  OBVIOUS
<1> QED BY <1>1, <1>2, <1>3, <1>4

\* The one kind of what stands for a type.
LEMMA TypeClasses ==
  ASSUME NEW s \in Shape, s.op = "type"
  PROVE  Classes(Desugar(s)) = {Example(s).is}
<1>0. Desugared(s, Desugar(s))
  BY DesugarCases
<1>1. Classes(NoMembers) = {"object"}
  BY DEF Classes, NoMembers, TextOps
<1>2. Classes(AnyItems) = {"array"}
  BY DEF Classes, AnyItems, TextOps
<1>3. \A k \in ScalarKinds : Classes(OfItsKind(k)) = {k}
  BY DEF Classes, OfItsKind, TextOps, ScalarKinds
<1> QED BY <1>0, <1>1, <1>2, <1>3 DEF Desugared

\* A rewritten `type` is bound to no literal.
LEMMA NoLiterals ==
  ASSUME NEW s \in Shape, s.op = "type", NEW d \in Name
  PROVE  Literals(Desugar(s), d) = {}
<1>0. Desugared(s, Desugar(s))
  BY DesugarCases
<1>1. Literals(NoMembers, d) = {}
  <2>1. NoMembers.op = "object" /\ NoMembers.members[d] = None
    BY DEF NoMembers
  <2> HIDE DEF NoMembers
  <2> QED BY <2>1 DEF Literals, Object, None
<1>2. Literals(AnyItems, d) = {}
  BY DEF Literals, Object, AnyItems
<1>3. \A k \in ScalarKinds : Literals(OfItsKind(k), d) = {}
  BY DEF Literals, Object, OfItsKind
<1> QED BY <1>0, <1>1, <1>2, <1>3 DEF Desugared

\* So are the pairs of alternatives.
LEMMA UnionRanks ==
  ASSUME NEW r \in Shape, NEW s \in Shape, Classes(Desugar(r)) \cap Classes(Desugar(s)) # {},
         NEW a, NEW b, UnionPairs(Desugar(r), Desugar(s), a, b)
  PROVE  a \in Shape /\ b \in Shape /\ shapeRank[a] + shapeRank[b] < shapeRank[r] + shapeRank[s]
<1> DEFINE q == Desugar(r)
           d == Desugar(s)
<1>0. /\ Desugared(r, q) /\ Desugared(s, d) /\ q \in Shape /\ d \in Shape
      /\ shapeRank[r] \in Nat /\ shapeRank[s] \in Nat
  BY DesugarCases, ShapeRankFacts
<1>1. /\ q.op = "one-of" => r.op # "type" /\ q = r
      /\ d.op = "one-of" => s.op # "type" /\ d = s
  BY <1>0, NoMembersFacts, AnyItemsFacts, OfItsKindFacts DEF Desugared, ScalarKinds
<1>2. ASSUME NEW t \in Shape, t.op = "one-of", NEW n \in Given(t.alternatives)
      PROVE  t.alternatives[n] \in Lower(t)
  <2>1. t.alternatives \in MayHold(Lower(t))
    BY <1>2, ShapeParts DEF MadeOf
  <2> QED BY <1>2, <2>1, GivenBelow
<1>3. ASSUME NEW t \in Shape, NEW u \in Lower(t)
      PROVE  u \in Shape /\ shapeRank[u] \in Nat /\ shapeRank[u] < shapeRank[t]
  BY ShapeRankFacts DEF Lower
<1> HIDE DEF q, d
<1>4. CASE q.op = "one-of" /\ d.op = "one-of"
  <2>1. a \in Lower(r) /\ b \in Lower(s)
    BY <1>1, <1>2, <1>4 DEF UnionPairs, q, d
  <2>2. a \in Shape /\ shapeRank[a] \in Nat /\ shapeRank[a] < shapeRank[r]
    BY <1>3, <2>1
  <2>3. b \in Shape /\ shapeRank[b] \in Nat /\ shapeRank[b] < shapeRank[s]
    BY <1>3, <2>1
  <2> QED BY <1>0, <2>2, <2>3
<1>5. CASE q.op = "one-of" /\ d.op # "one-of"
  <2>1. a \in Lower(r) /\ b = d
    BY <1>1, <1>2, <1>5 DEF UnionPairs, q, d
  <2>2. a \in Shape /\ shapeRank[a] \in Nat /\ shapeRank[a] < shapeRank[r]
    BY <1>3, <2>1
  <2>3. shapeRank[d] <= shapeRank[s] /\ shapeRank[d] \in Nat
    <3>0. shapeRank[d] \in Nat
      BY <1>0, ShapeRankFacts
    <3>1. CASE s.op # "type"
      <4>1. d = s
        BY <1>0, <3>1 DEF Desugared
      <4> QED BY <1>0, <4>1
    <3>2. CASE s.op = "type"
      <4>1. Classes(q) \subseteq {"object", "null"}
        BY <1>5 DEF Classes, TextOps
      <4>2. Example(s).is # "array"
        BY <3>2, <4>1, TypeClasses DEF q, d
      <4>3. shapeRank[d] = 0
        BY <1>0, <3>2, <4>2, NoMembersFacts, OfItsKindFacts DEF Desugared, ScalarKinds
      <4> QED BY <1>0, <3>0, <4>3
    <3> QED BY <3>1, <3>2
  <2> QED BY <1>0, <2>1, <2>2, <2>3
<1>6. CASE q.op # "one-of" /\ d.op = "one-of"
  <2>1. a = q /\ b \in Lower(s) /\ Literals(q, d.discriminator) # {}
    BY <1>1, <1>2, <1>6 DEF UnionPairs, q, d
  <2>2. b \in Shape /\ shapeRank[b] \in Nat /\ shapeRank[b] < shapeRank[s]
    BY <1>3, <2>1
  <2>3. d.discriminator \in Name
    BY <1>0, <1>6, ShapeParts DEF MadeOf
  <2>4. r.op # "type"
    BY <2>1, <2>3, NoLiterals DEF q
  <2>5. q = r
    BY <1>0, <2>4 DEF Desugared
  <2> QED BY <1>0, <2>1, <2>2, <2>5
<1> QED BY <1>4, <1>5, <1>6 DEF UnionPairs, q, d

Triples == Shape \X Shape \X Path

\* Two walks agree on the pairs below a rank.
SameBelow(f, g, n) ==
  \A a, b \in Shape, at \in Path :
    shapeRank[a] + shapeRank[b] < n => f[<<a, b, at>>] = g[<<a, b, at>>]

\* A set of literals against a shape gives an outcome.
LEMMA LiteralSetFacts ==
  ASSUME NEW p, NEW options, NEW at \in Path
  PROVE  /\ LiteralSet(p, options, at) \in Outcome
         /\ LiteralSet(p, options, at).verdict = "yes" =>
              \E vs \in Enumerated(p) : \A v \in vs : \E o \in options : SameValue(o, v)
BY OutcomeFacts DEF LiteralSet

\* So do the literals of a provider within a consumer's.
LEMMA LiteralsWithinFacts ==
  ASSUME NEW p, NEW c, NEW at \in Path
  PROVE  /\ LiteralsWithin(p, c, at) \in Outcome
         /\ LiteralsWithin(p, c, at).verdict = "yes" =>
              \A v \in (IF p.op = "equality" THEN {Example(p)} ELSE Range(p.options)) :
                AdmitsValue(c, v) \notin {{FALSE}, {}}
<1> DEFINE values  == IF p.op = "equality" THEN {Example(p)} ELSE Range(p.options)
           answers == {AdmitsValue(c, v) : v \in values}
<1>1. LiteralsWithin(p, c, at) =
        IF {FALSE} \in answers THEN No(at) ELSE IF {} \in answers THEN Unknown(at) ELSE Yes
  BY DEF LiteralsWithin
<1>2. {FALSE} \notin answers /\ {} \notin answers => \A v \in values : AdmitsValue(c, v) \notin {{FALSE}, {}}
  <2> HIDE DEF values
  <2> QED OBVIOUS
<1> HIDE DEF answers, values
<1>3. /\ LiteralsWithin(p, c, at) \in Outcome
      /\ LiteralsWithin(p, c, at).verdict = "yes" => \A v \in values : AdmitsValue(c, v) \notin {{FALSE}, {}}
  BY <1>1, <1>2, OutcomeFacts
<1> QED BY <1>3 DEF values

\* So do the operators guarded by their examples.
LEMMA GuardedFacts ==
  ASSUME NEW p, NEW c, NEW at \in Path
  PROVE  /\ Guarded(p, c, at) \in Outcome
         /\ Guarded(p, c, at).verdict = "yes" =>
              \/ Conservative(p) /\ c.op = "kind" /\ c.kind = "string"
              \/ /\ Conservative(c) /\ Enumerated(p) # {}
                 /\ \A vs \in Enumerated(p) : \A v \in vs : AdmitsAny(c, v)
<1> DEFINE all == \A vs \in Enumerated(p) : \A v \in vs : AdmitsAny(c, v)
<1>1. Guarded(p, c, at) \in {Yes, Unknown(at), Decided({all}, at)}
  BY DEF Guarded
<1>2. \/ Conservative(p) /\ c.op = "kind" /\ c.kind = "string"
      \/ Conservative(c) /\ Enumerated(p) # {} /\ Guarded(p, c, at) = Decided({all}, at)
      \/ Guarded(p, c, at) = Unknown(at)
  BY DEF Guarded
<1>3. {all} = {TRUE} => all
  OBVIOUS
<1> HIDE DEF all
<1>4. Guarded(p, c, at) \in Outcome
  <2>1. Decided({all}, at) \in Outcome
    BY DecidedFacts
  <2>2. Yes \in Outcome /\ Unknown(at) \in Outcome
    BY OutcomeFacts
  <2> QED BY <1>1, <2>1, <2>2
<1>5. Unknown(at).verdict # "yes" /\ (Decided({all}, at).verdict = "yes" => all)
  BY <1>3, OutcomeFacts, DecidedFacts
<1>6. Guarded(p, c, at).verdict = "yes" =>
        \/ Conservative(p) /\ c.op = "kind" /\ c.kind = "string"
        \/ Conservative(c) /\ Enumerated(p) # {} /\ all
  BY <1>2, <1>5
<1> QED BY <1>4, <1>6 DEF all

\* The alternatives the walk goes to are shapes.
LEMMA UnionPairsShapes ==
  ASSUME NEW p \in Shape, NEW c \in Shape, NEW a, NEW b, UnionPairs(p, c, a, b)
  PROVE  a \in Shape /\ b \in Shape
<1>1. ASSUME NEW t \in Shape, t.op = "one-of", NEW n \in Given(t.alternatives)
      PROVE  t.alternatives[n] \in Shape
  <2>1. t.alternatives \in MayHold(Lower(t))
    BY <1>1, ShapeParts DEF MadeOf
  <2> QED BY <1>1, <2>1, GivenBelow DEF Lower
<1> QED BY <1>1 DEF UnionPairs

\* The table of operators gives an outcome when the walk below does.
LEMMA ExactTyped ==
  ASSUME NEW f, f \in [Triples -> Outcome], NEW r \in Shape, NEW s \in Shape, NEW at \in Path
  PROVE  Exact(f, Desugar(r), Desugar(s), at) \in Outcome
<1> DEFINE q == Desugar(r)
           d == Desugar(s)
<1>0. PartsIn(Slack(r), q) /\ PartsIn(Slack(s), d) /\ q \in Shape /\ d \in Shape
  BY SlackParts, DesugarCases
<1>a. \A a, b \in Shape, x \in Path : f[<<a, b, x>>] \in Outcome
  BY DEF Triples
<1>b. Slack(r) \subseteq Shape /\ Slack(s) \subseteq Shape
  BY DEF Slack, Lower
<1> HIDE DEF q, d
<1>1. CASE "one-of" \in {q.op, d.op}
  <2>1. UnionAnswers(f, q, d)
    BY <1>0, <1>a, UnionPairsShapes DEF UnionAnswers
  <2>2. Unions(f, q, d, at) \in Outcome
    BY <1>0, <1>1, <2>1, UnionsTyped DEF PartsIn
  <2> QED BY <1>1, <2>2 DEF Exact, q, d
<1>2. CASE "one-of" \notin {q.op, d.op} /\ <<q.op, d.op>> \in Structures
  <2>1. Answers(f, Slack(r), Slack(s))
    BY <1>a, <1>b DEF Answers
  <2>2. Structural(f, q, d, at) \in Outcome
    BY <1>0, <1>2, <2>1, StructuralTyped
  <2> QED BY <1>2, <2>2 DEF Exact, q, d
<1>3. CASE "one-of" \notin {q.op, d.op} /\ <<q.op, d.op>> \notin Structures
  <2>1. \A answer : Decided(answer, at) \in Outcome
    BY DecidedFacts
  <2>2. /\ LiteralsWithin(q, d, at) \in Outcome
        /\ \A options : LiteralSet(q, options, at) \in Outcome
    BY LiteralsWithinFacts, LiteralSetFacts
  <2>3. Yes \in Outcome /\ No(at) \in Outcome /\ Unknown(at) \in Outcome
    BY OutcomeFacts
  <2>4. Exact(f, q, d, at) \in Outcome
    BY <1>3, <2>1, <2>2, <2>3 DEF Exact
  <2> QED BY <2>4 DEF q, d
<1> QED BY <1>1, <1>2, <1>3

\* It reads of the walk below pairs of a lower rank only.
LEMMA ExactReads ==
  ASSUME NEW f, NEW g, NEW r \in Shape, NEW s \in Shape, NEW at \in Path,
         SameBelow(f, g, shapeRank[r] + shapeRank[s]), ~(r.op = "type" /\ s.op = "type"),
         Classes(Desugar(r)) \cap Classes(Desugar(s)) # {}
  PROVE  Exact(f, Desugar(r), Desugar(s), at) = Exact(g, Desugar(r), Desugar(s), at)
<1> DEFINE q == Desugar(r)
           d == Desugar(s)
<1>0. PartsIn(Slack(r), q) /\ PartsIn(Slack(s), d) /\ q \in Shape /\ d \in Shape
  BY SlackParts, DesugarCases
<1>a. ASSUME NEW a \in Shape, NEW b \in Shape, NEW x \in Path,
             shapeRank[a] + shapeRank[b] < shapeRank[r] + shapeRank[s]
      PROVE  f[<<a, b, x>>] = g[<<a, b, x>>]
  BY <1>a DEF SameBelow
<1>b. SameUnionAnswers(f, g, q, d)
  BY <1>a, UnionRanks DEF SameUnionAnswers
<1>c. SameAnswers(f, g, Slack(r), Slack(s))
  BY <1>a, SlackRanks DEF SameAnswers
<1> HIDE DEF q, d
<1>1. CASE "one-of" \in {q.op, d.op}
  <2>1. Unions(f, q, d, at) = Unions(g, q, d, at)
    BY <1>0, <1>1, <1>b, UnionsReads DEF PartsIn
  <2> QED BY <1>1, <2>1 DEF Exact, q, d
<1>2. CASE "one-of" \notin {q.op, d.op} /\ <<q.op, d.op>> \in Structures
  <2>1. Structural(f, q, d, at) = Structural(g, q, d, at)
    BY <1>0, <1>2, <1>c, StructuralReads
  <2> QED BY <1>2, <2>1 DEF Exact, q, d
<1>3. CASE "one-of" \notin {q.op, d.op} /\ <<q.op, d.op>> \notin Structures
  BY <1>3 DEF Exact, q, d
<1> QED BY <1>1, <1>2, <1>3

\* So does the rule before it, of equal shapes and of `any`.
LEMMA OperatorsTyped ==
  ASSUME NEW f, f \in [Triples -> Outcome], NEW r \in Shape, NEW s \in Shape, NEW at \in Path, NEW E
  PROVE  Operators(f, r, s, at, E) \in Outcome
<1>1. Exact(f, Desugar(r), Desugar(s), at) \in Outcome
  BY ExactTyped
<1>2. Guarded(Desugar(r), Desugar(s), at) \in Outcome
  BY GuardedFacts
<1>3. Yes \in Outcome /\ No(at) \in Outcome /\ Unknown(at) \in Outcome
  BY OutcomeFacts
<1> QED BY <1>1, <1>2, <1>3 DEF Operators

\* Two types of one kind are answered yes, whatever the walk below says.
LEMMA SameTypes ==
  ASSUME NEW r \in Shape, NEW s \in Shape, r.op = "type", s.op = "type",
         Example(r).is = Example(s).is, NEW at, NEW E
  PROVE  Floor(r, s, at, E)
<1>1. SameNode(sameAdmitsSolution, r, s)
  BY DEF SameNode, TextOps
<1>2. SameAdmits(r, s)
  BY <1>1, SameUnfolds
<1>3. FloorStands(r, at, E)
  BY DEF FloorStands, HasChildren
<1> QED BY <1>2, <1>3 DEF Floor

\* That rule reads of the walk below pairs of a lower rank only.
LEMMA OperatorsReads ==
  ASSUME NEW f, NEW g, NEW r \in Shape, NEW s \in Shape, NEW at \in Path, NEW E,
         SameBelow(f, g, shapeRank[r] + shapeRank[s])
  PROVE  Operators(f, r, s, at, E) = Operators(g, r, s, at, E)
<1>1. ASSUME ~Floor(r, s, at, E), Classes(Desugar(r)) \cap Classes(Desugar(s)) # {}
      PROVE  Exact(f, Desugar(r), Desugar(s), at) = Exact(g, Desugar(r), Desugar(s), at)
  <2>1. ASSUME r.op = "type", s.op = "type" PROVE FALSE
    <3>1. Example(r).is = Example(s).is
      BY <1>1, <2>1, TypeClasses
    <3> QED BY <1>1, <2>1, <3>1, SameTypes
  <2> QED BY <1>1, <2>1, ExactReads
<1> QED BY <1>1 DEF Operators

\* What is left of two nodes, pair by pair.
RestOuts(f, p, c, at, E) ==
  IF Decompose(c).rest = {} THEN {No(at) : r \in Decompose(p).rest}
  ELSE {Operators(f, r, s, at, E) : r \in Decompose(p).rest, s \in Decompose(c).rest}

PresenceOut(p, c, at) ==
  IF (Decompose(p).absent => Decompose(c).absent) /\ (Decompose(p).null => Decompose(c).null)
  THEN Yes ELSE No(at)

\* A node's outcome: that of its presence and those of the shapes it comes apart into.
LEMMA ValueNodeIs ==
  \A f, p, c, at, E :
    ValueNode(f, p, c, at, E) =
      IF Floor(p, c, at, E) THEN Yes
      ELSE Together({PresenceOut(p, c, at)} \cup RestOuts(f, p, c, at, E))
BY DEF ValueNode, PresenceOut, RestOuts

\* The shapes a node comes apart into are of its rank or lower.
LEMMA RestFacts ==
  ASSUME NEW p \in Shape, NEW c \in Shape, NEW r \in Decompose(p).rest, NEW s \in Decompose(c).rest
  PROVE  /\ r \in Shape /\ s \in Shape
         /\ shapeRank[r] + shapeRank[s] \in Nat /\ shapeRank[p] + shapeRank[c] \in Nat
         /\ shapeRank[r] + shapeRank[s] <= shapeRank[p] + shapeRank[c]
<1>1. r \in Shape /\ shapeRank[r] <= shapeRank[p]
  BY DecomposeRest
<1>2. s \in Shape /\ shapeRank[s] <= shapeRank[c]
  BY DecomposeRest
<1>3. /\ shapeRank[r] \in Nat /\ shapeRank[s] \in Nat /\ shapeRank[p] \in Nat /\ shapeRank[c] \in Nat
  BY <1>1, <1>2, ShapeRankFacts
<1> QED BY <1>1, <1>2, <1>3

\* Their outcomes are outcomes.
LEMMA RestTyped ==
  ASSUME NEW f, f \in [Triples -> Outcome], NEW p \in Shape, NEW c \in Shape, NEW at \in Path, NEW E
  PROVE  {PresenceOut(p, c, at)} \cup RestOuts(f, p, c, at, E) \subseteq Outcome
<1>1. PresenceOut(p, c, at) \in Outcome
  BY OutcomeFacts DEF PresenceOut
<1>2. \A r \in Decompose(p).rest, s \in Decompose(c).rest : Operators(f, r, s, at, E) \in Outcome
  BY RestFacts, OperatorsTyped
<1>3. No(at) \in Outcome
  BY OutcomeFacts
<1> QED BY <1>1, <1>2, <1>3 DEF RestOuts

\* So is the node's.
LEMMA ValueNodeTyped ==
  ASSUME NEW f, f \in [Triples -> Outcome], NEW p \in Shape, NEW c \in Shape, NEW at \in Path, NEW E
  PROVE  ValueNode(f, p, c, at, E) \in Outcome
<1>1. Together({PresenceOut(p, c, at)} \cup RestOuts(f, p, c, at, E)) \in Outcome
  BY RestTyped, TogetherFacts
<1> QED BY <1>1, ValueNodeIs, OutcomeFacts

\* A node reads of the walk below pairs of a lower rank only.
LEMMA ValueNodeReads ==
  ASSUME NEW f, NEW g, NEW p \in Shape, NEW c \in Shape, NEW at \in Path, NEW E,
         SameBelow(f, g, shapeRank[p] + shapeRank[c])
  PROVE  ValueNode(f, p, c, at, E) = ValueNode(g, p, c, at, E)
<1>1. ASSUME NEW r \in Decompose(p).rest, NEW s \in Decompose(c).rest
      PROVE  Operators(f, r, s, at, E) = Operators(g, r, s, at, E)
  <2>1. /\ r \in Shape /\ s \in Shape
        /\ shapeRank[r] + shapeRank[s] \in Nat /\ shapeRank[p] + shapeRank[c] \in Nat
        /\ shapeRank[r] + shapeRank[s] <= shapeRank[p] + shapeRank[c]
    BY RestFacts
  <2>2. ASSUME NEW a \in Shape, NEW b \in Shape, NEW x \in Path,
               shapeRank[a] + shapeRank[b] < shapeRank[r] + shapeRank[s]
        PROVE  f[<<a, b, x>>] = g[<<a, b, x>>]
    <3>1. shapeRank[a] \in Nat /\ shapeRank[b] \in Nat
      BY ShapeRankFacts
    <3>2. shapeRank[a] + shapeRank[b] < shapeRank[p] + shapeRank[c]
      <4>1. \A i, j, k \in Nat : i < j /\ j <= k => i < k
        OBVIOUS
      <4>2. shapeRank[a] + shapeRank[b] \in Nat
        BY <3>1
      <4> QED BY <2>1, <2>2, <4>1, <4>2
    <3> QED BY <3>2 DEF SameBelow
  <2>3. SameBelow(f, g, shapeRank[r] + shapeRank[s])
    BY <2>2 DEF SameBelow
  <2> QED BY <2>1, <2>3, OperatorsReads
<1>2. RestOuts(f, p, c, at, E) = RestOuts(g, p, c, at, E)
  <2> DEFINE R == Decompose(p).rest
             S == Decompose(c).rest
  <2> HIDE DEF R, S
  <2>1. {Operators(f, r, s, at, E) : r \in R, s \in S} = {Operators(g, r, s, at, E) : r \in R, s \in S}
    <3>1. \A r \in R, s \in S : Operators(f, r, s, at, E) = Operators(g, r, s, at, E)
      BY <1>1 DEF R, S
    <3> QED BY <3>1
  <2> DEFINE All(h) == {Operators(h, r, s, at, E) : r \in R, s \in S}
             Nones == {No(at) : r \in R}
  <2>2. /\ RestOuts(f, p, c, at, E) = IF S = {} THEN Nones ELSE All(f)
        /\ RestOuts(g, p, c, at, E) = IF S = {} THEN Nones ELSE All(g)
    BY DEF RestOuts, R, S
  <2>3. All(f) = All(g)
    BY <2>1
  <2> HIDE DEF All, Nones
  <2> QED BY <2>2, <2>3
<1> QED BY <1>2, ValueNodeIs

walkSolution(E) ==
  CHOOSE f : f = [x \in ShapeOf(Depth) \X ShapeOf(Depth) \X Path |->
                    Caveat(ValueNode(f, x[1], x[2], x[3], E), x[3], E)]

\* The walk is what its definition says, at every pair.
LEMMA WalkUnfolds ==
  ASSUME NEW E
  PROVE  /\ Walk(E) \in [Triples -> Outcome]
         /\ \A p, c \in Shape, at \in Path :
              Node(p, c, at, E) = Caveat(ValueNode(Walk(E), p, c, at, E), at, E)
<1> DEFINE rank == [x \in Triples |-> shapeRank[x[1]] + shapeRank[x[2]]]
           Body(f, x) == Caveat(ValueNode(f, x[1], x[2], x[3], E), x[3], E)
           D == [f \in [Triples -> Outcome] |-> [x \in Triples |-> Body(f, x)]]
<1>0. \A x \in Triples : x[1] \in Shape /\ x[2] \in Shape /\ x[3] \in Path
  BY DEF Triples
<1>1. rank \in [Triples -> Nat]
  BY <1>0, ShapeRankFacts
<1>2. D \in [[Triples -> Outcome] -> [Triples -> Outcome]]
  <2>1. ASSUME NEW f \in [Triples -> Outcome], NEW x \in Triples PROVE Body(f, x) \in Outcome
    <3>1. ValueNode(f, x[1], x[2], x[3], E) \in Outcome
      BY <1>0, ValueNodeTyped
    <3> QED BY <1>0, <3>1, CaveatFacts
  <2> HIDE DEF Body
  <2> QED BY <2>1
<1>3. ASSUME NEW f \in [Triples -> Outcome], NEW g \in [Triples -> Outcome], NEW x \in Triples,
             \A y \in Triples : rank[y] < rank[x] => f[y] = g[y]
      PROVE  D[f][x] = D[g][x]
  <2>1. ASSUME NEW a \in Shape, NEW b \in Shape, NEW at \in Path,
               shapeRank[a] + shapeRank[b] < shapeRank[x[1]] + shapeRank[x[2]]
        PROVE  f[<<a, b, at>>] = g[<<a, b, at>>]
    <3>1. /\ <<a, b, at>> \in Triples /\ rank[<<a, b, at>>] = shapeRank[a] + shapeRank[b]
          /\ rank[x] = shapeRank[x[1]] + shapeRank[x[2]]
      BY DEF Triples
    <3>2. rank[<<a, b, at>>] < rank[x]
      BY <2>1, <3>1
    <3> HIDE DEF rank
    <3> QED BY <1>3, <3>1, <3>2
  <2>2. SameBelow(f, g, shapeRank[x[1]] + shapeRank[x[2]])
    BY <2>1 DEF SameBelow
  <2>3. ValueNode(f, x[1], x[2], x[3], E) = ValueNode(g, x[1], x[2], x[3], E)
    BY <1>0, <2>2, ValueNodeReads
  <2>4. Body(f, x) = Body(g, x)
    BY <2>3
  <2>5. D[f][x] = Body(f, x) /\ D[g][x] = Body(g, x)
    <3> HIDE DEF Body
    <3> QED OBVIOUS
  <2> QED BY <2>4, <2>5
<1>4. Outcome # {}
  BY OutcomeFacts
<1> HIDE DEF rank, D
<1>5. Recurs(Triples, Outcome, rank, D)
  BY <1>1, <1>2, <1>3, <1>4 DEF Recurs
<1>6. PICK f \in [Triples -> Outcome] : f = D[f]
  BY <1>5, Recursion
<1>7. f = [x \in ShapeOf(Depth) \X ShapeOf(Depth) \X Path |->
             Caveat(ValueNode(f, x[1], x[2], x[3], E), x[3], E)]
  BY <1>6 DEF D, Triples, Shape
<1> DEFINE m == walkSolution(E)
<1>8. m = [x \in ShapeOf(Depth) \X ShapeOf(Depth) \X Path |->
             Caveat(ValueNode(m, x[1], x[2], x[3], E), x[3], E)]
  BY <1>7 DEF walkSolution
<1>9. Walk(E) = m
  BY DEF Walk, walkSolution
<1> HIDE DEF m
<1>10. m = [x \in Triples |-> Body(m, x)]
  BY <1>8 DEF Triples, Shape
<1>11. \A x \in Triples : m[x] = Body(m, x)
  <2> HIDE DEF Body
  <2> QED BY <1>10
<1> DEFINE S == {n \in Nat : \A x \in Triples : rank[x] = n => m[x] \in Outcome}
<1>12. S = Nat
  <2>1. S \in SUBSET Nat
    OBVIOUS
  <2>2. ASSUME NEW n \in Nat, \A k \in Nat : k < n => k \in S PROVE n \in S
    <3> SUFFICES ASSUME NEW x \in Triples, rank[x] = n PROVE m[x] \in Outcome
      OBVIOUS
    <3> DEFINE g == [y \in Triples |-> IF rank[y] < n THEN m[y] ELSE f[y]]
    <3>1. g \in [Triples -> Outcome]
      <4>1. \A y \in Triples : rank[y] < n => m[y] \in Outcome
        BY <1>1, <2>2
      <4> QED BY <4>1
    <3>2. ASSUME NEW a \in Shape, NEW b \in Shape, NEW at \in Path,
                 shapeRank[a] + shapeRank[b] < shapeRank[x[1]] + shapeRank[x[2]]
          PROVE  m[<<a, b, at>>] = g[<<a, b, at>>]
      <4>1. /\ <<a, b, at>> \in Triples /\ rank[<<a, b, at>>] = shapeRank[a] + shapeRank[b]
            /\ rank[x] = shapeRank[x[1]] + shapeRank[x[2]]
        BY DEF Triples, rank
      <4>2. rank[<<a, b, at>>] < n
        BY <3>2, <4>1
      <4> QED BY <4>1, <4>2
    <3>3. SameBelow(m, g, shapeRank[x[1]] + shapeRank[x[2]])
      BY <3>2 DEF SameBelow
    <3> HIDE DEF g
    <3>4. ValueNode(m, x[1], x[2], x[3], E) = ValueNode(g, x[1], x[2], x[3], E)
      BY <1>0, <3>3, ValueNodeReads
    <3>5. ValueNode(g, x[1], x[2], x[3], E) \in Outcome
      BY <1>0, <3>1, ValueNodeTyped
    <3>6. Body(m, x) \in Outcome
      BY <1>0, <3>4, <3>5, CaveatFacts
    <3> QED BY <1>11, <3>6
  <2> HIDE DEF S
  <2> QED BY <2>1, <2>2, Induction
<1>13. \A x \in Triples : m[x] \in Outcome
  BY <1>1, <1>12
<1>14. m \in [Triples -> Outcome]
  <2> HIDE DEF Body
  <2>1. m = [x \in Triples |-> m[x]]
    BY <1>10
  <2> QED BY <1>13, <2>1
<1>15. ASSUME NEW p \in Shape, NEW c \in Shape, NEW at \in Path
       PROVE  m[<<p, c, at>>] = Caveat(ValueNode(m, p, c, at, E), at, E)
  BY <1>11 DEF Triples
<1> QED BY <1>9, <1>14, <1>15 DEF Node

-----------------------------------------------------------------------------
\* What the table of operators knows of the values of a node is so.

\* Every value of p is one of c, but for how a number is written.
Covers(p, c) ==
  \A v \in Value, at1, at2 \in Path :
    unread[v] /\ Adm(p, v, at1) => \E w \in Value : SameValue(v, w) /\ Adm(c, w, at2)

\* A shape that admits the same values covers.
LEMMA AgreeCovers ==
  ASSUME NEW p, NEW c, Agree(p, c)
  PROVE  Covers(p, c)
BY EqualReflexive DEF Agree, Covers

\* The options of an any-of are present values.
LEMMA OptionsPresent ==
  ASSUME NEW s \in Shape, s.op = "any-of"
  PROVE  Range(s.options) \subseteq Present /\ Range(s.options) \subseteq Value
<1>1. s.options \in Seq(Present)
  BY ShapeParts DEF MadeOf
<1>2. Range(s.options) \subseteq Present
  BY <1>1 DEF Range
<1> QED BY <1>2, ScalarsPresent

\* The example of an equality or a type is a present value.
LEMMA ExamplePresent ==
  ASSUME NEW s \in Shape, s.op \in {"equality", "type"}
  PROVE  Example(s) \in Present /\ Example(s) \in Value /\ Example(s).is # "absent"
<1>1. Example(s) \in Present
  BY ShapeParts DEF MadeOf
<1> QED BY <1>1, ScalarsPresent, AbsentFacts

\* A value an alternative admits holds one of its literals.
LEMMA LiteralsAdmitted ==
  ASSUME NEW s \in Shape, NEW d \in Name, Literals(s, d) # {}, NEW v \in Value, v.is # "null",
         NEW at \in Path, Adm(s, v, at)
  PROVE  v.is = "object" /\ \E l \in Literals(s, d) : SameValue(v.members[d], l)
<1> DEFINE o == Object(s)
           t == TagOf(s, d)
<1>1. PICK k \in Literals(s, d) : TRUE
  OBVIOUS
<1>2. /\ o \in Shape /\ o.op = "object" /\ d \in Given(o.members) /\ t \in Lower(o)
      /\ t.op \in {"equality", "any-of"} /\ t = o.members[d]
  BY LiteralFacts DEF TagOf
<1>3. Adm(o, v, at)
  <2>1. CASE s.op = "nullable"
    <3>1. o = s.of
      BY <2>1 DEF Object
    <3>2. v.is = "null" \/ Adm(s.of, v, at)
      BY <2>1, AdmNested
    <3> QED BY <3>1, <3>2
  <2>2. CASE s.op # "nullable"
    BY <2>2 DEF Object
  <2> QED BY <2>1, <2>2
<1>a. Literals(s, d) = (CASE t.op = "equality" -> {Example(t)}
                          [] t.op = "any-of"   -> Range(t.options)
                          [] OTHER -> {})
  BY <1>2 DEF Literals
<1> HIDE DEF o, t
<1>4. v.is = "object" /\ Adm(o.members[d], v.members[d], Append(at, InMember(d)))
  BY <1>2, <1>3, AdmNested
<1>5. v.members[d] \in Value /\ Append(at, InMember(d)) \in Path /\ t \in Shape
  BY <1>2, <1>4, ValueFacts, StepFacts DEF Lower
<1>6. Adm(t, v.members[d], Append(at, InMember(d)))
  BY <1>2, <1>4
<1>7. CASE t.op = "equality"
  <2>1. SameValue(v.members[d], Example(t))
    BY <1>5, <1>6, <1>7, AdmLeaf
  <2>2. Literals(s, d) = {Example(t)}
    BY <1>7, <1>a
  <2> QED BY <1>4, <2>1, <2>2
<1>8. CASE t.op = "any-of"
  <2>1. \E l \in Range(t.options) : SameValue(v.members[d], l)
    BY <1>5, <1>6, <1>8, AdmNested
  <2>2. Literals(s, d) = Range(t.options)
    BY <1>8, <1>a
  <2> QED BY <1>4, <2>1, <2>2
<1> QED BY <1>2, <1>7, <1>8

\* What a one-of admits is an object, or the null of a nullable alternative.
LEMMA OneOfAdmits ==
  ASSUME NEW s \in Shape, s.op = "one-of", NEW v \in Value, NEW at \in Path, Adm(s, v, at)
  PROVE  /\ v.is = "object"
         /\ \E n \in Given(s.alternatives) : n \in Selected(s, v)
                /\ Adm(s.alternatives[n], v, Append(at, InAlternative(n)))
<1>0. s.discriminator \in Name /\ s.alternatives \in MayHold(Lower(s))
  BY ShapeParts DEF MadeOf
<1>1. PICK n \in Selected(s, v) : Adm(s.alternatives[n], v, Append(at, InAlternative(n)))
  BY AdmNested
<1>2. n \in Given(s.alternatives)
  BY DEF Selected
<1>3. PICK l \in Literals(s.alternatives[n], s.discriminator) : SameValue(Member(v, s.discriminator), l)
  BY DEF Selected
<1>4. s.alternatives[n] \in Shape
  BY <1>0, <1>2, GivenBelow DEF Lower
<1>5. l \in Value /\ l.is # "absent"
  <2>1. l \in Present
    BY <1>0, <1>4, LiteralFacts
  <2> QED BY <2>1, ScalarsPresent, AbsentFacts
<1>6. v.is = "object"
  <2>1. ASSUME v.is # "object" PROVE FALSE
    <3>1. Member(v, s.discriminator) = Absent
      BY <2>1 DEF Member
    <3>2. SameValue(Absent, l) /\ Absent \in Value /\ Absent.is = "absent"
      BY <1>3, <3>1, AbsentFacts
    <3>3. l.is = "absent"
      BY <1>5, <3>2, EqualKinds
    <3> QED BY <1>5, <3>3
  <2> QED BY <2>1
<1> QED BY <1>1, <1>2, <1>6

\* Only an operator about absence admits what is not there.
LEMMA NotAbsent ==
  ASSUME NEW s \in Shape, Core(s), NEW v \in Value, NEW at \in Path, Adm(s, v, at)
  PROVE  v.is # "absent"
<1>0. s.op \in LeafOps \cup {"any-of", "object", "array", "contains", "each-like", "each-entry", "one-of"}
  BY ShapeParts DEF MadeOf, Core
<1>1. CASE s.op = "any"
  BY <1>1, AdmLeaf
<1>2. CASE s.op = "equality"
  <2>1. SameValue(v, Example(s))
    BY <1>2, AdmLeaf
  <2>2. v.is = Example(s).is
    BY <1>2, <2>1, ExamplePresent, EqualKinds
  <2> QED BY <1>2, <2>2, ExamplePresent
<1>3. CASE s.op = "type"
  <2>1. v.is = Example(s).is
    BY <1>3, AdmLeaf
  <2> QED BY <1>3, <2>1, ExamplePresent
<1>4. CASE s.op = "kind"
  <2>1. OfKind(s.kind, v)
    BY <1>4, AdmLeaf
  <2>2. s.kind \in {"null", "boolean", "number", "integer", "decimal", "string"}
    BY <1>4, ShapeParts DEF MadeOf
  <2> QED BY <2>1, <2>2 DEF OfKind
<1>5. CASE s.op = "not-empty"
  <2>1. ~IsEmpty(v)
    BY <1>5, AdmLeaf
  <2> QED BY <2>1 DEF IsEmpty
<1>6. CASE s.op \in TextOps
  <2>1. Readable(s.op, v) # {}
    BY <1>6, AdmLeaf
  <2> QED BY <2>1 DEF Readable
<1>7. CASE s.op = "component"
  <2>1. v \in Contributed[s.operator]
    BY <1>7, AdmLeaf
  <2>2. s.operator \in DOMAIN Contributed
    BY <1>7, ShapeParts DEF MadeOf
  <2>3. v # Absent
    BY <2>1, <2>2, ShapesAssumption
  <2> QED BY <2>3, AbsentFacts
<1>8. CASE s.op = "any-of"
  <2>1. PICK o \in Range(s.options) : SameValue(v, o)
    BY <1>8, AdmNested
  <2>2. o \in Present /\ o \in Value
    BY <1>8, OptionsPresent
  <2>3. v.is = o.is
    BY <2>1, <2>2, EqualKinds
  <2> QED BY <2>2, <2>3, AbsentFacts
<1>9. CASE s.op = "object"
  <2>1. v.is = "object"
    BY <1>9, AdmNested
  <2> QED BY <2>1
<1>10. CASE s.op = "array"
  <2>1. v.is = "array"
    BY <1>10, AdmNested
  <2> QED BY <2>1
<1>11. CASE s.op = "each-like"
  <2>1. v.is = "array"
    BY <1>11, AdmNested
  <2> QED BY <2>1
<1>12. CASE s.op = "each-entry"
  <2>1. v.is = "object"
    BY <1>12, AdmNested
  <2> QED BY <2>1
<1>13. CASE s.op = "one-of"
  <2>1. v.is = "object"
    BY <1>13, OneOfAdmits
  <2> QED BY <2>1
<1>14. CASE s.op = "contains"
  <2>1. v.is = "array"
    BY <1>14, AdmContains DEF AdmitsContains
  <2> QED BY <2>1
<1> QED
  BY <1>0, <1>1, <1>2, <1>3, <1>4, <1>5, <1>6, <1>7, <1>8, <1>9, <1>10, <1>11, <1>12, <1>13, <1>14
  DEF LeafOps

\* Equal values are empty together.
LEMMA EmptySame ==
  ASSUME NEW u \in Value, NEW v \in Value, SameValue(u, v)
  PROVE  IsEmpty(u) <=> IsEmpty(v)
<1>1. u.is = v.is
  BY EqualKinds
<1>2. CASE u.is \in {"absent", "null"}
  BY <1>1, <1>2 DEF IsEmpty
<1>3. CASE u.is \in {"string", "boolean"}
  <2>1. u = v
    BY <1>3, EqualKinds
  <2> QED BY <2>1
<1>4. CASE u.is = "number"
  BY <1>1, <1>4 DEF IsEmpty
<1>5. CASE u.is = "array"
  <2>1. u.items \in Seq(Present) /\ v.items \in Seq(Present) /\ Len(u.items) = Len(v.items)
    BY <1>5, EqualKinds
  <2>2. u.items = <<>> <=> v.items = <<>>
    BY <2>1
  <2> QED BY <1>1, <1>5, <2>2 DEF IsEmpty
<1>6. CASE u.is = "object"
  <2>1. \A n \in Name : SameValue(u.members[n], v.members[n])
    BY <1>6, EqualKinds
  <2>2. \A n \in Name : u.members[n] \in Value /\ v.members[n] \in Value
    BY <1>1, <1>6, ValueFacts
  <2>3. \A n \in Name : u.members[n].is = v.members[n].is
    BY <2>1, <2>2, EqualKinds
  <2>4. \A n \in Name : u.members[n] = Absent <=> v.members[n] = Absent
    BY <2>2, <2>3, AbsentFacts
  <2>5. MemberNames(u) = MemberNames(v)
    BY <2>4 DEF MemberNames
  <2> QED BY <1>1, <1>6, <2>5 DEF IsEmpty
<1> QED BY <1>2, <1>3, <1>4, <1>5, <1>6, ValueFacts DEF AllKinds

-----------------------------------------------------------------------------
\* What the walk lists, and what it asks of one value, is right.

\* A listing of a node's values is of values, and leaves none of them out.
Lists(p, vs) ==
  /\ vs \subseteq Value
  /\ \A v \in Value, at \in Path : Adm(p, v, at) => \E u \in vs : SameValue(v, u)

\* The nulls and the truths there are.
LEMMA TruthFacts ==
  /\ Null \in Value /\ Truth(TRUE) \in Value /\ Truth(FALSE) \in Value
  /\ \A v \in Value : v.is = "null" => v = Null
  /\ \A v \in Value : v.is = "boolean" => v \in {Truth(TRUE), Truth(FALSE)}
<1>1. Null \in Scalar /\ Truth(TRUE) \in Scalar /\ Truth(FALSE) \in Scalar
  BY DEF Scalar, Truth
<1>2. \A v \in Value : v.is = "null" => v = Null
  <2> SUFFICES ASSUME NEW v \in Value, v.is = "null" PROVE v = Null
    OBVIOUS
  <2>1. v \in Scalar
    BY ValueFacts DEF ScalarKinds
  <2> QED BY <2>1, ScalarFacts
<1>3. \A v \in Value : v.is = "boolean" => v \in {Truth(TRUE), Truth(FALSE)}
  <2> SUFFICES ASSUME NEW v \in Value, v.is = "boolean" PROVE v \in {Truth(TRUE), Truth(FALSE)}
    OBVIOUS
  <2>1. v \in Scalar
    BY ValueFacts DEF ScalarKinds
  <2>2. v.truth \in BOOLEAN /\ v = Truth(v.truth)
    BY <2>1, ScalarFacts
  <2>3. v.truth = TRUE \/ v.truth = FALSE
    BY <2>2
  <2>4. CASE v.truth = TRUE
    BY <2>2, <2>4
  <2>5. CASE v.truth = FALSE
    BY <2>2, <2>5
  <2> QED BY <2>3, <2>4, <2>5
<1> QED BY <1>1, <1>2, <1>3, ScalarsPresent

\* The empty list is the one with no item.
LEMMA EmptyListFacts ==
  /\ List(<<>>) \in Value
  /\ \A v \in Value : v.is = "array" /\ Len(v.items) = 0 => v = List(<<>>)
<1>1. <<>> \in Seq(Below(Depth))
  OBVIOUS
<1>2. List(<<>>) \in ValueTo[Depth]
  BY <1>1, LevelIntro, DepthIsNat
<1>3. ASSUME NEW v \in Value, v.is = "array", Len(v.items) = 0
      PROVE  v = List(<<>>)
  <2>1. v = List(v.items) /\ v.items \in Seq(Present)
    BY <1>3, ValueFacts
  <2>2. v.items = <<>>
    BY <1>3, <2>1
  <2> QED BY <2>1, <2>2
<1> QED BY <1>2, <1>3 DEF Value, Present

\* The values the walk lists for a node are all it admits.
LEMMA EnumeratedLists ==
  ASSUME NEW p \in Shape, NEW vs \in Enumerated(p)
  PROVE  Lists(p, vs)
<1>0. \/ p.op = "kind" /\ p.kind = "null" /\ vs = {Null}
      \/ p.op = "kind" /\ p.kind = "boolean" /\ vs = {Truth(TRUE), Truth(FALSE)}
      \/ p.op = "equality" /\ vs = {Example(p)}
      \/ p.op = "any-of" /\ vs = Range(p.options)
      \/ p.op = "array" /\ p.entries = <<>> /\ vs = {List(<<>>)}
  BY DEF Enumerated
<1>1. CASE p.op = "kind" /\ p.kind = "null" /\ vs = {Null}
  <2>1. ASSUME NEW v \in Value, NEW at \in Path, Adm(p, v, at) PROVE v = Null
    <3>1. OfKind(p.kind, v)
      BY <1>1, <2>1, AdmLeaf
    <3>2. v.is = "null"
      BY <1>1, <3>1 DEF OfKind
    <3> QED BY <3>2, TruthFacts
  <2> QED BY <1>1, <2>1, TruthFacts, EqualReflexive DEF Lists
<1>2. CASE p.op = "kind" /\ p.kind = "boolean" /\ vs = {Truth(TRUE), Truth(FALSE)}
  <2>1. ASSUME NEW v \in Value, NEW at \in Path, Adm(p, v, at)
        PROVE  v \in {Truth(TRUE), Truth(FALSE)}
    <3>1. OfKind(p.kind, v)
      BY <1>2, <2>1, AdmLeaf
    <3>2. v.is = "boolean"
      BY <1>2, <3>1 DEF OfKind
    <3> QED BY <3>2, TruthFacts
  <2>2. \A v \in vs : SameValue(v, v)
    BY <1>2, TruthFacts, EqualReflexive
  <2> QED BY <1>2, <2>1, <2>2, TruthFacts DEF Lists
<1>3. CASE p.op = "equality" /\ vs = {Example(p)}
  <2>1. \A v \in Value, at \in Path : Adm(p, v, at) => SameValue(v, Example(p))
    BY <1>3, AdmLeaf
  <2> QED BY <1>3, <2>1, ExamplePresent DEF Lists
<1>4. CASE p.op = "any-of" /\ vs = Range(p.options)
  <2>1. \A v \in Value, at \in Path : Adm(p, v, at) => \E o \in Range(p.options) : SameValue(v, o)
    BY <1>4, AdmNested
  <2> QED BY <1>4, <2>1, OptionsPresent DEF Lists
<1>5. CASE p.op = "array" /\ p.entries = <<>> /\ vs = {List(<<>>)}
  <2>1. ASSUME NEW v \in Value, NEW at \in Path, Adm(p, v, at) PROVE v = List(<<>>)
    <3>1. v.is = "array" /\ Len(v.items) = Len(p.entries)
      BY <1>5, <2>1, AdmNested
    <3>2. Len(v.items) = 0
      BY <1>5, <3>1
    <3> QED BY <3>1, <3>2, EmptyListFacts
  <2> QED BY <1>5, <2>1, EmptyListFacts, EqualReflexive DEF Lists
<1> QED BY <1>0, <1>1, <1>2, <1>3, <1>4, <1>5

\* What a shape is said to admit without matching, it admits.
LEMMA AdmitsValueRight ==
  ASSUME NEW c \in Shape, NEW u \in Value, u.is # "absent", AdmitsValue(c, u) \notin {{FALSE}, {}},
         NEW at \in Path
  PROVE  Adm(c, u, at)
<1>1. CASE c.op = "any"
  BY <1>1, AdmLeaf
<1>2. CASE c.op = "kind"
  <2>1. AdmitsValue(c, u) = {OfKind(c.kind, u)}
    BY <1>2 DEF AdmitsValue
  <2>2. OfKind(c.kind, u)
    <3>1. OfKind(c.kind, u) \in BOOLEAN
      BY DEF OfKind
    <3>2. OfKind(c.kind, u) # FALSE
      BY <2>1
    <3> QED BY <3>1, <3>2
  <2> QED BY <1>2, <2>2, AdmLeaf
<1>3. CASE c.op = "equality"
  <2>1. AdmitsValue(c, u) = {SameValue(Example(c), u)}
    BY <1>3 DEF AdmitsValue
  <2>2. Example(c) \in Value
    BY <1>3, ExamplePresent
  <2>3. SameValue(Example(c), u) \in BOOLEAN
    BY <2>2, EqualityUnfolds DEF SameValue
  <2>4. SameValue(Example(c), u) # FALSE
    BY <2>1
  <2>5. SameValue(u, Example(c))
    BY <2>2, <2>3, <2>4, EqualSymmetric
  <2> QED BY <1>3, <2>5, AdmLeaf
<1>4. CASE c.op = "any-of"
  <2>1. AdmitsValue(c, u) = {\E o \in Range(c.options) : SameValue(o, u)}
    BY <1>4 DEF AdmitsValue
  <2>2. \E o \in Range(c.options) : SameValue(o, u)
    <3>1. (\E o \in Range(c.options) : SameValue(o, u)) \in BOOLEAN
      OBVIOUS
    <3>2. (\E o \in Range(c.options) : SameValue(o, u)) # FALSE
      BY <2>1
    <3> QED BY <3>1, <3>2
  <2>3. \E o \in Range(c.options) : SameValue(u, o)
    BY <1>4, <2>2, OptionsPresent, EqualSymmetric
  <2> QED BY <1>4, <2>3, AdmNested
<1>5. CASE c.op = "not-empty"
  <2>1. AdmitsValue(c, u) = {~IsEmpty(u)}
    BY <1>5 DEF AdmitsValue
  <2>2. ~IsEmpty(u)
    BY <2>1
  <2> QED BY <1>5, <2>2, AdmLeaf
<1>6. CASE c.op = "semver"
  <2>1. AdmitsValue(c, u) = {Readable("semver", u) \cap Language[<<c.op, c.parameter>>] # {}}
    BY <1>6 DEF AdmitsValue
  <2>2. Readable(c.op, u) \cap Language[<<c.op, c.parameter>>] # {}
    BY <1>6, <2>1
  <2> QED BY <1>6, <2>2, AdmLeaf DEF TextOps
<1>7. CASE c.op \notin {"any", "kind", "equality", "any-of", "not-empty", "semver"}
  BY <1>7 DEF AdmitsValue
<1> QED BY <1>1, <1>2, <1>3, <1>4, <1>5, <1>6, <1>7

\* An object whose shape has a member that must be there is not empty.
LEMMA MemberNeeded ==
  ASSUME NEW p \in Shape, p.op = "object", NEW n \in Given(p.members),
         ~Decompose(p.members[n]).absent,
         NEW v \in Value, NEW at \in Path, Adm(p, v, at)
  PROVE  v.is = "object" /\ MemberNames(v) # {}
<1>1. v.is = "object" /\ Adm(p.members[n], v.members[n], Append(at, InMember(n)))
  BY AdmNested
<1>2. p.members \in MayHold(Lower(p))
  BY ShapeParts DEF MadeOf
<1>3. n \in Name /\ p.members[n] \in Shape
  BY <1>2, GivenBelow DEF Lower
<1>4. v.members[n] \in Value /\ Append(at, InMember(n)) \in Path
  BY <1>1, <1>3, ValueFacts, StepFacts
<1> DEFINE d == Decompose(p.members[n])
           w == v.members[n]
<1>5. AdmitsTaken(d, w, Append(at, InMember(n)))
  BY <1>1, <1>3, <1>4, DecomposeExact
<1>6. \A r \in d.rest : r \in Shape /\ Core(r)
  BY <1>3, DecomposeRest
<1>7. w.is # "absent"
  <2> HIDE DEF d, w
  <2>1. CASE d.absent /\ w.is = "absent"
    BY <2>1 DEF d
  <2>2. CASE d.null /\ w.is = "null"
    BY <2>2
  <2>3. CASE \E r \in d.rest : Adm(r, w, Append(at, InMember(n)))
    <3>1. PICK r \in d.rest : Adm(r, w, Append(at, InMember(n)))
      BY <2>3
    <3>2. w \in Value
      BY <1>4 DEF w
    <3> QED BY <1>4, <1>6, <3>1, <3>2, NotAbsent
  <2> QED BY <1>5, <2>1, <2>2, <2>3 DEF AdmitsTaken
<1>8. v.members[n] # Absent
  BY <1>7, AbsentFacts
<1>9. n \in MemberNames(v)
  BY <1>3, <1>8 DEF MemberNames
<1> QED BY <1>1, <1>9

\* What is said to hold of no empty value does not.
LEMMA OnlyNonEmptyRight ==
  ASSUME NEW p \in Shape, OnlyNonEmpty(p) = {TRUE}, NEW v \in Value, NEW at \in Path, Adm(p, v, at)
  PROVE  ~IsEmpty(v)
<1>1. CASE p.op = "kind"
  <2>1. p.kind \in {"number", "integer", "decimal", "boolean"}
    <3>1. {p.kind \in {"number", "integer", "decimal", "boolean"}} = {TRUE}
      BY <1>1 DEF OnlyNonEmpty
    <3> QED BY <3>1
  <2>2. OfKind(p.kind, v)
    BY <1>1, AdmLeaf
  <2>3. v.is \in {"number", "boolean"}
    BY <2>1, <2>2 DEF OfKind
  <2> QED BY <2>3 DEF IsEmpty
<1>2. CASE p.op = "semver"
  <2>1. Readable("semver", v) \cap Language[<<p.op, p.parameter>>] # {}
    <3>1. Readable(p.op, v) \cap Language[<<p.op, p.parameter>>] # {}
      BY <1>2, AdmLeaf DEF TextOps
    <3> QED BY <1>2, <3>1
  <2>2. v.is = "string" /\ Written(v) \in Language[<<p.op, p.parameter>>]
    BY <2>1 DEF Readable
  <2>3. Written(v) = v.text
    BY <2>2 DEF Written
  <2>4. <<p.op, p.parameter>> \in DOMAIN Language
    BY <1>2, ShapeParts DEF MadeOf, TextOps
  <2>5. "" \notin Language[<<p.op, p.parameter>>]
    <3>1. <<p.op, p.parameter>>[1] = "semver"
      BY <1>2
    <3> QED BY <2>4, <3>1, ShapesAssumption
  <2>6. v.text # ""
    BY <2>2, <2>3, <2>5
  <2> QED BY <2>2, <2>6 DEF IsEmpty
<1>3. CASE p.op = "equality"
  <2>1. ~IsEmpty(Example(p))
    <3>1. {~IsEmpty(Example(p))} = {TRUE}
      BY <1>3 DEF OnlyNonEmpty
    <3> QED BY <3>1
  <2>2. SameValue(v, Example(p))
    BY <1>3, AdmLeaf
  <2> QED BY <1>3, <2>1, <2>2, ExamplePresent, EmptySame
<1>4. CASE p.op = "any-of"
  <2>1. \A o \in Range(p.options) : ~IsEmpty(o)
    <3>1. {\A o \in Range(p.options) : ~IsEmpty(o)} = {TRUE}
      BY <1>4 DEF OnlyNonEmpty
    <3> QED BY <3>1
  <2>2. PICK o \in Range(p.options) : SameValue(v, o)
    BY <1>4, AdmNested
  <2>3. o \in Value
    BY <1>4, OptionsPresent
  <2> QED BY <2>1, <2>2, <2>3, EmptySame
<1>5. CASE p.op = "array"
  <2>1. p.entries # <<>>
    <3>1. {p.entries # <<>>} = {TRUE}
      BY <1>5 DEF OnlyNonEmpty
    <3> QED BY <3>1
  <2>2. v.is = "array" /\ Len(v.items) = Len(p.entries)
    BY <1>5, AdmNested
  <2>3. v.items \in Seq(Present) /\ p.entries \in Seq(Lower(p))
    BY <1>5, <2>2, ValueFacts, ShapeParts DEF MadeOf
  <2>4. v.items # <<>>
    BY <2>1, <2>2, <2>3
  <2> QED BY <2>2, <2>4 DEF IsEmpty
<1>6. CASE p.op = "each-like"
  <2>1. p.min >= 1
    <3>1. {p.min >= 1} = {TRUE}
      BY <1>6 DEF OnlyNonEmpty
    <3> QED BY <3>1
  <2>2. v.is = "array" /\ Within(Len(v.items), p)
    BY <1>6, AdmNested
  <2>3. v.items \in Seq(Present) /\ p.min \in Nat
    BY <1>6, <2>2, ValueFacts, ShapeParts DEF MadeOf
  <2>4. p.min <= Len(v.items)
    BY <2>2 DEF Within
  <2>5. v.items # <<>>
    BY <2>1, <2>3, <2>4
  <2> QED BY <2>2, <2>5 DEF IsEmpty
<1>7. CASE p.op = "each-entry"
  <2>1. p.min >= 1
    <3>1. {p.min >= 1} = {TRUE}
      BY <1>7 DEF OnlyNonEmpty
    <3> QED BY <3>1
  <2>2. v.is = "object" /\ Within(Cardinality(MemberNames(v)), p)
    BY <1>7, AdmNested
  <2>3. p.min \in Nat /\ p.min <= Cardinality(MemberNames(v))
    BY <1>7, <2>2, ShapeParts DEF MadeOf, Within
  <2>4. MemberNames(v) # {}
    <3>1. Cardinality({}) = 0
      BY FS_EmptySet
    <3> QED BY <2>1, <2>3, <3>1
  <2> QED BY <2>2, <2>4 DEF IsEmpty
<1>8. CASE p.op = "object"
  <2>1. \E n \in Given(p.members) : ~Decompose(p.members[n]).absent
    <3>1. {\E n \in Given(p.members) : ~Decompose(p.members[n]).absent} = {TRUE}
      BY <1>8 DEF OnlyNonEmpty
    <3> QED BY <3>1
  <2>2. v.is = "object" /\ MemberNames(v) # {}
    BY <1>8, <2>1, MemberNeeded
  <2> QED BY <2>2 DEF IsEmpty
<1>9. CASE p.op \notin {"kind", "semver", "equality", "any-of", "array", "each-like", "each-entry",
                        "object"}
  BY <1>9 DEF OnlyNonEmpty
<1> QED BY <1>1, <1>2, <1>3, <1>4, <1>5, <1>6, <1>7, <1>8, <1>9

-----------------------------------------------------------------------------
\* A yes about the parts of a list or an object is a yes about the whole.

\* What the walk below says of these pairs is so.
SoundFor(f, A, B) ==
  \A a \in A, b \in B, at \in Path :
    Read(a) /\ Read(b) /\ f[<<a, b, at>>].verdict = "yes" => Covers(a, b)

\* A value of a covered shape has an equal one in the shape that covers it.
LEMMA CoversOne ==
  ASSUME NEW a, NEW b, Covers(a, b), NEW v \in Value, unread[v], NEW at1 \in Path, NEW at2 \in Path,
         Adm(a, v, at1)
  PROVE  \E w \in Value : SameValue(v, w) /\ Adm(b, w, at2)
BY DEF Covers

\* A value for every item, or every member, equal to the one there.
GoodParts(parts, K, good) == \A i \in K : \E u \in good[i] : u \in Value /\ SameValue(parts[i], u)

ListWith(v, good) ==
  \E w \in Value : /\ w.is = "array" /\ SameValue(v, w)
                   /\ Len(w.items) = Len(v.items) /\ DOMAIN w.items = DOMAIN v.items
                   /\ \A i \in DOMAIN v.items : w.items[i] \in good[i]

ObjectWith(v, good) ==
  \E w \in Value : /\ w.is = "object" /\ SameValue(v, w)
                   /\ \A n \in Name : w.members[n] \in good[n]

\* Equal items may be chosen one by one.
LEMMA ItemsChosen ==
  ASSUME NEW v \in Value, v.is = "array", NEW good, GoodParts(v.items, DOMAIN v.items, good)
  PROVE  ListWith(v, good)
<1> DEFINE chosen(i) == CHOOSE u \in good[i] : u \in Value /\ SameValue(v.items[i], u)
           items == [i \in 1..Len(v.items) |-> chosen(i)]
<1>1. v.items \in Seq(Present)
  BY ValueFacts
<1>2. DOMAIN v.items = 1..Len(v.items) /\ Len(v.items) \in Nat
  BY <1>1
<1>3. ASSUME NEW i \in DOMAIN v.items
      PROVE  chosen(i) \in good[i] /\ chosen(i) \in Value /\ SameValue(v.items[i], chosen(i))
  BY DEF GoodParts
<1> HIDE DEF chosen
<1>4. items \in Seq(Value) /\ Len(items) = Len(v.items) /\ DOMAIN items = DOMAIN v.items
  BY <1>2, <1>3
<1>5. \A i \in DOMAIN v.items : items[i] = chosen(i)
  BY <1>2
<1> HIDE DEF items
<1>6. \A i \in DOMAIN v.items : SameValue(v.items[i], items[i])
  BY <1>3, <1>5
<1>7. List(items) \in Value /\ SameValue(v, List(items))
  BY <1>4, <1>6, ListAnew
<1>8. List(items).is = "array" /\ List(items).items = items
  BY DEF List
<1>9. \A i \in DOMAIN v.items : items[i] \in good[i]
  BY <1>3, <1>5
<1> QED BY <1>4, <1>7, <1>8, <1>9 DEF ListWith

\* So may equal members.
LEMMA MembersChosen ==
  ASSUME NEW v \in Value, v.is = "object", NEW good, GoodParts(v.members, Name, good)
  PROVE  ObjectWith(v, good)
<1> DEFINE chosen(n) == CHOOSE u \in good[n] : u \in Value /\ SameValue(v.members[n], u)
           members == [n \in Name |-> chosen(n)]
           w == [is |-> "object", members |-> members]
<1>1. ASSUME NEW n \in Name
      PROVE  chosen(n) \in good[n] /\ chosen(n) \in Value /\ SameValue(v.members[n], chosen(n))
  BY DEF GoodParts
<1> HIDE DEF chosen
<1>2. members \in [Name -> Value] /\ \A n \in Name : members[n] = chosen(n)
  BY <1>1
<1> HIDE DEF members
<1>3. \A n \in Name : SameValue(v.members[n], members[n]) /\ members[n] \in good[n]
  BY <1>1, <1>2
<1>4. w \in Value /\ SameValue(v, w)
  BY <1>2, <1>3, ObjectAnew
<1>5. w.is = "object" /\ w.members = members
  OBVIOUS
<1> HIDE DEF w
<1> QED BY <1>3, <1>4, <1>5 DEF ObjectWith

\* Two lists: item by item.
LEMMA ArraysSound ==
  ASSUME NEW f, NEW A, NEW B, SoundFor(f, A, B), Answers(f, A, B),
         NEW p \in Shape, NEW c \in Shape, Read(p), Read(c), MadeOf(A, p), MadeOf(B, c),
         p.op = "array", c.op = "array",
         NEW at \in Path, Structural(f, p, c, at).verdict = "yes"
  PROVE  Covers(p, c)
<1>1. p.entries \in Seq(A) /\ c.entries \in Seq(B)
  BY DEF MadeOf
<1> DEFINE out(i) == f[<<p.entries[i], c.entries[i], Append(at, Index(i))>>]
<1>2. Structural(f, p, c, at) = IF Len(p.entries) # Len(c.entries) THEN No(at)
                                ELSE Together({out(i) : i \in DOMAIN p.entries})
  BY DEF Structural
<1>3. Len(p.entries) = Len(c.entries) /\ DOMAIN p.entries = DOMAIN c.entries
  BY <1>1, <1>2, OutcomeFacts
<1>4. ASSUME NEW i \in DOMAIN p.entries
      PROVE  /\ i \in Nat /\ p.entries[i] \in A /\ c.entries[i] \in B
             /\ Append(at, Index(i)) \in Path
  <2>1. i \in Nat /\ p.entries[i] \in A /\ c.entries[i] \in B
    BY <1>1, <1>3, <1>4
  <2> QED BY <2>1, StepFacts
<1>5. ASSUME NEW i \in DOMAIN p.entries PROVE out(i) \in Outcome
  BY <1>4, <1>5 DEF Answers
<1> HIDE DEF out
<1>6. {out(i) : i \in DOMAIN p.entries} \subseteq Outcome
  BY <1>5
<1>7. \A i \in DOMAIN p.entries : out(i).verdict = "yes"
  BY <1>2, <1>3, <1>6, TogetherFacts
<1>8. ASSUME NEW i \in DOMAIN p.entries PROVE Covers(p.entries[i], c.entries[i])
  <2>1. Read(p.entries[i]) /\ Read(c.entries[i])
    BY <1>3, <1>8, ReadParts DEF ReadBelow
  <2>2. out(i).verdict = "yes"
    BY <1>7
  <2> QED BY <1>4, <2>1, <2>2 DEF out, SoundFor
<1> SUFFICES ASSUME NEW v \in Value, NEW at1 \in Path, NEW at2 \in Path, unread[v], Adm(p, v, at1)
             PROVE  \E w \in Value : SameValue(v, w) /\ Adm(c, w, at2)
  BY DEF Covers
<1>9. /\ v.is = "array" /\ Len(v.items) = Len(p.entries)
      /\ \A i \in DOMAIN p.entries : Adm(p.entries[i], v.items[i], Append(at1, Index(i)))
  BY AdmNested
<1>10. v.items \in Seq(Present) /\ DOMAIN v.items = DOMAIN p.entries
  BY <1>1, <1>9, ValueFacts
<1> DEFINE good == [i \in DOMAIN p.entries |-> {u \in Value : Adm(c.entries[i], u, Append(at2, Index(i)))}]
<1>11. ASSUME NEW i \in DOMAIN v.items
       PROVE  \E u \in good[i] : u \in Value /\ SameValue(v.items[i], u)
  <2>1. v.items[i] \in Value /\ unread[v.items[i]]
    BY <1>9, ValueFacts, UnreadFacts
  <2>2. Append(at1, Index(i)) \in Path /\ Append(at2, Index(i)) \in Path
    BY <1>4, <1>10, StepFacts
  <2>3. \E u \in Value : SameValue(v.items[i], u) /\ Adm(c.entries[i], u, Append(at2, Index(i)))
    BY <1>8, <1>9, <1>10, <2>1, <2>2, CoversOne
  <2> QED BY <1>10, <2>3
<1>12. ListWith(v, good)
  <2> HIDE DEF good
  <2>1. GoodParts(v.items, DOMAIN v.items, good)
    BY <1>11 DEF GoodParts
  <2> QED BY <1>9, <2>1, ItemsChosen
<1>13. PICK w \in Value : /\ w.is = "array" /\ SameValue(v, w)
                          /\ Len(w.items) = Len(v.items) /\ DOMAIN w.items = DOMAIN v.items
                          /\ \A i \in DOMAIN v.items : w.items[i] \in good[i]
  BY <1>12 DEF ListWith
<1>14. \A i \in DOMAIN c.entries : Adm(c.entries[i], w.items[i], Append(at2, Index(i)))
  BY <1>3, <1>10, <1>13
<1>15. Len(w.items) = Len(c.entries)
  BY <1>3, <1>9, <1>13
<1> HIDE DEF good
<1>16. Adm(c, w, at2)
  BY <1>13, <1>14, <1>15, AdmNested
<1> QED BY <1>13, <1>16

\* A list of any length against one: the length is one of the consumer's.
LEMMA EachLikesSound ==
  ASSUME NEW f, NEW A, NEW B, SoundFor(f, A, B), Answers(f, A, B),
         NEW p \in Shape, NEW c \in Shape, Read(p), Read(c), MadeOf(A, p), MadeOf(B, c),
         p.op = "each-like", c.op = "each-like",
         NEW at \in Path, Structural(f, p, c, at).verdict = "yes"
  PROVE  Covers(p, c)
<1>1. /\ p.items \in A /\ p.min \in Nat /\ p.max \subseteq Nat
      /\ c.items \in B /\ c.min \in Nat /\ c.max \subseteq Nat
  BY DEF MadeOf
<1> DEFINE out == f[<<p.items, c.items, Append(at, EachItem)>>]
           lengths == Contained(p, c, at)
<1>2. Structural(f, p, c, at) = Together({lengths, out})
  BY DEF Structural
<1>3. out \in Outcome /\ lengths \in Outcome /\ Append(at, EachItem) \in Path
  BY <1>1, StepFacts, ContainedFacts DEF Answers
<1> HIDE DEF out, lengths
<1>4. out.verdict = "yes" /\ lengths.verdict = "yes"
  BY <1>2, <1>3, TogetherFacts
<1>5. p.min >= c.min /\ \A n \in c.max : p.max # {} /\ \A m \in p.max : m <= n
  BY <1>4, ContainedFacts DEF lengths
<1>6. Covers(p.items, c.items)
  <2>1. Read(p.items) /\ Read(c.items)
    BY ReadParts DEF ReadBelow
  <2> QED BY <1>1, <1>3, <1>4, <2>1 DEF out, SoundFor
<1> SUFFICES ASSUME NEW v \in Value, NEW at1 \in Path, NEW at2 \in Path, unread[v], Adm(p, v, at1)
             PROVE  \E w \in Value : SameValue(v, w) /\ Adm(c, w, at2)
  BY DEF Covers
<1>7. /\ v.is = "array" /\ Within(Len(v.items), p)
      /\ \A i \in DOMAIN v.items : Adm(p.items, v.items[i], Append(at1, EachItem))
  BY AdmNested
<1>8. v.items \in Seq(Present) /\ Len(v.items) \in Nat
  BY <1>7, ValueFacts
<1>9. Within(Len(v.items), c)
  BY <1>1, <1>5, <1>7, <1>8 DEF Within
<1> DEFINE good == [i \in DOMAIN v.items |-> {u \in Value : Adm(c.items, u, Append(at2, EachItem))}]
<1>10. ASSUME NEW i \in DOMAIN v.items
       PROVE  \E u \in good[i] : u \in Value /\ SameValue(v.items[i], u)
  <2>1. v.items[i] \in Value /\ unread[v.items[i]]
    BY <1>7, ValueFacts, UnreadFacts
  <2>2. Append(at1, EachItem) \in Path /\ Append(at2, EachItem) \in Path
    BY StepFacts
  <2>3. \E u \in Value : SameValue(v.items[i], u) /\ Adm(c.items, u, Append(at2, EachItem))
    BY <1>6, <1>7, <2>1, <2>2, CoversOne
  <2> QED BY <2>3
<1>11. ListWith(v, good)
  <2> HIDE DEF good
  <2>1. GoodParts(v.items, DOMAIN v.items, good)
    BY <1>10 DEF GoodParts
  <2> QED BY <1>7, <2>1, ItemsChosen
<1>12. PICK w \in Value : /\ w.is = "array" /\ SameValue(v, w)
                          /\ Len(w.items) = Len(v.items) /\ DOMAIN w.items = DOMAIN v.items
                          /\ \A i \in DOMAIN v.items : w.items[i] \in good[i]
  BY <1>11 DEF ListWith
<1>13. \A i \in DOMAIN w.items : Adm(c.items, w.items[i], Append(at2, EachItem))
  BY <1>12
<1> HIDE DEF good
<1>14. Within(Len(w.items), c)
  BY <1>9, <1>12
<1>15. Adm(c, w, at2)
  BY <1>12, <1>13, <1>14, AdmNested
<1> QED BY <1>12, <1>15

\* A yes for a list against an array is sound when the walk below is.
LEMMA EachLikeArraySound ==
  ASSUME NEW f, NEW A, NEW B, SoundFor(f, A, B), Answers(f, A, B),
         NEW p \in Shape, NEW c \in Shape, Read(p), Read(c), MadeOf(A, p), MadeOf(B, c),
         p.op = "each-like", c.op = "array",
         NEW at \in Path, Structural(f, p, c, at).verdict = "yes"
  PROVE  Covers(p, c)
<1>1. p.items \in A /\ p.min \in Nat /\ p.max \subseteq Nat /\ c.entries \in Seq(B)
  BY DEF MadeOf
<1> DEFINE out(i) == f[<<p.items, c.entries[i], Append(at, Index(i))>>]
           lengths == Contained(p, Exactly(Len(c.entries)), at)
<1>2. Structural(f, p, c, at) = Together({lengths} \cup {out(i) : i \in DOMAIN c.entries})
  BY DEF Structural
<1>3. ASSUME NEW i \in DOMAIN c.entries
      PROVE  i \in Nat /\ c.entries[i] \in B /\ Append(at, Index(i)) \in Path
  <2>1. i \in Nat /\ c.entries[i] \in B
    BY <1>1, <1>3
  <2> QED BY <2>1, StepFacts
<1>4. ASSUME NEW i \in DOMAIN c.entries PROVE out(i) \in Outcome
  BY <1>1, <1>3, <1>4 DEF Answers
<1>5. lengths \in Outcome
  BY ContainedFacts
<1> HIDE DEF out, lengths
<1>6. {lengths} \cup {out(i) : i \in DOMAIN c.entries} \subseteq Outcome
  BY <1>4, <1>5
<1>7. lengths.verdict = "yes" /\ \A i \in DOMAIN c.entries : out(i).verdict = "yes"
  BY <1>2, <1>6, TogetherFacts
<1>8. Len(c.entries) \in Nat /\ p.min >= Len(c.entries) /\ p.max # {}
      /\ \A m \in p.max : m <= Len(c.entries)
  BY <1>1, <1>7, ContainedFacts DEF lengths, Exactly
<1>9. ASSUME NEW i \in DOMAIN c.entries PROVE Covers(p.items, c.entries[i])
  <2>1. Read(p.items) /\ Read(c.entries[i])
    BY <1>9, ReadParts DEF ReadBelow
  <2>2. out(i).verdict = "yes"
    BY <1>7
  <2> QED BY <1>1, <1>3, <2>1, <2>2 DEF out, SoundFor
<1> SUFFICES ASSUME NEW v \in Value, NEW at1 \in Path, NEW at2 \in Path, unread[v], Adm(p, v, at1)
             PROVE  \E w \in Value : SameValue(v, w) /\ Adm(c, w, at2)
  BY DEF Covers
<1>10. /\ v.is = "array" /\ Within(Len(v.items), p)
       /\ \A i \in DOMAIN v.items : Adm(p.items, v.items[i], Append(at1, EachItem))
  BY AdmNested
<1>11. v.items \in Seq(Present) /\ Len(v.items) \in Nat
  BY <1>10, ValueFacts
<1>12. Len(v.items) = Len(c.entries)
  BY <1>1, <1>8, <1>10, <1>11 DEF Within
<1>13. DOMAIN v.items = DOMAIN c.entries
  BY <1>1, <1>11, <1>12
<1> DEFINE good == [i \in DOMAIN c.entries |-> {u \in Value : Adm(c.entries[i], u, Append(at2, Index(i)))}]
<1>14. ASSUME NEW i \in DOMAIN v.items
       PROVE  \E u \in good[i] : u \in Value /\ SameValue(v.items[i], u)
  <2>1. v.items[i] \in Value /\ unread[v.items[i]]
    BY <1>10, ValueFacts, UnreadFacts
  <2>2. Append(at1, EachItem) \in Path /\ Append(at2, Index(i)) \in Path
    BY <1>3, <1>13, StepFacts
  <2>3. \E u \in Value : SameValue(v.items[i], u) /\ Adm(c.entries[i], u, Append(at2, Index(i)))
    BY <1>9, <1>10, <1>13, <2>1, <2>2, CoversOne
  <2> QED BY <1>13, <2>3
<1>15. ListWith(v, good)
  <2> HIDE DEF good
  <2>1. GoodParts(v.items, DOMAIN v.items, good)
    BY <1>14 DEF GoodParts
  <2> QED BY <1>10, <2>1, ItemsChosen
<1>16. PICK w \in Value : /\ w.is = "array" /\ SameValue(v, w)
                          /\ Len(w.items) = Len(v.items) /\ DOMAIN w.items = DOMAIN v.items
                          /\ \A i \in DOMAIN v.items : w.items[i] \in good[i]
  BY <1>15 DEF ListWith
<1>17. \A i \in DOMAIN c.entries : Adm(c.entries[i], w.items[i], Append(at2, Index(i)))
  BY <1>13, <1>16
<1>18. Len(w.items) = Len(c.entries)
  BY <1>12, <1>16
<1> HIDE DEF good
<1>19. Adm(c, w, at2)
  BY <1>16, <1>17, <1>18, AdmNested
<1> QED BY <1>16, <1>19

\* So is one for an array against a list.
LEMMA ArrayEachLikeSound ==
  ASSUME NEW f, NEW A, NEW B, SoundFor(f, A, B), Answers(f, A, B),
         NEW p \in Shape, NEW c \in Shape, Read(p), Read(c), MadeOf(A, p), MadeOf(B, c),
         p.op = "array", c.op = "each-like",
         NEW at \in Path, Structural(f, p, c, at).verdict = "yes"
  PROVE  Covers(p, c)
<1>1. c.items \in B /\ c.min \in Nat /\ c.max \subseteq Nat /\ p.entries \in Seq(A)
  BY DEF MadeOf
<1> DEFINE out(i) == f[<<p.entries[i], c.items, Append(at, Index(i))>>]
           lengths == Contained(Exactly(Len(p.entries)), c, at)
<1>2. Structural(f, p, c, at) = Together({lengths} \cup {out(i) : i \in DOMAIN p.entries})
  BY DEF Structural
<1>3. ASSUME NEW i \in DOMAIN p.entries
      PROVE  i \in Nat /\ p.entries[i] \in A /\ Append(at, Index(i)) \in Path
  <2>1. i \in Nat /\ p.entries[i] \in A
    BY <1>1, <1>3
  <2> QED BY <2>1, StepFacts
<1>4. ASSUME NEW i \in DOMAIN p.entries PROVE out(i) \in Outcome
  BY <1>1, <1>3, <1>4 DEF Answers
<1>5. lengths \in Outcome
  BY ContainedFacts
<1> HIDE DEF out, lengths
<1>6. {lengths} \cup {out(i) : i \in DOMAIN p.entries} \subseteq Outcome
  BY <1>4, <1>5
<1>7. lengths.verdict = "yes" /\ \A i \in DOMAIN p.entries : out(i).verdict = "yes"
  BY <1>2, <1>6, TogetherFacts
<1>8. Len(p.entries) \in Nat /\ Len(p.entries) >= c.min /\ \A n \in c.max : Len(p.entries) <= n
  BY <1>1, <1>7, ContainedFacts DEF lengths, Exactly
<1>9. ASSUME NEW i \in DOMAIN p.entries PROVE Covers(p.entries[i], c.items)
  <2>1. Read(c.items) /\ Read(p.entries[i])
    BY <1>9, ReadParts DEF ReadBelow
  <2>2. out(i).verdict = "yes"
    BY <1>7
  <2> QED BY <1>1, <1>3, <2>1, <2>2 DEF out, SoundFor
<1> SUFFICES ASSUME NEW v \in Value, NEW at1 \in Path, NEW at2 \in Path, unread[v], Adm(p, v, at1)
             PROVE  \E w \in Value : SameValue(v, w) /\ Adm(c, w, at2)
  BY DEF Covers
<1>10. /\ v.is = "array" /\ Len(v.items) = Len(p.entries)
       /\ \A i \in DOMAIN p.entries : Adm(p.entries[i], v.items[i], Append(at1, Index(i)))
  BY AdmNested
<1>11. v.items \in Seq(Present) /\ DOMAIN v.items = DOMAIN p.entries
  BY <1>1, <1>10, ValueFacts
<1> DEFINE good == [i \in DOMAIN v.items |-> {u \in Value : Adm(c.items, u, Append(at2, EachItem))}]
<1>14. ASSUME NEW i \in DOMAIN v.items
       PROVE  \E u \in good[i] : u \in Value /\ SameValue(v.items[i], u)
  <2>1. v.items[i] \in Value /\ unread[v.items[i]]
    BY <1>10, ValueFacts, UnreadFacts
  <2>2. Append(at2, EachItem) \in Path /\ Append(at1, Index(i)) \in Path
    BY <1>3, <1>11, StepFacts
  <2>3. \E u \in Value : SameValue(v.items[i], u) /\ Adm(c.items, u, Append(at2, EachItem))
    BY <1>9, <1>10, <1>11, <2>1, <2>2, CoversOne
  <2> QED BY <2>3
<1>15. ListWith(v, good)
  <2> HIDE DEF good
  <2>1. GoodParts(v.items, DOMAIN v.items, good)
    BY <1>14 DEF GoodParts
  <2> QED BY <1>10, <2>1, ItemsChosen
<1>16. PICK w \in Value : /\ w.is = "array" /\ SameValue(v, w)
                          /\ Len(w.items) = Len(v.items) /\ DOMAIN w.items = DOMAIN v.items
                          /\ \A i \in DOMAIN v.items : w.items[i] \in good[i]
  BY <1>15 DEF ListWith
<1>17. \A i \in DOMAIN w.items : Adm(c.items, w.items[i], Append(at2, EachItem))
  BY <1>16
<1> HIDE DEF good
<1>18. Within(Len(w.items), c)
  BY <1>1, <1>8, <1>10, <1>16 DEF Within
<1>19. Adm(c, w, at2)
  BY <1>16, <1>17, <1>18, AdmNested
<1> QED BY <1>16, <1>19

\* Two objects: member by member, and nothing asked of a member the provider is
\* silent about.
LEMMA UndeclaredAdmits ==
  ASSUME NEW c \in Shape, NEW at \in Path, Undeclared(c, at).verdict = "yes",
         NEW u \in Value, NEW at2 \in Path
  PROVE  Adm(c, u, at2)
<1>1. Decompose(c).absent /\ \E r \in Decompose(c).rest : r.op = "any"
  BY UndeclaredFacts
<1>2. PICK r \in Decompose(c).rest : r.op = "any"
  BY <1>1
<1>3. r \in Shape
  BY DecomposeRest
<1>4. AdmitsTaken(Decompose(c), u, at2)
  <2>1. CASE u.is = "absent"
    BY <1>1, <2>1 DEF AdmitsTaken
  <2>2. CASE u.is # "absent"
    <3>1. Adm(r, u, at2)
      BY <1>2, <1>3, <2>2, AdmLeaf
    <3> QED BY <3>1 DEF AdmitsTaken
  <2> QED BY <2>1, <2>2
<1> QED BY <1>4, DecomposeExact

\* So is one for an object against an object.
LEMMA ObjectsSound ==
  ASSUME NEW f, NEW A, NEW B, SoundFor(f, A, B), Answers(f, A, B), B \subseteq Shape,
         NEW p \in Shape, NEW c \in Shape, Read(p), Read(c), MadeOf(A, p), MadeOf(B, c),
         p.op = "object", c.op = "object",
         NEW at \in Path, Structural(f, p, c, at).verdict = "yes"
  PROVE  Covers(p, c)
<1>1. p.members \in MayHold(A) /\ c.members \in MayHold(B)
  BY DEF MadeOf
<1> DEFINE out(n) == IF n \in Given(p.members)
                     THEN f[<<p.members[n], c.members[n], Append(at, InMember(n))>>]
                     ELSE Undeclared(c.members[n], Append(at, InMember(n)))
<1>2. Structural(f, p, c, at) = Together({out(n) : n \in Given(c.members)})
  BY DEF Structural
<1>3. ASSUME NEW n \in Given(c.members)
      PROVE  /\ n \in Name /\ c.members[n] \in B /\ c.members[n] \in Shape
             /\ n \in Given(p.members) => p.members[n] \in A
             /\ Append(at, InMember(n)) \in Path
  <2>1. n \in Name /\ c.members[n] \in B /\ (n \in Given(p.members) => p.members[n] \in A)
    BY <1>1, GivenBelow
  <2> QED BY <2>1, StepFacts
<1>4. ASSUME NEW n \in Given(c.members) PROVE out(n) \in Outcome
  BY <1>3, <1>4, UndeclaredFacts DEF Answers
<1> HIDE DEF out
<1>5. {out(n) : n \in Given(c.members)} \subseteq Outcome
  BY <1>4
<1>6. \A n \in Given(c.members) : out(n).verdict = "yes"
  BY <1>2, <1>5, TogetherFacts
<1>7. ASSUME NEW n \in Given(c.members), n \in Given(p.members)
      PROVE  Covers(p.members[n], c.members[n])
  <2>1. Read(p.members[n]) /\ Read(c.members[n])
    BY <1>7, ReadParts DEF ReadBelow
  <2>2. out(n).verdict = "yes"
    BY <1>6
  <2> QED BY <1>3, <1>7, <2>1, <2>2 DEF out, SoundFor
<1>8. ASSUME NEW n \in Given(c.members), n \notin Given(p.members)
      PROVE  Undeclared(c.members[n], Append(at, InMember(n))).verdict = "yes"
  <2>1. out(n).verdict = "yes"
    BY <1>6
  <2> QED BY <1>8, <2>1 DEF out
<1> SUFFICES ASSUME NEW v \in Value, NEW at1 \in Path, NEW at2 \in Path, unread[v], Adm(p, v, at1)
             PROVE  \E w \in Value : SameValue(v, w) /\ Adm(c, w, at2)
  BY DEF Covers
<1>9. /\ v.is = "object"
      /\ \A n \in Given(p.members) : Adm(p.members[n], v.members[n], Append(at1, InMember(n)))
  BY AdmNested
<1>10. \A n \in Name : v.members[n] \in Value /\ unread[v.members[n]]
  BY <1>9, ValueFacts, UnreadFacts
<1> DEFINE Fits(n, u) == n \in Given(c.members) => Adm(c.members[n], u, Append(at2, InMember(n)))
           good == [n \in Name |-> {u \in Value : Fits(n, u)}]
<1>11. ASSUME NEW n \in Name
       PROVE  \E u \in Value : Fits(n, u) /\ SameValue(v.members[n], u)
  <2>1. Append(at1, InMember(n)) \in Path /\ Append(at2, InMember(n)) \in Path
    BY StepFacts
  <2>2. v.members[n] \in Value /\ unread[v.members[n]]
    BY <1>10
  <2>3. SameValue(v.members[n], v.members[n])
    BY <2>2, EqualReflexive
  <2>4. CASE n \notin Given(c.members)
    BY <2>2, <2>3, <2>4
  <2>5. CASE n \in Given(c.members) /\ n \notin Given(p.members)
    <3>1. Adm(c.members[n], v.members[n], Append(at2, InMember(n)))
      BY <1>3, <1>8, <2>1, <2>2, <2>5, UndeclaredAdmits
    <3> QED BY <2>2, <2>3, <3>1
  <2>6. CASE n \in Given(c.members) /\ n \in Given(p.members)
    <3>1. \E u \in Value : SameValue(v.members[n], u)
                           /\ Adm(c.members[n], u, Append(at2, InMember(n)))
      BY <1>7, <1>9, <2>1, <2>2, <2>6, CoversOne
    <3> QED BY <3>1
  <2> QED BY <2>4, <2>5, <2>6
<1>12. ObjectWith(v, good)
  <2> HIDE DEF Fits
  <2>1. \A n \in Name : \E u \in good[n] : u \in Value /\ SameValue(v.members[n], u)
    BY <1>11
  <2> HIDE DEF good
  <2>2. GoodParts(v.members, Name, good)
    BY <2>1 DEF GoodParts
  <2> QED BY <1>9, <2>2, MembersChosen
<1>13. PICK w \in Value : /\ w.is = "object" /\ SameValue(v, w)
                          /\ \A n \in Name : w.members[n] \in good[n]
  BY <1>12 DEF ObjectWith
<1>14. \A n \in Given(c.members) : Adm(c.members[n], w.members[n], Append(at2, InMember(n)))
  BY <1>3, <1>13
<1> HIDE DEF good
<1>15. Adm(c, w, at2)
  BY <1>13, <1>14, AdmNested
<1> QED BY <1>13, <1>15

\* The names and the values of two objects of entries.
LEMMA KeyFacts ==
  ASSUME NEW s \in Shape, s.op = "each-entry", Read(s)
  PROVE  /\ KeyOf(s) \in Shape /\ Read(KeyOf(s))
         /\ s.keys # {} => s.keys = {KeyOf(s)}
         /\ s.keys = {} => KeyOf(s) = AnyValue
<1>1. s.keys \subseteq ReadBelow(s) /\ \A k, l \in s.keys : k = l
  BY ReadParts, ShapeParts DEF MadeOf
<1>2. CASE s.keys = {}
  BY <1>2, AnyValueFacts DEF KeyOf
<1>3. CASE s.keys # {}
  <2>1. KeyOf(s) \in s.keys
    BY <1>3 DEF KeyOf
  <2>2. s.keys = {KeyOf(s)}
    BY <1>1, <2>1
  <2>3. KeyOf(s) \in Shape /\ Read(KeyOf(s))
    BY <1>1, <2>1 DEF ReadBelow, Lower
  <2> QED BY <1>3, <2>2, <2>3
<1> QED BY <1>2, <1>3

\* A name is written one way.
LEMMA TextAlone ==
  ASSUME NEW n \in Name, NEW w \in Value, SameValue(Text(n), w)
  PROVE  w = Text(n)
BY TextFacts, EqualKinds

\* Equal objects have the same members.
LEMMA MembersSame ==
  ASSUME NEW u \in Value, NEW v \in Value, SameValue(u, v), u.is = "object"
  PROVE  v.is = "object" /\ MemberNames(u) = MemberNames(v)
<1>1. v.is = "object" /\ \A n \in Name : SameValue(u.members[n], v.members[n])
  BY EqualKinds
<1>2. \A n \in Name : u.members[n] \in Value /\ v.members[n] \in Value
  BY <1>1, ValueFacts
<1>3. \A n \in Name : u.members[n].is = v.members[n].is
  BY <1>1, <1>2, EqualKinds
<1>4. \A n \in Name : u.members[n] = Absent <=> v.members[n] = Absent
  BY <1>2, <1>3, AbsentFacts
<1> QED BY <1>1, <1>4 DEF MemberNames

\* A yes for entries against entries is sound when the walk below is.
LEMMA EntriesSound ==
  ASSUME NEW f, NEW A, NEW B, SoundFor(f, A, B), Answers(f, A, B),
         NEW p \in Shape, NEW c \in Shape, Read(p), Read(c), PartsIn(A, p), PartsIn(B, c),
         p.op = "each-entry", c.op = "each-entry",
         NEW at \in Path, Structural(f, p, c, at).verdict = "yes"
  PROVE  Covers(p, c)
<1>1. /\ p.values \in A /\ p.min \in Nat /\ p.max \subseteq Nat /\ KeyOf(p) \in A
      /\ c.values \in B /\ c.min \in Nat /\ c.max \subseteq Nat /\ KeyOf(c) \in B
  BY DEF MadeOf, PartsIn
<1> DEFINE keys == f[<<KeyOf(p), KeyOf(c), Append(at, EachKey)>>]
           values == f[<<p.values, c.values, Append(at, EachValue)>>]
           lengths == Contained(p, c, at)
<1>2. Structural(f, p, c, at) = Together({lengths, keys, values})
  BY DEF Structural
<1>3. Append(at, EachKey) \in Path /\ Append(at, EachValue) \in Path
  BY StepFacts
<1>4. keys \in Outcome /\ values \in Outcome /\ lengths \in Outcome
  BY <1>1, <1>3, ContainedFacts DEF Answers
<1> HIDE DEF keys, values, lengths
<1>5. lengths.verdict = "yes" /\ keys.verdict = "yes" /\ values.verdict = "yes"
  BY <1>2, <1>4, TogetherFacts
<1>6. p.min >= c.min /\ \A n \in c.max : p.max # {} /\ \A m \in p.max : m <= n
  BY <1>5, ContainedFacts DEF lengths
<1>7. Covers(p.values, c.values)
  <2>1. Read(p.values) /\ Read(c.values)
    BY ReadParts DEF ReadBelow
  <2> QED BY <1>1, <1>3, <1>5, <2>1 DEF values, SoundFor
<1>8. Covers(KeyOf(p), KeyOf(c))
  <2>1. Read(KeyOf(p)) /\ Read(KeyOf(c))
    BY KeyFacts
  <2> QED BY <1>1, <1>3, <1>5, <2>1 DEF keys, SoundFor
<1> SUFFICES ASSUME NEW v \in Value, NEW at1 \in Path, NEW at2 \in Path, unread[v], Adm(p, v, at1)
             PROVE  \E w \in Value : SameValue(v, w) /\ Adm(c, w, at2)
  BY DEF Covers
<1>9. /\ v.is = "object" /\ Within(Cardinality(MemberNames(v)), p)
      /\ \A n \in MemberNames(v) :
           /\ Adm(p.values, v.members[n], Append(at1, EachValue))
           /\ \A k \in p.keys : Adm(k, Text(n), Append(at1, EachKey))
  BY AdmNested
<1>10. \A n \in Name : v.members[n] \in Value /\ unread[v.members[n]]
  BY <1>9, ValueFacts, UnreadFacts
<1>11. /\ Append(at1, EachKey) \in Path /\ Append(at1, EachValue) \in Path
       /\ Append(at2, EachKey) \in Path /\ Append(at2, EachValue) \in Path
  BY StepFacts
<1>12. MemberNames(v) \subseteq Name
  BY DEF MemberNames
<1>13. ASSUME NEW n \in MemberNames(v) PROVE \A k \in c.keys : Adm(k, Text(n), Append(at2, EachKey))
  <2>1. Text(n) \in Value /\ unread[Text(n)] /\ Text(n).is # "absent"
    BY <1>12, TextFacts, AbsentFacts
  <2>2. Adm(KeyOf(p), Text(n), Append(at1, EachKey))
    <3>1. CASE p.keys = {}
      BY <1>11, <2>1, <3>1, KeyFacts, AnyValueFacts
    <3>2. CASE p.keys # {}
      BY <1>9, <3>2, KeyFacts
    <3> QED BY <3>1, <3>2
  <2>3. PICK w \in Value : SameValue(Text(n), w) /\ Adm(KeyOf(c), w, Append(at2, EachKey))
    BY <1>8, <1>11, <2>1, <2>2, CoversOne
  <2>4. w = Text(n)
    BY <1>12, <2>3, TextAlone
  <2>5. c.keys = {} \/ c.keys = {KeyOf(c)}
    BY KeyFacts
  <2> QED BY <2>3, <2>4, <2>5
<1> DEFINE Fits(n, u) == n \in MemberNames(v) => Adm(c.values, u, Append(at2, EachValue))
           good == [n \in Name |-> {u \in Value : Fits(n, u)}]
<1>14. ASSUME NEW n \in Name
       PROVE  \E u \in Value : Fits(n, u) /\ SameValue(v.members[n], u)
  <2>1. v.members[n] \in Value /\ unread[v.members[n]]
    BY <1>10
  <2>2. CASE n \notin MemberNames(v)
    BY <2>1, <2>2, EqualReflexive
  <2>3. CASE n \in MemberNames(v)
    <3>1. \E u \in Value : SameValue(v.members[n], u) /\ Adm(c.values, u, Append(at2, EachValue))
      BY <1>7, <1>9, <1>11, <2>1, <2>3, CoversOne
    <3> QED BY <3>1
  <2> QED BY <2>2, <2>3
<1>15. ObjectWith(v, good)
  <2> HIDE DEF Fits
  <2>1. \A n \in Name : \E u \in good[n] : u \in Value /\ SameValue(v.members[n], u)
    BY <1>14
  <2> HIDE DEF good
  <2>2. GoodParts(v.members, Name, good)
    BY <2>1 DEF GoodParts
  <2> QED BY <1>9, <2>2, MembersChosen
<1>16. PICK w \in Value : /\ w.is = "object" /\ SameValue(v, w)
                          /\ \A n \in Name : w.members[n] \in good[n]
  BY <1>15 DEF ObjectWith
<1>17. MemberNames(w) = MemberNames(v)
  BY <1>9, <1>16, MembersSame
<1>18. \A n \in MemberNames(w) : Adm(c.values, w.members[n], Append(at2, EachValue))
  BY <1>12, <1>16, <1>17
<1> HIDE DEF good
<1>19. Within(Cardinality(MemberNames(w)), c)
  <2> DEFINE k == Cardinality(MemberNames(v))
  <2>1. IsFiniteSet(MemberNames(v))
    BY <1>12, ShapesAssumption, FS_Subset
  <2>2. k \in Nat
    BY <2>1, FS_CardinalityType
  <2>3. p.min <= k /\ \A m \in p.max : k <= m
    BY <1>9 DEF Within
  <2> HIDE DEF k
  <2>4. c.min <= k /\ \A m \in c.max : k <= m
    BY <1>1, <1>6, <2>2, <2>3
  <2> QED BY <1>17, <2>4 DEF Within, k
<1>20. Adm(c, w, at2)
  BY <1>13, <1>16, <1>17, <1>18, <1>19, AdmNested
<1> QED BY <1>16, <1>20

\* The rules of structures are sound when the walk below is.
LEMMA StructuralSound ==
  ASSUME NEW f, NEW A, NEW B, SoundFor(f, A, B), Answers(f, A, B), B \subseteq Shape,
         NEW p \in Shape, NEW c \in Shape, Read(p), Read(c), PartsIn(A, p), PartsIn(B, c),
         <<p.op, c.op>> \in Structures,
         NEW at \in Path, Structural(f, p, c, at).verdict = "yes"
  PROVE  Covers(p, c)
<1>0. MadeOf(A, p) /\ MadeOf(B, c)
  BY DEF PartsIn
<1>1. CASE p.op = "object" /\ c.op = "object"
  BY <1>0, <1>1, ObjectsSound
<1>2. CASE p.op = "array" /\ c.op = "array"
  BY <1>0, <1>2, ArraysSound
<1>3. CASE p.op = "each-like" /\ c.op = "each-like"
  BY <1>0, <1>3, EachLikesSound
<1>4. CASE p.op = "each-like" /\ c.op = "array"
  BY <1>0, <1>4, EachLikeArraySound
<1>5. CASE p.op = "array" /\ c.op = "each-like"
  BY <1>0, <1>5, ArrayEachLikeSound
<1>6. CASE p.op = "each-entry" /\ c.op = "each-entry"
  BY <1>6, EntriesSound
<1> QED BY <1>1, <1>2, <1>3, <1>4, <1>5, <1>6 DEF Structures

-----------------------------------------------------------------------------
\* A yes about alternatives is a yes about the union.

SoundUnion(f, p, c) ==
  \A a, b : \A at \in Path :
    UnionPairs(p, c, a, b) /\ Read(a) /\ Read(b) /\ f[<<a, b, at>>].verdict = "yes" => Covers(a, b)

\* A yes for a pair of alternatives is sound when the walk below is.
LEMMA UnionOne ==
  ASSUME NEW f, NEW p, NEW c, NEW a, NEW b, NEW at \in Path, SoundUnion(f, p, c),
         UnionPairs(p, c, a, b), Read(a), Read(b), f[<<a, b, at>>].verdict = "yes"
  PROVE  Covers(a, b)
BY DEF SoundUnion

\* Its outcome is an outcome.
LEMMA UnionOut ==
  ASSUME NEW f, NEW p, NEW c, NEW a, NEW b, NEW at \in Path, UnionAnswers(f, p, c),
         UnionPairs(p, c, a, b)
  PROVE  f[<<a, b, at>>] \in Outcome
BY DEF UnionAnswers

\* An alternative the parser reads is an object bound to literals.
LEMMA AlternativeFacts ==
  ASSUME NEW s \in Shape, s.op = "one-of", Read(s), NEW n \in Given(s.alternatives)
  PROVE  /\ n \in Name /\ s.discriminator \in Name
         /\ s.alternatives[n] \in Shape /\ Read(s.alternatives[n])
         /\ \A at \in Path : Append(at, InAlternative(n)) \in Path
<1>1. s.discriminator \in Name
  BY ShapeParts DEF MadeOf
<1>2. n \in Name /\ s.alternatives[n] \in ReadBelow(s)
  BY ReadParts
<1>3. s.alternatives[n] \in Shape /\ Read(s.alternatives[n])
  BY <1>2 DEF ReadBelow, Lower
<1>4. \A at \in Path : Append(at, InAlternative(n)) \in Path
  BY <1>2, StepFacts
<1> QED BY <1>1, <1>2, <1>3, <1>4

\* An object that an alternative with literals admits is one of the union.
LEMMA AlternativeAdmits ==
  ASSUME NEW c \in Shape, c.op = "one-of", Read(c), NEW m \in Given(c.alternatives),
         Literals(c.alternatives[m], c.discriminator) # {},
         NEW w \in Value, w.is = "object", NEW at \in Path,
         Adm(c.alternatives[m], w, Append(at, InAlternative(m)))
  PROVE  Adm(c, w, at)
<1>1. /\ c.discriminator \in Name /\ c.alternatives[m] \in Shape
      /\ Append(at, InAlternative(m)) \in Path
  BY AlternativeFacts
<1>2. \E l \in Literals(c.alternatives[m], c.discriminator) : SameValue(w.members[c.discriminator], l)
  BY <1>1, LiteralsAdmitted
<1>3. Member(w, c.discriminator) = w.members[c.discriminator]
  BY DEF Member
<1>4. m \in Selected(c, w)
  BY <1>2, <1>3 DEF Selected
<1> QED BY <1>4, AdmNested

\* Alternatives that are matched share a literal.
LEMMA MatchedLiterals ==
  ASSUME NEW c, NEW literals, NEW m \in Matching(c, literals)
  PROVE  literals # {} /\ Literals(c.alternatives[m], c.discriminator) # {}
BY DEF Matching

\* What an alternative covers, the union it is of covers, for objects.
LEMMA UnionCovers ==
  ASSUME NEW a \in Shape, NEW c \in Shape, c.op = "one-of", Read(c), NEW m \in Given(c.alternatives),
         Literals(c.alternatives[m], c.discriminator) # {}, Covers(a, c.alternatives[m]),
         NEW v \in Value, unread[v], v.is = "object", NEW at1 \in Path, NEW at2 \in Path,
         Adm(a, v, at1)
  PROVE  \E w \in Value : SameValue(v, w) /\ Adm(c, w, at2)
<1>1. Append(at2, InAlternative(m)) \in Path
  BY AlternativeFacts
<1>2. PICK w \in Value : SameValue(v, w) /\ Adm(c.alternatives[m], w, Append(at2, InAlternative(m)))
  BY <1>1, CoversOne
<1>3. w.is = "object"
  BY <1>2, EqualKinds
<1>4. Adm(c, w, at2)
  BY <1>2, <1>3, AlternativeAdmits
<1> QED BY <1>2, <1>4

\* A yes for a one-of against a one-of is sound when the walk below is.
LEMMA OneOfPairSound ==
  ASSUME NEW f, NEW p \in Shape, NEW c \in Shape, Read(p), Read(c), p.op = "one-of", c.op = "one-of",
         UnionAnswers(f, p, c), SoundUnion(f, p, c),
         NEW at \in Path, Unions(f, p, c, at).verdict = "yes"
  PROVE  Covers(p, c)
<1> DEFINE matching(n) == Matching(c, Literals(p.alternatives[n], p.discriminator))
           m(n) == CHOOSE k \in matching(n) : TRUE
           out(n) == IF Cardinality(matching(n)) # 1 THEN No(Append(at, InAlternative(n)))
                 ELSE f[<<p.alternatives[n], c.alternatives[m(n)], Append(at, InAlternative(m(n)))>>]
<1>1. Unions(f, p, c, at) = IF p.discriminator # c.discriminator THEN Unknown(at)
                            ELSE Together({out(n) : n \in Given(p.alternatives)})
  BY DEF Unions, OneOfPair
<1>2. p.discriminator = c.discriminator
  <2> HIDE DEF out
  <2> QED BY <1>1, OutcomeFacts
<1>3. ASSUME NEW n \in Given(p.alternatives), Cardinality(matching(n)) = 1
      PROVE  /\ m(n) \in Given(c.alternatives)
             /\ Literals(c.alternatives[m(n)], c.discriminator) # {}
             /\ UnionPairs(p, c, p.alternatives[n], c.alternatives[m(n)])
             /\ Append(at, InAlternative(m(n))) \in Path
  <2>1. m(n) \in matching(n) /\ m(n) \in Given(c.alternatives)
    BY <1>3, MatchFacts
  <2>2. Literals(c.alternatives[m(n)], c.discriminator) # {}
    BY <2>1, MatchedLiterals
  <2> HIDE DEF m, matching
  <2>3. Append(at, InAlternative(m(n))) \in Path
    BY <2>1, AlternativeFacts
  <2>4. UnionPairs(p, c, p.alternatives[n], c.alternatives[m(n)])
    BY <2>1 DEF UnionPairs
  <2> QED BY <2>1, <2>2, <2>3, <2>4
<1> HIDE DEF m, matching
<1>4. ASSUME NEW n \in Given(p.alternatives) PROVE out(n) \in Outcome
  <2>1. CASE Cardinality(matching(n)) = 1
    BY <1>3, <2>1, UnionOut
  <2>2. CASE Cardinality(matching(n)) # 1
    BY <2>2, AlternativeFacts, OutcomeFacts
  <2> QED BY <2>1, <2>2
<1>5. ASSUME NEW n \in Given(p.alternatives) PROVE out(n).verdict = "yes"
  <2> HIDE DEF out
  <2>1. {out(k) : k \in Given(p.alternatives)} \subseteq Outcome
    BY <1>4
  <2> QED BY <1>1, <1>2, <2>1, TogetherFacts
<1>6. ASSUME NEW n \in Given(p.alternatives)
      PROVE  Cardinality(matching(n)) = 1 /\ Covers(p.alternatives[n], c.alternatives[m(n)])
  <2>1. Cardinality(matching(n)) = 1
    <3>1. No(Append(at, InAlternative(n))).verdict # "yes"
      BY AlternativeFacts, OutcomeFacts
    <3> QED BY <1>5, <3>1
  <2>2. f[<<p.alternatives[n], c.alternatives[m(n)], Append(at, InAlternative(m(n)))>>].verdict = "yes"
    BY <1>5, <2>1
  <2>3. Read(p.alternatives[n]) /\ Read(c.alternatives[m(n)])
    BY <1>3, <2>1, AlternativeFacts
  <2> QED BY <1>3, <2>1, <2>2, <2>3, UnionOne
<1> SUFFICES ASSUME NEW v \in Value, NEW at1 \in Path, NEW at2 \in Path, unread[v], Adm(p, v, at1)
             PROVE  \E w \in Value : SameValue(v, w) /\ Adm(c, w, at2)
  BY DEF Covers
<1>7. v.is = "object"
  BY OneOfAdmits
<1>8. PICK n \in Given(p.alternatives) : Adm(p.alternatives[n], v, Append(at1, InAlternative(n)))
  BY OneOfAdmits
<1>9. Append(at1, InAlternative(n)) \in Path /\ p.alternatives[n] \in Shape
  BY AlternativeFacts
<1> QED BY <1>3, <1>6, <1>7, <1>8, <1>9, UnionCovers

\* So is every rule of one-ofs.
LEMMA UnionsSound ==
  ASSUME NEW f, NEW p \in Shape, NEW c \in Shape, Read(p), Read(c), Core(p),
         "one-of" \in {p.op, c.op}, UnionAnswers(f, p, c), SoundUnion(f, p, c),
         NEW at \in Path, Unions(f, p, c, at).verdict = "yes"
  PROVE  Covers(p, c)
<1>1. CASE p.op = "one-of" /\ c.op = "one-of"
  BY <1>1, OneOfPairSound
<1>2. CASE p.op = "one-of" /\ c.op # "one-of"
  <2> DEFINE out(n) == f[<<p.alternatives[n], c, Append(at, InAlternative(n))>>]
  <2>1. Unions(f, p, c, at) = Together({out(n) : n \in Given(p.alternatives)})
    BY <1>2 DEF Unions
  <2>2. ASSUME NEW n \in Given(p.alternatives)
        PROVE  UnionPairs(p, c, p.alternatives[n], c) /\ Append(at, InAlternative(n)) \in Path
    <3>1. UnionPairs(p, c, p.alternatives[n], c)
      BY <1>2 DEF UnionPairs
    <3> QED BY <1>2, <3>1, AlternativeFacts
  <2>3. ASSUME NEW n \in Given(p.alternatives) PROVE out(n) \in Outcome
    BY <2>2, UnionOut
  <2>4. ASSUME NEW n \in Given(p.alternatives) PROVE out(n).verdict = "yes"
    <3> HIDE DEF out
    <3>1. {out(k) : k \in Given(p.alternatives)} \subseteq Outcome
      BY <2>3
    <3> QED BY <2>1, <3>1, TogetherFacts
  <2>5. ASSUME NEW n \in Given(p.alternatives) PROVE Covers(p.alternatives[n], c)
    <3>1. Read(p.alternatives[n])
      BY <1>2, AlternativeFacts
    <3> QED BY <2>2, <2>4, <3>1, UnionOne
  <2> SUFFICES ASSUME NEW v \in Value, NEW at1 \in Path, NEW at2 \in Path, unread[v], Adm(p, v, at1)
               PROVE  \E w \in Value : SameValue(v, w) /\ Adm(c, w, at2)
    BY DEF Covers
  <2>6. PICK n \in Given(p.alternatives) : Adm(p.alternatives[n], v, Append(at1, InAlternative(n)))
    BY <1>2, OneOfAdmits
  <2>7. Append(at1, InAlternative(n)) \in Path
    BY <1>2, AlternativeFacts
  <2> QED BY <2>5, <2>6, <2>7, CoversOne
<1>3. CASE p.op # "one-of" /\ c.op = "one-of"
  <2> DEFINE literals == Literals(p, c.discriminator)
             matching == Matching(c, literals)
             m == CHOOSE k \in matching : TRUE
  <2>1. Unions(f, p, c, at) = IF Cardinality(matching) # 1 THEN Unknown(at)
                              ELSE f[<<p, c.alternatives[m], Append(at, InAlternative(m))>>]
    BY <1>3 DEF Unions, InsideAlternative
  <2>2. Cardinality(matching) = 1
    <3> HIDE DEF m, matching
    <3> QED BY <2>1, OutcomeFacts
  <2>3. m \in matching /\ m \in Given(c.alternatives)
    BY <2>2, MatchFacts
  <2>4. literals # {} /\ Literals(c.alternatives[m], c.discriminator) # {}
    BY <2>3, MatchedLiterals
  <2>5. f[<<p, c.alternatives[m], Append(at, InAlternative(m))>>].verdict = "yes"
    BY <2>1, <2>2
  <2> HIDE DEF m, matching
  <2>6. UnionPairs(p, c, p, c.alternatives[m])
    BY <1>3, <2>3, <2>4 DEF UnionPairs
  <2>7. Read(c.alternatives[m]) /\ Append(at, InAlternative(m)) \in Path
    BY <1>3, <2>3, AlternativeFacts
  <2>8. Covers(p, c.alternatives[m])
    BY <2>5, <2>6, <2>7, UnionOne
  <2>9. p.op = "object"
    <3>1. Object(p).op = "object"
      BY <2>4 DEF Literals
    <3>2. Object(p) = p
      BY DEF Object, Core
    <3> QED BY <3>1, <3>2
  <2> SUFFICES ASSUME NEW v \in Value, NEW at1 \in Path, NEW at2 \in Path, unread[v], Adm(p, v, at1)
               PROVE  \E w \in Value : SameValue(v, w) /\ Adm(c, w, at2)
    BY DEF Covers
  <2>10. v.is = "object"
    BY <2>9, AdmNested
  <2> QED BY <1>3, <2>3, <2>4, <2>8, <2>10, UnionCovers
<1> QED BY <1>1, <1>2, <1>3

-----------------------------------------------------------------------------
\* A yes of the table of operators.

\* A text operator asks the same at every path.
LEMMA TextAnywhere ==
  ASSUME NEW c \in Shape, c.op \in TextOps, NEW v \in Value, NEW at1 \in Path, NEW at2 \in Path,
         Adm(c, v, at1)
  PROVE  Adm(c, v, at2)
BY AdmLeaf

\* What is listed in full is covered when each of it is admitted.
LEMMA ListedCovers ==
  ASSUME NEW p, NEW c, NEW vs, Lists(p, vs),
         \A u \in vs, at \in Path : Adm(c, u, at)
  PROVE  Covers(p, c)
<1> SUFFICES ASSUME NEW v \in Value, NEW at1 \in Path, NEW at2 \in Path, unread[v], Adm(p, v, at1)
             PROVE  \E w \in Value : SameValue(v, w) /\ Adm(c, w, at2)
  BY DEF Covers
<1>1. PICK u \in vs : SameValue(v, u)
  BY DEF Lists
<1>2. u \in Value
  BY DEF Lists
<1> QED BY <1>1, <1>2

\* A yes that rests on an operator's example is sound.
LEMMA GuardedSound ==
  ASSUME NEW p \in Shape, NEW c \in Shape, NEW at \in Path, Guarded(p, c, at).verdict = "yes"
  PROVE  Covers(p, c)
<1>1. \/ Conservative(p) /\ c.op = "kind" /\ c.kind = "string"
      \/ /\ Conservative(c) /\ Enumerated(p) # {}
         /\ \A vs \in Enumerated(p) : \A v \in vs : AdmitsAny(c, v)
  BY GuardedFacts
<1>2. CASE Conservative(p) /\ c.op = "kind" /\ c.kind = "string"
  <2>1. p.op \in TextOps /\ p.op \in {"regex", "datetime", "include"}
    BY <1>2 DEF Conservative, TextOps
  <2>2. <<p.op, p.parameter>> \in DOMAIN Language
    BY <2>1, ShapeParts DEF MadeOf
  <2> SUFFICES ASSUME NEW v \in Value, NEW at1 \in Path, NEW at2 \in Path, unread[v], Adm(p, v, at1)
               PROVE  \E w \in Value : SameValue(v, w) /\ Adm(c, w, at2)
    BY DEF Covers
  <2>3. Readable(p.op, v) \cap Language[<<p.op, p.parameter>>] # {}
    BY <2>1, AdmLeaf
  <2>4. v.is = "string"
    <3>1. ASSUME v.is # "string" PROVE FALSE
      <4>1. p.op = "regex" /\ v.is \in {"number", "boolean"}
            /\ Written(v) \in Language[<<p.op, p.parameter>>]
        BY <2>3, <3>1 DEF Readable
      <4>2. <<p.op, p.parameter>>[1] = "regex"
        BY <4>1
      <4>3. Written(v) \notin Language[<<p.op, p.parameter>>]
        BY <2>2, <4>1, <4>2, UnreadFacts
      <4> QED BY <4>1, <4>3
    <3> QED BY <3>1
  <2>5. OfKind(c.kind, v)
    BY <1>2, <2>4 DEF OfKind
  <2>6. Adm(c, v, at2)
    BY <1>2, <2>5, AdmLeaf
  <2> QED BY <2>6, EqualReflexive
<1>3. CASE /\ Conservative(c) /\ Enumerated(p) # {}
           /\ \A vs \in Enumerated(p) : \A v \in vs : AdmitsAny(c, v)
  <2>1. c.op \in TextOps
    BY <1>3 DEF Conservative, TextOps
  <2>2. PICK vs \in Enumerated(p) : TRUE
    BY <1>3
  <2>3. Lists(p, vs)
    BY EnumeratedLists
  <2>4. <<>> \in Path
    BY DEF Path
  <2>5. \A u \in vs : u \in Value /\ Adm(c, u, <<>>)
    <3>1. \A u \in vs : AdmitsAny(c, u)
      BY <1>3
    <3> QED BY <2>3, <3>1 DEF Lists, AdmitsAny, Adm
  <2>6. \A u \in vs, x \in Path : Adm(c, u, x)
    BY <2>1, <2>4, <2>5, TextAnywhere
  <2> QED BY <2>3, <2>6, ListedCovers
<1> QED BY <1>1, <1>2, <1>3

\* A consumer's literals, holding all the provider lists.
LEMMA LiteralSetSound ==
  ASSUME NEW p \in Shape, NEW c \in Shape, NEW options, options \subseteq Value, NEW at \in Path,
         LiteralSet(p, options, at).verdict = "yes",
         \A u \in Value, x \in Path : (\E o \in options : SameValue(o, u)) => Adm(c, u, x)
  PROVE  Covers(p, c)
<1>1. PICK vs \in Enumerated(p) : \A v \in vs : \E o \in options : SameValue(o, v)
  BY LiteralSetFacts
<1>2. Lists(p, vs)
  BY EnumeratedLists
<1>3. vs \subseteq Value
  BY <1>2 DEF Lists
<1>4. \A u \in vs, x \in Path : Adm(c, u, x)
  BY <1>1, <1>3
<1> QED BY <1>2, <1>4, ListedCovers

\* A provider's literals, each of which the consumer is known to admit.
LEMMA LiteralsWithinSound ==
  ASSUME NEW p \in Shape, NEW c \in Shape, p.op \in {"equality", "any-of"}, NEW at \in Path,
         LiteralsWithin(p, c, at).verdict = "yes"
  PROVE  Covers(p, c)
<1> DEFINE vs == IF p.op = "equality" THEN {Example(p)} ELSE Range(p.options)
<1>1. \A v \in vs : AdmitsValue(c, v) \notin {{FALSE}, {}}
  BY LiteralsWithinFacts
<1>2. vs \in Enumerated(p)
  BY DEF Enumerated
<1>3. Lists(p, vs)
  BY <1>2, EnumeratedLists
<1>4. vs \subseteq Value /\ \A v \in vs : v.is # "absent"
  <2>1. CASE p.op = "equality"
    BY <2>1, ExamplePresent
  <2>2. CASE p.op = "any-of"
    <3>1. Range(p.options) \subseteq Present /\ Range(p.options) \subseteq Value
      BY <2>2, OptionsPresent
    <3>2. \A v \in Range(p.options) : v.is # "absent"
      BY <3>1, AbsentFacts
    <3> QED BY <2>2, <3>1, <3>2
  <2> QED BY <2>1, <2>2
<1> HIDE DEF vs
<1>5. \A u \in vs, x \in Path : Adm(c, u, x)
  BY <1>1, <1>4, AdmitsValueRight
<1> QED BY <1>3, <1>5, ListedCovers

\* So is one for two kinds.
LEMMA KindsSound ==
  ASSUME NEW p \in Shape, NEW c \in Shape, p.op = "kind", c.op = "kind", KindSubset(p.kind, c.kind)
  PROVE  Covers(p, c)
<1> SUFFICES ASSUME NEW v \in Value, NEW at1 \in Path, NEW at2 \in Path, unread[v], Adm(p, v, at1)
             PROVE  \E w \in Value : SameValue(v, w) /\ Adm(c, w, at2)
  BY DEF Covers
<1>1. OfKind(p.kind, v)
  BY AdmLeaf
<1>2. OfKind(c.kind, v)
  BY <1>1 DEF OfKind, KindSubset
<1>3. Adm(c, v, at2)
  BY <1>2, AdmLeaf
<1> QED BY <1>3, EqualReflexive

\* So is one for versions against what is not empty: no version is.
LEMMA VersionsSound ==
  ASSUME NEW p \in Shape, NEW c \in Shape, p.op = "semver", c.op = "kind", c.kind = "string"
  PROVE  Covers(p, c)
<1> SUFFICES ASSUME NEW v \in Value, NEW at1 \in Path, NEW at2 \in Path, unread[v], Adm(p, v, at1)
             PROVE  \E w \in Value : SameValue(v, w) /\ Adm(c, w, at2)
  BY DEF Covers
<1>1. Readable(p.op, v) # {}
  BY AdmLeaf DEF TextOps
<1>2. v.is = "string"
  BY <1>1 DEF Readable
<1>3. OfKind(c.kind, v)
  BY <1>2 DEF OfKind
<1>4. Adm(c, v, at2)
  BY <1>3, AdmLeaf
<1> QED BY <1>4, EqualReflexive

\* So is one for what is not empty.
LEMMA NonEmptySound ==
  ASSUME NEW p \in Shape, NEW c \in Shape, c.op = "not-empty", OnlyNonEmpty(p) = {TRUE}
  PROVE  Covers(p, c)
<1> SUFFICES ASSUME NEW v \in Value, NEW at1 \in Path, NEW at2 \in Path, unread[v], Adm(p, v, at1)
             PROVE  \E w \in Value : SameValue(v, w) /\ Adm(c, w, at2)
  BY DEF Covers
<1>1. ~IsEmpty(v)
  BY OnlyNonEmptyRight
<1>2. Adm(c, v, at2)
  BY <1>1, AdmLeaf
<1> QED BY <1>2, EqualReflexive

\* The exact operators that go into no part.
LEMMA LeavesSound ==
  ASSUME NEW f, NEW p \in Shape, NEW c \in Shape, NEW at \in Path,
         "one-of" \notin {p.op, c.op}, <<p.op, c.op>> \notin Structures,
         Exact(f, p, c, at).verdict = "yes"
  PROVE  Covers(p, c)
<1>1. No(at).verdict # "yes" /\ Unknown(at).verdict # "yes"
  BY OutcomeFacts
<1>2. CASE c.op = "not-empty"
  <2>1. Decided(OnlyNonEmpty(p), at).verdict = "yes"
    BY <1>2 DEF Exact
  <2> QED BY <1>2, <2>1, DecidedFacts, NonEmptySound
<1>3. CASE c.op # "not-empty" /\ p.op \in {"equality", "any-of"}
  <2>1. LiteralsWithin(p, c, at).verdict = "yes"
    BY <1>3 DEF Exact
  <2> QED BY <1>3, <2>1, LiteralsWithinSound
<1>4. CASE c.op = "equality" /\ p.op \notin {"equality", "any-of"}
  <2>1. LiteralSet(p, {Example(c)}, at).verdict = "yes"
    BY <1>1, <1>4 DEF Exact
  <2>2. Example(c) \in Value
    BY <1>4, ExamplePresent
  <2>3. ASSUME NEW u \in Value, NEW x \in Path, SameValue(Example(c), u) PROVE Adm(c, u, x)
    <3>1. SameValue(u, Example(c))
      BY <2>2, <2>3, EqualSymmetric
    <3> QED BY <1>4, <3>1, AdmLeaf
  <2> QED BY <2>1, <2>2, <2>3, LiteralSetSound
<1>5. CASE c.op = "any-of" /\ p.op \notin {"equality", "any-of"}
  <2>1. LiteralSet(p, Range(c.options), at).verdict = "yes"
    BY <1>1, <1>5 DEF Exact
  <2>2. Range(c.options) \subseteq Value
    BY <1>5, OptionsPresent
  <2>3. ASSUME NEW u \in Value, NEW x \in Path, NEW o \in Range(c.options), SameValue(o, u)
        PROVE  Adm(c, u, x)
    <3>1. SameValue(u, o)
      BY <2>2, <2>3, EqualSymmetric
    <3> QED BY <1>5, <3>1, AdmNested
  <2> QED BY <2>1, <2>2, <2>3, LiteralSetSound
<1>6. CASE c.op \notin {"not-empty", "equality", "any-of"} /\ p.op \notin {"equality", "any-of"}
  <2>1. CASE p.op = "kind" /\ c.op = "kind"
    <3>1. Decided({KindSubset(p.kind, c.kind)}, at).verdict = "yes"
      BY <1>6, <2>1 DEF Exact
    <3>2. {KindSubset(p.kind, c.kind)} = {TRUE}
      BY <3>1, DecidedFacts
    <3>3. KindSubset(p.kind, c.kind)
      BY <3>2
    <3> QED BY <2>1, <3>3, KindsSound
  <2>2. CASE ~(p.op = "kind" /\ c.op = "kind") /\ p.op = "semver" /\ c.op = "kind" /\ c.kind = "string"
    BY <2>2, VersionsSound
  <2>3. CASE ~(p.op = "kind" /\ c.op = "kind") /\ ~(p.op = "semver" /\ c.op = "kind" /\ c.kind = "string")
    BY <1>1, <1>6, <2>3 DEF Exact
  <2> QED BY <2>1, <2>2, <2>3
<1> QED BY <1>2, <1>3, <1>4, <1>5, <1>6

\* What the walk says of smaller nodes is so.
SoundBelow(f, n) ==
  \A a, b \in Shape, at \in Path :
    /\ shapeRank[a] + shapeRank[b] < n /\ Read(a) /\ Read(b)
    /\ f[<<a, b, at>>].verdict = "yes"
    => Covers(a, b)

\* The rewriting of `type` brings neither absence nor null in.
LEMMA CoreDesugar ==
  ASSUME NEW s \in Shape, Core(s)
  PROVE  Core(Desugar(s))
<1>1. Desugared(s, Desugar(s))
  BY DesugarCases
<1>2. NoMembers.op = "object" /\ AnyItems.op = "each-like" /\ \A k : OfItsKind(k).op = "kind"
  BY DEF NoMembers, AnyItems, OfItsKind
<1> QED BY <1>1, <1>2 DEF Desugared, Core

\* What holds of the rewritten shapes holds of the shapes.
LEMMA DesugarCovers ==
  ASSUME NEW r \in Shape, NEW s \in Shape, Covers(Desugar(r), Desugar(s))
  PROVE  Covers(r, s)
<1> SUFFICES ASSUME NEW v \in Value, NEW at1 \in Path, NEW at2 \in Path, unread[v], Adm(r, v, at1)
             PROVE  \E w \in Value : SameValue(v, w) /\ Adm(s, w, at2)
  BY DEF Covers
<1>1. Adm(Desugar(r), v, at1)
  BY DesugarAdmits
<1>2. PICK w \in Value : SameValue(v, w) /\ Adm(Desugar(s), w, at2)
  BY <1>1, CoversOne
<1>3. Adm(s, w, at2)
  BY <1>2, DesugarAdmits
<1> QED BY <1>2, <1>3

\* The table of operators is sound when the walk below is.
LEMMA ExactSound ==
  ASSUME NEW f, f \in [Triples -> Outcome], NEW r \in Shape, NEW s \in Shape, NEW at \in Path,
         Read(r), Read(s), Core(r), SoundBelow(f, shapeRank[r] + shapeRank[s]),
         ~(r.op = "type" /\ s.op = "type"), Classes(Desugar(r)) \cap Classes(Desugar(s)) # {},
         Exact(f, Desugar(r), Desugar(s), at).verdict = "yes"
  PROVE  Covers(Desugar(r), Desugar(s))
<1> DEFINE q == Desugar(r)
           d == Desugar(s)
<1>0. /\ PartsIn(Slack(r), q) /\ PartsIn(Slack(s), d) /\ q \in Shape /\ d \in Shape
      /\ Read(q) /\ Read(d) /\ Core(q)
  BY SlackParts, DesugarCases, CoreDesugar
<1>a. ASSUME NEW a \in Shape, NEW b \in Shape, NEW x \in Path,
             shapeRank[a] + shapeRank[b] < shapeRank[r] + shapeRank[s],
             Read(a), Read(b), f[<<a, b, x>>].verdict = "yes"
      PROVE  Covers(a, b)
  BY <1>a DEF SoundBelow
<1>b. SoundUnion(f, q, d)
  BY <1>a, UnionRanks DEF SoundUnion
<1>c. SoundFor(f, Slack(r), Slack(s))
  BY <1>a, SlackRanks DEF SoundFor
<1>d. \A a, b \in Shape, x \in Path : f[<<a, b, x>>] \in Outcome
  BY DEF Triples
<1>e. Slack(r) \subseteq Shape /\ Slack(s) \subseteq Shape
  BY DEF Slack, Lower
<1> HIDE DEF q, d
<1>1. CASE "one-of" \in {q.op, d.op}
  <2>1. UnionAnswers(f, q, d)
    BY <1>0, <1>d, UnionPairsShapes DEF UnionAnswers
  <2>2. Unions(f, q, d, at).verdict = "yes"
    BY <1>1 DEF Exact, q, d
  <2>3. Covers(q, d)
    BY <1>0, <1>1, <1>b, <2>1, <2>2, UnionsSound
  <2> QED BY <2>3 DEF q, d
<1>2. CASE "one-of" \notin {q.op, d.op} /\ <<q.op, d.op>> \in Structures
  <2>1. Answers(f, Slack(r), Slack(s))
    BY <1>d, <1>e DEF Answers
  <2>2. Structural(f, q, d, at).verdict = "yes"
    BY <1>2 DEF Exact, q, d
  <2>3. Covers(q, d)
    BY <1>0, <1>2, <1>c, <1>e, <2>1, <2>2, StructuralSound
  <2> QED BY <2>3 DEF q, d
<1>3. CASE "one-of" \notin {q.op, d.op} /\ <<q.op, d.op>> \notin Structures
  <2>1. Exact(f, q, d, at).verdict = "yes"
    BY DEF q, d
  <2>2. Covers(q, d)
    BY <1>0, <1>3, <2>1, LeavesSound
  <2> QED BY <2>2 DEF q, d
<1> QED BY <1>1, <1>2, <1>3

\* A shape equal but for examples covers.
LEMMA FloorCovers ==
  ASSUME NEW p \in Shape, NEW c \in Shape, Read(p), Read(c), NEW at, NEW E, Floor(p, c, at, E)
  PROVE  Covers(p, c)
BY SameAgree, AgreeCovers DEF Floor

\* Anything covers what is neither absent nor null.
LEMMA AnyCovers ==
  ASSUME NEW p \in Shape, NEW c \in Shape, Core(p), c.op = "any"
  PROVE  Covers(p, c)
<1> SUFFICES ASSUME NEW v \in Value, NEW at1 \in Path, NEW at2 \in Path, unread[v], Adm(p, v, at1)
             PROVE  \E w \in Value : SameValue(v, w) /\ Adm(c, w, at2)
  BY DEF Covers
<1>1. v.is # "absent"
  BY NotAbsent
<1>2. Adm(c, v, at2)
  BY <1>1, AdmLeaf
<1> QED BY <1>2, EqualReflexive

\* The rules for a pair of operators are sound when the walk below is.
LEMMA OperatorsSound ==
  ASSUME NEW f, f \in [Triples -> Outcome], NEW r \in Shape, NEW s \in Shape, NEW at \in Path, NEW E,
         Read(r), Read(s), Core(r), SoundBelow(f, shapeRank[r] + shapeRank[s]),
         Operators(f, r, s, at, E).verdict = "yes"
  PROVE  Covers(r, s)
<1> DEFINE q == Desugar(r)
           d == Desugar(s)
<1>0. q \in Shape /\ d \in Shape /\ Read(q) /\ Read(d) /\ Core(q)
  BY DesugarCases, CoreDesugar
<1>1. No(at).verdict # "yes" /\ Unknown(at).verdict # "yes"
  BY OutcomeFacts
<1>2. CASE Floor(r, s, at, E)
  BY <1>2, FloorCovers
<1>3. CASE ~Floor(r, s, at, E)
  <2>1. Covers(q, d)
    <3> HIDE DEF q, d
    <3>1. CASE Floor(q, d, at, E)
      BY <1>0, <3>1, FloorCovers
    <3>2. CASE d.op = "any"
      BY <1>0, <3>2, AnyCovers
    <3>3. CASE ~Floor(q, d, at, E) /\ d.op # "any"
      <4>1. q.op # "any" /\ Classes(q) \cap Classes(d) # {}
        BY <1>1, <1>3, <3>3 DEF Operators, q, d
      <4>2. CASE Conservative(q) \/ Conservative(d)
        <5>1. Guarded(q, d, at).verdict = "yes"
          BY <1>1, <1>3, <3>3, <4>1, <4>2 DEF Operators, q, d
        <5> QED BY <1>0, <5>1, GuardedSound
      <4>3. CASE ~(Conservative(q) \/ Conservative(d))
        <5>1. Exact(f, q, d, at).verdict = "yes"
          BY <1>1, <1>3, <3>3, <4>1, <4>3 DEF Operators, q, d
        <5>2. ~(r.op = "type" /\ s.op = "type")
          <6>1. ASSUME r.op = "type", s.op = "type" PROVE FALSE
            <7>1. Example(r).is = Example(s).is
              BY <4>1, <6>1, TypeClasses DEF q, d
            <7> QED BY <1>3, <6>1, <7>1, SameTypes
          <6> QED BY <6>1
        <5> QED BY <4>1, <5>1, <5>2, ExactSound DEF q, d
      <4> QED BY <4>2, <4>3
    <3> QED BY <3>1, <3>2, <3>3
  <2> QED BY <2>1, DesugarCovers
<1> QED BY <1>2, <1>3

\* The shapes a node comes apart into are read, and admit neither absence nor null.
LEMMA RestRead ==
  ASSUME NEW s \in Shape, Read(s), NEW r \in Decompose(s).rest
  PROVE  r \in Shape /\ Core(r) /\ Read(r)
<1>1. r \in Shape /\ Core(r) /\ Parses(r, FALSE)
  BY DecomposeRest DEF Read
<1> QED BY <1>1, ParsesFacts DEF Read

\* What is sound to some rank is sound below it.
LEMMA SmallerSound ==
  ASSUME NEW f, NEW n \in Nat, NEW m \in Nat, m <= n, SoundBelow(f, n)
  PROVE  SoundBelow(f, m)
<1> SUFFICES ASSUME NEW a \in Shape, NEW b \in Shape, NEW at \in Path,
                    shapeRank[a] + shapeRank[b] < m, Read(a), Read(b), f[<<a, b, at>>].verdict = "yes"
             PROVE  Covers(a, b)
  BY DEF SoundBelow
<1>1. shapeRank[a] \in Nat /\ shapeRank[b] \in Nat
  BY ShapeRankFacts
<1>2. \A i, j, k, l \in Nat : i + j < k /\ k <= l => i + j < l
  OBVIOUS
<1>3. shapeRank[a] + shapeRank[b] < n
  BY <1>1, <1>2
<1> QED BY <1>3 DEF SoundBelow

\* A yes for each of those shapes covers what is left of the node.
LEMMA RestSound ==
  ASSUME NEW f, f \in [Triples -> Outcome], NEW p \in Shape, NEW c \in Shape, Read(p), Read(c),
         NEW at \in Path, NEW E, SoundBelow(f, shapeRank[p] + shapeRank[c]),
         NEW r \in Decompose(p).rest, NEW s \in Decompose(c).rest,
         Operators(f, r, s, at, E).verdict = "yes"
  PROVE  Covers(r, s)
<1>1. /\ r \in Shape /\ s \in Shape
      /\ shapeRank[r] + shapeRank[s] \in Nat /\ shapeRank[p] + shapeRank[c] \in Nat
      /\ shapeRank[r] + shapeRank[s] <= shapeRank[p] + shapeRank[c]
  BY RestFacts
<1>2. SoundBelow(f, shapeRank[r] + shapeRank[s])
  BY <1>1, SmallerSound
<1>3. Read(r) /\ Read(s) /\ Core(r)
  BY RestRead
<1> QED BY <1>1, <1>2, <1>3, OperatorsSound

\* A yes for a node is sound when the walk below is.
LEMMA ValueNodeSound ==
  ASSUME NEW f, f \in [Triples -> Outcome], NEW p \in Shape, NEW c \in Shape, Read(p), Read(c),
         NEW at \in Path, NEW E, SoundBelow(f, shapeRank[p] + shapeRank[c]),
         ValueNode(f, p, c, at, E).verdict = "yes"
  PROVE  Covers(p, c)
<1>1. CASE Floor(p, c, at, E)
  BY <1>1, FloorCovers
<1>2. CASE ~Floor(p, c, at, E)
  <2>1. Together({PresenceOut(p, c, at)} \cup RestOuts(f, p, c, at, E)).verdict = "yes"
    BY <1>2, ValueNodeIs
  <2>2. {PresenceOut(p, c, at)} \cup RestOuts(f, p, c, at, E) \subseteq Outcome
    BY RestTyped
  <2>3. /\ PresenceOut(p, c, at).verdict = "yes"
        /\ \A o \in RestOuts(f, p, c, at, E) : o.verdict = "yes"
    BY <2>1, <2>2, TogetherFacts
  <2>4. /\ Decompose(p).absent => Decompose(c).absent
        /\ Decompose(p).null => Decompose(c).null
    BY <2>3, OutcomeFacts DEF PresenceOut
  <2>5. ASSUME NEW r \in Decompose(p).rest PROVE \E s \in Decompose(c).rest : Covers(r, s)
    <3>1. Decompose(c).rest # {}
      <4>1. ASSUME Decompose(c).rest = {} PROVE FALSE
        <5>1. No(at) \in RestOuts(f, p, c, at, E)
          BY <4>1, <2>5 DEF RestOuts
        <5> QED BY <2>3, <5>1, OutcomeFacts
      <4> QED BY <4>1
    <3>2. PICK s \in Decompose(c).rest : TRUE
      BY <3>1
    <3>3. Operators(f, r, s, at, E) \in RestOuts(f, p, c, at, E)
      BY <3>1, <3>2, <2>5 DEF RestOuts
    <3>4. Operators(f, r, s, at, E).verdict = "yes"
      BY <2>3, <3>3
    <3> QED BY <3>2, <3>4, <2>5, RestSound
  <2> SUFFICES ASSUME NEW v \in Value, NEW at1 \in Path, NEW at2 \in Path, unread[v], Adm(p, v, at1)
               PROVE  \E w \in Value : SameValue(v, w) /\ AdmitsTaken(Decompose(c), w, at2)
    <3>1. \A w \in Value, x \in Path : AdmitsTaken(Decompose(c), w, x) => Adm(c, w, x)
      BY DecomposeExact
    <3> QED BY <3>1 DEF Covers
  <2>6. AdmitsTaken(Decompose(p), v, at1)
    BY DecomposeExact
  <2>7. SameValue(v, v)
    BY EqualReflexive
  <2>8. CASE Decompose(p).absent /\ v.is = "absent"
    <3>1. AdmitsTaken(Decompose(c), v, at2)
      BY <2>4, <2>8 DEF AdmitsTaken
    <3> QED BY <2>7, <3>1
  <2>9. CASE Decompose(p).null /\ v.is = "null"
    <3>1. AdmitsTaken(Decompose(c), v, at2)
      BY <2>4, <2>9 DEF AdmitsTaken
    <3> QED BY <2>7, <3>1
  <2>10. CASE \E r \in Decompose(p).rest : Adm(r, v, at1)
    <3>1. PICK r \in Decompose(p).rest : Adm(r, v, at1)
      BY <2>10
    <3>2. PICK s \in Decompose(c).rest : Covers(r, s)
      BY <2>5
    <3>3. PICK w \in Value : SameValue(v, w) /\ Adm(s, w, at2)
      BY <3>1, <3>2, CoversOne
    <3>4. AdmitsTaken(Decompose(c), w, at2)
      BY <3>2, <3>3 DEF AdmitsTaken
    <3> QED BY <3>3, <3>4
  <2> QED BY <2>6, <2>8, <2>9, <2>10 DEF AdmitsTaken
<1> QED BY <1>1, <1>2

\* A yes of the walk is sound at every pair of nodes.
LEMMA WalkSound ==
  ASSUME NEW E
  PROVE  \A n \in Nat : SoundBelow(Walk(E), n)
<1> DEFINE Q == {n \in Nat : SoundBelow(Walk(E), n)}
<1>1. ASSUME NEW n \in Nat, \A m \in Nat : m < n => m \in Q PROVE n \in Q
  <2> SUFFICES ASSUME NEW a \in Shape, NEW b \in Shape, NEW at \in Path,
                      shapeRank[a] + shapeRank[b] < n, Read(a), Read(b),
                      Walk(E)[<<a, b, at>>].verdict = "yes"
               PROVE  Covers(a, b)
    BY DEF SoundBelow
  <2>1. shapeRank[a] + shapeRank[b] \in Nat
    BY ShapeRankFacts
  <2>2. SoundBelow(Walk(E), shapeRank[a] + shapeRank[b])
    BY <1>1, <2>1
  <2>3. Walk(E) \in [Triples -> Outcome]
    BY WalkUnfolds
  <2>4. Walk(E)[<<a, b, at>>] = Caveat(ValueNode(Walk(E), a, b, at, E), at, E)
    BY WalkUnfolds DEF Node
  <2>5. ValueNode(Walk(E), a, b, at, E) \in Outcome
    BY <2>3, ValueNodeTyped
  <2>6. ValueNode(Walk(E), a, b, at, E).verdict = "yes"
    BY <2>4, <2>5, CaveatFacts
  <2> QED BY <2>2, <2>3, <2>6, ValueNodeSound
<1>2. Q = Nat
  <2> HIDE DEF Q
  <2>1. Q \in SUBSET Nat
    BY DEF Q
  <2> QED BY <1>1, <2>1, Induction
<1> QED BY <1>2

\* A yes for two shapes the parser reads is sound.
LEMMA NodeSound ==
  ASSUME NEW p \in Shape, NEW c \in Shape, Read(p), Read(c), NEW at \in Path, NEW E,
         Node(p, c, at, E).verdict = "yes"
  PROVE  Covers(p, c)
<1>1. shapeRank[p] + shapeRank[c] \in Nat
  BY ShapeRankFacts
<1> DEFINE n == shapeRank[p] + shapeRank[c]
<1>2. n \in Nat /\ n + 1 \in Nat /\ n < n + 1
  BY <1>1
<1>3. SoundBelow(Walk(E), n + 1)
  BY <1>2, WalkSound
<1>4. Walk(E)[<<p, c, at>>].verdict = "yes"
  BY DEF Node
<1> QED BY <1>2, <1>3, <1>4 DEF SoundBelow

\* What the walk answers of two shapes the parser reads is an outcome.
LEMMA NodeTyped ==
  ASSUME NEW p \in Shape, NEW c \in Shape, NEW at \in Path, NEW E
  PROVE  Node(p, c, at, E) \in Outcome
BY WalkUnfolds DEF Node, Triples

-----------------------------------------------------------------------------
\* Caveats.

\* What an outcome says, its advisories and what is excluded left out.
Said(findings) ==
  {<<f.path, f.severity>> : f \in {g \in findings : g.severity # "advisory"}}

Like(a, b) == a.verdict = b.verdict /\ Said(a.findings) = Said(b.findings)

\* To be like is an equivalence.
LEMMA LikeFacts ==
  /\ \A a : Like(a, a)
  /\ \A a, b : Like(a, b) => Like(b, a)
  /\ \A a, b, c : Like(a, b) /\ Like(b, c) => Like(a, c)
BY DEF Like

\* What is said of findings.
LEMMA SaidFacts ==
  ASSUME NEW findings, NEW x
  PROVE  x \in Said(findings) <=>
           \E f \in findings : f.severity # "advisory" /\ x = <<f.path, f.severity>>
BY DEF Said

\* What is said by outcomes together, each of them says.
LEMMA SaidTogether ==
  ASSUME NEW outs, NEW x
  PROVE  x \in Said(Together(outs).findings) <=> \E o \in outs : x \in Said(o.findings)
<1> DEFINE all == UNION {o.findings : o \in outs}
<1>1. Together(outs).findings = all
  BY DEF Together
<1>2. \A f : f \in all <=> \E o \in outs : f \in o.findings
  OBVIOUS
<1> HIDE DEF all
<1>3. ASSUME x \in Said(all) PROVE \E o \in outs : x \in Said(o.findings)
  <2>1. PICK f \in all : f.severity # "advisory" /\ x = <<f.path, f.severity>>
    BY <1>3, SaidFacts
  <2>2. PICK o \in outs : f \in o.findings
    BY <1>2
  <2>3. x \in Said(o.findings)
    BY <2>1, <2>2, SaidFacts
  <2> QED BY <2>3
<1>4. ASSUME NEW o \in outs, x \in Said(o.findings) PROVE x \in Said(all)
  <2>1. PICK f \in o.findings : f.severity # "advisory" /\ x = <<f.path, f.severity>>
    BY <1>4, SaidFacts
  <2>2. f \in all
    BY <1>2
  <2> QED BY <2>1, <2>2, SaidFacts
<1> QED BY <1>1, <1>3, <1>4

\* Outcomes that are like one another are so together.
LEMMA LikeTogether ==
  ASSUME NEW A, NEW B,
         \A a \in A : \E b \in B : Like(a, b),
         \A b \in B : \E a \in A : Like(a, b)
  PROVE  Like(Together(A), Together(B))
<1>1. {a.verdict : a \in A} = {b.verdict : b \in B}
  BY DEF Like
<1>2. Together(A).verdict = Together(B).verdict
  BY <1>1 DEF Together
<1>3. ASSUME NEW x
      PROVE  x \in Said(Together(A).findings) <=> x \in Said(Together(B).findings)
  <2>1. /\ x \in Said(Together(A).findings) <=> \E a \in A : x \in Said(a.findings)
        /\ x \in Said(Together(B).findings) <=> \E b \in B : x \in Said(b.findings)
    BY SaidTogether
  <2>2. /\ \A a \in A : \E b \in B : Said(a.findings) = Said(b.findings)
        /\ \A b \in B : \E a \in A : Said(a.findings) = Said(b.findings)
    BY DEF Like
  <2> QED BY <2>1, <2>2
<1>4. Said(Together(A).findings) = Said(Together(B).findings)
  <2>1. \A y \in Said(Together(A).findings) : y \in Said(Together(B).findings)
    BY <1>3
  <2>2. \A y \in Said(Together(B).findings) : y \in Said(Together(A).findings)
    BY <1>3
  <2> QED BY <2>1, <2>2
<1> QED BY <1>2, <1>4 DEF Like

\* One more of each keeps them so.
LEMMA LikeAdded ==
  ASSUME NEW A, NEW B, NEW x, NEW y, Like(x, y),
         \A a \in A : \E b \in B : Like(a, b),
         \A b \in B : \E a \in A : Like(a, b)
  PROVE  Like(Together({x} \cup A), Together({y} \cup B))
<1>1. \A a \in {x} \cup A : \E b \in {y} \cup B : Like(a, b)
  OBVIOUS
<1>2. \A b \in {y} \cup B : \E a \in {x} \cup A : Like(a, b)
  OBVIOUS
<1> QED BY <1>1, <1>2, LikeTogether

\* Outcomes that say yes and nothing more do so together.
LEMMA YesTogether ==
  ASSUME NEW A, \A a \in A : Like(a, Yes)
  PROVE  Like(Together(A), Yes)
<1>1. Like(Together({}), Yes)
  BY DEF Together, Worst, Yes, Like, Said
<1>2. CASE A = {}
  BY <1>1, <1>2
<1>3. CASE A # {}
  <2>1. Like(Together(A), Together({Yes}))
    BY <1>3, LikeTogether
  <2>2. Like(Together({Yes}), Yes)
    BY DEF Together, Worst, Yes, Like, Said
  <2> QED BY <2>1, <2>2, LikeFacts
<1> QED BY <1>2, <1>3

\* A caveat says nothing but an advisory.
LEMMA CaveatLike ==
  ASSUME NEW out \in Outcome, NEW at \in Path, NEW E
  PROVE  Like(Caveat(out, at, E), out)
<1>0. Caveat(out, at, E).verdict = out.verdict
  BY CaveatFacts
<1>1. out.findings \subseteq Findings /\ out = [verdict |-> out.verdict, findings |-> out.findings]
  BY DEF Outcome
<1> DEFINE marked == {[f EXCEPT !.excluded = @ \/ f.path = at] : f \in out.findings}
           told == [path |-> at, severity |-> "advisory", excluded |-> TRUE]
<1>2. \/ Caveat(out, at, E).findings = out.findings
      \/ Caveat(out, at, E).findings = marked
      \/ Caveat(out, at, E).findings = out.findings \cup {told}
  BY <1>1 DEF Caveat
<1>3. ASSUME NEW x PROVE x \in Said(marked) <=> x \in Said(out.findings)
  <2>1. ASSUME NEW f \in out.findings
        PROVE  \E g \in marked : g.path = f.path /\ g.severity = f.severity
    <3> DEFINE g == [f EXCEPT !.excluded = @ \/ f.path = at]
    <3>1. g \in marked
      OBVIOUS
    <3>2. g.path = f.path /\ g.severity = f.severity
      BY <1>1 DEF Findings
    <3> QED BY <3>1, <3>2
  <2>2. ASSUME NEW g \in marked
        PROVE  \E f \in out.findings : g.path = f.path /\ g.severity = f.severity
    <3>1. PICK f \in out.findings : g = [f EXCEPT !.excluded = @ \/ f.path = at]
      OBVIOUS
    <3>2. g.path = f.path /\ g.severity = f.severity
      BY <1>1, <3>1 DEF Findings
    <3> QED BY <3>2
  <2> HIDE DEF marked
  <2> QED BY <2>1, <2>2, SaidFacts
<1>4. ASSUME NEW x PROVE x \in Said(out.findings \cup {told}) <=> x \in Said(out.findings)
  <2>1. told.severity = "advisory"
    OBVIOUS
  <2> HIDE DEF told
  <2> QED BY <2>1, SaidFacts
<1>5. Said(marked) = Said(out.findings) /\ Said(out.findings \cup {told}) = Said(out.findings)
  <2> HIDE DEF marked, told
  <2>1. Said(marked) = Said(out.findings)
    <3>1. \A y \in Said(marked) : y \in Said(out.findings)
      BY <1>3
    <3>2. \A y \in Said(out.findings) : y \in Said(marked)
      BY <1>3
    <3> QED BY <3>1, <3>2
  <2>2. Said(out.findings \cup {told}) = Said(out.findings)
    <3>1. \A y \in Said(out.findings \cup {told}) : y \in Said(out.findings)
      BY <1>4
    <3>2. \A y \in Said(out.findings) : y \in Said(out.findings \cup {told})
      BY <1>4
    <3> QED BY <3>1, <3>2
  <2> QED BY <2>1, <2>2
<1> HIDE DEF marked, told
<1> QED BY <1>0, <1>2, <1>5 DEF Like

\* What two walks answer of parts that are read is like; and what one answers of
\* parts that are the same is a plain yes.
LikeFor(f, g, A, B) ==
  \A a \in A, b \in B, at \in Path :
    Read(a) /\ Read(b) => Like(f[<<a, b, at>>], g[<<a, b, at>>])

YesFor(f, A, B) ==
  \A a \in A, b \in B, at \in Path :
    Read(a) /\ Read(b) /\ SameAdmits(a, b) => Like(f[<<a, b, at>>], Yes)

\* The parts of a list are read.
LEMMA EntriesRead ==
  ASSUME NEW A, NEW s \in Shape, Read(s), MadeOf(A, s), s.op = "array"
  PROVE  \A i \in DOMAIN s.entries :
           i \in Nat /\ s.entries[i] \in A /\ Read(s.entries[i])
<1>1. s.entries \in Seq(A)
  BY DEF MadeOf
<1>2. \A i \in DOMAIN s.entries : i \in Nat /\ s.entries[i] \in ReadBelow(s)
  BY ReadParts
<1> QED BY <1>1, <1>2 DEF ReadBelow

\* And those of an object.
LEMMA MembersRead ==
  ASSUME NEW A, NEW s \in Shape, Read(s), MadeOf(A, s), s.op = "object"
  PROVE  \A n \in Given(s.members) :
           n \in Name /\ s.members[n] \in A /\ Read(s.members[n])
<1>1. s.members \in MayHold(A)
  BY DEF MadeOf
<1>2. \A n \in Given(s.members) : s.members[n] \in ReadBelow(s)
  BY ReadParts
<1> QED BY <1>1, <1>2, GivenBelow DEF ReadBelow, Given

\* Where the walks below are like, so are those of objects and lists.
LEMMA StructuralLike ==
  ASSUME NEW f, NEW g, NEW A, NEW B, NEW p \in Shape, NEW c \in Shape, Read(p), Read(c),
         NEW at \in Path, PartsIn(A, p), PartsIn(B, c), LikeFor(f, g, A, B),
         <<p.op, c.op>> \in Structures
  PROVE  Like(Structural(f, p, c, at), Structural(g, p, c, at))
<1>0. MadeOf(A, p) /\ MadeOf(B, c)
  BY DEF PartsIn
<1>a. ASSUME NEW a \in A, NEW b \in B, NEW x \in Path, Read(a), Read(b)
      PROVE  Like(f[<<a, b, x>>], g[<<a, b, x>>])
  BY <1>a DEF LikeFor
<1>1. CASE p.op = "object" /\ c.op = "object"
  <2> DEFINE out(h, n) == IF n \in Given(p.members)
                   THEN h[<<p.members[n], c.members[n], Append(at, InMember(n))>>]
                   ELSE Undeclared(c.members[n], Append(at, InMember(n)))
             all(h) == {out(h, n) : n \in Given(c.members)}
  <2>1. /\ Structural(f, p, c, at) = Together(all(f))
        /\ Structural(g, p, c, at) = Together(all(g))
    BY <1>1 DEF Structural
  <2>2. ASSUME NEW n \in Given(c.members) PROVE Like(out(f, n), out(g, n))
    <3>1. n \in Name /\ c.members[n] \in B /\ Read(c.members[n])
      BY <1>0, <1>1, MembersRead
    <3>2. n \in Given(p.members) => p.members[n] \in A /\ Read(p.members[n])
      BY <1>0, <1>1, MembersRead
    <3>3. Append(at, InMember(n)) \in Path
      BY <3>1, StepFacts
    <3> QED BY <1>a, <3>1, <3>2, <3>3, LikeFacts
  <2> HIDE DEF out
  <2>3. Like(Together(all(f)), Together(all(g)))
    BY <2>2, LikeTogether
  <2> HIDE DEF all
  <2> QED BY <2>1, <2>3
<1>2. CASE p.op = "array" /\ c.op = "array"
  <2> DEFINE out(h, i) == h[<<p.entries[i], c.entries[i], Append(at, Index(i))>>]
             all(h) == {out(h, i) : i \in DOMAIN p.entries}
             whole(h) == IF Len(p.entries) # Len(c.entries) THEN No(at) ELSE Together(all(h))
  <2>1. Structural(f, p, c, at) = whole(f) /\ Structural(g, p, c, at) = whole(g)
    BY <1>2 DEF Structural
  <2>2. ASSUME Len(p.entries) = Len(c.entries), NEW i \in DOMAIN p.entries
        PROVE  Like(out(f, i), out(g, i))
    <3>1. i \in Nat /\ p.entries[i] \in A /\ Read(p.entries[i])
      BY <1>0, <1>2, EntriesRead
    <3>2. i \in DOMAIN c.entries
      BY <1>0, <1>2, <2>2 DEF MadeOf
    <3>3. c.entries[i] \in B /\ Read(c.entries[i])
      BY <1>0, <1>2, <3>2, EntriesRead
    <3>4. Append(at, Index(i)) \in Path
      BY <3>1, StepFacts
    <3> QED BY <1>a, <3>1, <3>3, <3>4
  <2> HIDE DEF out
  <2>3. Len(p.entries) = Len(c.entries) => Like(Together(all(f)), Together(all(g)))
    BY <2>2, LikeTogether
  <2> HIDE DEF all
  <2>4. Like(whole(f), whole(g))
    BY <2>3, LikeFacts
  <2> HIDE DEF whole
  <2> QED BY <2>1, <2>4
<1>3. CASE p.op = "each-like" /\ c.op = "each-like"
  <2> DEFINE out(h) == h[<<p.items, c.items, Append(at, EachItem)>>]
             all(h) == {Contained(p, c, at), out(h)}
  <2>1. p.items \in A /\ c.items \in B /\ Append(at, EachItem) \in Path
    BY <1>0, <1>3, StepFacts DEF MadeOf
  <2>2. Read(p.items) /\ Read(c.items)
    BY <1>3, ReadParts DEF ReadBelow
  <2>3. Like(out(f), out(g))
    BY <1>a, <2>1, <2>2
  <2>4. Structural(f, p, c, at) = Together(all(f)) /\ Structural(g, p, c, at) = Together(all(g))
    BY <1>3 DEF Structural
  <2> HIDE DEF out
  <2>5. Like(Together({Contained(p, c, at)} \cup {out(f)}), Together({Contained(p, c, at)} \cup {out(g)}))
    <3> DEFINE fs == {out(f)}
               gs == {out(g)}
    <3>1. /\ \A a \in fs : \E b \in gs : Like(a, b)
          /\ \A b \in gs : \E a \in fs : Like(a, b)
      BY <2>3
    <3>2. Like(Contained(p, c, at), Contained(p, c, at))
      BY LikeFacts
    <3> HIDE DEF fs, gs
    <3>3. Like(Together({Contained(p, c, at)} \cup fs), Together({Contained(p, c, at)} \cup gs))
      BY <3>1, <3>2, LikeAdded
    <3> QED BY <3>3 DEF fs, gs
  <2>6. all(f) = {Contained(p, c, at)} \cup {out(f)} /\ all(g) = {Contained(p, c, at)} \cup {out(g)}
    OBVIOUS
  <2> HIDE DEF all
  <2> QED BY <2>4, <2>5, <2>6
<1>4. CASE p.op = "each-like" /\ c.op = "array"
  <2> DEFINE out(h, i) == h[<<p.items, c.entries[i], Append(at, Index(i))>>]
             lengths == Contained(p, Exactly(Len(c.entries)), at)
             all(h) == {lengths} \cup {out(h, i) : i \in DOMAIN c.entries}
  <2>1. Structural(f, p, c, at) = Together(all(f)) /\ Structural(g, p, c, at) = Together(all(g))
    BY <1>4 DEF Structural
  <2>2. p.items \in A /\ Read(p.items)
    BY <1>0, <1>4, ReadParts DEF MadeOf, ReadBelow
  <2>3. ASSUME NEW i \in DOMAIN c.entries PROVE Like(out(f, i), out(g, i))
    <3>1. i \in Nat /\ c.entries[i] \in B /\ Read(c.entries[i])
      BY <1>0, <1>4, EntriesRead
    <3>2. Append(at, Index(i)) \in Path
      BY <3>1, StepFacts
    <3> QED BY <1>a, <2>2, <3>1, <3>2
  <2> HIDE DEF out, lengths
  <2>4. Like(Together(all(f)), Together(all(g)))
    <3> DEFINE fs == {out(f, i) : i \in DOMAIN c.entries}
               gs == {out(g, i) : i \in DOMAIN c.entries}
    <3>1. /\ \A a \in fs : \E b \in gs : Like(a, b)
          /\ \A b \in gs : \E a \in fs : Like(a, b)
      BY <2>3
    <3>2. Like(lengths, lengths)
      BY LikeFacts
    <3> HIDE DEF fs, gs
    <3>3. Like(Together({lengths} \cup fs), Together({lengths} \cup gs))
      BY <3>1, <3>2, LikeAdded
    <3> QED BY <3>3 DEF fs, gs
  <2> HIDE DEF all
  <2> QED BY <2>1, <2>4
<1>5. CASE p.op = "array" /\ c.op = "each-like"
  <2> DEFINE out(h, i) == h[<<p.entries[i], c.items, Append(at, Index(i))>>]
             lengths == Contained(Exactly(Len(p.entries)), c, at)
             all(h) == {lengths} \cup {out(h, i) : i \in DOMAIN p.entries}
  <2>1. Structural(f, p, c, at) = Together(all(f)) /\ Structural(g, p, c, at) = Together(all(g))
    BY <1>5 DEF Structural
  <2>2. c.items \in B /\ Read(c.items)
    BY <1>0, <1>5, ReadParts DEF MadeOf, ReadBelow
  <2>3. ASSUME NEW i \in DOMAIN p.entries PROVE Like(out(f, i), out(g, i))
    <3>1. i \in Nat /\ p.entries[i] \in A /\ Read(p.entries[i])
      BY <1>0, <1>5, EntriesRead
    <3>2. Append(at, Index(i)) \in Path
      BY <3>1, StepFacts
    <3> QED BY <1>a, <2>2, <3>1, <3>2
  <2> HIDE DEF out, lengths
  <2>4. Like(Together(all(f)), Together(all(g)))
    <3> DEFINE fs == {out(f, i) : i \in DOMAIN p.entries}
               gs == {out(g, i) : i \in DOMAIN p.entries}
    <3>1. /\ \A a \in fs : \E b \in gs : Like(a, b)
          /\ \A b \in gs : \E a \in fs : Like(a, b)
      BY <2>3
    <3>2. Like(lengths, lengths)
      BY LikeFacts
    <3> HIDE DEF fs, gs
    <3>3. Like(Together({lengths} \cup fs), Together({lengths} \cup gs))
      BY <3>1, <3>2, LikeAdded
    <3> QED BY <3>3 DEF fs, gs
  <2> HIDE DEF all
  <2> QED BY <2>1, <2>4
<1>6. CASE p.op = "each-entry" /\ c.op = "each-entry"
  <2> DEFINE name(h) == h[<<KeyOf(p), KeyOf(c), Append(at, EachKey)>>]
             value(h) == h[<<p.values, c.values, Append(at, EachValue)>>]
             all(h) == {Contained(p, c, at), name(h), value(h)}
  <2>1. /\ p.values \in A /\ c.values \in B /\ KeyOf(p) \in A /\ KeyOf(c) \in B
        /\ Append(at, EachKey) \in Path /\ Append(at, EachValue) \in Path
    BY <1>0, <1>6, StepFacts DEF MadeOf, PartsIn
  <2>2. Read(p.values) /\ Read(c.values) /\ Read(KeyOf(p)) /\ Read(KeyOf(c))
    BY <1>6, ReadParts, KeyFacts DEF ReadBelow
  <2>3. Like(name(f), name(g)) /\ Like(value(f), value(g))
    BY <1>a, <2>1, <2>2
  <2>4. Structural(f, p, c, at) = Together(all(f)) /\ Structural(g, p, c, at) = Together(all(g))
    BY <1>6 DEF Structural
  <2> HIDE DEF name, value
  <2>5. Like(Together(all(f)), Together(all(g)))
    BY <2>3, LikeFacts, LikeTogether
  <2> HIDE DEF all
  <2> QED BY <2>4, <2>5
<1> QED BY <1>1, <1>2, <1>3, <1>4, <1>5, <1>6 DEF Structures

\* Anything is the same as itself.
LEMMA SameAny == SameAdmits(AnyValue, AnyValue)
BY AnyValueFacts, SameUnfolds DEF SameNode, AnyValue, TextOps

\* The lengths of nodes that are the same contain one another.
LEMMA SameContained ==
  ASSUME NEW p, NEW c, NEW at, p.min = c.min, p.max = c.max, c.min \in Nat, c.max \in Maybe(Nat)
  PROVE  Contained(p, c, at) = Yes
<1>1. \A n, m \in c.max : n = m /\ n \in Nat
  BY DEF Maybe
<1>2. p.min >= c.min /\ \A n \in c.max : p.max # {} /\ \A m \in p.max : m <= n
  BY <1>1
<1> QED BY <1>2 DEF Contained

\* Nodes that are the same get a plain yes where their parts do.
LEMMA StructuralYes ==
  ASSUME NEW f, NEW A, NEW B, NEW p \in Shape, NEW c \in Shape, Read(p), Read(c),
         NEW at \in Path, PartsIn(A, p), PartsIn(B, c), YesFor(f, A, B), SameAdmits(p, c),
         p.op \in {"object", "array", "each-like", "each-entry"}
  PROVE  Like(Structural(f, p, c, at), Yes)
<1>0. MadeOf(A, p) /\ MadeOf(B, c) /\ p.op = c.op
  BY SameParts DEF PartsIn
<1>a. ASSUME NEW a \in A, NEW b \in B, NEW x \in Path, Read(a), Read(b), SameAdmits(a, b)
      PROVE  Like(f[<<a, b, x>>], Yes)
  BY <1>a DEF YesFor
<1>b. Like(Yes, Yes)
  BY LikeFacts
<1>1. CASE p.op = "object"
  <2> DEFINE out(n) == IF n \in Given(p.members)
                   THEN f[<<p.members[n], c.members[n], Append(at, InMember(n))>>]
                   ELSE Undeclared(c.members[n], Append(at, InMember(n)))
             all == {out(n) : n \in Given(c.members)}
  <2>1. Structural(f, p, c, at) = Together(all)
    BY <1>0, <1>1 DEF Structural
  <2>2. ASSUME NEW n \in Given(c.members) PROVE Like(out(n), Yes)
    <3>1. n \in Name /\ c.members[n] \in B /\ Read(c.members[n])
      BY <1>0, <1>1, MembersRead
    <3>2. n \in Given(p.members) /\ SameAdmits(p.members[n], c.members[n])
      BY <1>1, SameParts
    <3>3. p.members[n] \in A /\ Read(p.members[n])
      BY <1>0, <1>1, <3>2, MembersRead
    <3>4. Append(at, InMember(n)) \in Path
      BY <3>1, StepFacts
    <3> QED BY <1>a, <3>1, <3>2, <3>3, <3>4
  <2> HIDE DEF out
  <2>3. Like(Together(all), Yes)
    BY <2>2, YesTogether
  <2> HIDE DEF all
  <2> QED BY <2>1, <2>3
<1>2. CASE p.op = "array"
  <2> DEFINE out(i) == f[<<p.entries[i], c.entries[i], Append(at, Index(i))>>]
             all == {out(i) : i \in DOMAIN p.entries}
  <2>1. Len(p.entries) = Len(c.entries)
    BY <1>2, SameParts
  <2>2. Structural(f, p, c, at) = Together(all)
    BY <1>0, <1>2, <2>1 DEF Structural
  <2>3. ASSUME NEW i \in DOMAIN p.entries PROVE Like(out(i), Yes)
    <3>1. i \in Nat /\ p.entries[i] \in A /\ Read(p.entries[i])
      BY <1>0, <1>2, EntriesRead
    <3>2. i \in DOMAIN c.entries
      BY <1>0, <1>2, <2>1 DEF MadeOf
    <3>3. c.entries[i] \in B /\ Read(c.entries[i])
      BY <1>0, <1>2, <3>2, EntriesRead
    <3>4. Append(at, Index(i)) \in Path
      BY <3>1, StepFacts
    <3>5. SameAdmits(p.entries[i], c.entries[i])
      BY <1>2, SameParts
    <3> QED BY <1>a, <3>1, <3>3, <3>4, <3>5
  <2> HIDE DEF out
  <2>4. Like(Together(all), Yes)
    BY <2>3, YesTogether
  <2> HIDE DEF all
  <2> QED BY <2>2, <2>4
<1>3. CASE p.op = "each-like"
  <2> DEFINE out == f[<<p.items, c.items, Append(at, EachItem)>>]
             all == {Contained(p, c, at), out}
  <2>1. p.items \in A /\ c.items \in B /\ Append(at, EachItem) \in Path
    BY <1>0, <1>3, StepFacts DEF MadeOf
  <2>2. Read(p.items) /\ Read(c.items) /\ SameAdmits(p.items, c.items)
    BY <1>0, <1>3, ReadParts, SameParts DEF ReadBelow
  <2>3. Like(out, Yes)
    BY <1>a, <2>1, <2>2
  <2>4. Contained(p, c, at) = Yes
    BY <1>0, <1>3, SameParts, SameContained DEF MadeOf
  <2>5. Structural(f, p, c, at) = Together(all)
    BY <1>0, <1>3 DEF Structural
  <2> HIDE DEF out
  <2>6. Like(Together(all), Yes)
    BY <1>b, <2>3, <2>4, YesTogether
  <2> HIDE DEF all
  <2> QED BY <2>5, <2>6
<1>4. CASE p.op = "each-entry"
  <2> DEFINE name == f[<<KeyOf(p), KeyOf(c), Append(at, EachKey)>>]
             value == f[<<p.values, c.values, Append(at, EachValue)>>]
             all == {Contained(p, c, at), name, value}
  <2>1. /\ p.values \in A /\ c.values \in B /\ KeyOf(p) \in A /\ KeyOf(c) \in B
        /\ Append(at, EachKey) \in Path /\ Append(at, EachValue) \in Path
    BY <1>0, <1>4, StepFacts DEF MadeOf, PartsIn
  <2>2. Read(p.values) /\ Read(c.values) /\ Read(KeyOf(p)) /\ Read(KeyOf(c))
    BY <1>0, <1>4, ReadParts, KeyFacts DEF ReadBelow
  <2>3. SameAdmits(p.values, c.values)
    BY <1>4, SameParts
  <2>4. SameAdmits(KeyOf(p), KeyOf(c))
    <3>1. CASE p.keys = {}
      <4>1. c.keys = {}
        BY <1>4, <3>1, SameParts
      <4>2. KeyOf(p) = AnyValue /\ KeyOf(c) = AnyValue
        BY <3>1, <4>1 DEF KeyOf
      <4> QED BY <4>2, SameAny
    <3>2. CASE p.keys # {}
      <4>1. c.keys # {}
        BY <1>4, <3>2, SameParts
      <4>2. KeyOf(p) \in p.keys /\ KeyOf(c) \in c.keys
        BY <3>2, <4>1 DEF KeyOf
      <4> QED BY <1>4, <4>2, SameParts
    <3> QED BY <3>1, <3>2
  <2>5. Like(name, Yes) /\ Like(value, Yes)
    BY <1>a, <2>1, <2>2, <2>3, <2>4
  <2>6. Contained(p, c, at) = Yes
    BY <1>0, <1>4, SameParts, SameContained DEF MadeOf
  <2>7. Structural(f, p, c, at) = Together(all)
    BY <1>0, <1>4 DEF Structural
  <2> HIDE DEF name, value
  <2>8. Like(Together(all), Yes)
    BY <1>b, <2>5, <2>6, YesTogether
  <2> HIDE DEF all
  <2> QED BY <2>7, <2>8
<1> QED BY <1>1, <1>2, <1>3, <1>4

\* The same of the pairs a union asks about.
LikeUnion(f, g, p, c) ==
  \A a, b : \A at \in Path :
    UnionPairs(p, c, a, b) /\ Read(a) /\ Read(b) => Like(f[<<a, b, at>>], g[<<a, b, at>>])

YesUnion(f, p, c) ==
  \A a, b : \A at \in Path :
    UnionPairs(p, c, a, b) /\ Read(a) /\ Read(b) /\ SameAdmits(a, b) => Like(f[<<a, b, at>>], Yes)

\* Where the walks below are like, so are those of unions.
LEMMA UnionsLike ==
  ASSUME NEW f, NEW g, NEW p \in Shape, NEW c \in Shape, Read(p), Read(c), NEW at \in Path,
         LikeUnion(f, g, p, c), "one-of" \in {p.op, c.op}
  PROVE  Like(Unions(f, p, c, at), Unions(g, p, c, at))
<1>a. ASSUME NEW a, NEW b, NEW x \in Path, UnionPairs(p, c, a, b), Read(a), Read(b)
      PROVE  Like(f[<<a, b, x>>], g[<<a, b, x>>])
  BY <1>a DEF LikeUnion
<1>1. CASE p.op = "one-of" /\ c.op = "one-of"
  <2> DEFINE matching(n) == Matching(c, Literals(p.alternatives[n], p.discriminator))
             m(n) == CHOOSE k \in matching(n) : TRUE
             out(h, n) == IF Cardinality(matching(n)) # 1 THEN No(Append(at, InAlternative(n)))
                   ELSE h[<<p.alternatives[n], c.alternatives[m(n)], Append(at, InAlternative(m(n)))>>]
             all(h) == {out(h, n) : n \in Given(p.alternatives)}
             whole(h) == IF p.discriminator # c.discriminator THEN Unknown(at) ELSE Together(all(h))
  <2>1. Unions(f, p, c, at) = whole(f) /\ Unions(g, p, c, at) = whole(g)
    BY <1>1 DEF Unions, OneOfPair
  <2>2. ASSUME NEW n \in Given(p.alternatives) PROVE Like(out(f, n), out(g, n))
    <3>1. Cardinality(matching(n)) = 1 => m(n) \in Given(c.alternatives)
      BY MatchFacts
    <3> HIDE DEF matching, m
    <3>2. CASE Cardinality(matching(n)) # 1
      BY <3>2, LikeFacts
    <3>3. CASE Cardinality(matching(n)) = 1
      <4>1. Append(at, InAlternative(m(n))) \in Path /\ Read(c.alternatives[m(n)])
        BY <1>1, <3>1, <3>3, AlternativeFacts
      <4>2. UnionPairs(p, c, p.alternatives[n], c.alternatives[m(n)])
        BY <1>1, <3>1, <3>3 DEF UnionPairs
      <4>3. Read(p.alternatives[n])
        BY <1>1, AlternativeFacts
      <4> QED BY <1>a, <3>3, <4>1, <4>2, <4>3
    <3> QED BY <3>2, <3>3
  <2> HIDE DEF out
  <2>3. Like(Together(all(f)), Together(all(g)))
    BY <2>2, LikeTogether
  <2> HIDE DEF all
  <2>4. Like(whole(f), whole(g))
    BY <2>3, LikeFacts
  <2> HIDE DEF whole
  <2> QED BY <2>1, <2>4
<1>2. CASE p.op = "one-of" /\ c.op # "one-of"
  <2> DEFINE out(h, n) == h[<<p.alternatives[n], c, Append(at, InAlternative(n))>>]
             all(h) == {out(h, n) : n \in Given(p.alternatives)}
  <2>1. Unions(f, p, c, at) = Together(all(f)) /\ Unions(g, p, c, at) = Together(all(g))
    BY <1>2 DEF Unions
  <2>2. ASSUME NEW n \in Given(p.alternatives) PROVE Like(out(f, n), out(g, n))
    <3>1. Append(at, InAlternative(n)) \in Path /\ Read(p.alternatives[n])
      BY <1>2, AlternativeFacts
    <3>2. UnionPairs(p, c, p.alternatives[n], c)
      BY <1>2 DEF UnionPairs
    <3> QED BY <1>a, <3>1, <3>2
  <2> HIDE DEF out
  <2>3. Like(Together(all(f)), Together(all(g)))
    BY <2>2, LikeTogether
  <2> HIDE DEF all
  <2> QED BY <2>1, <2>3
<1>3. CASE p.op # "one-of" /\ c.op = "one-of"
  <2> DEFINE literals == Literals(p, c.discriminator)
             matching == Matching(c, literals)
             m == CHOOSE k \in matching : TRUE
             whole(h) == IF Cardinality(matching) # 1 THEN Unknown(at)
                         ELSE h[<<p, c.alternatives[m], Append(at, InAlternative(m))>>]
  <2>1. Unions(f, p, c, at) = whole(f) /\ Unions(g, p, c, at) = whole(g)
    BY <1>3 DEF Unions, InsideAlternative
  <2>2. Cardinality(matching) = 1 => m \in Given(c.alternatives) /\ literals # {}
    BY MatchFacts, NoLiteralsNoMatch
  <2> HIDE DEF m, matching
  <2>3. CASE Cardinality(matching) = 1
    <3>1. Append(at, InAlternative(m)) \in Path /\ Read(c.alternatives[m])
      BY <1>3, <2>2, <2>3, AlternativeFacts
    <3>2. UnionPairs(p, c, p, c.alternatives[m])
      BY <1>3, <2>2, <2>3 DEF UnionPairs
    <3>3. Like(whole(f), whole(g))
      BY <1>a, <2>3, <3>1, <3>2
    <3> HIDE DEF whole
    <3> QED BY <2>1, <3>3
  <2>4. CASE Cardinality(matching) # 1
    BY <2>1, <2>4, LikeFacts
  <2> QED BY <2>3, <2>4
<1> QED BY <1>1, <1>2, <1>3

\* An alternative's literals are those of the same alternative of a union that is
\* the same, and of no other.
LEMMA SameMatching ==
  ASSUME NEW p \in Shape, NEW c \in Shape, Read(p), Read(c), SameAdmits(p, c),
         p.op = "one-of", NEW n \in Given(p.alternatives)
  PROVE  Matching(c, Literals(p.alternatives[n], p.discriminator)) = {n}
<1>1. /\ c.op = "one-of" /\ p.discriminator = c.discriminator
      /\ Given(p.alternatives) = Given(c.alternatives)
      /\ SameAdmits(p.alternatives[n], c.alternatives[n])
  BY SameParts
<1> DEFINE d == c.discriminator
           a == p.alternatives
           b == c.alternatives
           L(s) == Literals(s, d)
<1>2. /\ d \in Name /\ a[n] \in Shape /\ Read(a[n]) /\ b[n] \in Shape /\ Read(b[n])
  BY <1>1, AlternativeFacts
<1>3. \A l \in L(a[n]) : \E m \in L(b[n]) : SameValue(l, m)
  BY <1>1, <1>2, SameLiterals
<1>4. OneOfParses(p) /\ OneOfParses(c)
  BY <1>1, ParsesFacts DEF Read
<1>5. L(a[n]) # {}
  BY <1>1, <1>4 DEF OneOfParses
<1>6. \A j, k \in Given(b) : j # k => \A x \in L(b[j]), y \in L(b[k]) : ~SameValue(x, y)
  BY <1>1, <1>4 DEF OneOfParses
<1>7. \A l \in L(a[n]) : l \in Value
  BY <1>2, LiteralFacts, ScalarsPresent
<1>8. \A k \in Given(b) : \A l \in L(b[k]) : l \in Value
  <2>1. ASSUME NEW k \in Given(b) PROVE b[k] \in Shape
    BY <1>1, AlternativeFacts
  <2> QED BY <1>2, <2>1, LiteralFacts, ScalarsPresent
<1>9. Matching(c, Literals(p.alternatives[n], p.discriminator)) =
        {k \in Given(b) : \E l \in L(a[n]), m \in L(b[k]) : SameValue(l, m)}
  BY <1>1 DEF Matching
<1> HIDE DEF L, a, b, d
<1>10. n \in Given(b)
  BY <1>1 DEF a, b
<1>11. ASSUME NEW k \in Given(b), NEW l \in L(a[n]), NEW m \in L(b[k]), SameValue(l, m) PROVE k = n
  <2>1. PICK u \in L(b[n]) : SameValue(l, u)
    BY <1>3
  <2>2. l \in Value /\ u \in Value /\ m \in Value
    BY <1>7, <1>8, <1>10
  <2>3. SameValue(u, l)
    BY <2>1, <2>2, EqualSymmetric
  <2>4. SameValue(u, m)
    BY <1>11, <2>2, <2>3, EqualTransitive
  <2> QED BY <1>6, <1>10, <2>4
<1>12. \E l \in L(a[n]), m \in L(b[n]) : SameValue(l, m)
  BY <1>3, <1>5
<1>13. \A k \in Given(b) : (\E l \in L(a[n]), m \in L(b[k]) : SameValue(l, m)) <=> k = n
  BY <1>11, <1>12
<1> QED BY <1>9, <1>10, <1>13

\* Unions that are the same get a plain yes where their alternatives do.
LEMMA UnionsYes ==
  ASSUME NEW f, NEW p \in Shape, NEW c \in Shape, Read(p), Read(c), NEW at \in Path,
         YesUnion(f, p, c), SameAdmits(p, c), p.op = "one-of"
  PROVE  Like(Unions(f, p, c, at), Yes)
<1>1. /\ c.op = "one-of" /\ p.discriminator = c.discriminator
      /\ Given(p.alternatives) = Given(c.alternatives)
  BY SameParts
<1>a. ASSUME NEW a, NEW b, NEW x \in Path, UnionPairs(p, c, a, b), Read(a), Read(b), SameAdmits(a, b)
      PROVE  Like(f[<<a, b, x>>], Yes)
  BY <1>a DEF YesUnion
<1> DEFINE matching(n) == Matching(c, Literals(p.alternatives[n], p.discriminator))
           m(n) == CHOOSE k \in matching(n) : TRUE
           out(n) == IF Cardinality(matching(n)) # 1 THEN No(Append(at, InAlternative(n)))
                 ELSE f[<<p.alternatives[n], c.alternatives[m(n)], Append(at, InAlternative(m(n)))>>]
           all == {out(n) : n \in Given(p.alternatives)}
<1>2. Unions(f, p, c, at) = Together(all)
  BY <1>1 DEF Unions, OneOfPair
<1>3. ASSUME NEW n \in Given(p.alternatives) PROVE Like(out(n), Yes)
  <2>1. matching(n) = {n}
    BY SameMatching
  <2>2. m(n) = n /\ Cardinality(matching(n)) = 1
    BY <2>1, FS_Singleton
  <2> HIDE DEF matching, m
  <2>3. /\ Append(at, InAlternative(n)) \in Path
        /\ Read(p.alternatives[n]) /\ Read(c.alternatives[n])
    BY <1>1, AlternativeFacts
  <2>4. UnionPairs(p, c, p.alternatives[n], c.alternatives[n])
    BY <1>1 DEF UnionPairs
  <2>5. SameAdmits(p.alternatives[n], c.alternatives[n])
    BY SameParts
  <2> QED BY <1>a, <2>2, <2>3, <2>4, <2>5
<1> HIDE DEF out
<1>4. Like(Together(all), Yes)
  BY <1>3, YesTogether
<1> HIDE DEF all
<1> QED BY <1>2, <1>4

\* The same of every pair of smaller shapes the parser reads.
LikeBelow(f, g, n) ==
  \A a, b \in Shape, at \in Path :
    shapeRank[a] + shapeRank[b] < n /\ Read(a) /\ Read(b) => Like(f[<<a, b, at>>], g[<<a, b, at>>])

YesBelow(f, n) ==
  \A a, b \in Shape, at \in Path :
    /\ shapeRank[a] + shapeRank[b] < n /\ Read(a) /\ Read(b) /\ SameAdmits(a, b)
    => Like(f[<<a, b, at>>], Yes)

\* The table of operators is like where the walks below are.
LEMMA ExactLike ==
  ASSUME NEW f, NEW g, NEW r \in Shape, NEW s \in Shape, Read(r), Read(s), NEW at \in Path,
         LikeBelow(f, g, shapeRank[r] + shapeRank[s]), ~(r.op = "type" /\ s.op = "type"),
         Classes(Desugar(r)) \cap Classes(Desugar(s)) # {}
  PROVE  Like(Exact(f, Desugar(r), Desugar(s), at), Exact(g, Desugar(r), Desugar(s), at))
<1> DEFINE q == Desugar(r)
           d == Desugar(s)
<1>0. /\ PartsIn(Slack(r), q) /\ PartsIn(Slack(s), d) /\ q \in Shape /\ d \in Shape
      /\ Read(q) /\ Read(d)
  BY SlackParts, DesugarCases
<1>a. ASSUME NEW a \in Shape, NEW b \in Shape, NEW x \in Path,
             shapeRank[a] + shapeRank[b] < shapeRank[r] + shapeRank[s], Read(a), Read(b)
      PROVE  Like(f[<<a, b, x>>], g[<<a, b, x>>])
  BY <1>a DEF LikeBelow
<1>b. LikeUnion(f, g, q, d)
  BY <1>a, UnionRanks DEF LikeUnion
<1>c. LikeFor(f, g, Slack(r), Slack(s))
  BY <1>a, SlackRanks DEF LikeFor
<1> HIDE DEF q, d
<1>1. CASE "one-of" \in {q.op, d.op}
  <2>1. Like(Unions(f, q, d, at), Unions(g, q, d, at))
    BY <1>0, <1>1, <1>b, UnionsLike
  <2>2. \A h : Exact(h, q, d, at) = Unions(h, q, d, at)
    BY <1>1 DEF Exact
  <2> QED BY <2>1, <2>2 DEF q, d
<1>2. CASE "one-of" \notin {q.op, d.op} /\ <<q.op, d.op>> \in Structures
  <2>1. Like(Structural(f, q, d, at), Structural(g, q, d, at))
    BY <1>0, <1>2, <1>c, StructuralLike
  <2>2. \A h : Exact(h, q, d, at) = Structural(h, q, d, at)
    BY <1>2 DEF Exact
  <2> QED BY <2>1, <2>2 DEF q, d
<1>3. CASE "one-of" \notin {q.op, d.op} /\ <<q.op, d.op>> \notin Structures
  <2>1. Exact(f, q, d, at) = Exact(g, q, d, at)
    BY <1>3 DEF Exact
  <2> QED BY <2>1, LikeFacts DEF q, d
<1> QED BY <1>1, <1>2, <1>3

\* Of the shapes with parts, none is about absence or null.
Structured == {"object", "array", "each-like", "each-entry", "one-of"}

\* Shapes with parts that are the same get a plain yes of the table.
LEMMA ExactYes ==
  ASSUME NEW f, NEW r \in Shape, NEW s \in Shape, Read(r), Read(s), NEW at \in Path,
         YesBelow(f, shapeRank[r] + shapeRank[s]), ~(r.op = "type" /\ s.op = "type"),
         Classes(Desugar(r)) \cap Classes(Desugar(s)) # {},
         SameAdmits(Desugar(r), Desugar(s)), Desugar(r).op \in Structured
  PROVE  Like(Exact(f, Desugar(r), Desugar(s), at), Yes)
<1> DEFINE q == Desugar(r)
           d == Desugar(s)
<1>0. /\ PartsIn(Slack(r), q) /\ PartsIn(Slack(s), d) /\ q \in Shape /\ d \in Shape
      /\ Read(q) /\ Read(d)
  BY SlackParts, DesugarCases
<1>a. ASSUME NEW a \in Shape, NEW b \in Shape, NEW x \in Path,
             shapeRank[a] + shapeRank[b] < shapeRank[r] + shapeRank[s], Read(a), Read(b),
             SameAdmits(a, b)
      PROVE  Like(f[<<a, b, x>>], Yes)
  BY <1>a DEF YesBelow
<1>b. YesUnion(f, q, d)
  BY <1>a, UnionRanks DEF YesUnion
<1>c. YesFor(f, Slack(r), Slack(s))
  BY <1>a, SlackRanks DEF YesFor
<1>d. SameAdmits(q, d) /\ q.op \in Structured
  OBVIOUS
<1> HIDE DEF q, d
<1>e. d.op = q.op
  BY <1>0, <1>d, SameParts
<1>1. CASE q.op = "one-of"
  <2>1. Like(Unions(f, q, d, at), Yes)
    BY <1>0, <1>1, <1>b, <1>d, UnionsYes
  <2>2. Exact(f, q, d, at) = Unions(f, q, d, at)
    BY <1>1 DEF Exact
  <2> QED BY <2>1, <2>2 DEF q, d
<1>2. CASE q.op # "one-of"
  <2>1. q.op \in {"object", "array", "each-like", "each-entry"}
    BY <1>2, <1>d DEF Structured
  <2>2. Like(Structural(f, q, d, at), Yes)
    BY <1>0, <2>1, <1>c, <1>d, StructuralYes
  <2>3. Exact(f, q, d, at) = Structural(f, q, d, at)
    BY <1>2, <1>e, <2>1 DEF Exact, Structures
  <2> QED BY <2>2, <2>3 DEF q, d
<1> QED BY <1>1, <1>2

\* What the rules before the table say of shapes with parts.
LEMMA StructuredFacts ==
  ASSUME NEW q \in Shape, NEW d \in Shape, SameAdmits(q, d), q.op \in Structured
  PROVE  /\ ~Opaque(q) /\ ~Opaque(d) /\ ~Conservative(q) /\ ~Conservative(d)
         /\ q.op # "any" /\ q.op # "type" /\ d.op = q.op
         /\ Classes(q) \cap Classes(d) # {}
<1>1. d.op = q.op
  BY SameParts
<1>2. Classes(q) \cap Classes(d) # {}
  <2>1. q.op \in {"object", "each-entry", "one-of"} => "object" \in Classes(q) /\ "object" \in Classes(d)
    BY <1>1 DEF Classes, TextOps
  <2>2. q.op \in {"array", "each-like"} => "array" \in Classes(q) /\ "array" \in Classes(d)
    BY <1>1 DEF Classes, TextOps
  <2> QED BY <2>1, <2>2 DEF Structured
<1> QED BY <1>1, <1>2 DEF Structured, Opaque, Conservative

\* Where the floor does not stand, the node has parts.
LEMMA FloorFalls ==
  ASSUME NEW q \in Shape, NEW d, NEW at, NEW E, Core(q), SameAdmits(q, d), ~Floor(q, d, at, E)
  PROVE  q.op \in Structured
BY DEF Floor, FloorStands, HasChildren, Core, Structured

\* Shapes that are the same get a plain yes of the rules, whatever the caveats.
LEMMA OperatorsYes ==
  ASSUME NEW f, NEW r \in Shape, NEW s \in Shape, Read(r), Read(s), Core(r), NEW at \in Path, NEW E,
         YesBelow(f, shapeRank[r] + shapeRank[s]), SameAdmits(r, s)
  PROVE  Like(Operators(f, r, s, at, E), Yes)
<1>1. CASE Floor(r, s, at, E)
  BY <1>1, LikeFacts DEF Operators
<1>2. CASE ~Floor(r, s, at, E)
  <2>1. r.op \in Structured
    BY <1>2, FloorFalls
  <2>2. /\ ~Opaque(r) /\ ~Opaque(s) /\ ~Conservative(r) /\ ~Conservative(s)
        /\ r.op # "any" /\ r.op # "type" /\ s.op = r.op
        /\ Classes(r) \cap Classes(s) # {}
    BY <2>1, StructuredFacts
  <2>3. Desugar(r) = r /\ Desugar(s) = s
    BY <2>2 DEF Desugar
  <2>4. Operators(f, r, s, at, E) = Exact(f, Desugar(r), Desugar(s), at)
    BY <1>2, <2>2, <2>3 DEF Operators
  <2>5. Like(Exact(f, Desugar(r), Desugar(s), at), Yes)
    BY <2>1, <2>2, <2>3, ExactYes
  <2> QED BY <2>4, <2>5
<1> QED BY <1>1, <1>2

\* The rules with caveats are like those without, where the walks below are.
LEMMA OperatorsLike ==
  ASSUME NEW f, NEW g, NEW r \in Shape, NEW s \in Shape, Read(r), Read(s), Core(r),
         NEW at \in Path, NEW E, LikeBelow(f, g, shapeRank[r] + shapeRank[s]),
         YesBelow(f, shapeRank[r] + shapeRank[s])
  PROVE  Like(Operators(f, r, s, at, E), Operators(g, r, s, at, {}))
<1> DEFINE q == Desugar(r)
           d == Desugar(s)
<1>0. q \in Shape /\ d \in Shape /\ Read(q) /\ Read(d) /\ Core(q)
  BY DesugarCases, CoreDesugar
<1>a. \A a, b : Floor(a, b, at, {}) <=> SameAdmits(a, b)
  BY DEF Floor, FloorStands
<1>b. \A a, b : Floor(a, b, at, E) => SameAdmits(a, b)
  BY DEF Floor
<1>1. CASE SameAdmits(r, s)
  <2>1. Operators(g, r, s, at, {}) = Yes
    BY <1>1, <1>a DEF Operators
  <2> QED BY <1>1, <2>1, OperatorsYes
<1>2. CASE ~SameAdmits(r, s)
  <2> DEFINE O == Opaque(r) \/ Opaque(s)
             N == q.op = "any" \/ Classes(q) \cap Classes(d) = {}
             K == Conservative(q) \/ Conservative(d)
             op(h, F) == IF O THEN Unknown(at)
                         ELSE IF Floor(q, d, at, F) \/ d.op = "any" THEN Yes
                         ELSE IF N THEN No(at)
                         ELSE IF K THEN Guarded(q, d, at)
                         ELSE Exact(h, q, d, at)
  <2>1. Operators(f, r, s, at, E) = op(f, E) /\ Operators(g, r, s, at, {}) = op(g, {})
    BY <1>2, <1>a, <1>b DEF Operators
  <2>2. ~(r.op = "type" /\ s.op = "type") \/ N
    <3>1. ASSUME r.op = "type", s.op = "type", ~N PROVE FALSE
      <4>1. Example(r).is = Example(s).is
        BY <3>1, TypeClasses
      <4>2. Floor(r, s, at, E)
        BY <3>1, <4>1, SameTypes
      <4> QED BY <1>2, <1>b, <4>2
    <3> QED BY <3>1
  <2>3. CASE SameAdmits(q, d) /\ ~Floor(q, d, at, E) /\ ~O
    <3> HIDE DEF q, d
    <3>1. q.op \in Structured
      BY <1>0, <2>3, FloorFalls
    <3>2. ~N /\ ~K
      BY <1>0, <2>3, <3>1, StructuredFacts
    <3>3. Like(Exact(f, q, d, at), Yes)
      BY <2>2, <2>3, <3>1, <3>2, ExactYes DEF q, d
    <3>4. op(g, {}) = Yes
      BY <1>a, <2>3
    <3> HIDE DEF O, N, K
    <3>5. op(f, E) = Yes \/ op(f, E) = Exact(f, q, d, at)
      BY <2>3, <3>2
    <3> HIDE DEF op
    <3> QED BY <2>1, <3>3, <3>4, <3>5, LikeFacts
  <2>4. CASE ~SameAdmits(q, d) /\ ~O /\ d.op # "any" /\ ~N /\ ~K
    <3>1. Like(Exact(f, q, d, at), Exact(g, q, d, at))
      BY <2>2, <2>4, ExactLike
    <3> HIDE DEF q, d, O, N, K
    <3>2. op(f, E) = Exact(f, q, d, at) /\ op(g, {}) = Exact(g, q, d, at)
      BY <1>a, <1>b, <2>4
    <3> QED BY <2>1, <3>1, <3>2
  <2>5. CASE \/ O
             \/ SameAdmits(q, d) /\ Floor(q, d, at, E)
             \/ ~SameAdmits(q, d) /\ (d.op = "any" \/ N \/ K)
    <3> HIDE DEF q, d, O, N, K
    <3>1. op(f, E) = op(g, {})
      BY <1>a, <1>b, <2>5
    <3> QED BY <2>1, <3>1, LikeFacts
  <2> HIDE DEF O, N, K, q, d
  <2> QED BY <2>3, <2>4, <2>5
<1> QED BY <1>1, <1>2

\* There is one null.
LEMMA NullAlone ==
  ASSUME NEW v \in Value, v.is = "null"
  PROVE  v = Null
<1>1. v \in Scalar
  BY ValueFacts DEF ScalarKinds
<1> QED BY <1>1 DEF Scalar, Null

\* Any-ofs that are the same are so without the null of each.
LEMMA SameLeftOf ==
  ASSUME NEW p \in Shape, NEW c \in Shape, p.op = "any-of", c.op = "any-of", Read(p), Read(c),
         SameAdmits(p, c), NEW i \in DOMAIN p.options, p.options[i].is = "null",
         NEW j \in DOMAIN c.options, c.options[j].is = "null"
  PROVE  /\ Without(p.options, i) = <<>> <=> Without(c.options, j) = <<>>
         /\ SameAdmits(LeftOf(p, i), LeftOf(c, j))
<1> DEFINE x == p.options
           y == c.options
           u == Without(p.options, i)
           w == Without(c.options, j)
<1>1. x \in Seq(Present) /\ y \in Seq(Present)
  BY ShapeParts DEF MadeOf
<1>2. /\ Len(x) = Len(y)
      /\ \A o \in Range(x) : \E q \in Range(y) : SameValue(o, q)
  BY SameParts
<1>3. AnyOfParses(p)
  BY ParsesFacts DEF Read
<1>4. /\ u \in Seq(Present) /\ Len(u) = Len(x) - 1 /\ LeavesTheOthers(x, i, u)
      /\ w \in Seq(Present) /\ Len(w) = Len(y) - 1 /\ LeavesTheOthers(y, j, w)
  BY <1>1, WithoutFacts
<1>5. \A k, l \in DOMAIN x : k # l => ~SameValue(x[k], x[l])
  BY <1>3 DEF AnyOfParses
<1>6. (\A k \in DOMAIN x : x[k] \in Value) /\ (\A k \in DOMAIN y : y[k] \in Value)
  BY <1>1, ScalarsPresent
<1>7. /\ LeftOf(p, i) \in Shape /\ LeftOf(p, i).op = "any-of" /\ LeftOf(p, i).options = u
      /\ LeftOf(c, j) \in Shape /\ LeftOf(c, j).op = "any-of" /\ LeftOf(c, j).options = w
  BY LeftOfFacts
<1>a. x[i].is = "null" /\ y[j].is = "null" /\ i \in DOMAIN x /\ j \in DOMAIN y
  OBVIOUS
<1> HIDE DEF x, y, u, w
<1>8. u = <<>> <=> w = <<>>
  BY <1>2, <1>4
<1>b. \A o \in Range(x) : \E q \in DOMAIN y : SameValue(o, y[q])
  BY <1>2 DEF Range
<1>9. ASSUME NEW k \in DOMAIN x, k # i PROVE \E m \in DOMAIN y : m # j /\ SameValue(x[k], y[m])
  <2>1. x[k] \in Range(x)
    BY DEF Range
  <2>2. PICK m \in DOMAIN y : SameValue(x[k], y[m])
    BY <1>b, <2>1
  <2>3. m # j
    <3>1. ASSUME m = j PROVE FALSE
      <4>1. x[k].is = "null"
        BY <1>6, <1>a, <2>2, <3>1, EqualKinds
      <4>2. x[i] = Null /\ x[k] = Null
        BY <1>6, <1>a, <4>1, NullAlone
      <4>3. SameValue(x[k], x[i])
        BY <1>6, <1>a, <4>2, EqualReflexive
      <4> QED BY <1>5, <1>9, <1>a, <4>3
    <3> QED BY <3>1
  <2> QED BY <2>2, <2>3
<1>10. ASSUME NEW o \in Range(u) PROVE \E q \in Range(w) : SameValue(o, q)
  <2>1. PICK k \in DOMAIN x : k # i /\ o = x[k]
    <3>1. PICK n \in DOMAIN u : o = u[n]
      BY DEF Range
    <3>2. /\ n \in Nat /\ (IF n < i THEN n ELSE n + 1) \in DOMAIN x
          /\ (IF n < i THEN n ELSE n + 1) # i /\ u[n] = x[IF n < i THEN n ELSE n + 1]
      BY <1>4 DEF LeavesTheOthers
    <3> QED BY <3>1, <3>2
  <2>2. PICK m \in DOMAIN y : m # j /\ SameValue(x[k], y[m])
    BY <1>9, <2>1
  <2>3. PICK n \in DOMAIN w : w[n] = y[m]
    BY <1>4, <2>2 DEF LeavesTheOthers
  <2>4. w[n] \in Range(w)
    BY DEF Range
  <2> QED BY <2>1, <2>2, <2>3, <2>4
<1>11. SameAdmits(LeftOf(p, i), LeftOf(c, j))
  <2> DEFINE a == LeftOf(p, i)
             b == LeftOf(c, j)
  <2>1. a.op = "any-of" /\ b.op = "any-of" /\ a.options = u /\ b.options = w /\ a \in Shape /\ b \in Shape
    BY <1>7
  <2> HIDE DEF a, b
  <2>2. Len(u) = Len(w)
    BY <1>2, <1>4
  <2>3. SameNode(sameAdmitsSolution, a, b)
    BY <1>10, <2>1, <2>2 DEF SameNode, TextOps
  <2>4. SameAdmits(a, b)
    BY <2>1, <2>3, SameUnfolds
  <2> QED BY <2>4 DEF a, b
<1> QED BY <1>8, <1>11 DEF u, w

\* Two nodes come apart the same way.
SameTaken(a, b) ==
  /\ a.absent = b.absent /\ a.null = b.null
  /\ a.rest = {} <=> b.rest = {}
  /\ \A r \in a.rest, s \in b.rest : SameAdmits(r, s)

\* Nodes that are the same do.
LEMMA DecomposeSame ==
  \A p, c \in Shape : Read(p) /\ Read(c) /\ SameAdmits(p, c) => SameTaken(Decompose(p), Decompose(c))
<1> DEFINE S == {p \in Shape : \A c \in Shape :
                   Read(p) /\ Read(c) /\ SameAdmits(p, c) => SameTaken(Decompose(p), Decompose(c))}
<1>1. ASSUME NEW p \in Shape, \A t \in Shape : shapeRank[t] < shapeRank[p] => t \in S
      PROVE  p \in S
  <2> SUFFICES ASSUME NEW c \in Shape, Read(p), Read(c), SameAdmits(p, c)
               PROVE SameTaken(Decompose(p), Decompose(c))
    OBVIOUS
  <2>0. /\ Decompose(p) = DecomposeNode(decomposeSolution, p)
        /\ Decompose(c) = DecomposeNode(decomposeSolution, c)
        /\ c.op = p.op
    BY DecomposeUnfolds, SameParts
  <2>1. CASE p.op \in {"optional", "nullable"}
    <3>1. p.of \in ReadBelow(p) /\ c.of \in ReadBelow(c) /\ SameAdmits(p.of, c.of)
      BY <2>0, <2>1, ReadParts, SameParts
    <3>2. /\ p.of \in Shape /\ shapeRank[p.of] < shapeRank[p] /\ Read(p.of)
          /\ c.of \in Shape /\ Read(c.of)
      BY <3>1 DEF ReadBelow, Lower
    <3>3. SameTaken(Decompose(p.of), Decompose(c.of))
      BY <1>1, <3>1, <3>2
    <3>4. /\ decomposeSolution[p.of] = Decompose(p.of) /\ Decompose(p.of) \in Taken
          /\ decomposeSolution[c.of] = Decompose(c.of) /\ Decompose(c.of) \in Taken
      BY <3>2, DecomposeUnfolds
    <3>5. CASE p.op = "optional"
      <4>1. /\ Decompose(p) = [Decompose(p.of) EXCEPT !.absent = TRUE]
            /\ Decompose(c) = [Decompose(c.of) EXCEPT !.absent = TRUE]
        BY <2>0, <3>4, <3>5 DEF DecomposeNode
      <4> QED BY <3>3, <3>4, <4>1 DEF SameTaken, Taken
    <3>6. CASE p.op = "nullable"
      <4>1. /\ Decompose(p) = [Decompose(p.of) EXCEPT !.null = TRUE]
            /\ Decompose(c) = [Decompose(c.of) EXCEPT !.null = TRUE]
        BY <2>0, <3>4, <3>6 DEF DecomposeNode
      <4> QED BY <3>3, <3>4, <4>1 DEF SameTaken, Taken
    <3> QED BY <2>1, <3>5, <3>6
  <2>2. CASE p.op = "any-of"
    <3> DEFINE nulls(s) == {i \in DOMAIN s.options : s.options[i].is = "null"}
               i == CHOOSE k \in nulls(p) : TRUE
               j == CHOOSE k \in nulls(c) : TRUE
    <3>1. nulls(p) = {} <=> nulls(c) = {}
      <4>1. /\ \A o \in Range(p.options) : \E q \in Range(c.options) : SameValue(o, q)
            /\ \A q \in Range(c.options) : \E o \in Range(p.options) : SameValue(q, o)
        BY <2>0, <2>2, SameParts, OptionsBack
      <4>2. p.options \in Seq(Present) /\ c.options \in Seq(Present)
        BY <2>0, <2>2, ShapeParts DEF MadeOf
      <4>3. /\ \A o \in Range(p.options) : o \in Value
            /\ \A o \in Range(c.options) : o \in Value
        BY <4>2, ScalarsPresent DEF Range
      <4>4. /\ \A o \in Range(p.options) : \E q \in Range(c.options) : o.is = q.is
            /\ \A q \in Range(c.options) : \E o \in Range(p.options) : q.is = o.is
        BY <4>1, <4>3, EqualKinds
      <4> QED BY <4>4 DEF Range
    <3>2. CASE nulls(p) = {}
      <4>1. /\ Decompose(p) = [absent |-> FALSE, null |-> FALSE, rest |-> {p}]
            /\ Decompose(c) = [absent |-> FALSE, null |-> FALSE, rest |-> {c}]
        BY <2>0, <2>2, <3>1, <3>2 DEF DecomposeNode
      <4> QED BY <4>1 DEF SameTaken
    <3>3. CASE nulls(p) # {}
      <4>1. /\ i \in DOMAIN p.options /\ p.options[i].is = "null"
            /\ j \in DOMAIN c.options /\ c.options[j].is = "null"
        BY <3>1, <3>3
      <4>2. /\ Decompose(p) = [absent |-> FALSE, null |-> TRUE,
                    rest |-> IF Without(p.options, i) = <<>> THEN {} ELSE {LeftOf(p, i)}]
            /\ Decompose(c) = [absent |-> FALSE, null |-> TRUE,
                    rest |-> IF Without(c.options, j) = <<>> THEN {} ELSE {LeftOf(c, j)}]
        BY <2>0, <2>2, <3>1, <3>3 DEF DecomposeNode, LeftOf
      <4> HIDE DEF i, j
      <4>3. /\ Without(p.options, i) = <<>> <=> Without(c.options, j) = <<>>
            /\ SameAdmits(LeftOf(p, i), LeftOf(c, j))
        BY <2>0, <2>2, <4>1, SameLeftOf
      <4> QED BY <4>2, <4>3 DEF SameTaken
    <3> QED BY <3>2, <3>3
  <2>3. CASE p.op = "equality"
    <3>1. SameValue(Example(p), Example(c))
      BY <2>3, SameParts
    <3>2. Example(p) \in Value /\ Example(c) \in Value
      BY <2>0, <2>3, ShapeParts, ScalarsPresent DEF MadeOf
    <3>3. Example(p).is = Example(c).is
      BY <3>1, <3>2, EqualKinds
    <3> QED BY <2>0, <2>3, <3>3 DEF DecomposeNode, SameTaken
  <2>4. CASE p.op = "kind"
    <3>1. p.kind = c.kind
      BY <2>4, SameParts
    <3> QED BY <2>0, <2>4, <3>1 DEF DecomposeNode, SameTaken
  <2>5. CASE p.op \notin {"optional", "nullable", "any-of", "equality", "kind"}
    <3>1. CASE p.op = "forbidden"
      <4>1. /\ Decompose(p) = [absent |-> TRUE, null |-> FALSE, rest |-> {}]
            /\ Decompose(c) = [absent |-> TRUE, null |-> FALSE, rest |-> {}]
        BY <2>0, <3>1 DEF DecomposeNode
      <4> QED BY <4>1 DEF SameTaken
    <3>2. CASE p.op = "any"
      <4>1. /\ Decompose(p) = [absent |-> FALSE, null |-> TRUE, rest |-> {p}]
            /\ Decompose(c) = [absent |-> FALSE, null |-> TRUE, rest |-> {c}]
        BY <2>0, <3>2 DEF DecomposeNode
      <4> QED BY <4>1 DEF SameTaken
    <3>3. CASE p.op \notin {"forbidden", "any"}
      <4>1. /\ Decompose(p) = [absent |-> FALSE, null |-> FALSE, rest |-> {p}]
            /\ Decompose(c) = [absent |-> FALSE, null |-> FALSE, rest |-> {c}]
        BY <2>0, <2>5, <3>3 DEF DecomposeNode
      <4> QED BY <4>1 DEF SameTaken
    <3> QED BY <3>1, <3>2, <3>3
  <2> QED BY <2>1, <2>2, <2>3, <2>4, <2>5
<1>2. Shape \subseteq S
  <2> HIDE DEF S
  <2> QED BY <1>1, ShapeInduction
<1> QED BY <1>2

\* What is so to some rank is so below it.
LEMMA SmallerYes ==
  ASSUME NEW f, NEW n \in Nat, NEW m \in Nat, m <= n, YesBelow(f, n)
  PROVE  YesBelow(f, m)
<1> SUFFICES ASSUME NEW a \in Shape, NEW b \in Shape, NEW at \in Path,
                    shapeRank[a] + shapeRank[b] < m, Read(a), Read(b), SameAdmits(a, b)
             PROVE  Like(f[<<a, b, at>>], Yes)
  BY DEF YesBelow
<1>1. shapeRank[a] \in Nat /\ shapeRank[b] \in Nat
  BY ShapeRankFacts
<1>2. \A i, j, k, l \in Nat : i + j < k /\ k <= l => i + j < l
  OBVIOUS
<1>3. shapeRank[a] + shapeRank[b] < n
  BY <1>1, <1>2
<1> QED BY <1>3 DEF YesBelow

\* The same of being like.
LEMMA SmallerLike ==
  ASSUME NEW f, NEW g, NEW n \in Nat, NEW m \in Nat, m <= n, LikeBelow(f, g, n)
  PROVE  LikeBelow(f, g, m)
<1> SUFFICES ASSUME NEW a \in Shape, NEW b \in Shape, NEW at \in Path,
                    shapeRank[a] + shapeRank[b] < m, Read(a), Read(b)
             PROVE  Like(f[<<a, b, at>>], g[<<a, b, at>>])
  BY DEF LikeBelow
<1>1. shapeRank[a] \in Nat /\ shapeRank[b] \in Nat
  BY ShapeRankFacts
<1>2. \A i, j, k, l \in Nat : i + j < k /\ k <= l => i + j < l
  OBVIOUS
<1>3. shapeRank[a] + shapeRank[b] < n
  BY <1>1, <1>2
<1> QED BY <1>3 DEF LikeBelow

\* Nodes that are the same get a plain yes, whatever the caveats, where the pairs
\* below do.
LEMMA ValueNodeYes ==
  ASSUME NEW f, NEW p \in Shape, NEW c \in Shape, Read(p), Read(c), NEW at \in Path, NEW E,
         YesBelow(f, shapeRank[p] + shapeRank[c]), SameAdmits(p, c)
  PROVE  Like(ValueNode(f, p, c, at, E), Yes)
<1>1. CASE Floor(p, c, at, E)
  BY <1>1, ValueNodeIs, LikeFacts
<1>2. CASE ~Floor(p, c, at, E)
  <2>1. SameTaken(Decompose(p), Decompose(c))
    BY DecomposeSame
  <2>2. PresenceOut(p, c, at) = Yes
    BY <2>1 DEF SameTaken, PresenceOut
  <2>3. ASSUME NEW r \in Decompose(p).rest, NEW s \in Decompose(c).rest
        PROVE  Like(Operators(f, r, s, at, E), Yes)
    <3>1. /\ shapeRank[r] + shapeRank[s] \in Nat /\ shapeRank[p] + shapeRank[c] \in Nat
          /\ shapeRank[r] + shapeRank[s] <= shapeRank[p] + shapeRank[c]
      BY RestFacts
    <3>2. YesBelow(f, shapeRank[r] + shapeRank[s])
      BY <3>1, SmallerYes
    <3>3. r \in Shape /\ s \in Shape /\ Read(r) /\ Read(s) /\ Core(r)
      BY RestRead
    <3>4. SameAdmits(r, s)
      BY <2>1 DEF SameTaken
    <3> QED BY <3>2, <3>3, <3>4, OperatorsYes
  <2> DEFINE outs == {PresenceOut(p, c, at)} \cup RestOuts(f, p, c, at, E)
  <2>4. ASSUME NEW o \in RestOuts(f, p, c, at, E) PROVE Like(o, Yes)
    <3>1. CASE Decompose(c).rest = {}
      <4>1. Decompose(p).rest = {}
        BY <2>1, <3>1 DEF SameTaken
      <4> QED BY <2>4, <3>1, <4>1 DEF RestOuts
    <3>2. CASE Decompose(c).rest # {}
      <4>1. PICK r \in Decompose(p).rest, s \in Decompose(c).rest : o = Operators(f, r, s, at, E)
        BY <2>4, <3>2 DEF RestOuts
      <4> QED BY <2>3, <4>1
    <3> QED BY <3>1, <3>2
  <2>5. \A o \in outs : Like(o, Yes)
    BY <2>2, <2>4, LikeFacts
  <2> HIDE DEF outs
  <2>6. Like(Together(outs), Yes)
    BY <2>5, YesTogether
  <2>7. ValueNode(f, p, c, at, E) = Together(outs)
    BY <1>2, ValueNodeIs DEF outs
  <2> QED BY <2>6, <2>7
<1> QED BY <1>1, <1>2

\* A node with caveats is like one without, where the pairs below are.
LEMMA ValueNodeLike ==
  ASSUME NEW f, NEW g, NEW p \in Shape, NEW c \in Shape, Read(p), Read(c), NEW at \in Path, NEW E,
         YesBelow(f, shapeRank[p] + shapeRank[c]), LikeBelow(f, g, shapeRank[p] + shapeRank[c])
  PROVE  Like(ValueNode(f, p, c, at, E), ValueNode(g, p, c, at, {}))
<1>1. CASE SameAdmits(p, c)
  <2>1. Floor(p, c, at, {})
    BY <1>1 DEF Floor, FloorStands
  <2>2. ValueNode(g, p, c, at, {}) = Yes
    BY <2>1, ValueNodeIs
  <2> QED BY <1>1, <2>2, ValueNodeYes
<1>2. CASE ~SameAdmits(p, c)
  <2>1. ~Floor(p, c, at, E) /\ ~Floor(p, c, at, {})
    BY <1>2 DEF Floor
  <2>2. ASSUME NEW r \in Decompose(p).rest, NEW s \in Decompose(c).rest
        PROVE  Like(Operators(f, r, s, at, E), Operators(g, r, s, at, {}))
    <3>1. /\ shapeRank[r] + shapeRank[s] \in Nat /\ shapeRank[p] + shapeRank[c] \in Nat
          /\ shapeRank[r] + shapeRank[s] <= shapeRank[p] + shapeRank[c]
      BY RestFacts
    <3>2. YesBelow(f, shapeRank[r] + shapeRank[s]) /\ LikeBelow(f, g, shapeRank[r] + shapeRank[s])
      BY <3>1, SmallerYes, SmallerLike
    <3>3. r \in Shape /\ s \in Shape /\ Read(r) /\ Read(s) /\ Core(r)
      BY RestRead
    <3> QED BY <3>2, <3>3, OperatorsLike
  <2> DEFINE A == RestOuts(f, p, c, at, E)
             B == RestOuts(g, p, c, at, {})
             presence == PresenceOut(p, c, at)
  <2>3. ASSUME NEW a \in A PROVE \E b \in B : Like(a, b)
    <3>1. CASE Decompose(c).rest = {}
      <4>1. A = B
        BY <3>1 DEF RestOuts
      <4> QED BY <4>1, LikeFacts
    <3>2. CASE Decompose(c).rest # {}
      <4>1. PICK r \in Decompose(p).rest, s \in Decompose(c).rest : a = Operators(f, r, s, at, E)
        BY <2>3, <3>2 DEF RestOuts
      <4>2. Operators(g, r, s, at, {}) \in B
        BY <3>2 DEF RestOuts
      <4> QED BY <2>2, <4>1, <4>2
    <3> QED BY <3>1, <3>2
  <2>4. ASSUME NEW b \in B PROVE \E a \in A : Like(a, b)
    <3>1. CASE Decompose(c).rest = {}
      <4>1. A = B
        BY <3>1 DEF RestOuts
      <4> QED BY <4>1, LikeFacts
    <3>2. CASE Decompose(c).rest # {}
      <4>1. PICK r \in Decompose(p).rest, s \in Decompose(c).rest : b = Operators(g, r, s, at, {})
        BY <2>4, <3>2 DEF RestOuts
      <4>2. Operators(f, r, s, at, E) \in A
        BY <3>2 DEF RestOuts
      <4> QED BY <2>2, <4>1, <4>2
    <3> QED BY <3>1, <3>2
  <2>5. /\ ValueNode(f, p, c, at, E) = Together({presence} \cup A)
        /\ ValueNode(g, p, c, at, {}) = Together({presence} \cup B)
    BY <2>1, ValueNodeIs
  <2> HIDE DEF A, B, presence
  <2>6. Like(presence, presence)
    BY LikeFacts
  <2>7. Like(Together({presence} \cup A), Together({presence} \cup B))
    BY <2>3, <2>4, <2>6, LikeAdded
  <2> QED BY <2>5, <2>7
<1> QED BY <1>1, <1>2

\* The walk answers nodes that are the same with a plain yes.
LEMMA WalkYes ==
  ASSUME NEW E
  PROVE  \A n \in Nat : YesBelow(Walk(E), n)
<1> DEFINE Q == {n \in Nat : YesBelow(Walk(E), n)}
<1>1. ASSUME NEW n \in Nat, \A m \in Nat : m < n => m \in Q PROVE n \in Q
  <2> SUFFICES ASSUME NEW a \in Shape, NEW b \in Shape, NEW at \in Path,
                      shapeRank[a] + shapeRank[b] < n, Read(a), Read(b), SameAdmits(a, b)
               PROVE  Like(Walk(E)[<<a, b, at>>], Yes)
    BY DEF YesBelow
  <2>1. shapeRank[a] + shapeRank[b] \in Nat
    BY ShapeRankFacts
  <2>2. YesBelow(Walk(E), shapeRank[a] + shapeRank[b])
    BY <1>1, <2>1
  <2>3. ValueNode(Walk(E), a, b, at, E) \in Outcome
    BY WalkUnfolds, ValueNodeTyped
  <2>4. Walk(E)[<<a, b, at>>] = Caveat(ValueNode(Walk(E), a, b, at, E), at, E)
    BY WalkUnfolds DEF Node
  <2>5. Like(Walk(E)[<<a, b, at>>], ValueNode(Walk(E), a, b, at, E))
    BY <2>3, <2>4, CaveatLike
  <2>6. Like(ValueNode(Walk(E), a, b, at, E), Yes)
    BY <2>2, ValueNodeYes
  <2> QED BY <2>5, <2>6, LikeFacts
<1>2. Q = Nat
  <2> HIDE DEF Q
  <2>1. Q \in SUBSET Nat
    BY DEF Q
  <2> QED BY <1>1, <2>1, Induction
<1> QED BY <1>2

\* The walk with caveats is like the walk without.
LEMMA WalkLike ==
  ASSUME NEW E
  PROVE  \A n \in Nat : LikeBelow(Walk(E), Walk({}), n)
<1> DEFINE Q == {n \in Nat : LikeBelow(Walk(E), Walk({}), n)}
<1>1. ASSUME NEW n \in Nat, \A m \in Nat : m < n => m \in Q PROVE n \in Q
  <2> SUFFICES ASSUME NEW a \in Shape, NEW b \in Shape, NEW at \in Path,
                      shapeRank[a] + shapeRank[b] < n, Read(a), Read(b)
               PROVE  Like(Walk(E)[<<a, b, at>>], Walk({})[<<a, b, at>>])
    BY DEF LikeBelow
  <2>1. shapeRank[a] + shapeRank[b] \in Nat
    BY ShapeRankFacts
  <2>2. /\ LikeBelow(Walk(E), Walk({}), shapeRank[a] + shapeRank[b])
        /\ YesBelow(Walk(E), shapeRank[a] + shapeRank[b])
    BY <1>1, <2>1, WalkYes
  <2>3. /\ ValueNode(Walk(E), a, b, at, E) \in Outcome
        /\ ValueNode(Walk({}), a, b, at, {}) \in Outcome
    BY WalkUnfolds, ValueNodeTyped
  <2>4. /\ Walk(E)[<<a, b, at>>] = Caveat(ValueNode(Walk(E), a, b, at, E), at, E)
        /\ Walk({})[<<a, b, at>>] = Caveat(ValueNode(Walk({}), a, b, at, {}), at, {})
    BY WalkUnfolds DEF Node
  <2>5. /\ Like(Walk(E)[<<a, b, at>>], ValueNode(Walk(E), a, b, at, E))
        /\ Like(Walk({})[<<a, b, at>>], ValueNode(Walk({}), a, b, at, {}))
    BY <2>3, <2>4, CaveatLike
  <2>6. Like(ValueNode(Walk(E), a, b, at, E), ValueNode(Walk({}), a, b, at, {}))
    BY <2>2, ValueNodeLike
  <2> QED BY <2>5, <2>6, LikeFacts
<1>2. Q = Nat
  <2> HIDE DEF Q
  <2>1. Q \in SUBSET Nat
    BY DEF Q
  <2> QED BY <1>1, <2>1, Induction
<1> QED BY <1>2

\* Caveats leave what the walk answers of two shapes the parser reads.
LEMMA NodeLike ==
  ASSUME NEW p \in Shape, NEW c \in Shape, Read(p), Read(c), NEW at \in Path, NEW E
  PROVE  Like(Node(p, c, at, E), Node(p, c, at, {}))
<1> DEFINE n == shapeRank[p] + shapeRank[c]
<1>1. n \in Nat
  BY ShapeRankFacts
<1>2. n + 1 \in Nat /\ n < n + 1
  BY <1>1
<1>3. LikeBelow(Walk(E), Walk({}), n + 1)
  BY <1>2, WalkLike
<1> QED BY <1>2, <1>3 DEF LikeBelow, Node

=============================================================================
