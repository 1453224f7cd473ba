------------------------ MODULE ConsumerSessionProofs ------------------------
(***************************************************************************)
(* Proofs about ConsumerSession for every number of interactions,          *)
(* transports, variants and requests.                                      *)
(*                                                                         *)
(* The inductive invariant has five parts beside the types and the two     *)
(* properties it carries. Phases ties the dispatcher to the life of the    *)
(* session, Loops says what each exchange loop holds at each of its steps, *)
(* Passives says which interactions a transport serves, EvidenceHeld says  *)
(* where the record of every exchange is, and Quiet says that a variant    *)
(* whose report was answered is nowhere under way.                         *)
(***************************************************************************)
EXTENDS ConsumerSession, TLAPS

\* The dispatcher's position and the life of the session.
Phases ==
  /\ session = "open" => op \in {"idle", "settling"} /\ final = "none"
  /\ session = "ending" => /\ op \in {"stopping", "joining"}
                           /\ final \in {"finalise", "shutdown"}
                           /\ todo = Bound
  /\ session = "ended" => op = "idle" /\ Bound = {}
  /\ op = "settling" => reporting \in Key /\ todo \subseteq Bound
  /\ op = "joining" => \A t \in Transport : IsNext(t) => t \notin live

\* What transport t and its loop hold.
LoopOK(t) ==
  /\ t >= nextTransport => bound[t] = NoKind
  /\ t \in live => bound[t] # NoKind
  /\ bound[t] = NoKind => /\ loop[t] \in {"none", "ended"}
                          /\ \A k \in Key : outcomes[t][k] = "none"
  /\ session = "open" /\ bound[t] = NoKind => armed[t] = {}
  /\ inFlight[t] = IF loop[t] \in {"answering", "recording"}
                   THEN Keys(armings[t]) ELSE {}
  /\ IF loop[t] = "recording" THEN recording[t].key \in Keys(armings[t])
                              ELSE recording[t] = NoRecord

Loops == \A t \in Transport : LoopOK(t)

\* A key is served by a transport only if its interaction is passive.
Passives ==
  /\ \A h \in Handle : h >= nextHandle => spec[h] = NoSpec
  /\ \A k \in Key, t \in Transport :
       k \in Keys(armed[t]) \cup Keys(armings[t]) => spec[k[1]].mode = "passive"
  /\ \A k \in Key : "failed" \in wire[k] => spec[k[1]].mode = "passive"

\* Evidence of key k in the set S is held by the interaction, by a report
\* under way, by a transport, or by a loop about to record it.
Held(k, S) ==
  \/ exercised[k] \in S
  \/ op = "settling" /\ reporting = k /\ settled \in S
  \/ \E t \in Transport : outcomes[t][k] \in S
  \/ \E t \in Transport : recording[t].key = k /\ recording[t].outcome \in S

\* The failures, and the exchanges: what Merge keeps of the evidence it joins.
Kept == {{"failed"}, {"verified", "failed"}}

EvidenceHeld ==
  \A k \in Key : \A S \in Kept : (wire[k] \cap S # {}) <=> Held(k, S)

\* Nothing of key k is armed, under way or waiting on transport t.
Idle(t, k) ==
  /\ k \notin Keys(armed[t])
  /\ k \notin inFlight[t]
  /\ outcomes[t][k] = "none"

Quiet ==
  /\ \A k \in Key, t \in Transport : answered[k] # "none" => Idle(t, k)
  /\ op = "settling" /\ ~late =>
       \A t \in Transport : t \notin todo => Idle(t, reporting)

Inv ==
  /\ TypeOK
  /\ Phases
  /\ Loops
  /\ Passives
  /\ EvidenceHeld
  /\ Quiet
  /\ AnswerStands
  /\ HonestContract

-----------------------------------------------------------------------------
(* Types. *)

LEMMA MergeType ==
  ASSUME NEW a, NEW b
  PROVE  Merge(a, b) \in Evidence
BY DEF Merge, Evidence

LEMMA StatusType ==
  ASSUME NEW a, NEW b
  PROVE  StatusOf(a, b) \in Status
BY DEF StatusOf, Status

\* Arming and disarming keep the armings' type.
LEMMA ArmingTypes ==
  ASSUME NEW set \in SUBSET Arming
  PROVE  /\ \A gone \in SUBSET set : Without(set, gone) \in SUBSET Arming
         /\ \A h \in Handle, v \in Variant : Arm(set, h, v) \in SUBSET Arming
<1>1. ASSUME NEW gone \in SUBSET set
      PROVE  Without(set, gone) \in SUBSET Arming
  BY DEF Without, Arming
<1>2. ASSUME NEW h \in Handle, NEW v \in Variant
      PROVE  Arm(set, h, v) \in SUBSET Arming
  <2> DEFINE others == Without(set, {a \in set : a.handle = h})
  <2>1. others \in SUBSET Arming
    BY <1>1
  <2>2. {a.handle : a \in others} \in SUBSET Handle
    BY <2>1 DEF Arming
  <2> QED
    BY <2>1, <2>2 DEF Arm, Arming
<1> QED
  BY <1>1, <1>2

\* The keys of a set of armings, and what arming and disarming do to them.
LEMMA KeysOf ==
  ASSUME NEW set \in SUBSET Arming
  PROVE  /\ Keys(set) \subseteq Key
         /\ \A k : Keys(Without(set, {a \in set : KeyOf(a) = k}))
                     \subseteq Keys(set) \ {k}
         /\ \A h \in Handle, v \in Variant :
              Keys(Arm(set, h, v)) \subseteq Keys(set) \cup {<<h, v>>}
<1>1. Keys(set) \subseteq Key
  BY DEF Keys, KeyOf, Key, Arming
<1>2. \A a \in Arming : \A gone : KeyOf([a EXCEPT !.ahead = gone]) = KeyOf(a)
  BY DEF KeyOf, Arming
<1>3. ASSUME NEW gone \in SUBSET set, NEW b \in Without(set, gone)
      PROVE  \E a \in set : a \notin gone /\ KeyOf(b) = KeyOf(a)
  BY <1>2 DEF Without
<1>4. ASSUME NEW k
      PROVE  Keys(Without(set, {a \in set : KeyOf(a) = k})) \subseteq Keys(set) \ {k}
  <2> DEFINE gone == {a \in set : KeyOf(a) = k}
  <2>1. gone \in SUBSET set
    OBVIOUS
  <2>2. \A b \in Without(set, gone) : KeyOf(b) \in Keys(set) /\ KeyOf(b) # k
    BY <1>3, <2>1 DEF Keys
  <2> QED
    BY <2>2 DEF Keys
<1>5. ASSUME NEW h \in Handle, NEW v \in Variant
      PROVE  Keys(Arm(set, h, v)) \subseteq Keys(set) \cup {<<h, v>>}
  <2> DEFINE gone == {a \in set : a.handle = h}
             new == [handle |-> h, variant |-> v,
                     ahead |-> {a.handle : a \in Without(set, gone)}]
  <2>1. gone \in SUBSET set
    OBVIOUS
  <2>2. \A b \in Without(set, gone) : KeyOf(b) \in Keys(set)
    BY <1>3, <2>1 DEF Keys
  <2>3. KeyOf(new) = <<h, v>>
    BY DEF KeyOf
  <2>4. Arm(set, h, v) = Without(set, gone) \cup {new}
    BY DEF Arm
  <2> HIDE DEF gone, new
  <2> QED
    BY <2>2, <2>3, <2>4 DEF Keys
<1> QED
  BY <1>1, <1>4, <1>5

\* Merge keeps the failures and the exchanges of what it joins.
LEMMA MergeKeeps ==
  /\ \A a, b \in Evidence, S \in Kept : Merge(a, b) \in S <=> a \in S \/ b \in S
  /\ \A a \in Evidence : Merge(a, "none") = a
BY DEF Merge, Evidence, Kept

LEMMA TypeInit == Init => TypeOK
<1> SUFFICES ASSUME Init PROVE TypeOK
  OBVIOUS
<1>1. /\ verdictsRequired \in BOOLEAN
      /\ nextHandle \in 1..(MaxInteractions + 1)
      /\ nextTransport \in 1..(MaxTransports + 1)
  BY BoundsAssumption, HostAssumption DEF Init
<1>2. /\ outcomes \in [Transport -> [Key -> Evidence]]
      /\ exercised \in [Key -> Evidence]
      /\ reports \in [Key -> Verdict]
      /\ wire \in [Key -> SUBSET {"verified", "failed"}]
      /\ answered \in [Key -> Status \cup {"none"}]
  BY DEF Init, Evidence, Verdict
<1> QED
  BY <1>1, <1>2 DEF Init, TypeOK, Evidence, Verdict


\* Every step keeps the types.
LEMMA TypeNext == TypeOK /\ [Next]_vars => TypeOK'
<1> SUFFICES ASSUME TypeOK, [Next]_vars PROVE TypeOK'
  OBVIOUS
<1> USE DEF TypeOK, Dispatch, sessionVars, opVars, exchangeVars, loopVars, ghostVars
<1>1. ASSUME NEW s \in Specs, AddInteraction(s) PROVE TypeOK'
  BY <1>1, BoundsAssumption DEF AddInteraction, Handle
<1>2. ASSUME RefuseInteraction PROVE TypeOK'
  BY <1>2 DEF RefuseInteraction
<1>3. ASSUME NEW h \in Handle, NEW sel \in SUBSET Variant, Variants(h, sel) PROVE TypeOK'
  BY <1>3 DEF Variants
<1>4. ASSUME NEW kind \in Kind, NEW result \in {"started", "refused", "unspawned"},
             StartTransport(kind, result) PROVE TypeOK'
  <2>1. nextTransport' \in 1..(MaxTransports + 1)
    BY <1>4, BoundsAssumption DEF StartTransport, Transport
  <2>2. /\ live' \subseteq Transport
        /\ loop' \in [Transport -> {"none", "top", "polling", "arrived",
                                   "answering", "recording", "ended"}]
        /\ bound' \in [Transport -> Kind \cup {NoKind}]
    <3>1. CASE result = "started"
      <4>1. /\ nextTransport \in Transport
            /\ live' = live \cup {nextTransport}
            /\ loop' = [loop EXCEPT ![nextTransport] = "top"]
            /\ bound' = [bound EXCEPT ![nextTransport] = kind]
        BY <1>4, <3>1 DEF StartTransport
      <4> QED
        BY <4>1
    <3>2. CASE result # "started"
      BY <1>4, <3>2 DEF StartTransport
    <3> QED
      BY <3>1, <3>2
  <2> QED
    BY <1>4, <2>1, <2>2 DEF StartTransport
<1>5. ASSUME NEW h \in Handle, NEW v \in Variant, ServePassive(h, v) PROVE TypeOK'
  <2>1. armed' \in [Transport -> SUBSET Arming]
    BY <1>5, ArmingTypes DEF ServePassive
  <2> QED
    BY <1>5, <2>1 DEF ServePassive
<1>6. ASSUME NEW h \in Handle, NEW v \in Variant, ServeEmissive(h, v) PROVE TypeOK'
  BY <1>6 DEF ServeEmissive, Evidence, Key
<1>7. ASSUME NEW h \in Handle, NEW v \in Variant,
             NEW verd \in {"passed", "failed"}, ReportVariant(h, v, verd) PROVE TypeOK'
  BY <1>7 DEF ReportVariant, Bound, Key, Verdict, Evidence
<1>8. ASSUME NEW t \in Transport, SettleQuiet(t) PROVE TypeOK'
  <2>1. armed' \in [Transport -> SUBSET Arming]
    <3>1. {a \in armed[t] : KeyOf(a) = reporting} \in SUBSET armed[t]
      OBVIOUS
    <3> QED
      BY <1>8, <3>1, ArmingTypes DEF SettleQuiet, Settle
  <2>2. settled' \in Evidence /\ outcomes' \in [Transport -> [Key -> Evidence]]
    BY <1>8, MergeType DEF SettleQuiet, Settle, Evidence
  <2> QED
    BY <1>8, <2>1, <2>2 DEF SettleQuiet, Settle
<1>9. ASSUME NEW t \in Transport, SettleTimeout(t) PROVE TypeOK'
  <2>1. armed' \in [Transport -> SUBSET Arming]
    <3>1. {a \in armed[t] : KeyOf(a) = reporting} \in SUBSET armed[t]
      OBVIOUS
    <3> QED
      BY <1>9, <3>1, ArmingTypes DEF SettleTimeout, Settle
  <2>2. settled' \in Evidence /\ outcomes' \in [Transport -> [Key -> Evidence]]
    BY <1>9, MergeType DEF SettleTimeout, Settle, Evidence
  <2> QED
    BY <1>9, <2>1, <2>2 DEF SettleTimeout, Settle
<1>10. ASSUME ReportAnswer PROVE TypeOK'
  BY <1>10, MergeType, StatusType DEF ReportAnswer, Verdict, Evidence
<1>11. ASSUME NEW how \in {"finalise", "shutdown"}, EndSession(how) PROVE TypeOK'
  BY <1>11 DEF EndSession, Bound
<1>12. ASSUME NEW t \in Transport, StopTransport(t) PROVE TypeOK'
  BY <1>12 DEF StopTransport
<1>13. ASSUME NEW t \in Transport, JoinTransport(t) PROVE TypeOK'
  BY <1>13, MergeType DEF JoinTransport, Evidence
<1>14. ASSUME NEW write \in {"none", "writer", "no writer", "fails"}, FinaliseAnswer(write) PROVE TypeOK'
  BY <1>14 DEF FinaliseAnswer, Contract
<1>15. ASSUME ShutdownAnswer PROVE TypeOK'
  BY <1>15 DEF ShutdownAnswer
<1>16. ASSUME NEW t \in Transport, LoopTop(t) PROVE TypeOK'
  BY <1>16 DEF LoopTop
<1>17. ASSUME NEW t \in Transport, PollNothing(t) PROVE TypeOK'
  BY <1>17 DEF PollNothing
<1>18. ASSUME NEW t \in Transport, PollError(t) PROVE TypeOK'
  BY <1>18 DEF PollError
<1>19. ASSUME NEW t \in Transport, NEW r \in Request, PollArrival(t, r) PROVE TypeOK'
  BY <1>19 DEF PollArrival
<1>20. ASSUME NEW t \in Transport, TakeArmings(t) PROVE TypeOK'
  <2>1. Keys(armed[t]) \subseteq Key
    BY DEF Keys, KeyOf, Key, Arming
  <2>2. inFlight' \in [Transport -> SUBSET Key]
    BY <1>20, <2>1 DEF TakeArmings
  <2>3. /\ armings' \in [Transport -> SUBSET Arming]
        /\ request' \in [Transport -> Request \cup {NoRequest}]
        /\ loop' \in [Transport -> {"none", "top", "polling", "arrived",
                                   "answering", "recording", "ended"}]
    BY <1>20 DEF TakeArmings
  <2> QED
    BY <1>20, <2>2, <2>3 DEF TakeArmings
<1>21. ASSUME NEW t \in Transport, NEW delivered \in BOOLEAN, Answer(t, delivered) PROVE TypeOK'
  <2>1. PICK a \in armings[t], outcome \in {"verified", "failed"}, matched \in BOOLEAN :
          /\ recording' = [recording EXCEPT ![t] =
               [key |-> KeyOf(a), outcome |-> outcome, matched |-> matched]]
          /\ wire' = [wire EXCEPT ![KeyOf(a)] = @ \cup {outcome}]
    BY <1>21 DEF Answer, Best
  <2>2. KeyOf(a) \in Key
    BY DEF KeyOf, Key, Arming
  <2>3. [key |-> KeyOf(a), outcome |-> outcome, matched |-> matched]
          \in [key: Key, outcome: {"verified", "failed"}, matched: BOOLEAN]
    BY <2>2
  <2>4. /\ recording' \in [Transport ->
             [key: Key, outcome: {"verified", "failed"}, matched: BOOLEAN]
               \cup {NoRecord}]
        /\ wire' \in [Key -> SUBSET {"verified", "failed"}]
    BY <2>1, <2>2, <2>3
  <2> QED
    BY <1>21, <2>4 DEF Answer
<1>22. ASSUME NEW t \in Transport, Record(t) PROVE TypeOK'
  <2>1. outcomes' \in [Transport -> [Key -> Evidence]]
    BY <1>22, MergeType DEF Record
  <2> QED
    BY <1>22, <2>1 DEF Record
<1>23. ASSUME UNCHANGED vars PROVE TypeOK'
  BY <1>23 DEF vars
<1> HIDE DEF TypeOK
<1> QED
  BY <1>1, <1>2, <1>3, <1>4, <1>5, <1>6, <1>7, <1>8, <1>9, <1>10, <1>11,
     <1>12, <1>13, <1>14, <1>15, <1>16, <1>17, <1>18, <1>19, <1>20, <1>21,
     <1>22, <1>23 DEF Next, Host, Dispatcher, Loop, Ended

-----------------------------------------------------------------------------
(* The invariant. *)

\* The dispatcher moves as Phases says.
LEMMA PhasesNext == Inv /\ [Next]_vars => Phases'
<1> SUFFICES ASSUME Inv, [Next]_vars PROVE Phases'
  OBVIOUS
<1>a. TypeOK'
  BY TypeNext DEF Inv
<1> USE DEF Inv, Phases, TypeOK, Dispatch, sessionVars, opVars, exchangeVars, loopVars, ghostVars
<1>1. ASSUME NEW s \in Specs, AddInteraction(s) PROVE Phases'
  BY <1>1 DEF AddInteraction, Bound, IsNext
<1>2. ASSUME RefuseInteraction PROVE Phases'
  BY <1>2 DEF RefuseInteraction, Bound, IsNext
<1>3. ASSUME NEW h \in Handle, NEW sel \in SUBSET Variant, Variants(h, sel) PROVE Phases'
  BY <1>3 DEF Variants, Bound, IsNext
<1>4. ASSUME NEW kind \in Kind, NEW result \in {"started", "refused", "unspawned"},
             StartTransport(kind, result) PROVE Phases'
  BY <1>4 DEF StartTransport, Bound
<1>5. ASSUME NEW h \in Handle, NEW v \in Variant, ServePassive(h, v) PROVE Phases'
  BY <1>5 DEF ServePassive, Bound, IsNext
<1>6. ASSUME NEW h \in Handle, NEW v \in Variant, ServeEmissive(h, v) PROVE Phases'
  BY <1>6 DEF ServeEmissive, Bound, IsNext
<1>7. ASSUME NEW h \in Handle, NEW v \in Variant,
             NEW verd \in {"passed", "failed"}, ReportVariant(h, v, verd) PROVE Phases'
  BY <1>7 DEF ReportVariant, Bound, Key
<1>8. ASSUME NEW t \in Transport, SettleQuiet(t) PROVE Phases'
  BY <1>8 DEF SettleQuiet, Settle, Bound
<1>9. ASSUME NEW t \in Transport, SettleTimeout(t) PROVE Phases'
  BY <1>9 DEF SettleTimeout, Settle, Bound
<1>10. ASSUME ReportAnswer PROVE Phases'
  BY <1>10 DEF ReportAnswer, Bound, IsNext
<1>11. ASSUME NEW how \in {"finalise", "shutdown"}, EndSession(how) PROVE Phases'
  BY <1>11 DEF EndSession, Bound, IsNext
<1>12. ASSUME NEW t \in Transport, StopTransport(t) PROVE Phases'
  <2>1. \A u \in Transport : IsNext(u)' => u = t
    BY <1>12, BoundsAssumption DEF StopTransport, IsNext, Transport
  <2> QED
    BY <1>12, <2>1 DEF StopTransport, Bound
<1>13. ASSUME NEW t \in Transport, JoinTransport(t) PROVE Phases'
  <2>1. Bound' = Bound \ {t}
    BY <1>13, KindAssumption DEF JoinTransport, Bound
  <2> QED
    BY <1>13, <2>1 DEF JoinTransport
<1>14. ASSUME NEW write \in {"none", "writer", "no writer", "fails"},
             FinaliseAnswer(write) PROVE Phases'
  BY <1>14 DEF FinaliseAnswer, Bound
<1>15. ASSUME ShutdownAnswer PROVE Phases'
  BY <1>15 DEF ShutdownAnswer, Bound
<1>16. ASSUME NEW t \in Transport, LoopTop(t) PROVE Phases'
  BY <1>16 DEF LoopTop, Bound, IsNext
<1>17. ASSUME NEW t \in Transport, PollNothing(t) PROVE Phases'
  BY <1>17 DEF PollNothing, Bound, IsNext
<1>18. ASSUME NEW t \in Transport, PollError(t) PROVE Phases'
  BY <1>18 DEF PollError, Bound, IsNext
<1>19. ASSUME NEW t \in Transport, NEW r \in Request, PollArrival(t, r) PROVE Phases'
  BY <1>19 DEF PollArrival, Bound, IsNext
<1>20. ASSUME NEW t \in Transport, TakeArmings(t) PROVE Phases'
  BY <1>20 DEF TakeArmings, Bound, IsNext
<1>21. ASSUME NEW t \in Transport, NEW delivered \in BOOLEAN, Answer(t, delivered) PROVE Phases'
  BY <1>21 DEF Answer, Bound, IsNext
<1>22. ASSUME NEW t \in Transport, Record(t) PROVE Phases'
  BY <1>22 DEF Record, Bound, IsNext
<1>23. ASSUME UNCHANGED vars PROVE Phases'
  BY <1>23 DEF vars, Bound, IsNext
<1> HIDE DEF Inv, Phases, TypeOK, Dispatch, sessionVars, opVars, exchangeVars, loopVars, ghostVars
<1> QED
  BY <1>1, <1>2, <1>3, <1>4, <1>5, <1>6, <1>7, <1>8, <1>9, <1>10, <1>11,
     <1>12, <1>13, <1>14, <1>15, <1>16, <1>17, <1>18, <1>19, <1>20, <1>21, <1>22,
     <1>23
     DEF Next, Host, Dispatcher, Loop, Ended

\* Every loop holds what Loops says of its position.
LEMMA LoopsNext == Inv /\ [Next]_vars => Loops'
<1> SUFFICES ASSUME Inv, [Next]_vars PROVE Loops'
  OBVIOUS
<1>a. TypeOK'
  BY TypeNext DEF Inv
<1> USE DEF Inv, Phases, Loops, LoopOK, TypeOK, Dispatch, sessionVars, opVars, exchangeVars, loopVars, ghostVars
<1>1. ASSUME NEW s \in Specs, AddInteraction(s) PROVE Loops'
  BY <1>1 DEF AddInteraction
<1>2. ASSUME RefuseInteraction PROVE Loops'
  BY <1>2 DEF RefuseInteraction
<1>3. ASSUME NEW h \in Handle, NEW sel \in SUBSET Variant, Variants(h, sel) PROVE Loops'
  BY <1>3 DEF Variants
<1>4. ASSUME NEW kind \in Kind, NEW result \in {"started", "refused", "unspawned"},
             StartTransport(kind, result) PROVE Loops'
  <2>1. CASE result = "started"
    <3>1. /\ nextTransport \in Transport
          /\ live' = live \cup {nextTransport}
          /\ loop' = [loop EXCEPT ![nextTransport] = "top"]
          /\ bound' = [bound EXCEPT ![nextTransport] = kind]
          /\ UNCHANGED <<session, armed, inFlight, outcomes, armings, recording>>
      BY <1>4, <2>1 DEF StartTransport
    <3>2. kind # NoKind
      BY KindAssumption
    <3>3. nextTransport \in Nat /\ nextTransport' = nextTransport + 1
      BY <1>4, BoundsAssumption DEF StartTransport
    <3>4. \A t \in Transport : t >= nextTransport' => t # nextTransport /\ t >= nextTransport
      BY <3>3, BoundsAssumption DEF Transport
    <3>5. bound[nextTransport] = NoKind
      BY <3>1, <3>3
    <3>6. loop[nextTransport] \in {"none", "ended"}
      BY <3>1, <3>5
    <3> QED
      BY <3>1, <3>2, <3>4, <3>6
  <2>2. CASE result # "started"
    <3>1. \A t \in Transport : t >= nextTransport' => t >= nextTransport
      BY <1>4, BoundsAssumption DEF StartTransport, Transport
    <3>2. UNCHANGED <<session, bound, live, loop, armed, inFlight, outcomes,
                      armings, recording>>
      BY <1>4, <2>2 DEF StartTransport
    <3> QED
      BY <3>1, <3>2
  <2> QED
    BY <2>1, <2>2
<1>5. ASSUME NEW h \in Handle, NEW v \in Variant, ServePassive(h, v) PROVE Loops'
  <2>1. spec[h].kind # NoKind
    BY <1>5, SpecsAssumption, KindAssumption DEF ServePassive, InteractionSpec, NoSpec
  <2>2. \A t \in Transport : bound[t] = NoKind => armed'[t] = armed[t]
    BY <1>5, <2>1 DEF ServePassive
  <2> QED
    BY <1>5, <2>2 DEF ServePassive
<1>6. ASSUME NEW h \in Handle, NEW v \in Variant, ServeEmissive(h, v) PROVE Loops'
  BY <1>6 DEF ServeEmissive
<1>7. ASSUME NEW h \in Handle, NEW v \in Variant,
             NEW verd \in {"passed", "failed"}, ReportVariant(h, v, verd) PROVE Loops'
  BY <1>7 DEF ReportVariant
<1>8. ASSUME NEW t \in Transport, SettleQuiet(t) PROVE Loops'
  <2>1. \A u \in Transport : /\ u # t => armed'[u] = armed[u] /\ outcomes'[u] = outcomes[u]
                                  /\ \A k \in Key : outcomes[u][k] = "none" => outcomes'[u][k] = "none"
    BY <1>8 DEF SettleQuiet, Settle
  <2>2. bound[t] # NoKind
    BY <1>8 DEF SettleQuiet, Settle, IsNext, Bound
  <2> QED
    BY <1>8, <2>1, <2>2 DEF SettleQuiet, Settle
<1>9. ASSUME NEW t \in Transport, SettleTimeout(t) PROVE Loops'
  <2>1. \A u \in Transport : /\ u # t => armed'[u] = armed[u] /\ outcomes'[u] = outcomes[u]
                                  /\ \A k \in Key : outcomes[u][k] = "none" => outcomes'[u][k] = "none"
    BY <1>9 DEF SettleTimeout, Settle
  <2>2. bound[t] # NoKind
    BY <1>9 DEF SettleTimeout, Settle, IsNext, Bound
  <2> QED
    BY <1>9, <2>1, <2>2 DEF SettleTimeout, Settle
<1>10. ASSUME ReportAnswer PROVE Loops'
  BY <1>10 DEF ReportAnswer
<1>11. ASSUME NEW how \in {"finalise", "shutdown"}, EndSession(how) PROVE Loops'
  BY <1>11 DEF EndSession
<1>12. ASSUME NEW t \in Transport, StopTransport(t) PROVE Loops'
  BY <1>12 DEF StopTransport
<1>13. ASSUME NEW t \in Transport, JoinTransport(t) PROVE Loops'
  <2>1. t \notin live
    BY <1>13 DEF JoinTransport
  <2>2. \A k \in Key : outcomes'[t][k] = "none"
    BY <1>13 DEF JoinTransport
  <2>3. \A u \in Transport : u # t => outcomes'[u] = outcomes[u] /\ bound'[u] = bound[u]
    BY <1>13 DEF JoinTransport
  <2>4. bound'[t] = NoKind
    BY <1>13 DEF JoinTransport
  <2>5. session = "ending"
    BY <1>13 DEF JoinTransport
  <2> QED
    BY <1>13, <2>1, <2>2, <2>3, <2>4, <2>5 DEF JoinTransport
<1>14. ASSUME NEW write \in {"none", "writer", "no writer", "fails"},
             FinaliseAnswer(write) PROVE Loops'
  BY <1>14 DEF FinaliseAnswer
<1>15. ASSUME ShutdownAnswer PROVE Loops'
  BY <1>15 DEF ShutdownAnswer
<1>16. ASSUME NEW t \in Transport, LoopTop(t) PROVE Loops'
  BY <1>16 DEF LoopTop
<1>17. ASSUME NEW t \in Transport, PollNothing(t) PROVE Loops'
  BY <1>17 DEF PollNothing
<1>18. ASSUME NEW t \in Transport, PollError(t) PROVE Loops'
  BY <1>18 DEF PollError
<1>19. ASSUME NEW t \in Transport, NEW r \in Request, PollArrival(t, r) PROVE Loops'
  BY <1>19 DEF PollArrival
<1>20. ASSUME NEW t \in Transport, TakeArmings(t) PROVE Loops'
  <2>1. bound[t] # NoKind /\ recording[t] = NoRecord
    BY <1>20 DEF TakeArmings
  <2>2. CASE armed[t] = {}
    <3>1. inFlight'[t] = {}
      BY <1>20, <2>2 DEF TakeArmings, Keys
    <3>2. /\ loop'[t] = "top"
          /\ \A u \in Transport : u # t => /\ loop'[u] = loop[u]
                                           /\ inFlight'[u] = inFlight[u]
                                           /\ armings'[u] = armings[u]
          /\ UNCHANGED <<nextTransport, session, bound, live, armed, outcomes,
                          recording>>
      BY <1>20, <2>2 DEF TakeArmings
    <3>8. LoopOK(t)'
      BY <2>1, <3>1, <3>2
    <3>9. ASSUME NEW u \in Transport, u # t PROVE LoopOK(u)'
      <4>1. LoopOK(u)
        OBVIOUS
      <4>2. /\ loop'[u] = loop[u] /\ inFlight'[u] = inFlight[u]
            /\ armings'[u] = armings[u]
            /\ outcomes'[u] = outcomes[u] /\ recording'[u] = recording[u]
            /\ UNCHANGED <<nextTransport, session, bound, live, armed>>
        BY <2>1, <3>1, <3>2, <3>9
      <4> HIDE DEF Inv, Phases, Loops, TypeOK
      <4> QED
        BY <4>1, <4>2
    <3> QED
      BY <3>8, <3>9
  <2>3. CASE armed[t] # {}
    <3>1. /\ loop'[t] = "answering"
          /\ inFlight'[t] = Keys(armings'[t])
          /\ \A u \in Transport : u # t => /\ loop'[u] = loop[u]
                                           /\ inFlight'[u] = inFlight[u]
                                           /\ armings'[u] = armings[u]
          /\ UNCHANGED <<nextTransport, session, bound, live, armed, outcomes,
                          recording>>
      BY <1>20, <2>3 DEF TakeArmings
    <3>8. LoopOK(t)'
      BY <2>1, <3>1
    <3>9. ASSUME NEW u \in Transport, u # t PROVE LoopOK(u)'
      <4>1. LoopOK(u)
        OBVIOUS
      <4>2. /\ loop'[u] = loop[u] /\ inFlight'[u] = inFlight[u]
            /\ armings'[u] = armings[u]
            /\ outcomes'[u] = outcomes[u] /\ recording'[u] = recording[u]
            /\ UNCHANGED <<nextTransport, session, bound, live, armed>>
        BY <2>1, <3>1, <3>9
      <4> HIDE DEF Inv, Phases, Loops, TypeOK
      <4> QED
        BY <4>1, <4>2
    <3> QED
      BY <3>8, <3>9
  <2> QED
    BY <2>2, <2>3
<1>21. ASSUME NEW t \in Transport, NEW delivered \in BOOLEAN, Answer(t, delivered) PROVE Loops'
  <2>1. bound[t] # NoKind
    BY <1>21 DEF Answer
  <2>2. PICK a \in armings[t], outcome \in {"verified", "failed"}, matched \in BOOLEAN :
          recording' = [recording EXCEPT ![t] =
            [key |-> KeyOf(a), outcome |-> outcome, matched |-> matched]]
    BY <1>21 DEF Answer, Best
  <2>3. recording'[t].key = KeyOf(a) /\ \A u \in Transport : u # t => recording'[u] = recording[u]
    BY <2>2
  <2>4. recording'[t].key \in Keys(armings[t])
    BY <2>3 DEF Keys
  <2> QED
    BY <1>21, <2>1, <2>3, <2>4 DEF Answer
<1>22. ASSUME NEW t \in Transport, Record(t) PROVE Loops'
  <2>1. bound[t] # NoKind
    BY <1>22 DEF Record
  <2>2. \A u \in Transport : u # t => outcomes'[u] = outcomes[u]
    BY <1>22 DEF Record
  <2> QED
    <3>1. /\ loop'[t] = "top" /\ inFlight'[t] = {} /\ recording'[t] = NoRecord
          /\ \A u \in Transport : u # t => /\ loop'[u] = loop[u]
                                           /\ inFlight'[u] = inFlight[u]
                                           /\ armings'[u] = armings[u]
                                           /\ recording'[u] = recording[u]
          /\ UNCHANGED <<nextTransport, session, bound, live, armed>>
      BY <1>22 DEF Record
    <3>8. LoopOK(t)'
      BY <2>1, <2>2, <3>1
    <3>9. ASSUME NEW u \in Transport, u # t PROVE LoopOK(u)'
      <4>1. LoopOK(u)
        OBVIOUS
      <4>2. /\ loop'[u] = loop[u] /\ inFlight'[u] = inFlight[u]
            /\ armings'[u] = armings[u]
            /\ outcomes'[u] = outcomes[u] /\ recording'[u] = recording[u]
            /\ UNCHANGED <<nextTransport, session, bound, live, armed>>
        BY <2>1, <2>2, <3>1, <3>9
      <4> HIDE DEF Inv, Phases, Loops, TypeOK
      <4> QED
        BY <4>1, <4>2
    <3> QED
      BY <3>8, <3>9
<1>23. ASSUME UNCHANGED vars PROVE Loops'
  BY <1>23 DEF vars
<1> HIDE DEF Inv, Phases, Loops, LoopOK, TypeOK, Dispatch, sessionVars, opVars, exchangeVars, loopVars, ghostVars
<1> QED
  BY <1>1, <1>2, <1>3, <1>4, <1>5, <1>6, <1>7, <1>8, <1>9, <1>10, <1>11,
     <1>12, <1>13, <1>14, <1>15, <1>16, <1>17, <1>18, <1>19, <1>20, <1>21, <1>22,
     <1>23
     DEF Next, Host, Dispatcher, Loop, Ended

\* Only passive interactions are served by a transport.
LEMMA PassivesNext == Inv /\ [Next]_vars => Passives'
<1> SUFFICES ASSUME Inv, [Next]_vars PROVE Passives'
  OBVIOUS
<1>a. TypeOK'
  BY TypeNext DEF Inv
<1> USE DEF Inv, Passives, TypeOK, Dispatch, sessionVars, opVars, exchangeVars, loopVars, ghostVars
<1>1. ASSUME NEW s \in Specs, AddInteraction(s) PROVE Passives'
  <2>1. \A h \in Handle : h # nextHandle => spec'[h] = spec[h]
    BY <1>1 DEF AddInteraction
  <2>2. spec[nextHandle].mode = "none"
    BY <1>1, BoundsAssumption DEF AddInteraction, NoSpec, Handle
  <2>3. \A k \in Key : spec[k[1]].mode = "passive" => spec'[k[1]].mode = "passive"
    BY <2>1, <2>2 DEF Key
  <2>4. \A h \in Handle : h >= nextHandle' => spec'[h] = NoSpec
    BY <1>1, <2>1, BoundsAssumption DEF AddInteraction, Handle
  <2>5. UNCHANGED <<armed, armings, wire>>
    BY <1>1 DEF AddInteraction
  <2> QED
    BY <2>3, <2>4, <2>5
<1>2. ASSUME RefuseInteraction PROVE Passives'
  <2>1. UNCHANGED <<nextHandle, spec, armed, armings, wire>>
    BY <1>2 DEF RefuseInteraction
  <2> QED
    BY <2>1
<1>3. ASSUME NEW h \in Handle, NEW sel \in SUBSET Variant, Variants(h, sel) PROVE Passives'
  <2>1. UNCHANGED <<nextHandle, spec, armed, armings, wire>>
    BY <1>3 DEF Variants
  <2> QED
    BY <2>1
<1>4. ASSUME NEW kind \in Kind, NEW result \in {"started", "refused", "unspawned"},
             StartTransport(kind, result) PROVE Passives'
  <2>1. UNCHANGED <<nextHandle, spec, armed, armings, wire>>
    BY <1>4 DEF StartTransport
  <2> QED
    BY <2>1
<1>5. ASSUME NEW h \in Handle, NEW v \in Variant, ServePassive(h, v) PROVE Passives'
  <2>1. \A t \in Transport : Keys(armed'[t]) \subseteq Keys(armed[t]) \cup {<<h, v>>}
    BY <1>5, KeysOf DEF ServePassive
  <2>2. UNCHANGED <<nextHandle, spec, armings, wire>> /\ spec[h].mode = "passive"
    BY <1>5 DEF ServePassive
  <2> QED
    BY <2>1, <2>2
<1>6. ASSUME NEW h \in Handle, NEW v \in Variant, ServeEmissive(h, v) PROVE Passives'
  <2>1. UNCHANGED <<nextHandle, spec, armed, armings>>
    BY <1>6 DEF ServeEmissive
  <2>2. \A k \in Key : "failed" \in wire'[k] => "failed" \in wire[k]
    BY <1>6 DEF ServeEmissive
  <2> QED
    BY <2>1, <2>2
<1>7. ASSUME NEW h \in Handle, NEW v \in Variant,
             NEW verd \in {"passed", "failed"}, ReportVariant(h, v, verd) PROVE Passives'
  <2>1. UNCHANGED <<nextHandle, spec, armed, armings, wire>>
    BY <1>7 DEF ReportVariant
  <2> QED
    BY <2>1
<1>8. ASSUME NEW t \in Transport, SettleQuiet(t) PROVE Passives'
  <2>1. \A u \in Transport : Keys(armed'[u]) \subseteq Keys(armed[u])
    <3>1. armed'[t] = Without(armed[t], {a \in armed[t] : KeyOf(a) = reporting})
      BY <1>8 DEF SettleQuiet, Settle
    <3>2. Keys(armed'[t]) \subseteq Keys(armed[t])
      BY <3>1, KeysOf
    <3>3. \A u \in Transport : u # t => armed'[u] = armed[u]
      BY <1>8 DEF SettleQuiet, Settle
    <3> QED
      BY <3>2, <3>3
  <2>2. UNCHANGED <<nextHandle, spec, armings, wire>>
    BY <1>8 DEF SettleQuiet, Settle
  <2> QED
    BY <2>1, <2>2
<1>9. ASSUME NEW t \in Transport, SettleTimeout(t) PROVE Passives'
  <2>1. \A u \in Transport : Keys(armed'[u]) \subseteq Keys(armed[u])
    <3>1. armed'[t] = Without(armed[t], {a \in armed[t] : KeyOf(a) = reporting})
      BY <1>9 DEF SettleTimeout, Settle
    <3>2. Keys(armed'[t]) \subseteq Keys(armed[t])
      BY <3>1, KeysOf
    <3>3. \A u \in Transport : u # t => armed'[u] = armed[u]
      BY <1>9 DEF SettleTimeout, Settle
    <3> QED
      BY <3>2, <3>3
  <2>2. UNCHANGED <<nextHandle, spec, armings, wire>>
    BY <1>9 DEF SettleTimeout, Settle
  <2> QED
    BY <2>1, <2>2
<1>10. ASSUME ReportAnswer PROVE Passives'
  <2>1. UNCHANGED <<nextHandle, spec, armed, armings, wire>>
    BY <1>10 DEF ReportAnswer
  <2> QED
    BY <2>1
<1>11. ASSUME NEW how \in {"finalise", "shutdown"}, EndSession(how) PROVE Passives'
  <2>1. UNCHANGED <<nextHandle, spec, armed, armings, wire>>
    BY <1>11 DEF EndSession
  <2> QED
    BY <2>1
<1>12. ASSUME NEW t \in Transport, StopTransport(t) PROVE Passives'
  <2>1. UNCHANGED <<nextHandle, spec, armed, armings, wire>>
    BY <1>12 DEF StopTransport
  <2> QED
    BY <2>1
<1>13. ASSUME NEW t \in Transport, JoinTransport(t) PROVE Passives'
  <2>1. UNCHANGED <<nextHandle, spec, armed, armings, wire>>
    BY <1>13 DEF JoinTransport
  <2> QED
    BY <2>1
<1>14. ASSUME NEW write \in {"none", "writer", "no writer", "fails"},
             FinaliseAnswer(write) PROVE Passives'
  <2>1. UNCHANGED <<nextHandle, spec, armed, armings, wire>>
    BY <1>14 DEF FinaliseAnswer
  <2> QED
    BY <2>1
<1>15. ASSUME ShutdownAnswer PROVE Passives'
  <2>1. UNCHANGED <<nextHandle, spec, armed, armings, wire>>
    BY <1>15 DEF ShutdownAnswer
  <2> QED
    BY <2>1
<1>16. ASSUME NEW t \in Transport, LoopTop(t) PROVE Passives'
  <2>1. UNCHANGED <<nextHandle, spec, armed, armings, wire>>
    BY <1>16 DEF LoopTop
  <2> QED
    BY <2>1
<1>17. ASSUME NEW t \in Transport, PollNothing(t) PROVE Passives'
  <2>1. UNCHANGED <<nextHandle, spec, armed, armings, wire>>
    BY <1>17 DEF PollNothing
  <2> QED
    BY <2>1
<1>18. ASSUME NEW t \in Transport, PollError(t) PROVE Passives'
  <2>1. UNCHANGED <<nextHandle, spec, armed, armings, wire>>
    BY <1>18 DEF PollError
  <2> QED
    BY <2>1
<1>19. ASSUME NEW t \in Transport, NEW r \in Request, PollArrival(t, r) PROVE Passives'
  <2>1. UNCHANGED <<nextHandle, spec, armed, armings, wire>>
    BY <1>19 DEF PollArrival
  <2> QED
    BY <2>1
<1>20. ASSUME NEW t \in Transport, TakeArmings(t) PROVE Passives'
  <2>1. UNCHANGED <<nextHandle, spec, armed, wire>>
    BY <1>20 DEF TakeArmings
  <2>2. \A u \in Transport : armings'[u] \in {armed[u], armings[u]}
    BY <1>20 DEF TakeArmings
  <2> QED
    BY <2>1, <2>2
<1>21. ASSUME NEW t \in Transport, NEW delivered \in BOOLEAN, Answer(t, delivered) PROVE Passives'
  <2>1. UNCHANGED <<nextHandle, spec, armed, armings>>
    BY <1>21 DEF Answer
  <2>2. PICK a \in armings[t], outcome \in {"verified", "failed"} :
          wire' = [wire EXCEPT ![KeyOf(a)] = @ \cup {outcome}]
    BY <1>21 DEF Answer, Best
  <2>3. KeyOf(a) \in Keys(armings[t])
    BY DEF Keys
  <2> QED
    BY <2>1, <2>2, <2>3
<1>22. ASSUME NEW t \in Transport, Record(t) PROVE Passives'
  <2>1. UNCHANGED <<nextHandle, spec, armed, wire>>
    BY <1>22 DEF Record
  <2>2. \A u \in Transport : Keys(armings'[u]) \subseteq Keys(armings[u])
    BY <1>22 DEF Record, Keys
  <2> QED
    BY <2>1, <2>2
<1>23. ASSUME UNCHANGED vars PROVE Passives'
  BY <1>23 DEF vars
<1> HIDE DEF Inv, Passives, TypeOK, Dispatch, sessionVars, opVars, exchangeVars, loopVars, ghostVars
<1> QED
  BY <1>1, <1>2, <1>3, <1>4, <1>5, <1>6, <1>7, <1>8, <1>9, <1>10, <1>11,
     <1>12, <1>13, <1>14, <1>15, <1>16, <1>17, <1>18, <1>19, <1>20, <1>21, <1>22,
     <1>23
     DEF Next, Host, Dispatcher, Loop, Ended

\* Settling moves evidence from a transport to the report under way.
LEMMA SettleEvidence ==
  ASSUME TypeOK, Phases, EvidenceHeld, NEW t \in Transport, Settle(t)
  PROVE  EvidenceHeld'
<1> USE DEF Settle, sessionVars, loopVars, ghostVars
<1>1. /\ reporting \in Key /\ op = "settling"
      /\ UNCHANGED <<op, reporting, exercised, recording, wire>>
      /\ settled' = Merge(settled, outcomes[t][reporting])
  BY DEF Phases
<1>2. /\ outcomes[t][reporting] \in Evidence /\ settled \in Evidence
      /\ outcomes'[t][reporting] = "none"
      /\ \A u \in Transport, k \in Key :
           u # t \/ k # reporting => outcomes'[u][k] = outcomes[u][k]
  BY <1>1 DEF TypeOK
<1> SUFFICES ASSUME NEW k \in Key, NEW S \in Kept
             PROVE  Held(k, S)' <=> Held(k, S)
  BY <1>1 DEF EvidenceHeld
<1>3. CASE k # reporting
  BY <1>1, <1>2, <1>3 DEF Held
<1>4. CASE k = reporting
  <2>1. settled' \in S <=> settled \in S \/ outcomes[t][k] \in S
    BY <1>1, <1>2, <1>4, MergeKeeps
  <2>2. outcomes'[t][k] \notin S
    BY <1>2, <1>4 DEF Kept
  <2> QED
    BY <1>1, <1>2, <1>4, <2>1, <2>2 DEF Held
<1> QED
  BY <1>3, <1>4

\* No step loses or invents evidence.
LEMMA EvidenceNext == Inv /\ [Next]_vars => EvidenceHeld'
<1> SUFFICES ASSUME Inv, [Next]_vars PROVE EvidenceHeld'
  OBVIOUS
<1>a. TypeOK'
  BY TypeNext DEF Inv
<1>b. TypeOK /\ Phases /\ Loops /\ Passives /\ EvidenceHeld
  BY DEF Inv
<1> USE DEF Dispatch, sessionVars, opVars, exchangeVars, loopVars, ghostVars
<1>1. ASSUME NEW s \in Specs, AddInteraction(s) PROVE EvidenceHeld'
  <2>1. UNCHANGED <<exercised, outcomes, recording, wire>>
    BY <1>1 DEF AddInteraction
  <2>2. op # "settling" /\ op' # "settling"
    BY <1>1 DEF AddInteraction
  <2> QED
    BY <1>b, <2>1, <2>2 DEF EvidenceHeld, Held
<1>2. ASSUME RefuseInteraction PROVE EvidenceHeld'
  <2>1. UNCHANGED <<exercised, outcomes, recording, wire>>
    BY <1>2 DEF RefuseInteraction
  <2>2. op # "settling" /\ op' # "settling"
    BY <1>2 DEF RefuseInteraction
  <2> QED
    BY <1>b, <2>1, <2>2 DEF EvidenceHeld, Held
<1>3. ASSUME NEW h \in Handle, NEW sel \in SUBSET Variant, Variants(h, sel) PROVE EvidenceHeld'
  <2>1. UNCHANGED <<exercised, outcomes, recording, wire>>
    BY <1>3 DEF Variants
  <2>2. op # "settling" /\ op' # "settling"
    BY <1>3 DEF Variants
  <2> QED
    BY <1>b, <2>1, <2>2 DEF EvidenceHeld, Held
<1>4. ASSUME NEW kind \in Kind, NEW result \in {"started", "refused", "unspawned"},
             StartTransport(kind, result) PROVE EvidenceHeld'
  <2>1. UNCHANGED <<exercised, outcomes, recording, wire>>
    BY <1>4 DEF StartTransport
  <2>2. op # "settling" /\ op' # "settling"
    BY <1>4 DEF StartTransport
  <2> QED
    BY <1>b, <2>1, <2>2 DEF EvidenceHeld, Held
<1>5. ASSUME NEW h \in Handle, NEW v \in Variant, ServePassive(h, v) PROVE EvidenceHeld'
  <2>1. UNCHANGED <<exercised, outcomes, recording, wire>>
    BY <1>5 DEF ServePassive
  <2>2. op # "settling" /\ op' # "settling"
    BY <1>5 DEF ServePassive
  <2> QED
    BY <1>b, <2>1, <2>2 DEF EvidenceHeld, Held
<1>6. ASSUME NEW h \in Handle, NEW v \in Variant, ServeEmissive(h, v) PROVE EvidenceHeld'
  <2>1. /\ UNCHANGED <<outcomes, recording, op>> /\ op = "idle"
        /\ exercised' = [exercised EXCEPT ![<<h, v>>] = "verified"]
        /\ wire' = [wire EXCEPT ![<<h, v>>] = @ \cup {"verified"}]
        /\ <<h, v>> \in Key
    BY <1>6 DEF ServeEmissive, Key
  <2>2. "failed" \notin wire[<<h, v>>]
    BY <1>b, <1>6 DEF ServeEmissive, Passives, Key
  <2> SUFFICES ASSUME NEW k \in Key, NEW S \in Kept
               PROVE  (wire[k] \cap S # {})' <=> Held(k, S)'
    BY DEF EvidenceHeld
  <2>3. (wire[k] \cap S # {}) <=> Held(k, S)
    BY <1>b DEF EvidenceHeld
  <2>4. exercised \in [Key -> Evidence] /\ wire \in [Key -> SUBSET {"verified", "failed"}]
    BY <1>b DEF TypeOK
  <2>5. CASE k # <<h, v>>
    BY <2>1, <2>3, <2>4, <2>5 DEF Held
  <2>6. CASE k = <<h, v>> /\ S = {"failed"}
    <3>1. ~Held(k, S)
      BY <2>2, <2>3, <2>6
    <3>2. exercised'[k] = "verified" /\ wire'[k] = wire[k] \cup {"verified"}
      BY <2>1, <2>4, <2>6
    <3> QED
      BY <2>1, <2>2, <2>6, <3>1, <3>2 DEF Held
  <2>7. CASE k = <<h, v>> /\ S = {"verified", "failed"}
    <3>2. exercised'[k] = "verified" /\ wire'[k] = wire[k] \cup {"verified"}
      BY <2>1, <2>4, <2>7
    <3> QED
      BY <2>7, <3>2 DEF Held
  <2> QED
    BY <2>5, <2>6, <2>7 DEF Kept
<1>7. ASSUME NEW h \in Handle, NEW v \in Variant,
             NEW verd \in {"passed", "failed"}, ReportVariant(h, v, verd) PROVE EvidenceHeld'
  <2>1. UNCHANGED <<exercised, outcomes, recording, wire>>
    BY <1>7 DEF ReportVariant
  <2>2. op # "settling" /\ settled' = "none"
    BY <1>7 DEF ReportVariant
  <2>3. \A S \in Kept : "none" \notin S
    BY DEF Kept
  <2> QED
    BY <1>b, <2>1, <2>2, <2>3 DEF EvidenceHeld, Held
<1>8. ASSUME NEW t \in Transport, SettleQuiet(t) PROVE EvidenceHeld'
  BY <1>b, <1>8, SettleEvidence DEF SettleQuiet
<1>9. ASSUME NEW t \in Transport, SettleTimeout(t) PROVE EvidenceHeld'
  BY <1>b, <1>9, SettleEvidence DEF SettleTimeout
<1>10. ASSUME ReportAnswer PROVE EvidenceHeld'
  <2>1. /\ UNCHANGED <<outcomes, recording, wire>>
        /\ op = "settling" /\ op' = "idle" /\ reporting \in Key
        /\ exercised' = [exercised EXCEPT ![reporting] = Merge(@, settled)]
    BY <1>b, <1>10 DEF ReportAnswer, Phases
  <2>2. exercised \in [Key -> Evidence] /\ settled \in Evidence
    BY <1>b DEF TypeOK
  <2> SUFFICES ASSUME NEW k \in Key, NEW S \in Kept
               PROVE  Held(k, S)' <=> Held(k, S)
    BY <1>b, <2>1 DEF EvidenceHeld
  <2>3. CASE k # reporting
    BY <2>1, <2>2, <2>3 DEF Held
  <2>4. CASE k = reporting
    <3>1. exercised'[k] = Merge(exercised[k], settled)
      BY <2>1, <2>2, <2>4
    <3>2. exercised'[k] \in S <=> exercised[k] \in S \/ settled \in S
      BY <2>2, <3>1, MergeKeeps
    <3> QED
      BY <2>1, <2>4, <3>2 DEF Held
  <2> QED
    BY <2>3, <2>4
<1>11. ASSUME NEW how \in {"finalise", "shutdown"}, EndSession(how) PROVE EvidenceHeld'
  <2>1. UNCHANGED <<exercised, outcomes, recording, wire>>
    BY <1>11 DEF EndSession
  <2>2. op # "settling" /\ op' # "settling"
    BY <1>11 DEF EndSession
  <2> QED
    BY <1>b, <2>1, <2>2 DEF EvidenceHeld, Held
<1>12. ASSUME NEW t \in Transport, StopTransport(t) PROVE EvidenceHeld'
  <2>1. UNCHANGED <<exercised, outcomes, recording, wire>>
    BY <1>12 DEF StopTransport
  <2>2. op # "settling" /\ op' # "settling"
    BY <1>12 DEF StopTransport
  <2> QED
    BY <1>b, <2>1, <2>2 DEF EvidenceHeld, Held
<1>13. ASSUME NEW t \in Transport, JoinTransport(t) PROVE EvidenceHeld'
  <2>1. /\ UNCHANGED <<recording, wire>>
        /\ op # "settling" /\ op' # "settling"
        /\ exercised' = [k \in Key |-> Merge(exercised[k], outcomes[t][k])]
        /\ outcomes' = [outcomes EXCEPT ![t] = [k \in Key |-> "none"]]
    BY <1>13 DEF JoinTransport
  <2>2. exercised \in [Key -> Evidence] /\ outcomes \in [Transport -> [Key -> Evidence]]
    BY <1>b DEF TypeOK
  <2> SUFFICES ASSUME NEW k \in Key, NEW S \in Kept
               PROVE  Held(k, S)' <=> Held(k, S)
    BY <1>b, <2>1 DEF EvidenceHeld
  <2>3. exercised'[k] \in S <=> exercised[k] \in S \/ outcomes[t][k] \in S
    BY <2>1, <2>2, MergeKeeps
  <2>4. outcomes'[t][k] \notin S /\ \A u \in Transport : u # t => outcomes'[u] = outcomes[u]
    BY <2>1, <2>2 DEF Kept
  <2> QED
    BY <2>1, <2>3, <2>4 DEF Held
<1>14. ASSUME NEW write \in {"none", "writer", "no writer", "fails"},
             FinaliseAnswer(write) PROVE EvidenceHeld'
  <2>1. UNCHANGED <<exercised, outcomes, recording, wire>>
    BY <1>14 DEF FinaliseAnswer
  <2>2. op # "settling" /\ op' # "settling"
    BY <1>14 DEF FinaliseAnswer
  <2> QED
    BY <1>b, <2>1, <2>2 DEF EvidenceHeld, Held
<1>15. ASSUME ShutdownAnswer PROVE EvidenceHeld'
  <2>1. UNCHANGED <<exercised, outcomes, recording, wire>>
    BY <1>15 DEF ShutdownAnswer
  <2>2. op # "settling" /\ op' # "settling"
    BY <1>15 DEF ShutdownAnswer
  <2> QED
    BY <1>b, <2>1, <2>2 DEF EvidenceHeld, Held
<1>16. ASSUME NEW t \in Transport, LoopTop(t) PROVE EvidenceHeld'
  <2>1. UNCHANGED <<exercised, outcomes, recording, wire, op, reporting, settled>>
    BY <1>16 DEF LoopTop
  <2> QED
    BY <1>b, <2>1 DEF EvidenceHeld, Held
<1>17. ASSUME NEW t \in Transport, PollNothing(t) PROVE EvidenceHeld'
  <2>1. UNCHANGED <<exercised, outcomes, recording, wire, op, reporting, settled>>
    BY <1>17 DEF PollNothing
  <2> QED
    BY <1>b, <2>1 DEF EvidenceHeld, Held
<1>18. ASSUME NEW t \in Transport, PollError(t) PROVE EvidenceHeld'
  <2>1. UNCHANGED <<exercised, outcomes, recording, wire, op, reporting, settled>>
    BY <1>18 DEF PollError
  <2> QED
    BY <1>b, <2>1 DEF EvidenceHeld, Held
<1>19. ASSUME NEW t \in Transport, NEW r \in Request, PollArrival(t, r) PROVE EvidenceHeld'
  <2>1. UNCHANGED <<exercised, outcomes, recording, wire, op, reporting, settled>>
    BY <1>19 DEF PollArrival
  <2> QED
    BY <1>b, <2>1 DEF EvidenceHeld, Held
<1>20. ASSUME NEW t \in Transport, TakeArmings(t) PROVE EvidenceHeld'
  <2>1. UNCHANGED <<exercised, outcomes, recording, wire, op, reporting, settled>>
    BY <1>20 DEF TakeArmings
  <2> QED
    BY <1>b, <2>1 DEF EvidenceHeld, Held
<1>21. ASSUME NEW t \in Transport, NEW delivered \in BOOLEAN, Answer(t, delivered) PROVE EvidenceHeld'
  <2>1. UNCHANGED <<exercised, op, reporting, settled, outcomes>> /\ recording[t] = NoRecord
    BY <1>b, <1>21 DEF Answer, Loops, LoopOK
  <2>2. PICK a \in armings[t], outcome \in {"verified", "failed"}, matched \in BOOLEAN :
          /\ recording' = [recording EXCEPT ![t] =
               [key |-> KeyOf(a), outcome |-> outcome, matched |-> matched]]
          /\ wire' = [wire EXCEPT ![KeyOf(a)] = @ \cup {outcome}]
    BY <1>21 DEF Answer, Best
  <2>3. KeyOf(a) \in Key
    BY <1>b DEF TypeOK, KeyOf, Key, Arming
  <2>4. /\ recording'[t].key = KeyOf(a) /\ recording'[t].outcome = outcome
        /\ \A u \in Transport : u # t => recording'[u] = recording[u]
    BY <1>b, <2>2 DEF TypeOK
  <2> SUFFICES ASSUME NEW k \in Key, NEW S \in Kept
               PROVE  (wire[k] \cap S # {})' <=> Held(k, S)'
    BY DEF EvidenceHeld
  <2>5. (wire[k] \cap S # {}) <=> Held(k, S)
    BY <1>b DEF EvidenceHeld
  <2>6. recording[t].key # k
    BY <2>1 DEF NoRecord, NoKey, Key, Handle
  <2>7. (wire'[k] \cap S # {}) <=> (wire[k] \cap S # {} \/ (k = KeyOf(a) /\ outcome \in S))
    BY <1>b, <2>2, <2>3 DEF TypeOK
  <2>8. Held(k, S)' <=> Held(k, S) \/ (k = KeyOf(a) /\ outcome \in S)
    BY <2>1, <2>4, <2>6 DEF Held
  <2> QED
    BY <2>5, <2>7, <2>8
<1>22. ASSUME NEW t \in Transport, Record(t) PROVE EvidenceHeld'
  <2>1. UNCHANGED <<exercised, op, reporting, settled, wire>>
    BY <1>22 DEF Record
  <2> DEFINE r == recording[t]
  <2>2. r.key \in Key /\ r.outcome \in Evidence
    BY <1>b, <1>22, KeysOf DEF Record, Loops, LoopOK, TypeOK, NoRecord, Evidence
  <2>3. outcomes \in [Transport -> [Key -> Evidence]] /\ recording \in [Transport -> {recording[u] : u \in Transport}]
    BY <1>b DEF TypeOK
  <2>4. /\ outcomes'[t][r.key] = Merge(outcomes[t][r.key], r.outcome)
        /\ \A u \in Transport, k \in Key :
             u # t \/ k # r.key => outcomes'[u][k] = outcomes[u][k]
    BY <1>22, <2>2, <2>3 DEF Record
  <2>5. recording'[t] = NoRecord /\ \A u \in Transport : u # t => recording'[u] = recording[u]
    BY <1>22, <2>3 DEF Record
  <2> SUFFICES ASSUME NEW k \in Key, NEW S \in Kept
               PROVE  Held(k, S)' <=> Held(k, S)
    BY <1>b, <2>1 DEF EvidenceHeld
  <2>6. NoRecord.key # k
    BY DEF NoRecord, NoKey, Key, Handle
  <2>7. outcomes[t][r.key] \in Evidence
    BY <2>2, <2>3
  <2>8. outcomes'[t][r.key] \in S <=> outcomes[t][r.key] \in S \/ r.outcome \in S
    BY <2>2, <2>4, <2>7, MergeKeeps
  <2> HIDE DEF r
  <2>9. (\E u \in Transport : outcomes'[u][k] \in S)
          <=> (\E u \in Transport : outcomes[u][k] \in S) \/ (r.key = k /\ r.outcome \in S)
    <3>1. CASE r.key = k
      BY <2>4, <2>8, <3>1
    <3>2. CASE r.key # k
      BY <2>4, <3>2
    <3> QED
      BY <3>1, <3>2
  <2>10. (\E u \in Transport : recording[u].key = k /\ recording[u].outcome \in S)
          <=> (\E u \in Transport : recording'[u].key = k /\ recording'[u].outcome \in S)
              \/ (r.key = k /\ r.outcome \in S)
    BY <2>5, <2>6 DEF r
  <2> QED
    BY <2>1, <2>9, <2>10 DEF Held
<1>23. ASSUME UNCHANGED vars PROVE EvidenceHeld'
  BY <1>b, <1>23 DEF vars, EvidenceHeld, Held
<1> HIDE DEF Dispatch, sessionVars, opVars, exchangeVars, loopVars, ghostVars
<1> QED
  BY <1>1, <1>2, <1>3, <1>4, <1>5, <1>6, <1>7, <1>8, <1>9, <1>10, <1>11,
     <1>12, <1>13, <1>14, <1>15, <1>16, <1>17, <1>18, <1>19, <1>20, <1>21, <1>22,
     <1>23
     DEF Next, Host, Dispatcher, Loop, Ended

\* Settling disturbs nothing that is idle, and leaves the variant idle on the
\* transport unless an exchange of it is under way there.
LEMMA SettleIdle ==
  ASSUME TypeOK, Phases, NEW t \in Transport, Settle(t)
  PROVE  /\ \A u \in Transport, k \in Key : Idle(u, k) => Idle(u, k)'
         /\ reporting \notin inFlight[t] => Idle(t, reporting)'
<1>1. /\ reporting \in Key /\ UNCHANGED <<inFlight, reporting>>
      /\ armed'[t] = Without(armed[t], {a \in armed[t] : KeyOf(a) = reporting})
      /\ \A u \in Transport : u # t => armed'[u] = armed[u]
  BY DEF Settle, TypeOK, Phases
<1>2. /\ outcomes'[t][reporting] = "none"
      /\ \A u \in Transport, k \in Key :
           u # t \/ k # reporting => outcomes'[u][k] = outcomes[u][k]
  BY <1>1 DEF Settle, TypeOK
<1>3. Keys(armed'[t]) \subseteq Keys(armed[t]) \ {reporting}
  <2>1. armed[t] \in SUBSET Arming
    BY DEF TypeOK
  <2> QED
    BY <1>1, <2>1, KeysOf
<1> QED
  BY <1>1, <1>2, <1>3 DEF Idle

\* A variant whose report was answered stays idle until it is served again.
LEMMA QuietNext == Inv /\ [Next]_vars => Quiet'
<1> SUFFICES ASSUME Inv, [Next]_vars PROVE Quiet'
  OBVIOUS
<1>a. TypeOK'
  BY TypeNext DEF Inv
<1>b. TypeOK /\ Phases /\ Loops /\ Quiet
  BY DEF Inv
<1> USE DEF Dispatch, sessionVars, opVars, exchangeVars, loopVars, ghostVars
<1>1. ASSUME NEW s \in Specs, AddInteraction(s) PROVE Quiet'
  <2>1. UNCHANGED <<armed, inFlight, outcomes, answered>>
    BY <1>1 DEF AddInteraction
  <2>2. op' # "settling"
    BY <1>1 DEF AddInteraction
  <2> QED
    BY <1>b, <2>1, <2>2 DEF Quiet, Idle
<1>2. ASSUME RefuseInteraction PROVE Quiet'
  <2>1. UNCHANGED <<armed, inFlight, outcomes, answered>>
    BY <1>2 DEF RefuseInteraction
  <2>2. op' # "settling"
    BY <1>2 DEF RefuseInteraction
  <2> QED
    BY <1>b, <2>1, <2>2 DEF Quiet, Idle
<1>3. ASSUME NEW h \in Handle, NEW sel \in SUBSET Variant, Variants(h, sel) PROVE Quiet'
  <2>1. UNCHANGED <<armed, inFlight, outcomes, answered>>
    BY <1>3 DEF Variants
  <2>2. op' # "settling"
    BY <1>3 DEF Variants
  <2> QED
    BY <1>b, <2>1, <2>2 DEF Quiet, Idle
<1>4. ASSUME NEW kind \in Kind, NEW result \in {"started", "refused", "unspawned"},
             StartTransport(kind, result) PROVE Quiet'
  <2>1. UNCHANGED <<armed, inFlight, outcomes, answered>>
    BY <1>4 DEF StartTransport
  <2>2. op' # "settling"
    BY <1>4 DEF StartTransport
  <2> QED
    BY <1>b, <2>1, <2>2 DEF Quiet, Idle
<1>5. ASSUME NEW h \in Handle, NEW v \in Variant, ServePassive(h, v) PROVE Quiet'
  <2>1. \A t \in Transport : Keys(armed'[t]) \subseteq Keys(armed[t]) \cup {<<h, v>>}
    BY <1>b, <1>5, KeysOf DEF ServePassive, TypeOK
  <2>2. /\ UNCHANGED <<inFlight, outcomes>> /\ op' # "settling"
        /\ answered' = [answered EXCEPT ![<<h, v>>] = "none"]
    BY <1>5 DEF ServePassive
  <2>3. \A k \in Key : answered'[k] # "none" => answered[k] # "none" /\ k # <<h, v>>
    BY <1>b, <2>2 DEF TypeOK, Key
  <2> QED
    BY <1>b, <2>1, <2>2, <2>3 DEF Quiet, Idle
<1>6. ASSUME NEW h \in Handle, NEW v \in Variant, ServeEmissive(h, v) PROVE Quiet'
  <2>1. /\ UNCHANGED <<armed, inFlight, outcomes>> /\ op' # "settling"
        /\ answered' = [answered EXCEPT ![<<h, v>>] = "none"]
    BY <1>6 DEF ServeEmissive
  <2>2. \A k \in Key : answered'[k] # "none" => answered[k] # "none"
    BY <1>b, <2>1 DEF TypeOK, Key
  <2> QED
    BY <1>b, <2>1, <2>2 DEF Quiet, Idle
<1>7. ASSUME NEW h \in Handle, NEW v \in Variant,
             NEW verd \in {"passed", "failed"}, ReportVariant(h, v, verd) PROVE Quiet'
  <2>1. /\ UNCHANGED <<armed, inFlight, outcomes, answered>>
        /\ session = "open" /\ todo' = Bound /\ reporting' = <<h, v>>
    BY <1>7 DEF ReportVariant
  <2>2. ASSUME NEW t \in Transport, t \notin Bound PROVE Idle(t, <<h, v>>)
    <3>1. <<h, v>> \in Key
      BY DEF Key
    <3>2. armed[t] = {} /\ inFlight[t] = {} /\ \A k \in Key : outcomes[t][k] = "none"
      BY <1>b, <2>1, <2>2 DEF Loops, LoopOK, Bound
    <3> QED
      BY <3>1, <3>2 DEF Idle, Keys
  <2> QED
    BY <1>b, <2>1, <2>2 DEF Quiet, Idle
<1>8. ASSUME NEW t \in Transport, SettleQuiet(t) PROVE Quiet'
  <2>1. Settle(t)
    BY <1>8 DEF SettleQuiet
  <2>2. UNCHANGED <<answered, op, reporting>> /\ todo' = todo \ {t}
    BY <2>1 DEF Settle
  <2>3. /\ \A u \in Transport, k \in Key : Idle(u, k) => Idle(u, k)'
        /\ reporting \notin inFlight[t] => Idle(t, reporting)'
    BY <1>b, <2>1, SettleIdle
  <2>4. reporting \in Key
    BY <1>b, <2>1 DEF Settle, Phases
  <2>5. reporting \notin inFlight[t] /\ late' = late
    BY <1>8 DEF SettleQuiet
  <2> QED
    BY <1>b, <2>2, <2>3, <2>4, <2>5 DEF Quiet
<1>9. ASSUME NEW t \in Transport, SettleTimeout(t) PROVE Quiet'
  <2>1. Settle(t)
    BY <1>9 DEF SettleTimeout
  <2>2. UNCHANGED <<answered, op, reporting>> /\ todo' = todo \ {t}
    BY <2>1 DEF Settle
  <2>3. /\ \A u \in Transport, k \in Key : Idle(u, k) => Idle(u, k)'
        /\ reporting \notin inFlight[t] => Idle(t, reporting)'
    BY <1>b, <2>1, SettleIdle
  <2>4. reporting \in Key
    BY <1>b, <2>1 DEF Settle, Phases
  <2>5. late' = TRUE
    BY <1>9 DEF SettleTimeout
  <2> QED
    BY <1>b, <2>2, <2>3, <2>4, <2>5 DEF Quiet
<1>10. ASSUME ReportAnswer PROVE Quiet'
  <2>1. /\ UNCHANGED <<armed, inFlight, outcomes>> /\ op' # "settling"
        /\ op = "settling" /\ todo = {} /\ reporting \in Key
    BY <1>b, <1>10 DEF ReportAnswer, Phases
  <2>2. /\ \A k \in Key : k # reporting => answered'[k] = answered[k]
        /\ late => answered'[reporting] = "none"
    BY <1>b, <2>1, <1>10 DEF ReportAnswer, TypeOK
  <2>3. ~late => \A t \in Transport : Idle(t, reporting)
    BY <1>b, <2>1 DEF Quiet
  <2> QED
    BY <1>b, <2>1, <2>2, <2>3 DEF Quiet, Idle
<1>11. ASSUME NEW how \in {"finalise", "shutdown"}, EndSession(how) PROVE Quiet'
  <2>1. UNCHANGED <<armed, inFlight, outcomes, answered>>
    BY <1>11 DEF EndSession
  <2>2. op' # "settling"
    BY <1>11 DEF EndSession
  <2> QED
    BY <1>b, <2>1, <2>2 DEF Quiet, Idle
<1>12. ASSUME NEW t \in Transport, StopTransport(t) PROVE Quiet'
  <2>1. UNCHANGED <<armed, inFlight, outcomes, answered>>
    BY <1>12 DEF StopTransport
  <2>2. op' # "settling"
    BY <1>12 DEF StopTransport
  <2> QED
    BY <1>b, <2>1, <2>2 DEF Quiet, Idle
<1>13. ASSUME NEW t \in Transport, JoinTransport(t) PROVE Quiet'
  <2>1. UNCHANGED <<armed, inFlight, answered>> /\ op' # "settling"
    BY <1>13 DEF JoinTransport
  <2>2. \A u \in Transport, k \in Key : outcomes'[u][k] \in {outcomes[u][k], "none"}
    BY <1>b, <1>13 DEF JoinTransport, TypeOK
  <2> QED
    BY <1>b, <2>1, <2>2 DEF Quiet, Idle
<1>14. ASSUME NEW write \in {"none", "writer", "no writer", "fails"},
             FinaliseAnswer(write) PROVE Quiet'
  <2>1. UNCHANGED <<armed, inFlight, outcomes, answered>>
    BY <1>14 DEF FinaliseAnswer
  <2>2. op' # "settling"
    BY <1>14 DEF FinaliseAnswer
  <2> QED
    BY <1>b, <2>1, <2>2 DEF Quiet, Idle
<1>15. ASSUME ShutdownAnswer PROVE Quiet'
  <2>1. UNCHANGED <<armed, inFlight, outcomes, answered>>
    BY <1>15 DEF ShutdownAnswer
  <2>2. op' # "settling"
    BY <1>15 DEF ShutdownAnswer
  <2> QED
    BY <1>b, <2>1, <2>2 DEF Quiet, Idle
<1>16. ASSUME NEW t \in Transport, LoopTop(t) PROVE Quiet'
  <2>1. UNCHANGED <<armed, inFlight, outcomes, answered, op, reporting, todo, late>>
    BY <1>16 DEF LoopTop
  <2> QED
    BY <1>b, <2>1 DEF Quiet, Idle
<1>17. ASSUME NEW t \in Transport, PollNothing(t) PROVE Quiet'
  <2>1. UNCHANGED <<armed, inFlight, outcomes, answered, op, reporting, todo, late>>
    BY <1>17 DEF PollNothing
  <2> QED
    BY <1>b, <2>1 DEF Quiet, Idle
<1>18. ASSUME NEW t \in Transport, PollError(t) PROVE Quiet'
  <2>1. UNCHANGED <<armed, inFlight, outcomes, answered, op, reporting, todo, late>>
    BY <1>18 DEF PollError
  <2> QED
    BY <1>b, <2>1 DEF Quiet, Idle
<1>19. ASSUME NEW t \in Transport, NEW r \in Request, PollArrival(t, r) PROVE Quiet'
  <2>1. UNCHANGED <<armed, inFlight, outcomes, answered, op, reporting, todo, late>>
    BY <1>19 DEF PollArrival
  <2> QED
    BY <1>b, <2>1 DEF Quiet, Idle
<1>20. ASSUME NEW t \in Transport, TakeArmings(t) PROVE Quiet'
  <2>1. /\ UNCHANGED <<armed, outcomes, answered, op, reporting, todo, late>>
        /\ \A u \in Transport : inFlight'[u] \in {inFlight[u], Keys(armed[u])}
    BY <1>b, <1>20 DEF TakeArmings, TypeOK
  <2> QED
    BY <1>b, <2>1 DEF Quiet, Idle
<1>21. ASSUME NEW t \in Transport, NEW delivered \in BOOLEAN, Answer(t, delivered) PROVE Quiet'
  <2>1. UNCHANGED <<armed, inFlight, outcomes, answered, op, reporting, todo, late>>
    BY <1>21 DEF Answer
  <2> QED
    BY <1>b, <2>1 DEF Quiet, Idle
<1>22. ASSUME NEW t \in Transport, Record(t) PROVE Quiet'
  <2>1. /\ UNCHANGED <<armed, answered, op, reporting, todo, late>>
        /\ \A u \in Transport : inFlight'[u] \in {inFlight[u], {}}
    BY <1>b, <1>22 DEF Record, TypeOK
  <2>2. recording[t].key \in inFlight[t]
    BY <1>b, <1>22 DEF Record, Loops, LoopOK
  <2>3. recording[t].key \in Key
    BY <1>b, <2>2 DEF TypeOK
  <2>4. \A u \in Transport, k \in Key :
          u # t \/ k # recording[t].key => outcomes'[u][k] = outcomes[u][k]
    BY <1>b, <2>3, <1>22 DEF Record, TypeOK
  <2>5. \A u \in Transport, k \in Key : Idle(u, k) => Idle(u, k)'
    BY <2>1, <2>2, <2>4 DEF Idle
  <2>6. op = "settling" => reporting \in Key
    BY <1>b DEF Phases
  <2> QED
    BY <1>b, <2>1, <2>5, <2>6 DEF Quiet
<1>23. ASSUME UNCHANGED vars PROVE Quiet'
  BY <1>b, <1>23 DEF vars, Quiet, Idle
<1> HIDE DEF Dispatch, sessionVars, opVars, exchangeVars, loopVars, ghostVars
<1> QED
  BY <1>1, <1>2, <1>3, <1>4, <1>5, <1>6, <1>7, <1>8, <1>9, <1>10, <1>11,
     <1>12, <1>13, <1>14, <1>15, <1>16, <1>17, <1>18, <1>19, <1>20, <1>21, <1>22,
     <1>23
     DEF Next, Host, Dispatcher, Loop, Ended

\* What a report answered is not overturned by evidence that comes later.
LEMMA AnswerStandsNext == Inv /\ [Next]_vars => AnswerStands'
<1> SUFFICES ASSUME Inv, [Next]_vars PROVE AnswerStands'
  OBVIOUS
<1>a. TypeOK'
  BY TypeNext DEF Inv
<1>b. TypeOK /\ Phases /\ Quiet /\ AnswerStands
  BY DEF Inv
<1> USE DEF Dispatch, sessionVars, opVars, exchangeVars, loopVars, ghostVars
<1>1. ASSUME NEW s \in Specs, AddInteraction(s) PROVE AnswerStands'
  <2>1. UNCHANGED <<verdictsRequired, reports, exercised, answered>>
    BY <1>1 DEF AddInteraction
  <2> QED
    BY <1>b, <2>1 DEF AnswerStands, VariantStatus, StatusOf
<1>2. ASSUME RefuseInteraction PROVE AnswerStands'
  <2>1. UNCHANGED <<verdictsRequired, reports, exercised, answered>>
    BY <1>2 DEF RefuseInteraction
  <2> QED
    BY <1>b, <2>1 DEF AnswerStands, VariantStatus, StatusOf
<1>3. ASSUME NEW h \in Handle, NEW sel \in SUBSET Variant, Variants(h, sel) PROVE AnswerStands'
  <2>1. UNCHANGED <<verdictsRequired, reports, exercised, answered>>
    BY <1>3 DEF Variants
  <2> QED
    BY <1>b, <2>1 DEF AnswerStands, VariantStatus, StatusOf
<1>4. ASSUME NEW kind \in Kind, NEW result \in {"started", "refused", "unspawned"},
             StartTransport(kind, result) PROVE AnswerStands'
  <2>1. UNCHANGED <<verdictsRequired, reports, exercised, answered>>
    BY <1>4 DEF StartTransport
  <2> QED
    BY <1>b, <2>1 DEF AnswerStands, VariantStatus, StatusOf
<1>5. ASSUME NEW h \in Handle, NEW v \in Variant, ServePassive(h, v) PROVE AnswerStands'
  <2>1. /\ UNCHANGED <<verdictsRequired, reports, exercised>>
        /\ answered' = [answered EXCEPT ![<<h, v>>] = "none"]
    BY <1>5 DEF ServePassive
  <2>2. \A k \in Key : answered'[k] # "none" => answered'[k] = answered[k]
    BY <1>b, <2>1 DEF TypeOK, Key
  <2> QED
    BY <1>b, <2>1, <2>2 DEF AnswerStands, VariantStatus, StatusOf
<1>6. ASSUME NEW h \in Handle, NEW v \in Variant, ServeEmissive(h, v) PROVE AnswerStands'
  <2>1. /\ UNCHANGED <<verdictsRequired, reports>>
        /\ answered' = [answered EXCEPT ![<<h, v>>] = "none"]
        /\ exercised' = [exercised EXCEPT ![<<h, v>>] = "verified"]
    BY <1>6 DEF ServeEmissive
  <2>2. \A k \in Key : answered'[k] # "none" => /\ answered'[k] = answered[k]
                                               /\ exercised'[k] = exercised[k]
    BY <1>b, <2>1 DEF TypeOK, Key
  <2> QED
    BY <1>b, <2>1, <2>2 DEF AnswerStands, VariantStatus, StatusOf
<1>7. ASSUME NEW h \in Handle, NEW v \in Variant,
             NEW verd \in {"passed", "failed"}, ReportVariant(h, v, verd) PROVE AnswerStands'
  <2>1. UNCHANGED <<verdictsRequired, reports, exercised, answered>>
    BY <1>7 DEF ReportVariant
  <2> QED
    BY <1>b, <2>1 DEF AnswerStands, VariantStatus, StatusOf
<1>8. ASSUME NEW t \in Transport, SettleQuiet(t) PROVE AnswerStands'
  <2>1. UNCHANGED <<verdictsRequired, reports, exercised, answered>>
    BY <1>8 DEF SettleQuiet, Settle
  <2> QED
    BY <1>b, <2>1 DEF AnswerStands, VariantStatus, StatusOf
<1>9. ASSUME NEW t \in Transport, SettleTimeout(t) PROVE AnswerStands'
  <2>1. UNCHANGED <<verdictsRequired, reports, exercised, answered>>
    BY <1>9 DEF SettleTimeout, Settle
  <2> QED
    BY <1>b, <2>1 DEF AnswerStands, VariantStatus, StatusOf
<1>10. ASSUME ReportAnswer PROVE AnswerStands'
  <2>1. verdictsRequired' = verdictsRequired /\ reporting \in Key
    BY <1>b, <1>10 DEF ReportAnswer, Phases
  <2>2. \A k \in Key : k # reporting => /\ answered'[k] = answered[k]
                                        /\ exercised'[k] = exercised[k]
                                        /\ reports'[k] = reports[k]
    BY <1>b, <2>1, <1>10 DEF ReportAnswer, TypeOK
  <2>3. /\ exercised'[reporting] = Merge(exercised[reporting], settled)
        /\ reports'[reporting] = verdict
        /\ answered'[reporting] # "none" =>
             answered'[reporting] = StatusOf(verdict, Merge(exercised[reporting], settled))
    BY <1>b, <2>1, <1>10 DEF ReportAnswer, TypeOK
  <2> QED
    BY <1>b, <2>1, <2>2, <2>3 DEF AnswerStands, VariantStatus, StatusOf
<1>11. ASSUME NEW how \in {"finalise", "shutdown"}, EndSession(how) PROVE AnswerStands'
  <2>1. UNCHANGED <<verdictsRequired, reports, exercised, answered>>
    BY <1>11 DEF EndSession
  <2> QED
    BY <1>b, <2>1 DEF AnswerStands, VariantStatus, StatusOf
<1>12. ASSUME NEW t \in Transport, StopTransport(t) PROVE AnswerStands'
  <2>1. UNCHANGED <<verdictsRequired, reports, exercised, answered>>
    BY <1>12 DEF StopTransport
  <2> QED
    BY <1>b, <2>1 DEF AnswerStands, VariantStatus, StatusOf
<1>13. ASSUME NEW t \in Transport, JoinTransport(t) PROVE AnswerStands'
  <2>1. UNCHANGED <<verdictsRequired, reports, answered>>
    BY <1>13 DEF JoinTransport
  <2>2. ASSUME NEW k \in Key, answered[k] # "none" PROVE exercised'[k] = exercised[k]
    <3>1. exercised'[k] = Merge(exercised[k], outcomes[t][k])
      BY <1>13 DEF JoinTransport
    <3>2. outcomes[t][k] = "none" /\ exercised[k] \in Evidence
      BY <1>b, <2>2 DEF Quiet, Idle, TypeOK
    <3> QED
      BY <3>1, <3>2 DEF Merge, Evidence
  <2> QED
    BY <1>b, <2>1, <2>2 DEF AnswerStands, VariantStatus, StatusOf
<1>14. ASSUME NEW write \in {"none", "writer", "no writer", "fails"},
             FinaliseAnswer(write) PROVE AnswerStands'
  <2>1. UNCHANGED <<verdictsRequired, reports, exercised, answered>>
    BY <1>14 DEF FinaliseAnswer
  <2> QED
    BY <1>b, <2>1 DEF AnswerStands, VariantStatus, StatusOf
<1>15. ASSUME ShutdownAnswer PROVE AnswerStands'
  <2>1. UNCHANGED <<verdictsRequired, reports, exercised, answered>>
    BY <1>15 DEF ShutdownAnswer
  <2> QED
    BY <1>b, <2>1 DEF AnswerStands, VariantStatus, StatusOf
<1>16. ASSUME NEW t \in Transport, LoopTop(t) PROVE AnswerStands'
  <2>1. UNCHANGED <<verdictsRequired, reports, exercised, answered>>
    BY <1>16 DEF LoopTop
  <2> QED
    BY <1>b, <2>1 DEF AnswerStands, VariantStatus, StatusOf
<1>17. ASSUME NEW t \in Transport, PollNothing(t) PROVE AnswerStands'
  <2>1. UNCHANGED <<verdictsRequired, reports, exercised, answered>>
    BY <1>17 DEF PollNothing
  <2> QED
    BY <1>b, <2>1 DEF AnswerStands, VariantStatus, StatusOf
<1>18. ASSUME NEW t \in Transport, PollError(t) PROVE AnswerStands'
  <2>1. UNCHANGED <<verdictsRequired, reports, exercised, answered>>
    BY <1>18 DEF PollError
  <2> QED
    BY <1>b, <2>1 DEF AnswerStands, VariantStatus, StatusOf
<1>19. ASSUME NEW t \in Transport, NEW r \in Request, PollArrival(t, r) PROVE AnswerStands'
  <2>1. UNCHANGED <<verdictsRequired, reports, exercised, answered>>
    BY <1>19 DEF PollArrival
  <2> QED
    BY <1>b, <2>1 DEF AnswerStands, VariantStatus, StatusOf
<1>20. ASSUME NEW t \in Transport, TakeArmings(t) PROVE AnswerStands'
  <2>1. UNCHANGED <<verdictsRequired, reports, exercised, answered>>
    BY <1>20 DEF TakeArmings
  <2> QED
    BY <1>b, <2>1 DEF AnswerStands, VariantStatus, StatusOf
<1>21. ASSUME NEW t \in Transport, NEW delivered \in BOOLEAN, Answer(t, delivered) PROVE AnswerStands'
  <2>1. UNCHANGED <<verdictsRequired, reports, exercised, answered>>
    BY <1>21 DEF Answer
  <2> QED
    BY <1>b, <2>1 DEF AnswerStands, VariantStatus, StatusOf
<1>22. ASSUME NEW t \in Transport, Record(t) PROVE AnswerStands'
  <2>1. UNCHANGED <<verdictsRequired, reports, exercised, answered>>
    BY <1>22 DEF Record
  <2> QED
    BY <1>b, <2>1 DEF AnswerStands, VariantStatus, StatusOf
<1>23. ASSUME UNCHANGED vars PROVE AnswerStands'
  BY <1>b, <1>23 DEF vars, AnswerStands, VariantStatus, StatusOf
<1> HIDE DEF Dispatch, sessionVars, opVars, exchangeVars, loopVars, ghostVars
<1> QED
  BY <1>1, <1>2, <1>3, <1>4, <1>5, <1>6, <1>7, <1>8, <1>9, <1>10, <1>11,
     <1>12, <1>13, <1>14, <1>15, <1>16, <1>17, <1>18, <1>19, <1>20, <1>21, <1>22,
     <1>23
     DEF Next, Host, Dispatcher, Loop, Ended

\* With every transport unbound, the interactions hold all the evidence.
LEMMA EndEvidence ==
  ASSUME TypeOK, Loops, EvidenceHeld, Bound = {}, op # "settling"
  PROVE  \A k \in Key : exercised[k] = Summary(k)
<1>1. \A t \in Transport : /\ recording[t].outcome = "none"
                           /\ \A k \in Key : outcomes[t][k] = "none"
  BY DEF Loops, LoopOK, Bound, NoRecord
<1>2. \A S \in Kept : "none" \notin S
  BY DEF Kept
<1>3. \A k \in Key : \A S \in Kept : Held(k, S) <=> exercised[k] \in S
  BY <1>1, <1>2 DEF Held
<1>4. {"failed"} \in Kept /\ {"verified", "failed"} \in Kept
  BY DEF Kept
<1> SUFFICES ASSUME NEW k \in Key PROVE exercised[k] = Summary(k)
  OBVIOUS
<1>5. exercised[k] \in Evidence /\ wire[k] \subseteq {"verified", "failed"}
  BY DEF TypeOK
<1>6. "failed" \in wire[k] <=> exercised[k] = "failed"
  BY <1>3, <1>4 DEF EvidenceHeld
<1>7. wire[k] \cap {"verified", "failed"} # {} <=> exercised[k] \in {"verified", "failed"}
  BY <1>3, <1>4 DEF EvidenceHeld
<1> QED
  BY <1>5, <1>6, <1>7 DEF Summary, Evidence

\* finalise issues a contract only for what happened on the wire.
LEMMA HonestNext == Inv /\ [Next]_vars => HonestContract'
<1> SUFFICES ASSUME Inv, [Next]_vars PROVE HonestContract'
  OBVIOUS
<1>a. TypeOK'
  BY TypeNext DEF Inv
<1>b. TypeOK /\ Phases /\ Loops /\ EvidenceHeld /\ HonestContract
  BY DEF Inv
<1> USE DEF Dispatch, sessionVars, opVars, exchangeVars, loopVars, ghostVars
<1>1. ASSUME NEW s \in Specs, AddInteraction(s) PROVE HonestContract'
  <2>1. final' \notin {"issued", "unwritten"}
    BY <1>b, <1>1 DEF AddInteraction, Phases
  <2> QED
    BY <2>1 DEF HonestContract
<1>2. ASSUME RefuseInteraction PROVE HonestContract'
  <2>1. final' \notin {"issued", "unwritten"}
    BY <1>b, <1>2 DEF RefuseInteraction, Phases
  <2> QED
    BY <2>1 DEF HonestContract
<1>3. ASSUME NEW h \in Handle, NEW sel \in SUBSET Variant, Variants(h, sel) PROVE HonestContract'
  <2>1. final' \notin {"issued", "unwritten"}
    BY <1>b, <1>3 DEF Variants, Phases
  <2> QED
    BY <2>1 DEF HonestContract
<1>4. ASSUME NEW kind \in Kind, NEW result \in {"started", "refused", "unspawned"},
             StartTransport(kind, result) PROVE HonestContract'
  <2>1. final' \notin {"issued", "unwritten"}
    BY <1>b, <1>4 DEF StartTransport, Phases
  <2> QED
    BY <2>1 DEF HonestContract
<1>5. ASSUME NEW h \in Handle, NEW v \in Variant, ServePassive(h, v) PROVE HonestContract'
  <2>1. final' \notin {"issued", "unwritten"}
    BY <1>b, <1>5 DEF ServePassive, Phases
  <2> QED
    BY <2>1 DEF HonestContract
<1>6. ASSUME NEW h \in Handle, NEW v \in Variant, ServeEmissive(h, v) PROVE HonestContract'
  <2>1. final' \notin {"issued", "unwritten"}
    BY <1>b, <1>6 DEF ServeEmissive, Phases
  <2> QED
    BY <2>1 DEF HonestContract
<1>7. ASSUME NEW h \in Handle, NEW v \in Variant,
             NEW verd \in {"passed", "failed"}, ReportVariant(h, v, verd) PROVE HonestContract'
  <2>1. final' \notin {"issued", "unwritten"}
    BY <1>b, <1>7 DEF ReportVariant, Phases
  <2> QED
    BY <2>1 DEF HonestContract
<1>8. ASSUME NEW t \in Transport, SettleQuiet(t) PROVE HonestContract'
  <2>1. final' \notin {"issued", "unwritten"}
    BY <1>b, <1>8 DEF SettleQuiet, Settle, Phases, TypeOK
  <2> QED
    BY <2>1 DEF HonestContract
<1>9. ASSUME NEW t \in Transport, SettleTimeout(t) PROVE HonestContract'
  <2>1. final' \notin {"issued", "unwritten"}
    BY <1>b, <1>9 DEF SettleTimeout, Settle, Phases, TypeOK
  <2> QED
    BY <2>1 DEF HonestContract
<1>10. ASSUME ReportAnswer PROVE HonestContract'
  <2>1. final' \notin {"issued", "unwritten"}
    BY <1>b, <1>10 DEF ReportAnswer, Phases, TypeOK
  <2> QED
    BY <2>1 DEF HonestContract
<1>11. ASSUME NEW how \in {"finalise", "shutdown"}, EndSession(how) PROVE HonestContract'
  <2>1. final' \notin {"issued", "unwritten"}
    BY <1>b, <1>11 DEF EndSession, Phases
  <2> QED
    BY <2>1 DEF HonestContract
<1>12. ASSUME NEW t \in Transport, StopTransport(t) PROVE HonestContract'
  <2>1. final' \notin {"issued", "unwritten"}
    BY <1>b, <1>12 DEF StopTransport, Phases, TypeOK
  <2> QED
    BY <2>1 DEF HonestContract
<1>13. ASSUME NEW t \in Transport, JoinTransport(t) PROVE HonestContract'
  <2>1. final' \notin {"issued", "unwritten"}
    BY <1>b, <1>13 DEF JoinTransport, Phases, TypeOK
  <2> QED
    BY <2>1 DEF HonestContract
<1>14. ASSUME NEW write \in {"none", "writer", "no writer", "fails"},
             FinaliseAnswer(write) PROVE HonestContract'
  <2>1. UNCHANGED <<verdictsRequired, refused, spec, selection, wire, reports>>
    BY <1>14 DEF FinaliseAnswer
  <2>2. session = "ending" /\ Bound = {} /\ op # "settling"
    BY <1>b, <1>14 DEF FinaliseAnswer, Phases, TypeOK
  <2>3. \A k \in Key : exercised[k] = Summary(k)
    BY <1>b, <2>2, EndEvidence
  <2> SUFFICES ASSUME Contract = "issued" PROVE HonestContract'
    BY <1>14 DEF FinaliseAnswer, HonestContract, Contract
  <2>4. ~(verdictsRequired /\ refused)
    BY DEF Contract
  <2>5. ASSUME NEW h \in Added
        PROVE  /\ selection[h] # {}
               /\ \A v \in selection[h] : VariantStatus(<<h, v>>) = "verified"
    BY DEF Contract
  <2>6. ASSUME NEW h \in Added, NEW v \in selection[h]
        PROVE  /\ wire[<<h, v>>] = {"verified"}
               /\ reports[<<h, v>>] # "failed"
               /\ verdictsRequired => reports[<<h, v>>] = "passed"
    <3> DEFINE k == <<h, v>>
    <3>1. k \in Key
      BY <1>b DEF Added, TypeOK, Key
    <3>2. VariantStatus(k) = "verified"
      BY <2>5
    <3>3. exercised[k] \in Evidence /\ reports[k] \in Verdict
      BY <1>b, <3>1 DEF TypeOK
    <3>4. /\ exercised[k] = "verified" /\ reports[k] # "failed"
          /\ verdictsRequired => reports[k] = "passed"
      BY <3>2, <3>3 DEF VariantStatus, StatusOf, Evidence, Verdict
    <3>5. Summary(k) = "verified"
      BY <2>3, <3>1, <3>4
    <3>6. wire[k] \subseteq {"verified", "failed"}
      BY <1>b, <3>1 DEF TypeOK
    <3> QED
      BY <3>4, <3>5, <3>6 DEF Summary
  <2> QED
    BY <2>1, <2>4, <2>5, <2>6 DEF HonestContract, Added
<1>15. ASSUME ShutdownAnswer PROVE HonestContract'
  <2>1. final' \notin {"issued", "unwritten"}
    BY <1>b, <1>15 DEF ShutdownAnswer, Phases
  <2> QED
    BY <2>1 DEF HonestContract
<1>16. ASSUME NEW t \in Transport, LoopTop(t) PROVE HonestContract'
  <2>1. UNCHANGED <<final, verdictsRequired, refused, spec, selection, wire, reports>>
    BY <1>16 DEF LoopTop
  <2> QED
    BY <1>b, <2>1 DEF HonestContract, Added
<1>17. ASSUME NEW t \in Transport, PollNothing(t) PROVE HonestContract'
  <2>1. UNCHANGED <<final, verdictsRequired, refused, spec, selection, wire, reports>>
    BY <1>17 DEF PollNothing
  <2> QED
    BY <1>b, <2>1 DEF HonestContract, Added
<1>18. ASSUME NEW t \in Transport, PollError(t) PROVE HonestContract'
  <2>1. UNCHANGED <<final, verdictsRequired, refused, spec, selection, wire, reports>>
    BY <1>18 DEF PollError
  <2> QED
    BY <1>b, <2>1 DEF HonestContract, Added
<1>19. ASSUME NEW t \in Transport, NEW r \in Request, PollArrival(t, r) PROVE HonestContract'
  <2>1. UNCHANGED <<final, verdictsRequired, refused, spec, selection, wire, reports>>
    BY <1>19 DEF PollArrival
  <2> QED
    BY <1>b, <2>1 DEF HonestContract, Added
<1>20. ASSUME NEW t \in Transport, TakeArmings(t) PROVE HonestContract'
  <2>1. UNCHANGED <<final, verdictsRequired, refused, spec, selection, wire, reports>>
    BY <1>20 DEF TakeArmings
  <2> QED
    BY <1>b, <2>1 DEF HonestContract, Added
<1>21. ASSUME NEW t \in Transport, NEW delivered \in BOOLEAN, Answer(t, delivered) PROVE HonestContract'
  <2>1. session # "ended"
    BY <1>b, <1>21 DEF Answer, Phases, Loops, LoopOK, Bound
  <2>2. final' \notin {"issued", "unwritten"}
    BY <1>b, <2>1, <1>21 DEF Answer, Phases, TypeOK
  <2> QED
    BY <2>2 DEF HonestContract
<1>22. ASSUME NEW t \in Transport, Record(t) PROVE HonestContract'
  <2>1. UNCHANGED <<final, verdictsRequired, refused, spec, selection, wire, reports>>
    BY <1>22 DEF Record
  <2> QED
    BY <1>b, <2>1 DEF HonestContract, Added
<1>23. ASSUME UNCHANGED vars PROVE HonestContract'
  BY <1>b, <1>23 DEF vars, HonestContract, Added
<1> HIDE DEF Dispatch, sessionVars, opVars, exchangeVars, loopVars, ghostVars
<1> QED
  BY <1>1, <1>2, <1>3, <1>4, <1>5, <1>6, <1>7, <1>8, <1>9, <1>10, <1>11,
     <1>12, <1>13, <1>14, <1>15, <1>16, <1>17, <1>18, <1>19, <1>20, <1>21, <1>22,
     <1>23
     DEF Next, Host, Dispatcher, Loop, Ended

\* What ReportEndsRun says of one step.
RunEnded ==
  \A k \in Key : answered[k] # "none" /\ answered'[k] # "none"
                   => wire'[k] = wire[k]

\* No step is an exchange of a variant that is idle since its report.
LEMMA RunEndedNext == Inv /\ [Next]_vars => RunEnded
<1> SUFFICES ASSUME Inv, [Next]_vars PROVE RunEnded
  OBVIOUS
<1>a. TypeOK'
  BY TypeNext DEF Inv
<1>b. TypeOK /\ Loops /\ Quiet
  BY DEF Inv
<1> USE DEF Dispatch, sessionVars, opVars, exchangeVars, loopVars, ghostVars
<1>1. ASSUME NEW s \in Specs, AddInteraction(s) PROVE RunEnded
  <2>1. wire' = wire
    BY <1>1 DEF AddInteraction
  <2> QED
    BY <2>1 DEF RunEnded
<1>2. ASSUME RefuseInteraction PROVE RunEnded
  <2>1. wire' = wire
    BY <1>2 DEF RefuseInteraction
  <2> QED
    BY <2>1 DEF RunEnded
<1>3. ASSUME NEW h \in Handle, NEW sel \in SUBSET Variant, Variants(h, sel) PROVE RunEnded
  <2>1. wire' = wire
    BY <1>3 DEF Variants
  <2> QED
    BY <2>1 DEF RunEnded
<1>4. ASSUME NEW kind \in Kind, NEW result \in {"started", "refused", "unspawned"},
             StartTransport(kind, result) PROVE RunEnded
  <2>1. wire' = wire
    BY <1>4 DEF StartTransport
  <2> QED
    BY <2>1 DEF RunEnded
<1>5. ASSUME NEW h \in Handle, NEW v \in Variant, ServePassive(h, v) PROVE RunEnded
  <2>1. wire' = wire
    BY <1>5 DEF ServePassive
  <2> QED
    BY <2>1 DEF RunEnded
<1>6. ASSUME NEW h \in Handle, NEW v \in Variant, ServeEmissive(h, v) PROVE RunEnded
  <2>1. /\ \A k \in Key : k # <<h, v>> => wire'[k] = wire[k]
        /\ answered'[<<h, v>>] = "none"
    BY <1>b, <1>6 DEF ServeEmissive, TypeOK, Key
  <2> QED
    BY <2>1 DEF RunEnded
<1>7. ASSUME NEW h \in Handle, NEW v \in Variant,
             NEW verd \in {"passed", "failed"}, ReportVariant(h, v, verd) PROVE RunEnded
  <2>1. wire' = wire
    BY <1>7 DEF ReportVariant
  <2> QED
    BY <2>1 DEF RunEnded
<1>8. ASSUME NEW t \in Transport, SettleQuiet(t) PROVE RunEnded
  <2>1. wire' = wire
    BY <1>8 DEF SettleQuiet, Settle
  <2> QED
    BY <2>1 DEF RunEnded
<1>9. ASSUME NEW t \in Transport, SettleTimeout(t) PROVE RunEnded
  <2>1. wire' = wire
    BY <1>9 DEF SettleTimeout, Settle
  <2> QED
    BY <2>1 DEF RunEnded
<1>10. ASSUME ReportAnswer PROVE RunEnded
  <2>1. wire' = wire
    BY <1>10 DEF ReportAnswer
  <2> QED
    BY <2>1 DEF RunEnded
<1>11. ASSUME NEW how \in {"finalise", "shutdown"}, EndSession(how) PROVE RunEnded
  <2>1. wire' = wire
    BY <1>11 DEF EndSession
  <2> QED
    BY <2>1 DEF RunEnded
<1>12. ASSUME NEW t \in Transport, StopTransport(t) PROVE RunEnded
  <2>1. wire' = wire
    BY <1>12 DEF StopTransport
  <2> QED
    BY <2>1 DEF RunEnded
<1>13. ASSUME NEW t \in Transport, JoinTransport(t) PROVE RunEnded
  <2>1. wire' = wire
    BY <1>13 DEF JoinTransport
  <2> QED
    BY <2>1 DEF RunEnded
<1>14. ASSUME NEW write \in {"none", "writer", "no writer", "fails"},
             FinaliseAnswer(write) PROVE RunEnded
  <2>1. wire' = wire
    BY <1>14 DEF FinaliseAnswer
  <2> QED
    BY <2>1 DEF RunEnded
<1>15. ASSUME ShutdownAnswer PROVE RunEnded
  <2>1. wire' = wire
    BY <1>15 DEF ShutdownAnswer
  <2> QED
    BY <2>1 DEF RunEnded
<1>16. ASSUME NEW t \in Transport, LoopTop(t) PROVE RunEnded
  <2>1. wire' = wire
    BY <1>16 DEF LoopTop
  <2> QED
    BY <2>1 DEF RunEnded
<1>17. ASSUME NEW t \in Transport, PollNothing(t) PROVE RunEnded
  <2>1. wire' = wire
    BY <1>17 DEF PollNothing
  <2> QED
    BY <2>1 DEF RunEnded
<1>18. ASSUME NEW t \in Transport, PollError(t) PROVE RunEnded
  <2>1. wire' = wire
    BY <1>18 DEF PollError
  <2> QED
    BY <2>1 DEF RunEnded
<1>19. ASSUME NEW t \in Transport, NEW r \in Request, PollArrival(t, r) PROVE RunEnded
  <2>1. wire' = wire
    BY <1>19 DEF PollArrival
  <2> QED
    BY <2>1 DEF RunEnded
<1>20. ASSUME NEW t \in Transport, TakeArmings(t) PROVE RunEnded
  <2>1. wire' = wire
    BY <1>20 DEF TakeArmings
  <2> QED
    BY <2>1 DEF RunEnded
<1>21. ASSUME NEW t \in Transport, NEW delivered \in BOOLEAN, Answer(t, delivered) PROVE RunEnded
  <2>1. PICK a \in armings[t], outcome \in {"verified", "failed"} :
          wire' = [wire EXCEPT ![KeyOf(a)] = @ \cup {outcome}]
    BY <1>21 DEF Answer, Best
  <2>2. KeyOf(a) \in Keys(armings[t])
    BY DEF Keys
  <2>3. KeyOf(a) \in inFlight[t] /\ inFlight[t] \subseteq Key
    BY <1>b, <2>2, <1>21 DEF Answer, Loops, LoopOK, TypeOK
  <2>4. answered[KeyOf(a)] = "none"
    BY <1>b, <2>3 DEF Quiet, Idle
  <2>5. \A k \in Key : k # KeyOf(a) => wire'[k] = wire[k]
    BY <1>b, <2>1 DEF TypeOK
  <2> QED
    BY <2>4, <2>5 DEF RunEnded
<1>22. ASSUME NEW t \in Transport, Record(t) PROVE RunEnded
  <2>1. wire' = wire
    BY <1>22 DEF Record
  <2> QED
    BY <2>1 DEF RunEnded
<1>23. ASSUME UNCHANGED vars PROVE RunEnded
  BY <1>23 DEF vars, RunEnded
<1> HIDE DEF Dispatch, sessionVars, opVars, exchangeVars, loopVars, ghostVars
<1> QED
  BY <1>1, <1>2, <1>3, <1>4, <1>5, <1>6, <1>7, <1>8, <1>9, <1>10, <1>11,
     <1>12, <1>13, <1>14, <1>15, <1>16, <1>17, <1>18, <1>19, <1>20, <1>21, <1>22,
     <1>23
     DEF Next, Host, Dispatcher, Loop, Ended

\* A loop that handles an arrival holds its request.
Received ==
  \A t \in Transport : loop[t] \in {"arrived", "answering", "recording"}
                         => request[t] \in Request

Matching == Received /\ MatchGoesToItsArming /\ OneArmingPerHandle

\* Disarming keeps one arming for each handle.
LEMMA OneEachLess ==
  ASSUME NEW set \in SUBSET Arming, NEW gone \in SUBSET set,
         \A a, b \in set : a.handle = b.handle => a = b,
         NEW a \in Without(set, gone), NEW b \in Without(set, gone),
         a.handle = b.handle
  PROVE  a = b
<1>1. \A c \in Without(set, gone) : \E x \in set \ gone :
         /\ c = [x EXCEPT !.ahead = @ \ {g.handle : g \in gone}]
         /\ c.handle = x.handle
  BY DEF Without, Arming
<1>2. PICK x \in set \ gone :
        /\ a = [x EXCEPT !.ahead = @ \ {g.handle : g \in gone}]
        /\ a.handle = x.handle
  BY <1>1
<1>3. PICK y \in set \ gone :
        /\ b = [y EXCEPT !.ahead = @ \ {g.handle : g \in gone}]
        /\ b.handle = y.handle
  BY <1>1
<1>4. x = y
  BY <1>2, <1>3
<1> QED
  BY <1>2, <1>3, <1>4

\* Arming keeps one arming for each handle.
LEMMA OneEachMore ==
  ASSUME NEW set \in SUBSET Arming, NEW h \in Handle, NEW v \in Variant,
         \A a, b \in set : a.handle = b.handle => a = b,
         NEW a \in Arm(set, h, v), NEW b \in Arm(set, h, v),
         a.handle = b.handle
  PROVE  a = b
<1> DEFINE gone == {x \in set : x.handle = h}
           new == [handle |-> h, variant |-> v,
                   ahead |-> {x.handle : x \in Without(set, gone)}]
<1>1. Arm(set, h, v) = Without(set, gone) \cup {new}
  BY DEF Arm
<1>2. gone \in SUBSET set /\ new.handle = h
  OBVIOUS
<1>3. \A x \in Without(set, gone) : x.handle # h
  BY DEF Without, Arming
<1> HIDE DEF gone, new
<1>4. CASE a \in Without(set, gone) /\ b \in Without(set, gone)
  BY <1>2, <1>4, OneEachLess
<1>5. CASE a = new /\ b = new
  BY <1>5
<1> QED
  BY <1>1, <1>2, <1>3, <1>4, <1>5

\* No step leaves a match with the wrong arming or a handle armed twice.
LEMMA MatchingNext == Inv /\ Matching /\ [Next]_vars => Matching'
<1> SUFFICES ASSUME Inv, Matching, [Next]_vars PROVE Matching'
  OBVIOUS
<1>a. TypeOK'
  BY TypeNext DEF Inv
<1>b. TypeOK /\ Matching
  BY DEF Inv
<1> USE DEF Dispatch, sessionVars, opVars, exchangeVars, loopVars, ghostVars
<1>1. ASSUME NEW s \in Specs, AddInteraction(s) PROVE Matching'
  <2>1. UNCHANGED <<armed, loop, request, armings, recording>>
    BY <1>1 DEF AddInteraction
  <2> QED
    BY <1>b, <2>1 DEF Matching, Received, MatchGoesToItsArming, OneArmingPerHandle
<1>2. ASSUME RefuseInteraction PROVE Matching'
  <2>1. UNCHANGED <<armed, loop, request, armings, recording>>
    BY <1>2 DEF RefuseInteraction
  <2> QED
    BY <1>b, <2>1 DEF Matching, Received, MatchGoesToItsArming, OneArmingPerHandle
<1>3. ASSUME NEW h \in Handle, NEW sel \in SUBSET Variant, Variants(h, sel) PROVE Matching'
  <2>1. UNCHANGED <<armed, loop, request, armings, recording>>
    BY <1>3 DEF Variants
  <2> QED
    BY <1>b, <2>1 DEF Matching, Received, MatchGoesToItsArming, OneArmingPerHandle
<1>4. ASSUME NEW kind \in Kind, NEW result \in {"started", "refused", "unspawned"},
             StartTransport(kind, result) PROVE Matching'
  <2>1. /\ UNCHANGED <<armed, request, armings, recording>>
        /\ \A t \in Transport : loop'[t] \in {loop[t], "top"}
    BY <1>b, <1>4 DEF StartTransport, TypeOK
  <2> QED
    BY <1>b, <2>1 DEF Matching, Received, MatchGoesToItsArming, OneArmingPerHandle
<1>5. ASSUME NEW h \in Handle, NEW v \in Variant, ServePassive(h, v) PROVE Matching'
  <2>1. /\ UNCHANGED <<loop, request, armings, recording>>
        /\ \A t \in Transport : armed'[t] \in {armed[t], Arm(armed[t], h, v)}
    BY <1>5 DEF ServePassive
  <2>2. OneArmingPerHandle'
    <3>1. ASSUME NEW t \in Transport
          PROVE  \A a, b \in Arm(armed[t], h, v) : a.handle = b.handle => a = b
      BY <1>b, OneEachMore DEF Matching, OneArmingPerHandle, TypeOK
    <3> QED
      BY <1>b, <2>1, <3>1 DEF Matching, OneArmingPerHandle
  <2> QED
    BY <1>b, <2>1, <2>2 DEF Matching, Received, MatchGoesToItsArming
<1>6. ASSUME NEW h \in Handle, NEW v \in Variant, ServeEmissive(h, v) PROVE Matching'
  <2>1. UNCHANGED <<armed, loop, request, armings, recording>>
    BY <1>6 DEF ServeEmissive
  <2> QED
    BY <1>b, <2>1 DEF Matching, Received, MatchGoesToItsArming, OneArmingPerHandle
<1>7. ASSUME NEW h \in Handle, NEW v \in Variant,
             NEW verd \in {"passed", "failed"}, ReportVariant(h, v, verd) PROVE Matching'
  <2>1. UNCHANGED <<armed, loop, request, armings, recording>>
    BY <1>7 DEF ReportVariant
  <2> QED
    BY <1>b, <2>1 DEF Matching, Received, MatchGoesToItsArming, OneArmingPerHandle
<1>8. ASSUME NEW t \in Transport, SettleQuiet(t) PROVE Matching'
  <2>1. /\ UNCHANGED <<loop, request, armings, recording>>
        /\ armed'[t] = Without(armed[t], {a \in armed[t] : KeyOf(a) = reporting})
        /\ \A u \in Transport : u # t => armed'[u] = armed[u]
    BY <1>b, <1>8 DEF SettleQuiet, Settle, TypeOK
  <2>2. OneArmingPerHandle'
    <3> DEFINE gone == {a \in armed[t] : KeyOf(a) = reporting}
    <3>1. /\ armed[t] \in SUBSET Arming
          /\ gone \in SUBSET armed[t]
          /\ armed'[t] = Without(armed[t], gone)
          /\ \A a, b \in armed[t] : a.handle = b.handle => a = b
      BY <1>b, <2>1 DEF Matching, OneArmingPerHandle, TypeOK
    <3> HIDE DEF gone
    <3>2. \A a, b \in armed'[t] : a.handle = b.handle => a = b
      BY <3>1, OneEachLess
    <3> QED
      BY <1>b, <2>1, <3>2 DEF Matching, OneArmingPerHandle
  <2> QED
    BY <1>b, <2>1, <2>2 DEF Matching, Received, MatchGoesToItsArming
<1>9. ASSUME NEW t \in Transport, SettleTimeout(t) PROVE Matching'
  <2>1. /\ UNCHANGED <<loop, request, armings, recording>>
        /\ armed'[t] = Without(armed[t], {a \in armed[t] : KeyOf(a) = reporting})
        /\ \A u \in Transport : u # t => armed'[u] = armed[u]
    BY <1>b, <1>9 DEF SettleTimeout, Settle, TypeOK
  <2>2. OneArmingPerHandle'
    <3> DEFINE gone == {a \in armed[t] : KeyOf(a) = reporting}
    <3>1. /\ armed[t] \in SUBSET Arming
          /\ gone \in SUBSET armed[t]
          /\ armed'[t] = Without(armed[t], gone)
          /\ \A a, b \in armed[t] : a.handle = b.handle => a = b
      BY <1>b, <2>1 DEF Matching, OneArmingPerHandle, TypeOK
    <3> HIDE DEF gone
    <3>2. \A a, b \in armed'[t] : a.handle = b.handle => a = b
      BY <3>1, OneEachLess
    <3> QED
      BY <1>b, <2>1, <3>2 DEF Matching, OneArmingPerHandle
  <2> QED
    BY <1>b, <2>1, <2>2 DEF Matching, Received, MatchGoesToItsArming
<1>10. ASSUME ReportAnswer PROVE Matching'
  <2>1. UNCHANGED <<armed, loop, request, armings, recording>>
    BY <1>10 DEF ReportAnswer
  <2> QED
    BY <1>b, <2>1 DEF Matching, Received, MatchGoesToItsArming, OneArmingPerHandle
<1>11. ASSUME NEW how \in {"finalise", "shutdown"}, EndSession(how) PROVE Matching'
  <2>1. UNCHANGED <<armed, loop, request, armings, recording>>
    BY <1>11 DEF EndSession
  <2> QED
    BY <1>b, <2>1 DEF Matching, Received, MatchGoesToItsArming, OneArmingPerHandle
<1>12. ASSUME NEW t \in Transport, StopTransport(t) PROVE Matching'
  <2>1. UNCHANGED <<armed, loop, request, armings, recording>>
    BY <1>12 DEF StopTransport
  <2> QED
    BY <1>b, <2>1 DEF Matching, Received, MatchGoesToItsArming, OneArmingPerHandle
<1>13. ASSUME NEW t \in Transport, JoinTransport(t) PROVE Matching'
  <2>1. UNCHANGED <<armed, loop, request, armings, recording>>
    BY <1>13 DEF JoinTransport
  <2> QED
    BY <1>b, <2>1 DEF Matching, Received, MatchGoesToItsArming, OneArmingPerHandle
<1>14. ASSUME NEW write \in {"none", "writer", "no writer", "fails"},
             FinaliseAnswer(write) PROVE Matching'
  <2>1. UNCHANGED <<armed, loop, request, armings, recording>>
    BY <1>14 DEF FinaliseAnswer
  <2> QED
    BY <1>b, <2>1 DEF Matching, Received, MatchGoesToItsArming, OneArmingPerHandle
<1>15. ASSUME ShutdownAnswer PROVE Matching'
  <2>1. UNCHANGED <<armed, loop, request, armings, recording>>
    BY <1>15 DEF ShutdownAnswer
  <2> QED
    BY <1>b, <2>1 DEF Matching, Received, MatchGoesToItsArming, OneArmingPerHandle
<1>16. ASSUME NEW t \in Transport, LoopTop(t) PROVE Matching'
  <2>1. /\ UNCHANGED <<armed, request, armings, recording>>
        /\ \A u \in Transport : loop'[u] \in {loop[u], "top", "polling", "ended"}
    BY <1>b, <1>16 DEF LoopTop, TypeOK
  <2> QED
    BY <1>b, <2>1 DEF Matching, Received, MatchGoesToItsArming, OneArmingPerHandle
<1>17. ASSUME NEW t \in Transport, PollNothing(t) PROVE Matching'
  <2>1. /\ UNCHANGED <<armed, request, armings, recording>>
        /\ \A u \in Transport : loop'[u] \in {loop[u], "top", "polling", "ended"}
    BY <1>b, <1>17 DEF PollNothing, TypeOK
  <2> QED
    BY <1>b, <2>1 DEF Matching, Received, MatchGoesToItsArming, OneArmingPerHandle
<1>18. ASSUME NEW t \in Transport, PollError(t) PROVE Matching'
  <2>1. /\ UNCHANGED <<armed, request, armings, recording>>
        /\ \A u \in Transport : loop'[u] \in {loop[u], "top", "polling", "ended"}
    BY <1>b, <1>18 DEF PollError, TypeOK
  <2> QED
    BY <1>b, <2>1 DEF Matching, Received, MatchGoesToItsArming, OneArmingPerHandle
<1>19. ASSUME NEW t \in Transport, NEW r \in Request, PollArrival(t, r) PROVE Matching'
  <2>1. /\ UNCHANGED <<armed, armings, recording>>
        /\ loop'[t] = "arrived" /\ request'[t] = r
        /\ \A u \in Transport : u # t => loop'[u] = loop[u] /\ request'[u] = request[u]
    BY <1>b, <1>19 DEF PollArrival, TypeOK
  <2> QED
    BY <1>b, <2>1 DEF Matching, Received, MatchGoesToItsArming, OneArmingPerHandle
<1>20. ASSUME NEW t \in Transport, TakeArmings(t) PROVE Matching'
  <2>1. /\ UNCHANGED <<armed, recording>>
        /\ loop[t] = "arrived"
        /\ \/ loop'[t] = "answering" /\ request'[t] = request[t]
           \/ loop'[t] = "top"
        /\ \A u \in Transport : u # t => /\ loop'[u] = loop[u]
                                         /\ request'[u] = request[u]
                                         /\ armings'[u] = armings[u]
    BY <1>b, <1>20 DEF TakeArmings, TypeOK
  <2> QED
    BY <1>b, <2>1 DEF Matching, Received, MatchGoesToItsArming, OneArmingPerHandle
<1>21. ASSUME NEW t \in Transport, NEW delivered \in BOOLEAN, Answer(t, delivered) PROVE Matching'
  <2>1. /\ UNCHANGED <<armed, request, armings>>
        /\ \A u \in Transport : u # t => /\ loop'[u] = loop[u]
                                         /\ recording'[u] = recording[u]
    BY <1>b, <1>21 DEF Answer, TypeOK
  <2>2. request[t] \in Request
    BY <1>b, <1>21 DEF Answer, Matching, Received
  <2>3. PICK a \in Best(request[t], armings[t]), outcome \in {"verified", "failed"} :
          recording' = [recording EXCEPT ![t] =
            [key |-> KeyOf(a), outcome |-> outcome,
             matched |-> Score[request[t]][KeyOf(a)].mismatches = 0]]
    BY <1>21 DEF Answer
  <2>4. recording'[t].matched = (Score[request[t]][KeyOf(a)].mismatches = 0)
    BY <1>b, <2>3 DEF TypeOK
  <2>5. ASSUME NEW b \in armings[t], Score[request[t]][KeyOf(b)].mismatches = 0
        PROVE  Score[request[t]][KeyOf(a)].mismatches = 0
    <3>1. KeyOf(a) \in Key /\ KeyOf(b) \in Key
      BY <1>b DEF Best, TypeOK, KeyOf, Key, Arming
    <3>2. /\ Score[request[t]][KeyOf(a)].mismatches \in Nat
          /\ Score[request[t]][KeyOf(b)].mismatches \in Nat
      BY <2>2, <3>1, ScoreAssumption
    <3>3. CASE a = b
      BY <2>5, <3>3
    <3>4. CASE a # b
      <4>1. Closer(request[t], a, b)
        BY <3>4 DEF Best
      <4> QED
        BY <2>5, <3>2, <4>1 DEF Closer
    <3> QED
      BY <3>3, <3>4
  <2>6. \A b \in armings[t] : Score[request[t]][KeyOf(b)].mismatches \in Nat
    <3>1. \A b \in armings[t] : KeyOf(b) \in Key
      BY <1>b DEF TypeOK, KeyOf, Key, Arming
    <3> QED
      BY <2>2, <3>1, ScoreAssumption
  <2>7. ~recording'[t].matched =>
          \A b \in armings[t] : Score[request[t]][KeyOf(b)].mismatches > 0
    <3>1. SUFFICES ASSUME ~recording'[t].matched, NEW b \in armings[t],
                          Score[request[t]][KeyOf(b)].mismatches = 0
                   PROVE  FALSE
      BY <2>6
    <3> QED
      BY <2>4, <2>5, <3>1
  <2>8. Received'
    BY <1>b, <2>1, <2>2 DEF Matching, Received
  <2>9. MatchGoesToItsArming'
    BY <1>b, <2>1, <2>7 DEF Matching, MatchGoesToItsArming
  <2> QED
    BY <1>b, <2>1, <2>8, <2>9 DEF Matching, OneArmingPerHandle
<1>22. ASSUME NEW t \in Transport, Record(t) PROVE Matching'
  <2>1. /\ armed' = armed /\ loop'[t] = "top"
        /\ \A u \in Transport : u # t => /\ loop'[u] = loop[u]
                                         /\ request'[u] = request[u]
                                         /\ armings'[u] = armings[u]
                                         /\ recording'[u] = recording[u]
    BY <1>b, <1>22 DEF Record, TypeOK
  <2> QED
    BY <1>b, <2>1 DEF Matching, Received, MatchGoesToItsArming, OneArmingPerHandle
<1>23. ASSUME UNCHANGED vars PROVE Matching'
  BY <1>b, <1>23 DEF vars, Matching, Received, MatchGoesToItsArming, OneArmingPerHandle
<1> HIDE DEF Dispatch, sessionVars, opVars, exchangeVars, loopVars, ghostVars
<1> QED
  BY <1>1, <1>2, <1>3, <1>4, <1>5, <1>6, <1>7, <1>8, <1>9, <1>10, <1>11,
     <1>12, <1>13, <1>14, <1>15, <1>16, <1>17, <1>18, <1>19, <1>20, <1>21, <1>22,
     <1>23
     DEF Next, Host, Dispatcher, Loop, Ended

-----------------------------------------------------------------------------
(* The theorems. *)

\* The initial state satisfies the inductive invariant.
LEMMA InvInit == Init => Inv
<1> SUFFICES ASSUME Init PROVE Inv
  OBVIOUS
<1>1. TypeOK
  BY TypeInit
<1>2. Phases
  BY DEF Init, Phases, Bound, IsNext
<1>3. Loops
  BY DEF Init, Loops, LoopOK
<1>4. Passives
  BY DEF Init, Passives, Keys
<1>5. EvidenceHeld
  BY DEF Init, EvidenceHeld, Held, Kept, NoRecord
<1>6. Quiet /\ AnswerStands
  BY DEF Init, Quiet, AnswerStands
<1>7. HonestContract
  BY DEF Init, HonestContract
<1> QED
  BY <1>1, <1>2, <1>3, <1>4, <1>5, <1>6, <1>7 DEF Inv

\* Every step keeps the inductive invariant.
LEMMA InvNext == Inv /\ [Next]_vars => Inv'
<1> SUFFICES ASSUME Inv, [Next]_vars PROVE Inv'
  OBVIOUS
<1> QED
  BY TypeNext, PhasesNext, LoopsNext, PassivesNext, EvidenceNext, QuietNext,
     AnswerStandsNext, HonestNext DEF Inv

\* The invariant holds in every behaviour of the session.
THEOREM Invariance == Spec => []Inv
<1> QED
  BY InvInit, InvNext, PTL DEF Spec

\* Type correctness, for every number of interactions and transports.
THEOREM TypeCorrect == Spec => []TypeOK
<1>1. Inv => TypeOK
  BY DEF Inv
<1> QED
  BY <1>1, Invariance, PTL

\* The honesty rule: finalise (ConsumerSession::contract) issues a contract
\* only if every selected variant was exercised on the wire, without a failed
\* exchange and without a failed verdict.
THEOREM Honesty == Spec => []HonestContract
<1>1. Inv => HonestContract
  BY DEF Inv
<1> QED
  BY <1>1, Invariance, PTL

\* What report_variant answered stays the status of the variant until it is
\* served or reported again, finalise included.
THEOREM AnswersStand == Spec => []AnswerStands
<1>1. Inv => AnswerStands
  BY DEF Inv
<1> QED
  BY <1>1, Invariance, PTL

\* No exchange is lost by stop_transports: at the end the evidence held by the
\* interactions is the summary of what happened on the wire.
THEOREM Completeness == Spec => []EvidenceComplete
<1>1. Inv => EvidenceComplete
  <2> SUFFICES ASSUME Inv, session = "ended" PROVE \A k \in Key : exercised[k] = Summary(k)
    BY DEF EvidenceComplete
  <2>1. Bound = {} /\ op # "settling"
    BY DEF Inv, Phases
  <2> QED
    BY <2>1, EndEvidence DEF Inv
<1> QED
  BY <1>1, Invariance, PTL

\* A session that ended has stopped its transport components, joined their
\* loops and drained their evidence.
THEOREM NothingLeft == Spec => []NothingLeftBehind
<1>1. Inv => NothingLeftBehind
  <2> SUFFICES ASSUME Inv, session = "ended" PROVE NothingLeftBehind
    BY DEF NothingLeftBehind
  <2>1. \A t \in Transport : bound[t] = NoKind
    BY DEF Inv, Phases, Bound
  <2>2. TypeOK /\ Loops
    BY DEF Inv
  <2>3. live = {}
    BY <2>1, <2>2 DEF TypeOK, Loops, LoopOK
  <2>4. \A t \in Transport : /\ loop[t] \in {"none", "ended"}
                             /\ \A k \in Key : outcomes[t][k] = "none"
    BY <2>1, <2>2 DEF Loops, LoopOK
  <2> QED
    BY <2>3, <2>4 DEF NothingLeftBehind
<1> QED
  BY <1>1, Invariance, PTL

\* A report ends the variant's run: no exchange of it happens between the
\* answer of report_variant and the next serve_variant or report.
THEOREM RunsEnd == Spec => ReportEndsRun
<1>1. Inv /\ [Next]_vars => [RunEnded]_vars
  BY RunEndedNext
<1>2. Spec => [][RunEnded]_vars
  BY <1>1, Invariance, PTL DEF Spec
<1> QED
  BY <1>2 DEF ReportEndsRun, RunEnded

\* Matching is an invariant of the loops.
THEOREM MatchingInvariance == Spec => []Matching
<1>1. Init => Matching
  BY DEF Init, Matching, Received, MatchGoesToItsArming, OneArmingPerHandle
<1> QED
  BY <1>1, MatchingNext, Invariance, PTL DEF Spec

\* `best` (exchange.rs) never fails a variant with an arrival that matches
\* another one.
THEOREM MatchesFound == Spec => []MatchGoesToItsArming
<1>1. Matching => MatchGoesToItsArming
  BY DEF Matching
<1> QED
  BY <1>1, MatchingInvariance, PTL

\* ExchangeState::arm leaves a handle with one arming on each transport.
THEOREM OneArming == Spec => []OneArmingPerHandle
<1>1. Matching => OneArmingPerHandle
  BY DEF Matching
<1> QED
  BY <1>1, MatchingInvariance, PTL

====
