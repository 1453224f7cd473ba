------------------------- MODULE MCConsumerSession -------------------------
(***************************************************************************)
(* Instances of ConsumerSession for TLC: the interactions a host may add   *)
(* and the scores their plans give a request.                              *)
(***************************************************************************)
EXTENDS ConsumerSession

Passive(kind, identity, space) ==
  [kind |-> kind, mode |-> "passive", identity |-> identity, space |-> space,
   converted |-> FALSE]

\* Two passive interactions of one kind, the second converted from a pact, and
\* one of each other mode.
MCModes == {Passive("http", "order", {"base"}),
            [Passive("http", "list", {"base"}) EXCEPT !.converted = TRUE],
            [Passive("queue", "event", {"base"}) EXCEPT !.mode = "emissive"],
            [Passive("queue", "note", {"base"}) EXCEPT !.mode = "untransported"]}

\* One interaction, with one variant or two.
MCOneInteraction == {Passive("http", "order", {"base"})}
MCTwoVariants    == {Passive("http", "order", {"base", "absent"})}

MCOneOrMore == MCTwoVariants \cup MCModes

\* The host adds one interaction with two variants, over HTTP, and a request may
\* match neither; or it adds a passive interaction and one of any mode.
Varied == \E h \in 1..MaxInteractions : spec[h] \in MCTwoVariants
Scenario ==
  IF Varied
  THEN /\ ~refused
       /\ \A h \in 2..MaxInteractions : spec[h] = NoSpec
       /\ \A t \in 1..MaxTransports : bound[t] # "queue"
  ELSE /\ \A t \in 1..MaxTransports : request[t] # "odd"
       /\ spec[1] \in {NoSpec, Passive("http", "order", {"base"})}

MCKeys == (1..MaxInteractions) \X Variant

\* "first" matches the first interaction fully, and the second with one check
\* fewer passed; "any" matches both equally; "odd" matches neither.
MCScore ==
  [r \in Request |-> [k \in MCKeys |->
     CASE r = "first" -> [mismatches |-> IF k[1] = 1 THEN 0 ELSE 1,
                          passed |-> IF k[1] = 1 THEN 1 ELSE 2]
       [] r = "any"   -> [mismatches |-> 0, passed |-> 1]
       [] r = "odd"   -> [mismatches |-> IF k[2] = Base THEN 2 ELSE 1,
                          passed |-> 0]]]
====
