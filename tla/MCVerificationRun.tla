--------------------------- MODULE MCVerificationRun ---------------------------
(***************************************************************************)
(* Instances of VerificationRun for TLC: what a host asks to verify.       *)
(***************************************************************************)
EXTENDS VerificationRun

CONSTANTS Orders, Stock

Driven(states) == [kind |-> "driven", states |-> states]
Produced       == [kind |-> "produced", states |-> <<Orders>>]
Broken         == [kind |-> "broken", states |-> <<>>]

\* Hooks that may do anything at the points of an exchange, and the defaults.
AnyHooks == [p \in Point |-> {"abort-run", "fail-exchange"}]
DefaultHooks ==
  [p \in Point |-> CASE p = "before-verification" -> {"abort-run"}
                     [] p \in {"state-teardown", "after-verification"} -> {"warn"}
                     [] OTHER -> {"fail-exchange"}]

\* Two documents from a broker: one with two variants, the second with one.
TwoDocuments ==
  [broker |-> TRUE, replays |-> <<Driven(<<Orders, Stock>>), Broken, Produced>>,
   ends |-> <<2, 3>>, excluded |-> {}, pending |-> {}, publish |-> TRUE,
   publishable |-> {1, 2}, hooks |-> AnyHooks, handled |-> {Orders},
   failUnhandled |-> FALSE, stopOnFailure |-> FALSE]

\* Nothing to refuse, something filtered out, something pending, no hook for a
\* state, such a variant failing, the first failure ending the run.
Broadened(r) ==
  {[r EXCEPT !.replays[2] = second, !.excluded = excluded, !.pending = pending,
             !.stopOnFailure = stop, !.handled = handled, !.failUnhandled = fail] :
     second \in {Broken, Driven(<<>>)}, excluded \in {{}, {2}, {3}},
     pending \in {{}, {1, 2}}, stop \in BOOLEAN,
     handled \in {{Orders}, {Orders, Stock}}, fail \in BOOLEAN}

\* Documents that are not published, one that records no variant, and none.
Unpublished   == [TwoDocuments EXCEPT !.broker = FALSE, !.publishable = {}]
EmptyDocument == [TwoDocuments EXCEPT !.ends = <<2, 2, 3>>,
                                      !.publishable = {1, 3}]
NoDocuments   == [TwoDocuments EXCEPT !.replays = <<>>, !.ends = <<>>]

MCRequests ==
  Broadened(TwoDocuments) \cup {Unpublished, EmptyDocument, NoDocuments}

\* One variant, default hooks.
MCDefaults ==
  {[TwoDocuments EXCEPT !.replays = <<Driven(<<Orders>>)>>, !.ends = <<1>>,
      !.broker = FALSE, !.publishable = {}, !.hooks = DefaultHooks]}
====
