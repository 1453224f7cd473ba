\* One interaction with two variants, reselected and rearmed at will, or two
\* interactions, armed on one transport or exercised by the host.
CONSTANTS
  MaxInteractions = 2
  MaxTransports = 1
  Kind = {"http", "queue"}
  Variant = {"base", "absent"}
  Base = "base"
  Identity = {"order", "list", "event", "note"}
  Specs <- MCOneOrMore
  Declares = {TRUE}
  Request = {"first", "odd"}
  Score <- MCScore
SPECIFICATION Spec
CONSTRAINT Scenario
INVARIANTS
  HonestContract
  MatchGoesToItsArming
  AnswerStands
  OneArmingPerHandle
PROPERTIES
  ReportEndsRun
