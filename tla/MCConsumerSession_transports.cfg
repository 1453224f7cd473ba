\* One interaction served by two transports at once: nothing is lost, every
\* report is answered, and every session ends.
CONSTANTS
  MaxInteractions = 1
  MaxTransports = 2
  Kind = {"http"}
  Variant = {"base"}
  Base = "base"
  Identity = {"order"}
  Specs <- MCOneInteraction
  Declares = {TRUE}
  Request = {"any", "odd"}
  Score <- MCScore
SPECIFICATION FairSpec
INVARIANTS
  EvidenceComplete
  NothingLeftBehind
PROPERTIES
  CallsReturn
