\* engine/shutdown with a run in flight.
SPECIFICATION FairSpec
CONSTANTS
  MaxStreams = 1
  MaxInstances = 1
  MaxEmits = 2
  BUFFER_CAP = 2
  DEFAULT_MAX = 1
  Maxima = {0, 3}
  Lists <- OneStream
  Reports = {FALSE}
  Bindings = {1}
  Outcomes <- OnlyStarted
  MayPanic = FALSE
PROPERTY LeftToFinish
