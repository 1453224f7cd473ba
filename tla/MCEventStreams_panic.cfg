\* A run that panics.
SPECIFICATION Spec
CONSTANTS
  MaxStreams = 1
  MaxInstances = 1
  MaxEmits = 1
  BUFFER_CAP = 2
  DEFAULT_MAX = 1
  Maxima = {0, 3}
  Lists <- OneStream
  Reports = {FALSE}
  Bindings = {1}
  Outcomes <- SafeOutcomes
  MayPanic = TRUE
INVARIANT TransportsReleased
