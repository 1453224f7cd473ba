\* Two tasks, which may panic, beside a host that goes on polling one stream or
\* both.
SPECIFICATION PollingHostSpec
CONSTANTS
  MaxStreams = 2
  MaxInstances = 1
  MaxEmits = 1
  BUFFER_CAP = 2
  DEFAULT_MAX = 2
  Maxima = {0}
  Lists <- EachAndBoth
  Reports = {TRUE}
  Bindings = {1}
  Outcomes <- Outcome
  MayPanic = TRUE
INVARIANT EndsWhenDelivered
INVARIANT ReportsArrive
INVARIANT TransportsAccounted
PROPERTY DeliversExactlyOnce
PROPERTY PollReturns
PROPERTY RunReachesHost
