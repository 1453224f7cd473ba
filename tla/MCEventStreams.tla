--------------------------- MODULE MCEventStreams ---------------------------
(* Small instances of EventStreams: a buffer of two events, so that a task *)
(* is paused, a poll of both streams leaves events of one behind,          *)
(* and a terminal event waits in a full buffer.                            *)
EXTENDS EventStreams

OnlyStarted  == {"started"}
SafeOutcomes == Outcome \ {"component missing"}

OneStream   == {<<1>>, <<1, 1>>}
EachAndBoth == {<<1>>, <<2>>, <<1, 2>>}
=============================================================================
