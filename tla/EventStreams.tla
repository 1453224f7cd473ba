----------------------------- MODULE EventStreams -----------------------------
(***************************************************************************)
(* The work the engine runs beside the frame stream and the events it      *)
(* reports: verification/verify and broker/publish-contracts start a       *)
(* background task each (protocol/verification.rs, protocol/broker.rs),    *)
(* the task appends to a bounded buffer (protocol/events.rs), and          *)
(* events/poll drains it (protocol/engine.rs).                             *)
(*                                                                         *)
(* The dispatcher and one thread per task run concurrently and share a     *)
(* stream's buffer. A step is a section one thread runs under the buffer's *)
(* lock, or a part of a handler no other thread can observe.               *)
(*                                                                         *)
(* What is abstracted: an event is its number, its kind and its `last`     *)
(* flag; a run is the number of events it emits and the transports it      *)
(* drives; and a request the engine answers with an error and no change of *)
(* state is no step at all.                                                *)
(***************************************************************************)
EXTENDS Naturals, Sequences, FiniteSets

CONSTANTS
  MaxStreams,   \* bound on the tasks started
  MaxInstances, \* bound on the transports started for runs
  MaxEmits,     \* bound on the events a task emits before its terminal one
  BUFFER_CAP,   \* events one stream buffers
  DEFAULT_MAX,  \* events one poll returns when the host names no maximum
  Maxima,       \* the `max` a host may name, 0 for none
  Lists,        \* the lists of streams a host may poll
  Reports,      \* whether a host may ask for a report
  Bindings,     \* how many transports a `verify` may bind
  Outcomes,     \* how a `verify` that reaches its transports may end
  MayPanic      \* whether a run may panic

Stream    == 1..MaxStreams
Instance  == 1..MaxInstances
EventKind == {"event", "report", "finished"}
Event     == [seq: Nat, kind: EventKind, last: BOOLEAN]
Outcome   == {"started", "start failed", "component missing",
              "hooks refused", "unspawned"}

ASSUME StreamBounds ==
  /\ MaxStreams \in Nat /\ MaxInstances \in Nat /\ MaxEmits \in Nat
  /\ BUFFER_CAP \in Nat \ {0} /\ DEFAULT_MAX \in 1..BUFFER_CAP
ASSUME HostChoices ==
  /\ Maxima \subseteq Nat /\ Bindings \subseteq Nat /\ Reports \subseteq BOOLEAN
  /\ Lists \subseteq Seq(Stream) \ {<<>>}
  /\ Outcomes \subseteq Outcome /\ MayPanic \in BOOLEAN

VARIABLES
  \* The engine's registries.
  nextStream, nextInstance,
  registered,    \* the streams events/poll knows
  shutDown,
  \* One background task per stream.
  work,          \* "none", "verification" or "publication"
  observed,      \* whether a report observes the stream
  targets,       \* the transports the run owns
  live,          \* the transports that are started
  thread,        \* "none", "working", "stopped", "finishing" or "ended"
  emits,         \* events emitted so far
  queue,         \* what the current append has still to push
  panicked,
  \* The buffer (struct Inner).
  nextSeq, pending, producedLast, deliveredLast,
  \* The dispatcher inside events/poll.
  pc,            \* "idle", "draining", "waiting" or "joining"
  names,         \* the streams named
  at,            \* which of them is next
  room,          \* how many events the answer has room for
  wait,          \* whether the call may still wait for an event
  drained,       \* the events of the answer, by stream
  joining,       \* the ended streams whose task is still to be joined
  \* History, read by no action: the events the host has received, how many
  \* reports the observer gave before the terminal event, and the transports of
  \* the calls a missing component ended.
  received, said, stranded

engineVars == <<nextStream, nextInstance, registered, shutDown>>
taskVars   == <<work, observed, targets, thread, emits, queue, panicked>>
bufferVars == <<nextSeq, pending, producedLast, deliveredLast>>
pollVars   == <<pc, names, at, room, wait, drained, joining>>
transportVars == <<live, stranded>>
vars == <<engineVars, taskVars, transportVars, bufferVars, pollVars, received,
          said>>

-----------------------------------------------------------------------------
\* Engine::new.
Init ==
  /\ nextStream = 1 /\ nextInstance = 1
  /\ registered = {}
  /\ shutDown = FALSE
  /\ work = [s \in Stream |-> "none"]
  /\ observed = [s \in Stream |-> FALSE]
  /\ targets = [s \in Stream |-> {}]
  /\ live = {} /\ stranded = {}
  /\ thread = [s \in Stream |-> "none"]
  /\ emits = [s \in Stream |-> 0]
  /\ queue = [s \in Stream |-> <<>>]
  /\ panicked = [s \in Stream |-> FALSE]
  /\ nextSeq = [s \in Stream |-> 0]
  /\ pending = [s \in Stream |-> <<>>]
  /\ producedLast = [s \in Stream |-> FALSE]
  /\ deliveredLast = [s \in Stream |-> FALSE]
  /\ pc = "idle"
  /\ names = <<>>
  /\ at = 1 /\ room = 0 /\ wait = FALSE
  /\ drained = [s \in Stream |-> <<>>]
  /\ joining = {}
  /\ received = [s \in Stream |-> <<>>]
  /\ said = [s \in Stream |-> 0]

Dispatch == pc = "idle" /\ ~shutDown

\* open_stream, and the task spawned on the stream.
Open(kind, report, bindings) ==
  /\ nextStream \in Stream
  /\ nextStream' = nextStream + 1
  /\ registered' = registered \cup {nextStream}
  /\ work' = [work EXCEPT ![nextStream] = kind]
  /\ observed' = [observed EXCEPT ![nextStream] = report]
  /\ targets' = [targets EXCEPT ![nextStream] = bindings]
  /\ thread' = [thread EXCEPT ![nextStream] = "working"]

\* verification/verify: its transports are started in turn, then the hooks are
\* resolved, and the run is spawned on a stream of its own. Of the ways it can
\* fail, only a missing component answers without stopping what it started.
Verify(n, report, outcome) ==
  LET mine == nextInstance..(nextInstance + n - 1)
  IN  /\ Dispatch
      /\ nextInstance + n <= MaxInstances + 1
      /\ nextInstance' = nextInstance + n
      /\ live' = IF outcome \in {"started", "component missing"}
                 THEN live \cup mine ELSE live
      /\ stranded' = IF outcome = "component missing"
                     THEN stranded \cup mine ELSE stranded
      /\ CASE outcome = "started" -> Open("verification", report, mine)
           [] outcome = "unspawned" ->
                /\ nextStream \in Stream
                /\ nextStream' = nextStream + 1
                /\ UNCHANGED <<registered, work, observed, targets, thread>>
           [] OTHER ->
                UNCHANGED <<nextStream, registered, work, observed, targets,
                            thread>>
      /\ UNCHANGED <<shutDown, emits, queue, panicked, bufferVars, pollVars,
                     received, said>>

\* broker/publish-contracts: no transport, no report.
PublishContracts ==
  /\ Dispatch
  /\ Open("publication", FALSE, {})
  /\ UNCHANGED <<nextInstance, shutDown, emits, queue, panicked, transportVars,
                 bufferVars, pollVars, received, said>>

\* engine/shutdown: the registries are emptied, and what runs is left to run.
Shutdown ==
  /\ Dispatch
  /\ registered' = {}
  /\ shutDown' = TRUE
  /\ UNCHANGED <<nextStream, nextInstance, taskVars, transportVars, bufferVars,
                 pollVars, received, said>>

-----------------------------------------------------------------------------
(* The task of stream s. *)

\* Mutant of StartAppend: the terminal event goes before what is said of it.
TerminalFirst(s, kind) ==
  \E follow \in IF observed[s] THEN {<<>>, <<"report">>} ELSE {<<>>} :
    /\ queue[s] = <<>>
    /\ queue' = [queue EXCEPT ![s] = <<kind>> \o follow]
    /\ said' = [said EXCEPT ![s] = IF producedLast[s] THEN @ ELSE @ + Len(follow)]

\* Stream::append: an event and what the observer says of it, which comes
\* after it unless it is the terminal event.
StartAppend(s, kind) ==
  \E follow \in IF observed[s] THEN {<<>>, <<"report">>} ELSE {<<>>} :
    /\ queue[s] = <<>>
    /\ queue' = [queue EXCEPT ![s] = IF kind = "finished" THEN follow \o <<kind>>
                                                         ELSE <<kind>> \o follow]
    /\ said' = [said EXCEPT ![s] = IF producedLast[s] THEN @ ELSE @ + Len(follow)]

\* The run's or the publication's work, an event at a time.
Emit(s) ==
  /\ thread[s] = "working"
  /\ emits[s] < MaxEmits
  /\ emits' = [emits EXCEPT ![s] = @ + 1]
  /\ StartAppend(s, "event")
  /\ UNCHANGED <<engineVars, work, observed, targets, thread, panicked,
                 transportVars, bufferVars, pollVars, received>>

\* stop_targets, at the end of `run` and when a fetch failed.
StopTargets(s) ==
  /\ thread[s] = "working"
  /\ work[s] = "verification"
  /\ queue[s] = <<>>
  /\ live' = live \ targets[s]
  /\ thread' = [thread EXCEPT ![s] = "stopped"]
  /\ UNCHANGED <<engineVars, work, observed, targets, emits, queue, panicked,
                 stranded, bufferVars, pollVars, received, said>>

\* Mutant of Finish: the terminal event is not kept for the end.
FinishEarly(s) ==
  /\ thread[s] \in {"working", "stopped"}
  /\ StartAppend(s, "finished")
  /\ thread' = [thread EXCEPT ![s] = "finishing"]
  /\ UNCHANGED <<engineVars, work, observed, targets, emits, panicked,
                 transportVars, bufferVars, pollVars, received>>

\* stream.finish, once a run has stopped its transports.
Finish(s) ==
  /\ \/ thread[s] = "stopped"
     \/ thread[s] = "working" /\ work[s] = "publication"
  /\ StartAppend(s, "finished")
  /\ thread' = [thread EXCEPT ![s] = "finishing"]
  /\ UNCHANGED <<engineVars, work, observed, targets, emits, panicked,
                 transportVars, bufferVars, pollVars, received>>

\* guarded: a run that panics, even after it finished, ends its stream.
Panic(s) ==
  /\ MayPanic
  /\ work[s] = "verification"
  /\ thread[s] \in {"working", "stopped", "finishing"}
  /\ ~panicked[s]
  /\ panicked' = [panicked EXCEPT ![s] = TRUE]
  /\ StartAppend(s, "finished")
  /\ thread' = [thread EXCEPT ![s] = "finishing"]
  /\ UNCHANGED <<engineVars, work, observed, targets, emits, transportVars,
                 bufferVars, pollVars, received>>

\* The next event of the append, numbered when it enters the buffer.
NextEvent(s) ==
  [seq |-> nextSeq[s] + 1, kind |-> Head(queue[s]),
   last |-> Head(queue[s]) = "finished"]

\* Mutant of Push: a full buffer loses the event, and the terminal event does
\* not close the stream.
PushLossy(s) ==
  /\ queue[s] # <<>>
  /\ queue' = [queue EXCEPT ![s] = Tail(@)]
  /\ nextSeq' = [nextSeq EXCEPT ![s] = @ + 1]
  /\ pending' = [pending EXCEPT ![s] = IF Len(@) < BUFFER_CAP
                                       THEN Append(@, NextEvent(s)) ELSE @]
  /\ producedLast' = [producedLast EXCEPT ![s] = NextEvent(s).last]
  /\ UNCHANGED <<engineVars, work, observed, targets, thread, emits, panicked,
                 transportVars, deliveredLast, pollVars, received, said>>

\* Stream::push: dropped after the terminal event, else waits for room.
Push(s) ==
  /\ queue[s] # <<>>
  /\ queue' = [queue EXCEPT ![s] = Tail(@)]
  /\ IF producedLast[s]
     THEN UNCHANGED <<nextSeq, pending, producedLast>>
     ELSE /\ Len(pending[s]) < BUFFER_CAP
          /\ nextSeq' = [nextSeq EXCEPT ![s] = @ + 1]
          /\ pending' = [pending EXCEPT ![s] = Append(@, NextEvent(s))]
          /\ producedLast' = [producedLast EXCEPT ![s] = NextEvent(s).last]
  /\ UNCHANGED <<engineVars, work, observed, targets, thread, emits, panicked,
                 transportVars, deliveredLast, pollVars, received, said>>

\* The task returns.
EndTask(s) ==
  /\ thread[s] = "finishing"
  /\ queue[s] = <<>>
  /\ thread' = [thread EXCEPT ![s] = "ended"]
  /\ UNCHANGED <<engineVars, work, observed, targets, emits, queue, panicked,
                 transportVars, bufferVars, pollVars, received, said>>

-----------------------------------------------------------------------------
(* events/poll. *)

Least(m, n) == IF m <= n THEN m ELSE n

\* Mutant of PollMax: no maximum is taken for a maximum of none.
PollMaxUnset(max) == Least(max, BUFFER_CAP)

\* Poll::max.
PollMax(max) == IF max = 0 THEN DEFAULT_MAX ELSE Least(max, BUFFER_CAP)

\* Every named stream is registered, or the call is refused.
PollStart(list, max, mayWait) ==
  /\ Dispatch
  /\ \A i \in 1..Len(list) : list[i] \in registered
  /\ pc' = "draining"
  /\ names' = list
  /\ at' = 1
  /\ room' = PollMax(max)
  /\ wait' = mayWait
  /\ drained' = [s \in Stream |-> <<>>]
  /\ UNCHANGED <<engineVars, taskVars, transportVars, bufferVars, joining,
                 received, said>>

\* Mutant of Drain: a stream whose terminal event is in the buffer has ended.
DrainEndsEarly(s, n) ==
  /\ drained' = [drained EXCEPT ![s] = @ \o SubSeq(pending[s], 1, n)]
  /\ pending' = [pending EXCEPT ![s] = SubSeq(@, n + 1, Len(@))]
  /\ deliveredLast' = [deliveredLast EXCEPT ![s] = @ \/ producedLast[s]]

\* Stream::drain.
Drain(s, n) ==
  /\ drained' = [drained EXCEPT ![s] = @ \o SubSeq(pending[s], 1, n)]
  /\ pending' = [pending EXCEPT ![s] = SubSeq(@, n + 1, Len(@))]
  /\ deliveredLast' = [deliveredLast EXCEPT ![s] =
                         @ \/ \E i \in 1..n : pending[s][i].last]

\* The next named stream, while the answer has room.
PollDrain ==
  /\ pc = "draining"
  /\ at <= Len(names) /\ room > 0
  /\ LET s == names[at]
         n == Least(room, Len(pending[s]))
     IN  Drain(s, n) /\ room' = room - n
  /\ at' = at + 1
  /\ UNCHANGED <<engineVars, taskVars, transportVars, nextSeq, producedLast,
                 pc, names, wait, joining, received, said>>

Drained == at > Len(names) \/ room = 0
Empty   == \A s \in Stream : drained[s] = <<>>

\* Mutant of PollWait: the call may wait any number of times.
PollWaitAgain ==
  /\ pc = "draining" /\ Drained
  /\ Empty /\ wait
  /\ pc' = "waiting"
  /\ UNCHANGED <<engineVars, taskVars, transportVars, bufferVars, names, at,
                 room, wait, drained, joining, received, said>>

\* Nothing was pending and the call may wait: wait on the first stream.
PollWait ==
  /\ pc = "draining" /\ Drained
  /\ Empty /\ wait
  /\ pc' = "waiting"
  /\ wait' = FALSE
  /\ UNCHANGED <<engineVars, taskVars, transportVars, bufferVars, names, at,
                 room, drained, joining, received, said>>

Ready(s) == pending[s] # <<>> \/ producedLast[s]

\* wait_for_event returns, because there is something or because wait-ms is
\* over; the streams are then drained once more.
Again ==
  /\ pc' = "draining"
  /\ at' = 1
  /\ UNCHANGED <<engineVars, taskVars, transportVars, bufferVars, names, room,
                 wait, drained, joining, received, said>>
PollWake    == pc = "waiting" /\ Ready(names[1]) /\ Again
PollTimeout == pc = "waiting" /\ ~Ready(names[1]) /\ Again

\* Streams whose terminal event was drained are forgotten; their tasks are
\* joined before the answer.
PollPrune ==
  /\ pc = "draining" /\ Drained
  /\ ~(Empty /\ wait)
  /\ pc' = "joining"
  /\ joining' = {s \in registered : deliveredLast[s]}
  /\ registered' = registered \ joining'
  /\ names' = <<>> /\ at' = 1 /\ room' = 0 /\ wait' = FALSE
  /\ UNCHANGED <<nextStream, nextInstance, shutDown, taskVars, transportVars,
                 bufferVars, drained, received, said>>

PollJoin(s) ==
  /\ pc = "joining"
  /\ s \in joining
  /\ thread[s] = "ended"
  /\ joining' = joining \ {s}
  /\ UNCHANGED <<engineVars, taskVars, transportVars, bufferVars, pc, names,
                 at, room, wait, drained, received, said>>

\* The answer reaches the host.
PollAnswer ==
  /\ pc = "joining"
  /\ joining = {}
  /\ pc' = "idle"
  /\ received' = [s \in Stream |-> received[s] \o drained[s]]
  /\ drained' = [s \in Stream |-> <<>>]
  /\ UNCHANGED <<engineVars, taskVars, transportVars, bufferVars, names, at,
                 room, wait, joining, said>>

-----------------------------------------------------------------------------
Task(s) ==
  \/ Emit(s) \/ StopTargets(s) \/ Finish(s) \/ Panic(s) \/ Push(s) \/ EndTask(s)

Poll ==
  \/ PollDrain \/ PollWait \/ PollWake \/ PollTimeout \/ PollPrune \/ PollAnswer
  \/ \E s \in Stream : PollJoin(s)

\* The engine answers nothing any more.
Over == shutDown /\ UNCHANGED vars

Next ==
  \/ \E n \in Bindings, report \in Reports, outcome \in Outcomes :
       Verify(n, report, outcome)
  \/ PublishContracts
  \/ Shutdown
  \/ \E list \in Lists, max \in Maxima, mayWait \in BOOLEAN :
       PollStart(list, max, mayWait)
  \/ Poll
  \/ \E s \in Stream : Task(s)
  \/ Over

Spec == Init /\ [][Next]_vars

(* Fairness: the dispatcher goes on with a poll, and a task goes on with an *)
(* append and, once its work is over, to its end. How long the work takes is *)
(* the provider's or the broker's affair, and nothing has to panic.         *)
FairSpec ==
  /\ Spec
  /\ WF_vars(Poll)
  /\ \A s \in Stream : /\ WF_vars(Push(s)) /\ WF_vars(EndTask(s))
                         /\ WF_vars(thread[s] = "stopped" /\ Finish(s))

\* A host that goes on polling every stream until it ends (spec 9.6).
PollingHostSpec ==
  /\ FairSpec
  /\ \A s \in Stream :
       SF_vars(\E max \in Maxima, mayWait \in BOOLEAN : PollStart(<<s>>, max, mayWait))

-----------------------------------------------------------------------------
(* Properties. *)

\* The types of the variables; a buffer holds at most BUFFER_CAP events.
TypeOK ==
  /\ nextStream \in 1..(MaxStreams + 1)
  /\ nextInstance \in 1..(MaxInstances + 1)
  /\ registered \subseteq Stream
  /\ shutDown \in BOOLEAN
  /\ work \in [Stream -> {"none", "verification", "publication"}]
  /\ observed \in [Stream -> BOOLEAN]
  /\ targets \in [Stream -> SUBSET Instance]
  /\ live \subseteq Instance /\ stranded \subseteq Instance
  /\ thread \in [Stream -> {"none", "working", "stopped", "finishing", "ended"}]
  /\ emits \in [Stream -> 0..MaxEmits]
  /\ queue \in [Stream -> Seq(EventKind)]
  /\ panicked \in [Stream -> BOOLEAN]
  /\ nextSeq \in [Stream -> Nat]
  /\ pending \in [Stream -> Seq(Event)]
  /\ \A s \in Stream : Len(pending[s]) <= BUFFER_CAP
  /\ producedLast \in [Stream -> BOOLEAN]
  /\ deliveredLast \in [Stream -> BOOLEAN]
  /\ pc \in {"idle", "draining", "waiting", "joining"}
  /\ names \in Seq(Stream)
  /\ at \in Nat \ {0} /\ room \in Nat /\ wait \in BOOLEAN
  /\ drained \in [Stream -> Seq(Event)]
  /\ joining \subseteq Stream
  /\ received \in [Stream -> Seq(Event)]
  /\ said \in [Stream -> Nat]

Terminated(events) == events # <<>> /\ events[Len(events)].last

\* What a stream has said, wherever it is by now, and how much the host has.
Said == [s \in Stream |-> received[s] \o drained[s] \o pending[s]]
Delivered == [s \in Stream |-> Len(received[s])]

Delivery == INSTANCE EventDelivery WITH log <- Said, delivered <- Delivered

\* Spec 9.2 and 9.3, through every interleaving of the tasks with a poll over
\* several streams: numbers without a gap, nothing after the terminal event,
\* delivery in order and exactly once, a full buffer included.
DeliversExactlyOnce == Delivery!Spec

\* Spec 9.1 and handle_poll: a stream can be polled until the host has its
\* terminal event, and not after; only a shutdown ends it before.
EndsWhenDelivered ==
  pc = "idle" /\ ~shutDown =>
    \A s \in Stream :
      thread[s] # "none" => (s \in registered <=> ~Terminated(received[s]))

ReportsIn(events) == Cardinality({i \in 1..Len(events) : events[i].kind = "report"})

\* Stream::append: a host that has the terminal event has every report the
\* observer gave of the run, the one on the terminal event included.
ReportsArrive ==
  \A s \in Stream : Terminated(received[s]) => said[s] = ReportsIn(received[s])

\* Spec 7.1, and the comments on stop_targets and handle_poll: a started
\* transport belongs to a run whose terminal event the host does not have.
TransportsReleased ==
  \A i \in live : \E s \in Stream :
    i \in targets[s] /\ ~Terminated(received[s])

\* What is kept of it: a started transport belongs to such a run, to a run that
\* panicked, whose stream is ended without its transports, or to a call that a
\* missing component ended after some of its transports were started. Every
\* other way a call or a run can end has stopped its own.
TransportsAccounted ==
  \A i \in live \ stranded : \E s \in Stream :
    i \in targets[s] /\ (Terminated(received[s]) => panicked[s])

\* handle_poll answers: neither its wait, on a run that may take for ever, nor
\* the join of a task holds it up.
PollReturns == pc # "idle" ~> pc = "idle"

\* Spec 9.6, "a run always ends its stream": a host that goes on polling gets
\* the terminal event of a run that is over, however small the buffer is.
RunReachesHost ==
  \A s \in Stream :
    thread[s] \in {"stopped", "finishing"} ~> (Terminated(received[s]) \/ shutDown)

\* What handle_shutdown says of a run in flight: it is "left to finish on its
\* own thread". A run with only its terminal event to append would finish.
LeftToFinish ==
  \A s \in Stream : shutDown /\ thread[s] = "finishing" ~> thread[s] = "ended"

=============================================================================
