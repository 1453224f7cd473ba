------------------------------ MODULE HttpServe ------------------------------
(***************************************************************************)
(* The serve role of the HTTP transport component (component-http/src/     *)
(* lib.rs and serve.rs): each served instance runs a server on a thread of *)
(* its own, a request is collected and put on a channel, poll-inbound      *)
(* takes it from there and gives it an event id, and reply or dispose      *)
(* completes the one-shot channel its connection waits on. One lock        *)
(* guards the instances; poll-inbound waits, and stop joins the server's   *)
(* thread, with that lock released.                                        *)
(*                                                                         *)
(* A step is what one thread does under the lock, one task of the server's *)
(* single-threaded runtime does between two awaits, or one operation on a  *)
(* channel. One caller polls an instance, as the engine's exchange loop    *)
(* does; replies, disposals and the stop come from anywhere. Instance      *)
(* names are never used again (the engine numbers them).                   *)
(*                                                                         *)
(* What is abstracted: what a request and an answer carry, beyond whether  *)
(* the answer is the host's reply or an error status; a call the component *)
(* refuses without a change of state is no step.                           *)
(***************************************************************************)
EXTENDS Naturals, Sequences

CONSTANTS Instance, Request,
          Target  \* the instance each request is sent to

ASSUME TargetServes == Target \in [Request -> Instance] /\ "stopped" \notin Request

VARIABLES
  \* One server per instance.
  server,   \* "none", "serving" or "ended"
  stop,     \* "none", "joining" or "done": the call that stops it
  arrivals, \* the channel: requests collected and not polled
  pending,  \* the requests waiting for an answer, by event
  next_event,
  \* The call of poll-inbound in progress on each instance.
  poll,     \* "idle", "waiting" or "woken"
  woken,    \* what woke it: a request, or "stopped"
  failed,   \* whether a poll was answered with an error (history)
  \* One client per request.
  client,   \* "away", "sending", "waiting", or what it got
  answer,   \* its one-shot channel: "open", "dropped" or the answer sent
  \* The host: the event each request was given as (0 for none) and what the
  \* host answered it.
  given, said

serverVars == <<server, stop, arrivals, pending, next_event>>
pollVars   == <<poll, woken, failed>>
clientVars == <<client, answer>>
hostVars   == <<given, said>>
vars == <<serverVars, pollVars, clientVars, hostVars>>

Got == {"reply", "error", "cut", "left"}
-----------------------------------------------------------------------------
Init ==
  /\ server = [i \in Instance |-> "none"]
  /\ stop = [i \in Instance |-> "none"]
  /\ arrivals = [i \in Instance |-> <<>>]
  /\ pending = [i \in Instance |-> {}]
  /\ next_event = [i \in Instance |-> 1]
  /\ poll = [i \in Instance |-> "idle"]
  /\ woken = [i \in Instance |-> "stopped"]
  /\ failed = [i \in Instance |-> FALSE]
  /\ client = [r \in Request |-> "away"]
  /\ answer = [r \in Request |-> "open"]
  /\ given = [r \in Request |-> 0]
  /\ said = [r \in Request |-> "nothing"]

\* Mutant of Registered: the instance is removed once its server is joined.
RegisteredUntilJoined(i) == server[i] # "none" /\ stop[i] # "done"

\* stop removes the instance before it ends the server.
Registered(i) == server[i] # "none" /\ stop[i] = "none"

\* Mutant of LockedWaits: the first version of poll-inbound.
PollsLocked == {"poll"}

\* The waits of a poll and of a stop that keep the lock over every instance.
LockedWaits == {}

Locked == \E i \in Instance :
            \/ "poll" \in LockedWaits /\ poll[i] = "waiting"
            \/ "stop" \in LockedWaits /\ stop[i] = "joining"

\* An answer sent while the client's connection still waits for it.
Answered(r, a) == IF client[r] = "waiting" THEN [answer EXCEPT ![r] = a] ELSE answer
-----------------------------------------------------------------------------
(* The server's thread.                                                     *)

\* start with role serve, once the port is bound. The thread ends at once if
\* the runtime cannot take the socket.
StartServe(i) ==
  /\ ~Locked
  /\ server[i] = "none"
  /\ \E s \in {"serving", "ended"} : server' = [server EXCEPT ![i] = s]
  /\ UNCHANGED <<stop, arrivals, pending, next_event, pollVars, clientVars, hostVars>>

Accept(r) ==
  /\ server[Target[r]] = "serving" /\ client[r] = "away"
  /\ client' = [client EXCEPT ![r] = "sending"]
  /\ UNCHANGED <<serverVars, pollVars, answer, hostVars>>

\* A body that cannot be read is answered 400.
RefuseBody(r) ==
  /\ client[r] = "sending"
  /\ client' = [client EXCEPT ![r] = "error"]
  /\ UNCHANGED <<serverVars, pollVars, answer, hostVars>>

\* The receiver outlives the thread (stop drops it after the join), so the
\* send cannot fail.
Collect(r) ==
  /\ client[r] = "sending"
  /\ client' = [client EXCEPT ![r] = "waiting"]
  /\ arrivals' = [arrivals EXCEPT ![Target[r]] = Append(@, r)]
  /\ UNCHANGED <<server, stop, pending, next_event, pollVars, answer, hostVars>>

\* A sender dropped without an answer is answered 503.
Deliver(r) ==
  /\ client[r] = "waiting" /\ answer[r] # "open"
  /\ client' = [client EXCEPT ![r] = IF answer[r] = "dropped" THEN "error" ELSE answer[r]]
  /\ UNCHANGED <<serverVars, pollVars, answer, hostVars>>

Leave(r) ==
  /\ client[r] \in {"sending", "waiting"}
  /\ client' = [client EXCEPT ![r] = "left"]
  /\ UNCHANGED <<serverVars, pollVars, answer, hostVars>>

\* The thread sees the shutdown and returns, which drops the runtime's tasks
\* and closes every connection.
EndServer(i) ==
  /\ server[i] = "serving" /\ stop[i] = "joining"
  /\ server' = [server EXCEPT ![i] = "ended"]
  /\ client' = [r \in Request |->
                  IF Target[r] = i /\ client[r] \in {"sending", "waiting"}
                  THEN "cut" ELSE client[r]]
  /\ UNCHANGED <<stop, arrivals, pending, next_event, pollVars, answer, hostVars>>
-----------------------------------------------------------------------------
(* stop: remove the instance, signal the thread, join it, drop the rest.    *)

Stop(i) ==
  /\ ~Locked
  /\ Registered(i)
  /\ stop' = [stop EXCEPT ![i] = "joining"]
  /\ UNCHANGED <<server, arrivals, pending, next_event, pollVars, clientVars, hostVars>>

\* Mutant of JoinServer: the thread is told to end and not waited for.
JoinWithoutWaiting(i) ==
  /\ stop[i] = "joining"
  /\ stop' = [stop EXCEPT ![i] = "done"]
  /\ pending' = [pending EXCEPT ![i] = {}]
  /\ UNCHANGED <<server, arrivals, next_event, pollVars, clientVars, hostVars>>

JoinServer(i) ==
  /\ stop[i] = "joining" /\ server[i] = "ended"
  /\ stop' = [stop EXCEPT ![i] = "done"]
  /\ pending' = [pending EXCEPT ![i] = {}]
  /\ UNCHANGED <<server, arrivals, next_event, pollVars, clientVars, hostVars>>
-----------------------------------------------------------------------------
(* poll-inbound: take the channel, wait on it with the lock released, and   *)
(* look the instance up again.                                              *)

PollInbound(i) ==
  /\ ~Locked
  /\ Registered(i) /\ poll[i] = "idle"
  /\ poll' = [poll EXCEPT ![i] = "waiting"]
  /\ UNCHANGED <<serverVars, woken, failed, clientVars, hostVars>>

PollTimeout(i) ==
  /\ poll[i] = "waiting" /\ arrivals[i] = <<>>
  /\ poll' = [poll EXCEPT ![i] = "idle"]
  /\ UNCHANGED <<serverVars, woken, failed, clientVars, hostVars>>

\* The channel gives what it still holds before it reports the server's end.
NextArrival(i) ==
  /\ poll[i] = "waiting"
  /\ \/ /\ arrivals[i] # <<>>
        /\ woken' = [woken EXCEPT ![i] = Head(arrivals[i])]
        /\ arrivals' = [arrivals EXCEPT ![i] = Tail(@)]
     \/ /\ arrivals[i] = <<>> /\ server[i] = "ended"
        /\ woken' = [woken EXCEPT ![i] = "stopped"]
        /\ UNCHANGED arrivals
  /\ poll' = [poll EXCEPT ![i] = "woken"]
  /\ UNCHANGED <<server, stop, pending, next_event, failed, clientVars, hostVars>>

\* A mutant of EventAfter: the count is not moved on.
EventUnmoved(e) == e

\* The number of the event after e.
EventAfter(e) == e + 1

\* A request that arrived while its instance was stopped is answered here:
\* nothing will ever reply to it.
PollReturn(i) ==
  /\ ~Locked
  /\ poll[i] = "woken"
  /\ poll' = [poll EXCEPT ![i] = "idle"]
  /\ woken' = [woken EXCEPT ![i] = "stopped"]
  /\ \/ /\ woken[i] = "stopped"
        /\ failed' = IF Registered(i) THEN [failed EXCEPT ![i] = TRUE] ELSE failed
        /\ UNCHANGED <<pending, next_event, answer, given>>
     \/ /\ woken[i] \in Request /\ Registered(i)
        /\ next_event' = [next_event EXCEPT ![i] = EventAfter(@)]
        /\ pending' = [pending EXCEPT ![i] =
                         @ \cup {[event |-> next_event[i], request |-> woken[i]]}]
        /\ given' = [given EXCEPT ![woken[i]] = next_event[i]]
        /\ UNCHANGED <<failed, answer>>
     \/ /\ woken[i] \in Request /\ ~Registered(i)
        /\ answer' = Answered(woken[i], "error")
        /\ UNCHANGED <<failed, pending, next_event, given>>
  /\ UNCHANGED <<server, stop, arrivals, client, said>>
-----------------------------------------------------------------------------
(* reply and dispose: complete the one-shot channel of the event.           *)

\* The component's answer to a reply for entry p with the parts given: the
\* sender goes unused if they have no response, a response that cannot be
\* built is answered 500, and a client that left makes the reply fail.
Replied(p, parts) ==
  CASE parts = "missing" -> Answered(p.request, "dropped")
    [] parts = "bad"     -> Answered(p.request, "error")
    [] parts = "good"    -> Answered(p.request, "reply")

ReplyOk(p, parts) == parts = "good" /\ client[p.request] = "waiting"

\* The host answers request r by the event it was given.
Reply(r) ==
  LET i == Target[r] IN
  /\ ~Locked
  /\ Registered(i) /\ given[r] # 0 /\ said[r] = "nothing"
  /\ \E p \in pending[i], parts \in {"good", "bad", "missing"} :
       /\ p.event = given[r]
       /\ pending' = [pending EXCEPT ![i] = @ \ {p}]
       /\ answer' = Replied(p, parts)
       /\ said' = [said EXCEPT ![r] = IF ReplyOk(p, parts) THEN "reply" ELSE "error"]
  /\ UNCHANGED <<server, stop, arrivals, next_event, pollVars, client, given>>

\* Mutant of Dispose: HTTP has no disposition, so nothing is sent.
DisposeUnanswered(r) ==
  /\ ~Locked
  /\ Registered(Target[r]) /\ given[r] # 0 /\ said[r] = "nothing"
  /\ said' = [said EXCEPT ![r] = "error"]
  /\ UNCHANGED <<serverVars, pollVars, clientVars, given>>

Dispose(r) ==
  LET i == Target[r] IN
  /\ ~Locked
  /\ Registered(i) /\ given[r] # 0 /\ said[r] = "nothing"
  /\ \E p \in pending[i] :
       /\ p.event = given[r]
       /\ pending' = [pending EXCEPT ![i] = @ \ {p}]
       /\ answer' = Answered(p.request, "error")
  /\ said' = [said EXCEPT ![r] = "error"]
  /\ UNCHANGED <<server, stop, arrivals, next_event, pollVars, client, given>>
-----------------------------------------------------------------------------
ServerStep(r) == Accept(r) \/ RefuseBody(r) \/ Collect(r) \/ Deliver(r) \/ Leave(r)

Next ==
  \/ \E r \in Request : ServerStep(r) \/ Reply(r) \/ Dispose(r)
  \/ \E i \in Instance :
       \/ StartServe(i) \/ EndServer(i) \/ Stop(i) \/ JoinServer(i)
       \/ PollInbound(i) \/ PollTimeout(i) \/ NextArrival(i) \/ PollReturn(i)

Spec == Init /\ [][Next]_vars

\* The runtime runs its tasks and the calls in progress continue, but no
\* timeout need ever expire and no client need send, stay or leave.
Scheduling ==
  /\ \A r \in Request : WF_vars(Deliver(r))
  /\ \A i \in Instance :
       /\ WF_vars(EndServer(i)) /\ WF_vars(JoinServer(i))
       /\ WF_vars(NextArrival(i)) /\ WF_vars(PollReturn(i))

\* The engine's exchange loop: it polls again after each poll and answers
\* what it was given, and a stop is called for whatever it does.
Host ==
  /\ \A i \in Instance : WF_vars(PollInbound(i))
  /\ \A r \in Request : WF_vars(Reply(r) \/ Dispose(r))

FairSpec == Spec /\ Scheduling /\ Host
-----------------------------------------------------------------------------
Settled(r) == client[r] \in Got

TypeOK ==
  /\ server \in [Instance -> {"none", "serving", "ended"}]
  /\ stop \in [Instance -> {"none", "joining", "done"}]
  /\ arrivals \in [Instance -> Seq(Request)]
  /\ pending \in [Instance -> SUBSET [event : Nat \ {0}, request : Request]]
  /\ next_event \in [Instance -> Nat]
  /\ poll \in [Instance -> {"idle", "waiting", "woken"}]
  /\ woken \in [Instance -> Request \cup {"stopped"}]
  /\ failed \in [Instance -> BOOLEAN]
  /\ client \in [Request -> {"away", "sending", "waiting"} \cup Got]
  /\ answer \in [Request -> {"open", "dropped", "reply", "error"}]
  /\ given \in [Request -> Nat]
  /\ said \in [Request -> {"nothing", "reply", "error"}]

\* A stop is what a stopped server looks like to a waiting poll: it sees
\* nothing arrive, and an error means the server ended by itself (lib.rs,
\* "Woken by `stop`, this poll saw nothing arrive").
StopIsNoError ==
  [][\A i \in Instance : failed'[i] # failed[i] => stop[i] = "none"]_vars

\* When stop returns the thread has ended, so the port is free and no
\* connection is left open (serve.rs, Server::stop).
PortIsFree ==
  \A i \in Instance : stop[i] = "done" =>
    /\ server[i] = "ended"
    /\ \A r \in Request : Target[r] = i => client[r] \notin {"sending", "waiting"}

\* stop wakes a poll that waits on the instance and returns, whether or not
\* any timeout expires (the finding the lock's release answers).
StopReturns ==
  \A i \in Instance :
    /\ stop[i] = "joining" ~> stop[i] = "done"
    /\ stop[i] = "joining" ~> poll[i] = "idle"

\* Every request the server collected is answered, or its connection ends.
RequestsSettle == \A r \in Request : client[r] = "waiting" ~> Settled(r)

\* The promise to clients and host.
Promise == INSTANCE RequestReply WITH
  asked    <- {r \in Request : client[r] # "away"},
  handed   <- {r \in Request : given[r] # 0},
  outcome  <- [r \in Request |-> IF Settled(r) THEN client[r] ELSE "none"],
  stopping <- {r \in Request : stop[Target[r]] # "none"}
KeepsPromise == Promise!Spec
=============================================================================
