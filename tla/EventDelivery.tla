---------------------------- MODULE EventDelivery ----------------------------
(***************************************************************************)
(* What an event stream promises (engine-protocol spec 9.2 and 9.3): the   *)
(* events of a stream are numbered from 1 without a gap, nothing follows   *)
(* the terminal event, and the host receives them in that order, each      *)
(* exactly once. How much one answer holds, and when an event is handed    *)
(* over, is left open.                                                     *)
(***************************************************************************)
EXTENDS Naturals, Sequences

CONSTANTS Stream, EventKind

VARIABLES
  log,       \* the events of a stream so far
  delivered  \* how many of them the host has received

Event == [seq: Nat, kind: EventKind, last: BOOLEAN]

Terminated(events) == events # <<>> /\ events[Len(events)].last

Init ==
  /\ log = [s \in Stream |-> <<>>]
  /\ delivered = [s \in Stream |-> 0]

Produce(s) ==
  /\ ~Terminated(log[s])
  /\ \E kind \in EventKind, last \in BOOLEAN :
       log' = [log EXCEPT ![s] =
                 Append(@, [seq |-> Len(@) + 1, kind |-> kind, last |-> last])]
  /\ UNCHANGED delivered

\* One answer: some streams' next events, none skipped and none repeated.
Deliver ==
  /\ delivered' = [s \in Stream |-> delivered'[s]]
  /\ \A s \in Stream : delivered'[s] \in delivered[s]..Len(log[s])
  /\ UNCHANGED log

Next == Deliver \/ \E s \in Stream : Produce(s)

vars == <<log, delivered>>

Spec == Init /\ [][Next]_vars

=============================================================================
