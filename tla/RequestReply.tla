----------------------------- MODULE RequestReply -----------------------------
(***************************************************************************)
(* What a serving transport promises its clients and its host: a request   *)
(* is handed to the host at most once, its client gets the host's reply    *)
(* only when the host replied to that very request, a connection is cut    *)
(* without an answer only by a transport that is stopping, and what a      *)
(* client got never changes.                                               *)
(***************************************************************************)
CONSTANT Request

VARIABLES
  asked,   \* the requests that reached the transport
  handed,  \* the requests the host was given
  said,    \* what the host answered each of them
  outcome, \* what each client got
  stopping \* the requests whose transport is stopping

vars == <<asked, handed, said, outcome, stopping>>

Said    == {"nothing", "reply", "error"}
Outcome == {"none", "reply", "error", "cut", "left"}

Init ==
  /\ asked = {} /\ handed = {} /\ stopping = {}
  /\ said = [r \in Request |-> "nothing"]
  /\ outcome = [r \in Request |-> "none"]

Ask(r) ==
  /\ r \notin asked
  /\ asked' = asked \cup {r}
  /\ UNCHANGED <<handed, said, outcome, stopping>>

Hand(r) ==
  /\ r \in asked \ handed
  /\ handed' = handed \cup {r}
  /\ UNCHANGED <<asked, said, outcome, stopping>>

Say(r) ==
  /\ r \in handed /\ said[r] = "nothing"
  /\ \E answer \in {"reply", "error"} : said' = [said EXCEPT ![r] = answer]
  /\ UNCHANGED <<asked, handed, outcome, stopping>>

\* The client gets a reply only if the host gave it one, and the transport's
\* own refusal only if the host did not.
Settle(r) ==
  /\ r \in asked /\ outcome[r] = "none"
  /\ \E got \in {"reply", "error", "left"} :
       /\ outcome' = [outcome EXCEPT ![r] = got]
       /\ got = "reply" => said[r] = "reply"
       /\ got = "error" => said[r] # "reply"
  /\ UNCHANGED <<asked, handed, said, stopping>>

\* Every request of one transport at once: the stop, and the end of its
\* connections.
Stop ==
  /\ \E them \in SUBSET Request : stopping' = stopping \cup them
  /\ UNCHANGED <<asked, handed, said, outcome>>

Cut ==
  /\ \E them \in SUBSET {r \in asked \cap stopping : outcome[r] = "none"} :
       outcome' = [r \in Request |-> IF r \in them THEN "cut" ELSE outcome[r]]
  /\ UNCHANGED <<asked, handed, said, stopping>>

Next ==
  \/ \E r \in Request : Ask(r) \/ Hand(r) \/ Say(r) \/ Settle(r)
  \/ Stop
  \/ Cut

Spec == Init /\ [][Next]_vars
=============================================================================
