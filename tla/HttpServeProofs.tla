--------------------------- MODULE HttpServeProofs ---------------------------
(***************************************************************************)
(* Proofs about HttpServe: its type invariant, that a finished stop leaves *)
(* nothing open, and that the server keeps RequestReply's promise. The     *)
(* argument is about event ids: an id names one request of its instance,   *)
(* so the one-shot channel a reply completes is the one of the request the *)
(* host meant.                                                             *)
(***************************************************************************)
EXTENDS HttpServe, TLAPS

Arrived(r) == client[r] \notin {"away", "sending"}

\* A request that was not given to the host has nothing said of it.
GivenArrived ==
  \A r \in Request :
    /\ given[r] # 0 => Arrived(r)
    /\ given[r] = 0 => said[r] = "nothing"

\* What the channel and the poll hold was not given yet, and is held once.
OnceIn(i) ==
  \A k \in 1..Len(arrivals[i]) :
    /\ Target[arrivals[i][k]] = i
    /\ given[arrivals[i][k]] = 0
    /\ Arrived(arrivals[i][k])
    /\ arrivals[i][k] # woken[i]
    /\ \A l \in 1..Len(arrivals[i]) : arrivals[i][k] = arrivals[i][l] => k = l
WokenBy(i) ==
  woken[i] \in Request =>
    Target[woken[i]] = i /\ given[woken[i]] = 0 /\ Arrived(woken[i])
HeldOnce == \A i \in Instance : OnceIn(i) /\ WokenBy(i)

\* An event id names one request.
EventsNameOne ==
  /\ \A i \in Instance : next_event[i] # 0
  /\ \A r \in Request : given[r] < next_event[Target[r]]
  /\ \A q, r \in Request :
       given[q] # 0 /\ given[q] = given[r] /\ Target[q] = Target[r] => q = r
  /\ \A i \in Instance : \A p \in pending[i] :
       Target[p.request] = i /\ given[p.request] = p.event

\* A reply is on its way exactly to the clients the host replied to.
RepliesAreSaid == \A r \in Request : answer[r] = "reply" <=> said[r] = "reply"

\* Nothing is open once the thread has ended.
EndedIsClosed ==
  \A i \in Instance :
    /\ stop[i] = "done" => server[i] = "ended"
    /\ server[i] = "ended" =>
         \A r \in Request : Target[r] = i => client[r] \notin {"sending", "waiting"}
    /\ server[i] = "none" => \A r \in Request : Target[r] = i => client[r] = "away"

IInv == TypeOK /\ GivenArrived /\ HeldOnce /\ EventsNameOne /\ RepliesAreSaid /\ EndedIsClosed

LEMMA InitInv == Init => IInv
<1> SUFFICES ASSUME Init PROVE IInv
  OBVIOUS
<1>. USE TargetServes DEF Init
<1>1. TypeOK
  BY DEF TypeOK, Got
<1>2. GivenArrived /\ RepliesAreSaid /\ EndedIsClosed
  BY DEF GivenArrived, RepliesAreSaid, EndedIsClosed
<1>3. HeldOnce
  <2>1. \A i \in Instance : arrivals[i] = <<>> /\ woken[i] = "stopped"
    OBVIOUS
  <2>2. Len(<<>>) = 0
    OBVIOUS
  <2>. QED
    <3> HIDE DEF Init
    <3>1. \A k \in 1..0 : FALSE
      OBVIOUS
    <3>2. \A i \in Instance : \A k \in 1..Len(arrivals[i]) : FALSE
      BY <2>1, <2>2, <3>1
    <3>. QED
      BY <2>1, <3>2, TargetServes DEF HeldOnce, OnceIn, WokenBy
<1>4. EventsNameOne
  BY DEF EventsNameOne
<1>. QED
  BY <1>1, <1>2, <1>3, <1>4 DEF IInv

LEMMA TypeOKStep == IInv /\ [Next]_vars => TypeOK'
<1> SUFFICES ASSUME IInv, [Next]_vars PROVE TypeOK'
  OBVIOUS
<1>. USE TargetServes DEF IInv, serverVars, pollVars, clientVars, hostVars, TypeOK, Got
<1>1. ASSUME NEW i \in Instance, StartServe(i) PROVE TypeOK'
  BY <1>1 DEF StartServe
<1>2. ASSUME NEW i \in Instance, EndServer(i) PROVE TypeOK'
  BY <1>2 DEF EndServer
<1>3. ASSUME NEW i \in Instance, Stop(i) PROVE TypeOK'
  BY <1>3 DEF Stop, Registered
<1>4. ASSUME NEW i \in Instance, JoinServer(i) PROVE TypeOK'
  BY <1>4 DEF JoinServer
<1>5. ASSUME NEW i \in Instance, PollInbound(i) PROVE TypeOK'
  BY <1>5 DEF PollInbound, Registered
<1>6. ASSUME NEW i \in Instance, PollTimeout(i) PROVE TypeOK'
  BY <1>6 DEF PollTimeout
<1>7. ASSUME NEW i \in Instance, NextArrival(i) PROVE TypeOK'
  <2>1. CASE arrivals[i] # <<>>
    <3>1. arrivals[i] \in Seq(Request)
      OBVIOUS
    <3>2. Head(arrivals[i]) \in Request /\ Tail(arrivals[i]) \in Seq(Request)
      BY <2>1, <3>1
    <3>3. arrivals' = [arrivals EXCEPT ![i] = Tail(arrivals[i])]
          /\ woken' = [woken EXCEPT ![i] = Head(arrivals[i])]
      BY <1>7, <2>1 DEF NextArrival
    <3>4. arrivals' \in [Instance -> Seq(Request)] /\ woken' \in [Instance -> Request \cup {"stopped"}]
      BY <3>2, <3>3
    <3>. QED
      BY <1>7, <3>4 DEF NextArrival
  <2>2. CASE arrivals[i] = <<>>
    BY <1>7, <2>2 DEF NextArrival
  <2>. QED
    BY <2>1, <2>2
<1>8. ASSUME NEW i \in Instance, PollReturn(i) PROVE TypeOK'
  <2>1. CASE woken[i] = "stopped"
    BY <1>8, <2>1 DEF PollReturn, Answered, Registered
  <2>2. CASE woken[i] \in Request /\ Registered(i)
    <3>1. next_event[i] \in Nat \ {0}
      BY DEF EventsNameOne
    <3>2. [event |-> next_event[i], request |-> woken[i]] \in [event : Nat \ {0}, request : Request]
      BY <2>2, <3>1
    <3>3. pending' = [pending EXCEPT ![i] =
                        @ \cup {[event |-> next_event[i], request |-> woken[i]]}]
      BY <1>8, <2>2 DEF PollReturn
    <3>4. pending' \in [Instance -> SUBSET [event : Nat \ {0}, request : Request]]
      BY <3>2, <3>3
    <3>5. next_event' = [next_event EXCEPT ![i] = next_event[i] + 1]
          /\ given' = [given EXCEPT ![woken[i]] = next_event[i]]
      BY <1>8, <2>2 DEF PollReturn, EventAfter
    <3>6. next_event' \in [Instance -> Nat]
      <4>1. next_event[i] + 1 \in Nat
        BY <3>1
      <4>. QED
        BY <3>5, <4>1
    <3>9. given' \in [Request -> Nat]
      BY <3>1, <3>5
    <3>7. poll' \in [Instance -> {"idle", "waiting", "woken"}]
          /\ woken' \in [Instance -> Request \cup {"stopped"}]
      BY <1>8 DEF PollReturn
    <3>8. UNCHANGED <<server, stop, arrivals, client, said, failed, answer>>
      BY <1>8, <2>2 DEF PollReturn
    <3>. QED
      BY <3>4, <3>6, <3>7, <3>8, <3>9
  <2>3. CASE woken[i] \in Request /\ ~Registered(i)
    <3>1. answer' = Answered(woken[i], "error")
      BY <1>8, <2>3 DEF PollReturn
    <3>2. answer' \in [Request -> {"open", "dropped", "reply", "error"}]
      BY <3>1 DEF Answered
    <3>3. UNCHANGED <<server, stop, arrivals, client, said, failed, pending, next_event, given>>
      BY <1>8, <2>3 DEF PollReturn
    <3>. QED
      BY <1>8, <3>2, <3>3 DEF PollReturn
  <2>. QED
    BY <2>1, <2>2, <2>3
<1>9. ASSUME NEW r \in Request, Accept(r) PROVE TypeOK'
  BY <1>9 DEF Accept
<1>10. ASSUME NEW r \in Request, RefuseBody(r) PROVE TypeOK'
  BY <1>10 DEF RefuseBody
<1>11. ASSUME NEW r \in Request, Collect(r) PROVE TypeOK'
  BY <1>11 DEF Collect
<1>12. ASSUME NEW r \in Request, Deliver(r) PROVE TypeOK'
  BY <1>12 DEF Deliver
<1>13. ASSUME NEW r \in Request, Leave(r) PROVE TypeOK'
  BY <1>13 DEF Leave
<1>14. ASSUME NEW r \in Request, Reply(r) PROVE TypeOK'
  BY <1>14 DEF Reply, Replied, ReplyOk, Answered
<1>15. ASSUME NEW r \in Request, Dispose(r) PROVE TypeOK'
  BY <1>15 DEF Dispose, Answered
<1>16. CASE UNCHANGED vars
  BY <1>16 DEF vars
<1>. QED
  BY <1>1, <1>2, <1>3, <1>4, <1>5, <1>6, <1>7, <1>8, <1>9, <1>10, <1>11, <1>12, <1>13, <1>14, <1>15, <1>16 DEF Next, ServerStep

LEMMA GivenArrivedStep == IInv /\ [Next]_vars => GivenArrived'
<1> SUFFICES ASSUME IInv, [Next]_vars PROVE GivenArrived'
  OBVIOUS
<1>. USE TargetServes DEF IInv, serverVars, pollVars, clientVars, hostVars, TypeOK, GivenArrived, HeldOnce, OnceIn, WokenBy, EventsNameOne, Arrived
<1>1. ASSUME NEW i \in Instance, StartServe(i) PROVE GivenArrived'
  BY <1>1 DEF StartServe
<1>2. ASSUME NEW i \in Instance, EndServer(i) PROVE GivenArrived'
  BY <1>2 DEF EndServer
<1>3. ASSUME NEW i \in Instance, Stop(i) PROVE GivenArrived'
  BY <1>3 DEF Stop, Registered
<1>4. ASSUME NEW i \in Instance, JoinServer(i) PROVE GivenArrived'
  BY <1>4 DEF JoinServer
<1>5. ASSUME NEW i \in Instance, PollInbound(i) PROVE GivenArrived'
  BY <1>5 DEF PollInbound, Registered
<1>6. ASSUME NEW i \in Instance, PollTimeout(i) PROVE GivenArrived'
  BY <1>6 DEF PollTimeout
<1>7. ASSUME NEW i \in Instance, NextArrival(i) PROVE GivenArrived'
  BY <1>7 DEF NextArrival
<1>8. ASSUME NEW i \in Instance, PollReturn(i) PROVE GivenArrived'
  BY <1>8 DEF PollReturn, Answered, EventAfter, Registered
<1>9. ASSUME NEW r \in Request, Accept(r) PROVE GivenArrived'
  BY <1>9 DEF Accept
<1>10. ASSUME NEW r \in Request, RefuseBody(r) PROVE GivenArrived'
  BY <1>10 DEF RefuseBody
<1>11. ASSUME NEW r \in Request, Collect(r) PROVE GivenArrived'
  BY <1>11 DEF Collect
<1>12. ASSUME NEW r \in Request, Deliver(r) PROVE GivenArrived'
  BY <1>12 DEF Deliver
<1>13. ASSUME NEW r \in Request, Leave(r) PROVE GivenArrived'
  BY <1>13 DEF Leave
<1>14. ASSUME NEW r \in Request, Reply(r) PROVE GivenArrived'
  BY <1>14 DEF Reply, Replied, ReplyOk, Answered
<1>15. ASSUME NEW r \in Request, Dispose(r) PROVE GivenArrived'
  BY <1>15 DEF Dispose, Answered
<1>16. CASE UNCHANGED vars
  BY <1>16 DEF vars
<1>. QED
  BY <1>1, <1>2, <1>3, <1>4, <1>5, <1>6, <1>7, <1>8, <1>9, <1>10, <1>11, <1>12, <1>13, <1>14, <1>15, <1>16 DEF Next, ServerStep

LEMMA HeldOnceStep == IInv /\ [Next]_vars => HeldOnce'
<1> SUFFICES ASSUME IInv, [Next]_vars PROVE HeldOnce'
  OBVIOUS
<1>. USE TargetServes DEF IInv, serverVars, pollVars, clientVars, hostVars, TypeOK, HeldOnce, OnceIn, WokenBy, GivenArrived, Arrived
<1>1. ASSUME NEW i \in Instance, StartServe(i) PROVE HeldOnce'
  BY <1>1 DEF StartServe
<1>2. ASSUME NEW i \in Instance, EndServer(i) PROVE HeldOnce'
  BY <1>2 DEF EndServer
<1>3. ASSUME NEW i \in Instance, Stop(i) PROVE HeldOnce'
  BY <1>3 DEF Stop, Registered
<1>4. ASSUME NEW i \in Instance, JoinServer(i) PROVE HeldOnce'
  BY <1>4 DEF JoinServer
<1>5. ASSUME NEW i \in Instance, PollInbound(i) PROVE HeldOnce'
  BY <1>5 DEF PollInbound, Registered
<1>6. ASSUME NEW i \in Instance, PollTimeout(i) PROVE HeldOnce'
  BY <1>6 DEF PollTimeout
<1>7. ASSUME NEW i \in Instance, NextArrival(i) PROVE HeldOnce'
  <2>1. CASE arrivals[i] # <<>>
    <3> DEFINE s == arrivals[i]
    <3>1. s \in Seq(Request) /\ Len(s) \in Nat /\ Len(s) > 0
      BY <2>1
    <3>2. Len(Tail(s)) = Len(s) - 1
      BY <3>1
    <3>3. \A k \in 1..Len(Tail(s)) : k + 1 \in 1..Len(s) /\ Tail(s)[k] = s[k + 1]
      BY <3>1, <3>2
    <3>4. Head(s) = s[1] /\ 1 \in 1..Len(s) /\ s[1] \in Request
      BY <3>1
    <3>5. woken' = [woken EXCEPT ![i] = s[1]] /\ arrivals' = [arrivals EXCEPT ![i] = Tail(s)]
      BY <1>7, <2>1, <3>4 DEF NextArrival
    <3>6. given' = given /\ client' = client
      BY <1>7 DEF NextArrival
    <3>7. ASSUME NEW j \in Instance, j # i
          PROVE arrivals'[j] = arrivals[j] /\ woken'[j] = woken[j]
      BY <3>5, <3>7
    <3>8. arrivals'[i] = Tail(s) /\ woken'[i] = s[1]
      BY <3>5
    <3>9. \A k \in 1..Len(Tail(s)) :
            /\ Target[Tail(s)[k]] = i /\ given[Tail(s)[k]] = 0 /\ Arrived(Tail(s)[k])
            /\ Tail(s)[k] # s[1]
            /\ \A l \in 1..Len(Tail(s)) : Tail(s)[k] = Tail(s)[l] => k = l
      <4> TAKE k \in 1..Len(Tail(s))
      <4>1. k + 1 \in 1..Len(s) /\ Tail(s)[k] = s[k + 1] /\ k \in Nat /\ k >= 1
        BY <3>3, <3>1, <3>2
      <4>2. Target[s[k + 1]] = i /\ given[s[k + 1]] = 0 /\ Arrived(s[k + 1])
        BY <4>1 DEF HeldOnce, OnceIn, WokenBy
      <4>3. s[k + 1] # s[1]
        <5>1. s[k + 1] = s[1] => k + 1 = 1
          BY <4>1, <3>4 DEF HeldOnce, OnceIn, WokenBy
        <5>. QED
          BY <4>1, <5>1
      <4>4. ASSUME NEW l \in 1..Len(Tail(s)), Tail(s)[k] = Tail(s)[l] PROVE k = l
        <5>1. l + 1 \in 1..Len(s) /\ Tail(s)[l] = s[l + 1] /\ l \in Nat
          BY <3>3, <3>1, <3>2
        <5>2. s[k + 1] = s[l + 1] => k + 1 = l + 1
          BY <4>1, <5>1 DEF HeldOnce, OnceIn, WokenBy
        <5>. QED
          BY <4>1, <4>4, <5>1, <5>2
      <4>. QED
        BY <4>1, <4>2, <4>3, <4>4 DEF Arrived
    <3>10. Target[s[1]] = i /\ given[s[1]] = 0 /\ Arrived(s[1])
      BY <3>4 DEF HeldOnce, OnceIn, WokenBy
    <3>11. OnceIn(i)' /\ WokenBy(i)'
      <4> DEFINE t == Tail(s)
                 w == s[1]
      <4>1. \A k \in 1..Len(t) :
              /\ Target[t[k]] = i /\ given[t[k]] = 0 /\ Arrived(t[k]) /\ t[k] # w
              /\ \A l \in 1..Len(t) : t[k] = t[l] => k = l
        BY <3>9
      <4>2. arrivals'[i] = t /\ woken'[i] = w
        BY <3>8
      <4>3. Target[w] = i /\ given[w] = 0 /\ Arrived(w)
        BY <3>10
      <4> HIDE DEF s, t, w, HeldOnce, IInv
      <4>. QED
        BY <3>6, <4>1, <4>2, <4>3
    <3>12. ASSUME NEW j \in Instance, j # i PROVE OnceIn(j)' /\ WokenBy(j)'
      <4>1. OnceIn(j) /\ WokenBy(j)
        OBVIOUS
      <4> HIDE DEF s, HeldOnce, IInv
      <4>. QED
        BY <4>1, <3>6, <3>7, <3>12
    <3> HIDE DEF OnceIn, WokenBy
    <3>. QED
      BY <3>11, <3>12
  <2>2. CASE arrivals[i] = <<>>
    <3>1. UNCHANGED <<arrivals, given, client>> /\ woken' = [woken EXCEPT ![i] = "stopped"]
      BY <1>7, <2>2 DEF NextArrival
    <3>2. ASSUME NEW j \in Instance PROVE OnceIn(j)' /\ WokenBy(j)'
      <4>1. OnceIn(j) /\ WokenBy(j)
        OBVIOUS
      <4>2. woken'[j] = woken[j] \/ woken'[j] = "stopped"
        BY <3>1
      <4>3. \A k \in 1..Len(arrivals[j]) : arrivals[j][k] \in Request
        OBVIOUS
      <4> HIDE DEF HeldOnce, IInv
      <4>. QED
        BY <4>1, <4>2, <4>3, <3>1
    <3> HIDE DEF OnceIn, WokenBy
    <3>. QED
      BY <3>2
  <2>. QED
    BY <2>1, <2>2
<1>8. ASSUME NEW i \in Instance, PollReturn(i) PROVE HeldOnce'
  <2>1. arrivals' = arrivals /\ client' = client
    BY <1>8 DEF PollReturn
  <2>2. woken' = [woken EXCEPT ![i] = "stopped"]
    BY <1>8 DEF PollReturn
  <2>3. given' = given \/ (woken[i] \in Request /\ given' = [given EXCEPT ![woken[i]] = next_event[i]])
    BY <1>8 DEF PollReturn
  <2>4. \A r \in Request : r # woken[i] => given'[r] = given[r]
    BY <2>3
  <2>5. ASSUME NEW j \in Instance, NEW k \in 1..Len(arrivals[j])
        PROVE arrivals[j][k] \in Request /\ arrivals[j][k] # woken[i]
    <3>1. arrivals[j] \in Seq(Request)
      OBVIOUS
    <3>2. arrivals[j][k] \in Request
      BY <3>1
    <3>3. Target[arrivals[j][k]] = j
      BY DEF HeldOnce, OnceIn, WokenBy
    <3>4. woken[i] \in Request => Target[woken[i]] = i
      BY DEF HeldOnce, OnceIn, WokenBy
    <3>5. j = i => arrivals[j][k] # woken[i]
      BY DEF HeldOnce, OnceIn, WokenBy
    <3>. QED
      BY <3>2, <3>3, <3>4, <3>5
  <2>6. ASSUME NEW j \in Instance, j # i, woken[j] \in Request PROVE woken[j] # woken[i]
    BY <2>6 DEF HeldOnce, OnceIn, WokenBy
  <2>7. ASSUME NEW j \in Instance, NEW k \in 1..Len(arrivals[j])
        PROVE arrivals[j][k] # woken'[j]
    <3>1. j = i => woken'[j] = "stopped"
      BY <2>2
    <3>2. j # i => woken'[j] = woken[j]
      BY <2>2
    <3>. QED
      BY <2>5, <3>1, <3>2 DEF HeldOnce, OnceIn, WokenBy
  <2>8. \A j \in Instance : woken'[j] \in Request => j # i /\ woken'[j] = woken[j]
    BY <2>2
  <2>. QED
    BY <2>1, <2>4, <2>5, <2>6, <2>7, <2>8 DEF HeldOnce, OnceIn, WokenBy
<1>9. ASSUME NEW r \in Request, Accept(r) PROVE HeldOnce'
  BY <1>9 DEF Accept
<1>10. ASSUME NEW r \in Request, RefuseBody(r) PROVE HeldOnce'
  BY <1>10 DEF RefuseBody
<1>11. ASSUME NEW r \in Request, Collect(r) PROVE HeldOnce'
  <2> DEFINE i == Target[r]
             s == arrivals[i]
  <2>1. i \in Instance /\ s \in Seq(Request) /\ Len(s) \in Nat
    BY <1>11
  <2>2. Len(Append(s, r)) = Len(s) + 1 /\ Append(s, r)[Len(s) + 1] = r
    BY <2>1
  <2>3. \A k \in 1..Len(s) : Append(s, r)[k] = s[k]
    BY <2>1
  <2>4. arrivals' = [arrivals EXCEPT ![i] = Append(s, r)] /\ woken' = woken /\ given' = given
    BY <1>11 DEF Collect
  <2>5. client' = [client EXCEPT ![r] = "waiting"] /\ client[r] = "sending"
    BY <1>11 DEF Collect
  <2>6. \A q \in Request : Arrived(q) => Arrived(q)' /\ q # r
    BY <2>5
  <2>7. Arrived(r)' /\ given[r] = 0
    BY <2>5 DEF GivenArrived
  <2>8. \A k \in 1..Len(s) : s[k] \in Request /\ s[k] # r
    <3>1. \A k \in 1..Len(s) : s[k] \in Request /\ Arrived(s[k])
      BY <2>1 DEF HeldOnce, OnceIn, WokenBy
    <3>. QED
      BY <3>1, <2>6
  <2>9. woken[i] # r
    <3>1. woken[i] \in Request => Arrived(woken[i])
      BY <2>1 DEF HeldOnce, OnceIn, WokenBy
    <3>. QED
      BY <3>1, <2>6
  <2>10. ASSUME NEW j \in Instance, j # i PROVE arrivals'[j] = arrivals[j]
    BY <2>4, <2>10
  <2>11. arrivals'[i] = Append(s, r)
    BY <2>1, <2>4
  <2> DEFINE t == Append(s, r)
  <2>15. Len(t) = Len(s) + 1 /\ t[Len(s) + 1] = r /\ arrivals'[i] = t
         /\ \A k \in 1..Len(s) : t[k] = s[k]
    BY <2>2, <2>3, <2>11
  <2> HIDE DEF t
  <2>12. \A k \in 1..Len(t) :
           /\ Target[t[k]] = i /\ given[t[k]] = 0
           /\ client'[t[k]] \notin {"away", "sending"} /\ t[k] # woken[i]
           /\ \A l \in 1..Len(t) : t[k] = t[l] => k = l
    <3>1. OnceIn(i)
      BY <2>1
    <3>2. \A k \in 1..Len(t) : k \in 1..Len(s) \/ k = Len(s) + 1
      BY <2>1, <2>15
    <3>3. Target[r] = i
      OBVIOUS
    <3>4. \A k \in 1..Len(s) :
            /\ Target[s[k]] = i /\ given[s[k]] = 0 /\ client'[s[k]] \notin {"away", "sending"} /\ s[k] # woken[i]
            /\ \A l \in 1..Len(s) : s[k] = s[l] => k = l
      <4> HIDE DEF HeldOnce, IInv
      <4>. QED
        BY <3>1, <2>6, <2>8
    <3> HIDE DEF s, i, HeldOnce, IInv, OnceIn
    <3> TAKE k \in 1..Len(t)
    <3>5. CASE k \in 1..Len(s)
      <4>1. t[k] = s[k] /\ k # Len(s) + 1
        BY <3>5, <2>1, <2>15
      <4>2. ASSUME NEW l \in 1..Len(t), t[k] = t[l]
            PROVE k = l
        <5>1. CASE l \in 1..Len(s)
          BY <5>1, <4>1, <4>2, <3>4, <3>5, <2>15
        <5>2. CASE l = Len(s) + 1
          BY <5>2, <4>1, <4>2, <3>5, <2>15, <2>8
        <5>. QED
          BY <5>1, <5>2, <3>2
      <4>. QED
        BY <4>1, <4>2, <3>4, <3>5
    <3>6. CASE k = Len(s) + 1
      <4>1. t[k] = r
        BY <3>6, <2>15
      <4>2. ASSUME NEW l \in 1..Len(t), t[k] = t[l]
            PROVE k = l
        <5>1. l \notin 1..Len(s)
          BY <4>1, <4>2, <2>15, <2>8
        <5>. QED
          BY <5>1, <3>2, <3>6
      <4>. QED
        BY <4>1, <4>2, <3>3, <2>7, <2>9
    <3>. QED
      BY <3>2, <3>5, <3>6
  <2>13. OnceIn(i)' /\ WokenBy(i)'
    <3>1. WokenBy(i)
      BY <2>1
    <3> HIDE DEF s, i, HeldOnce, IInv
    <3>. QED
      BY <3>1, <2>4, <2>6, <2>15, <2>12
  <2>14. ASSUME NEW j \in Instance, j # i PROVE OnceIn(j)' /\ WokenBy(j)'
    <3>1. OnceIn(j) /\ WokenBy(j)
      OBVIOUS
    <3>2. \A k \in 1..Len(arrivals[j]) : arrivals[j][k] \in Request
      OBVIOUS
    <3> HIDE DEF s, i, HeldOnce, IInv
    <3>. QED
      BY <3>1, <3>2, <2>4, <2>6, <2>10, <2>14
  <2> HIDE DEF s, i, OnceIn, WokenBy
  <2>. QED
    BY <2>1, <2>13, <2>14
<1>12. ASSUME NEW r \in Request, Deliver(r) PROVE HeldOnce'
  BY <1>12 DEF Deliver
<1>13. ASSUME NEW r \in Request, Leave(r) PROVE HeldOnce'
  BY <1>13 DEF Leave
<1>14. ASSUME NEW r \in Request, Reply(r) PROVE HeldOnce'
  BY <1>14 DEF Reply, Replied, ReplyOk, Answered
<1>15. ASSUME NEW r \in Request, Dispose(r) PROVE HeldOnce'
  BY <1>15 DEF Dispose, Answered
<1>16. CASE UNCHANGED vars
  BY <1>16 DEF vars
<1>. QED
  BY <1>1, <1>2, <1>3, <1>4, <1>5, <1>6, <1>7, <1>8, <1>9, <1>10, <1>11, <1>12, <1>13, <1>14, <1>15, <1>16 DEF Next, ServerStep

LEMMA EventsNameOneStep == IInv /\ [Next]_vars => EventsNameOne'
<1> SUFFICES ASSUME IInv, [Next]_vars PROVE EventsNameOne'
  OBVIOUS
<1>. USE TargetServes DEF IInv, serverVars, pollVars, clientVars, hostVars, TypeOK, EventsNameOne, HeldOnce, OnceIn, WokenBy
<1>1. ASSUME NEW i \in Instance, StartServe(i) PROVE EventsNameOne'
  BY <1>1 DEF StartServe
<1>2. ASSUME NEW i \in Instance, EndServer(i) PROVE EventsNameOne'
  BY <1>2 DEF EndServer
<1>3. ASSUME NEW i \in Instance, Stop(i) PROVE EventsNameOne'
  BY <1>3 DEF Stop, Registered
<1>4. ASSUME NEW i \in Instance, JoinServer(i) PROVE EventsNameOne'
  BY <1>4 DEF JoinServer
<1>5. ASSUME NEW i \in Instance, PollInbound(i) PROVE EventsNameOne'
  BY <1>5 DEF PollInbound, Registered
<1>6. ASSUME NEW i \in Instance, PollTimeout(i) PROVE EventsNameOne'
  BY <1>6 DEF PollTimeout
<1>7. ASSUME NEW i \in Instance, NextArrival(i) PROVE EventsNameOne'
  BY <1>7 DEF NextArrival
<1>8. ASSUME NEW i \in Instance, PollReturn(i) PROVE EventsNameOne'
  <2>1. CASE ~(woken[i] \in Request /\ Registered(i))
    BY <1>8, <2>1 DEF PollReturn
  <2>2. CASE woken[i] \in Request /\ Registered(i)
    <3> DEFINE w == woken[i]
               p == [event |-> next_event[i], request |-> w]
    <3>1. Target[w] = i /\ given[w] = 0 /\ w \in Request
      BY <2>2 DEF HeldOnce, OnceIn, WokenBy
    <3>2. pending' = [pending EXCEPT ![i] = @ \cup {p}]
      BY <1>8, <2>2 DEF PollReturn
    <3>3. given' = [given EXCEPT ![w] = next_event[i]]
      BY <1>8, <2>2 DEF PollReturn
    <3>4. next_event' = [next_event EXCEPT ![i] = next_event[i] + 1]
      BY <1>8, <2>2 DEF PollReturn, EventAfter
    <3>5. p.event = next_event[i] /\ p.request = w
      OBVIOUS
    <3>6. \A j \in Instance : \A e \in pending'[j] : e \in pending[j] \/ (e = p /\ j = i)
      BY <3>2
    <3>7. \A j \in Instance : \A e \in pending[j] : e.request # w /\ e.request \in Request
      <4>1. \A j \in Instance : \A e \in pending[j] : e.event # 0 /\ e.request \in Request
        OBVIOUS
      <4>. QED
        BY <3>1, <4>1
    <3>8. \A q \in Request : q # w => given'[q] = given[q]
      BY <3>3
    <3>9. given'[w] = next_event[i]
      BY <3>1, <3>3
    <3> HIDE DEF w, p
    <3>10. \A j \in Instance : \A e \in pending'[j] :
             Target[e.request] = j /\ given'[e.request] = e.event
      BY <3>1, <3>5, <3>6, <3>7, <3>8, <3>9
    <3>11. \A j \in Instance : next_event'[j] # 0 /\ next_event'[j] >= next_event[j]
      BY <3>4
    <3>12. \A q \in Request : given'[q] < next_event'[Target[q]]
      <4> TAKE q \in Request
      <4>1. CASE q = w
        BY <4>1, <3>1, <3>4, <3>9
      <4>2. CASE q # w
        <5>1. given'[q] = given[q] /\ given[q] < next_event[Target[q]] /\ Target[q] \in Instance
          BY <4>2, <3>8
        <5>2. given[q] \in Nat /\ next_event[Target[q]] \in Nat /\ next_event'[Target[q]] \in Nat
          BY <5>1, <3>4
        <5>. QED
          BY <5>1, <5>2, <3>11
      <4>. QED
        BY <4>1, <4>2
    <3>13. \A q, r \in Request :
             given'[q] # 0 /\ given'[q] = given'[r] /\ Target[q] = Target[r] => q = r
      <4> SUFFICES ASSUME NEW q \in Request, NEW r \in Request, given'[q] # 0,
                          given'[q] = given'[r], Target[q] = Target[r], q # r
                   PROVE FALSE
        OBVIOUS
      <4>1. CASE q # w /\ r # w
        BY <4>1, <3>8
      <4>2. CASE q = w
        <5>1. given[r] = next_event[i] /\ Target[r] = i
          BY <4>2, <3>1, <3>8, <3>9
        <5>2. given[r] < next_event[i] /\ next_event[i] \in Nat
          BY <5>1
        <5>. QED
          BY <5>1, <5>2
      <4>3. CASE r = w
        <5>1. given[q] = next_event[i] /\ Target[q] = i
          BY <4>3, <3>1, <3>8, <3>9
        <5>2. given[q] < next_event[i] /\ next_event[i] \in Nat
          BY <5>1
        <5>. QED
          BY <5>1, <5>2
      <4>. QED
        BY <4>1, <4>2, <4>3
    <3>. QED
      BY <3>10, <3>11, <3>12, <3>13
  <2>. QED
    BY <2>1, <2>2
<1>9. ASSUME NEW r \in Request, Accept(r) PROVE EventsNameOne'
  BY <1>9 DEF Accept
<1>10. ASSUME NEW r \in Request, RefuseBody(r) PROVE EventsNameOne'
  BY <1>10 DEF RefuseBody
<1>11. ASSUME NEW r \in Request, Collect(r) PROVE EventsNameOne'
  BY <1>11 DEF Collect
<1>12. ASSUME NEW r \in Request, Deliver(r) PROVE EventsNameOne'
  BY <1>12 DEF Deliver
<1>13. ASSUME NEW r \in Request, Leave(r) PROVE EventsNameOne'
  BY <1>13 DEF Leave
<1>14. ASSUME NEW r \in Request, Reply(r) PROVE EventsNameOne'
  BY <1>14 DEF Reply, Replied, ReplyOk, Answered
<1>15. ASSUME NEW r \in Request, Dispose(r) PROVE EventsNameOne'
  BY <1>15 DEF Dispose, Answered
<1>16. CASE UNCHANGED vars
  BY <1>16 DEF vars
<1>. QED
  BY <1>1, <1>2, <1>3, <1>4, <1>5, <1>6, <1>7, <1>8, <1>9, <1>10, <1>11, <1>12, <1>13, <1>14, <1>15, <1>16 DEF Next, ServerStep

LEMMA RepliesAreSaidStep == IInv /\ [Next]_vars => RepliesAreSaid'
<1> SUFFICES ASSUME IInv, [Next]_vars PROVE RepliesAreSaid'
  OBVIOUS
<1>. USE TargetServes DEF IInv, serverVars, pollVars, clientVars, hostVars, TypeOK, RepliesAreSaid, HeldOnce, OnceIn, WokenBy, EventsNameOne, GivenArrived
<1>1. ASSUME NEW i \in Instance, StartServe(i) PROVE RepliesAreSaid'
  BY <1>1 DEF StartServe
<1>2. ASSUME NEW i \in Instance, EndServer(i) PROVE RepliesAreSaid'
  BY <1>2 DEF EndServer
<1>3. ASSUME NEW i \in Instance, Stop(i) PROVE RepliesAreSaid'
  BY <1>3 DEF Stop, Registered
<1>4. ASSUME NEW i \in Instance, JoinServer(i) PROVE RepliesAreSaid'
  BY <1>4 DEF JoinServer
<1>5. ASSUME NEW i \in Instance, PollInbound(i) PROVE RepliesAreSaid'
  BY <1>5 DEF PollInbound, Registered
<1>6. ASSUME NEW i \in Instance, PollTimeout(i) PROVE RepliesAreSaid'
  BY <1>6 DEF PollTimeout
<1>7. ASSUME NEW i \in Instance, NextArrival(i) PROVE RepliesAreSaid'
  BY <1>7 DEF NextArrival
<1>8. ASSUME NEW i \in Instance, PollReturn(i) PROVE RepliesAreSaid'
  BY <1>8 DEF PollReturn, Answered, EventAfter, Registered
<1>9. ASSUME NEW r \in Request, Accept(r) PROVE RepliesAreSaid'
  BY <1>9 DEF Accept
<1>10. ASSUME NEW r \in Request, RefuseBody(r) PROVE RepliesAreSaid'
  BY <1>10 DEF RefuseBody
<1>11. ASSUME NEW r \in Request, Collect(r) PROVE RepliesAreSaid'
  BY <1>11 DEF Collect
<1>12. ASSUME NEW r \in Request, Deliver(r) PROVE RepliesAreSaid'
  BY <1>12 DEF Deliver
<1>13. ASSUME NEW r \in Request, Leave(r) PROVE RepliesAreSaid'
  BY <1>13 DEF Leave
<1>14. ASSUME NEW r \in Request, Reply(r) PROVE RepliesAreSaid'
  BY <1>14 DEF Reply, Replied, ReplyOk, Answered
<1>15. ASSUME NEW r \in Request, Dispose(r) PROVE RepliesAreSaid'
  BY <1>15 DEF Dispose, Answered
<1>16. CASE UNCHANGED vars
  BY <1>16 DEF vars
<1>. QED
  BY <1>1, <1>2, <1>3, <1>4, <1>5, <1>6, <1>7, <1>8, <1>9, <1>10, <1>11, <1>12, <1>13, <1>14, <1>15, <1>16 DEF Next, ServerStep

LEMMA EndedIsClosedStep == IInv /\ [Next]_vars => EndedIsClosed'
<1> SUFFICES ASSUME IInv, [Next]_vars PROVE EndedIsClosed'
  OBVIOUS
<1>. USE TargetServes DEF IInv, serverVars, pollVars, clientVars, hostVars, TypeOK, EndedIsClosed
<1>1. ASSUME NEW i \in Instance, StartServe(i) PROVE EndedIsClosed'
  BY <1>1 DEF StartServe
<1>2. ASSUME NEW i \in Instance, EndServer(i) PROVE EndedIsClosed'
  BY <1>2 DEF EndServer
<1>3. ASSUME NEW i \in Instance, Stop(i) PROVE EndedIsClosed'
  BY <1>3 DEF Stop, Registered
<1>4. ASSUME NEW i \in Instance, JoinServer(i) PROVE EndedIsClosed'
  BY <1>4 DEF JoinServer
<1>5. ASSUME NEW i \in Instance, PollInbound(i) PROVE EndedIsClosed'
  BY <1>5 DEF PollInbound, Registered
<1>6. ASSUME NEW i \in Instance, PollTimeout(i) PROVE EndedIsClosed'
  BY <1>6 DEF PollTimeout
<1>7. ASSUME NEW i \in Instance, NextArrival(i) PROVE EndedIsClosed'
  BY <1>7 DEF NextArrival
<1>8. ASSUME NEW i \in Instance, PollReturn(i) PROVE EndedIsClosed'
  BY <1>8 DEF PollReturn, Answered, EventAfter, Registered
<1>9. ASSUME NEW r \in Request, Accept(r) PROVE EndedIsClosed'
  BY <1>9 DEF Accept
<1>10. ASSUME NEW r \in Request, RefuseBody(r) PROVE EndedIsClosed'
  BY <1>10 DEF RefuseBody
<1>11. ASSUME NEW r \in Request, Collect(r) PROVE EndedIsClosed'
  BY <1>11 DEF Collect
<1>12. ASSUME NEW r \in Request, Deliver(r) PROVE EndedIsClosed'
  BY <1>12 DEF Deliver
<1>13. ASSUME NEW r \in Request, Leave(r) PROVE EndedIsClosed'
  BY <1>13 DEF Leave
<1>14. ASSUME NEW r \in Request, Reply(r) PROVE EndedIsClosed'
  BY <1>14 DEF Reply, Replied, ReplyOk, Answered
<1>15. ASSUME NEW r \in Request, Dispose(r) PROVE EndedIsClosed'
  BY <1>15 DEF Dispose, Answered
<1>16. CASE UNCHANGED vars
  BY <1>16 DEF vars
<1>. QED
  BY <1>1, <1>2, <1>3, <1>4, <1>5, <1>6, <1>7, <1>8, <1>9, <1>10, <1>11, <1>12, <1>13, <1>14, <1>15, <1>16 DEF Next, ServerStep

THEOREM Invariance == Spec => []IInv
<1>1. IInv /\ [Next]_vars => IInv'
  BY TypeOKStep, GivenArrivedStep, HeldOnceStep, EventsNameOneStep,
     RepliesAreSaidStep, EndedIsClosedStep DEF IInv
<1>. QED
  BY <1>1, InitInv, PTL DEF Spec

\* Every variable keeps its type, whatever the instances and requests.
THEOREM TypeCorrect == Spec => []TypeOK
<1>1. IInv => TypeOK
  BY DEF IInv
<1>. QED
  BY <1>1, Invariance, PTL

\* When a stop returns the server's thread has ended and no connection of the
\* instance is open.
THEOREM StopFreesPort == Spec => []PortIsFree
<1>1. IInv => PortIsFree
  BY DEF IInv, EndedIsClosed, PortIsFree
<1>. QED
  BY <1>1, Invariance, PTL

\* A poll is answered with an error only by a server that was not stopped.
THEOREM ErrorsAreNotStops == Spec => StopIsNoError
<1>1. IInv /\ [Next]_vars => [\A i \in Instance : failed'[i] # failed[i] => stop[i] = "none"]_vars
  <2> SUFFICES ASSUME IInv, Next, NEW i \in Instance, failed'[i] # failed[i]
               PROVE stop[i] = "none"
    OBVIOUS
  <2>1. \A j \in Instance : ~(StartServe(j) \/ EndServer(j) \/ Stop(j) \/ JoinServer(j)
                              \/ PollInbound(j) \/ PollTimeout(j) \/ NextArrival(j))
    BY DEF StartServe, EndServer, Stop, JoinServer, PollInbound, PollTimeout,
           NextArrival, pollVars
  <2>2. \A r \in Request : ~(ServerStep(r) \/ Reply(r) \/ Dispose(r))
    BY DEF ServerStep, Accept, RefuseBody, Collect, Deliver, Leave, Reply, Dispose, pollVars
  <2>3. PICK j \in Instance : PollReturn(j)
    BY <2>1, <2>2 DEF Next
  <2>4. Registered(j) /\ failed' = [failed EXCEPT ![j] = TRUE]
    BY <2>3 DEF PollReturn
  <2>. QED
    BY <2>4 DEF Registered, IInv, TypeOK
<1>. QED
  BY <1>1, Invariance, PTL DEF Spec, StopIsNoError
-----------------------------------------------------------------------------
(* HttpServe keeps the promise of RequestReply.                             *)

LEMMA PromiseInit == Init => Promise!Init
BY TargetServes DEF Init, Promise!Init, Settled, Got

\* The view of a step of the server that leaves the host alone.
LEMMA PromiseServer ==
  ASSUME IInv, NEW r \in Request, ServerStep(r)
  PROVE  [Promise!Next]_(Promise!vars)
<1>. USE TargetServes DEF serverVars, pollVars, hostVars, Settled, Got, Promise!vars
<1>0. client \in [Request -> {"away", "sending", "waiting"} \cup Got] /\ UNCHANGED <<stop, given, said>>
  BY DEF IInv, TypeOK, ServerStep, Accept, RefuseBody, Collect, Deliver, Leave
<1>1. CASE Accept(r)
  <2>1. Promise!Ask(r)
    BY <1>0, <1>1 DEF Accept, Promise!Ask
  <2>. QED
    BY <2>1 DEF Promise!Next
<1>2. CASE RefuseBody(r)
  <2>1. said[r] = "nothing"
    BY <1>2 DEF RefuseBody, IInv, GivenArrived, Arrived
  <2>2. Promise!Settle(r)
    BY <1>0, <1>2, <2>1 DEF RefuseBody, Promise!Settle
  <2>. QED
    BY <2>2 DEF Promise!Next
<1>3. CASE Collect(r)
  BY <1>0, <1>3 DEF Collect
<1>4. CASE Deliver(r)
  <2>1. answer[r] \in {"dropped", "reply", "error"} /\ (answer[r] = "reply" <=> said[r] = "reply")
    BY <1>4 DEF Deliver, IInv, TypeOK, RepliesAreSaid
  <2>2. Promise!Settle(r)
    BY <1>0, <1>4, <2>1 DEF Deliver, Promise!Settle
  <2>. QED
    BY <2>2 DEF Promise!Next
<1>5. CASE Leave(r)
  <2>1. Promise!Settle(r)
    BY <1>0, <1>5 DEF Leave, Promise!Settle
  <2>. QED
    BY <2>1 DEF Promise!Next
<1>. QED
  BY <1>1, <1>2, <1>3, <1>4, <1>5 DEF ServerStep

LEMMA PromiseHost ==
  ASSUME IInv, NEW r \in Request, Reply(r) \/ Dispose(r)
  PROVE  [Promise!Next]_(Promise!vars)
<1>1. /\ UNCHANGED <<client, given, stop>> /\ given[r] # 0 /\ said[r] = "nothing"
      /\ \E a \in {"reply", "error"} : said' = [said EXCEPT ![r] = a]
  BY DEF Reply, Dispose, pollVars
<1>2. Promise!Say(r)
  BY <1>1 DEF Promise!Say, Settled
<1>. QED
  BY <1>2 DEF Promise!Next

LEMMA PromiseInstance ==
  ASSUME IInv, NEW i \in Instance,
         \/ StartServe(i) \/ EndServer(i) \/ Stop(i) \/ JoinServer(i)
         \/ PollInbound(i) \/ PollTimeout(i) \/ NextArrival(i) \/ PollReturn(i)
  PROVE  [Promise!Next]_(Promise!vars)
<1>. USE TargetServes DEF Promise!vars
<1>0. /\ client \in [Request -> {"away", "sending", "waiting"} \cup Got]
      /\ stop \in [Instance -> {"none", "joining", "done"}]
      /\ given \in [Request -> Nat] /\ next_event \in [Instance -> Nat]
  BY DEF IInv, TypeOK
<1>1. CASE StartServe(i) \/ PollInbound(i) \/ PollTimeout(i) \/ NextArrival(i)
  <2>1. UNCHANGED <<client, stop, given, said>>
    BY <1>1 DEF StartServe, PollInbound, PollTimeout, NextArrival, serverVars, clientVars, hostVars
  <2>. QED
    BY <2>1 DEF Settled
<1>2. CASE EndServer(i)
  <2> DEFINE them == {r \in Request : Target[r] = i /\ client[r] \in {"sending", "waiting"}}
  <2>1. UNCHANGED <<stop, given, said>> /\ stop[i] = "joining"
        /\ client' = [r \in Request |-> IF Target[r] = i /\ client[r] \in {"sending", "waiting"}
                                       THEN "cut" ELSE client[r]]
    BY <1>2 DEF EndServer, hostVars
  <2>2. them \in SUBSET {r \in {q \in Request : client[q] # "away"}
                               \cap {q \in Request : stop[Target[q]] # "none"} : ~Settled(r)}
    BY <2>1 DEF Settled, Got
  <2>3. \A r \in Request : ~Settled(r) <=>
                            (IF Settled(r) THEN client[r] ELSE "none") = "none"
    BY DEF Settled, Got
  <2>4. \A r \in Request : (IF Settled(r)' THEN client'[r] ELSE "none")
                 = IF r \in them THEN "cut" ELSE IF Settled(r) THEN client[r] ELSE "none"
    BY <1>0, <2>1 DEF Settled, Got
  <2>5. \A r \in Request : client'[r] # "away" <=> client[r] # "away"
    BY <1>0, <2>1
  <2>6. Promise!Cut
    <3> HIDE DEF them
    <3>. QED
      BY <2>1, <2>2, <2>3, <2>4, <2>5 DEF Promise!Cut
  <2>. QED
    BY <2>6 DEF Promise!Next
<1>3. CASE Stop(i)
  <2>1. UNCHANGED <<client, given, said>> /\ stop' = [stop EXCEPT ![i] = "joining"]
    BY <1>3 DEF Stop, clientVars, hostVars
  <2> DEFINE them == {r \in Request : Target[r] = i}
  <2>2. {r \in Request : stop'[Target[r]] # "none"} =
          {r \in Request : stop[Target[r]] # "none"} \cup them
    BY <1>0, <2>1
  <2>3. Promise!Stop
    BY <2>1, <2>2 DEF Promise!Stop, Settled
  <2>. QED
    BY <2>3 DEF Promise!Next
<1>4. CASE JoinServer(i)
  <2>1. UNCHANGED <<client, given, said>> /\ stop' = [stop EXCEPT ![i] = "done"] /\ stop[i] = "joining"
    BY <1>4 DEF JoinServer, clientVars, hostVars
  <2>2. \A r \in Request : stop'[Target[r]] # "none" <=> stop[Target[r]] # "none"
    BY <1>0, <2>1
  <2>. QED
    BY <2>1, <2>2 DEF Settled
<1>5. CASE PollReturn(i)
  <2>1. UNCHANGED <<client, stop, said>>
    BY <1>5 DEF PollReturn
  <2>2. CASE given' = given
    BY <2>1, <2>2 DEF Settled
  <2>3. CASE given' # given
    <3>0. woken[i] \in Request
      BY <1>5, <2>3 DEF PollReturn
    <3> PICK w \in Request : w = woken[i]
      BY <3>0
    <3>1. given' = [given EXCEPT ![w] = next_event[i]]
      BY <1>5, <2>3 DEF PollReturn
    <3>2. given[w] = 0 /\ Arrived(w) /\ next_event[i] # 0
      BY <3>1 DEF IInv, HeldOnce, WokenBy, EventsNameOne
    <3>3. {r \in Request : given'[r] # 0} = {r \in Request : given[r] # 0} \cup {w}
      BY <1>0, <3>1, <3>2
    <3>4. w \in {r \in Request : client[r] # "away"} \ {r \in Request : given[r] # 0}
      BY <3>1, <3>2 DEF Arrived
    <3>5. Promise!Hand(w)
      BY <2>1, <3>3, <3>4 DEF Promise!Hand, Settled
    <3>. QED
      BY <3>5 DEF Promise!Next
  <2>. QED
    BY <2>2, <2>3
<1>. QED
  BY <1>1, <1>2, <1>3, <1>4, <1>5

\* A client gets the host's reply only if the host replied to its request, is
\* cut off only by a stop, and a request is given to the host once: the server
\* implements RequestReply.
THEOREM PromiseKept == Spec => KeepsPromise
<1>1. IInv /\ [Next]_vars => [Promise!Next]_(Promise!vars)
  <2> SUFFICES ASSUME IInv, [Next]_vars PROVE [Promise!Next]_(Promise!vars)
    OBVIOUS
  <2>1. CASE Next
    BY <2>1, PromiseServer, PromiseHost, PromiseInstance DEF Next
  <2>2. CASE UNCHANGED vars
    BY <2>2 DEF vars, serverVars, pollVars, clientVars, hostVars, Promise!vars, Settled
  <2>. QED
    BY <2>1, <2>2
<1>. QED
  BY <1>1, PromiseInit, Invariance, PTL DEF Spec, KeepsPromise, Promise!Spec
=============================================================================
