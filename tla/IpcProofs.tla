----------------------------- MODULE IpcProofs -----------------------------
(***************************************************************************)
(* Proofs about the IPC system calls, for every number of tasks, endpoints *)
(* and slots and whatever calls the tasks make.                            *)
(*                                                                         *)
(* The first part is about parking: Good(router, blocked) says that the    *)
(* router is sound and that its waiter queues and the tasks' block reasons *)
(* tell the same story.  It has one lemma per operation on routers, and    *)
(* each system call is a composition of those.                             *)
(*                                                                         *)
(* The second part is about capabilities: Conserved(router, caps, gone)    *)
(* says that every capability the tasks started with is in one place.      *)
(* It needs the router's exact accounting: a message put back after a      *)
(* failed delivery must fit (RequeueFits), or its capability would go.     *)
(*                                                                         *)
(* The third part is about wake-ups: WakeInv says that next to a sleeping  *)
(* receiver there is a woken one for every message, and next to a sleeping *)
(* sender a woken one for every free place.                                *)
(***************************************************************************)
EXTENDS KernelIpc, RouterProofs

(* Parking *)

\* Task p is parked on endpoint i as a sender or receiver.
On(b, p, on, i) == b[p] # None /\ b[p].on = on /\ i \in b[p].eps

\* ParkedIsRegistered, for a router and block reasons.
Registered(r, b) ==
    \A p \in Pid, i \in DOMAIN r.eps :
        /\ p \in Elements(r.eps[i].recv_waiters) <=> On(b, p, "recv", i)
        /\ p \in Elements(r.eps[i].send_waiters) <=> On(b, p, "send", i)
        /\ b[p] # None /\ i \in b[p].eps => r.eps[i].alive

\* A parked task is parked on one endpoint: a wake leaves nothing behind.
OneEach(r, b) ==
    \A p \in Pid : b[p] # None => \E i \in DOMAIN r.eps : b[p].eps = {i}

Parking(r, b) ==
    /\ DOMAIN r.eps = DOMAIN Owners
    /\ b \in [Pid -> {None} \cup IpcReason]
    /\ OneEach(r, b) /\ Registered(r, b)

\* s has the waiters of r, and the endpoints that are alive in r.
SameParking(r, s) ==
    /\ DOMAIN s.eps = DOMAIN r.eps
    /\ \A i \in DOMAIN r.eps : /\ SameWaiters(s.eps[i], r.eps[i])
                               /\ s.eps[i].alive = r.eps[i].alive

\* In s the tasks S are off every waiter queue, and an endpoint that was
\* closed had no other waiter.
Leaves(r, s, S) ==
    /\ DOMAIN s.eps = DOMAIN r.eps
    /\ \A i \in DOMAIN r.eps :
         /\ Elements(s.eps[i].recv_waiters) = Elements(r.eps[i].recv_waiters) \ S
         /\ Elements(s.eps[i].send_waiters) = Elements(r.eps[i].send_waiters) \ S
         /\ \/ s.eps[i].alive = r.eps[i].alive
            \/ /\ Elements(r.eps[i].recv_waiters) \subseteq S
               /\ Elements(r.eps[i].send_waiters) \subseteq S

\* ParkedIsRegistered is what Registered says of the variables.
LEMMA RegisteredIsParked ==
    ASSUME Registered(router, blocked), router \in RouterState
    PROVE  ParkedIsRegistered
<1>1. ASSUME NEW s, NEW n \in Nat, DOMAIN s = 1..n, Len(s) = n, NEW p
      PROVE  Contains(s, p) <=> p \in Elements(s)
  BY <1>1 DEF Contains, Elements
<1>2. ASSUME NEW p \in Pid, NEW i \in DOMAIN router.eps
      PROVE  /\ Contains(router.eps[i].recv_waiters, p)
                  <=> p \in Elements(router.eps[i].recv_waiters)
             /\ Contains(router.eps[i].send_waiters, p)
                  <=> p \in Elements(router.eps[i].send_waiters)
  <2>1. router.eps[i] \in Endpoint BY RouterFields
  <2>2. PICK ws \in Seq(Pid) : ws = router.eps[i].recv_waiters BY <2>1, EndpointFields
  <2>3. PICK xs \in Seq(Pid) : xs = router.eps[i].send_waiters BY <2>1, EndpointFields
  <2>4. Len(ws) \in Nat /\ DOMAIN ws = 1..Len(ws) /\ Len(xs) \in Nat /\ DOMAIN xs = 1..Len(xs)
    OBVIOUS
  <2>5. (Contains(ws, p) <=> p \in Elements(ws)) /\ (Contains(xs, p) <=> p \in Elements(xs))
    BY <1>1, <2>4
  <2>6. QED BY <2>2, <2>3, <2>5
<1>3. QED BY <1>2 DEF Registered, On, ParkedIsRegistered

\* Parking only depends on the waiters and on which endpoints are alive.
LEMMA ParkingKept ==
    ASSUME NEW r, NEW b, Parking(r, b), NEW s, SameParking(r, s)
    PROVE  Parking(s, b)
<1>1. DOMAIN s.eps = DOMAIN r.eps BY DEF SameParking
<1>2. Registered(s, b)
  BY DEF Parking, Registered, SameParking, SameWaiters
<1>3. OneEach(s, b) BY <1>1 DEF Parking, OneEach
<1>4. QED BY <1>1, <1>2, <1>3 DEF Parking

\* Waking the tasks that leave the waiter queues keeps parking right.
LEMMA WakeParking ==
    ASSUME NEW r, NEW b, Parking(r, b), NEW s, NEW S, Leaves(r, s, S)
    PROVE  Parking(s, Woken(b, S))
<1> DEFINE w == Woken(b, S)
<1>1. DOMAIN s.eps = DOMAIN r.eps BY DEF Leaves
<1>2. b \in [Pid -> {None} \cup IpcReason] BY DEF Parking
<1>3. \A p \in Pid : w[p] = IF p \in S THEN None ELSE b[p] BY DEF Woken
<1>4. w \in [Pid -> {None} \cup IpcReason] BY <1>2 DEF Woken
<1> HIDE DEF w
<1>5. OneEach(s, w) BY <1>1, <1>3 DEF Parking, OneEach
<1>6. ASSUME NEW p \in Pid, NEW i \in DOMAIN s.eps
      PROVE  /\ p \in Elements(s.eps[i].recv_waiters) <=> On(w, p, "recv", i)
             /\ p \in Elements(s.eps[i].send_waiters) <=> On(w, p, "send", i)
             /\ w[p] # None /\ i \in w[p].eps => s.eps[i].alive
  <2>1. i \in DOMAIN r.eps BY <1>1
  <2>2. /\ p \in Elements(r.eps[i].recv_waiters) <=> On(b, p, "recv", i)
        /\ p \in Elements(r.eps[i].send_waiters) <=> On(b, p, "send", i)
        /\ b[p] # None /\ i \in b[p].eps => r.eps[i].alive
    BY <2>1 DEF Parking, Registered
  <2>3. /\ Elements(s.eps[i].recv_waiters) = Elements(r.eps[i].recv_waiters) \ S
        /\ Elements(s.eps[i].send_waiters) = Elements(r.eps[i].send_waiters) \ S
    BY <2>1 DEF Leaves
  <2>4. CASE p \in S
    <3>1. w[p] = None BY <1>3, <2>4
    <3>2. QED BY <2>3, <2>4, <3>1 DEF On
  <2>5. CASE p \notin S
    <3>1. w[p] = b[p] BY <1>3, <2>5
    <3>2. \A on : On(w, p, on, i) <=> On(b, p, on, i) BY <3>1 DEF On
    <3>3. ASSUME b[p] # None, i \in b[p].eps PROVE s.eps[i].alive
      <4>1. b[p].on \in {"send", "recv"} BY <1>2, <3>3 DEF IpcReason
      <4>2. p \in Elements(r.eps[i].recv_waiters) \/ p \in Elements(r.eps[i].send_waiters)
        BY <2>2, <3>3, <4>1 DEF On
      <4>3. s.eps[i].alive = r.eps[i].alive BY <2>1, <2>5, <4>2 DEF Leaves
      <4>4. QED BY <2>2, <3>3, <4>3
    <3>4. QED BY <2>2, <2>3, <2>5, <3>1, <3>2, <3>3
  <2>6. QED BY <2>4, <2>5
<1>7. Registered(s, w) BY <1>6 DEF Registered
<1>8. QED BY <1>1, <1>4, <1>5, <1>7 DEF Parking, w

-----------------------------------------------------------------------------
(* What the operations on routers do, endpoint by endpoint *)

\* Sending and receiving move nobody.
LEMMA QueueOpsParking ==
    ASSUME NEW r \in RouterState, NEW id
    PROVE  /\ SameParking(r, Recv(r, id))
           /\ \A m : SameParking(r, Send(r, id, m)) /\ SameParking(r, RequeueFront(r, id, m))
<1>1. SameParking(r, r) BY DEF SameParking, SameWaiters
<1>2. ASSUME NEW s, OnlyAt(r, s, id), id \in DOMAIN r.eps,
             SameWaiters(s.eps[id], r.eps[id]), s.eps[id].alive = r.eps[id].alive
      PROVE  SameParking(r, s)
  BY <1>2 DEF OnlyAt, SameParking, SameWaiters
<1>3. SameParking(r, Recv(r, id))
  <2>1. CASE RecvErr(r, id) = "Ok"
    <3>1. r.eps[id] \in Endpoint BY <2>1, RecvEffect, RouterFields
    <3>2. QED BY <1>2, <2>1, <3>1, RecvEffect, PopFields
  <2>2. CASE RecvErr(r, id) # "Ok" BY <1>1, <2>2 DEF Recv
  <2>3. QED BY <2>1, <2>2
<1>4. ASSUME NEW m
      PROVE  SameParking(r, Send(r, id, m)) /\ SameParking(r, RequeueFront(r, id, m))
  <2>1. CASE SendErr(r, id, m) = "Ok"
    <3>1. r.eps[id] \in Endpoint BY <2>1, SendEffect, RouterFields
    <3>2. /\ SameWaiters(Push(r.eps[id], m), r.eps[id])
          /\ Push(r.eps[id], m).alive = r.eps[id].alive
          /\ SameWaiters(PushFront(r.eps[id], m), r.eps[id])
          /\ PushFront(r.eps[id], m).alive = r.eps[id].alive
      <4>1. PICK ep \in Endpoint : ep = r.eps[id] BY <3>1
      <4>2. \A e \in {Push(ep, m), PushFront(ep, m)} :
              e.alive = ep.alive /\ SameWaiters(e, ep)
        BY PushFields
      <4>3. QED BY <4>1, <4>2
    <3>3. /\ id \in DOMAIN r.eps
          /\ OnlyAt(r, Send(r, id, m), id) /\ OnlyAt(r, RequeueFront(r, id, m), id)
          /\ Send(r, id, m).eps[id] = Push(r.eps[id], m)
          /\ RequeueFront(r, id, m).eps[id] = PushFront(r.eps[id], m)
      BY <2>1, SendEffect
    <3>4. SameParking(r, Send(r, id, m)) BY <1>2, <3>2, <3>3
    <3>5. SameParking(r, RequeueFront(r, id, m)) BY <1>2, <3>2, <3>3
    <3>6. QED BY <3>4, <3>5
  <2>2. CASE SendErr(r, id, m) # "Ok" BY <1>1, <2>2 DEF Send, RequeueFront
  <2>3. QED BY <2>1, <2>2
<1>5. QED BY <1>3, <1>4

\* Replacing an endpoint changes that endpoint only.
LEMMA SetEffect ==
    ASSUME NEW r \in RouterState, NEW id \in DOMAIN r.eps, NEW ep
    PROVE  OnlyAt(r, SetEndpoint(r, id, ep), id) /\ SetEndpoint(r, id, ep).eps[id] = ep
<1>1. SetEndpoint(r, id, ep).eps = [r.eps EXCEPT ![id] = ep] BY DEF SetEndpoint, RouterState
<1>2. QED BY <1>1, RouterFields DEF OnlyAt

\* s has ws as the receivers of endpoint id, and is as r otherwise.
NewReceivers(r, s, id, ws) ==
    /\ OnlyAt(r, s, id) /\ s.eps[id].recv_waiters = ws
    /\ s.eps[id].send_waiters = r.eps[id].send_waiters
    /\ s.eps[id].alive = r.eps[id].alive

\* s has ws as the senders of endpoint id, and is as r otherwise.
NewSenders(r, s, id, ws) ==
    /\ OnlyAt(r, s, id) /\ s.eps[id].send_waiters = ws
    /\ s.eps[id].recv_waiters = r.eps[id].recv_waiters
    /\ s.eps[id].alive = r.eps[id].alive

\* Registering adds a waiter to one queue.
LEMMA RegisterEffect ==
    ASSUME NEW r \in RouterState, NEW id, EndpointAlive(r, id), NEW p
    PROVE  /\ NewReceivers(r, RegisterRecvWaiter(r, id, p), id,
                           AddWaiter(r.eps[id].recv_waiters, p))
           /\ NewSenders(r, RegisterSendWaiter(r, id, p), id,
                         AddWaiter(r.eps[id].send_waiters, p))
<1>1. id \in DOMAIN r.eps BY DEF EndpointAlive
<1>2. r.eps[id] \in Endpoint BY <1>1, RouterFields
<1>3. PICK xs : xs = AddWaiter(r.eps[id].recv_waiters, p) OBVIOUS
<1>4. PICK ys : ys = AddWaiter(r.eps[id].send_waiters, p) OBVIOUS
<1>5. PICK x : x = [r.eps[id] EXCEPT !.recv_waiters = xs] OBVIOUS
<1>6. PICK y : y = [r.eps[id] EXCEPT !.send_waiters = ys] OBVIOUS
<1>7. /\ x.recv_waiters = xs /\ x.send_waiters = r.eps[id].send_waiters
      /\ x.alive = r.eps[id].alive
  BY <1>2, <1>5 DEF Endpoint
<1>8. /\ y.send_waiters = ys /\ y.recv_waiters = r.eps[id].recv_waiters
      /\ y.alive = r.eps[id].alive
  BY <1>2, <1>6 DEF Endpoint
<1>9. RegisterRecvWaiter(r, id, p) = SetEndpoint(r, id, x) BY <1>3, <1>5 DEF RegisterRecvWaiter
<1>10. RegisterSendWaiter(r, id, p) = SetEndpoint(r, id, y) BY <1>4, <1>6 DEF RegisterSendWaiter
<1>11. QED BY <1>1, <1>3, <1>4, <1>7, <1>8, <1>9, <1>10, SetEffect DEF NewReceivers, NewSenders

\* Popping a waiter takes the head off one queue.
LEMMA PopEffect ==
    ASSUME NEW r \in RouterState, NEW id
    PROVE  /\ FirstRecvWaiter(r, id) # None =>
                /\ id \in DOMAIN r.eps /\ r.eps[id].recv_waiters # <<>>
                /\ FirstRecvWaiter(r, id) = Head(r.eps[id].recv_waiters)
                /\ NewReceivers(r, PopRecvWaiter(r, id), id, Tail(r.eps[id].recv_waiters))
           /\ FirstSendWaiter(r, id) # None =>
                /\ id \in DOMAIN r.eps /\ r.eps[id].send_waiters # <<>>
                /\ FirstSendWaiter(r, id) = Head(r.eps[id].send_waiters)
                /\ NewSenders(r, PopSendWaiter(r, id), id, Tail(r.eps[id].send_waiters))
<1>1. ASSUME FirstRecvWaiter(r, id) # None
      PROVE  /\ id \in DOMAIN r.eps /\ r.eps[id].recv_waiters # <<>>
             /\ FirstRecvWaiter(r, id) = Head(r.eps[id].recv_waiters)
             /\ NewReceivers(r, PopRecvWaiter(r, id), id, Tail(r.eps[id].recv_waiters))
  <2>1. /\ id \in DOMAIN r.eps /\ r.eps[id].recv_waiters # <<>>
        /\ FirstRecvWaiter(r, id) = Head(r.eps[id].recv_waiters)
    BY <1>1 DEF FirstRecvWaiter, EndpointAlive
  <2>2. r.eps[id] \in Endpoint BY <2>1, RouterFields
  <2>3. PICK xs : xs = Tail(r.eps[id].recv_waiters) OBVIOUS
  <2>4. PICK x : x = [r.eps[id] EXCEPT !.recv_waiters = xs] OBVIOUS
  <2>5. /\ x.recv_waiters = xs /\ x.send_waiters = r.eps[id].send_waiters
        /\ x.alive = r.eps[id].alive
    BY <2>2, <2>4 DEF Endpoint
  <2>6. PopRecvWaiter(r, id) = SetEndpoint(r, id, x) BY <1>1, <2>3, <2>4 DEF PopRecvWaiter
  <2>7. QED BY <2>1, <2>3, <2>5, <2>6, SetEffect DEF NewReceivers
<1>2. ASSUME FirstSendWaiter(r, id) # None
      PROVE  /\ id \in DOMAIN r.eps /\ r.eps[id].send_waiters # <<>>
             /\ FirstSendWaiter(r, id) = Head(r.eps[id].send_waiters)
             /\ NewSenders(r, PopSendWaiter(r, id), id, Tail(r.eps[id].send_waiters))
  <2>1. /\ id \in DOMAIN r.eps /\ r.eps[id].send_waiters # <<>>
        /\ FirstSendWaiter(r, id) = Head(r.eps[id].send_waiters)
    BY <1>2 DEF FirstSendWaiter, EndpointAlive
  <2>2. r.eps[id] \in Endpoint BY <2>1, RouterFields
  <2>3. PICK xs : xs = Tail(r.eps[id].send_waiters) OBVIOUS
  <2>4. PICK x : x = [r.eps[id] EXCEPT !.send_waiters = xs] OBVIOUS
  <2>5. /\ x.send_waiters = xs /\ x.recv_waiters = r.eps[id].recv_waiters
        /\ x.alive = r.eps[id].alive
    BY <2>2, <2>4 DEF Endpoint
  <2>6. PopSendWaiter(r, id) = SetEndpoint(r, id, x) BY <1>2, <2>3, <2>4 DEF PopSendWaiter
  <2>7. QED BY <2>1, <2>3, <2>5, <2>6, SetEffect DEF NewSenders
<1>3. QED BY <1>1, <1>2

\* The elements of the sequences that the waiter operations make.
LEMMA WaiterElements ==
    ASSUME NEW ws \in Seq(Pid), IsDistinct(ws), NEW p
    PROVE  /\ Elements(AddWaiter(ws, p)) = Elements(ws) \cup {p}
           /\ Elements(RemoveWaiter(ws, p)) = Elements(ws) \ {p}
           /\ ws # <<>> => /\ Elements(Tail(ws)) = Elements(ws) \ {Head(ws)}
                           /\ Head(ws) \in Elements(ws)
           /\ Elements(<<>>) = {}
<1>1. Len(ws) \in Nat /\ DOMAIN ws = 1..Len(ws) OBVIOUS
<1>2. Elements(AddWaiter(ws, p)) = Elements(ws) \cup {p}
  <2>1. CASE Contains(ws, p)
    <3>1. p \in Elements(ws) BY <1>1, <2>1 DEF Contains, Elements
    <3>2. QED BY <2>1, <3>1 DEF AddWaiter
  <2>2. CASE ~Contains(ws, p)
    <3>1. PICK t : t = Append(ws, p) OBVIOUS
    <3>2. /\ DOMAIN t = (1..Len(ws)) \cup {Len(ws) + 1} /\ t[Len(ws) + 1] = p
          /\ \A i \in 1..Len(ws) : t[i] = ws[i]
      BY <1>1, <3>1
    <3>3. Elements(t) = Elements(ws) \cup {p} BY <1>1, <3>2 DEF Elements
    <3>4. QED BY <2>2, <3>1, <3>3 DEF AddWaiter
  <2>3. QED BY <2>1, <2>2
<1>3. Elements(RemoveWaiter(ws, p)) = Elements(ws) \ {p}
  BY WithoutProperties DEF RemoveWaiter
<1>4. ASSUME ws # <<>>
      PROVE  Elements(Tail(ws)) = Elements(ws) \ {Head(ws)} /\ Head(ws) \in Elements(ws)
  <2>1. Head(ws) = ws[1] /\ 1 \in 1..Len(ws) BY <1>4
  <2>2. PICK t : t = Tail(ws) OBVIOUS
  <2>3. DOMAIN t = 1..(Len(ws) - 1) /\ \A i \in 1..(Len(ws) - 1) : t[i] = ws[i + 1]
    BY <1>1, <1>4, <2>2
  <2>4. \A i \in 1..(Len(ws) - 1) : i + 1 \in 1..Len(ws) /\ i + 1 # 1 BY <1>1
  <2>5. \A i \in 1..Len(ws) : i # 1 => i - 1 \in 1..(Len(ws) - 1) /\ (i - 1) + 1 = i BY <1>1
  <2>6. \A i \in 1..Len(ws) : i # 1 => ws[i] # ws[1] BY <1>1, <2>1 DEF IsDistinct
  <2>7. ASSUME NEW x \in Elements(t) PROVE x \in Elements(ws) /\ x # ws[1]
    BY <1>1, <2>3, <2>4, <2>6 DEF Elements
  <2>8. ASSUME NEW x \in Elements(ws), x # ws[1] PROVE x \in Elements(t)
    <3>1. PICK i \in 1..Len(ws) : x = ws[i] BY <1>1 DEF Elements
    <3>2. i # 1 BY <2>8, <3>1
    <3>3. i - 1 \in DOMAIN t /\ t[i - 1] = x BY <2>3, <2>5, <3>1, <3>2
    <3>4. QED BY <3>3 DEF Elements
  <2>9. Elements(t) = Elements(ws) \ {ws[1]} BY <2>7, <2>8
  <2>10. QED BY <1>1, <2>1, <2>2, <2>9 DEF Elements
<1>5. Elements(<<>>) = {} BY DEF Elements
<1>6. QED BY <1>2, <1>3, <1>4, <1>5

-----------------------------------------------------------------------------
(* Good routers: one lemma per operation *)

Good(r, b) == Sound(r) /\ Parking(r, b)

\* The waiter queues of a good router are duplicate-free sequences of tasks.
LEMMA GoodQueues ==
    ASSUME NEW r, NEW b, Good(r, b), NEW i \in DOMAIN r.eps
    PROVE  /\ r \in RouterState /\ r.eps[i] \in Endpoint
           /\ r.eps[i].recv_waiters \in Seq(Pid) /\ IsDistinct(r.eps[i].recv_waiters)
           /\ r.eps[i].send_waiters \in Seq(Pid) /\ IsDistinct(r.eps[i].send_waiters)
           /\ ~r.eps[i].alive => r.eps[i].queue = <<>>
<1>1. r \in RouterState /\ WaitersOf(r) BY DEF Good, Sound
<1>2. r.eps[i] \in Endpoint BY <1>1, RouterFields
<1>3. QED BY <1>1, <1>2, EndpointFields DEF WaitersOf

\* A sound router whose waiters change without duplicates is sound.
LEMMA SoundWaiters ==
    ASSUME NEW r, Sound(r), NEW s, OnlyWaiters(r, s), WaitersOf(s) PROVE Sound(s)
<1>1. s \in RouterState BY DEF OnlyWaiters
<1>2. QED BY <1>1, OnlyWaitersAccounting, OnlyWaitersBudgets DEF Sound

\* send and requeue_front.
LEMMA GoodSend ==
    ASSUME NEW r, NEW b, Good(r, b), NEW id, NEW m \in Message
    PROVE  Good(Send(r, id, m), b) /\ Good(RequeueFront(r, id, m), b)
<1>1. /\ r \in RouterState /\ AccountingOf(r) /\ BudgetsOf(r) /\ WaitersOf(r)
      /\ Parking(r, b)
  BY DEF Good, Sound
<1>2. Sound(Send(r, id, m)) /\ Sound(RequeueFront(r, id, m))
  BY <1>1, SendType, SendAccounting, SendBudgets, SendWaiters DEF Sound
<1>3. Parking(Send(r, id, m), b) /\ Parking(RequeueFront(r, id, m), b)
  BY <1>1, QueueOpsParking, ParkingKept
<1>4. QED BY <1>2, <1>3 DEF Good

\* recv.
LEMMA GoodRecv ==
    ASSUME NEW r, NEW b, Good(r, b), NEW id
    PROVE  /\ Good(Recv(r, id), b)
           /\ RecvErr(r, id) = "Ok" => Received(r, id) \in Message
<1>1. /\ r \in RouterState /\ AccountingOf(r) /\ BudgetsOf(r) /\ WaitersOf(r)
      /\ Parking(r, b)
  BY DEF Good, Sound
<1>2. Sound(Recv(r, id)) BY <1>1, RecvType, RecvAccounting, RecvBudgets, RecvWaiters DEF Sound
<1>3. Parking(Recv(r, id), b) BY <1>1, QueueOpsParking, ParkingKept
<1>4. QED BY <1>1, <1>2, <1>3, RecvType DEF Good

\* A parked task is in the waiter queue of one endpoint, and of one kind.
LEMMA ParkedOnce ==
    ASSUME NEW r, NEW b, Parking(r, b), NEW p \in Pid, NEW i \in DOMAIN r.eps,
           NEW j \in DOMAIN r.eps
    PROVE  /\ p \in Elements(r.eps[i].recv_waiters) =>
                /\ j # i => p \notin Elements(r.eps[j].recv_waiters)
                /\ p \notin Elements(r.eps[j].send_waiters)
           /\ p \in Elements(r.eps[i].send_waiters) =>
                /\ j # i => p \notin Elements(r.eps[j].send_waiters)
                /\ p \notin Elements(r.eps[j].recv_waiters)
<1>1. /\ p \in Elements(r.eps[i].recv_waiters) <=> On(b, p, "recv", i)
      /\ p \in Elements(r.eps[i].send_waiters) <=> On(b, p, "send", i)
      /\ p \in Elements(r.eps[j].recv_waiters) <=> On(b, p, "recv", j)
      /\ p \in Elements(r.eps[j].send_waiters) <=> On(b, p, "send", j)
  BY DEF Parking, Registered
<1>2. b[p] # None => \E k \in DOMAIN r.eps : b[p].eps = {k} BY DEF Parking, OneEach
<1>3. "recv" # "send" OBVIOUS
<1>4. QED BY <1>1, <1>2, <1>3 DEF On

\* Waking the first waiter of an endpoint.
LEMMA GoodPop ==
    ASSUME NEW r, NEW b, Good(r, b), NEW id
    PROVE  /\ Good(PopRecvWaiter(r, id), Woken(b, {FirstRecvWaiter(r, id)}))
           /\ Good(PopSendWaiter(r, id), Woken(b, {FirstSendWaiter(r, id)}))
<1>1. r \in RouterState /\ WaitersOf(r) /\ Sound(r) /\ Parking(r, b) BY DEF Good, Sound
<1>2. Sound(PopRecvWaiter(r, id)) /\ Sound(PopSendWaiter(r, id))
  BY <1>1, OnlyWaitersOps, WaiterQueueOpsWaiters, SoundWaiters
<1>3. ASSUME NEW j \in DOMAIN r.eps
      PROVE  /\ Elements(r.eps[j].recv_waiters) \subseteq Pid
             /\ Elements(r.eps[j].send_waiters) \subseteq Pid
             /\ None \notin Elements(r.eps[j].recv_waiters)
             /\ None \notin Elements(r.eps[j].send_waiters)
  <2>1. r.eps[j].recv_waiters \in Seq(Pid) /\ r.eps[j].send_waiters \in Seq(Pid)
    BY GoodQueues
  <2>2. QED BY <2>1, RouterAssumption DEF Elements
<1>4. Leaves(r, r, {None})
  BY <1>3 DEF Leaves
<1>5. Leaves(r, PopRecvWaiter(r, id), {FirstRecvWaiter(r, id)})
  <2>1. CASE FirstRecvWaiter(r, id) = None BY <1>4, <2>1 DEF PopRecvWaiter
  <2>2. CASE FirstRecvWaiter(r, id) # None
    <3>1. PICK ws : ws = r.eps[id].recv_waiters OBVIOUS
    <3>2. PICK w : w = FirstRecvWaiter(r, id) OBVIOUS
    <3>3. PICK s : s = PopRecvWaiter(r, id) OBVIOUS
    <3>4. id \in DOMAIN r.eps /\ ws # <<>> /\ w = Head(ws) /\ NewReceivers(r, s, id, Tail(ws))
      BY <1>1, <2>2, <3>1, <3>2, <3>3, PopEffect
    <3>5. ws \in Seq(Pid) /\ IsDistinct(ws) BY <3>1, <3>4, GoodQueues
    <3>6. Elements(Tail(ws)) = Elements(ws) \ {w} /\ w \in Elements(ws)
      BY <3>4, <3>5, WaiterElements
    <3>7. /\ OnlyAt(r, s, id) /\ s.eps[id].recv_waiters = Tail(ws)
          /\ s.eps[id].send_waiters = r.eps[id].send_waiters
          /\ s.eps[id].alive = r.eps[id].alive
      BY <3>4 DEF NewReceivers
    <3>10. w \in Pid BY <1>3, <3>1, <3>4, <3>6
    <3>11. \A j \in DOMAIN r.eps : /\ j # id => w \notin Elements(r.eps[j].recv_waiters)
                                   /\ w \notin Elements(r.eps[j].send_waiters)
      BY <1>1, <3>1, <3>4, <3>6, <3>10, ParkedOnce
    <3>12. ASSUME NEW j \in DOMAIN r.eps
           PROVE  /\ Elements(s.eps[j].recv_waiters) = Elements(r.eps[j].recv_waiters) \ {w}
                  /\ Elements(s.eps[j].send_waiters) = Elements(r.eps[j].send_waiters) \ {w}
                  /\ s.eps[j].alive = r.eps[j].alive
      <4>1. CASE j = id
        <5>1. w \notin Elements(r.eps[id].send_waiters) BY <3>4, <3>11
        <5>2. Elements(r.eps[id].send_waiters) \ {w} = Elements(r.eps[id].send_waiters) BY <5>1
        <5>3. Elements(s.eps[id].send_waiters) = Elements(r.eps[id].send_waiters) BY <3>7
        <5>4. Elements(s.eps[id].recv_waiters) = Elements(r.eps[id].recv_waiters) \ {w}
          BY <3>1, <3>6, <3>7
        <5>5. QED BY <3>7, <4>1, <5>2, <5>3, <5>4
      <4>2. CASE j # id
        <5>1. s.eps[j] = r.eps[j] BY <3>7, <4>2 DEF OnlyAt
        <5>2. QED BY <3>11, <4>2, <5>1
      <4>3. QED BY <4>1, <4>2
    <3>13. DOMAIN s.eps = DOMAIN r.eps BY <3>7 DEF OnlyAt
    <3>14. Leaves(r, s, {w}) BY <3>12, <3>13 DEF Leaves
    <3>15. QED BY <3>2, <3>3, <3>14
  <2>3. QED BY <2>1, <2>2
<1>6. Leaves(r, PopSendWaiter(r, id), {FirstSendWaiter(r, id)})
  <2>1. CASE FirstSendWaiter(r, id) = None BY <1>4, <2>1 DEF PopSendWaiter
  <2>2. CASE FirstSendWaiter(r, id) # None
    <3>1. PICK ws : ws = r.eps[id].send_waiters OBVIOUS
    <3>2. PICK w : w = FirstSendWaiter(r, id) OBVIOUS
    <3>3. PICK s : s = PopSendWaiter(r, id) OBVIOUS
    <3>4. id \in DOMAIN r.eps /\ ws # <<>> /\ w = Head(ws) /\ NewSenders(r, s, id, Tail(ws))
      BY <1>1, <2>2, <3>1, <3>2, <3>3, PopEffect
    <3>5. ws \in Seq(Pid) /\ IsDistinct(ws) BY <3>1, <3>4, GoodQueues
    <3>6. Elements(Tail(ws)) = Elements(ws) \ {w} /\ w \in Elements(ws)
      BY <3>4, <3>5, WaiterElements
    <3>7. /\ OnlyAt(r, s, id) /\ s.eps[id].send_waiters = Tail(ws)
          /\ s.eps[id].recv_waiters = r.eps[id].recv_waiters
          /\ s.eps[id].alive = r.eps[id].alive
      BY <3>4 DEF NewSenders
    <3>10. w \in Pid BY <1>3, <3>1, <3>4, <3>6
    <3>11. \A j \in DOMAIN r.eps : /\ j # id => w \notin Elements(r.eps[j].send_waiters)
                                   /\ w \notin Elements(r.eps[j].recv_waiters)
      BY <1>1, <3>1, <3>4, <3>6, <3>10, ParkedOnce
    <3>12. ASSUME NEW j \in DOMAIN r.eps
           PROVE  /\ Elements(s.eps[j].recv_waiters) = Elements(r.eps[j].recv_waiters) \ {w}
                  /\ Elements(s.eps[j].send_waiters) = Elements(r.eps[j].send_waiters) \ {w}
                  /\ s.eps[j].alive = r.eps[j].alive
      <4>1. CASE j = id
        <5>1. w \notin Elements(r.eps[id].recv_waiters) BY <3>4, <3>11
        <5>2. Elements(r.eps[id].recv_waiters) \ {w} = Elements(r.eps[id].recv_waiters) BY <5>1
        <5>3. Elements(s.eps[id].recv_waiters) = Elements(r.eps[id].recv_waiters) BY <3>7
        <5>4. Elements(s.eps[id].send_waiters) = Elements(r.eps[id].send_waiters) \ {w}
          BY <3>1, <3>6, <3>7
        <5>5. QED BY <3>7, <4>1, <5>2, <5>3, <5>4
      <4>2. CASE j # id
        <5>1. s.eps[j] = r.eps[j] BY <3>7, <4>2 DEF OnlyAt
        <5>2. QED BY <3>11, <4>2, <5>1
      <4>3. QED BY <4>1, <4>2
    <3>13. DOMAIN s.eps = DOMAIN r.eps BY <3>7 DEF OnlyAt
    <3>14. Leaves(r, s, {w}) BY <3>12, <3>13 DEF Leaves
    <3>15. QED BY <3>2, <3>3, <3>14
  <2>3. QED BY <2>1, <2>2
<1>7. QED BY <1>1, <1>2, <1>5, <1>6, WakeParking DEF Good

\* A task that runs is parked on a live endpoint.
LEMMA GoodRegister ==
    ASSUME NEW r, NEW b, Good(r, b), NEW id, EndpointAlive(r, id), NEW p \in Pid,
           b[p] = None, NEW d \in Nat
    PROVE  /\ Good(RegisterRecvWaiter(r, id, p), [b EXCEPT ![p] = Reason("recv", {id}, d)])
           /\ Good(RegisterSendWaiter(r, id, p), [b EXCEPT ![p] = Reason("send", {id}, d)])
<1>1. r \in RouterState /\ WaitersOf(r) /\ Sound(r) /\ Parking(r, b) BY DEF Good, Sound
<1>2. id \in DOMAIN r.eps /\ r.eps[id].alive BY DEF EndpointAlive
<1>3. Sound(RegisterRecvWaiter(r, id, p)) /\ Sound(RegisterSendWaiter(r, id, p))
  BY <1>1, OnlyWaitersOps, WaiterQueueOpsWaiters, SoundWaiters
<1>4. ASSUME NEW s, NEW on \in {"send", "recv"}, NEW c,
             c = [b EXCEPT ![p] = Reason(on, {id}, d)],
             DOMAIN s.eps = DOMAIN r.eps,
             \A j \in DOMAIN r.eps :
                /\ s.eps[j].alive = r.eps[j].alive
                /\ Elements(s.eps[j].recv_waiters) = Elements(r.eps[j].recv_waiters)
                     \cup (IF j = id /\ on = "recv" THEN {p} ELSE {})
                /\ Elements(s.eps[j].send_waiters) = Elements(r.eps[j].send_waiters)
                     \cup (IF j = id /\ on = "send" THEN {p} ELSE {})
      PROVE  Parking(s, c)
  <2>1. b \in [Pid -> {None} \cup IpcReason] /\ DOMAIN r.eps = DOMAIN Owners
    BY <1>1 DEF Parking
  <2>2. PICK x : x = Reason(on, {id}, d) OBVIOUS
  <2>3. x.on = on /\ x.eps = {id} /\ x.deadline = d BY <2>2 DEF Reason
  <2>4. x \in IpcReason BY <1>2, <2>1, <2>2 DEF IpcReason, Reason
  <2>5. x # None BY <2>4, IpcAssumption
  <2>6. c \in [Pid -> {None} \cup IpcReason] BY <1>4, <2>1, <2>2, <2>4
  <2>7. c[p] = x /\ \A q \in Pid : q # p => c[q] = b[q] BY <1>4, <2>1, <2>2
  <2>8. OneEach(s, c)
    <3> SUFFICES ASSUME NEW q \in Pid, c[q] # None
                 PROVE  \E i \in DOMAIN s.eps : c[q].eps = {i}
      BY DEF OneEach
    <3>1. CASE q = p BY <1>2, <1>4, <2>3, <2>7, <3>1
    <3>2. CASE q # p BY <1>1, <1>4, <2>7, <3>2 DEF Parking, OneEach
    <3>3. QED BY <3>1, <3>2
  <2>9. ASSUME NEW q \in Pid, NEW j \in DOMAIN s.eps
        PROVE  /\ q \in Elements(s.eps[j].recv_waiters) <=> On(c, q, "recv", j)
               /\ q \in Elements(s.eps[j].send_waiters) <=> On(c, q, "send", j)
               /\ c[q] # None /\ j \in c[q].eps => s.eps[j].alive
    <3>1. j \in DOMAIN r.eps BY <1>4
    <3>2. /\ q \in Elements(r.eps[j].recv_waiters) <=> On(b, q, "recv", j)
          /\ q \in Elements(r.eps[j].send_waiters) <=> On(b, q, "send", j)
          /\ b[q] # None /\ j \in b[q].eps => r.eps[j].alive
      BY <1>1, <3>1 DEF Parking, Registered
    <3>3. /\ s.eps[j].alive = r.eps[j].alive
          /\ q \in Elements(s.eps[j].recv_waiters) <=>
               \/ q \in Elements(r.eps[j].recv_waiters)
               \/ j = id /\ on = "recv" /\ q = p
          /\ q \in Elements(s.eps[j].send_waiters) <=>
               \/ q \in Elements(r.eps[j].send_waiters)
               \/ j = id /\ on = "send" /\ q = p
      BY <1>4, <3>1
    <3>4. CASE q = p
      <4>1. \A y : ~On(b, q, y, j) BY <1>4, <3>4 DEF On
      <4>2. \A y : On(c, q, y, j) <=> y = on /\ j = id BY <2>3, <2>5, <2>7, <3>4 DEF On
      <4>3. c[q].eps = {id} BY <2>3, <2>7, <3>4
      <4>4. QED BY <1>2, <3>2, <3>3, <3>4, <4>1, <4>2, <4>3
    <3>5. CASE q # p
      <4>1. c[q] = b[q] BY <2>7, <3>5
      <4>2. \A y : On(c, q, y, j) <=> On(b, q, y, j) BY <4>1 DEF On
      <4>3. QED BY <3>2, <3>3, <3>5, <4>1, <4>2
    <3>6. QED BY <3>4, <3>5
  <2>10. Registered(s, c) BY <2>9 DEF Registered
  <2>11. QED BY <1>4, <2>1, <2>6, <2>8, <2>10 DEF Parking
<1>5. Parking(RegisterRecvWaiter(r, id, p), [b EXCEPT ![p] = Reason("recv", {id}, d)])
  <2>1. PICK ws : ws = r.eps[id].recv_waiters OBVIOUS
  <2>2. PICK s : s = RegisterRecvWaiter(r, id, p) OBVIOUS
  <2>3. NewReceivers(r, s, id, AddWaiter(ws, p)) BY <1>1, <2>1, <2>2, RegisterEffect
  <2>4. /\ OnlyAt(r, s, id) /\ s.eps[id].recv_waiters = AddWaiter(ws, p)
        /\ s.eps[id].send_waiters = r.eps[id].send_waiters
        /\ s.eps[id].alive = r.eps[id].alive
    BY <2>3 DEF NewReceivers
  <2>5. ws \in Seq(Pid) /\ IsDistinct(ws) BY <1>2, <2>1, GoodQueues
  <2>6. Elements(AddWaiter(ws, p)) = Elements(ws) \cup {p} BY <2>5, WaiterElements
  <2>7. DOMAIN s.eps = DOMAIN r.eps BY <2>4 DEF OnlyAt
  <2>8. ASSUME NEW j \in DOMAIN r.eps
        PROVE  /\ s.eps[j].alive = r.eps[j].alive
               /\ Elements(s.eps[j].recv_waiters) = Elements(r.eps[j].recv_waiters)
                    \cup (IF j = id /\ "recv" = "recv" THEN {p} ELSE {})
               /\ Elements(s.eps[j].send_waiters) = Elements(r.eps[j].send_waiters)
                    \cup (IF j = id /\ "recv" = "send" THEN {p} ELSE {})
    <3>1. CASE j = id BY <2>1, <2>4, <2>6, <3>1
    <3>2. CASE j # id
      <4>1. s.eps[j] = r.eps[j] BY <2>4, <3>2 DEF OnlyAt
      <4>2. QED BY <3>2, <4>1
    <3>3. QED BY <3>1, <3>2
  <2>9. PICK on \in {"send", "recv"} : on = "recv" OBVIOUS
  <2>10. Parking(s, [b EXCEPT ![p] = Reason(on, {id}, d)]) BY <1>4, <2>7, <2>8, <2>9
  <2>11. QED BY <2>2, <2>9, <2>10
<1>6. Parking(RegisterSendWaiter(r, id, p), [b EXCEPT ![p] = Reason("send", {id}, d)])
  <2>1. PICK ws : ws = r.eps[id].send_waiters OBVIOUS
  <2>2. PICK s : s = RegisterSendWaiter(r, id, p) OBVIOUS
  <2>3. NewSenders(r, s, id, AddWaiter(ws, p)) BY <1>1, <2>1, <2>2, RegisterEffect
  <2>4. /\ OnlyAt(r, s, id) /\ s.eps[id].send_waiters = AddWaiter(ws, p)
        /\ s.eps[id].recv_waiters = r.eps[id].recv_waiters
        /\ s.eps[id].alive = r.eps[id].alive
    BY <2>3 DEF NewSenders
  <2>5. ws \in Seq(Pid) /\ IsDistinct(ws) BY <1>2, <2>1, GoodQueues
  <2>6. Elements(AddWaiter(ws, p)) = Elements(ws) \cup {p} BY <2>5, WaiterElements
  <2>7. DOMAIN s.eps = DOMAIN r.eps BY <2>4 DEF OnlyAt
  <2>8. ASSUME NEW j \in DOMAIN r.eps
        PROVE  /\ s.eps[j].alive = r.eps[j].alive
               /\ Elements(s.eps[j].recv_waiters) = Elements(r.eps[j].recv_waiters)
                    \cup (IF j = id /\ "send" = "recv" THEN {p} ELSE {})
               /\ Elements(s.eps[j].send_waiters) = Elements(r.eps[j].send_waiters)
                    \cup (IF j = id /\ "send" = "send" THEN {p} ELSE {})
    <3>1. CASE j = id BY <2>1, <2>4, <2>6, <3>1
    <3>2. CASE j # id
      <4>1. s.eps[j] = r.eps[j] BY <2>4, <3>2 DEF OnlyAt
      <4>2. QED BY <3>2, <4>1
    <3>3. QED BY <3>1, <3>2
  <2>9. PICK on \in {"send", "recv"} : on = "send" OBVIOUS
  <2>10. Parking(s, [b EXCEPT ![p] = Reason(on, {id}, d)]) BY <1>4, <2>7, <2>8, <2>9
  <2>11. QED BY <2>2, <2>9, <2>10
<1>7. QED BY <1>3, <1>5, <1>6 DEF Good

\* Tasks that are taken off the endpoints they are parked on, and woken.
LEMMA GoodDeregister ==
    ASSUME NEW r, NEW b, Good(r, b), NEW S, S \subseteq {p \in Pid : b[p] # None}
    PROVE  Good(Deregister(r, b, S), Woken(b, S)) /\ OnlyWaiters(r, Deregister(r, b, S))
<1>1. r \in RouterState /\ WaitersOf(r) /\ Sound(r) /\ Parking(r, b) BY DEF Good, Sound
<1> DEFINE R(i) == {p \in S : b[p].on \in {"recv", "waitset"} /\ i \in b[p].eps}
           T(i) == {p \in S : b[p].on \in {"send"} /\ i \in b[p].eps}
           W(i) == [r.eps[i] EXCEPT
                      !.recv_waiters = WithoutAll(r.eps[i].recv_waiters, R(i)),
                      !.send_waiters = WithoutAll(r.eps[i].send_waiters, T(i))]
<1>2. PICK s : s = Deregister(r, b, S) OBVIOUS
<1>3. PICK e : e = [i \in DOMAIN r.eps |-> W(i)] OBVIOUS
<1>4. s = [r EXCEPT !.eps = e] BY <1>2, <1>3 DEF Deregister
<1>5. s.eps = e /\ s.total = r.total /\ s.owned = r.owned BY <1>1, <1>4 DEF RouterState
<1>6. ASSUME NEW i \in DOMAIN r.eps
      PROVE  /\ W(i) \in Endpoint
             /\ W(i).recv_waiters = WithoutAll(r.eps[i].recv_waiters, R(i))
             /\ W(i).send_waiters = WithoutAll(r.eps[i].send_waiters, T(i))
             /\ SameIdentity(W(i), r.eps[i]) /\ SameContents(W(i), r.eps[i])
             /\ W(i).alive = r.eps[i].alive
  <2>1. r.eps[i] \in Endpoint BY <1>1, RouterFields
  <2>2. PICK ws \in Seq(Pid) : ws = WithoutAll(r.eps[i].recv_waiters, R(i))
    BY <2>1, EndpointFields, WithoutAllProperties
  <2>3. PICK xs \in Seq(Pid) : xs = WithoutAll(r.eps[i].send_waiters, T(i))
    BY <2>1, EndpointFields, WithoutAllProperties
  <2>4. PICK x : x = [r.eps[i] EXCEPT !.recv_waiters = ws, !.send_waiters = xs] OBVIOUS
  <2>5. x \in Endpoint BY <2>1, <2>4, WaiterFields
  <2>6. /\ x.recv_waiters = ws /\ x.send_waiters = xs
        /\ SameIdentity(x, r.eps[i]) /\ SameContents(x, r.eps[i])
        /\ x.alive = r.eps[i].alive
    BY <2>1, <2>4 DEF Endpoint, SameIdentity, SameContents
  <2>7. W(i) = x BY <2>2, <2>3, <2>4
  <2>8. QED BY <2>2, <2>3, <2>5, <2>6, <2>7
<1> HIDE DEF W
<1>7. e \in Seq(Endpoint) /\ DOMAIN e = DOMAIN r.eps /\ \A i \in DOMAIN r.eps : e[i] = W(i)
  <2>1. DOMAIN r.eps = 1..Len(r.eps) /\ Len(r.eps) \in Nat BY <1>1, RouterFields
  <2>2. \A i \in DOMAIN r.eps : W(i) \in Endpoint BY <1>6
  <2>3. e \in [1..Len(r.eps) -> Endpoint] BY <1>3, <2>1, <2>2
  <2>4. e \in Seq(Endpoint) BY <2>1, <2>3
  <2>5. QED BY <1>3, <2>4
<1>8. ASSUME NEW i \in DOMAIN r.eps
      PROVE  /\ Elements(s.eps[i].recv_waiters) = Elements(r.eps[i].recv_waiters) \ R(i)
             /\ Elements(s.eps[i].send_waiters) = Elements(r.eps[i].send_waiters) \ T(i)
             /\ IsDistinct(s.eps[i].recv_waiters) /\ IsDistinct(s.eps[i].send_waiters)
  <2>1. PICK ws : ws = r.eps[i].recv_waiters OBVIOUS
  <2>2. PICK xs : xs = r.eps[i].send_waiters OBVIOUS
  <2>3. ws \in Seq(Pid) /\ IsDistinct(ws) /\ xs \in Seq(Pid) /\ IsDistinct(xs)
    BY <2>1, <2>2, GoodQueues
  <2>4. PICK R1 : R1 = R(i) OBVIOUS
  <2>5. PICK T1 : T1 = T(i) OBVIOUS
  <2>6. /\ Elements(WithoutAll(ws, R1)) = Elements(ws) \ R1 /\ IsDistinct(WithoutAll(ws, R1))
        /\ Elements(WithoutAll(xs, T1)) = Elements(xs) \ T1 /\ IsDistinct(WithoutAll(xs, T1))
    BY <2>3, WithoutAllProperties
  <2>7. s.eps[i].recv_waiters = WithoutAll(ws, R1) /\ s.eps[i].send_waiters = WithoutAll(xs, T1)
    BY <1>5, <1>6, <1>7, <2>1, <2>2, <2>4, <2>5
  <2>8. QED BY <2>1, <2>2, <2>4, <2>5, <2>6, <2>7
<1>9. s \in RouterState BY <1>1, <1>4, <1>7, EpsField
<1>10. OnlyWaiters(r, s) BY <1>5, <1>6, <1>7, <1>9 DEF OnlyWaiters
<1>11. WaitersOf(s)
  <2>1. ASSUME NEW i \in DOMAIN s.eps PROVE Clean(s.eps[i])
    <3>1. i \in DOMAIN r.eps BY <1>5, <1>7
    <3>2. Clean(r.eps[i]) BY <1>1, <3>1, WaitersAreClean
    <3>3. s.eps[i].alive = r.eps[i].alive /\ s.eps[i].queue = r.eps[i].queue
      BY <1>10, <3>1 DEF OnlyWaiters, SameContents
    <3>4. \A x : ToSet(x) = Elements(x) BY DEF ToSet, Elements
    <3>5. Waiters(r.eps[i]) = {} => Waiters(s.eps[i]) = {}
      BY <1>8, <3>1, <3>4 DEF Waiters
    <3>6. QED BY <1>8, <3>1, <3>2, <3>3, <3>5 DEF Clean
  <2>2. QED BY <2>1, WaitersAreClean
<1>12. Leaves(r, s, S)
  <2>1. DOMAIN s.eps = DOMAIN r.eps BY <1>5, <1>7
  <2>2. ASSUME NEW i \in DOMAIN r.eps
        PROVE  /\ Elements(s.eps[i].recv_waiters) = Elements(r.eps[i].recv_waiters) \ S
               /\ Elements(s.eps[i].send_waiters) = Elements(r.eps[i].send_waiters) \ S
               /\ s.eps[i].alive = r.eps[i].alive
    <3>1. \A p \in S : p \in Pid /\ b[p] # None OBVIOUS
    <3>2. \A p \in Pid : /\ p \in Elements(r.eps[i].recv_waiters) <=> On(b, p, "recv", i)
                         /\ p \in Elements(r.eps[i].send_waiters) <=> On(b, p, "send", i)
      BY <1>1 DEF Parking, Registered
    <3>3. \A p \in S : p \in Elements(r.eps[i].recv_waiters) => p \in R(i)
      BY <3>1, <3>2 DEF On
    <3>4. \A p \in S : p \in Elements(r.eps[i].send_waiters) => p \in T(i)
      BY <3>1, <3>2 DEF On
    <3>5. R(i) \subseteq S /\ T(i) \subseteq S OBVIOUS
    <3>6. s.eps[i].alive = r.eps[i].alive BY <1>10 DEF OnlyWaiters
    <3> HIDE DEF R, T
    <3>7. QED BY <1>8, <3>3, <3>4, <3>5, <3>6
  <2>3. QED BY <2>1, <2>2 DEF Leaves
<1>13. QED BY <1>1, <1>2, <1>10, <1>11, <1>12, SoundWaiters, WakeParking DEF Good

\* Closing endpoints takes their waiters, and nobody else, off the queues.
LEMMA CloseLeaves ==
    ASSUME NEW r, NEW b, Good(r, b), NEW I, I \subseteq DOMAIN r.eps, NEW s,
           DOMAIN s.eps = DOMAIN r.eps,
           \A i \in DOMAIN r.eps : s.eps[i] = IF i \in I THEN Closed(r.eps[i]) ELSE r.eps[i]
    PROVE  Leaves(r, s, UNION {Waiters(r.eps[i]) : i \in I})
<1>1. PICK S : S = UNION {Waiters(r.eps[i]) : i \in I} OBVIOUS
<1>2. \A x : Waiters(x) = Elements(x.recv_waiters) \cup Elements(x.send_waiters)
  BY DEF Waiters, ToSet, Elements
<1>3. r \in RouterState /\ Parking(r, b) BY DEF Good, Sound
<1>4. ASSUME NEW i \in DOMAIN r.eps
      PROVE  /\ Elements(s.eps[i].recv_waiters) = Elements(r.eps[i].recv_waiters) \ S
             /\ Elements(s.eps[i].send_waiters) = Elements(r.eps[i].send_waiters) \ S
             /\ \/ s.eps[i].alive = r.eps[i].alive
                \/ /\ Elements(r.eps[i].recv_waiters) \subseteq S
                   /\ Elements(r.eps[i].send_waiters) \subseteq S
  <2>1. CASE i \in I
    <3>1. s.eps[i] = Closed(r.eps[i]) /\ r.eps[i] \in Endpoint BY <1>3, <2>1, RouterFields
    <3>2. s.eps[i].recv_waiters = <<>> /\ s.eps[i].send_waiters = <<>> BY <3>1, ClosedFields
    <3>3. Waiters(r.eps[i]) \subseteq S BY <1>1, <2>1
    <3>4. Elements(<<>>) = {} BY DEF Elements
    <3>5. QED BY <1>2, <3>2, <3>3, <3>4
  <2>2. CASE i \notin I
    <3>1. s.eps[i] = r.eps[i] BY <2>2
    <3>2. /\ Elements(r.eps[i].recv_waiters) \subseteq Pid
          /\ Elements(r.eps[i].send_waiters) \subseteq Pid
      <4>1. r.eps[i].recv_waiters \in Seq(Pid) /\ r.eps[i].send_waiters \in Seq(Pid)
        BY GoodQueues
      <4>2. QED BY <4>1 DEF Elements
    <3>3. ASSUME NEW j \in I, NEW x \in Waiters(r.eps[j])
          PROVE  x \notin Elements(r.eps[i].recv_waiters) /\ x \notin Elements(r.eps[i].send_waiters)
      <4>1. j \in DOMAIN r.eps /\ i # j BY <2>2
      <4>2. x \in Elements(r.eps[j].recv_waiters) \/ x \in Elements(r.eps[j].send_waiters)
        BY <1>2
      <4>3. CASE x \notin Pid BY <3>2, <4>3
      <4>4. CASE x \in Pid BY <1>3, <4>1, <4>2, <4>4, ParkedOnce
      <4>5. QED BY <4>3, <4>4
    <3>4. \A x \in S : /\ x \notin Elements(r.eps[i].recv_waiters)
                       /\ x \notin Elements(r.eps[i].send_waiters)
      BY <1>1, <3>3
    <3>5. QED BY <3>1, <3>4
  <2>3. QED BY <2>1, <2>2
<1>5. Leaves(r, s, S) BY <1>4 DEF Leaves
<1>6. QED BY <1>1, <1>5

\* close_endpoint, whose waiters are woken.
LEMMA GoodClose ==
    ASSUME NEW r, NEW b, Good(r, b), NEW id
    PROVE  Good(CloseEndpoint(r, id), Woken(b, DrainedByClose(r, id)))
<1>1. /\ r \in RouterState /\ AccountingOf(r) /\ BudgetsOf(r) /\ WaitersOf(r)
      /\ Parking(r, b)
  BY DEF Good, Sound
<1>2. PICK s : s = CloseEndpoint(r, id) OBVIOUS
<1>3. Sound(s)
  BY <1>1, <1>2, CreateCloseType, CloseAccounting, CloseBudgets, CloseWaiters DEF Sound
<1>4. Leaves(r, s, DrainedByClose(r, id))
  <2>1. CASE ~EndpointAlive(r, id)
    <3>1. s = r /\ DrainedByClose(r, id) = {}
      BY <1>2, <2>1 DEF CloseEndpoint, DrainedByClose
    <3>2. Leaves(r, r, {}) BY DEF Leaves
    <3>3. QED BY <3>1, <3>2
  <2>2. CASE EndpointAlive(r, id)
    <3>1. id \in DOMAIN r.eps BY <2>2 DEF EndpointAlive
    <3>2. s.eps = [r.eps EXCEPT ![id] = Closed(r.eps[id])]
      BY <1>2, <2>2 DEF CloseEndpoint, RecomputeAccounting
    <3>3. PICK I : I = {id} OBVIOUS
    <3>4. /\ DOMAIN s.eps = DOMAIN r.eps /\ I \subseteq DOMAIN r.eps
          /\ \A i \in DOMAIN r.eps : s.eps[i] = IF i \in I THEN Closed(r.eps[i]) ELSE r.eps[i]
      BY <1>1, <3>1, <3>2, <3>3, RouterFields
    <3>5. Leaves(r, s, UNION {Waiters(r.eps[i]) : i \in I}) BY <3>4, CloseLeaves
    <3>6. UNION {Waiters(r.eps[i]) : i \in I} = DrainedByClose(r, id)
      BY <2>2, <3>3 DEF DrainedByClose
    <3>7. QED BY <3>5, <3>6
  <2>3. QED BY <2>1, <2>2
<1>5. QED BY <1>1, <1>2, <1>3, <1>4, WakeParking DEF Good

\* close_endpoints_for_owner, whose waiters are woken.
LEMMA GoodCloseOwner ==
    ASSUME NEW r, NEW b, Good(r, b), NEW p \in Pid
    PROVE  Good(CloseEndpointsForOwner(r, p), Woken(b, DrainedByOwner(r, p)))
<1>1. /\ r \in RouterState /\ AccountingOf(r) /\ BudgetsOf(r) /\ WaitersOf(r)
      /\ Parking(r, b)
  BY DEF Good, Sound
<1>2. PICK s : s = CloseEndpointsForOwner(r, p) OBVIOUS
<1>3. Sound(s)
  BY <1>1, <1>2, CreateCloseType, CloseAccounting, CloseBudgets, CloseWaiters DEF Sound
<1>4. PICK I : I = AliveOwnedBy(r, p) OBVIOUS
<1>5. s.eps = [i \in DOMAIN r.eps |-> IF i \in I THEN Closed(r.eps[i]) ELSE r.eps[i]]
  BY <1>2, <1>4 DEF CloseEndpointsForOwner, RecomputeAccounting
<1>6. I \subseteq DOMAIN r.eps BY <1>4 DEF AliveOwnedBy
<1>7. Leaves(r, s, UNION {Waiters(r.eps[i]) : i \in I}) BY <1>5, <1>6, CloseLeaves
<1>8. QED BY <1>1, <1>2, <1>3, <1>4, <1>7, WakeParking DEF Good, DrainedByOwner

\* A task that runs is in no waiter queue: taking it off all changes nothing.
LEMMA GoodRemoveAll ==
    ASSUME NEW r, NEW b, Good(r, b), NEW p \in Pid, b[p] = None
    PROVE  Good(RemoveWaiterFromAll(r, p), b)
<1>1. r \in RouterState /\ Sound(r) /\ WaitersOf(r) /\ Parking(r, b) BY DEF Good, Sound
<1>2. PICK s : s = RemoveWaiterFromAll(r, p) OBVIOUS
<1>3. OnlyWaiters(r, s) /\ WaitersOf(s) BY <1>1, <1>2, OnlyWaitersAll, RemoveAllWaiters
<1>4. Leaves(r, s, {p})
  <2>1. DOMAIN s.eps = DOMAIN r.eps BY <1>3 DEF OnlyWaiters
  <2>2. ASSUME NEW i \in DOMAIN r.eps
        PROVE  /\ Elements(s.eps[i].recv_waiters) = Elements(r.eps[i].recv_waiters) \ {p}
               /\ Elements(s.eps[i].send_waiters) = Elements(r.eps[i].send_waiters) \ {p}
               /\ s.eps[i].alive = r.eps[i].alive
    <3>1. r.eps[i] \in Endpoint BY <1>1, RouterFields
    <3>2. PICK ws : ws = RemoveWaiter(r.eps[i].recv_waiters, p) OBVIOUS
    <3>3. PICK xs : xs = RemoveWaiter(r.eps[i].send_waiters, p) OBVIOUS
    <3>4. s.eps[i] = [r.eps[i] EXCEPT !.recv_waiters = ws, !.send_waiters = xs]
      BY <1>1, <1>2, <3>2, <3>3 DEF RemoveWaiterFromAll, RouterState
    <3>5. s.eps[i].recv_waiters = ws /\ s.eps[i].send_waiters = xs
      BY <3>1, <3>4 DEF Endpoint
    <3>6. Elements(ws) = Elements(r.eps[i].recv_waiters) \ {p}
      BY <3>2, GoodQueues, WaiterElements
    <3>7. Elements(xs) = Elements(r.eps[i].send_waiters) \ {p}
      BY <3>3, GoodQueues, WaiterElements
    <3>8. s.eps[i].alive = r.eps[i].alive BY <1>3 DEF OnlyWaiters
    <3>9. QED BY <3>5, <3>6, <3>7, <3>8
  <2>3. QED BY <2>1, <2>2 DEF Leaves
<1>5. Woken(b, {p}) = b
  <2>1. b \in [Pid -> {None} \cup IpcReason] BY <1>1 DEF Parking
  <2>2. QED BY <2>1 DEF Woken
<1>6. QED BY <1>1, <1>2, <1>3, <1>4, <1>5, SoundWaiters, WakeParking DEF Good

-----------------------------------------------------------------------------
(* The system calls *)

Typed ==
    /\ caps \in [Pid -> Table] /\ call \in [Pid -> {None} \cup Call]
    /\ exited \subseteq Pid /\ now \in 0..MaxNow /\ gone \subseteq Cap

IpcInv == Good(router, blocked) /\ Typed

\* A call that a task makes is one of the calls it may make.
LEMMA MakingCall ==
    ASSUME Typed, NEW p \in Pid, NEW cl \in Making(p)
    PROVE  cl \in Call /\ cl # None /\ (cl.op \in {"send", "recv"} => IsIpcCall(cl))
<1>1. \A c \in Call : c # None /\ (c.op \in {"send", "recv"} => IsIpcCall(c))
  BY IpcAssumption DEF Call
<1>2. cl \in Call
  <2>1. CASE call[p] = None BY <2>1 DEF Making, Call
  <2>2. CASE call[p] # None BY <2>2 DEF Making, Typed
  <2>3. QED BY <2>1, <2>2
<1>3. QED BY <1>1, <1>2

\* Taking and allocating capabilities keeps the tables.
LEMMA TablesTyped ==
    ASSUME NEW ts \in [Pid -> Table], NEW p \in Pid
    PROVE  /\ \A s : [ts EXCEPT ![p] = Take(ts[p], s)] \in [Pid -> Table]
           /\ \A c \in Cap : [ts EXCEPT ![p] = Allocate(ts[p], c)] \in [Pid -> Table]
           /\ [ts EXCEPT ![p] = [s \in Slot |-> NoCap]] \in [Pid -> Table]
<1>1. ts[p] \in Table OBVIOUS
<1>2. ASSUME NEW s PROVE Take(ts[p], s) \in Table BY <1>1 DEF Take, Table
<1>3. ASSUME NEW c \in Cap PROVE Allocate(ts[p], c) \in Table BY <1>1 DEF Allocate, Table
<1>4. [s \in Slot |-> NoCap] \in Table BY DEF Table
<1>5. ASSUME NEW t \in Table PROVE [ts EXCEPT ![p] = t] \in [Pid -> Table] OBVIOUS
<1>6. QED BY <1>2, <1>3, <1>4, <1>5

\* wake_expired_blocked keeps a router good.
LEMMA WakeExpiredGood ==
    ASSUME NEW r, NEW b, Good(r, b), WakeExpired(r, b)
    PROVE  Good(router', blocked')
<1>1. Expired(b) \subseteq {p \in Pid : b[p] # None} BY DEF Expired
<1>2. QED BY <1>1, GoodDeregister DEF WakeExpired

\* A task that parks, and one that spins because nothing else can run.
LEMMA ParkGood ==
    ASSUME Good(router, blocked), NEW p \in Pid, NEW cl, NEW r, NEW x,
           Good(r, [blocked EXCEPT ![p] = x]), Park(p, cl, r, router, x)
    PROVE  Good(router', blocked')
BY WakeExpiredGood DEF Park

\* The message that a send makes is one.
LEMMA MessageTyped ==
    ASSUME Typed, NEW p \in Pid, NEW cl, IsIpcCall(cl), cl.len <= MAX_FRAME_BYTES
    PROVE  MessageOf(p, cl) \in Message /\ MessageOf(p, cl).cap = MovedCap(p, cl)
<1>1. caps[p] \in Table BY DEF Typed
<1>2. MovedCap(p, cl) \in Cap \cup {NoCap} BY <1>1 DEF MovedCap, Table, IsIpcCall
<1>3. cl.len \in 0..MAX_FRAME_BYTES BY RouterAssumption DEF IsIpcCall
<1>4. QED BY <1>2, <1>3, IpcAssumption DEF MessageOf

\* A send that would block or succeed has a message of legal length.
LEMMA SendLegal ==
    ASSUME NEW p, NEW cl, IpcSendErr(p, cl) \in {"Ok", "QueueFull"}, IsIpcCall(cl)
    PROVE  /\ cl.len <= MAX_FRAME_BYTES
           /\ DerivesEndpoint(caps[p], cl.slot, "SEND")
           /\ MoveErr(p, cl) = "Ok"
           /\ IpcSendErr(p, cl) = SendErr(router, caps[p][cl.slot].ep, MessageOf(p, cl))
<1>1. cl.len \in Nat /\ MAX_FRAME_BYTES \in Nat BY RouterAssumption DEF IsIpcCall
<1>2. MoveErr(p, cl) \notin {"Ok", "QueueFull"} \/ MoveErr(p, cl) = "Ok" BY DEF MoveErr
<1>3. QED BY <1>1, <1>2 DEF IpcSendErr

\* A full queue is that of a live endpoint.
LEMMA FullIsAlive ==
    ASSUME NEW r \in RouterState, NEW id, NEW m, SendErr(r, id, m) = "QueueFull"
    PROVE  /\ EndpointAlive(r, id)
           /\ Len(r.eps[id].queue) >= r.eps[id].depth
<1>1. id \in DOMAIN r.eps /\ PushErr(r.eps[id], m) = "QueueFull" BY DEF SendErr
<1>2. QED BY <1>1 DEF PushErr, EndpointAlive

\* ipc_send_v1.
LEMMA SendStep ==
    ASSUME IpcInv, NEW p \in Pid, NEW cl \in Making(p),
           SendOk(p, cl) \/ SendWait(p, cl) \/ SendFail(p, cl)
    PROVE  IpcInv'
<1>0. Good(router, blocked) /\ Typed /\ router \in RouterState BY DEF IpcInv, Good, Sound
<1>1. cl \in Call /\ cl # None /\ cl.op = "send" /\ IsIpcCall(cl)
  BY <1>0, MakingCall DEF SendOk, SendWait, SendFail
<1>2. PICK ep : ep = caps[p][cl.slot].ep OBVIOUS
<1>3. PICK m : m = MessageOf(p, cl) OBVIOUS
<1>4. [call EXCEPT ![p] = None] \in [Pid -> {None} \cup Call]
      /\ [call EXCEPT ![p] = cl] \in [Pid -> {None} \cup Call]
  BY <1>0, <1>1 DEF Typed
<1>5. CASE SendOk(p, cl)
  <2>1. IpcSendErr(p, cl) = "Ok" BY <1>5 DEF SendOk
  <2>2. m \in Message BY <1>0, <1>1, <1>3, <2>1, SendLegal, MessageTyped
  <2>3. PICK r : r = Send(router, ep, m) OBVIOUS
  <2>4. Good(r, blocked) BY <1>0, <2>2, <2>3, GoodSend
  <2>5. router' = PopRecvWaiter(r, ep) /\ blocked' = Woken(blocked, {FirstRecvWaiter(r, ep)})
    BY <1>2, <1>3, <1>5, <2>3 DEF SendOk
  <2>6. Good(router', blocked') BY <2>4, <2>5, GoodPop
  <2>7. caps' \in [Pid -> Table]
    BY <1>0, <1>5, TablesTyped DEF SendOk, Typed
  <2>8. Typed' BY <1>0, <1>4, <1>5, <2>7 DEF Typed, SendOk, Return
  <2>9. QED BY <2>6, <2>8 DEF IpcInv
<1>6. CASE SendWait(p, cl)
  <2>1. IpcSendErr(p, cl) = "QueueFull" /\ blocked[p] = None
    BY <1>6 DEF SendWait, SendBlocks, Runs
  <2>2. EndpointAlive(router, ep)
    BY <1>0, <1>1, <1>2, <2>1, SendLegal, FullIsAlive
  <2>3. cl.deadline \in Nat BY <1>1 DEF IsIpcCall
  <2>4. PICK r : r = RegisterSendWaiter(router, ep, p) OBVIOUS
  <2>5. PICK x : x = Reason("send", {ep}, cl.deadline) OBVIOUS
  <2>6. Good(r, [blocked EXCEPT ![p] = x])
    BY <1>0, <2>1, <2>2, <2>3, <2>4, <2>5, GoodRegister
  <2>7. Park(p, cl, r, router, x) BY <1>2, <1>6, <2>4, <2>5 DEF SendWait
  <2>8. Good(router', blocked') BY <1>0, <2>6, <2>7, ParkGood
  <2>9. call' = [call EXCEPT ![p] = cl] BY <2>7 DEF Park
  <2>10. Typed' BY <1>0, <1>4, <1>6, <2>9 DEF Typed, SendWait
  <2>11. QED BY <2>8, <2>10 DEF IpcInv
<1>7. CASE SendFail(p, cl)
  <2>1. router' = router /\ blocked' = blocked BY <1>7 DEF SendFail
  <2>2. Typed' BY <1>0, <1>4, <1>7 DEF Typed, SendFail, Return
  <2>3. QED BY <1>0, <2>1, <2>2 DEF IpcInv
<1>8. QED BY <1>5, <1>6, <1>7

\* ipc_recv_v1 and ipc_recv_v2.
LEMMA RecvStep ==
    ASSUME IpcInv, NEW p \in Pid, NEW cl \in Making(p),
           RecvOk(p, cl) \/ RecvWait(p, cl) \/ RecvFail(p, cl)
    PROVE  IpcInv'
<1>0. Good(router, blocked) /\ Typed /\ router \in RouterState BY DEF IpcInv, Good, Sound
<1>1. cl \in Call /\ cl # None /\ cl.op = "recv" /\ IsIpcCall(cl)
  BY <1>0, MakingCall DEF RecvOk, RecvWait, RecvFail
<1>2. PICK ep : ep = caps[p][cl.slot].ep OBVIOUS
<1>3. [call EXCEPT ![p] = None] \in [Pid -> {None} \cup Call]
      /\ [call EXCEPT ![p] = cl] \in [Pid -> {None} \cup Call]
  BY <1>0, <1>1 DEF Typed
<1>4. CASE RecvOk(p, cl)
  <2>1. RecvErr(router, ep) = "Ok" BY <1>2, <1>4 DEF RecvOk, IpcRecvErr
  <2>2. PICK m : m = Received(router, ep) OBVIOUS
  <2>3. PICK r : r = Recv(router, ep) OBVIOUS
  <2>4. PICK r1 : r1 = PopSendWaiter(r, ep) OBVIOUS
  <2>5. Good(r, blocked) /\ m \in Message BY <1>0, <2>1, <2>2, <2>3, GoodRecv
  <2>6. blocked' = Woken(blocked, {FirstSendWaiter(r, ep)})
    BY <1>2, <1>4, <2>3 DEF RecvOk
  <2>7. Good(r1, blocked') BY <2>4, <2>5, <2>6, GoodPop
  <2>8. router' = r1 \/ router' = RequeueFront(r1, ep, m)
    BY <1>2, <1>4, <2>2, <2>3, <2>4 DEF RecvOk
  <2>9. Good(router', blocked') BY <2>5, <2>7, <2>8, GoodSend
  <2>10. m.cap \in Cap \cup {NoCap} BY <2>5, IpcAssumption
  <2>11. \/ caps' = caps
         \/ m.cap # NoCap /\ caps' = [caps EXCEPT ![p] = Allocate(caps[p], m.cap)]
    BY <1>2, <1>4, <2>2 DEF RecvOk
  <2>12. caps' \in [Pid -> Table] BY <1>0, <2>10, <2>11, TablesTyped DEF Typed
  <2>13. Typed' BY <1>0, <1>3, <1>4, <2>12 DEF Typed, RecvOk, Return
  <2>14. QED BY <2>9, <2>13 DEF IpcInv
<1>5. CASE RecvWait(p, cl)
  <2>1. RecvErr(router, ep) = "QueueEmpty" /\ blocked[p] = None
    BY <1>2, <1>5 DEF RecvWait, RecvBlocks, IpcRecvErr, Runs
  <2>2. EndpointAlive(router, ep) BY <2>1 DEF RecvErr
  <2>3. cl.deadline \in Nat BY <1>1 DEF IsIpcCall
  <2>4. PICK r : r = RegisterRecvWaiter(router, ep, p) OBVIOUS
  <2>5. PICK x : x = Reason("recv", {ep}, cl.deadline) OBVIOUS
  <2>6. Good(r, [blocked EXCEPT ![p] = x])
    BY <1>0, <2>1, <2>2, <2>3, <2>4, <2>5, GoodRegister
  <2>7. Park(p, cl, r, router, x) BY <1>2, <1>5, <2>4, <2>5 DEF RecvWait
  <2>8. Good(router', blocked') BY <1>0, <2>6, <2>7, ParkGood
  <2>9. call' = [call EXCEPT ![p] = cl] BY <2>7 DEF Park
  <2>10. Typed' BY <1>0, <1>3, <1>5, <2>9 DEF Typed, RecvWait
  <2>11. QED BY <2>8, <2>10 DEF IpcInv
<1>6. CASE RecvFail(p, cl)
  <2>1. router' = router /\ blocked' = blocked BY <1>6 DEF RecvFail
  <2>2. Typed' BY <1>0, <1>3, <1>6 DEF Typed, RecvFail, Return
  <2>3. QED BY <1>0, <2>1, <2>2 DEF IpcInv
<1>7. QED BY <1>4, <1>5, <1>6

\* Capabilities that are destroyed with messages and tables are capabilities.
LEMMA DestroyedTyped ==
    ASSUME router \in RouterState, Typed
    PROVE  /\ \A I : I \subseteq DOMAIN router.eps => QueuedCaps(I) \subseteq Cap
           /\ \A p \in Pid : TableCaps(p) \subseteq Cap
           /\ \A p \in Pid, s \in Slot : caps[p][s] # NoCap => caps[p][s] \in Cap
<1>1. ASSUME NEW I, I \subseteq DOMAIN router.eps PROVE QueuedCaps(I) \subseteq Cap
  <2>1. ASSUME NEW i \in I, NEW m \in ToSet(router.eps[i].queue)
        PROVE  m.cap \in Cap \cup {NoCap}
    <3>1. router.eps[i].queue \in Seq(Message) BY <1>1, RouterFields, EndpointFields
    <3>2. m \in Message BY <3>1 DEF ToSet
    <3>3. QED BY <3>2, IpcAssumption
  <2>2. QED BY <2>1 DEF QueuedCaps
<1>2. ASSUME NEW p \in Pid PROVE caps[p] \in [Slot -> Cap \cup {NoCap}] BY DEF Typed, Table
<1>3. QED BY <1>1, <1>2 DEF TableCaps

\* The first-generation send and recv.
LEMMA LegacyStep ==
    ASSUME IpcInv, NEW p \in Legacy, NEW s \in Slot, SysSend(p, s) \/ SysRecv(p, s)
    PROVE  IpcInv'
<1>0. Good(router, blocked) /\ Typed /\ router \in RouterState BY DEF IpcInv, Good, Sound
<1>1. PICK ep : ep = caps[p][s].ep OBVIOUS
<1>2. CASE SysSend(p, s)
  <2>1. PICK m : m = [len |-> 0, cap |-> NoCap] OBVIOUS
  <2>2. m \in Message BY <2>1, IpcAssumption, RouterAssumption
  <2>3. router' = Send(router, ep, m) BY <1>1, <1>2, <2>1 DEF SysSend
  <2>4. Good(router', blocked) BY <1>0, <2>2, <2>3, GoodSend
  <2>5. QED BY <1>0, <1>2, <2>4 DEF SysSend, IpcInv, Typed
<1>3. CASE SysRecv(p, s)
  <2>1. RecvErr(router, ep) = "Ok" BY <1>1, <1>3 DEF SysRecv
  <2>2. router' = Recv(router, ep) BY <1>1, <1>3 DEF SysRecv
  <2>3. Good(router', blocked) /\ Received(router, ep) \in Message
    BY <1>0, <2>1, <2>2, GoodRecv
  <2>4. Received(router, ep).cap \in Cap \cup {NoCap} BY <2>3, IpcAssumption
  <2>5. gone' \subseteq Cap BY <1>0, <1>1, <1>3, <2>4 DEF SysRecv, Typed
  <2>6. QED BY <1>0, <1>3, <2>3, <2>5 DEF SysRecv, IpcInv, Typed
<1>4. QED BY <1>2, <1>3

\* cap_close and ipc_endpoint_close.
LEMMA CloseStep ==
    ASSUME IpcInv, NEW p \in Exits, NEW s \in Slot, SysCapClose(p, s) \/ EndpointClose(p, s)
    PROVE  IpcInv'
<1>0. Good(router, blocked) /\ Typed /\ router \in RouterState BY DEF IpcInv, Good, Sound
<1>1. p \in Pid BY IpcAssumption
<1>2. caps[p][s] \in Cap
  BY <1>0, <1>1, DestroyedTyped DEF SysCapClose, EndpointClose
<1>3. caps' \in [Pid -> Table]
  BY <1>0, <1>1, TablesTyped DEF SysCapClose, EndpointClose, Typed
<1>4. CASE SysCapClose(p, s)
  BY <1>0, <1>2, <1>3, <1>4 DEF SysCapClose, IpcInv, Typed
<1>5. CASE EndpointClose(p, s)
  <2>1. PICK ep : ep = caps[p][s].ep OBVIOUS
  <2>2. CASE router' = router /\ blocked' = blocked /\ gone' = gone \cup {caps[p][s]}
    BY <1>0, <1>2, <1>3, <1>5, <2>2 DEF EndpointClose, IpcInv, Typed
  <2>3. CASE /\ caps[p][s].kind = "Endpoint"
             /\ router' = CloseEndpoint(router, ep)
             /\ blocked' = Woken(blocked, DrainedByClose(router, ep))
             /\ gone' = gone \cup {caps[p][s]} \cup QueuedCaps({ep})
    <3>1. Good(router', blocked') BY <1>0, <2>3, GoodClose
    <3>2. ep \in DOMAIN router.eps
      BY <1>0, <1>2, <2>1, <2>3, IpcAssumption DEF Good, Parking
    <3>3. {ep} \subseteq DOMAIN router.eps BY <3>2
    <3>4. QueuedCaps({ep}) \subseteq Cap BY <1>0, <3>3, DestroyedTyped
    <3>5. gone' \subseteq Cap BY <1>0, <1>2, <2>3, <3>4 DEF Typed
    <3>6. QED BY <1>0, <1>3, <1>5, <3>1, <3>5 DEF EndpointClose, IpcInv, Typed
  <2>4. QED BY <1>5, <2>1, <2>2, <2>3 DEF EndpointClose
<1>6. QED BY <1>4, <1>5

\* exit.
LEMMA ExitStep ==
    ASSUME IpcInv, NEW p \in Exits, SysExit(p)
    PROVE  IpcInv'
<1>0. Good(router, blocked) /\ Typed /\ router \in RouterState BY DEF IpcInv, Good, Sound
<1>1. p \in Pid BY IpcAssumption
<1>2. PICK r : r = CloseEndpointsForOwner(router, p) OBVIOUS
<1>3. Good(r, blocked') BY <1>0, <1>1, <1>2, GoodCloseOwner DEF SysExit
<1>4. blocked'[p] = None
  <2>1. blocked[p] = None BY DEF SysExit, Runs
  <2>2. blocked' = Woken(blocked, DrainedByOwner(router, p)) BY DEF SysExit
  <2>3. QED BY <1>1, <2>1, <2>2 DEF Woken
<1>5. router' = RemoveWaiterFromAll(r, p) BY <1>2 DEF SysExit
<1>6. Good(router', blocked') BY <1>1, <1>3, <1>4, <1>5, GoodRemoveAll
<1>7. caps' \in [Pid -> Table] BY <1>0, <1>1, TablesTyped DEF SysExit, Typed
<1>8. gone' \subseteq Cap
  <2>1. AliveOwnedBy(router, p) \subseteq DOMAIN router.eps BY DEF AliveOwnedBy
  <2>2. QED BY <1>0, <1>1, <2>1, DestroyedTyped DEF SysExit, Typed
<1>9. Typed' BY <1>0, <1>1, <1>7, <1>8 DEF SysExit, Typed
<1>10. QED BY <1>6, <1>9 DEF IpcInv

\* The timer interrupt, and time.
LEMMA TimerStep ==
    ASSUME IpcInv, TimerTick \/ TimePasses
    PROVE  IpcInv'
<1>0. Good(router, blocked) /\ Typed BY DEF IpcInv
<1>1. CASE TimerTick
  <2>1. PICK S : S = ExpiredIpc(blocked) OBVIOUS
  <2>2. S \subseteq {p \in Pid : blocked[p] # None} BY <2>1 DEF ExpiredIpc, Expired
  <2>3. Good(router', blocked') BY <1>0, <1>1, <2>1, <2>2, GoodDeregister DEF TimerTick
  <2>4. Typed' BY <1>0, <1>1 DEF TimerTick, Typed
  <2>5. QED BY <2>3, <2>4 DEF IpcInv
<1>2. CASE TimePasses
  <2>1. now' \in 0..MaxNow BY <1>0, <1>2, IpcAssumption DEF TimePasses, Typed
  <2>2. QED BY <1>0, <1>2, <2>1 DEF TimePasses, Typed, IpcInv
<1>3. QED BY <1>1, <1>2

\* The start: fresh endpoints and nobody parked.
LEMMA IpcInit == Init => IpcInv
<1> SUFFICES ASSUME Init PROVE IpcInv OBVIOUS
<1>1. Owners \in Seq(Pid) /\ DOMAIN Owners = 1..Len(Owners) /\ Len(Owners) \in Nat
  BY IpcAssumption
<1> DEFINE E(i) == WithDepth(InitDepth, Owners[i])
<1>2. \A i \in DOMAIN Owners : E(i) \in Endpoint /\ Fresh(E(i)) /\ E(i).owner = Owners[i]
  <2> SUFFICES ASSUME NEW i \in DOMAIN Owners
               PROVE  E(i) \in Endpoint /\ Fresh(E(i)) /\ E(i).owner = Owners[i]
    OBVIOUS
  <2>1. InitDepth \in 1..MAX_DEPTH /\ Owners[i] \in Pid \cup {None} BY <1>1, IpcAssumption
  <2>2. QED BY <2>1, WithDepthType, WithDepthFresh
<1> HIDE DEF E
<1>3. PICK e : e = [i \in DOMAIN Owners |-> E(i)] OBVIOUS
<1>4. DOMAIN e = DOMAIN Owners /\ \A i \in DOMAIN Owners : e[i] = E(i) BY <1>3
<1>5. e \in Seq(Endpoint) /\ Len(e) = Len(Owners) BY <1>1, <1>2, <1>3
<1>6. ASSUME NEW p \in Pid
      PROVE  Cardinality({i \in DOMAIN e : e[i].owner = p}) <= MAX_ENDPOINTS_PER_OWNER
  <2>1. {i \in DOMAIN e : e[i].owner = p} = {i \in DOMAIN Owners : Owners[i] = p}
    BY <1>2, <1>4
  <2>2. QED BY <2>1, IpcAssumption
<1>7. router = [eps |-> e, total |-> 0, owned |-> [p \in Pid |-> 0]]
  BY <1>3 DEF Init, E
<1>8. Sound(router)
  <2>1. Len(e) <= MAX_ENDPOINTS BY <1>5, IpcAssumption
  <2>2. \A i \in DOMAIN e : Fresh(e[i]) BY <1>2, <1>4
  <2>3. QED BY <1>5, <1>6, <1>7, <2>1, <2>2, FreshSound
<1>9. Parking(router, blocked)
  <2>1. router.eps = e BY <1>7
  <2>2. blocked = [p \in Pid |-> None] BY DEF Init
  <2>3. \A p \in Pid : blocked[p] = None BY <2>2
  <2>4. blocked \in [Pid -> {None} \cup IpcReason] BY <2>2
  <2>5. OneEach(router, blocked) BY <2>3 DEF OneEach
  <2>6. \A i \in DOMAIN e : e[i].recv_waiters = <<>> /\ e[i].send_waiters = <<>>
    BY <1>2, <1>4 DEF Fresh
  <2>7. Elements(<<>>) = {} BY DEF Elements
  <2>8. Registered(router, blocked) BY <2>1, <2>3, <2>6, <2>7 DEF Registered, On
  <2>9. QED BY <1>4, <2>1, <2>4, <2>5, <2>8 DEF Parking
<1>10. Typed BY IpcAssumption DEF Init, Typed
<1>11. QED BY <1>8, <1>9, <1>10 DEF IpcInv, Good

\* Every step keeps the invariant.
LEMMA IpcInductive == IpcInv /\ [Next]_vars => IpcInv'
<1> SUFFICES ASSUME IpcInv, [Next]_vars PROVE IpcInv' OBVIOUS
<1>1. ASSUME NEW p \in Pid, Step(p) PROVE IpcInv'
  BY <1>1, SendStep, RecvStep DEF Step
<1>2. CASE UNCHANGED vars BY <1>2 DEF vars, IpcInv, Typed
<1>3. QED BY <1>1, <1>2, LegacyStep, CloseStep, ExitStep, TimerStep DEF Next

LEMMA AlwaysIpcInv == Spec => []IpcInv
BY IpcInit, IpcInductive, PTL DEF Spec

\* Whatever calls the tasks make, and whenever they block, time out, close
\* endpoints or exit: a task is parked exactly when it is in the waiter queue
\* of the live endpoint it waits for (ipc_send_v1, ipc_recv_v1 and
\* wake_expired_ipc_deadlines).
THEOREM IpcParkedIsRegistered == Spec => []ParkedIsRegistered
<1>1. IpcInv => ParkedIsRegistered
  BY RegisteredIsParked DEF IpcInv, Good, Sound, Parking
<1>2. QED BY <1>1, AlwaysIpcInv, PTL

\* Under the system calls the router stays sound: its byte counters are
\* exact, its budgets hold and its waiter queues have no duplicates.
THEOREM IpcRouterSound == Spec => []Sound(router)
<1>1. IpcInv => Sound(router) BY DEF IpcInv, Good
<1>2. QED BY <1>1, AlwaysIpcInv, PTL

-----------------------------------------------------------------------------
(* Capabilities: where they are *)

CapsIn(q) == {q[n].cap : n \in DOMAIN q} \ {NoCap}

\* No capability is in two messages of the queue.
UniqueIn(q) ==
    \A n, k \in DOMAIN q : q[n].cap = q[k].cap /\ q[n].cap # NoCap => n = k

HeldBy(t) == {t[s] : s \in Slot} \ {NoCap}

\* No capability is in two slots of the table.
UniqueHeld(t) == \A s, u \in Slot : t[s] = t[u] /\ t[s] # NoCap => s = u

\* The capabilities of a queue after push, push_front and pop.
LEMMA CapsInOps ==
    ASSUME NEW q \in Seq(Message), UniqueIn(q), NEW m
    PROVE  /\ CapsIn(Append(q, m)) = CapsIn(q) \cup ({m.cap} \ {NoCap})
           /\ m.cap \notin CapsIn(q) => UniqueIn(Append(q, m))
           /\ q # <<>> => /\ CapsIn(Tail(q)) = CapsIn(q) \ {Head(q).cap}
                          /\ UniqueIn(Tail(q)) /\ <<Head(q)>> \o Tail(q) = q
                          /\ Head(q).cap # NoCap => Head(q).cap \in CapsIn(q)
<1>1. Len(q) \in Nat /\ DOMAIN q = 1..Len(q) OBVIOUS
<1>2. /\ CapsIn(Append(q, m)) = CapsIn(q) \cup ({m.cap} \ {NoCap})
      /\ m.cap \notin CapsIn(q) => UniqueIn(Append(q, m))
  <2>1. PICK t : t = Append(q, m) OBVIOUS
  <2>2. /\ DOMAIN t = (1..Len(q)) \cup {Len(q) + 1} /\ t[Len(q) + 1] = m
        /\ \A i \in 1..Len(q) : t[i] = q[i] /\ i # Len(q) + 1
    BY <1>1, <2>1
  <2>3. CapsIn(t) = CapsIn(q) \cup ({m.cap} \ {NoCap}) BY <1>1, <2>2 DEF CapsIn
  <2>4. ASSUME m.cap \notin CapsIn(q) PROVE UniqueIn(t)
    <3> SUFFICES ASSUME NEW n \in DOMAIN t, NEW k \in DOMAIN t, t[n].cap = t[k].cap,
                        t[n].cap # NoCap
                 PROVE  n = k
      BY DEF UniqueIn
    <3>1. \A i \in 1..Len(q) : q[i].cap # NoCap => q[i].cap # m.cap
      BY <1>1, <2>4 DEF CapsIn
    <3>2. CASE n \in 1..Len(q) /\ k \in 1..Len(q) BY <1>1, <2>2, <3>2 DEF UniqueIn
    <3>3. CASE n = Len(q) + 1 \/ k = Len(q) + 1 BY <2>2, <3>1, <3>3
    <3>4. QED BY <2>2, <3>2, <3>3
  <2>5. QED BY <2>1, <2>3, <2>4
<1>3. ASSUME q # <<>>
      PROVE  /\ CapsIn(Tail(q)) = CapsIn(q) \ {Head(q).cap}
             /\ UniqueIn(Tail(q)) /\ <<Head(q)>> \o Tail(q) = q
             /\ Head(q).cap # NoCap => Head(q).cap \in CapsIn(q)
  <2>1. Head(q) = q[1] /\ 1 \in 1..Len(q) BY <1>3
  <2>2. PICK t : t = Tail(q) OBVIOUS
  <2>3. DOMAIN t = 1..(Len(q) - 1) /\ \A i \in 1..(Len(q) - 1) : t[i] = q[i + 1]
    BY <1>1, <1>3, <2>2
  <2>4. \A i \in 1..(Len(q) - 1) : i + 1 \in 1..Len(q) /\ i + 1 # 1 BY <1>1
  <2>5. \A i \in 1..Len(q) : i # 1 => i - 1 \in 1..(Len(q) - 1) /\ (i - 1) + 1 = i BY <1>1
  <2>6. \A i \in 1..Len(q) : i # 1 /\ q[i].cap # NoCap => q[i].cap # q[1].cap
    BY <1>1, <2>1 DEF UniqueIn
  <2>7. ASSUME NEW x \in CapsIn(t) PROVE x \in CapsIn(q) /\ x # q[1].cap
    <3>1. PICK i \in 1..(Len(q) - 1) : x = t[i].cap /\ x # NoCap BY <2>3 DEF CapsIn
    <3>2. i + 1 \in 1..Len(q) /\ i + 1 # 1 /\ x = q[i + 1].cap BY <2>3, <2>4, <3>1
    <3>3. QED BY <1>1, <2>6, <3>1, <3>2 DEF CapsIn
  <2>8. ASSUME NEW x \in CapsIn(q), x # q[1].cap PROVE x \in CapsIn(t)
    <3>1. PICK i \in 1..Len(q) : x = q[i].cap /\ x # NoCap BY <1>1 DEF CapsIn
    <3>2. i # 1 BY <2>8, <3>1
    <3>3. i - 1 \in DOMAIN t /\ t[i - 1].cap = x BY <2>3, <2>5, <3>1, <3>2
    <3>4. QED BY <3>1, <3>3 DEF CapsIn
  <2>9. CapsIn(t) = CapsIn(q) \ {q[1].cap} BY <2>7, <2>8
  <2>10. UniqueIn(t)
    <3> SUFFICES ASSUME NEW n \in DOMAIN t, NEW k \in DOMAIN t, t[n].cap = t[k].cap,
                        t[n].cap # NoCap
                 PROVE  n = k
      BY DEF UniqueIn
    <3>1. /\ t[n] = q[n + 1] /\ t[k] = q[k + 1]
          /\ n + 1 \in DOMAIN q /\ k + 1 \in DOMAIN q /\ n \in Nat /\ k \in Nat
      BY <1>1, <2>3, <2>4
    <3>2. n + 1 = k + 1 BY <3>1 DEF UniqueIn
    <3>3. QED BY <3>1, <3>2
  <2>11. <<Head(q)>> \o Tail(q) = q BY <1>3
  <2>12. Head(q).cap # NoCap => Head(q).cap \in CapsIn(q) BY <1>1, <2>1 DEF CapsIn
  <2>13. QED BY <2>1, <2>2, <2>9, <2>10, <2>11, <2>12
<1>4. QED BY <1>2, <1>3

\* The capabilities of a table after take and allocate.
LEMMA HeldByOps ==
    ASSUME NEW t \in Table, UniqueHeld(t)
    PROVE  /\ \A s \in Slot : HeldBy(Take(t, s)) = HeldBy(t) \ {t[s]} /\ UniqueHeld(Take(t, s))
           /\ \A c \in Cap : FreeSlots(t) # {} /\ c \notin HeldBy(t) =>
                HeldBy(Allocate(t, c)) = HeldBy(t) \cup {c} /\ UniqueHeld(Allocate(t, c))
           /\ HeldBy([s \in Slot |-> NoCap]) = {} /\ UniqueHeld([s \in Slot |-> NoCap])
<1>1. t \in [Slot -> Cap \cup {NoCap}] BY DEF Table
<1>2. ASSUME NEW s \in Slot
      PROVE  HeldBy(Take(t, s)) = HeldBy(t) \ {t[s]} /\ UniqueHeld(Take(t, s))
  <2>1. PICK x : x = Take(t, s) OBVIOUS
  <2>2. x[s] = NoCap /\ \A u \in Slot : u # s => x[u] = t[u] BY <1>1, <2>1 DEF Take
  <2>3. \A u \in Slot : u # s /\ t[u] # NoCap => t[u] # t[s] BY DEF UniqueHeld
  <2>4. HeldBy(x) = HeldBy(t) \ {t[s]} BY <2>2, <2>3 DEF HeldBy
  <2>5. UniqueHeld(x) BY <2>2 DEF UniqueHeld
  <2>6. QED BY <2>1, <2>4, <2>5
<1>3. ASSUME NEW c \in Cap, FreeSlots(t) # {}, c \notin HeldBy(t)
      PROVE  HeldBy(Allocate(t, c)) = HeldBy(t) \cup {c} /\ UniqueHeld(Allocate(t, c))
  <2>1. FirstFree(t) \in FreeSlots(t)
    <3>1. FreeSlots(t) \subseteq Nat BY IpcAssumption DEF FreeSlots, Slot
    <3>2. PICK s \in FreeSlots(t) : \A x \in FreeSlots(t) : s <= x
      BY <1>3, <3>1, NatMinimum
    <3>3. QED BY <3>2 DEF FirstFree
  <2>2. PICK s : s = FirstFree(t) OBVIOUS
  <2>3. s \in Slot /\ t[s] = NoCap BY <2>1, <2>2 DEF FreeSlots
  <2>4. PICK x : x = Allocate(t, c) OBVIOUS
  <2>5. x[s] = c /\ \A u \in Slot : u # s => x[u] = t[u]
    BY <1>1, <2>2, <2>3, <2>4 DEF Allocate
  <2>6. c # NoCap BY IpcAssumption
  <2>7. HeldBy(x) = HeldBy(t) \cup {c} BY <2>3, <2>5, <2>6 DEF HeldBy
  <2>8. \A u \in Slot : t[u] # c BY <1>3, <2>6 DEF HeldBy
  <2>9. UniqueHeld(x) BY <2>5, <2>8 DEF UniqueHeld
  <2>10. QED BY <2>4, <2>7, <2>9
<1>4. HeldBy([s \in Slot |-> NoCap]) = {} /\ UniqueHeld([s \in Slot |-> NoCap])
  BY DEF HeldBy, UniqueHeld
<1>5. QED BY <1>2, <1>3, <1>4

InitialCaps == UNION {{InitCaps[p][s] : s \in Slot} \ {NoCap} : p \in Pid}

\* The capabilities in queues (Q), in tables (H) and destroyed (g) are
\* pairwise apart, and an initial capability is somewhere.
Apart(Q, H, g) ==
    /\ \A i \in DOMAIN Owners : \A c \in Q[i] :
         /\ c \notin g
         /\ \A j \in DOMAIN Owners : j # i => c \notin Q[j]
         /\ \A p \in Pid : c \notin H[p]
    /\ \A p \in Pid : \A c \in H[p] :
         /\ c \notin g
         /\ \A q \in Pid : q # p => c \notin H[q]
    /\ \A c \in InitialCaps :
         c \in g \/ (\E i \in DOMAIN Owners : c \in Q[i]) \/ (\E p \in Pid : c \in H[p])

QueueCaps(r) == [i \in DOMAIN Owners |-> CapsIn(r.eps[i].queue)]

HeldCaps(ts) == [p \in Pid |-> HeldBy(ts[p])]

\* Every capability is in one place: the inductive form of CapConserved.
Conserved(r, ts, g) ==
    /\ \A i \in DOMAIN Owners : UniqueIn(r.eps[i].queue)
    /\ \A p \in Pid : UniqueHeld(ts[p])
    /\ Apart(QueueCaps(r), HeldCaps(ts), g)

\* A capability goes from a table to a queue.
LEMMA ApartSend ==
    ASSUME NEW Q, NEW H, NEW g, Apart(Q, H, g), NEW i \in DOMAIN Owners, NEW p \in Pid,
           NEW c \in H[p], NEW R, NEW K,
           R[i] = Q[i] \cup {c}, \A j \in DOMAIN Owners : j # i => R[j] = Q[j],
           K[p] = H[p] \ {c}, \A q \in Pid : q # p => K[q] = H[q]
    PROVE  Apart(R, K, g)
<1>1. ASSUME NEW j \in DOMAIN Owners, NEW x \in R[j]
      PROVE  /\ x \notin g
             /\ \A k \in DOMAIN Owners : k # j => x \notin R[k]
             /\ \A q \in Pid : x \notin K[q]
  <2>1. CASE x = c BY <1>1, <2>1 DEF Apart
  <2>2. CASE x # c
    <3>1. x \in Q[j] BY <1>1, <2>2
    <3>2. QED BY <2>2, <3>1 DEF Apart
  <2>3. QED BY <2>1, <2>2
<1>2. ASSUME NEW q \in Pid, NEW x \in K[q]
      PROVE  x \notin g /\ \A u \in Pid : u # q => x \notin K[u]
  <2>1. x \in H[q] BY <1>2
  <2>2. QED BY <2>1 DEF Apart
<1>3. ASSUME NEW x \in InitialCaps
      PROVE  x \in g \/ (\E j \in DOMAIN Owners : x \in R[j]) \/ (\E q \in Pid : x \in K[q])
  <2>1. CASE x = c BY <2>1
  <2>2. CASE x # c BY <2>2 DEF Apart
  <2>3. QED BY <2>1, <2>2
<1>4. QED BY <1>1, <1>2, <1>3 DEF Apart

\* A capability goes from a queue to a table.
LEMMA ApartRecv ==
    ASSUME NEW Q, NEW H, NEW g, Apart(Q, H, g), NEW i \in DOMAIN Owners, NEW p \in Pid,
           NEW c \in Q[i], NEW R, NEW K,
           R[i] = Q[i] \ {c}, \A j \in DOMAIN Owners : j # i => R[j] = Q[j],
           K[p] = H[p] \cup {c}, \A q \in Pid : q # p => K[q] = H[q]
    PROVE  Apart(R, K, g)
<1>1. ASSUME NEW j \in DOMAIN Owners, NEW x \in R[j]
      PROVE  /\ x \notin g
             /\ \A k \in DOMAIN Owners : k # j => x \notin R[k]
             /\ \A q \in Pid : x \notin K[q]
  <2>1. x \in Q[j] BY <1>1
  <2>2. x # c BY <1>1 DEF Apart
  <2>3. QED BY <2>1, <2>2 DEF Apart
<1>2. ASSUME NEW q \in Pid, NEW x \in K[q]
      PROVE  x \notin g /\ \A u \in Pid : u # q => x \notin K[u]
  <2>1. CASE x = c BY <1>2, <2>1 DEF Apart
  <2>2. CASE x # c
    <3>1. x \in H[q] BY <1>2, <2>2
    <3>2. QED BY <2>2, <3>1 DEF Apart
  <2>3. QED BY <2>1, <2>2
<1>3. ASSUME NEW x \in InitialCaps
      PROVE  x \in g \/ (\E j \in DOMAIN Owners : x \in R[j]) \/ (\E q \in Pid : x \in K[q])
  <2>1. CASE x = c BY <2>1
  <2>2. CASE x # c BY <2>2 DEF Apart
  <2>3. QED BY <2>1, <2>2
<1>4. QED BY <1>1, <1>2, <1>3 DEF Apart

\* The capabilities D are destroyed.
LEMMA ApartDestroy ==
    ASSUME NEW Q, NEW H, NEW g, Apart(Q, H, g), NEW D, NEW R, NEW K,
           \A j \in DOMAIN Owners : R[j] = Q[j] \ D, \A q \in Pid : K[q] = H[q] \ D
    PROVE  Apart(R, K, g \cup D)
<1>1. ASSUME NEW j \in DOMAIN Owners, NEW x \in R[j]
      PROVE  /\ x \notin g \cup D
             /\ \A k \in DOMAIN Owners : k # j => x \notin R[k]
             /\ \A q \in Pid : x \notin K[q]
  <2>1. x \in Q[j] /\ x \notin D BY <1>1
  <2>2. QED BY <2>1 DEF Apart
<1>2. ASSUME NEW q \in Pid, NEW x \in K[q]
      PROVE  x \notin g \cup D /\ \A u \in Pid : u # q => x \notin K[u]
  <2>1. x \in H[q] /\ x \notin D BY <1>2
  <2>2. QED BY <2>1 DEF Apart
<1>3. ASSUME NEW x \in InitialCaps
      PROVE  \/ x \in g \cup D
             \/ \E j \in DOMAIN Owners : x \in R[j]
             \/ \E q \in Pid : x \in K[q]
  BY DEF Apart
<1>4. QED BY <1>1, <1>2, <1>3 DEF Apart

\* s has q as the queue of endpoint i, and the queues of r otherwise.
NewQueue(r, s, i, q) ==
    /\ s.eps[i].queue = q
    /\ \A j \in DOMAIN Owners : j # i => s.eps[j].queue = r.eps[j].queue

SameQueues(r, s) == \A j \in DOMAIN Owners : s.eps[j].queue = r.eps[j].queue

\* Only the queues matter.
LEMMA ConservedSame ==
    ASSUME NEW r, NEW ts, NEW g, Conserved(r, ts, g), NEW s, SameQueues(r, s)
    PROVE  Conserved(s, ts, g)
<1>1. QueueCaps(s) = QueueCaps(r) BY DEF QueueCaps, SameQueues
<1>2. QED BY <1>1 DEF Conserved, SameQueues

\* A message without a capability is sent.
LEMMA ConservedPlain ==
    ASSUME NEW r, NEW ts, NEW g, Conserved(r, ts, g), NEW i \in DOMAIN Owners,
           NEW m, m.cap = NoCap, r.eps[i].queue \in Seq(Message),
           NEW s, NewQueue(r, s, i, Append(r.eps[i].queue, m))
    PROVE  Conserved(s, ts, g)
<1>1. PICK q : q = r.eps[i].queue OBVIOUS
<1>2. q \in Seq(Message) /\ UniqueIn(q) BY <1>1 DEF Conserved
<1>3. NoCap \notin CapsIn(q) BY DEF CapsIn
<1>4. CapsIn(Append(q, m)) = CapsIn(q) /\ UniqueIn(Append(q, m))
  <2>1. /\ CapsIn(Append(q, m)) = CapsIn(q) \cup ({m.cap} \ {NoCap})
        /\ m.cap \notin CapsIn(q) => UniqueIn(Append(q, m))
    BY <1>2, CapsInOps
  <2>2. {m.cap} \ {NoCap} = {} OBVIOUS
  <2>3. QED BY <1>3, <2>1, <2>2
<1>5. s.eps[i].queue = Append(q, m) /\ \A j \in DOMAIN Owners : j # i => s.eps[j].queue = r.eps[j].queue
  BY <1>1 DEF NewQueue
<1>6. \A j \in DOMAIN Owners : UniqueIn(s.eps[j].queue) BY <1>4, <1>5 DEF Conserved
<1>7. \A j \in DOMAIN Owners : CapsIn(s.eps[j].queue) = CapsIn(r.eps[j].queue)
  BY <1>1, <1>4, <1>5
<1>8. QueueCaps(s) = QueueCaps(r) BY <1>7 DEF QueueCaps
<1>9. QED BY <1>6, <1>8 DEF Conserved

\* A message is sent with the capability of slot u of task p.
LEMMA ConservedSend ==
    ASSUME NEW r, NEW ts \in [Pid -> Table], NEW g, Conserved(r, ts, g),
           NEW i \in DOMAIN Owners, NEW p \in Pid, NEW u \in Slot, ts[p][u] # NoCap,
           NEW m, m.cap = ts[p][u], r.eps[i].queue \in Seq(Message),
           NEW s, NewQueue(r, s, i, Append(r.eps[i].queue, m))
    PROVE  Conserved(s, [ts EXCEPT ![p] = Take(ts[p], u)], g)
<1>1. PICK q : q = r.eps[i].queue OBVIOUS
<1>2. PICK c : c = ts[p][u] OBVIOUS
<1>3. PICK tt : tt = [ts EXCEPT ![p] = Take(ts[p], u)] OBVIOUS
<1>4. /\ q \in Seq(Message) /\ UniqueIn(q) /\ ts[p] \in Table /\ UniqueHeld(ts[p])
      /\ c # NoCap /\ m.cap = c
  BY <1>1, <1>2 DEF Conserved
<1>5. c \in HeldBy(ts[p]) BY <1>2, <1>4 DEF HeldBy
<1>6. \A j \in DOMAIN Owners : QueueCaps(r)[j] = CapsIn(r.eps[j].queue) BY DEF QueueCaps
<1>7. \A x \in Pid : HeldCaps(ts)[x] = HeldBy(ts[x]) BY DEF HeldCaps
<1>8. c \notin CapsIn(q)
  BY <1>1, <1>5, <1>6, <1>7 DEF Conserved, Apart
<1>9. CapsIn(Append(q, m)) = CapsIn(q) \cup {c} /\ UniqueIn(Append(q, m))
  <2>1. /\ CapsIn(Append(q, m)) = CapsIn(q) \cup ({m.cap} \ {NoCap})
        /\ m.cap \notin CapsIn(q) => UniqueIn(Append(q, m))
    BY <1>4, CapsInOps
  <2>2. {m.cap} \ {NoCap} = {c} BY <1>4
  <2>3. QED BY <1>4, <1>8, <2>1, <2>2
<1>10. /\ s.eps[i].queue = Append(q, m)
       /\ \A j \in DOMAIN Owners : j # i => s.eps[j].queue = r.eps[j].queue
  BY <1>1 DEF NewQueue
<1>11. \A j \in DOMAIN Owners : UniqueIn(s.eps[j].queue) BY <1>9, <1>10 DEF Conserved
<1>12. HeldBy(Take(ts[p], u)) = HeldBy(ts[p]) \ {c} /\ UniqueHeld(Take(ts[p], u))
  BY <1>2, <1>4, HeldByOps
<1>13. tt[p] = Take(ts[p], u) /\ \A x \in Pid : x # p => tt[x] = ts[x] BY <1>3
<1>14. \A x \in Pid : UniqueHeld(tt[x]) BY <1>12, <1>13 DEF Conserved
<1>15. /\ QueueCaps(s)[i] = QueueCaps(r)[i] \cup {c}
       /\ \A j \in DOMAIN Owners : j # i => QueueCaps(s)[j] = QueueCaps(r)[j]
  BY <1>1, <1>9, <1>10 DEF QueueCaps
<1>16. /\ HeldCaps(tt)[p] = HeldCaps(ts)[p] \ {c}
       /\ \A x \in Pid : x # p => HeldCaps(tt)[x] = HeldCaps(ts)[x]
  BY <1>12, <1>13 DEF HeldCaps
<1>17. c \in HeldCaps(ts)[p] BY <1>5, <1>7
<1>18. Apart(QueueCaps(r), HeldCaps(ts), g) BY DEF Conserved
<1>19. Apart(QueueCaps(s), HeldCaps(tt), g) BY <1>15, <1>16, <1>17, <1>18, ApartSend
<1>20. QED BY <1>3, <1>11, <1>14, <1>19 DEF Conserved

\* A message is taken off a queue, and its capability, if any, goes to a free
\* slot of task p.
LEMMA ConservedRecv ==
    ASSUME NEW r, NEW ts \in [Pid -> Table], NEW g, Conserved(r, ts, g),
           NEW i \in DOMAIN Owners, NEW p \in Pid, FreeSlots(ts[p]) # {},
           r.eps[i].queue \in Seq(Message), r.eps[i].queue # <<>>,
           NEW c \in Cap, c = Head(r.eps[i].queue).cap,
           NEW s, NewQueue(r, s, i, Tail(r.eps[i].queue))
    PROVE  Conserved(s, [ts EXCEPT ![p] = Allocate(ts[p], c)], g)
<1>1. PICK q : q = r.eps[i].queue OBVIOUS
<1>2. PICK tt : tt = [ts EXCEPT ![p] = Allocate(ts[p], c)] OBVIOUS
<1>3. /\ q \in Seq(Message) /\ UniqueIn(q) /\ q # <<>> /\ c = Head(q).cap
      /\ ts[p] \in Table /\ UniqueHeld(ts[p]) /\ c # NoCap
  BY <1>1, IpcAssumption DEF Conserved
<1>4. \A j \in DOMAIN Owners : QueueCaps(r)[j] = CapsIn(r.eps[j].queue) BY DEF QueueCaps
<1>5. \A x \in Pid : HeldCaps(ts)[x] = HeldBy(ts[x]) BY DEF HeldCaps
<1>6. CapsIn(Tail(q)) = CapsIn(q) \ {c} /\ UniqueIn(Tail(q)) /\ c \in CapsIn(q)
  BY <1>3, CapsInOps
<1>7. c \notin HeldBy(ts[p]) BY <1>1, <1>4, <1>5, <1>6 DEF Conserved, Apart
<1>8. /\ s.eps[i].queue = Tail(q)
      /\ \A j \in DOMAIN Owners : j # i => s.eps[j].queue = r.eps[j].queue
  BY <1>1 DEF NewQueue
<1>9. \A j \in DOMAIN Owners : UniqueIn(s.eps[j].queue) BY <1>6, <1>8 DEF Conserved
<1>10. HeldBy(Allocate(ts[p], c)) = HeldBy(ts[p]) \cup {c} /\ UniqueHeld(Allocate(ts[p], c))
  BY <1>3, <1>7, HeldByOps
<1>11. tt[p] = Allocate(ts[p], c) /\ \A x \in Pid : x # p => tt[x] = ts[x] BY <1>2
<1>12. \A x \in Pid : UniqueHeld(tt[x]) BY <1>10, <1>11 DEF Conserved
<1>13. /\ QueueCaps(s)[i] = QueueCaps(r)[i] \ {c}
       /\ \A j \in DOMAIN Owners : j # i => QueueCaps(s)[j] = QueueCaps(r)[j]
  BY <1>1, <1>6, <1>8 DEF QueueCaps
<1>14. /\ HeldCaps(tt)[p] = HeldCaps(ts)[p] \cup {c}
       /\ \A x \in Pid : x # p => HeldCaps(tt)[x] = HeldCaps(ts)[x]
  BY <1>10, <1>11 DEF HeldCaps
<1>15. c \in QueueCaps(r)[i] BY <1>1, <1>4, <1>6
<1>16. Apart(QueueCaps(r), HeldCaps(ts), g) BY DEF Conserved
<1>17. Apart(QueueCaps(s), HeldCaps(tt), g) BY <1>13, <1>14, <1>15, <1>16, ApartRecv
<1>18. QED BY <1>2, <1>9, <1>12, <1>17 DEF Conserved

\* The capabilities D are destroyed: they leave the queues and the tables,
\* whose order is otherwise kept.
LEMMA ConservedDestroy ==
    ASSUME NEW r, NEW ts, NEW g, Conserved(r, ts, g), NEW D, NEW s, NEW tt,
           \A j \in DOMAIN Owners : /\ UniqueIn(s.eps[j].queue)
                                    /\ CapsIn(s.eps[j].queue) = CapsIn(r.eps[j].queue) \ D,
           \A x \in Pid : UniqueHeld(tt[x]) /\ HeldBy(tt[x]) = HeldBy(ts[x]) \ D
    PROVE  Conserved(s, tt, g \cup D)
<1>1. \A j \in DOMAIN Owners : QueueCaps(s)[j] = QueueCaps(r)[j] \ D BY DEF QueueCaps
<1>2. \A x \in Pid : HeldCaps(tt)[x] = HeldCaps(ts)[x] \ D BY DEF HeldCaps
<1>3. Apart(QueueCaps(r), HeldCaps(ts), g) BY DEF Conserved
<1>4. Apart(QueueCaps(s), HeldCaps(tt), g \cup D) BY <1>1, <1>2, <1>3, ApartDestroy
<1>5. QED BY <1>4 DEF Conserved

\* A message is taken off a queue and its capability, if any, is destroyed.
LEMMA ConservedDrop ==
    ASSUME NEW r, NEW ts, NEW g, Conserved(r, ts, g),
           NEW i \in DOMAIN Owners,
           r.eps[i].queue \in Seq(Message), r.eps[i].queue # <<>>,
           NEW s, NewQueue(r, s, i, Tail(r.eps[i].queue))
    PROVE  Conserved(s, ts, g \cup ({Head(r.eps[i].queue).cap} \ {NoCap}))
<1>1. PICK q : q = r.eps[i].queue OBVIOUS
<1>2. PICK c : c = Head(q).cap OBVIOUS
<1>3. PICK D : D = {c} \ {NoCap} OBVIOUS
<1>4. q \in Seq(Message) /\ UniqueIn(q) /\ q # <<>> BY <1>1 DEF Conserved
<1>5. /\ CapsIn(Tail(q)) = CapsIn(q) \ {Head(q).cap} /\ UniqueIn(Tail(q))
      /\ Head(q).cap # NoCap => Head(q).cap \in CapsIn(q)
  BY <1>4, CapsInOps
<1>6. NoCap \notin CapsIn(q) BY DEF CapsIn
<1>7. CapsIn(Tail(q)) = CapsIn(q) \ D BY <1>2, <1>3, <1>5, <1>6
<1>8. /\ s.eps[i].queue = Tail(q)
      /\ \A j \in DOMAIN Owners : j # i => s.eps[j].queue = r.eps[j].queue
  BY <1>1 DEF NewQueue
<1>9. \A j \in DOMAIN Owners : QueueCaps(r)[j] = CapsIn(r.eps[j].queue) BY DEF QueueCaps
<1>10. \A x \in Pid : HeldCaps(ts)[x] = HeldBy(ts[x]) BY DEF HeldCaps
<1>11. \A x \in D : x \in CapsIn(q) BY <1>2, <1>3, <1>5
<1>12. ASSUME NEW j \in DOMAIN Owners
       PROVE  /\ UniqueIn(s.eps[j].queue)
              /\ CapsIn(s.eps[j].queue) = CapsIn(r.eps[j].queue) \ D
  <2>1. CASE j = i BY <1>1, <1>5, <1>7, <1>8, <2>1
  <2>2. CASE j # i
    <3>1. \A x \in D : x \notin CapsIn(r.eps[j].queue)
      BY <1>1, <1>9, <1>11, <2>2 DEF Conserved, Apart
    <3>2. QED BY <1>8, <2>2, <3>1 DEF Conserved
  <2>3. QED BY <2>1, <2>2
<1>13. ASSUME NEW x \in Pid PROVE UniqueHeld(ts[x]) /\ HeldBy(ts[x]) = HeldBy(ts[x]) \ D
  <2>1. \A y \in D : y \notin HeldBy(ts[x])
    BY <1>1, <1>9, <1>10, <1>11 DEF Conserved, Apart
  <2>2. QED BY <2>1 DEF Conserved
<1>14. Conserved(s, ts, g \cup D) BY <1>12, <1>13, ConservedDestroy
<1>15. QED BY <1>1, <1>2, <1>3, <1>14

\* In s the queues I are empty, and the others as in r.
Empties(r, s, I) ==
    /\ I \subseteq DOMAIN Owners
    /\ \A j \in I : s.eps[j].queue = <<>>
    /\ \A j \in DOMAIN Owners : j \notin I => s.eps[j].queue = r.eps[j].queue

\* In the tables tt task p has dropped the capabilities E.
Drops(ts, tt, p, E) ==
    /\ UniqueHeld(tt[p]) /\ HeldBy(tt[p]) = HeldBy(ts[p]) \ E
    /\ E \subseteq HeldBy(ts[p])
    /\ \A x \in Pid : x # p => tt[x] = ts[x]

CapsInAll(r, I) == UNION {CapsIn(r.eps[j].queue) : j \in I}

\* The queues I are emptied, and the capabilities E of task p are dropped.
LEMMA ConservedClose ==
    ASSUME NEW r, NEW ts, NEW g, Conserved(r, ts, g),
           NEW I, NEW s, Empties(r, s, I), NEW p \in Pid, NEW E, NEW tt, Drops(ts, tt, p, E)
    PROVE  Conserved(s, tt, g \cup (E \cup CapsInAll(r, I)))
<1> USE DEF Empties, Drops
<1>1. PICK F : F = CapsInAll(r, I) OBVIOUS
<1>2. PICK D : D = E \cup F OBVIOUS
<1>3. \A j \in DOMAIN Owners : QueueCaps(r)[j] = CapsIn(r.eps[j].queue) BY DEF QueueCaps
<1>4. \A x \in Pid : HeldCaps(ts)[x] = HeldBy(ts[x]) BY DEF HeldCaps
<1>5. CapsIn(<<>>) = {} /\ UniqueIn(<<>>) BY DEF CapsIn, UniqueIn
<1>6. ASSUME NEW c \in F, NEW x \in Pid PROVE c \notin HeldBy(ts[x])
  <2>1. PICK j \in I : c \in CapsIn(r.eps[j].queue) BY <1>1 DEF CapsInAll
  <2>2. QED BY <1>3, <1>4, <2>1 DEF Conserved, Apart
<1>7. ASSUME NEW j \in DOMAIN Owners
      PROVE  /\ UniqueIn(s.eps[j].queue)
             /\ CapsIn(s.eps[j].queue) = CapsIn(r.eps[j].queue) \ D
  <2>1. CASE j \in I
    <3>1. CapsIn(r.eps[j].queue) \subseteq D BY <1>1, <1>2, <2>1 DEF CapsInAll
    <3>2. QED BY <1>5, <2>1, <3>1
  <2>2. CASE j \notin I
    <3>1. s.eps[j].queue = r.eps[j].queue BY <2>2
    <3>2. \A c \in E : c \notin CapsIn(r.eps[j].queue)
      BY <1>3, <1>4 DEF Conserved, Apart
    <3>3. ASSUME NEW c \in F PROVE c \notin CapsIn(r.eps[j].queue)
      <4>1. PICK k \in I : c \in CapsIn(r.eps[k].queue) BY <1>1, <3>3 DEF CapsInAll
      <4>2. QED BY <1>3, <2>2, <4>1 DEF Conserved, Apart
    <3>4. QED BY <1>2, <3>1, <3>2, <3>3 DEF Conserved
  <2>3. QED BY <2>1, <2>2
<1>8. ASSUME NEW x \in Pid PROVE UniqueHeld(tt[x]) /\ HeldBy(tt[x]) = HeldBy(ts[x]) \ D
  <2>1. \A c \in F : c \notin HeldBy(ts[x]) BY <1>6
  <2>2. CASE x = p BY <1>2, <2>1, <2>2
  <2>3. CASE x # p
    <3>1. \A c \in E : c \notin HeldBy(ts[x]) BY <1>4, <2>3 DEF Conserved, Apart
    <3>2. QED BY <1>2, <2>1, <2>3, <3>1 DEF Conserved
  <2>4. QED BY <2>2, <2>3
<1>9. Conserved(s, tt, g \cup D) BY <1>7, <1>8, ConservedDestroy
<1>10. QED BY <1>1, <1>2, <1>9

\* So a message that a failed delivery puts back is where it was (RequeueFits).
LEMMA RequeueRestores ==
    ASSUME NEW r, Sound(r), DOMAIN r.eps = DOMAIN Owners, NEW id, RecvErr(r, id) = "Ok",
           NEW t, OnlyWaiters(Recv(r, id), t)
    PROVE  SameQueues(r, RequeueFront(t, id, Received(r, id)))
<1>1. r \in RouterState /\ t \in RouterState BY DEF Sound, OnlyWaiters
<1>2. PICK m : m = Received(r, id) OBVIOUS
<1>3. SendErr(t, id, m) = "Ok" BY <1>2, RequeueFits
<1>4. PICK s : s = RequeueFront(t, id, m) OBVIOUS
<1>5. id \in DOMAIN t.eps /\ OnlyAt(t, s, id) /\ s.eps[id] = PushFront(t.eps[id], m)
  BY <1>1, <1>3, <1>4, SendEffect
<1>6. PICK x : x = Recv(r, id) OBVIOUS
<1>7. /\ id \in DOMAIN r.eps /\ r.eps[id].queue # <<>>
      /\ OnlyAt(r, x, id) /\ x.eps[id] = Pop(r.eps[id])
  BY <1>1, <1>6, RecvEffect
<1>8. OnlyWaiters(x, t) BY <1>6
<1>9. \A j \in DOMAIN r.eps : t.eps[j].queue = x.eps[j].queue
  BY <1>7, <1>8 DEF OnlyWaiters, SameContents, OnlyAt
<1>10. r.eps[id] \in Endpoint /\ t.eps[id] \in Endpoint BY <1>1, <1>5, <1>7, RouterFields
<1>11. PICK q \in Seq(Message) : q = r.eps[id].queue BY <1>10, EndpointFields
<1>12. t.eps[id].queue = Tail(q) BY <1>7, <1>9, <1>10, <1>11, PopFields
<1>13. s.eps[id].queue = <<m>> \o Tail(q) BY <1>5, <1>10, <1>12, PushFields
<1>14. <<Head(q)>> \o Tail(q) = q BY <1>7, <1>11
<1>15. s.eps[id].queue = q BY <1>2, <1>11, <1>13, <1>14 DEF Received
<1>16. \A j \in DOMAIN r.eps : j # id => s.eps[j].queue = r.eps[j].queue
  BY <1>5, <1>7, <1>8, <1>9 DEF OnlyAt, OnlyWaiters
<1>17. QED BY <1>2, <1>4, <1>11, <1>15, <1>16 DEF SameQueues

\* Operations on waiters leave the queues.
LEMMA WaitersSameQueues ==
    ASSUME NEW r, NEW s, OnlyWaiters(r, s), DOMAIN r.eps = DOMAIN Owners
    PROVE  SameQueues(r, s)
BY DEF OnlyWaiters, SameContents, SameQueues

\* What a send that succeeds, and the wake that follows it, do to the queues.
LEMMA SendQueues ==
    ASSUME NEW r, NEW b, Good(r, b), NEW id, NEW m \in Message, SendErr(r, id, m) = "Ok"
    PROVE  /\ id \in DOMAIN Owners /\ r.eps[id].queue \in Seq(Message)
           /\ NewQueue(r, Send(r, id, m), id, Append(r.eps[id].queue, m))
           /\ NewQueue(r, PopRecvWaiter(Send(r, id, m), id), id,
                       Append(r.eps[id].queue, m))
<1>1. r \in RouterState /\ DOMAIN r.eps = DOMAIN Owners BY DEF Good, Sound, Parking
<1>2. PICK s : s = Send(r, id, m) OBVIOUS
<1>3. s \in RouterState BY <1>1, <1>2, SendType
<1>4. id \in DOMAIN r.eps /\ OnlyAt(r, s, id) /\ s.eps[id] = Push(r.eps[id], m)
  BY <1>1, <1>2, SendEffect
<1>5. r.eps[id] \in Endpoint BY <1>1, <1>4, RouterFields
<1>6. r.eps[id].queue \in Seq(Message) BY <1>5, EndpointFields
<1>7. s.eps[id].queue = Append(r.eps[id].queue, m) BY <1>4, <1>5, PushFields
<1>8. NewQueue(r, s, id, Append(r.eps[id].queue, m)) BY <1>1, <1>4, <1>7 DEF NewQueue, OnlyAt
<1>9. PICK t : t = PopRecvWaiter(s, id) OBVIOUS
<1>10. DOMAIN s.eps = DOMAIN Owners BY <1>1, <1>4 DEF OnlyAt
<1>11. SameQueues(s, t) BY <1>3, <1>9, <1>10, OnlyWaitersOps, WaitersSameQueues
<1>12. NewQueue(r, t, id, Append(r.eps[id].queue, m))
  BY <1>1, <1>4, <1>8, <1>11 DEF NewQueue, SameQueues
<1>13. QED BY <1>1, <1>2, <1>4, <1>6, <1>8, <1>9, <1>12

\* The same for a receive.
LEMMA RecvQueues ==
    ASSUME NEW r, NEW b, Good(r, b), NEW id, RecvErr(r, id) = "Ok"
    PROVE  /\ id \in DOMAIN Owners /\ r.eps[id].queue \in Seq(Message)
           /\ r.eps[id].queue # <<>>
           /\ NewQueue(r, Recv(r, id), id, Tail(r.eps[id].queue))
           /\ NewQueue(r, PopSendWaiter(Recv(r, id), id), id, Tail(r.eps[id].queue))
           /\ OnlyWaiters(Recv(r, id), PopSendWaiter(Recv(r, id), id))
<1>1. r \in RouterState /\ DOMAIN r.eps = DOMAIN Owners BY DEF Good, Sound, Parking
<1>2. PICK s : s = Recv(r, id) OBVIOUS
<1>3. s \in RouterState BY <1>1, <1>2, RecvType
<1>4. /\ id \in DOMAIN r.eps /\ r.eps[id].queue # <<>>
      /\ OnlyAt(r, s, id) /\ s.eps[id] = Pop(r.eps[id])
  BY <1>1, <1>2, RecvEffect
<1>5. r.eps[id] \in Endpoint BY <1>1, <1>4, RouterFields
<1>6. r.eps[id].queue \in Seq(Message) BY <1>5, EndpointFields
<1>7. s.eps[id].queue = Tail(r.eps[id].queue) BY <1>4, <1>5, PopFields
<1>8. NewQueue(r, s, id, Tail(r.eps[id].queue)) BY <1>1, <1>4, <1>7 DEF NewQueue, OnlyAt
<1>9. PICK t : t = PopSendWaiter(s, id) OBVIOUS
<1>10. DOMAIN s.eps = DOMAIN Owners BY <1>1, <1>4 DEF OnlyAt
<1>11. OnlyWaiters(s, t) BY <1>3, <1>9, OnlyWaitersOps
<1>12. SameQueues(s, t) BY <1>10, <1>11, WaitersSameQueues
<1>13. NewQueue(r, t, id, Tail(r.eps[id].queue))
  BY <1>1, <1>4, <1>8, <1>12 DEF NewQueue, SameQueues
<1>14. QED BY <1>1, <1>2, <1>4, <1>6, <1>8, <1>9, <1>11, <1>13

-----------------------------------------------------------------------------
(* Capabilities: the system calls *)

CapInv == Conserved(router, caps, gone)

\* A task that parks or spins leaves the queues.
LEMMA ParkQueues ==
    ASSUME Good(router, blocked), NEW p \in Pid, NEW cl, NEW r, NEW x,
           OnlyWaiters(router, r),
           Good(r, [blocked EXCEPT ![p] = x]), Park(p, cl, r, router, x)
    PROVE  SameQueues(router, router')
<1>1. \A b : Expired(b) \subseteq {y \in Pid : b[y] # None} BY DEF Expired
<1>2. DOMAIN router.eps = DOMAIN Owners /\ DOMAIN r.eps = DOMAIN Owners
  BY DEF Good, Parking
<1>3. SameQueues(router, r) BY <1>2, WaitersSameQueues
<1>4. ASSUME NEW t, NEW b, Good(t, b), WakeExpired(t, b), DOMAIN t.eps = DOMAIN Owners
      PROVE  SameQueues(t, router')
  <2>1. router' = Deregister(t, b, Expired(b)) BY <1>4 DEF WakeExpired
  <2>2. OnlyWaiters(t, router') BY <1>1, <1>4, <2>1, GoodDeregister
  <2>3. QED BY <1>4, <2>2, WaitersSameQueues
<1>5. \/ WakeExpired(r, [blocked EXCEPT ![p] = x])
      \/ WakeExpired(router, blocked)
  BY DEF Park
<1>6. SameQueues(r, router') \/ SameQueues(router, router') BY <1>2, <1>4, <1>5
<1>7. QED BY <1>3, <1>6 DEF SameQueues

\* ipc_send_v1: only a send that succeeds takes the capability.
LEMMA CapSend ==
    ASSUME IpcInv, CapInv, NEW p \in Pid, NEW cl \in Making(p),
           SendOk(p, cl) \/ SendWait(p, cl) \/ SendFail(p, cl)
    PROVE  CapInv'
<1>0. /\ Good(router, blocked) /\ Typed /\ router \in RouterState
      /\ caps \in [Pid -> Table] /\ Conserved(router, caps, gone)
  BY DEF IpcInv, Good, Sound, Typed, CapInv
<1>1. cl.op = "send" /\ IsIpcCall(cl)
  BY <1>0, MakingCall DEF SendOk, SendWait, SendFail
<1>2. PICK ep : ep = caps[p][cl.slot].ep OBVIOUS
<1>3. PICK m : m = MessageOf(p, cl) OBVIOUS
<1>4. gone' = gone BY DEF SendOk, SendWait, SendFail
<1>5. CASE SendOk(p, cl)
  <2>1. IpcSendErr(p, cl) = "Ok" BY <1>5 DEF SendOk
  <2>2. /\ MoveErr(p, cl) = "Ok" /\ SendErr(router, ep, m) = "Ok"
        /\ cl.len <= MAX_FRAME_BYTES
    BY <1>1, <1>2, <1>3, <2>1, SendLegal
  <2>3. m \in Message /\ m.cap = MovedCap(p, cl) BY <1>0, <1>1, <1>3, <2>2, MessageTyped
  <2>4. router' = PopRecvWaiter(Send(router, ep, m), ep) BY <1>2, <1>3, <1>5 DEF SendOk
  <2>5. /\ ep \in DOMAIN Owners /\ router.eps[ep].queue \in Seq(Message)
        /\ NewQueue(router, router', ep, Append(router.eps[ep].queue, m))
    BY <1>0, <2>2, <2>3, <2>4, SendQueues
  <2>6. CASE cl.move = None
    <3>1. m.cap = NoCap BY <2>3, <2>6 DEF MovedCap
    <3>2. caps' = caps BY <1>5, <2>6 DEF SendOk
    <3>3. Conserved(router', caps, gone) BY <1>0, <2>5, <3>1, ConservedPlain
    <3>4. QED BY <1>4, <3>2, <3>3 DEF CapInv
  <2>7. CASE cl.move # None
    <3>1. cl.move \in Slot BY <1>1, <2>7 DEF IsIpcCall
    <3>2. PICK u \in Slot : u = cl.move BY <3>1
    <3>3. m.cap = caps[p][u] BY <2>3, <2>7, <3>2 DEF MovedCap
    <3>4. caps[p][u] # NoCap BY <2>2, <2>7, <3>2 DEF MoveErr
    <3>5. caps' = [caps EXCEPT ![p] = Take(caps[p], u)] BY <1>5, <2>7, <3>2 DEF SendOk
    <3>6. Conserved(router', [caps EXCEPT ![p] = Take(caps[p], u)], gone)
      BY <1>0, <2>5, <3>3, <3>4, ConservedSend
    <3>7. QED BY <1>4, <3>5, <3>6 DEF CapInv
  <2>8. QED BY <2>6, <2>7
<1>6. CASE SendWait(p, cl)
  <2>1. IpcSendErr(p, cl) = "QueueFull" /\ blocked[p] = None
    BY <1>6 DEF SendWait, SendBlocks, Runs
  <2>2. EndpointAlive(router, ep)
    BY <1>0, <1>1, <1>2, <2>1, SendLegal, FullIsAlive
  <2>3. cl.deadline \in Nat BY <1>1 DEF IsIpcCall
  <2>4. PICK r : r = RegisterSendWaiter(router, ep, p) OBVIOUS
  <2>5. PICK x : x = Reason("send", {ep}, cl.deadline) OBVIOUS
  <2>6. Good(r, [blocked EXCEPT ![p] = x])
    BY <1>0, <2>1, <2>2, <2>3, <2>4, <2>5, GoodRegister
  <2>7. Park(p, cl, r, router, x) BY <1>2, <1>6, <2>4, <2>5 DEF SendWait
  <2>8. OnlyWaiters(router, r) BY <1>0, <2>4, OnlyWaitersOps
  <2>9. SameQueues(router, router') BY <1>0, <2>6, <2>7, <2>8, ParkQueues
  <2>10. caps' = caps BY <1>6 DEF SendWait
  <2>11. QED BY <1>0, <1>4, <2>9, <2>10, ConservedSame DEF CapInv
<1>7. CASE SendFail(p, cl)
  BY <1>0, <1>4, <1>7 DEF SendFail, CapInv
<1>8. QED BY <1>5, <1>6, <1>7

\* ipc_recv_v1: the capability goes to a slot, or back with its message.
LEMMA CapRecv ==
    ASSUME IpcInv, CapInv, NEW p \in Pid, NEW cl \in Making(p),
           RecvOk(p, cl) \/ RecvWait(p, cl) \/ RecvFail(p, cl)
    PROVE  CapInv'
<1>0. /\ Good(router, blocked) /\ Typed /\ router \in RouterState /\ Sound(router)
      /\ DOMAIN router.eps = DOMAIN Owners
      /\ caps \in [Pid -> Table] /\ Conserved(router, caps, gone)
  BY DEF IpcInv, Good, Sound, Parking, Typed, CapInv
<1>1. cl.op = "recv" /\ IsIpcCall(cl)
  BY <1>0, MakingCall DEF RecvOk, RecvWait, RecvFail
<1>2. PICK ep : ep = caps[p][cl.slot].ep OBVIOUS
<1>3. gone' = gone BY DEF RecvOk, RecvWait, RecvFail
<1>4. CASE RecvOk(p, cl)
  <2>1. RecvErr(router, ep) = "Ok" BY <1>2, <1>4 DEF RecvOk, IpcRecvErr
  <2>2. PICK m : m = Received(router, ep) OBVIOUS
  <2>3. PICK r : r = Recv(router, ep) OBVIOUS
  <2>4. PICK r1 : r1 = PopSendWaiter(r, ep) OBVIOUS
  <2>5. m \in Message BY <1>0, <2>1, <2>2, GoodRecv
  <2>6. m.cap \in Cap \cup {NoCap} BY <2>5, IpcAssumption
  <2>7. /\ ep \in DOMAIN Owners /\ router.eps[ep].queue \in Seq(Message)
        /\ router.eps[ep].queue # <<>>
        /\ NewQueue(router, r1, ep, Tail(router.eps[ep].queue))
        /\ OnlyWaiters(r, r1)
    BY <1>0, <2>1, <2>3, <2>4, RecvQueues
  <2>8. m = Head(router.eps[ep].queue) BY <2>2 DEF Received
  <2>9. CASE m.cap = NoCap /\ router' = r1 /\ caps' = caps
    <3>1. Conserved(router', caps, gone \cup ({Head(router.eps[ep].queue).cap} \ {NoCap}))
      BY <1>0, <2>7, <2>9, ConservedDrop
    <3>2. gone \cup ({Head(router.eps[ep].queue).cap} \ {NoCap}) = gone BY <2>8, <2>9
    <3>3. QED BY <1>3, <2>9, <3>1, <3>2 DEF CapInv
  <2>10. CASE /\ m.cap # NoCap /\ FreeSlots(caps[p]) # {} /\ router' = r1
              /\ caps' = [caps EXCEPT ![p] = Allocate(caps[p], m.cap)]
    <3>1. PICK c \in Cap : c = m.cap BY <2>6, <2>10
    <3>2. Conserved(router', [caps EXCEPT ![p] = Allocate(caps[p], c)], gone)
      BY <1>0, <2>7, <2>8, <2>10, <3>1, ConservedRecv
    <3>3. QED BY <1>3, <2>10, <3>1, <3>2 DEF CapInv
  <2>11. CASE router' = RequeueFront(r1, ep, m) /\ caps' = caps
    <3>1. SameQueues(router, router')
      BY <1>0, <2>1, <2>2, <2>3, <2>7, <2>11, RequeueRestores
    <3>2. QED BY <1>0, <1>3, <2>11, <3>1, ConservedSame DEF CapInv
  <2>12. QED BY <1>2, <1>4, <2>2, <2>3, <2>4, <2>9, <2>10, <2>11 DEF RecvOk
<1>5. CASE RecvWait(p, cl)
  <2>1. RecvErr(router, ep) = "QueueEmpty" /\ blocked[p] = None
    BY <1>2, <1>5 DEF RecvWait, RecvBlocks, IpcRecvErr, Runs
  <2>2. EndpointAlive(router, ep) BY <2>1 DEF RecvErr
  <2>3. cl.deadline \in Nat BY <1>1 DEF IsIpcCall
  <2>4. PICK r : r = RegisterRecvWaiter(router, ep, p) OBVIOUS
  <2>5. PICK x : x = Reason("recv", {ep}, cl.deadline) OBVIOUS
  <2>6. Good(r, [blocked EXCEPT ![p] = x])
    BY <1>0, <2>1, <2>2, <2>3, <2>4, <2>5, GoodRegister
  <2>7. Park(p, cl, r, router, x) BY <1>2, <1>5, <2>4, <2>5 DEF RecvWait
  <2>8. OnlyWaiters(router, r) BY <1>0, <2>4, OnlyWaitersOps
  <2>9. SameQueues(router, router') BY <1>0, <2>6, <2>7, <2>8, ParkQueues
  <2>10. caps' = caps BY <1>5 DEF RecvWait
  <2>11. QED BY <1>0, <1>3, <2>9, <2>10, ConservedSame DEF CapInv
<1>6. CASE RecvFail(p, cl)
  BY <1>0, <1>3, <1>6 DEF RecvFail, CapInv
<1>7. QED BY <1>4, <1>5, <1>6

\* The first-generation send and recv.
LEMMA CapLegacy ==
    ASSUME IpcInv, CapInv, NEW p \in Legacy, NEW s \in Slot, SysSend(p, s) \/ SysRecv(p, s)
    PROVE  CapInv'
<1>0. Good(router, blocked) /\ Conserved(router, caps, gone) BY DEF IpcInv, CapInv
<1>1. PICK ep : ep = caps[p][s].ep OBVIOUS
<1>2. CASE SysSend(p, s)
  <2>1. PICK m : m = [len |-> 0, cap |-> NoCap] OBVIOUS
  <2>2. m \in Message /\ m.cap = NoCap BY <2>1, IpcAssumption, RouterAssumption
  <2>3. router' = Send(router, ep, m) /\ caps' = caps /\ gone' = gone
    BY <1>1, <1>2, <2>1 DEF SysSend
  <2>4. CASE SendErr(router, ep, m) = "Ok"
    <3>1. /\ ep \in DOMAIN Owners /\ router.eps[ep].queue \in Seq(Message)
          /\ NewQueue(router, router', ep, Append(router.eps[ep].queue, m))
      BY <1>0, <2>2, <2>3, <2>4, SendQueues
    <3>2. Conserved(router', caps, gone) BY <1>0, <2>2, <3>1, ConservedPlain
    <3>3. QED BY <2>3, <3>2 DEF CapInv
  <2>5. CASE SendErr(router, ep, m) # "Ok"
    <3>1. router' = router BY <2>3, <2>5 DEF Send
    <3>2. QED BY <1>0, <2>3, <3>1 DEF CapInv
  <2>6. QED BY <2>4, <2>5
<1>3. CASE SysRecv(p, s)
  <2>1. RecvErr(router, ep) = "Ok" BY <1>1, <1>3 DEF SysRecv
  <2>2. PICK q : q = router.eps[ep].queue OBVIOUS
  <2>3. /\ router' = Recv(router, ep) /\ caps' = caps
        /\ gone' = gone \cup ({Head(router.eps[ep].queue).cap} \ {NoCap})
    BY <1>1, <1>3 DEF SysRecv, Received
  <2>4. /\ ep \in DOMAIN Owners /\ router.eps[ep].queue \in Seq(Message)
        /\ router.eps[ep].queue # <<>>
        /\ NewQueue(router, router', ep, Tail(router.eps[ep].queue))
    BY <1>0, <2>1, <2>3, RecvQueues
  <2>5. Conserved(router', caps, gone \cup ({Head(router.eps[ep].queue).cap} \ {NoCap}))
    BY <1>0, <2>4, ConservedDrop
  <2>6. QED BY <2>3, <2>5 DEF CapInv
<1>4. QED BY <1>2, <1>3

\* The capabilities that a close destroys, as CapsIn and HeldBy have them.
LEMMA DestroyedCaps ==
    /\ \A I : QueuedCaps(I) = CapsInAll(router, I)
    /\ \A p : TableCaps(p) = HeldBy(caps[p])
<1>1. ASSUME NEW I PROVE QueuedCaps(I) = UNION {CapsIn(router.eps[j].queue) : j \in I}
  <2>1. ASSUME NEW c \in QueuedCaps(I)
        PROVE  c \in UNION {CapsIn(router.eps[j].queue) : j \in I}
    <3>1. PICK m \in UNION {ToSet(router.eps[i].queue) : i \in I} : c = m.cap /\ c # NoCap
      BY <2>1 DEF QueuedCaps
    <3>2. PICK i \in I : m \in ToSet(router.eps[i].queue) BY <3>1
    <3>3. c \in CapsIn(router.eps[i].queue) BY <3>1, <3>2 DEF ToSet, CapsIn
    <3>4. QED BY <3>3
  <2>2. ASSUME NEW c \in UNION {CapsIn(router.eps[j].queue) : j \in I}
        PROVE  c \in QueuedCaps(I)
    <3>1. PICK i \in I : c \in CapsIn(router.eps[i].queue) BY <2>2
    <3>2. PICK n \in DOMAIN router.eps[i].queue :
            c = router.eps[i].queue[n].cap /\ c # NoCap
      BY <3>1 DEF CapsIn
    <3>3. router.eps[i].queue[n] \in ToSet(router.eps[i].queue) BY DEF ToSet
    <3>4. QED BY <3>2, <3>3 DEF QueuedCaps
  <2>3. QED BY <2>1, <2>2
<1>2. QED BY <1>1 DEF TableCaps, HeldBy, CapsInAll

\* cap_close and ipc_endpoint_close.
LEMMA CapClose ==
    ASSUME IpcInv, CapInv, NEW p \in Exits, NEW s \in Slot,
           SysCapClose(p, s) \/ EndpointClose(p, s)
    PROVE  CapInv'
<1>0. /\ Good(router, blocked) /\ Typed /\ router \in RouterState
      /\ DOMAIN router.eps = DOMAIN Owners
      /\ caps \in [Pid -> Table] /\ Conserved(router, caps, gone)
  BY DEF IpcInv, Good, Sound, Parking, Typed, CapInv
<1>1. p \in Pid BY IpcAssumption
<1>2. caps[p] \in Table /\ UniqueHeld(caps[p]) BY <1>0, <1>1 DEF Conserved
<1>3. PICK c : c = caps[p][s] OBVIOUS
<1>4. c # NoCap /\ c \in Cap
  BY <1>0, <1>1, <1>3, DestroyedTyped DEF SysCapClose, EndpointClose
<1>5. caps' = [caps EXCEPT ![p] = Take(caps[p], s)] BY DEF SysCapClose, EndpointClose
<1>6. caps'[p] = Take(caps[p], s) /\ \A x \in Pid : x # p => caps'[x] = caps[x]
  BY <1>0, <1>1, <1>5
<1>7. HeldBy(Take(caps[p], s)) = HeldBy(caps[p]) \ {caps[p][s]}
      /\ UniqueHeld(Take(caps[p], s))
  BY <1>2, HeldByOps
<1>8. UniqueHeld(caps'[p]) /\ HeldBy(caps'[p]) = HeldBy(caps[p]) \ {c}
  BY <1>3, <1>6, <1>7
<1>9. {c} \in SUBSET HeldBy(caps[p]) BY <1>3, <1>4 DEF HeldBy
<1>10. ASSUME NEW I \in SUBSET DOMAIN Owners, \A j \in I : router'.eps[j].queue = <<>>,
              \A j \in DOMAIN Owners : j \notin I => router'.eps[j].queue = router.eps[j].queue,
              gone' = gone \cup {c} \cup QueuedCaps(I)
       PROVE  CapInv'
  <2>1. Conserved(router', caps', gone \cup ({c} \cup CapsInAll(router, I)))
    <3>1. PICK R : R = router' OBVIOUS
    <3>2. PICK T : T = caps' OBVIOUS
    <3>3. Empties(router, R, I) BY <1>10, <3>1 DEF Empties
    <3>4. Drops(caps, T, p, {c}) BY <1>6, <1>8, <1>9, <3>2 DEF Drops
    <3>5. Conserved(R, T, gone \cup ({c} \cup CapsInAll(router, I)))
      BY <1>0, <1>1, <3>3, <3>4, ConservedClose
    <3>6. QED BY <3>1, <3>2, <3>5
  <2>2. gone' = gone \cup ({c} \cup CapsInAll(router, I))
    <3>1. QueuedCaps(I) = CapsInAll(router, I) BY DestroyedCaps
    <3>2. QED BY <1>10, <3>1
  <2>3. QED BY <2>1, <2>2 DEF CapInv
<1>11. CASE router' = router /\ gone' = gone \cup {c}
  <2>1. QueuedCaps({}) = {} BY DEF QueuedCaps
  <2>2. gone' = gone \cup {c} \cup QueuedCaps({}) BY <1>11, <2>1
  <2>3. PICK I : I = {} OBVIOUS
  <2>4. I \in SUBSET DOMAIN Owners BY <2>3
  <2>5. QED BY <1>10, <1>11, <2>2, <2>3, <2>4
<1>12. CASE /\ c.kind = "Endpoint" /\ router' = CloseEndpoint(router, c.ep)
            /\ gone' = gone \cup {c} \cup QueuedCaps({c.ep})
  <2>1. PICK ep : ep = c.ep OBVIOUS
  <2>2. ep \in DOMAIN Owners BY <1>4, <1>12, <2>1, IpcAssumption
  <2>3. /\ router'.eps[ep].queue = <<>>
        /\ \A j \in DOMAIN Owners : j # ep => router'.eps[j].queue = router.eps[j].queue
    <3>1. CASE EndpointAlive(router, ep)
      <4>1. router'.eps = [router.eps EXCEPT ![ep] = Closed(router.eps[ep])]
        BY <1>12, <2>1, <3>1 DEF CloseEndpoint, RecomputeAccounting
      <4>2. router.eps[ep] \in Endpoint BY <1>0, <2>2, RouterFields
      <4>3. Closed(router.eps[ep]).queue = <<>> BY <4>2, ClosedFields
      <4>4. router'.eps[ep] = Closed(router.eps[ep]) BY <1>0, <2>2, <4>1
      <4>5. \A j \in DOMAIN Owners : j # ep => router'.eps[j] = router.eps[j]
        BY <1>0, <4>1
      <4>6. QED BY <4>3, <4>4, <4>5
    <3>2. CASE ~EndpointAlive(router, ep)
      <4>1. router' = router BY <1>12, <2>1, <3>2 DEF CloseEndpoint
      <4>2. router.eps[ep].queue = <<>> BY <1>0, <2>2, <3>2, GoodQueues DEF EndpointAlive
      <4>3. QED BY <4>1, <4>2
    <3>3. QED BY <3>1, <3>2
  <2>4. PICK I : I = {ep} OBVIOUS
  <2>5. I \in SUBSET DOMAIN Owners BY <2>2, <2>4
  <2>6. gone' = gone \cup {c} \cup QueuedCaps(I) BY <1>12, <2>1, <2>4
  <2>7. QED BY <1>10, <2>3, <2>4, <2>5, <2>6
<1>13. QED BY <1>3, <1>11, <1>12 DEF SysCapClose, EndpointClose

\* exit.
LEMMA CapExit ==
    ASSUME IpcInv, CapInv, NEW p \in Exits, SysExit(p)
    PROVE  CapInv'
<1>0. /\ Good(router, blocked) /\ Typed /\ router \in RouterState
      /\ DOMAIN router.eps = DOMAIN Owners
      /\ caps \in [Pid -> Table] /\ Conserved(router, caps, gone)
  BY DEF IpcInv, Good, Sound, Parking, Typed, CapInv
<1>1. p \in Pid BY IpcAssumption
<1>2. caps[p] \in Table /\ UniqueHeld(caps[p]) BY <1>0, <1>1 DEF Conserved
<1>3. PICK I : I = AliveOwnedBy(router, p) OBVIOUS
<1>4. I \in SUBSET DOMAIN Owners BY <1>0, <1>3 DEF AliveOwnedBy
<1>5. PICK r : r = CloseEndpointsForOwner(router, p) OBVIOUS
<1>6. r.eps = [i \in DOMAIN router.eps |-> IF i \in I THEN Closed(router.eps[i])
                                                       ELSE router.eps[i]]
  BY <1>3, <1>5 DEF CloseEndpointsForOwner, RecomputeAccounting
<1>7. r \in RouterState BY <1>0, <1>1, <1>5, CreateCloseType
<1>8. router' = RemoveWaiterFromAll(r, p) BY <1>5 DEF SysExit
<1>9. SameQueues(r, router')
  <2>1. DOMAIN r.eps = DOMAIN Owners BY <1>0, <1>6
  <2>2. QED BY <1>1, <1>7, <1>8, <2>1, OnlyWaitersAll, WaitersSameQueues
<1>10. ASSUME NEW j \in I PROVE router'.eps[j].queue = <<>>
  <2>1. router.eps[j] \in Endpoint BY <1>0, <1>4, RouterFields
  <2>2. r.eps[j].queue = <<>> BY <1>0, <1>4, <1>6, <2>1, ClosedFields
  <2>3. QED BY <1>4, <1>9, <2>2 DEF SameQueues
<1>11. \A j \in DOMAIN Owners : j \notin I => router'.eps[j].queue = router.eps[j].queue
  BY <1>0, <1>6, <1>9 DEF SameQueues
<1>12. caps' = [caps EXCEPT ![p] = [s \in Slot |-> NoCap]] BY DEF SysExit
<1>13. caps'[p] = [s \in Slot |-> NoCap] /\ \A x \in Pid : x # p => caps'[x] = caps[x]
  BY <1>0, <1>1, <1>12
<1>14. HeldBy([s \in Slot |-> NoCap]) = {} /\ UniqueHeld([s \in Slot |-> NoCap])
  BY <1>2, HeldByOps
<1>15. PICK E : E = HeldBy(caps[p]) OBVIOUS
<1>16. UniqueHeld(caps'[p]) /\ HeldBy(caps'[p]) = HeldBy(caps[p]) \ E
  BY <1>13, <1>14, <1>15
<1>17. E \in SUBSET HeldBy(caps[p]) BY <1>15
<1>18. Conserved(router', caps', gone \cup (E \cup CapsInAll(router, I)))
  <2>1. PICK R : R = router' OBVIOUS
  <2>2. PICK T : T = caps' OBVIOUS
  <2>3. Empties(router, R, I) BY <1>4, <1>10, <1>11, <2>1 DEF Empties
  <2>4. Drops(caps, T, p, E) BY <1>13, <1>16, <1>17, <2>2 DEF Drops
  <2>5. Conserved(R, T, gone \cup (E \cup CapsInAll(router, I)))
    BY <1>0, <1>1, <2>3, <2>4, ConservedClose
  <2>6. QED BY <2>1, <2>2, <2>5
<1>19. gone' = gone \cup (E \cup CapsInAll(router, I))
  <2>1. QueuedCaps(I) = CapsInAll(router, I) BY DestroyedCaps
  <2>2. TableCaps(p) = E BY <1>15, DestroyedCaps
  <2>3. gone' = gone \cup TableCaps(p) \cup QueuedCaps(I) BY <1>3 DEF SysExit
  <2>4. QED BY <2>1, <2>2, <2>3
<1>20. QED BY <1>18, <1>19 DEF CapInv

\* The timer interrupt, and time.
LEMMA CapTimer ==
    ASSUME IpcInv, CapInv, TimerTick \/ TimePasses
    PROVE  CapInv'
<1>0. /\ Good(router, blocked) /\ DOMAIN router.eps = DOMAIN Owners
      /\ Conserved(router, caps, gone)
  BY DEF IpcInv, Good, Parking, CapInv
<1>1. CASE TimerTick
  <2>1. PICK S : S = ExpiredIpc(blocked) OBVIOUS
  <2>2. S \subseteq {p \in Pid : blocked[p] # None} BY <2>1 DEF ExpiredIpc, Expired
  <2>3. router' = Deregister(router, blocked, S) BY <1>1, <2>1 DEF TimerTick
  <2>4. SameQueues(router, router') BY <1>0, <2>2, <2>3, GoodDeregister, WaitersSameQueues
  <2>5. caps' = caps /\ gone' = gone BY <1>1 DEF TimerTick
  <2>6. QED BY <1>0, <2>4, <2>5, ConservedSame DEF CapInv
<1>2. CASE TimePasses BY <1>0, <1>2 DEF TimePasses, CapInv
<1>3. QED BY <1>1, <1>2

\* Every step keeps every capability in one place.
LEMMA CapInductive == IpcInv /\ CapInv /\ [Next]_vars => CapInv'
<1> SUFFICES ASSUME IpcInv, CapInv, [Next]_vars PROVE CapInv' OBVIOUS
<1>1. ASSUME NEW p \in Pid, Step(p) PROVE CapInv'
  BY <1>1, CapSend, CapRecv DEF Step
<1>2. CASE UNCHANGED vars BY <1>2 DEF vars, CapInv
<1>3. QED BY <1>1, <1>2, CapLegacy, CapClose, CapExit, CapTimer DEF Next

\* The capability tables of the start hold no capability twice.
DistinctInitCaps ==
    \A p, q \in Pid, s, u \in Slot :
        InitCaps[p][s] = InitCaps[q][u] /\ InitCaps[p][s] # NoCap => p = q /\ s = u

LEMMA CapInit ==
    ASSUME DistinctInitCaps PROVE Init => CapInv
<1> SUFFICES ASSUME Init PROVE CapInv OBVIOUS
<1>1. \A i \in DOMAIN Owners : router.eps[i].queue = <<>> BY DEF Init, WithDepth
<1>2. caps = InitCaps /\ gone = {} BY DEF Init
<1>3. CapsIn(<<>>) = {} /\ UniqueIn(<<>>) BY DEF CapsIn, UniqueIn
<1>4. \A i \in DOMAIN Owners : QueueCaps(router)[i] = {} BY <1>1, <1>3 DEF QueueCaps
<1>5. \A p \in Pid : HeldCaps(caps)[p] = HeldBy(InitCaps[p]) BY <1>2 DEF HeldCaps
<1>6. \A p \in Pid : UniqueHeld(caps[p]) BY <1>2 DEF DistinctInitCaps, UniqueHeld
<1>7. \A p, q \in Pid : q # p => \A c \in HeldBy(InitCaps[p]) : c \notin HeldBy(InitCaps[q])
  BY DEF DistinctInitCaps, HeldBy
<1>8. \A c \in InitialCaps : \E p \in Pid : c \in HeldBy(InitCaps[p])
  BY DEF InitialCaps, HeldBy
<1>9. Apart(QueueCaps(router), HeldCaps(caps), gone)
  BY <1>2, <1>4, <1>5, <1>7, <1>8 DEF Apart
<1>10. QED BY <1>1, <1>3, <1>6, <1>9 DEF CapInv, Conserved

\* The slots and the places of an initial capability are one in all.
LEMMA OnePlace ==
    ASSUME IpcInv, CapInv PROVE CapConserved
<1>0. /\ Conserved(router, caps, gone) /\ DOMAIN router.eps = DOMAIN Owners
      /\ \A i \in DOMAIN Owners : router.eps[i].queue \in Seq(Message)
  BY RouterFields, EndpointFields DEF IpcInv, CapInv, Good, Sound, Parking
<1> SUFFICES ASSUME NEW c \in InitialCaps
             PROVE  Cardinality(SlotsOf(c)) + Cardinality(PlacesOf(c))
                      = IF c \in gone THEN 0 ELSE 1
  BY DEF CapConserved, InitialCaps
<1>1. c # NoCap BY DEF InitialCaps
<1>2. \A i \in DOMAIN Owners : QueueCaps(router)[i] = CapsIn(router.eps[i].queue)
  BY DEF QueueCaps
<1>3. \A p \in Pid : HeldCaps(caps)[p] = HeldBy(caps[p]) BY DEF HeldCaps
<1>4. \A x \in SlotsOf(c) : \E p \in Pid, s \in Slot : x = <<p, s>> /\ caps[p][s] = c
  BY DEF SlotsOf
<1>5. \A p \in Pid, s \in Slot : caps[p][s] = c => <<p, s>> \in SlotsOf(c) BY DEF SlotsOf
<1>6. \A x \in PlacesOf(c) : \E i \in DOMAIN Owners : \E n \in DOMAIN router.eps[i].queue :
        x = <<i, n>> /\ router.eps[i].queue[n].cap = c
  BY <1>0 DEF PlacesOf
<1>7. \A i \in DOMAIN Owners : \A n \in DOMAIN router.eps[i].queue :
        router.eps[i].queue[n].cap = c => <<i, n>> \in PlacesOf(c)
  BY <1>0 DEF PlacesOf
<1>8. (\A p \in Pid : c \notin HeldBy(caps[p])) => SlotsOf(c) = {}
  BY <1>1, <1>4 DEF HeldBy
<1>9. (\A i \in DOMAIN Owners : c \notin CapsIn(router.eps[i].queue)) => PlacesOf(c) = {}
  BY <1>1, <1>6 DEF CapsIn
<1>10. Cardinality({}) = 0 BY FS_EmptySet
<1>11. CASE c \in gone
  <2>1. \A p \in Pid : c \notin HeldBy(caps[p])
    BY <1>0, <1>3, <1>11 DEF Conserved, Apart
  <2>2. \A i \in DOMAIN Owners : c \notin CapsIn(router.eps[i].queue)
    BY <1>0, <1>2, <1>11 DEF Conserved, Apart
  <2>3. SlotsOf(c) = {} /\ PlacesOf(c) = {} BY <1>8, <1>9, <2>1, <2>2
  <2>4. Cardinality(SlotsOf(c)) = 0 /\ Cardinality(PlacesOf(c)) = 0 BY <1>10, <2>3
  <2>5. QED BY <1>11, <2>4
<1>12. ASSUME NEW p \in Pid, c \in HeldBy(caps[p])
       PROVE  Cardinality(SlotsOf(c)) = 1 /\ PlacesOf(c) = {} /\ c \notin gone
  <2>1. PICK s \in Slot : caps[p][s] = c BY <1>12 DEF HeldBy
  <2>2. \A q \in Pid : q # p => c \notin HeldBy(caps[q])
    BY <1>0, <1>3, <1>12 DEF Conserved, Apart
  <2>3. \A q \in Pid, u \in Slot : caps[q][u] = c => q = p /\ u = s
    <3> SUFFICES ASSUME NEW q \in Pid, NEW u \in Slot, caps[q][u] = c PROVE q = p /\ u = s
      OBVIOUS
    <3>1. c \in HeldBy(caps[q]) BY <1>1 DEF HeldBy
    <3>2. q = p BY <2>2, <3>1
    <3>3. UniqueHeld(caps[p]) BY <1>0 DEF Conserved
    <3>4. u = s BY <1>1, <2>1, <3>2, <3>3 DEF UniqueHeld
    <3>5. QED BY <3>2, <3>4
  <2>4. SlotsOf(c) = {<<p, s>>} BY <1>4, <1>5, <2>1, <2>3
  <2>5. \A i \in DOMAIN Owners : c \notin CapsIn(router.eps[i].queue)
    BY <1>0, <1>2, <1>3, <1>12 DEF Conserved, Apart
  <2>6. c \notin gone BY <1>0, <1>3, <1>12 DEF Conserved, Apart
  <2>7. QED BY <1>9, <2>4, <2>5, <2>6, FS_Singleton
<1>13. ASSUME NEW i \in DOMAIN Owners, c \in CapsIn(router.eps[i].queue)
       PROVE  SlotsOf(c) = {} /\ Cardinality(PlacesOf(c)) = 1 /\ c \notin gone
  <2>1. PICK n \in DOMAIN router.eps[i].queue : router.eps[i].queue[n].cap = c
    BY <1>13 DEF CapsIn
  <2>2. \A j \in DOMAIN Owners : j # i => c \notin CapsIn(router.eps[j].queue)
    BY <1>0, <1>2, <1>13 DEF Conserved, Apart
  <2>3. ASSUME NEW j \in DOMAIN Owners, NEW k \in DOMAIN router.eps[j].queue,
               router.eps[j].queue[k].cap = c
        PROVE  j = i /\ k = n
    <3>1. c \in CapsIn(router.eps[j].queue) BY <1>1, <2>3 DEF CapsIn
    <3>2. j = i BY <2>2, <3>1
    <3>3. UniqueIn(router.eps[i].queue) BY <1>0 DEF Conserved
    <3>4. k = n BY <1>1, <2>1, <2>3, <3>2, <3>3 DEF UniqueIn
    <3>5. QED BY <3>2, <3>4
  <2>4. PlacesOf(c) = {<<i, n>>}
    <3>1. <<i, n>> \in PlacesOf(c) BY <1>7, <2>1
    <3>2. \A x \in PlacesOf(c) : x = <<i, n>> BY <1>6, <2>3
    <3>3. QED BY <3>1, <3>2
  <2>5. \A p \in Pid : c \notin HeldBy(caps[p])
    BY <1>0, <1>2, <1>3, <1>13 DEF Conserved, Apart
  <2>6. c \notin gone BY <1>0, <1>2, <1>13 DEF Conserved, Apart
  <2>7. QED BY <1>8, <2>4, <2>5, <2>6, FS_Singleton
<1>14. CASE c \notin gone
  <2>1. \/ \E i \in DOMAIN Owners : c \in CapsIn(router.eps[i].queue)
        \/ \E p \in Pid : c \in HeldBy(caps[p])
    BY <1>0, <1>2, <1>3, <1>14 DEF Conserved, Apart
  <2>2. \/ Cardinality(SlotsOf(c)) = 0 /\ Cardinality(PlacesOf(c)) = 1
        \/ Cardinality(SlotsOf(c)) = 1 /\ Cardinality(PlacesOf(c)) = 0
    BY <1>10, <1>12, <1>13, <2>1
  <2>3. QED BY <1>14, <2>2
<1>15. QED BY <1>11, <1>14

\* CAP_MOVE loses and duplicates no capability: whatever the tasks send,
\* receive, close and exit from, each capability of the start that was not
\* explicitly destroyed is in one slot or in one queued message.  A receiver
\* without a free slot puts the message back (ipc_recv_v1 ignores the error of
\* requeue_front: RequeueFits shows that there is none).
THEOREM IpcCapConserved == DistinctInitCaps /\ Spec => []CapConserved
<1>1. DistinctInitCaps /\ Spec => []CapInv
  <2>1. DistinctInitCaps /\ Init => CapInv BY CapInit
  <2>2. IpcInv /\ CapInv /\ [Next]_vars => CapInv' BY CapInductive
  <2>3. QED BY <2>1, <2>2, AlwaysIpcInv, PTL DEF Spec
<1>2. IpcInv /\ CapInv => CapConserved BY OnePlace
<1>3. QED BY <1>1, <1>2, AlwaysIpcInv, PTL

-----------------------------------------------------------------------------
(* Wake-ups: nobody sleeps next to what he waits for *)

\* The woken tasks that are about to retry a call on endpoint i.
Retriers(op, i) == {p \in Pid : Retries(p, op, i)}

\* While receivers are parked, each message has a woken receiver on its way;
\* while senders are parked, so has each free place a woken sender.
BalancedAt(i) ==
    /\ router.eps[i].recv_waiters # <<>>
         => Len(router.eps[i].queue) <= Cardinality(Retriers("recv", i))
    /\ router.eps[i].send_waiters # <<>>
         => router.eps[i].depth
              <= Len(router.eps[i].queue) + Cardinality(Retriers("send", i))

\* A capability that a send may move, as far as the router has no say.
Movable(cap) ==
    cap # NoCap /\ "MANAGE" \notin cap.rights /\ cap.kind # "EndpointFactory"

\* What is known of a task with the call cl, the block reason b and the
\* capability table t: a parked task waits for what its call names, and a call
\* that was descheduled had passed the checks that do not depend on the router.
CallOK(cl, b, t) ==
    /\ b # None => cl # None /\ b.on = cl.op /\ b.eps = {t[cl.slot].ep}
    /\ cl # None =>
         /\ cl.op = "send" => /\ DerivesEndpoint(t, cl.slot, "SEND") /\ cl.len <= MAX_FRAME_BYTES
                              /\ cl.move # None => Movable(t[cl.move])
         /\ cl.op = "recv" => DerivesEndpoint(t, cl.slot, "RECV")

Calling ==
    \A p \in Pid : /\ CallOK(call[p], blocked[p], caps[p])
                   /\ call[p] # None => p \notin exited

WakeInv == Calling /\ \A i \in DOMAIN Owners : BalancedAt(i)

\* The tasks other than those of P keep their calls and tables, and are at
\* most woken.
Frame(P) ==
    \A q \in Pid \ P : /\ call'[q] = call[q] /\ caps'[q] = caps[q]
                       /\ q \in exited' => q \in exited
                       /\ blocked'[q] \in {None, blocked[q]}

\* A task that was to retry still is, and a parked one that was woken is now.
LEMMA RetriesKept ==
    ASSUME Calling, NEW P, Frame(P), NEW q \in Pid \ P, NEW op, NEW i
    PROVE  /\ Retries(q, op, i) => Retries(q, op, i)'
           /\ On(blocked, q, op, i) /\ blocked'[q] = None => Retries(q, op, i)'
<1>1. /\ call'[q] = call[q] /\ caps'[q] = caps[q]
      /\ q \in exited' => q \in exited
      /\ blocked'[q] \in {None, blocked[q]}
  BY DEF Frame
<1>2. CallOK(call[q], blocked[q], caps[q]) /\ (call[q] # None => q \notin exited)
  BY DEF Calling
<1>3. ASSUME Retries(q, op, i) PROVE Retries(q, op, i)'
  BY <1>1, <1>3 DEF Retries, Runs
<1>4. ASSUME On(blocked, q, op, i), blocked'[q] = None PROVE Retries(q, op, i)'
  <2>1. call[q] # None /\ call[q].op = op /\ caps[q][call[q].slot].ep = i
    BY <1>2, <1>4 DEF On, CallOK
  <2>2. q \notin exited' BY <1>1, <1>2, <2>1
  <2>3. QED BY <1>1, <1>4, <2>1, <2>2 DEF Retries, Runs
<1>5. QED BY <1>3, <1>4

\* Without the actor p there are as many tasks that retry as before, and one
\* more when a task that was parked is woken.
LEMMA RetriersCount ==
    ASSUME Calling, NEW P, Frame(P), NEW op, NEW i, NEW n \in Nat, NEW k \in Nat,
           n = Cardinality(Retriers(op, i)), k = Cardinality(Retriers(op, i)')
    PROVE  /\ (\A p \in P : ~Retries(p, op, i)) =>
                /\ n <= k
                /\ \A w \in Pid \ P : On(blocked, w, op, i) /\ blocked'[w] = None => n + 1 <= k
           /\ \A p : P = {p} => n <= k + 1
<1>1. IsFiniteSet(Retriers(op, i)) /\ IsFiniteSet(Retriers(op, i)')
  <2>1. Retriers(op, i) \subseteq Pid /\ Retriers(op, i)' \subseteq Pid BY DEF Retriers
  <2>2. QED BY <2>1, IpcAssumption, FS_Subset
<1>2. PICK A : A = Retriers(op, i) OBVIOUS
<1>3. PICK B : B = Retriers(op, i)' OBVIOUS
<1>4. IsFiniteSet(A) /\ IsFiniteSet(B) /\ n = Cardinality(A) /\ k = Cardinality(B)
  BY <1>1, <1>2, <1>3
<1>5. A \subseteq Pid /\ \A q \in Pid : (q \in A <=> Retries(q, op, i))
  BY <1>2 DEF Retriers
<1>6. \A q \in Pid : Retries(q, op, i)' => q \in B BY <1>3 DEF Retriers
<1>7. A \ P \subseteq B BY <1>5, <1>6, RetriesKept
<1>8. ASSUME \A p \in P : ~Retries(p, op, i) PROVE n <= k
  <2>1. A \subseteq B BY <1>5, <1>7, <1>8
  <2>2. QED BY <1>4, <2>1, FS_Subset
<1>9. ASSUME \A p \in P : ~Retries(p, op, i), NEW w \in Pid \ P, On(blocked, w, op, i),
             blocked'[w] = None
      PROVE  n + 1 <= k
  <2>1. A \subseteq B BY <1>5, <1>7, <1>9
  <2>2. w \in B BY <1>6, <1>9, RetriesKept
  <2>3. w \notin A BY <1>5, <1>9 DEF Retries, Runs, On
  <2>4. A \cup {w} \subseteq B BY <2>1, <2>2
  <2>5. Cardinality(A \cup {w}) = n + 1 BY <1>4, <2>3, FS_AddElement
  <2>6. Cardinality(A \cup {w}) <= k BY <1>4, <2>4, FS_Subset
  <2>7. QED BY <2>5, <2>6
<1>10. ASSUME NEW p, P = {p} PROVE n <= k + 1
  <2>1. Cardinality(A \ {p}) \in Nat /\ n <= Cardinality(A \ {p}) + 1
    <3>1. IsFiniteSet(A \ {p}) BY <1>4, FS_Subset
    <3>2. Cardinality(A \ {p}) \in Nat BY <3>1, FS_CardinalityType
    <3>3. Cardinality(A \ {p}) = IF p \in A THEN Cardinality(A) - 1 ELSE Cardinality(A)
      BY <1>4, FS_RemoveElement
    <3>4. QED BY <1>4, <3>2, <3>3
  <2>2. A \ {p} \subseteq B BY <1>7, <1>10
  <2>3. Cardinality(A \ {p}) <= k BY <1>4, <2>2, FS_Subset
  <2>4. QED BY <2>1, <2>3
<1>11. QED BY <1>8, <1>9, <1>10

\* The number of tasks that retry is a natural number.
LEMMA RetriersNat ==
    ASSUME NEW op, NEW i
    PROVE  Cardinality(Retriers(op, i)) \in Nat /\ Cardinality(Retriers(op, i)') \in Nat
<1>1. Retriers(op, i) \subseteq Pid /\ Retriers(op, i)' \subseteq Pid BY DEF Retriers
<1>2. IsFiniteSet(Retriers(op, i)) /\ IsFiniteSet(Retriers(op, i)')
  BY <1>1, IpcAssumption, FS_Subset
<1>3. QED BY <1>2, FS_CardinalityType

\* A queue of waiters is not empty when a task is parked in it.
LEMMA WaitersBefore ==
    ASSUME IpcInv, IpcInv', NEW P, Frame(P), NEW i \in DOMAIN Owners
    PROVE  /\ /\ router'.eps[i].recv_waiters # <<>>
              /\ \A p \in P \cap Pid : ~On(blocked', p, "recv", i)
              => router.eps[i].recv_waiters # <<>>
           /\ /\ router'.eps[i].send_waiters # <<>>
              /\ \A p \in P \cap Pid : ~On(blocked', p, "send", i)
              => router.eps[i].send_waiters # <<>>
<1>1. /\ Good(router, blocked) /\ Good(router', blocked')
      /\ i \in DOMAIN router.eps /\ i \in DOMAIN router'.eps
      /\ Registered(router, blocked) /\ Registered(router', blocked')
  BY DEF IpcInv, Good, Parking
<1>2. /\ router.eps[i].recv_waiters \in Seq(Pid) /\ router.eps[i].send_waiters \in Seq(Pid)
      /\ router'.eps[i].recv_waiters \in Seq(Pid) /\ router'.eps[i].send_waiters \in Seq(Pid)
  BY <1>1, GoodQueues
<1>3. ASSUME NEW ws \in Seq(Pid), ws # <<>> PROVE \E q \in Pid : q \in Elements(ws)
  <2>1. 1 \in DOMAIN ws /\ ws[1] \in Pid BY <1>3
  <2>2. QED BY <2>1 DEF Elements
<1>4. Elements(<<>>) = {} BY DEF Elements
<1>5. ASSUME NEW q \in Pid, NEW on, q \notin P, On(blocked', q, on, i)
      PROVE  On(blocked, q, on, i)
  <2>1. blocked'[q] \in {None, blocked[q]} BY <1>5 DEF Frame
  <2>2. QED BY <1>5, <2>1 DEF On
<1>6. \A q \in Pid : /\ q \in Elements(router.eps[i].recv_waiters) <=> On(blocked, q, "recv", i)
                     /\ q \in Elements(router.eps[i].send_waiters) <=> On(blocked, q, "send", i)
                     /\ q \in Elements(router'.eps[i].recv_waiters) <=> On(blocked', q, "recv", i)
                     /\ q \in Elements(router'.eps[i].send_waiters) <=> On(blocked', q, "send", i)
  BY <1>1 DEF Registered
<1>7. ASSUME router'.eps[i].recv_waiters # <<>>,
             \A p \in P \cap Pid : ~On(blocked', p, "recv", i)
      PROVE  router.eps[i].recv_waiters # <<>>
  <2>1. PICK q \in Pid : q \in Elements(router'.eps[i].recv_waiters) BY <1>2, <1>3, <1>7
  <2>2. On(blocked', q, "recv", i) BY <1>6, <2>1
  <2>3. On(blocked, q, "recv", i) BY <1>5, <1>7, <2>2
  <2>4. QED BY <1>4, <1>6, <2>3
<1>8. ASSUME router'.eps[i].send_waiters # <<>>,
             \A p \in P \cap Pid : ~On(blocked', p, "send", i)
      PROVE  router.eps[i].send_waiters # <<>>
  <2>1. PICK q \in Pid : q \in Elements(router'.eps[i].send_waiters) BY <1>2, <1>3, <1>8
  <2>2. On(blocked', q, "send", i) BY <1>6, <2>1
  <2>3. On(blocked, q, "send", i) BY <1>5, <1>8, <2>2
  <2>4. QED BY <1>4, <1>6, <2>3
<1>9. QED BY <1>7, <1>8

\* An endpoint on which the actors P do not wait, and whose queue is as it was
\* or has been emptied with its waiters gone, stays balanced.
LEMMA RecvSideKept ==
    ASSUME IpcInv, IpcInv', Calling, NEW P, Frame(P), NEW i \in DOMAIN Owners, BalancedAt(i),
           \A p \in P : ~Retries(p, "recv", i),
           \A p \in P \cap Pid : ~On(blocked', p, "recv", i),
           router'.eps[i].queue = router.eps[i].queue
    PROVE  router'.eps[i].recv_waiters # <<>>
             => Len(router'.eps[i].queue) <= Cardinality(Retriers("recv", i)')
<1> SUFFICES ASSUME router'.eps[i].recv_waiters # <<>>
             PROVE  Len(router'.eps[i].queue) <= Cardinality(Retriers("recv", i)')
  OBVIOUS
<1>1. router.eps[i].recv_waiters # <<>> BY WaitersBefore
<1>2. PICK n \in Nat : n = Cardinality(Retriers("recv", i)) BY RetriersNat
<1>3. PICK k \in Nat : k = Cardinality(Retriers("recv", i)') BY RetriersNat
<1>4. n <= k BY <1>2, <1>3, RetriersCount
<1>5. Len(router.eps[i].queue) <= n BY <1>1, <1>2 DEF BalancedAt
<1>6. Len(router.eps[i].queue) \in Nat
  BY RouterFields, EndpointFields DEF IpcInv, Good, Sound, Parking
<1>7. QED BY <1>3, <1>4, <1>5, <1>6

LEMMA SendSideKept ==
    ASSUME IpcInv, IpcInv', Calling, NEW P, Frame(P), NEW i \in DOMAIN Owners, BalancedAt(i),
           \A p \in P : ~Retries(p, "send", i),
           \A p \in P \cap Pid : ~On(blocked', p, "send", i),
           router'.eps[i].queue = router.eps[i].queue,
           router'.eps[i].depth = router.eps[i].depth
    PROVE  router'.eps[i].send_waiters # <<>>
             => router'.eps[i].depth
                  <= Len(router'.eps[i].queue) + Cardinality(Retriers("send", i)')
<1> SUFFICES ASSUME router'.eps[i].send_waiters # <<>>
             PROVE  router'.eps[i].depth
                      <= Len(router'.eps[i].queue) + Cardinality(Retriers("send", i)')
  OBVIOUS
<1>1. router.eps[i].send_waiters # <<>> BY WaitersBefore
<1>2. PICK n \in Nat : n = Cardinality(Retriers("send", i)) BY RetriersNat
<1>3. PICK k \in Nat : k = Cardinality(Retriers("send", i)') BY RetriersNat
<1>4. n <= k BY <1>2, <1>3, RetriersCount
<1>5. router.eps[i].depth <= Len(router.eps[i].queue) + n BY <1>1, <1>2 DEF BalancedAt
<1>6. Len(router.eps[i].queue) \in Nat /\ router.eps[i].depth \in Nat
  BY RouterFields, EndpointFields DEF IpcInv, Good, Sound, Parking
<1>7. QED BY <1>3, <1>4, <1>5, <1>6

\* The tasks P neither were to retry a call on endpoint i nor are parked on it.
Uninvolved(P, i) ==
    /\ \A p \in P : ~Retries(p, "recv", i) /\ ~Retries(p, "send", i)
    /\ \A p \in P \cap Pid : ~On(blocked', p, "recv", i) /\ ~On(blocked', p, "send", i)

LEMMA ElsewhereKept ==
    ASSUME IpcInv, IpcInv', Calling, NEW P, Frame(P), NEW i \in DOMAIN Owners, BalancedAt(i),
           Uninvolved(P, i),
           router'.eps[i].queue = router.eps[i].queue,
           router'.eps[i].depth = router.eps[i].depth
    PROVE  BalancedAt(i)'
<1>1. /\ \A p \in P : ~Retries(p, "recv", i)
      /\ \A p \in P : ~Retries(p, "send", i)
      /\ \A p \in P \cap Pid : ~On(blocked', p, "recv", i)
      /\ \A p \in P \cap Pid : ~On(blocked', p, "send", i)
  BY DEF Uninvolved
<1>2. router'.eps[i].recv_waiters # <<>>
        => Len(router'.eps[i].queue) <= Cardinality(Retriers("recv", i)')
  BY <1>1, RecvSideKept
<1>3. router'.eps[i].send_waiters # <<>>
        => router'.eps[i].depth
             <= Len(router'.eps[i].queue) + Cardinality(Retriers("send", i)')
  BY <1>1, SendSideKept
<1>4. QED BY <1>2, <1>3 DEF BalancedAt

\* A receive of p that finds a capability in the message and no slot for it.
Requeues(p, cl) ==
    /\ Runs(p) /\ cl.op = "recv" /\ IpcRecvErr(p, cl) = "Ok"
    /\ Received(router, caps[p][cl.slot].ep).cap # NoCap /\ FreeSlots(caps[p]) = {}

\* No receiver of a capability lacks a free slot for it, and no send that is
\* retried moves a capability of an endpoint that was closed meanwhile.
MovesGoThrough ==
    \A p \in Pid :
        /\ \A cl \in Making(p) : ~Requeues(p, cl)
        /\ call[p] # None /\ call[p].op = "send" => MoveErr(p, call[p]) # "NoSuchEndpoint"

\* No byte budget refuses a send.
BudgetsSuffice ==
    \A p \in Pid : \A cl \in Making(p) : cl.op = "send" => IpcSendErr(p, cl) # "NoSpace"

\* A task that retries is making that call.
LEMMA ActorRetries ==
    ASSUME NEW p, NEW cl \in Making(p), NEW op, NEW i, Retries(p, op, i)
    PROVE  cl = call[p] /\ cl.op = op /\ caps[p][cl.slot].ep = i
BY DEF Making, Retries

\* The actor's own call decides whether Calling is kept.
LEMMA CallingKept ==
    ASSUME Calling, NEW p \in Pid, Frame({p}), CallOK(call'[p], blocked'[p], caps'[p]),
           call'[p] # None => p \notin exited'
    PROVE  Calling'
<1> SUFFICES ASSUME NEW q \in Pid
             PROVE  CallOK(call'[q], blocked'[q], caps'[q]) /\ (call'[q] # None => q \notin exited')
  BY DEF Calling
<1>1. CASE q = p BY <1>1
<1>2. CASE q # p
  <2>1. /\ call'[q] = call[q] /\ caps'[q] = caps[q]
        /\ q \in exited' => q \in exited
        /\ blocked'[q] \in {None, blocked[q]}
    BY <1>2 DEF Frame
  <2>2. CallOK(call[q], blocked[q], caps[q]) /\ (call[q] # None => q \notin exited)
    BY DEF Calling
  <2>3. CallOK(call[q], None, caps[q]) BY <2>2 DEF CallOK
  <2>4. QED BY <2>1, <2>2, <2>3
<1>3. QED BY <1>1, <1>2

SameDepths(r, s) == \A j \in DOMAIN Owners : s.eps[j].depth = r.eps[j].depth

\* Nothing but a creation sets a depth.
LEMMA DepthsKept ==
    ASSUME NEW r, NEW b, Good(r, b), NEW id
    PROVE  /\ \A s : OnlyWaiters(r, s) => SameDepths(r, s)
           /\ \A m \in Message : SendErr(r, id, m) = "Ok" =>
                SameDepths(r, PopRecvWaiter(Send(r, id, m), id))
           /\ RecvErr(r, id) = "Ok" => SameDepths(r, PopSendWaiter(Recv(r, id), id))
<1>1. r \in RouterState /\ DOMAIN r.eps = DOMAIN Owners BY DEF Good, Sound, Parking
<1>2. ASSUME NEW t, NEW s, OnlyWaiters(t, s), DOMAIN t.eps = DOMAIN Owners
      PROVE  SameDepths(t, s)
  BY <1>2 DEF OnlyWaiters, SameIdentity, SameDepths
<1>3. ASSUME NEW m \in Message, SendErr(r, id, m) = "Ok"
      PROVE  SameDepths(r, PopRecvWaiter(Send(r, id, m), id))
  <2>1. PICK s : s = Send(r, id, m) OBVIOUS
  <2>2. s \in RouterState BY <1>1, <2>1, SendType
  <2>3. id \in DOMAIN r.eps /\ OnlyAt(r, s, id) /\ s.eps[id] = Push(r.eps[id], m)
    BY <1>1, <1>3, <2>1, SendEffect
  <2>4. r.eps[id] \in Endpoint BY <1>1, <2>3, RouterFields
  <2>5. s.eps[id].depth = r.eps[id].depth
    <3>1. PICK ep \in Endpoint : ep = r.eps[id] BY <2>4
    <3>2. \A e \in {Push(ep, m), PushFront(ep, m)} : SameIdentity(e, ep) BY PushFields
    <3>3. SameIdentity(Push(ep, m), ep) BY <3>2
    <3>4. QED BY <2>3, <3>1, <3>3 DEF SameIdentity
  <2>6. SameDepths(r, s) BY <1>1, <2>3, <2>5 DEF SameDepths, OnlyAt
  <2>7. DOMAIN s.eps = DOMAIN Owners BY <1>1, <2>3 DEF OnlyAt
  <2>8. OnlyWaiters(s, PopRecvWaiter(s, id)) BY <2>2, OnlyWaitersOps
  <2>9. SameDepths(s, PopRecvWaiter(s, id)) BY <1>2, <2>7, <2>8
  <2>10. QED BY <2>1, <2>6, <2>9 DEF SameDepths
<1>4. ASSUME RecvErr(r, id) = "Ok" PROVE SameDepths(r, PopSendWaiter(Recv(r, id), id))
  <2>1. PICK s : s = Recv(r, id) OBVIOUS
  <2>2. s \in RouterState BY <1>1, <2>1, RecvType
  <2>3. id \in DOMAIN r.eps /\ OnlyAt(r, s, id) /\ s.eps[id] = Pop(r.eps[id])
    BY <1>1, <1>4, <2>1, RecvEffect
  <2>4. r.eps[id] \in Endpoint BY <1>1, <2>3, RouterFields
  <2>5. s.eps[id].depth = r.eps[id].depth BY <2>3, <2>4, PopFields DEF SameIdentity
  <2>6. SameDepths(r, s) BY <1>1, <2>3, <2>5 DEF SameDepths, OnlyAt
  <2>7. DOMAIN s.eps = DOMAIN Owners BY <1>1, <2>3 DEF OnlyAt
  <2>8. OnlyWaiters(s, PopSendWaiter(s, id)) BY <2>2, OnlyWaitersOps
  <2>9. SameDepths(s, PopSendWaiter(s, id)) BY <1>2, <2>7, <2>8
  <2>10. QED BY <2>1, <2>6, <2>9 DEF SameDepths
<1>5. QED BY <1>1, <1>2, <1>3, <1>4

\* A call of task p: the others are at most woken.
LEMMA CallFrame ==
    ASSUME IpcInv, NEW p \in Pid, NEW cl,
           \/ SendOk(p, cl) \/ SendWait(p, cl) \/ SendFail(p, cl)
           \/ RecvOk(p, cl) \/ RecvWait(p, cl) \/ RecvFail(p, cl)
    PROVE  Frame({p})
<1>1. caps \in [Pid -> Table] /\ call \in [Pid -> {None} \cup Call]
      /\ blocked \in [Pid -> {None} \cup IpcReason]
  BY DEF IpcInv, Typed, Good, Parking
<1>2. exited' = exited BY DEF SendOk, SendWait, SendFail, RecvOk, RecvWait, RecvFail
<1>3. \A q \in Pid : q # p => call'[q] = call[q]
  BY <1>1 DEF SendOk, SendWait, SendFail, RecvOk, RecvWait, RecvFail, Return, Park
<1>4. \A q \in Pid : q # p => caps'[q] = caps[q]
  BY <1>1 DEF SendOk, SendWait, SendFail, RecvOk, RecvWait, RecvFail
<1>5. \A b, S : \A q \in Pid : Woken(b, S)[q] \in {None, b[q]} BY DEF Woken
<1>6. ASSUME NEW q \in Pid, q # p PROVE blocked'[q] \in {None, blocked[q]}
  <2>1. CASE SendOk(p, cl) \/ RecvOk(p, cl) BY <1>5, <2>1 DEF SendOk, RecvOk
  <2>2. CASE SendFail(p, cl) \/ RecvFail(p, cl) BY <2>2 DEF SendFail, RecvFail
  <2>3. CASE SendWait(p, cl) \/ RecvWait(p, cl)
    <3>1. \E r, u, x : Park(p, cl, r, u, x) BY <2>3 DEF SendWait, RecvWait
    <3>2. PICK x, S, b : blocked' = Woken(b, S) /\ b \in {blocked, [blocked EXCEPT ![p] = x]}
      BY <3>1 DEF Park, WakeExpired
    <3>3. b[q] = blocked[q] BY <1>1, <1>6, <3>2
    <3>4. Woken(b, S)[q] \in {None, b[q]} BY <1>5
    <3>5. QED BY <3>2, <3>3, <3>4
  <2>4. QED BY <2>1, <2>2, <2>3
<1>7. QED BY <1>2, <1>3, <1>4, <1>6 DEF Frame

\* A call that returns has nothing left to retry.
LEMMA ReturnedCall ==
    ASSUME IpcInv, Calling, NEW p \in Pid, Frame({p}), call' = [call EXCEPT ![p] = None],
           blocked'[p] = None
    PROVE  Calling'
<1>1. call'[p] = None BY DEF IpcInv, Typed
<1>2. CallOK(call'[p], blocked'[p], caps'[p]) BY <1>1 DEF CallOK
<1>3. QED BY <1>1, <1>2, CallingKept

\* A send that succeeds takes a place and its retrier, and wakes a receiver
\* for its message.
LEMMA WakeSendOk ==
    ASSUME IpcInv, IpcInv', WakeInv, NEW p \in Pid, NEW cl \in Making(p), SendOk(p, cl)
    PROVE  WakeInv'
<1>0. /\ Good(router, blocked) /\ Typed /\ router \in RouterState
      /\ DOMAIN router.eps = DOMAIN Owners /\ DOMAIN router'.eps = DOMAIN Owners
      /\ Calling /\ \A i \in DOMAIN Owners : BalancedAt(i)
  BY DEF IpcInv, Good, Sound, Parking, WakeInv
<1>1. Frame({p}) BY CallFrame
<1>2. cl \in Call /\ cl.op = "send" /\ IsIpcCall(cl) BY <1>0, MakingCall DEF SendOk
<1>4. PICK ep : ep = caps[p][cl.slot].ep OBVIOUS
<1>5. PICK m : m = MessageOf(p, cl) OBVIOUS
<1>6. IpcSendErr(p, cl) = "Ok" BY DEF SendOk
<1>7. SendErr(router, ep, m) = "Ok" /\ cl.len <= MAX_FRAME_BYTES
  BY <1>2, <1>4, <1>5, <1>6, SendLegal
<1>8. m \in Message BY <1>0, <1>2, <1>5, <1>7, MessageTyped
<1>9. PICK r : r = Send(router, ep, m) OBVIOUS
<1>10. router' = PopRecvWaiter(r, ep) /\ blocked' = Woken(blocked, {FirstRecvWaiter(r, ep)})
  BY <1>4, <1>5, <1>9 DEF SendOk
<1>11. /\ ep \in DOMAIN Owners /\ router.eps[ep].queue \in Seq(Message)
       /\ NewQueue(router, router', ep, Append(router.eps[ep].queue, m))
  BY <1>0, <1>7, <1>8, <1>9, <1>10, SendQueues
<1>12. SameDepths(router, router') BY <1>0, <1>7, <1>8, <1>9, <1>10, DepthsKept
<1>13. blocked[p] = None /\ blocked'[p] = None
  <2>1. blocked[p] = None BY DEF SendOk, Runs
  <2>2. QED BY <1>10, <2>1 DEF Woken
<1>14. Calling' BY <1>0, <1>1, <1>13, ReturnedCall DEF SendOk, Return
<1>16. \A on, i : ~On(blocked', p, on, i) BY <1>13 DEF On
<1>17. \A i : ~Retries(p, "recv", i) BY <1>2, ActorRetries
<1>18. \A i : Retries(p, "send", i) => i = ep BY <1>4, ActorRetries
<1>19. ASSUME NEW i \in DOMAIN Owners, i # ep PROVE BalancedAt(i)'
  <2>1. router'.eps[i].queue = router.eps[i].queue BY <1>11, <1>19 DEF NewQueue
  <2>2. router'.eps[i].depth = router.eps[i].depth BY <1>12 DEF SameDepths
  <2>3. BalancedAt(i) BY <1>0
  <2>4. PICK P : P = {p} OBVIOUS
  <2>5. Frame(P) /\ Uninvolved(P, i) BY <1>1, <1>16, <1>17, <1>18, <1>19, <2>4 DEF Uninvolved
  <2>6. QED BY <1>0, <2>1, <2>2, <2>3, <2>5, ElsewhereKept
<1>20. PICK n \in Nat : n = Len(router.eps[ep].queue) BY <1>11
<1>21. Len(router'.eps[ep].queue) = n + 1 BY <1>11, <1>20 DEF NewQueue
<1>22. BalancedAt(ep) BY <1>0, <1>11
<1>23. PICK P : P = {p} OBVIOUS
<1>24. /\ Frame(P) /\ \A x \in P : ~Retries(x, "recv", ep)
       /\ \A x \in P \cap Pid : ~On(blocked', x, "recv", ep)
       /\ \A x \in P \cap Pid : ~On(blocked', x, "send", ep)
  BY <1>1, <1>16, <1>17, <1>23
<1>25. ASSUME router'.eps[ep].recv_waiters # <<>>
       PROVE  n + 1 <= Cardinality(Retriers("recv", ep)')
  <2>1. router.eps[ep].recv_waiters # <<>> BY <1>11, <1>24, <1>25, WaitersBefore
  <2>2. PICK a \in Nat : a = Cardinality(Retriers("recv", ep)) BY RetriersNat
  <2>3. PICK k \in Nat : k = Cardinality(Retriers("recv", ep)') BY RetriersNat
  <2>4. n <= a BY <1>20, <1>22, <2>1, <2>2 DEF BalancedAt
  <2>5. PICK w : w = Head(router.eps[ep].recv_waiters) OBVIOUS
  <2>6. router.eps[ep].recv_waiters \in Seq(Pid) BY <1>0, <1>11, GoodQueues
  <2>7. w \in Pid /\ w \in Elements(router.eps[ep].recv_waiters)
    BY <2>1, <2>5, <2>6 DEF Elements
  <2>8. On(blocked, w, "recv", ep) BY <1>0, <1>11, <2>7 DEF Good, Parking, Registered
  <2>9. w # p BY <1>13, <2>8 DEF On
  <2>10. FirstRecvWaiter(r, ep) = w
    <3>1. SameParking(router, r) BY <1>0, <1>8, <1>9, QueueOpsParking
    <3>2. ep \in DOMAIN r.eps /\ r.eps[ep].recv_waiters = router.eps[ep].recv_waiters
          /\ r.eps[ep].alive = router.eps[ep].alive
      BY <1>0, <1>11, <3>1 DEF SameParking, SameWaiters
    <3>3. router.eps[ep].alive BY <1>0, <1>7, SendEffect
    <3>4. QED BY <2>1, <2>5, <3>2, <3>3 DEF FirstRecvWaiter, EndpointAlive
  <2>11. blocked'[w] = None BY <1>10, <2>7, <2>10 DEF Woken
  <2>12. w \in Pid \ P BY <1>23, <2>7, <2>9
  <2>13. \A v \in Pid \ P : On(blocked, v, "recv", ep) /\ blocked'[v] = None => a + 1 <= k
    BY <1>0, <1>24, <2>2, <2>3, RetriersCount
  <2>14. a + 1 <= k BY <2>8, <2>11, <2>12, <2>13
  <2>15. QED BY <2>3, <2>4, <2>14
<1>26. ASSUME router'.eps[ep].send_waiters # <<>>
       PROVE  router'.eps[ep].depth <= (n + 1) + Cardinality(Retriers("send", ep)')
  <2>1. router.eps[ep].send_waiters # <<>> BY <1>11, <1>24, <1>26, WaitersBefore
  <2>2. PICK a \in Nat : a = Cardinality(Retriers("send", ep)) BY RetriersNat
  <2>3. PICK k \in Nat : k = Cardinality(Retriers("send", ep)') BY RetriersNat
  <2>4. router.eps[ep].depth <= n + a BY <1>20, <1>22, <2>1, <2>2 DEF BalancedAt
  <2>5. router.eps[ep].depth \in Nat BY <1>0, <1>11, RouterFields, EndpointFields
  <2>6. a <= k + 1 BY <1>0, <1>23, <1>24, <2>2, <2>3, RetriersCount
  <2>7. router'.eps[ep].depth = router.eps[ep].depth BY <1>11, <1>12 DEF SameDepths
  <2>8. QED BY <2>3, <2>4, <2>5, <2>6, <2>7
<1>27. BalancedAt(ep)' BY <1>21, <1>25, <1>26 DEF BalancedAt
<1>28. QED BY <1>14, <1>19, <1>27 DEF WakeInv

\* A receive that succeeds takes a message and its retrier, and wakes a sender
\* for the place.
LEMMA WakeRecvOk ==
    ASSUME IpcInv, IpcInv', WakeInv, MovesGoThrough,
           NEW p \in Pid, NEW cl \in Making(p), RecvOk(p, cl)
    PROVE  WakeInv'
<1>0. /\ Good(router, blocked) /\ Typed /\ router \in RouterState
      /\ DOMAIN router.eps = DOMAIN Owners /\ DOMAIN router'.eps = DOMAIN Owners
      /\ Calling /\ \A i \in DOMAIN Owners : BalancedAt(i)
  BY DEF IpcInv, Good, Sound, Parking, WakeInv
<1>1. Frame({p}) BY CallFrame
<1>2. cl.op = "recv" BY DEF RecvOk
<1>3. PICK ep : ep = caps[p][cl.slot].ep OBVIOUS
<1>4. PICK m : m = Received(router, ep) OBVIOUS
<1>5. RecvErr(router, ep) = "Ok" BY <1>3 DEF RecvOk, IpcRecvErr
<1>6. PICK r : r = Recv(router, ep) OBVIOUS
<1>7. PICK r1 : r1 = PopSendWaiter(r, ep) OBVIOUS
<1>8. /\ ep \in DOMAIN Owners /\ router.eps[ep].queue \in Seq(Message)
      /\ router.eps[ep].queue # <<>>
      /\ NewQueue(router, r1, ep, Tail(router.eps[ep].queue))
  BY <1>0, <1>5, <1>6, <1>7, RecvQueues
<1>9. m \in Message BY <1>0, <1>4, <1>5, GoodRecv
<1>12. m.cap = NoCap \/ FreeSlots(caps[p]) # {}
  BY <1>3, <1>4 DEF MovesGoThrough, Requeues, RecvOk
<1>13. router' = r1 /\ blocked' = Woken(blocked, {FirstSendWaiter(r, ep)})
  BY <1>3, <1>4, <1>6, <1>7, <1>12 DEF RecvOk
<1>14. SameDepths(router, router') BY <1>0, <1>5, <1>6, <1>7, <1>13, DepthsKept
<1>15. blocked[p] = None /\ blocked'[p] = None
  <2>1. blocked[p] = None BY DEF RecvOk, Runs
  <2>2. QED BY <1>13, <2>1 DEF Woken
<1>16. Calling' BY <1>0, <1>1, <1>15, ReturnedCall DEF RecvOk, Return
<1>18. \A on, i : ~On(blocked', p, on, i) BY <1>15 DEF On
<1>19. \A i : ~Retries(p, "send", i) BY <1>2, ActorRetries
<1>20. \A i : Retries(p, "recv", i) => i = ep BY <1>3, ActorRetries
<1>21. ASSUME NEW i \in DOMAIN Owners, i # ep PROVE BalancedAt(i)'
  <2>1. router'.eps[i].queue = router.eps[i].queue BY <1>8, <1>13, <1>21 DEF NewQueue
  <2>2. router'.eps[i].depth = router.eps[i].depth BY <1>14 DEF SameDepths
  <2>3. BalancedAt(i) BY <1>0
  <2>4. PICK P : P = {p} OBVIOUS
  <2>5. Frame(P) /\ Uninvolved(P, i) BY <1>1, <1>18, <1>19, <1>20, <1>21, <2>4 DEF Uninvolved
  <2>6. QED BY <1>0, <2>1, <2>2, <2>3, <2>5, ElsewhereKept
<1>22. PICK n \in Nat : n + 1 = Len(router.eps[ep].queue)
  <2>1. Len(router.eps[ep].queue) \in Nat /\ Len(router.eps[ep].queue) # 0 BY <1>8
  <2>2. PICK l \in Nat : l = Len(router.eps[ep].queue) /\ l # 0 BY <2>1
  <2>3. l - 1 \in Nat /\ (l - 1) + 1 = l BY <2>2
  <2>4. QED BY <2>2, <2>3
<1>23. Len(router'.eps[ep].queue) = n
  <2>1. router'.eps[ep].queue = Tail(router.eps[ep].queue) BY <1>8, <1>13 DEF NewQueue
  <2>2. PICK q \in Seq(Message) : q = router.eps[ep].queue /\ q # <<>> BY <1>8
  <2>3. Len(Tail(q)) = Len(q) - 1 /\ Len(q) = n + 1 BY <1>22, <2>2
  <2>4. QED BY <2>1, <2>2, <2>3
<1>24. BalancedAt(ep) BY <1>0, <1>8
<1>25. PICK P : P = {p} OBVIOUS
<1>26. /\ Frame(P) /\ \A y \in P : ~Retries(y, "send", ep)
       /\ \A y \in P \cap Pid : ~On(blocked', y, "recv", ep)
       /\ \A y \in P \cap Pid : ~On(blocked', y, "send", ep)
  BY <1>1, <1>18, <1>19, <1>25
<1>27. ASSUME router'.eps[ep].send_waiters # <<>>
       PROVE  router'.eps[ep].depth <= n + Cardinality(Retriers("send", ep)')
  <2>1. router.eps[ep].send_waiters # <<>> BY <1>8, <1>26, <1>27, WaitersBefore
  <2>2. PICK a \in Nat : a = Cardinality(Retriers("send", ep)) BY RetriersNat
  <2>3. PICK k \in Nat : k = Cardinality(Retriers("send", ep)') BY RetriersNat
  <2>4. router.eps[ep].depth <= (n + 1) + a BY <1>22, <1>24, <2>1, <2>2 DEF BalancedAt
  <2>5. PICK w : w = Head(router.eps[ep].send_waiters) OBVIOUS
  <2>6. router.eps[ep].send_waiters \in Seq(Pid) BY <1>0, <1>8, GoodQueues
  <2>7. w \in Pid /\ w \in Elements(router.eps[ep].send_waiters)
    BY <2>1, <2>5, <2>6 DEF Elements
  <2>8. On(blocked, w, "send", ep) BY <1>0, <1>8, <2>7 DEF Good, Parking, Registered
  <2>9. w # p BY <1>15, <2>8 DEF On
  <2>10. FirstSendWaiter(r, ep) = w
    <3>1. SameParking(router, r) BY <1>0, <1>6, QueueOpsParking
    <3>2. /\ ep \in DOMAIN r.eps /\ r.eps[ep].send_waiters = router.eps[ep].send_waiters
          /\ r.eps[ep].alive = router.eps[ep].alive
      BY <1>0, <1>8, <3>1 DEF SameParking, SameWaiters
    <3>3. router.eps[ep].alive BY <1>0, <1>5, RecvEffect
    <3>4. QED BY <2>1, <2>5, <3>2, <3>3 DEF FirstSendWaiter, EndpointAlive
  <2>11. blocked'[w] = None BY <1>13, <2>7, <2>10 DEF Woken
  <2>12. w \in Pid \ P BY <1>25, <2>7, <2>9
  <2>13. \A v \in Pid \ P : On(blocked, v, "send", ep) /\ blocked'[v] = None => a + 1 <= k
    BY <1>0, <1>26, <2>2, <2>3, RetriersCount
  <2>14. a + 1 <= k BY <2>8, <2>11, <2>12, <2>13
  <2>15. router'.eps[ep].depth = router.eps[ep].depth /\ router.eps[ep].depth \in Nat
    BY <1>0, <1>8, <1>14, RouterFields, EndpointFields DEF SameDepths
  <2>16. QED BY <2>3, <2>4, <2>14, <2>15
<1>28. ASSUME router'.eps[ep].recv_waiters # <<>>
       PROVE  n <= Cardinality(Retriers("recv", ep)')
  <2>1. router.eps[ep].recv_waiters # <<>> BY <1>8, <1>26, <1>28, WaitersBefore
  <2>2. PICK a \in Nat : a = Cardinality(Retriers("recv", ep)) BY RetriersNat
  <2>3. PICK k \in Nat : k = Cardinality(Retriers("recv", ep)') BY RetriersNat
  <2>4. n + 1 <= a BY <1>22, <1>24, <2>1, <2>2 DEF BalancedAt
  <2>5. a <= k + 1 BY <1>0, <1>25, <1>26, <2>2, <2>3, RetriersCount
  <2>6. QED BY <2>3, <2>4, <2>5
<1>29. BalancedAt(ep)' BY <1>23, <1>27, <1>28 DEF BalancedAt
<1>30. QED BY <1>16, <1>21, <1>29 DEF WakeInv

\* A task that parks, or spins, keeps its call, and its block reason names it.
LEMMA ParkedCall ==
    ASSUME IpcInv, Calling, NEW p \in Pid, Frame({p}), NEW cl, CallOK(cl, None, caps[p]), cl # None,
           caps' = caps, exited' = exited, p \notin exited,
           NEW ep, ep = caps[p][cl.slot].ep, blocked[p] = None,
           NEW r, NEW x, x.on = cl.op, x.eps = {ep}, Park(p, cl, r, router, x)
    PROVE  /\ Calling'
           /\ \A on, i : On(blocked', p, on, i) => on = cl.op /\ i = ep
<1>1. call'[p] = cl BY DEF Park, IpcInv, Typed
<1>2. blocked \in [Pid -> {None} \cup IpcReason] BY DEF IpcInv, Good, Parking
<1>3. blocked'[p] \in {None, x}
  <2>1. PICK S, b : blocked' = Woken(b, S) /\ b \in {blocked, [blocked EXCEPT ![p] = x]}
    BY DEF Park, WakeExpired
  <2>2. b[p] \in {None, x} BY <1>2, <2>1
  <2>3. QED BY <2>1, <2>2 DEF Woken
<1>4. CallOK(cl, x, caps[p]) BY DEF CallOK
<1>5. CallOK(call'[p], blocked'[p], caps'[p]) BY <1>1, <1>3, <1>4
<1>6. Calling' BY <1>5, CallingKept
<1>7. QED BY <1>3, <1>6 DEF On

\* A task that parks or spins leaves the depths.
LEMMA ParkDepths ==
    ASSUME Good(router, blocked), NEW p \in Pid, NEW cl, NEW r, NEW x,
           OnlyWaiters(router, r),
           Good(r, [blocked EXCEPT ![p] = x]), Park(p, cl, r, router, x)
    PROVE  SameDepths(router, router')
<1>1. \A b : Expired(b) \subseteq {y \in Pid : b[y] # None} BY DEF Expired
<1>2. SameDepths(router, r) BY DepthsKept
<1>3. ASSUME NEW t, NEW b, Good(t, b), WakeExpired(t, b) PROVE SameDepths(t, router')
  <2>1. router' = Deregister(t, b, Expired(b)) BY <1>3 DEF WakeExpired
  <2>2. OnlyWaiters(t, router') BY <1>1, <1>3, <2>1, GoodDeregister
  <2>3. QED BY <1>3, <2>2, DepthsKept
<1>4. \/ WakeExpired(r, [blocked EXCEPT ![p] = x])
      \/ WakeExpired(router, blocked)
  BY DEF Park
<1>5. SameDepths(r, router') \/ SameDepths(router, router') BY <1>3, <1>4
<1>6. QED BY <1>2, <1>5 DEF SameDepths

\* A sender parks at a full queue.
LEMMA WakeSendWait ==
    ASSUME IpcInv, IpcInv', WakeInv, NEW p \in Pid, NEW cl \in Making(p), SendWait(p, cl)
    PROVE  WakeInv'
<1>0. /\ Good(router, blocked) /\ Typed /\ router \in RouterState
      /\ DOMAIN router.eps = DOMAIN Owners
      /\ Calling /\ \A i \in DOMAIN Owners : BalancedAt(i)
  BY DEF IpcInv, Good, Sound, Parking, WakeInv
<1>1. Frame({p}) BY CallFrame
<1>2. cl # None /\ cl.op = "send" /\ IsIpcCall(cl) BY <1>0, MakingCall DEF SendWait
<1>3. PICK ep : ep = caps[p][cl.slot].ep OBVIOUS
<1>4. PICK m : m = MessageOf(p, cl) OBVIOUS
<1>5. IpcSendErr(p, cl) = "QueueFull" /\ blocked[p] = None /\ p \notin exited
  BY DEF SendWait, SendBlocks, Runs
<1>6. /\ SendErr(router, ep, m) = "QueueFull" /\ cl.len <= MAX_FRAME_BYTES
      /\ DerivesEndpoint(caps[p], cl.slot, "SEND")
  BY <1>2, <1>3, <1>4, <1>5, SendLegal
<1>7. EndpointAlive(router, ep) /\ Len(router.eps[ep].queue) >= router.eps[ep].depth
  BY <1>0, <1>6, FullIsAlive
<1>8. cl.deadline \in Nat BY <1>2 DEF IsIpcCall
<1>9. PICK r : r = RegisterSendWaiter(router, ep, p) OBVIOUS
<1>10. PICK x : x = Reason("send", {ep}, cl.deadline) OBVIOUS
<1>11. x.on = "send" /\ x.eps = {ep} BY <1>10 DEF Reason
<1>12. Good(r, [blocked EXCEPT ![p] = x])
  BY <1>0, <1>5, <1>7, <1>8, <1>9, <1>10, GoodRegister
<1>13. Park(p, cl, r, router, x) BY <1>3, <1>9, <1>10 DEF SendWait
<1>14. OnlyWaiters(router, r) BY <1>0, <1>9, OnlyWaitersOps
<1>15. SameQueues(router, router') BY <1>0, <1>12, <1>13, <1>14, ParkQueues
<1>16. SameDepths(router, router') BY <1>0, <1>12, <1>13, <1>14, ParkDepths
<1>17. cl.move # None => Movable(caps[p][cl.move])
  BY <1>5 DEF IpcSendErr, MoveErr, Movable
<1>18. CallOK(cl, None, caps[p]) BY <1>2, <1>6, <1>17 DEF CallOK
<1>19. caps' = caps /\ exited' = exited BY DEF SendWait
<1>20. /\ Calling'
       /\ \A on, i : On(blocked', p, on, i) => on = cl.op /\ i = ep
  BY <1>0, <1>1, <1>2, <1>3, <1>5, <1>11, <1>13, <1>18, <1>19, ParkedCall
<1>21. \A i : ~Retries(p, "recv", i) BY <1>2, ActorRetries
<1>22. \A i : Retries(p, "send", i) => i = ep BY <1>3, ActorRetries
<1>23. \A i : ~On(blocked', p, "recv", i) /\ (On(blocked', p, "send", i) => i = ep)
  BY <1>2, <1>20
<1>24. PICK P : P = {p} OBVIOUS
<1>25. Frame(P) BY <1>1, <1>24
<1>26. ASSUME NEW i \in DOMAIN Owners PROVE BalancedAt(i)'
  <2>1. router'.eps[i].queue = router.eps[i].queue BY <1>15 DEF SameQueues
  <2>2. router'.eps[i].depth = router.eps[i].depth BY <1>16 DEF SameDepths
  <2>3. BalancedAt(i) BY <1>0
  <2>4. CASE i # ep
    <3>1. Uninvolved(P, i) BY <1>21, <1>22, <1>23, <1>24, <2>4 DEF Uninvolved
    <3>2. QED BY <1>0, <1>25, <2>1, <2>2, <2>3, <3>1, ElsewhereKept
  <2>5. CASE i = ep
    <3>1. /\ \A y \in P : ~Retries(y, "recv", i)
          /\ \A y \in P \cap Pid : ~On(blocked', y, "recv", i)
      BY <1>21, <1>23, <1>24
    <3>2. router'.eps[i].recv_waiters # <<>>
            => Len(router'.eps[i].queue) <= Cardinality(Retriers("recv", i)')
      BY <1>0, <1>25, <2>1, <2>3, <3>1, RecvSideKept
    <3>3. Len(router.eps[i].queue) \in Nat /\ router.eps[i].depth \in Nat
      BY <1>0, RouterFields, EndpointFields
    <3>4. PICK k \in Nat : k = Cardinality(Retriers("send", i)') BY RetriersNat
    <3>5. router.eps[i].depth <= Len(router.eps[i].queue) + k BY <1>7, <2>5, <3>3
    <3>6. router'.eps[i].depth <= Len(router'.eps[i].queue) + Cardinality(Retriers("send", i)')
      BY <2>1, <2>2, <3>4, <3>5
    <3>7. QED BY <3>2, <3>6 DEF BalancedAt
  <2>6. QED BY <2>4, <2>5
<1>27. QED BY <1>20, <1>26 DEF WakeInv

\* A receiver parks at an empty queue.
LEMMA WakeRecvWait ==
    ASSUME IpcInv, IpcInv', WakeInv, NEW p \in Pid, NEW cl \in Making(p), RecvWait(p, cl)
    PROVE  WakeInv'
<1>0. /\ Good(router, blocked) /\ Typed /\ router \in RouterState
      /\ DOMAIN router.eps = DOMAIN Owners
      /\ Calling /\ \A i \in DOMAIN Owners : BalancedAt(i)
  BY DEF IpcInv, Good, Sound, Parking, WakeInv
<1>1. Frame({p}) BY CallFrame
<1>2. cl # None /\ cl.op = "recv" /\ IsIpcCall(cl) BY <1>0, MakingCall DEF RecvWait
<1>3. PICK ep : ep = caps[p][cl.slot].ep OBVIOUS
<1>4. /\ RecvErr(router, ep) = "QueueEmpty" /\ blocked[p] = None /\ p \notin exited
      /\ DerivesEndpoint(caps[p], cl.slot, "RECV")
  BY <1>3 DEF RecvWait, RecvBlocks, IpcRecvErr, Runs
<1>5. EndpointAlive(router, ep) /\ router.eps[ep].queue = <<>> BY <1>4 DEF RecvErr
<1>6. cl.deadline \in Nat BY <1>2 DEF IsIpcCall
<1>7. PICK r : r = RegisterRecvWaiter(router, ep, p) OBVIOUS
<1>8. PICK x : x = Reason("recv", {ep}, cl.deadline) OBVIOUS
<1>9. x.on = "recv" /\ x.eps = {ep} BY <1>8 DEF Reason
<1>10. Good(r, [blocked EXCEPT ![p] = x])
  BY <1>0, <1>4, <1>5, <1>6, <1>7, <1>8, GoodRegister
<1>11. Park(p, cl, r, router, x) BY <1>3, <1>7, <1>8 DEF RecvWait
<1>12. OnlyWaiters(router, r) BY <1>0, <1>7, OnlyWaitersOps
<1>13. SameQueues(router, router') BY <1>0, <1>10, <1>11, <1>12, ParkQueues
<1>14. SameDepths(router, router') BY <1>0, <1>10, <1>11, <1>12, ParkDepths
<1>16. CallOK(cl, None, caps[p]) BY <1>2, <1>4 DEF CallOK
<1>17. caps' = caps /\ exited' = exited BY DEF RecvWait
<1>18. /\ Calling'
       /\ \A on, i : On(blocked', p, on, i) => on = cl.op /\ i = ep
  BY <1>0, <1>1, <1>2, <1>3, <1>4, <1>9, <1>11, <1>16, <1>17, ParkedCall
<1>19. \A i : ~Retries(p, "send", i) BY <1>2, ActorRetries
<1>20. \A i : Retries(p, "recv", i) => i = ep BY <1>3, ActorRetries
<1>21. \A i : ~On(blocked', p, "send", i) /\ (On(blocked', p, "recv", i) => i = ep)
  BY <1>2, <1>18
<1>22. PICK P : P = {p} OBVIOUS
<1>23. Frame(P) BY <1>1, <1>22
<1>24. ASSUME NEW i \in DOMAIN Owners PROVE BalancedAt(i)'
  <2>1. router'.eps[i].queue = router.eps[i].queue BY <1>13 DEF SameQueues
  <2>2. router'.eps[i].depth = router.eps[i].depth BY <1>14 DEF SameDepths
  <2>3. BalancedAt(i) BY <1>0
  <2>4. CASE i # ep
    <3>1. Uninvolved(P, i) BY <1>19, <1>20, <1>21, <1>22, <2>4 DEF Uninvolved
    <3>2. QED BY <1>0, <1>23, <2>1, <2>2, <2>3, <3>1, ElsewhereKept
  <2>5. CASE i = ep
    <3>1. /\ \A y \in P : ~Retries(y, "send", i)
          /\ \A y \in P \cap Pid : ~On(blocked', y, "send", i)
      BY <1>19, <1>21, <1>22
    <3>2. router'.eps[i].send_waiters # <<>>
            => router'.eps[i].depth
                 <= Len(router'.eps[i].queue) + Cardinality(Retriers("send", i)')
      BY <1>0, <1>23, <2>1, <2>2, <2>3, <3>1, SendSideKept
    <3>3. PICK k \in Nat : k = Cardinality(Retriers("recv", i)') BY RetriersNat
    <3>4. Len(router'.eps[i].queue) = 0 BY <1>5, <2>1, <2>5
    <3>5. Len(router'.eps[i].queue) <= Cardinality(Retriers("recv", i)') BY <3>3, <3>4
    <3>6. QED BY <3>2, <3>5 DEF BalancedAt
  <2>6. QED BY <2>4, <2>5
<1>25. QED BY <1>18, <1>24 DEF WakeInv

\* Nobody waits on a dead endpoint.
LEMMA DeadIsIdle ==
    ASSUME NEW r, NEW b, Good(r, b), NEW i \in DOMAIN Owners, r.eps[i].alive = FALSE
    PROVE  r.eps[i].recv_waiters = <<>> /\ r.eps[i].send_waiters = <<>>
<1>1. i \in DOMAIN r.eps /\ WaitersOf(r) BY DEF Good, Sound, Parking
<1>2. Waiters(r.eps[i]) = {} BY <1>1 DEF WaitersOf
<1>3. r.eps[i].recv_waiters \in Seq(Pid) /\ r.eps[i].send_waiters \in Seq(Pid)
  BY <1>1, GoodQueues
<1>4. ASSUME NEW ws \in Seq(Pid), ToSet(ws) = {} PROVE ws = <<>>
  <2>1. DOMAIN ws = {} BY <1>4 DEF ToSet
  <2>2. QED BY <2>1
<1>5. ToSet(r.eps[i].recv_waiters) = {} /\ ToSet(r.eps[i].send_waiters) = {}
  BY <1>2 DEF Waiters
<1>6. QED BY <1>3, <1>4, <1>5

\* A send that fails left its retrier without work: the queue is full again,
\* or the endpoint is closed.
LEMMA WakeSendFail ==
    ASSUME IpcInv, IpcInv', WakeInv, MovesGoThrough, BudgetsSuffice,
           NEW p \in Pid, NEW cl \in Making(p), SendFail(p, cl)
    PROVE  WakeInv'
<1>0. /\ Good(router, blocked) /\ Typed /\ router \in RouterState
      /\ DOMAIN router.eps = DOMAIN Owners
      /\ Calling /\ \A i \in DOMAIN Owners : BalancedAt(i)
  BY DEF IpcInv, Good, Sound, Parking, WakeInv
<1>1. Frame({p}) BY CallFrame
<1>2. cl \in Call /\ cl # None /\ cl.op = "send" /\ IsIpcCall(cl)
  BY <1>0, MakingCall DEF SendFail
<1>4. PICK ep : ep = caps[p][cl.slot].ep OBVIOUS
<1>5. router' = router /\ blocked' = blocked /\ blocked'[p] = None
  BY DEF SendFail, Runs
<1>6. Calling' BY <1>0, <1>1, <1>5, ReturnedCall DEF SendFail, Return
<1>8. PICK P : P = {p} OBVIOUS
<1>9. Frame(P) BY <1>1, <1>8
<1>10. \A i : ~Retries(p, "recv", i) BY <1>2, ActorRetries
<1>11. \A on, i : ~On(blocked', p, on, i) BY <1>5 DEF On
<1>12. ASSUME NEW i \in DOMAIN Owners PROVE BalancedAt(i)'
  <2>1. router'.eps[i].queue = router.eps[i].queue /\ router'.eps[i].depth = router.eps[i].depth
    BY <1>5
  <2>2. BalancedAt(i) BY <1>0
  <2>3. CASE ~Retries(p, "send", i)
    <3>1. Uninvolved(P, i) BY <1>8, <1>10, <1>11, <2>3 DEF Uninvolved
    <3>2. QED BY <1>0, <1>9, <2>1, <2>2, <3>1, ElsewhereKept
  <2>4. CASE Retries(p, "send", i)
    <3>1. cl = call[p] /\ i = ep BY <1>4, <2>4, ActorRetries
    <3>2. /\ DerivesEndpoint(caps[p], cl.slot, "SEND") /\ cl.len <= MAX_FRAME_BYTES
          /\ cl.move # None => Movable(caps[p][cl.move])
      BY <1>0, <1>2, <3>1 DEF Calling, CallOK
    <3>3. PICK m : m = MessageOf(p, cl) OBVIOUS
    <3>4. IpcSendErr(p, cl) = SendErr(router, ep, m)
      <4>1. MoveErr(p, cl) = "Ok"
        <5>1. MoveErr(p, cl) # "NoSuchEndpoint" BY <1>2, <3>1 DEF MovesGoThrough
        <5>2. QED BY <3>2, <5>1 DEF MoveErr, Movable
      <4>2. cl.len \in Nat /\ MAX_FRAME_BYTES \in Nat BY <1>2, RouterAssumption DEF IsIpcCall
      <4>3. ~(cl.len > MAX_FRAME_BYTES) BY <3>2, <4>2
      <4>4. QED BY <1>4, <3>2, <3>3, <4>1, <4>3 DEF IpcSendErr
    <3>5. SendErr(router, ep, m) \notin {"Ok", "NoSpace"}
      BY <1>2, <3>4 DEF BudgetsSuffice, SendFail
    <3>6. ep \in DOMAIN router.eps BY <1>0, <3>1
    <3>7. PushErr(router.eps[ep], m) \notin {"Ok", "NoSpace"} BY <3>5, <3>6 DEF SendErr
    <3>8. /\ Len(router.eps[ep].queue) \in Nat /\ router.eps[ep].depth \in Nat
          /\ router.eps[ep].alive \in BOOLEAN
      BY <1>0, <3>6, RouterFields, EndpointFields
    <3>9. \/ router.eps[ep].alive = FALSE
          \/ Len(router.eps[ep].queue) >= router.eps[ep].depth
      BY <3>7, <3>8 DEF PushErr
    <3>10. CASE router.eps[ep].alive = FALSE
      <4>1. router'.eps[i].recv_waiters = <<>> /\ router'.eps[i].send_waiters = <<>>
        BY <1>0, <1>5, <3>1, <3>10, DeadIsIdle
      <4>2. QED BY <4>1 DEF BalancedAt
    <3>11. CASE Len(router.eps[ep].queue) >= router.eps[ep].depth
      <4>1. /\ \A y \in P : ~Retries(y, "recv", i)
            /\ \A y \in P \cap Pid : ~On(blocked', y, "recv", i)
        BY <1>8, <1>10, <1>11
      <4>2. router'.eps[i].recv_waiters # <<>>
              => Len(router'.eps[i].queue) <= Cardinality(Retriers("recv", i)')
        BY <1>0, <1>9, <2>1, <2>2, <4>1, RecvSideKept
      <4>3. PICK k \in Nat : k = Cardinality(Retriers("send", i)') BY RetriersNat
      <4>4. router.eps[i].depth <= Len(router.eps[i].queue) + k BY <3>1, <3>8, <3>11
      <4>5. router'.eps[i].depth <= Len(router'.eps[i].queue) + Cardinality(Retriers("send", i)')
        BY <2>1, <4>3, <4>4
      <4>6. QED BY <4>2, <4>5 DEF BalancedAt
    <3>12. QED BY <3>9, <3>10, <3>11
  <2>5. QED BY <2>3, <2>4
<1>13. QED BY <1>6, <1>12 DEF WakeInv

\* The same for a receive: the queue is empty again, or the endpoint closed.
LEMMA WakeRecvFail ==
    ASSUME IpcInv, IpcInv', WakeInv, NEW p \in Pid, NEW cl \in Making(p), RecvFail(p, cl)
    PROVE  WakeInv'
<1>0. /\ Good(router, blocked) /\ Typed /\ router \in RouterState
      /\ DOMAIN router.eps = DOMAIN Owners
      /\ Calling /\ \A i \in DOMAIN Owners : BalancedAt(i)
  BY DEF IpcInv, Good, Sound, Parking, WakeInv
<1>1. Frame({p}) BY CallFrame
<1>2. cl # None /\ cl.op = "recv" BY <1>0, MakingCall DEF RecvFail
<1>3. PICK ep : ep = caps[p][cl.slot].ep OBVIOUS
<1>4. router' = router /\ blocked' = blocked /\ blocked'[p] = None
  BY DEF RecvFail, Runs
<1>5. Calling' BY <1>0, <1>1, <1>4, ReturnedCall DEF RecvFail, Return
<1>7. PICK P : P = {p} OBVIOUS
<1>8. Frame(P) BY <1>1, <1>7
<1>9. \A i : ~Retries(p, "send", i) BY <1>2, ActorRetries
<1>10. \A on, i : ~On(blocked', p, on, i) BY <1>4 DEF On
<1>11. ASSUME NEW i \in DOMAIN Owners PROVE BalancedAt(i)'
  <2>1. router'.eps[i].queue = router.eps[i].queue /\ router'.eps[i].depth = router.eps[i].depth
    BY <1>4
  <2>2. BalancedAt(i) BY <1>0
  <2>3. CASE ~Retries(p, "recv", i)
    <3>1. Uninvolved(P, i) BY <1>7, <1>9, <1>10, <2>3 DEF Uninvolved
    <3>2. QED BY <1>0, <1>8, <2>1, <2>2, <3>1, ElsewhereKept
  <2>4. CASE Retries(p, "recv", i)
    <3>1. cl = call[p] /\ i = ep BY <1>3, <2>4, ActorRetries
    <3>2. DerivesEndpoint(caps[p], cl.slot, "RECV") BY <1>0, <1>2, <3>1 DEF Calling, CallOK
    <3>3. RecvErr(router, ep) # "Ok" BY <1>3, <3>2 DEF RecvFail, IpcRecvErr
    <3>4. ep \in DOMAIN router.eps /\ router.eps[ep].alive \in BOOLEAN
      BY <1>0, <3>1, RouterFields, EndpointFields
    <3>5. router.eps[ep].alive = FALSE \/ router.eps[ep].queue = <<>>
      BY <3>3, <3>4 DEF RecvErr, EndpointAlive
    <3>6. CASE router.eps[ep].alive = FALSE
      <4>1. router'.eps[i].recv_waiters = <<>> /\ router'.eps[i].send_waiters = <<>>
        BY <1>0, <1>4, <3>1, <3>6, DeadIsIdle
      <4>2. QED BY <4>1 DEF BalancedAt
    <3>7. CASE router.eps[ep].queue = <<>>
      <4>1. /\ \A y \in P : ~Retries(y, "send", i)
            /\ \A y \in P \cap Pid : ~On(blocked', y, "send", i)
        BY <1>7, <1>9, <1>10
      <4>2. router'.eps[i].send_waiters # <<>>
              => router'.eps[i].depth
                   <= Len(router'.eps[i].queue) + Cardinality(Retriers("send", i)')
        BY <1>0, <1>8, <2>1, <2>2, <4>1, SendSideKept
      <4>3. PICK k \in Nat : k = Cardinality(Retriers("recv", i)') BY RetriersNat
      <4>4. Len(router'.eps[i].queue) = 0 BY <1>4, <3>1, <3>7
      <4>5. Len(router'.eps[i].queue) <= Cardinality(Retriers("recv", i)') BY <4>3, <4>4
      <4>6. QED BY <4>2, <4>5 DEF BalancedAt
    <3>8. QED BY <3>5, <3>6, <3>7
  <2>5. QED BY <2>3, <2>4
<1>12. QED BY <1>5, <1>11 DEF WakeInv

\* A step of tasks P that are making no call, in which an endpoint keeps its
\* queue and its depth or is dead afterwards.
LEMMA QuietStep ==
    ASSUME IpcInv, IpcInv', WakeInv, NEW P, Frame(P),
           \A p \in P : call[p] = None /\ call'[p] = None /\ blocked'[p] = None,
           \A i \in DOMAIN Owners :
              \/ router'.eps[i].alive = FALSE
              \/ /\ router'.eps[i].queue = router.eps[i].queue
                 /\ router'.eps[i].depth = router.eps[i].depth
    PROVE  WakeInv'
<1>0. /\ Good(router', blocked') /\ DOMAIN router'.eps = DOMAIN Owners
      /\ Calling /\ \A i \in DOMAIN Owners : BalancedAt(i)
  BY DEF IpcInv, Good, Parking, WakeInv
<1>1. Calling'
  <2> SUFFICES ASSUME NEW q \in Pid
               PROVE  /\ CallOK(call'[q], blocked'[q], caps'[q])
                      /\ call'[q] # None => q \notin exited'
    BY DEF Calling
  <2>1. CASE q \in P BY <2>1 DEF CallOK
  <2>2. CASE q \notin P
    <3>1. /\ call'[q] = call[q] /\ caps'[q] = caps[q]
          /\ q \in exited' => q \in exited
          /\ blocked'[q] \in {None, blocked[q]}
      BY <2>2 DEF Frame
    <3>2. CallOK(call[q], blocked[q], caps[q]) /\ (call[q] # None => q \notin exited)
      BY <1>0 DEF Calling
    <3>3. CallOK(call[q], None, caps[q]) BY <3>2 DEF CallOK
    <3>4. QED BY <3>1, <3>2, <3>3
  <2>3. QED BY <2>1, <2>2
<1>2. ASSUME NEW i \in DOMAIN Owners
      PROVE  BalancedAt(i)'
  <2>1. CASE router'.eps[i].alive = FALSE
    <3>1. router'.eps[i].recv_waiters = <<>> /\ router'.eps[i].send_waiters = <<>>
      BY <1>0, <2>1, DeadIsIdle
    <3>2. QED BY <3>1 DEF BalancedAt
  <2>2. CASE /\ router'.eps[i].queue = router.eps[i].queue
             /\ router'.eps[i].depth = router.eps[i].depth
    <3>1. Uninvolved(P, i) BY DEF Uninvolved, Retries, On
    <3>2. QED BY <1>0, <2>2, <3>1, ElsewhereKept
  <2>3. QED BY <2>1, <2>2
<1>3. QED BY <1>1, <1>2 DEF WakeInv

\* cap_close, ipc_endpoint_close and exit: what is closed has no waiters left.
LEMMA WakeClose ==
    ASSUME IpcInv, IpcInv', WakeInv, NEW p \in Exits,
           (\E s \in Slot : SysCapClose(p, s) \/ EndpointClose(p, s)) \/ SysExit(p)
    PROVE  WakeInv'
<1>0. /\ Good(router, blocked) /\ Typed /\ router \in RouterState
      /\ DOMAIN router.eps = DOMAIN Owners /\ caps \in [Pid -> Table]
  BY DEF IpcInv, Good, Sound, Parking, Typed
<1>1. p \in Pid BY IpcAssumption
<1>2. /\ call[p] = None /\ call' = call /\ blocked[p] = None
      /\ exited' \in {exited, exited \cup {p}}
  BY DEF SysCapClose, EndpointClose, SysExit, Runs
<1>3. \A q \in Pid : q # p => caps'[q] = caps[q]
  BY <1>0 DEF SysCapClose, EndpointClose, SysExit
<1>4. \A q \in Pid : blocked'[q] \in {None, blocked[q]}
  BY DEF SysCapClose, EndpointClose, SysExit, Woken
<1>5. PICK P : P = {p} OBVIOUS
<1>6. Frame(P) BY <1>2, <1>3, <1>4, <1>5 DEF Frame
<1>7. \A q \in P : call[q] = None /\ call'[q] = None /\ blocked'[q] = None
  BY <1>1, <1>2, <1>4, <1>5
<1>8. ASSUME NEW i \in DOMAIN Owners
      PROVE  \/ router'.eps[i].alive = FALSE
             \/ /\ router'.eps[i].queue = router.eps[i].queue
                /\ router'.eps[i].depth = router.eps[i].depth
  <2>1. router.eps[i] \in Endpoint BY <1>0, RouterFields
  <2>2. Closed(router.eps[i]).alive = FALSE BY <2>1, ClosedFields
  <2>3. CASE \E s \in Slot : SysCapClose(p, s) \/ EndpointClose(p, s)
    <3>1. router' = router \/ \E c : router' = CloseEndpoint(router, c)
      BY <2>3 DEF SysCapClose, EndpointClose
    <3>2. ASSUME NEW c PROVE CloseEndpoint(router, c).eps[i] \in
                               {router.eps[i], Closed(router.eps[i])}
      <4>1. CASE ~EndpointAlive(router, c) BY <4>1 DEF CloseEndpoint
      <4>2. CASE EndpointAlive(router, c)
        <5>1. CloseEndpoint(router, c).eps = [router.eps EXCEPT ![c] = Closed(router.eps[c])]
          BY <4>2 DEF CloseEndpoint, RecomputeAccounting
        <5>2. QED BY <1>0, <5>1
      <4>3. QED BY <4>1, <4>2
    <3>3. router'.eps[i] \in {router.eps[i], Closed(router.eps[i])} BY <3>1, <3>2
    <3>4. QED BY <2>2, <3>3
  <2>4. CASE SysExit(p)
    <3>1. PICK r : r = CloseEndpointsForOwner(router, p) OBVIOUS
    <3>2. r.eps[i] \in {router.eps[i], Closed(router.eps[i])}
      BY <1>0, <3>1 DEF CloseEndpointsForOwner, RecomputeAccounting
    <3>3. DOMAIN r.eps = DOMAIN Owners
      BY <1>0, <3>1 DEF CloseEndpointsForOwner, RecomputeAccounting
    <3>4. r \in RouterState BY <1>0, <1>1, <3>1, CreateCloseType
    <3>5. OnlyWaiters(r, router') BY <1>1, <2>4, <3>1, <3>4, OnlyWaitersAll DEF SysExit
    <3>6. /\ router'.eps[i].queue = r.eps[i].queue /\ router'.eps[i].depth = r.eps[i].depth
          /\ router'.eps[i].alive = r.eps[i].alive
      BY <3>3, <3>5 DEF OnlyWaiters, SameContents, SameIdentity
    <3>7. QED BY <2>2, <3>2, <3>6
  <2>5. QED BY <2>3, <2>4
<1>9. QED BY <1>6, <1>7, <1>8, QuietStep

\* The timer wakes the tasks whose deadline has passed; they retry.
LEMMA WakeTimer ==
    ASSUME IpcInv, IpcInv', WakeInv, TimerTick \/ TimePasses
    PROVE  WakeInv'
<1>0. Good(router, blocked) /\ DOMAIN router.eps = DOMAIN Owners BY DEF IpcInv, Good, Parking
<1>1. PICK P : P = {} OBVIOUS
<1>2. Frame(P) BY DEF TimerTick, TimePasses, Frame, Woken
<1>3. router' = router \/ OnlyWaiters(router, router')
  <2>1. CASE TimePasses BY <2>1 DEF TimePasses
  <2>2. CASE TimerTick
    <3>1. PICK S : S = ExpiredIpc(blocked) OBVIOUS
    <3>2. S \subseteq {p \in Pid : blocked[p] # None} BY <3>1 DEF ExpiredIpc, Expired
    <3>3. router' = Deregister(router, blocked, S) BY <2>2, <3>1 DEF TimerTick
    <3>4. QED BY <1>0, <3>2, <3>3, GoodDeregister
  <2>3. QED BY <2>1, <2>2
<1>4. \A i \in DOMAIN Owners :
        /\ router'.eps[i].queue = router.eps[i].queue
        /\ router'.eps[i].depth = router.eps[i].depth
  BY <1>0, <1>3 DEF OnlyWaiters, SameContents, SameIdentity
<1>5. QED BY <1>1, <1>2, <1>4, QuietStep

\* At the start nobody waits.
LEMMA WakeInit == Init => WakeInv
<1> SUFFICES ASSUME Init PROVE WakeInv OBVIOUS
<1>1. \A i \in DOMAIN Owners : /\ router.eps[i].queue = <<>> /\ router.eps[i].recv_waiters = <<>>
                               /\ router.eps[i].send_waiters = <<>>
  BY DEF Init, WithDepth
<1>3. \A p \in Pid : call[p] = None /\ blocked[p] = None BY DEF Init
<1>4. Calling BY <1>3 DEF Calling, CallOK
<1>5. \A i \in DOMAIN Owners : BalancedAt(i) BY <1>1 DEF BalancedAt
<1>6. QED BY <1>4, <1>5 DEF WakeInv

\* Every step keeps the balance of wake-ups.
LEMMA WakeInductive ==
    ASSUME Legacy = {}
    PROVE  IpcInv /\ IpcInv' /\ BudgetsSuffice /\ MovesGoThrough /\ WakeInv /\ [Next]_vars => WakeInv'
<1> SUFFICES ASSUME IpcInv, IpcInv', BudgetsSuffice, MovesGoThrough, WakeInv, [Next]_vars
             PROVE  WakeInv'
  OBVIOUS
<1>1. ASSUME NEW p \in Pid, Step(p) PROVE WakeInv'
  BY <1>1, WakeSendOk, WakeSendWait, WakeSendFail, WakeRecvOk, WakeRecvWait, WakeRecvFail DEF Step
<1>2. CASE UNCHANGED vars
  <2>1. PICK P : P = {} OBVIOUS
  <2>2. Frame(P) BY <1>2 DEF vars, Frame
  <2>3. router' = router BY <1>2 DEF vars
  <2>4. QED BY <2>1, <2>2, <2>3, QuietStep
<1>3. QED BY <1>1, <1>2, WakeClose, WakeTimer DEF Next

\* Balance leaves nobody stranded.
LEMMA BalancedNotStranded ==
    ASSUME IpcInv, WakeInv PROVE NoStranded
<1>0. /\ router \in RouterState /\ DOMAIN router.eps = DOMAIN Owners
      /\ \A i \in DOMAIN Owners : BalancedAt(i)
  BY DEF IpcInv, Good, Sound, Parking, WakeInv
<1>1. ASSUME NEW op, NEW i, Cardinality(Retriers(op, i)) # 0
      PROVE  \E p \in Pid : Retries(p, op, i)
  BY <1>1, FS_EmptySet DEF Retriers
<1>2. ASSUME NEW i \in DOMAIN router.eps
      PROVE  Len(router.eps[i].queue) \in Nat /\ router.eps[i].depth \in Nat
             /\ (router.eps[i].queue # <<>> => Len(router.eps[i].queue) # 0)
  BY <1>0, RouterFields, EndpointFields
<1>3. NoStrandedReceiver
  <2> SUFFICES ASSUME NEW i \in DOMAIN router.eps, router.eps[i].recv_waiters # <<>>,
                      router.eps[i].queue # <<>>
               PROVE  \E p \in Pid : Retries(p, "recv", i)
    BY DEF NoStrandedReceiver
  <2>1. Len(router.eps[i].queue) <= Cardinality(Retriers("recv", i)) BY <1>0 DEF BalancedAt
  <2>2. PICK n \in Nat : n = Cardinality(Retriers("recv", i)) BY RetriersNat
  <2>3. n # 0 BY <1>2, <2>1, <2>2
  <2>4. QED BY <1>1, <2>2, <2>3
<1>4. NoStrandedSender
  <2> SUFFICES ASSUME NEW i \in DOMAIN router.eps, router.eps[i].send_waiters # <<>>,
                      Len(router.eps[i].queue) < router.eps[i].depth
               PROVE  \E p \in Pid : Retries(p, "send", i)
    BY DEF NoStrandedSender
  <2>1. router.eps[i].depth <= Len(router.eps[i].queue) + Cardinality(Retriers("send", i))
    BY <1>0 DEF BalancedAt
  <2>2. PICK n \in Nat : n = Cardinality(Retriers("send", i)) BY RetriersNat
  <2>3. n # 0 BY <1>2, <2>1, <2>2
  <2>4. QED BY <1>1, <2>2, <2>3
<1>5. QED BY <1>3, <1>4 DEF NoStranded

\* One wake-up per message and per place is enough, for any number of tasks
\* and endpoints, with capabilities moved along: without first-generation
\* calls, and as long as no byte budget refuses a send, receivers have slots
\* for the capabilities sent to them and no endpoint is closed whose
\* capability a waiting sender moves, nobody sleeps next to what he waits for
\* unless a woken task is on its way to it (ipc_send_v1, ipc_recv_v1).  Each
\* hypothesis is needed: a first-generation call wakes nobody; a woken sender
\* that a budget refuses, or whose capability names an endpoint closed
\* meanwhile, leaves the place it was woken for, and a woken receiver with a
\* full table the message, while the others sleep on.
THEOREM IpcNoStranded ==
    ASSUME Legacy = {}
    PROVE  Spec /\ []BudgetsSuffice /\ []MovesGoThrough => []NoStranded
<1>1. Init => WakeInv BY WakeInit
<1>2. IpcInv /\ IpcInv' /\ BudgetsSuffice /\ MovesGoThrough /\ WakeInv /\ [Next]_vars => WakeInv'
  BY WakeInductive
<1>3. Spec /\ []BudgetsSuffice /\ []MovesGoThrough => []WakeInv
  BY <1>1, <1>2, AlwaysIpcInv, PTL DEF Spec
<1>4. IpcInv /\ WakeInv => NoStranded BY BalancedNotStranded
<1>5. QED BY <1>3, <1>4, AlwaysIpcInv, PTL
=============================================================================
