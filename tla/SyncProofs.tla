----------------------------- MODULE SyncProofs -----------------------------
(***************************************************************************)
(* Proofs about waitsets and fences: no waiter sleeps past its event, for  *)
(* every number of tasks, endpoints, waitsets and fences.                  *)
(*                                                                         *)
(* Unlike a receiver, a task in waitset_wait is in several waiter queues,  *)
(* and a wake-up takes it off one of them only.  Waits says what is left   *)
(* behind: a task is in a receiver queue only if it is parked there or if  *)
(* the endpoint is a member of the waitset of the call that it will make   *)
(* again, and that call begins with clearing those members.                *)
(***************************************************************************)
EXTENDS KernelSync, IpcProofs

\* The one receiver of each endpoint.
Rcv == CHOOSE rcv : OneReceiver(rcv)

(* Who is in which queue: W[p] are the endpoints that p's call watches *)

Reasons(b, W) ==
    \A p \in Pid : b[p] # None =>
        /\ b[p].on = "waitset" => b[p].eps = W[p]
        /\ b[p].on # "waitset" => W[p] = {}
        /\ b[p].on \in {"send", "recv"} => \E i : b[p].eps = {i}
        /\ b[p].on = "recv" => \A i \in b[p].eps : Rcv[i] = p

Watching(W) == \A p \in Pid : \A i \in W[p] : Rcv[i] = p

Queued(r, b, W) ==
    \A p \in Pid, i \in DOMAIN r.eps :
        /\ p \in Elements(r.eps[i].recv_waiters) => On(b, p, "recv", i) \/ i \in W[p]
        /\ p \in Elements(r.eps[i].send_waiters) => On(b, p, "send", i)
        /\ On(b, p, "waitset", i) /\ r.eps[i].alive => p \in Elements(r.eps[i].recv_waiters)

Waits(r, b, W) == Reasons(b, W) /\ Watching(W) /\ Queued(r, b, W)

\* Nobody sleeps next to a message of his waitset.
Quiet(r, b) ==
    \A p \in Pid, i \in DOMAIN r.eps : On(b, p, "waitset", i) => ~Pending(r, i)

Tidy(r) == r \in RouterState /\ WaitersOf(r) /\ DOMAIN r.eps = DOMAIN Owners

Core(r, b, W) ==
    /\ Tidy(r) /\ b \in [Pid -> {None} \cup SyncReason]
    /\ Waits(r, b, W) /\ Quiet(r, b)

\* In s the tasks S are off the queues where they are parked as senders or
\* receivers, and nobody else is off a queue of a live endpoint.
Lets(r, s, b, S) ==
    /\ DOMAIN s.eps = DOMAIN r.eps
    /\ \A i \in DOMAIN r.eps, p \in Pid :
         /\ p \in Elements(s.eps[i].recv_waiters) =>
              p \in Elements(r.eps[i].recv_waiters) /\ ~(p \in S /\ On(b, p, "recv", i))
         /\ p \in Elements(s.eps[i].send_waiters) =>
              p \in Elements(r.eps[i].send_waiters) /\ p \notin S
         /\ p \in Elements(r.eps[i].recv_waiters) /\ p \notin S /\ s.eps[i].alive =>
              p \in Elements(s.eps[i].recv_waiters)
         /\ s.eps[i].alive => r.eps[i].alive

\* What waking does to the block reasons.
LEMMA WokenFacts ==
    ASSUME NEW b \in [Pid -> {None} \cup SyncReason], NEW S
    PROVE  /\ Woken(b, S) \in [Pid -> {None} \cup SyncReason]
           /\ \A p \in Pid : Woken(b, S)[p] = IF p \in S THEN None ELSE b[p]
           /\ \A p \in Pid : \A on, i : On(Woken(b, S), p, on, i) <=> p \notin S /\ On(b, p, on, i)
           /\ (\A p \in Pid : p \in S => b[p] = None) => Woken(b, S) = b
<1>1. Woken(b, S) \in [Pid -> {None} \cup SyncReason] BY DEF Woken
<1>2. \A p \in Pid : Woken(b, S)[p] = IF p \in S THEN None ELSE b[p] BY DEF Woken
<1>3. \A p \in Pid : \A on, i : On(Woken(b, S), p, on, i) <=> p \notin S /\ On(b, p, on, i)
  BY <1>2 DEF On
<1>4. ASSUME \A p \in Pid : p \in S => b[p] = None PROVE Woken(b, S) = b
  BY <1>1, <1>2, <1>4
<1>5. QED BY <1>1, <1>2, <1>3, <1>4

\* Waking the tasks that leave the queues.
LEMMA WakeWaits ==
    ASSUME NEW r, NEW b \in [Pid -> {None} \cup SyncReason], NEW W, Waits(r, b, W),
           NEW s, NEW S, Lets(r, s, b, S)
    PROVE  Waits(s, Woken(b, S), W)
<1>1. PICK w : w = Woken(b, S) OBVIOUS
<1>2. \A p \in Pid : w[p] = IF p \in S THEN None ELSE b[p] BY <1>1, WokenFacts
<1>3. \A p \in Pid : \A on, i : On(w, p, on, i) <=> p \notin S /\ On(b, p, on, i)
  BY <1>1, WokenFacts
<1>4. Reasons(w, W) BY <1>2 DEF Waits, Reasons
<1>5. ASSUME NEW p \in Pid, NEW i \in DOMAIN s.eps
      PROVE  /\ p \in Elements(s.eps[i].recv_waiters) => On(w, p, "recv", i) \/ i \in W[p]
             /\ p \in Elements(s.eps[i].send_waiters) => On(w, p, "send", i)
             /\ On(w, p, "waitset", i) /\ s.eps[i].alive => p \in Elements(s.eps[i].recv_waiters)
  <2>1. i \in DOMAIN r.eps BY DEF Lets
  <2>2. /\ p \in Elements(r.eps[i].recv_waiters) => On(b, p, "recv", i) \/ i \in W[p]
        /\ p \in Elements(r.eps[i].send_waiters) => On(b, p, "send", i)
        /\ On(b, p, "waitset", i) /\ r.eps[i].alive => p \in Elements(r.eps[i].recv_waiters)
    BY <2>1 DEF Waits, Queued
  <2>3. /\ p \in Elements(s.eps[i].recv_waiters) =>
              p \in Elements(r.eps[i].recv_waiters) /\ ~(p \in S /\ On(b, p, "recv", i))
        /\ p \in Elements(s.eps[i].send_waiters) =>
              p \in Elements(r.eps[i].send_waiters) /\ p \notin S
        /\ p \in Elements(r.eps[i].recv_waiters) /\ p \notin S /\ s.eps[i].alive =>
              p \in Elements(s.eps[i].recv_waiters)
        /\ s.eps[i].alive => r.eps[i].alive
    BY <2>1 DEF Lets
  <2>4. QED BY <1>3, <2>2, <2>3
<1>6. QED BY <1>1, <1>4, <1>5 DEF Waits, Queued

\* Waking keeps the sleepers' endpoints empty, if no message is added.
LEMMA WakeQuiet ==
    ASSUME NEW r, NEW b \in [Pid -> {None} \cup SyncReason], Quiet(r, b), NEW s, NEW S,
           DOMAIN s.eps = DOMAIN r.eps, \A i \in DOMAIN r.eps : Pending(s, i) => Pending(r, i)
    PROVE  Quiet(s, Woken(b, S))
BY WokenFacts DEF Quiet

\* A running task is in no sender queue and, if its call watches nothing, in
\* no receiver queue.
LEMMA RunningOff ==
    ASSUME NEW r, NEW b, NEW W, Waits(r, b, W), NEW p \in Pid, b[p] = None,
           NEW i \in DOMAIN r.eps
    PROVE  /\ p \notin Elements(r.eps[i].send_waiters)
           /\ W[p] = {} => p \notin Elements(r.eps[i].recv_waiters)
BY DEF Waits, Queued, On

\* A task that is in a receiver queue is the endpoint's receiver.
LEMMA QueuedIsReceiver ==
    ASSUME NEW r, NEW b, NEW W, Waits(r, b, W), NEW p \in Pid, NEW i \in DOMAIN r.eps,
           p \in Elements(r.eps[i].recv_waiters)
    PROVE  Rcv[i] = p
BY DEF Waits, Queued, Reasons, Watching, On

\* A task that is parked as a sender or receiver is in one queue.
LEMMA ParkedAtOne ==
    ASSUME NEW r, NEW b, NEW W, Waits(r, b, W), NEW p \in Pid,
           NEW i \in DOMAIN r.eps, NEW j \in DOMAIN r.eps
    PROVE  /\ On(b, p, "recv", i) =>
                /\ p \in Elements(r.eps[j].recv_waiters) => i = j
                /\ p \notin Elements(r.eps[j].send_waiters)
           /\ p \in Elements(r.eps[i].send_waiters) =>
                /\ p \in Elements(r.eps[j].send_waiters) => i = j
                /\ p \notin Elements(r.eps[j].recv_waiters)
<1>1. /\ p \in Elements(r.eps[j].recv_waiters) => On(b, p, "recv", j) \/ j \in W[p]
      /\ p \in Elements(r.eps[j].send_waiters) => On(b, p, "send", j)
      /\ p \in Elements(r.eps[i].send_waiters) => On(b, p, "send", i)
  BY DEF Waits, Queued
<1>2. b[p] # None /\ b[p].on \in {"send", "recv"} => W[p] = {} /\ \E k : b[p].eps = {k}
  BY DEF Waits, Reasons
<1>3. "recv" # "send" OBVIOUS
<1>4. QED BY <1>1, <1>2, <1>3 DEF On

-----------------------------------------------------------------------------
(* One lemma per operation on routers *)

\* The queues of a tidy router.
LEMMA TidyQueues ==
    ASSUME NEW r, Tidy(r), NEW i \in DOMAIN r.eps
    PROVE  /\ r \in RouterState /\ r.eps[i] \in Endpoint
           /\ r.eps[i].recv_waiters \in Seq(Pid) /\ IsDistinct(r.eps[i].recv_waiters)
           /\ r.eps[i].send_waiters \in Seq(Pid) /\ IsDistinct(r.eps[i].send_waiters)
           /\ Elements(r.eps[i].recv_waiters) \subseteq Pid
           /\ Elements(r.eps[i].send_waiters) \subseteq Pid
<1>1. r \in RouterState /\ WaitersOf(r) BY DEF Tidy
<1>2. r.eps[i] \in Endpoint BY <1>1, RouterFields
<1>3. r.eps[i].recv_waiters \in Seq(Pid) /\ r.eps[i].send_waiters \in Seq(Pid)
  BY <1>2, EndpointFields
<1>4. \A ws \in Seq(Pid) : Elements(ws) \subseteq Pid BY DEF Elements
<1>5. QED BY <1>1, <1>2, <1>3, <1>4 DEF WaitersOf

\* s has other waiters than r, and no duplicates or waiters of the dead.
LEMMA TidyWaiters ==
    ASSUME NEW r, Tidy(r), NEW s, OnlyWaiters(r, s),
           \A i \in DOMAIN r.eps :
             /\ IsDistinct(s.eps[i].recv_waiters) /\ IsDistinct(s.eps[i].send_waiters)
             /\ ~r.eps[i].alive => /\ Elements(s.eps[i].recv_waiters) = {}
                                   /\ Elements(s.eps[i].send_waiters) = {}
    PROVE  Tidy(s)
<1>1. s \in RouterState /\ DOMAIN s.eps = DOMAIN r.eps BY DEF OnlyWaiters
<1>2. \A x : ToSet(x) = Elements(x) BY DEF ToSet, Elements
<1>3. ASSUME NEW i \in DOMAIN s.eps PROVE Clean(s.eps[i])
  <2>1. Clean(r.eps[i]) BY <1>1, WaitersAreClean DEF Tidy
  <2>2. s.eps[i].alive = r.eps[i].alive /\ s.eps[i].queue = r.eps[i].queue
    BY <1>1 DEF OnlyWaiters, SameContents
  <2>3. QED BY <1>1, <1>2, <2>1, <2>2 DEF Clean, Waiters
<1>4. QED BY <1>1, <1>3, WaitersAreClean DEF Tidy

\* Changing waiters adds no message.
LEMMA OnlyWaitersPending ==
    ASSUME NEW r, NEW s, OnlyWaiters(r, s)
    PROVE  \A i : Pending(s, i) <=> Pending(r, i)
BY DEF OnlyWaiters, SameContents, Pending, EndpointAlive

\* The endpoint vector e differs from that of r in the waiters only.
Remapped(r, e) ==
    /\ e = [i \in DOMAIN r.eps |-> e[i]]
    /\ \A i \in DOMAIN r.eps :
         /\ e[i] \in Endpoint /\ SameIdentity(e[i], r.eps[i])
         /\ SameContents(e[i], r.eps[i]) /\ e[i].alive = r.eps[i].alive

\* Replacing the endpoints by ones that differ in their waiters.
LEMMA MapWaiters ==
    ASSUME NEW r \in RouterState, NEW e, Remapped(r, e), NEW s, s = [r EXCEPT !.eps = e]
    PROVE  OnlyWaiters(r, s) /\ s.eps = e
<1>1. DOMAIN r.eps = 1..Len(r.eps) /\ Len(r.eps) \in Nat BY RouterFields
<1>2. DOMAIN e = DOMAIN r.eps BY DEF Remapped
<1>3. e \in [1..Len(r.eps) -> Endpoint] BY <1>1 DEF Remapped
<1>4. e \in Seq(Endpoint) BY <1>1, <1>3
<1>5. s.eps = e /\ s.total = r.total /\ s.owned = r.owned BY DEF RouterState
<1>6. s \in RouterState BY <1>4, EpsField
<1>7. QED BY <1>2, <1>5, <1>6 DEF OnlyWaiters, Remapped

\* x is the endpoint ep with the given waiters.
WaitersSet(x, ep, ws, xs) ==
    /\ x \in Endpoint /\ x.recv_waiters = ws /\ x.send_waiters = xs
    /\ SameIdentity(x, ep) /\ SameContents(x, ep) /\ x.alive = ep.alive

LEMMA WithBoth ==
    ASSUME NEW ep \in Endpoint, NEW ws \in Seq(Pid), NEW xs \in Seq(Pid)
    PROVE  WaitersSet([ep EXCEPT !.recv_waiters = ws, !.send_waiters = xs], ep, ws, xs)
<1>1. PICK x : x = [ep EXCEPT !.recv_waiters = ws, !.send_waiters = xs] OBVIOUS
<1>2. x \in Endpoint BY <1>1, WaiterFields
<1>3. /\ x.recv_waiters = ws /\ x.send_waiters = xs /\ x.alive = ep.alive
      /\ SameIdentity(x, ep) /\ SameContents(x, ep)
  BY <1>1 DEF Endpoint, SameIdentity, SameContents
<1>4. QED BY <1>1, <1>2, <1>3 DEF WaitersSet

LEMMA WithRecv ==
    ASSUME NEW ep \in Endpoint, NEW ws \in Seq(Pid)
    PROVE  WaitersSet([ep EXCEPT !.recv_waiters = ws], ep, ws, ep.send_waiters)
<1>1. PICK x : x = [ep EXCEPT !.recv_waiters = ws] OBVIOUS
<1>2. x \in Endpoint BY <1>1, WaiterFields
<1>3. /\ x.recv_waiters = ws /\ x.send_waiters = ep.send_waiters /\ x.alive = ep.alive
      /\ SameIdentity(x, ep) /\ SameContents(x, ep)
  BY <1>1 DEF Endpoint, SameIdentity, SameContents
<1>4. QED BY <1>1, <1>2, <1>3 DEF WaitersSet

\* The parking that a task is taken off by Deregister.
ParkedRecv(b, S, i) == {p \in S : b[p].on \in {"recv", "waitset"} /\ i \in b[p].eps}
ParkedSend(b, S, i) == {p \in S : b[p].on \in {"send"} /\ i \in b[p].eps}

\* Deregister: what is left in the queues.
LEMMA DeregisterEffect ==
    ASSUME NEW r, Tidy(r), NEW b, NEW S
    PROVE  /\ OnlyWaiters(r, Deregister(r, b, S)) /\ Tidy(Deregister(r, b, S))
           /\ \A i \in DOMAIN r.eps :
                /\ Elements(Deregister(r, b, S).eps[i].recv_waiters)
                     = Elements(r.eps[i].recv_waiters) \ ParkedRecv(b, S, i)
                /\ Elements(Deregister(r, b, S).eps[i].send_waiters)
                     = Elements(r.eps[i].send_waiters) \ ParkedSend(b, S, i)
<1>1. r \in RouterState BY DEF Tidy
<1> DEFINE V(i) == WithoutAll(r.eps[i].recv_waiters, ParkedRecv(b, S, i))
           X(i) == WithoutAll(r.eps[i].send_waiters, ParkedSend(b, S, i))
           N(i) == [r.eps[i] EXCEPT !.recv_waiters = V(i), !.send_waiters = X(i)]
<1>2. PICK s : s = Deregister(r, b, S) OBVIOUS
<1>3. PICK e : e = [i \in DOMAIN r.eps |-> N(i)] OBVIOUS
<1>4. s = [r EXCEPT !.eps = e] BY <1>2, <1>3 DEF Deregister, ParkedRecv, ParkedSend
<1>5. ASSUME NEW i \in DOMAIN r.eps
      PROVE  /\ N(i) \in Endpoint /\ SameIdentity(N(i), r.eps[i])
             /\ SameContents(N(i), r.eps[i]) /\ N(i).alive = r.eps[i].alive
             /\ IsDistinct(N(i).recv_waiters) /\ IsDistinct(N(i).send_waiters)
             /\ Elements(N(i).recv_waiters)
                  = Elements(r.eps[i].recv_waiters) \ ParkedRecv(b, S, i)
             /\ Elements(N(i).send_waiters)
                  = Elements(r.eps[i].send_waiters) \ ParkedSend(b, S, i)
  <2>1. PICK ep \in Endpoint : ep = r.eps[i] BY TidyQueues
  <2>2. PICK R1 : R1 = ParkedRecv(b, S, i) OBVIOUS
  <2>3. PICK T1 : T1 = ParkedSend(b, S, i) OBVIOUS
  <2>4. /\ ep.recv_waiters \in Seq(Pid) /\ IsDistinct(ep.recv_waiters)
        /\ ep.send_waiters \in Seq(Pid) /\ IsDistinct(ep.send_waiters)
    BY <2>1, TidyQueues
  <2>5. PICK ws : ws = WithoutAll(ep.recv_waiters, R1) OBVIOUS
  <2>6. PICK xs : xs = WithoutAll(ep.send_waiters, T1) OBVIOUS
  <2>7. /\ ws \in Seq(Pid) /\ IsDistinct(ws) /\ Elements(ws) = Elements(ep.recv_waiters) \ R1
        /\ xs \in Seq(Pid) /\ IsDistinct(xs) /\ Elements(xs) = Elements(ep.send_waiters) \ T1
    BY <2>4, <2>5, <2>6, WithoutAllProperties
  <2>8. PICK x : x = [ep EXCEPT !.recv_waiters = ws, !.send_waiters = xs] OBVIOUS
  <2>9. /\ x \in Endpoint /\ x.recv_waiters = ws /\ x.send_waiters = xs
        /\ SameIdentity(x, ep) /\ SameContents(x, ep) /\ x.alive = ep.alive
    <3>1. WaitersSet(x, ep, ws, xs) BY <2>7, <2>8, WithBoth
    <3>2. QED BY <3>1 DEF WaitersSet
  <2>10. N(i) = x BY <2>1, <2>2, <2>3, <2>5, <2>6, <2>8
  <2> HIDE DEF N
  <2>11. QED BY <2>1, <2>2, <2>3, <2>7, <2>9, <2>10
<1> HIDE DEF N
<1>6. DOMAIN e = DOMAIN r.eps /\ \A i \in DOMAIN r.eps : e[i] = N(i) BY <1>3
<1>7. Remapped(r, e)
  <2>1. e = [i \in DOMAIN r.eps |-> e[i]] BY <1>3, <1>6
  <2>2. QED BY <1>5, <1>6, <2>1 DEF Remapped
<1>8. OnlyWaiters(r, s) /\ s.eps = e BY <1>1, <1>4, <1>7, MapWaiters
<1>9. ASSUME NEW i \in DOMAIN r.eps, ~r.eps[i].alive
      PROVE  Elements(r.eps[i].recv_waiters) = {} /\ Elements(r.eps[i].send_waiters) = {}
  BY <1>9 DEF Tidy, WaitersOf, Waiters, ToSet, Elements
<1>10. Tidy(s) BY <1>5, <1>6, <1>8, <1>9, TidyWaiters
<1>11. QED BY <1>2, <1>5, <1>6, <1>8, <1>10

\* Tasks that are taken off the endpoints they are parked on, and woken.
LEMMA CoreDeregister ==
    ASSUME NEW r, NEW b, NEW W, Core(r, b, W), NEW S, S \subseteq {p \in Pid : b[p] # None}
    PROVE  Core(Deregister(r, b, S), Woken(b, S), W)
<1>1. /\ Tidy(r) /\ b \in [Pid -> {None} \cup SyncReason] /\ Waits(r, b, W) /\ Quiet(r, b)
  BY DEF Core
<1>2. PICK s : s = Deregister(r, b, S) OBVIOUS
<1>3. /\ OnlyWaiters(r, s) /\ Tidy(s)
      /\ \A i \in DOMAIN r.eps :
           /\ Elements(s.eps[i].recv_waiters)
                = Elements(r.eps[i].recv_waiters) \ ParkedRecv(b, S, i)
           /\ Elements(s.eps[i].send_waiters)
                = Elements(r.eps[i].send_waiters) \ ParkedSend(b, S, i)
  BY <1>1, <1>2, DeregisterEffect
<1>4. DOMAIN s.eps = DOMAIN r.eps BY <1>3 DEF OnlyWaiters
<1>5. ASSUME NEW i \in DOMAIN r.eps, NEW p \in Pid
      PROVE  /\ p \in Elements(s.eps[i].recv_waiters) =>
                  p \in Elements(r.eps[i].recv_waiters) /\ ~(p \in S /\ On(b, p, "recv", i))
             /\ p \in Elements(s.eps[i].send_waiters) =>
                  p \in Elements(r.eps[i].send_waiters) /\ p \notin S
             /\ p \in Elements(r.eps[i].recv_waiters) /\ p \notin S /\ s.eps[i].alive =>
                  p \in Elements(s.eps[i].recv_waiters)
             /\ s.eps[i].alive => r.eps[i].alive
  <2>1. s.eps[i].alive = r.eps[i].alive BY <1>3 DEF OnlyWaiters
  <2>2. p \in S /\ On(b, p, "recv", i) => p \in ParkedRecv(b, S, i) BY DEF On, ParkedRecv
  <2>3. p \in S /\ On(b, p, "send", i) => p \in ParkedSend(b, S, i) BY DEF On, ParkedSend
  <2>4. p \in Elements(r.eps[i].send_waiters) => On(b, p, "send", i)
    BY <1>1 DEF Waits, Queued
  <2>5. p \in ParkedRecv(b, S, i) => p \in S BY DEF ParkedRecv
  <2>6. QED BY <1>3, <2>1, <2>2, <2>3, <2>4, <2>5
<1>6. Lets(r, s, b, S) BY <1>4, <1>5 DEF Lets
<1>7. Waits(s, Woken(b, S), W) BY <1>1, <1>6, WakeWaits
<1>8. Quiet(s, Woken(b, S)) BY <1>1, <1>3, <1>4, OnlyWaitersPending, WakeQuiet
<1>9. QED BY <1>1, <1>2, <1>3, <1>7, <1>8, WokenFacts DEF Core

\* wake_expired_blocked.
LEMMA CoreExpired ==
    ASSUME NEW r, NEW b, NEW W, Core(r, b, W), WakeExpired(r, b)
    PROVE  Core(router', blocked', W)
<1>1. Expired(b) \subseteq {p \in Pid : b[p] # None} BY DEF Expired
<1>2. QED BY <1>1, CoreDeregister DEF WakeExpired

\* Endpoints I are closed, and their waiters are woken.
ClosesIn(r, s, I) ==
    /\ I \subseteq DOMAIN r.eps /\ DOMAIN s.eps = DOMAIN r.eps
    /\ \A i \in DOMAIN r.eps : s.eps[i] = IF i \in I THEN Closed(r.eps[i]) ELSE r.eps[i]

WaitersIn(r, I) == UNION {Waiters(r.eps[i]) : i \in I}

LEMMA CloseLets ==
    ASSUME NEW r, Tidy(r), NEW b, NEW W, Waits(r, b, W), NEW I, NEW s, ClosesIn(r, s, I)
    PROVE  /\ Lets(r, s, b, WaitersIn(r, I))
           /\ \A i \in DOMAIN r.eps : Pending(s, i) => Pending(r, i)
<1>1. PICK S : S = WaitersIn(r, I) OBVIOUS
<1>2. \A x : Waiters(x) = Elements(x.recv_waiters) \cup Elements(x.send_waiters)
  BY DEF Waiters, ToSet, Elements
<1>3. DOMAIN s.eps = DOMAIN r.eps BY DEF ClosesIn
<1>4. ASSUME NEW i \in DOMAIN r.eps, NEW p \in Pid
      PROVE  /\ p \in Elements(s.eps[i].recv_waiters) =>
                  p \in Elements(r.eps[i].recv_waiters) /\ ~(p \in S /\ On(b, p, "recv", i))
             /\ p \in Elements(s.eps[i].send_waiters) =>
                  p \in Elements(r.eps[i].send_waiters) /\ p \notin S
             /\ p \in Elements(r.eps[i].recv_waiters) /\ p \notin S /\ s.eps[i].alive =>
                  p \in Elements(s.eps[i].recv_waiters)
             /\ s.eps[i].alive => r.eps[i].alive
  <2>1. CASE i \in I
    <3>1. s.eps[i] = Closed(r.eps[i]) /\ r.eps[i] \in Endpoint BY <2>1, TidyQueues DEF ClosesIn
    <3>2. s.eps[i].recv_waiters = <<>> /\ s.eps[i].send_waiters = <<>> /\ s.eps[i].alive = FALSE
      BY <3>1, ClosedFields
    <3>3. Elements(<<>>) = {} BY DEF Elements
    <3>4. QED BY <3>2, <3>3
  <2>2. CASE i \notin I
    <3>1. s.eps[i] = r.eps[i] BY <2>2 DEF ClosesIn
    <3>2. ASSUME p \in S
          PROVE  ~On(b, p, "recv", i) /\ p \notin Elements(r.eps[i].send_waiters)
      <4>1. PICK j \in I : p \in Waiters(r.eps[j]) BY <1>1, <3>2 DEF WaitersIn
      <4>2. j \in DOMAIN r.eps /\ j # i BY <2>2 DEF ClosesIn
      <4>3. p \in Elements(r.eps[j].recv_waiters) \/ p \in Elements(r.eps[j].send_waiters)
        BY <1>2, <4>1
      <4>4. QED BY <4>2, <4>3, ParkedAtOne
    <3>3. QED BY <3>1, <3>2
  <2>3. QED BY <2>1, <2>2
<1>5. ASSUME NEW i \in DOMAIN r.eps, Pending(s, i) PROVE Pending(r, i)
  <2>1. CASE i \in I
    <3>1. s.eps[i] = Closed(r.eps[i]) /\ r.eps[i] \in Endpoint BY <2>1, TidyQueues DEF ClosesIn
    <3>2. QED BY <1>5, <3>1, ClosedFields DEF Pending
  <2>2. CASE i \notin I BY <1>3, <1>5, <2>2 DEF ClosesIn, Pending, EndpointAlive
  <2>3. QED BY <2>1, <2>2
<1>6. QED BY <1>1, <1>3, <1>4, <1>5 DEF Lets

LEMMA CoreClosing ==
    ASSUME NEW r, NEW b, NEW W, Core(r, b, W), NEW I, NEW s, Tidy(s), ClosesIn(r, s, I)
    PROVE  Core(s, Woken(b, WaitersIn(r, I)), W)
<1>1. /\ Tidy(r) /\ b \in [Pid -> {None} \cup SyncReason] /\ Waits(r, b, W) /\ Quiet(r, b)
  BY DEF Core
<1>2. PICK S : S = WaitersIn(r, I) OBVIOUS
<1>3. Lets(r, s, b, S) /\ \A i \in DOMAIN r.eps : Pending(s, i) => Pending(r, i)
  BY <1>1, <1>2, CloseLets
<1>4. Waits(s, Woken(b, S), W) BY <1>1, <1>3, WakeWaits
<1>5. Quiet(s, Woken(b, S))
  <2>1. DOMAIN s.eps = DOMAIN r.eps BY DEF ClosesIn
  <2>2. QED BY <1>1, <1>3, <2>1, WakeQuiet
<1>6. QED BY <1>1, <1>2, <1>4, <1>5, WokenFacts DEF Core

\* close_endpoint.
LEMMA CoreClose ==
    ASSUME NEW r, NEW b, NEW W, Core(r, b, W), NEW id
    PROVE  Core(CloseEndpoint(r, id), Woken(b, DrainedByClose(r, id)), W)
<1>1. Tidy(r) /\ r \in RouterState /\ WaitersOf(r) /\ b \in [Pid -> {None} \cup SyncReason]
  BY DEF Core, Tidy
<1>2. PICK s : s = CloseEndpoint(r, id) OBVIOUS
<1>3. CASE ~EndpointAlive(r, id)
  <2>1. s = r /\ DrainedByClose(r, id) = {} BY <1>2, <1>3 DEF CloseEndpoint, DrainedByClose
  <2>2. Woken(b, {}) = b BY <1>1, WokenFacts
  <2>3. QED BY <1>2, <2>1, <2>2
<1>4. CASE EndpointAlive(r, id)
  <2>1. id \in DOMAIN r.eps BY <1>4 DEF EndpointAlive
  <2>2. s.eps = [r.eps EXCEPT ![id] = Closed(r.eps[id])]
    BY <1>2, <1>4 DEF CloseEndpoint, RecomputeAccounting
  <2>3. PICK I : I = {id} OBVIOUS
  <2>4. ClosesIn(r, s, I) BY <1>1, <2>1, <2>2, <2>3, RouterFields DEF ClosesIn
  <2>5. s \in RouterState /\ WaitersOf(s) BY <1>1, <1>2, CreateCloseType, CloseWaiters
  <2>6. Tidy(s) BY <1>1, <2>4, <2>5 DEF Tidy, ClosesIn
  <2>7. WaitersIn(r, I) = DrainedByClose(r, id) BY <1>4, <2>3 DEF DrainedByClose, WaitersIn
  <2>8. Core(s, Woken(b, WaitersIn(r, I)), W) BY <2>4, <2>6, CoreClosing
  <2>9. QED BY <1>2, <2>7, <2>8
<1>5. QED BY <1>3, <1>4

\* close_endpoints_for_owner.
LEMMA CoreCloseOwner ==
    ASSUME NEW r, NEW b, NEW W, Core(r, b, W), NEW p \in Pid
    PROVE  Core(CloseEndpointsForOwner(r, p), Woken(b, DrainedByOwner(r, p)), W)
<1>1. Tidy(r) /\ r \in RouterState /\ WaitersOf(r) BY DEF Core, Tidy
<1>2. PICK s : s = CloseEndpointsForOwner(r, p) OBVIOUS
<1>3. PICK I : I = AliveOwnedBy(r, p) OBVIOUS
<1>4. s.eps = [i \in DOMAIN r.eps |-> IF i \in I THEN Closed(r.eps[i]) ELSE r.eps[i]]
  BY <1>2, <1>3 DEF CloseEndpointsForOwner, RecomputeAccounting
<1>5. I \subseteq DOMAIN r.eps BY <1>3 DEF AliveOwnedBy
<1>6. ClosesIn(r, s, I) BY <1>4, <1>5 DEF ClosesIn
<1>7. s \in RouterState /\ WaitersOf(s) BY <1>1, <1>2, CreateCloseType, CloseWaiters
<1>8. Tidy(s) BY <1>1, <1>6, <1>7 DEF Tidy, ClosesIn
<1>9. Core(s, Woken(b, WaitersIn(r, I)), W) BY <1>6, <1>8, CoreClosing
<1>10. QED BY <1>2, <1>3, <1>9 DEF DrainedByOwner, WaitersIn

\* s is r without the running task p in the receiver queues M, and in the
\* sender queues if at all.
Withdraws(r, s, p, M) ==
    /\ OnlyWaiters(r, s) /\ Tidy(s)
    /\ \A i \in DOMAIN r.eps :
         /\ Elements(s.eps[i].recv_waiters)
              = IF i \in M THEN Elements(r.eps[i].recv_waiters) \ {p}
                           ELSE Elements(r.eps[i].recv_waiters)
         /\ Elements(s.eps[i].send_waiters) \subseteq Elements(r.eps[i].send_waiters)

LEMMA CoreWithdraw ==
    ASSUME NEW r, NEW b, NEW W, Core(r, b, W), NEW p \in Pid, b[p] = None,
           NEW M, NEW s, Withdraws(r, s, p, M)
    PROVE  Core(s, b, W)
<1>1. /\ Tidy(r) /\ b \in [Pid -> {None} \cup SyncReason] /\ Waits(r, b, W) /\ Quiet(r, b)
  BY DEF Core
<1>2. OnlyWaiters(r, s) /\ Tidy(s) /\ DOMAIN s.eps = DOMAIN r.eps
  BY DEF Withdraws, OnlyWaiters
<1>3. ASSUME NEW q \in Pid, NEW i \in DOMAIN s.eps
      PROVE  /\ q \in Elements(s.eps[i].recv_waiters) => On(b, q, "recv", i) \/ i \in W[q]
             /\ q \in Elements(s.eps[i].send_waiters) => On(b, q, "send", i)
             /\ On(b, q, "waitset", i) /\ s.eps[i].alive => q \in Elements(s.eps[i].recv_waiters)
  <2>1. i \in DOMAIN r.eps /\ s.eps[i].alive = r.eps[i].alive BY <1>2 DEF OnlyWaiters
  <2>2. /\ q \in Elements(r.eps[i].recv_waiters) => On(b, q, "recv", i) \/ i \in W[q]
        /\ q \in Elements(r.eps[i].send_waiters) => On(b, q, "send", i)
        /\ On(b, q, "waitset", i) /\ r.eps[i].alive => q \in Elements(r.eps[i].recv_waiters)
    BY <1>1, <2>1 DEF Waits, Queued
  <2>3. On(b, q, "waitset", i) => q # p BY DEF On
  <2>4. QED BY <2>1, <2>2, <2>3 DEF Withdraws
<1>4. Waits(s, b, W) BY <1>1, <1>3 DEF Waits, Queued
<1>5. Quiet(s, b) BY <1>1, <1>2, OnlyWaitersPending DEF Quiet
<1>6. QED BY <1>1, <1>2, <1>4, <1>5 DEF Core

\* remove_waiter_from_all.
LEMMA CoreRemoveAll ==
    ASSUME NEW r, NEW b, NEW W, Core(r, b, W), NEW p \in Pid, b[p] = None
    PROVE  Core(RemoveWaiterFromAll(r, p), b, W)
<1>1. Tidy(r) /\ r \in RouterState /\ WaitersOf(r) BY DEF Core, Tidy
<1>2. PICK s : s = RemoveWaiterFromAll(r, p) OBVIOUS
<1>3. OnlyWaiters(r, s) /\ WaitersOf(s) BY <1>1, <1>2, OnlyWaitersAll, RemoveAllWaiters
<1>4. Tidy(s) BY <1>1, <1>3 DEF Tidy, OnlyWaiters
<1>5. ASSUME NEW i \in DOMAIN r.eps
      PROVE  /\ Elements(s.eps[i].recv_waiters) = Elements(r.eps[i].recv_waiters) \ {p}
             /\ Elements(s.eps[i].send_waiters) = Elements(r.eps[i].send_waiters) \ {p}
  <2>1. r.eps[i] \in Endpoint BY <1>1, RouterFields
  <2>2. PICK ws : ws = RemoveWaiter(r.eps[i].recv_waiters, p) OBVIOUS
  <2>3. PICK xs : xs = RemoveWaiter(r.eps[i].send_waiters, p) OBVIOUS
  <2>4. s.eps[i] = [r.eps[i] EXCEPT !.recv_waiters = ws, !.send_waiters = xs]
    BY <1>1, <1>2, <2>2, <2>3 DEF RemoveWaiterFromAll, RouterState
  <2>5. s.eps[i].recv_waiters = ws /\ s.eps[i].send_waiters = xs BY <2>1, <2>4 DEF Endpoint
  <2>6. Elements(ws) = Elements(r.eps[i].recv_waiters) \ {p}
    BY <1>1, <2>2, TidyQueues, WaiterElements
  <2>7. Elements(xs) = Elements(r.eps[i].send_waiters) \ {p}
    BY <1>1, <2>3, TidyQueues, WaiterElements
  <2>8. QED BY <2>5, <2>6, <2>7
<1>6. PICK M : M = DOMAIN r.eps OBVIOUS
<1>7. Withdraws(r, s, p, M) BY <1>3, <1>4, <1>5, <1>6 DEF Withdraws
<1>8. QED BY <1>2, <1>7, CoreWithdraw

\* The clearing at the start of waitset_wait.
LEMMA ClearWithdraws ==
    ASSUME NEW r, Tidy(r), NEW p \in Pid, NEW M
    PROVE  Withdraws(r, ClearAll(r, p, M), p, M)
<1>1. r \in RouterState BY DEF Tidy
<1> DEFINE V(i) == RemoveWaiter(r.eps[i].recv_waiters, p)
           N(i) == IF i \in M THEN [r.eps[i] EXCEPT !.recv_waiters = V(i)] ELSE r.eps[i]
<1>2. PICK s : s = ClearAll(r, p, M) OBVIOUS
<1>3. PICK e : e = [i \in DOMAIN r.eps |-> N(i)] OBVIOUS
<1>4. s = [r EXCEPT !.eps = e] BY <1>2, <1>3 DEF ClearAll
<1>5. ASSUME NEW i \in DOMAIN r.eps
      PROVE  /\ N(i) \in Endpoint /\ SameIdentity(N(i), r.eps[i])
             /\ SameContents(N(i), r.eps[i]) /\ N(i).alive = r.eps[i].alive
             /\ IsDistinct(N(i).recv_waiters) /\ IsDistinct(N(i).send_waiters)
             /\ Elements(N(i).recv_waiters)
                  = IF i \in M THEN Elements(r.eps[i].recv_waiters) \ {p}
                               ELSE Elements(r.eps[i].recv_waiters)
             /\ N(i).send_waiters = r.eps[i].send_waiters
  <2>1. PICK ep \in Endpoint : ep = r.eps[i] BY TidyQueues
  <2>2. /\ ep.recv_waiters \in Seq(Pid) /\ IsDistinct(ep.recv_waiters)
        /\ IsDistinct(ep.send_waiters)
    BY <2>1, TidyQueues
  <2>3. PICK ws : ws = RemoveWaiter(ep.recv_waiters, p) OBVIOUS
  <2>4. ws \in Seq(Pid) /\ IsDistinct(ws) /\ Elements(ws) = Elements(ep.recv_waiters) \ {p}
    BY <2>2, <2>3, WithoutProperties DEF RemoveWaiter
  <2>5. PICK x : x = [ep EXCEPT !.recv_waiters = ws] OBVIOUS
  <2>6. WaitersSet(x, ep, ws, ep.send_waiters) BY <2>4, <2>5, WithRecv
  <2>7. CASE i \in M
    <3>1. N(i) = x BY <2>1, <2>3, <2>5, <2>7
    <3> HIDE DEF N
    <3>2. QED BY <2>1, <2>2, <2>4, <2>6, <2>7, <3>1 DEF WaitersSet
  <2>8. CASE i \notin M
    <3>1. N(i) = ep BY <2>1, <2>8
    <3> HIDE DEF N
    <3>2. QED BY <2>1, <2>2, <2>8, <3>1 DEF SameIdentity, SameContents
  <2>9. QED BY <2>7, <2>8
<1> HIDE DEF N
<1>6. DOMAIN e = DOMAIN r.eps /\ \A i \in DOMAIN r.eps : e[i] = N(i) BY <1>3
<1>7. Remapped(r, e)
  <2>1. e = [i \in DOMAIN r.eps |-> e[i]] BY <1>3, <1>6
  <2>2. QED BY <1>5, <1>6, <2>1 DEF Remapped
<1>8. OnlyWaiters(r, s) /\ s.eps = e BY <1>1, <1>4, <1>7, MapWaiters
<1>9. ASSUME NEW i \in DOMAIN r.eps, ~r.eps[i].alive
      PROVE  Elements(r.eps[i].recv_waiters) = {} /\ Elements(r.eps[i].send_waiters) = {}
  BY <1>9 DEF Tidy, WaitersOf, Waiters, ToSet, Elements
<1>10. Tidy(s)
  <2>1. ASSUME NEW i \in DOMAIN r.eps
        PROVE  /\ IsDistinct(s.eps[i].recv_waiters) /\ IsDistinct(s.eps[i].send_waiters)
               /\ ~r.eps[i].alive => /\ Elements(s.eps[i].recv_waiters) = {}
                                     /\ Elements(s.eps[i].send_waiters) = {}
    BY <1>5, <1>6, <1>8, <1>9
  <2>2. QED BY <1>8, <2>1, TidyWaiters
<1>11. QED BY <1>2, <1>5, <1>6, <1>8, <1>10 DEF Withdraws

-----------------------------------------------------------------------------
(* Parking *)

\* s is r with task p in the queues that the reason x names.
Enters(r, s, p, x) ==
    /\ OnlyWaiters(r, s) /\ Tidy(s)
    /\ \A i \in DOMAIN r.eps :
         /\ Elements(r.eps[i].recv_waiters) \subseteq Elements(s.eps[i].recv_waiters)
         /\ \A q \in Elements(s.eps[i].recv_waiters) :
              q \in Elements(r.eps[i].recv_waiters) \/ (q = p /\ x.on \in {"recv", "waitset"} /\ i \in x.eps)
         /\ \A q \in Elements(s.eps[i].send_waiters) :
              q \in Elements(r.eps[i].send_waiters) \/ (q = p /\ x.on = "send" /\ i \in x.eps)
         /\ x.on = "waitset" /\ i \in x.eps /\ r.eps[i].alive =>
              p \in Elements(s.eps[i].recv_waiters)

\* x is a reason for which p may block, its call watching W[p].
MayPark(r, p, x, W) ==
    /\ x \in SyncReason
    /\ x.on = "waitset" => x.eps = W[p] /\ \A i \in x.eps : ~Pending(r, i)
    /\ x.on # "waitset" => W[p] = {}
    /\ x.on \in {"send", "recv"} => \E i : x.eps = {i}
    /\ x.on = "recv" => \A i \in x.eps : Rcv[i] = p

LEMMA CorePark ==
    ASSUME NEW r, NEW b, NEW W, Core(r, b, W), NEW p \in Pid, b[p] = None, NEW x,
           MayPark(r, p, x, W), NEW s, Enters(r, s, p, x)
    PROVE  Core(s, [b EXCEPT ![p] = x], W)
<1>1. /\ Tidy(r) /\ b \in [Pid -> {None} \cup SyncReason] /\ Waits(r, b, W) /\ Quiet(r, b)
  BY DEF Core
<1>2. PICK w : w = [b EXCEPT ![p] = x] OBVIOUS
<1>3. w[p] = x /\ x # None /\ \A q \in Pid : q # p => w[q] = b[q]
  BY <1>1, <1>2, SyncAssumption DEF MayPark
<1>4. w \in [Pid -> {None} \cup SyncReason] BY <1>1, <1>2 DEF MayPark
<1>5. OnlyWaiters(r, s) /\ Tidy(s) /\ DOMAIN s.eps = DOMAIN r.eps BY DEF Enters, OnlyWaiters
<1>6. Reasons(w, W)
  <2>1. ASSUME NEW q \in Pid, w[q] # None
        PROVE  /\ w[q].on = "waitset" => w[q].eps = W[q]
               /\ w[q].on # "waitset" => W[q] = {}
               /\ w[q].on \in {"send", "recv"} => \E i : w[q].eps = {i}
               /\ w[q].on = "recv" => \A i \in w[q].eps : Rcv[i] = q
    <3>1. CASE q = p BY <1>3, <3>1 DEF MayPark
    <3>2. CASE q # p
      <4>1. w[q] = b[q] BY <1>3, <3>2
      <4>2. QED BY <1>1, <2>1, <4>1 DEF Waits, Reasons
    <3>3. QED BY <3>1, <3>2
  <2>2. QED BY <2>1 DEF Reasons
<1>7. ASSUME NEW q \in Pid, NEW i \in DOMAIN s.eps
      PROVE  /\ q \in Elements(s.eps[i].recv_waiters) => On(w, q, "recv", i) \/ i \in W[q]
             /\ q \in Elements(s.eps[i].send_waiters) => On(w, q, "send", i)
             /\ On(w, q, "waitset", i) /\ s.eps[i].alive => q \in Elements(s.eps[i].recv_waiters)
             /\ On(w, q, "waitset", i) => ~Pending(s, i)
  <2>1. i \in DOMAIN r.eps /\ s.eps[i].alive = r.eps[i].alive /\ (Pending(s, i) <=> Pending(r, i))
    BY <1>5, OnlyWaitersPending DEF OnlyWaiters
  <2>2. /\ q \in Elements(r.eps[i].recv_waiters) => On(b, q, "recv", i) \/ i \in W[q]
        /\ q \in Elements(r.eps[i].send_waiters) => On(b, q, "send", i)
        /\ On(b, q, "waitset", i) /\ r.eps[i].alive => q \in Elements(r.eps[i].recv_waiters)
        /\ On(b, q, "waitset", i) => ~Pending(r, i)
    BY <1>1, <2>1 DEF Waits, Queued, Quiet
  <2>3. /\ Elements(r.eps[i].recv_waiters) \subseteq Elements(s.eps[i].recv_waiters)
        /\ q \in Elements(s.eps[i].recv_waiters) =>
              q \in Elements(r.eps[i].recv_waiters) \/ (q = p /\ x.on \in {"recv", "waitset"} /\ i \in x.eps)
        /\ q \in Elements(s.eps[i].send_waiters) =>
              q \in Elements(r.eps[i].send_waiters) \/ (q = p /\ x.on = "send" /\ i \in x.eps)
        /\ x.on = "waitset" /\ i \in x.eps /\ r.eps[i].alive =>
              p \in Elements(s.eps[i].recv_waiters)
    BY <2>1 DEF Enters
  <2>4. CASE q = p
    <3>1. \A on : ~On(b, q, on, i) BY <2>4 DEF On
    <3>2. \A on : On(w, q, on, i) <=> x.on = on /\ i \in x.eps BY <1>3, <2>4 DEF On
    <3>3. x.on = "waitset" => x.eps = W[q] /\ (i \in x.eps => ~Pending(r, i))
      BY <2>4 DEF MayPark
    <3>4. QED BY <2>1, <2>2, <2>3, <2>4, <3>1, <3>2, <3>3
  <2>5. CASE q # p
    <3>1. \A on : On(w, q, on, i) <=> On(b, q, on, i) BY <1>3, <2>5 DEF On
    <3>2. QED BY <2>1, <2>2, <2>3, <2>5, <3>1
  <2>6. QED BY <2>4, <2>5
<1>8. Waits(s, w, W) BY <1>1, <1>6, <1>7 DEF Waits, Queued
<1>9. Quiet(s, w) BY <1>7 DEF Quiet
<1>10. QED BY <1>2, <1>4, <1>5, <1>8, <1>9 DEF Core

\* A task that changes what its call watches while it is in no receiver queue.
LEMMA CoreRewatch ==
    ASSUME NEW r, NEW b, NEW W \in [Pid -> SUBSET DOMAIN Owners], Core(r, b, W),
           NEW p \in Pid, b[p] = None,
           \A i \in DOMAIN r.eps : p \notin Elements(r.eps[i].recv_waiters),
           NEW M, \A i \in M : Rcv[i] = p
    PROVE  Core(r, b, [W EXCEPT ![p] = M])
<1>1. Waits(r, b, W) BY DEF Core
<1>2. PICK V : V = [W EXCEPT ![p] = M] OBVIOUS
<1>3. V[p] = M /\ \A q \in Pid : q # p => V[q] = W[q] BY <1>2
<1>4. Reasons(b, V) BY <1>1, <1>3 DEF Waits, Reasons
<1>5. Watching(V) BY <1>1, <1>3 DEF Waits, Watching
<1>6. Queued(r, b, V) BY <1>1, <1>3 DEF Waits, Queued
<1>7. QED BY <1>2, <1>4, <1>5, <1>6 DEF Core, Waits

\* The queues that a task enters: send, receive, a waitset's members, none.
LEMMA RegisterEnters ==
    ASSUME NEW r, Tidy(r), NEW id, EndpointAlive(r, id), NEW p \in Pid, NEW x,
           x.eps = {id}
    PROVE  /\ x.on = "recv" => Enters(r, RegisterRecvWaiter(r, id, p), p, x)
           /\ x.on = "send" => Enters(r, RegisterSendWaiter(r, id, p), p, x)
<1>1. r \in RouterState /\ WaitersOf(r) /\ id \in DOMAIN r.eps BY DEF Tidy, EndpointAlive
<1>2. PICK s : s = RegisterRecvWaiter(r, id, p) OBVIOUS
<1>3. PICK t : t = RegisterSendWaiter(r, id, p) OBVIOUS
<1>4. OnlyWaiters(r, s) /\ OnlyWaiters(r, t) /\ WaitersOf(s) /\ WaitersOf(t)
  BY <1>1, <1>2, <1>3, OnlyWaitersOps, WaiterQueueOpsWaiters
<1>5. Tidy(s) /\ Tidy(t) BY <1>4 DEF Tidy, OnlyWaiters
<1>6. /\ NewReceivers(r, s, id, AddWaiter(r.eps[id].recv_waiters, p))
      /\ NewSenders(r, t, id, AddWaiter(r.eps[id].send_waiters, p))
  BY <1>1, <1>2, <1>3, RegisterEffect
<1>7. /\ Elements(s.eps[id].recv_waiters) = Elements(r.eps[id].recv_waiters) \cup {p}
      /\ s.eps[id].send_waiters = r.eps[id].send_waiters
      /\ Elements(t.eps[id].send_waiters) = Elements(r.eps[id].send_waiters) \cup {p}
      /\ t.eps[id].recv_waiters = r.eps[id].recv_waiters
  <2>1. PICK ws : ws = r.eps[id].recv_waiters OBVIOUS
  <2>2. PICK xs : xs = r.eps[id].send_waiters OBVIOUS
  <2>3. ws \in Seq(Pid) /\ IsDistinct(ws) /\ xs \in Seq(Pid) /\ IsDistinct(xs)
    BY <1>1, <2>1, <2>2, TidyQueues
  <2>4. /\ Elements(AddWaiter(ws, p)) = Elements(ws) \cup {p}
        /\ Elements(AddWaiter(xs, p)) = Elements(xs) \cup {p}
    BY <2>3, WaiterElements
  <2>5. QED BY <1>6, <2>1, <2>2, <2>4 DEF NewReceivers, NewSenders
<1>8. \A i \in DOMAIN r.eps : i # id => s.eps[i] = r.eps[i] /\ t.eps[i] = r.eps[i]
  BY <1>6 DEF NewReceivers, NewSenders, OnlyAt
<1>9. ASSUME x.on = "recv" PROVE Enters(r, s, p, x)
  BY <1>4, <1>5, <1>7, <1>8, <1>9 DEF Enters
<1>10. ASSUME x.on = "send" PROVE Enters(r, t, p, x)
  BY <1>4, <1>5, <1>7, <1>8, <1>10 DEF Enters
<1>11. QED BY <1>2, <1>3, <1>9, <1>10

LEMMA NothingEntered ==
    ASSUME NEW r, Tidy(r), NEW p, NEW x, x.on = "fence" PROVE Enters(r, r, p, x)
BY OnlyWaitersSame DEF Tidy, Enters

LEMMA RegisterAllEnters ==
    ASSUME NEW r, Tidy(r), NEW p \in Pid, NEW x, x.on = "waitset"
    PROVE  Enters(r, RegisterAll(r, p, x.eps), p, x)
<1>1. r \in RouterState BY DEF Tidy
<1> DEFINE V(i) == AddWaiter(r.eps[i].recv_waiters, p)
           In(i) == i \in x.eps /\ r.eps[i].alive
           N(i) == IF i \in x.eps /\ r.eps[i].alive
                   THEN [r.eps[i] EXCEPT !.recv_waiters = V(i)] ELSE r.eps[i]
<1>2. PICK s : s = RegisterAll(r, p, x.eps) OBVIOUS
<1>3. PICK e : e = [i \in DOMAIN r.eps |-> N(i)] OBVIOUS
<1>4. s = [r EXCEPT !.eps = e] BY <1>2, <1>3 DEF RegisterAll
<1>5. ASSUME NEW i \in DOMAIN r.eps
      PROVE  /\ N(i) \in Endpoint /\ SameIdentity(N(i), r.eps[i])
             /\ SameContents(N(i), r.eps[i]) /\ N(i).alive = r.eps[i].alive
             /\ IsDistinct(N(i).recv_waiters) /\ IsDistinct(N(i).send_waiters)
             /\ In(i) => Elements(N(i).recv_waiters) = Elements(r.eps[i].recv_waiters) \cup {p}
             /\ ~In(i) => Elements(N(i).recv_waiters) = Elements(r.eps[i].recv_waiters)
             /\ N(i).send_waiters = r.eps[i].send_waiters
  <2>1. PICK ep \in Endpoint : ep = r.eps[i] BY TidyQueues
  <2>2. /\ ep.recv_waiters \in Seq(Pid) /\ IsDistinct(ep.recv_waiters)
        /\ IsDistinct(ep.send_waiters)
    BY <2>1, TidyQueues
  <2>3. PICK ws : ws = AddWaiter(ep.recv_waiters, p) OBVIOUS
  <2>4. ws \in Seq(Pid) /\ IsDistinct(ws) /\ Elements(ws) = Elements(ep.recv_waiters) \cup {p}
    BY <2>2, <2>3, WaiterOpsType, DistinctOps, WaiterElements
  <2>5. PICK y : y = [ep EXCEPT !.recv_waiters = ws] OBVIOUS
  <2>6. WaitersSet(y, ep, ws, ep.send_waiters) BY <2>4, <2>5, WithRecv
  <2>7. CASE In(i)
    <3>1. N(i) = y BY <2>1, <2>3, <2>5, <2>7
    <3> HIDE DEF N, In
    <3>2. QED BY <2>1, <2>2, <2>4, <2>6, <2>7, <3>1 DEF WaitersSet
  <2>8. CASE ~In(i)
    <3>1. N(i) = ep BY <2>1, <2>8
    <3> HIDE DEF N, In
    <3>2. QED BY <2>1, <2>2, <2>8, <3>1 DEF SameIdentity, SameContents
  <2>9. QED BY <2>7, <2>8
<1> HIDE DEF N
<1>6. DOMAIN e = DOMAIN r.eps /\ \A i \in DOMAIN r.eps : e[i] = N(i) BY <1>3
<1>7. Remapped(r, e)
  <2>1. e = [i \in DOMAIN r.eps |-> e[i]] BY <1>3, <1>6
  <2>2. QED BY <1>5, <1>6, <2>1 DEF Remapped
<1>8. OnlyWaiters(r, s) /\ s.eps = e BY <1>1, <1>4, <1>7, MapWaiters
<1>9. ASSUME NEW i \in DOMAIN r.eps, ~r.eps[i].alive
      PROVE  Elements(r.eps[i].recv_waiters) = {} /\ Elements(r.eps[i].send_waiters) = {}
  BY <1>9 DEF Tidy, WaitersOf, Waiters, ToSet, Elements
<1>10. Tidy(s)
  <2>1. ASSUME NEW i \in DOMAIN r.eps
        PROVE  /\ IsDistinct(s.eps[i].recv_waiters) /\ IsDistinct(s.eps[i].send_waiters)
               /\ ~r.eps[i].alive => /\ Elements(s.eps[i].recv_waiters) = {}
                                     /\ Elements(s.eps[i].send_waiters) = {}
    BY <1>5, <1>6, <1>8, <1>9
  <2>2. QED BY <1>8, <2>1, TidyWaiters
<1>11. ASSUME NEW i \in DOMAIN r.eps
       PROVE  /\ Elements(r.eps[i].recv_waiters) \subseteq Elements(s.eps[i].recv_waiters)
              /\ \A q \in Elements(s.eps[i].recv_waiters) :
                   q \in Elements(r.eps[i].recv_waiters) \/ (q = p /\ i \in x.eps)
              /\ s.eps[i].send_waiters = r.eps[i].send_waiters
              /\ i \in x.eps /\ r.eps[i].alive => p \in Elements(s.eps[i].recv_waiters)
  BY <1>5, <1>6, <1>8
<1> HIDE DEF In
<1>12. Enters(r, s, p, x) BY <1>8, <1>10, <1>11 DEF Enters
<1>13. QED BY <1>2, <1>12

-----------------------------------------------------------------------------
(* Sending and receiving *)

\* Only the waiters and who is alive matter.
LEMMA WaitsSame ==
    ASSUME NEW r, NEW b, NEW W, Waits(r, b, W), NEW s, SameParking(r, s)
    PROVE  Waits(s, b, W)
<1>1. Queued(s, b, W) BY DEF Waits, Queued, SameParking, SameWaiters
<1>2. QED BY <1>1 DEF Waits

\* send, requeue_front and recv keep a router tidy and everybody in place.
LEMMA TidySendRecv ==
    ASSUME NEW r, NEW b, NEW W, Tidy(r), Waits(r, b, W), NEW id
    PROVE  /\ Tidy(Recv(r, id)) /\ Waits(Recv(r, id), b, W)
           /\ \A m \in Message : /\ Tidy(Send(r, id, m)) /\ Waits(Send(r, id, m), b, W)
                                 /\ Tidy(RequeueFront(r, id, m))
                                 /\ Waits(RequeueFront(r, id, m), b, W)
<1>1. r \in RouterState /\ WaitersOf(r) /\ DOMAIN r.eps = DOMAIN Owners BY DEF Tidy
<1>2. ASSUME NEW s, SameParking(r, s), s \in RouterState, WaitersOf(s)
      PROVE  Tidy(s) /\ Waits(s, b, W)
  BY <1>1, <1>2, WaitsSame DEF Tidy, SameParking
<1>3. Tidy(Recv(r, id)) /\ Waits(Recv(r, id), b, W)
  BY <1>1, <1>2, QueueOpsParking, RecvType, RecvWaiters
<1>4. ASSUME NEW m \in Message
      PROVE  /\ Tidy(Send(r, id, m)) /\ Waits(Send(r, id, m), b, W)
             /\ Tidy(RequeueFront(r, id, m)) /\ Waits(RequeueFront(r, id, m), b, W)
  <2>1. SameParking(r, Send(r, id, m)) /\ SameParking(r, RequeueFront(r, id, m))
    BY <1>1, QueueOpsParking
  <2>2. Send(r, id, m) \in RouterState /\ RequeueFront(r, id, m) \in RouterState
    BY <1>1, SendType
  <2>3. WaitersOf(Send(r, id, m)) /\ WaitersOf(RequeueFront(r, id, m)) BY <1>1, SendWaiters
  <2>4. QED BY <1>2, <2>1, <2>2, <2>3
<1>5. QED BY <1>3, <1>4

\* Popping the first receiver or sender of an endpoint, who is woken.
LEMMA PopLets ==
    ASSUME NEW r, NEW b, NEW W, Tidy(r), Waits(r, b, W), NEW id
    PROVE  /\ FirstRecvWaiter(r, id) # None =>
                Lets(r, PopRecvWaiter(r, id), b, {FirstRecvWaiter(r, id)})
           /\ FirstSendWaiter(r, id) # None =>
                Lets(r, PopSendWaiter(r, id), b, {FirstSendWaiter(r, id)})
<1>1. r \in RouterState BY DEF Tidy
<1>2. ASSUME NEW f, f = FirstRecvWaiter(r, id), f # None, NEW s, s = PopRecvWaiter(r, id)
      PROVE  Lets(r, s, b, {f})
  <2>1. PICK ws : ws = r.eps[id].recv_waiters OBVIOUS
  <2>2. /\ id \in DOMAIN r.eps /\ ws # <<>> /\ f = Head(ws)
        /\ NewReceivers(r, s, id, Tail(ws))
    BY <1>1, <1>2, <2>1, PopEffect
  <2>3. ws \in Seq(Pid) /\ IsDistinct(ws) BY <2>1, <2>2, TidyQueues
  <2>4. Elements(Tail(ws)) = Elements(ws) \ {f} /\ f \in Elements(ws)
    BY <2>2, <2>3, WaiterElements
  <2>5. f \in Pid BY <2>1, <2>2, <2>4, TidyQueues
  <2>6. ASSUME NEW i \in DOMAIN r.eps, NEW p \in Pid
        PROVE  /\ p \in Elements(s.eps[i].recv_waiters) =>
                    p \in Elements(r.eps[i].recv_waiters) /\ ~(p \in {f} /\ On(b, p, "recv", i))
               /\ p \in Elements(s.eps[i].send_waiters) =>
                    p \in Elements(r.eps[i].send_waiters) /\ p \notin {f}
               /\ p \in Elements(r.eps[i].recv_waiters) /\ p \notin {f} /\ s.eps[i].alive =>
                    p \in Elements(s.eps[i].recv_waiters)
               /\ s.eps[i].alive => r.eps[i].alive
    <3>1. /\ On(b, f, "recv", i) => i = id
          /\ f \notin Elements(r.eps[i].send_waiters)
      BY <2>1, <2>2, <2>4, <2>5, ParkedAtOne
    <3>2. CASE i = id
      BY <2>1, <2>2, <2>4, <3>1, <3>2 DEF NewReceivers
    <3>3. CASE i # id
      <4>1. s.eps[i] = r.eps[i] BY <2>2, <3>3 DEF NewReceivers, OnlyAt
      <4>2. QED BY <3>1, <3>3, <4>1
    <3>4. QED BY <3>2, <3>3
  <2>7. DOMAIN s.eps = DOMAIN r.eps BY <2>2 DEF NewReceivers, OnlyAt
  <2>8. QED BY <2>6, <2>7 DEF Lets
<1>3. ASSUME NEW f, f = FirstSendWaiter(r, id), f # None, NEW s, s = PopSendWaiter(r, id)
      PROVE  Lets(r, s, b, {f})
  <2>1. PICK ws : ws = r.eps[id].send_waiters OBVIOUS
  <2>2. /\ id \in DOMAIN r.eps /\ ws # <<>> /\ f = Head(ws)
        /\ NewSenders(r, s, id, Tail(ws))
    BY <1>1, <1>3, <2>1, PopEffect
  <2>3. ws \in Seq(Pid) /\ IsDistinct(ws) BY <2>1, <2>2, TidyQueues
  <2>4. Elements(Tail(ws)) = Elements(ws) \ {f} /\ f \in Elements(ws)
    BY <2>2, <2>3, WaiterElements
  <2>5. f \in Pid BY <2>1, <2>2, <2>4, TidyQueues
  <2>6. ASSUME NEW i \in DOMAIN r.eps, NEW p \in Pid
        PROVE  /\ p \in Elements(s.eps[i].recv_waiters) =>
                    p \in Elements(r.eps[i].recv_waiters) /\ ~(p \in {f} /\ On(b, p, "recv", i))
               /\ p \in Elements(s.eps[i].send_waiters) =>
                    p \in Elements(r.eps[i].send_waiters) /\ p \notin {f}
               /\ p \in Elements(r.eps[i].recv_waiters) /\ p \notin {f} /\ s.eps[i].alive =>
                    p \in Elements(s.eps[i].recv_waiters)
               /\ s.eps[i].alive => r.eps[i].alive
    <3>1. /\ ~On(b, f, "recv", i)
          /\ f \in Elements(r.eps[i].send_waiters) => i = id
      BY <2>1, <2>2, <2>4, <2>5, ParkedAtOne
    <3>2. CASE i = id
      BY <2>1, <2>2, <2>4, <3>1, <3>2 DEF NewSenders
    <3>3. CASE i # id
      <4>1. s.eps[i] = r.eps[i] BY <2>2, <3>3 DEF NewSenders, OnlyAt
      <4>2. QED BY <3>1, <3>3, <4>1
    <3>4. QED BY <3>2, <3>3
  <2>7. DOMAIN s.eps = DOMAIN r.eps BY <2>2 DEF NewSenders, OnlyAt
  <2>8. QED BY <2>6, <2>7 DEF Lets
<1>4. QED BY <1>2, <1>3

\* ... and with nobody to wake.
LEMMA PopWaits ==
    ASSUME NEW r, NEW b \in [Pid -> {None} \cup SyncReason], NEW W, Tidy(r), Waits(r, b, W), NEW id
    PROVE  /\ Tidy(PopRecvWaiter(r, id)) /\ OnlyWaiters(r, PopRecvWaiter(r, id))
           /\ Waits(PopRecvWaiter(r, id), Woken(b, {FirstRecvWaiter(r, id)}), W)
           /\ Tidy(PopSendWaiter(r, id)) /\ OnlyWaiters(r, PopSendWaiter(r, id))
           /\ Waits(PopSendWaiter(r, id), Woken(b, {FirstSendWaiter(r, id)}), W)
<1>1. r \in RouterState /\ WaitersOf(r) BY DEF Tidy
<1>2. OnlyWaiters(r, PopRecvWaiter(r, id)) /\ OnlyWaiters(r, PopSendWaiter(r, id))
  BY <1>1, OnlyWaitersOps
<1>3. WaitersOf(PopRecvWaiter(r, id)) /\ WaitersOf(PopSendWaiter(r, id))
  BY <1>1, WaiterQueueOpsWaiters
<1>4. Tidy(PopRecvWaiter(r, id)) /\ Tidy(PopSendWaiter(r, id))
  BY <1>2, <1>3 DEF Tidy, OnlyWaiters
<1>5. Woken(b, {None}) = b BY RouterAssumption, WokenFacts
<1>6. Waits(PopRecvWaiter(r, id), Woken(b, {FirstRecvWaiter(r, id)}), W)
  <2>1. CASE FirstRecvWaiter(r, id) = None
    <3>1. PopRecvWaiter(r, id) = r BY <2>1 DEF PopRecvWaiter
    <3>2. QED BY <1>5, <2>1, <3>1
  <2>2. CASE FirstRecvWaiter(r, id) # None BY <2>2, PopLets, WakeWaits
  <2>3. QED BY <2>1, <2>2
<1>7. Waits(PopSendWaiter(r, id), Woken(b, {FirstSendWaiter(r, id)}), W)
  <2>1. CASE FirstSendWaiter(r, id) = None
    <3>1. PopSendWaiter(r, id) = r BY <2>1 DEF PopSendWaiter
    <3>2. QED BY <1>5, <2>1, <3>1
  <2>2. CASE FirstSendWaiter(r, id) # None BY <2>2, PopLets, WakeWaits
  <2>3. QED BY <2>1, <2>2
<1>8. QED BY <1>2, <1>4, <1>6, <1>7

\* If nobody sleeps in a waitset_wait on id, then what happens to its queue
\* disturbs nobody.
SleepElsewhere(b, w, id) ==
    \A p \in Pid : \A i : On(w, p, "waitset", i) => On(b, p, "waitset", i) /\ i # id

FillsOnly(r, s, id) ==
    /\ DOMAIN s.eps = DOMAIN r.eps
    /\ \A i \in DOMAIN r.eps : i # id => (Pending(s, i) => Pending(r, i))

LEMMA QuietElsewhere ==
    ASSUME NEW r, NEW b, Quiet(r, b), NEW s, NEW id, FillsOnly(r, s, id),
           NEW w, SleepElsewhere(b, w, id)
    PROVE  Quiet(s, w)
BY DEF Quiet, SleepElsewhere, FillsOnly

LEMMA OnlyAtPending ==
    ASSUME NEW r, NEW s, NEW id, OnlyAt(r, s, id), NEW i, i # id
    PROVE  Pending(s, i) <=> Pending(r, i)
BY DEF OnlyAt, Pending, EndpointAlive

\* A send that succeeds: the one task that may sleep next to the message is
\* at the head of the queue, and is woken.
LEMMA CoreSend ==
    ASSUME NEW r, NEW b, NEW W, Core(r, b, W), NEW id, NEW m \in Message,
           SendErr(r, id, m) = "Ok", NEW t, t = Send(r, id, m)
    PROVE  Core(PopRecvWaiter(t, id), Woken(b, {FirstRecvWaiter(t, id)}), W)
<1>1. /\ Tidy(r) /\ b \in [Pid -> {None} \cup SyncReason] /\ Waits(r, b, W) /\ Quiet(r, b)
      /\ r \in RouterState
  BY DEF Core, Tidy
<1>2. Tidy(t) /\ Waits(t, b, W) BY <1>1, TidySendRecv
<1>3. PICK s : s = PopRecvWaiter(t, id) OBVIOUS
<1>4. PICK f : f = FirstRecvWaiter(t, id) OBVIOUS
<1>5. PICK w : w = Woken(b, {f}) OBVIOUS
<1>6. Tidy(s) /\ OnlyWaiters(t, s) /\ Waits(s, w, W) BY <1>1, <1>2, <1>3, <1>4, <1>5, PopWaits
<1>7. /\ id \in DOMAIN r.eps /\ r.eps[id].alive /\ OnlyAt(r, t, id)
      /\ t.eps[id] = Push(r.eps[id], m)
  BY <1>1, SendEffect
<1>8. DOMAIN t.eps = DOMAIN r.eps /\ t.eps[id].alive
  <2>1. r.eps[id] \in Endpoint BY <1>1, <1>7, RouterFields
  <2>2. Push(r.eps[id], m).alive = r.eps[id].alive BY <2>1, PushFields
  <2>3. QED BY <1>7, <2>2 DEF OnlyAt
<1>9. ASSUME NEW q \in Pid, On(w, q, "waitset", id) PROVE FALSE
  <2>1. q # f /\ On(b, q, "waitset", id) BY <1>1, <1>5, <1>9, WokenFacts
  <2>2. q \in Elements(t.eps[id].recv_waiters) BY <1>2, <1>7, <1>8, <2>1 DEF Waits, Queued
  <2>3. PICK ws \in Seq(Pid) : ws = t.eps[id].recv_waiters BY <1>2, <1>7, <1>8, TidyQueues
  <2>4. ws # <<>> BY <2>2, <2>3 DEF Elements
  <2>5. f = Head(ws) BY <1>4, <1>7, <1>8, <2>3, <2>4 DEF FirstRecvWaiter, EndpointAlive
  <2>6. f \in Elements(ws) /\ f \in Pid BY <2>4, <2>5 DEF Elements
  <2>7. Rcv[id] = f /\ Rcv[id] = q BY <1>2, <1>7, <1>8, <2>2, <2>3, <2>6, QueuedIsReceiver
  <2>8. QED BY <2>1, <2>7
<1>10. SleepElsewhere(b, w, id) BY <1>1, <1>5, <1>9, WokenFacts DEF SleepElsewhere
<1>11. \A i \in DOMAIN r.eps : i # id => (Pending(s, i) => Pending(r, i))
  BY <1>6, <1>7, OnlyWaitersPending, OnlyAtPending
<1>12. DOMAIN s.eps = DOMAIN r.eps BY <1>6, <1>8 DEF OnlyWaiters
<1>13. Quiet(s, w)
  <2>1. FillsOnly(r, s, id) BY <1>11, <1>12 DEF FillsOnly
  <2>2. QED BY <1>1, <1>10, <2>1, QuietElsewhere
<1>14. w \in [Pid -> {None} \cup SyncReason] BY <1>1, <1>5, WokenFacts
<1>15. QED BY <1>3, <1>4, <1>5, <1>6, <1>13, <1>14 DEF Core

\* A receive by the running receiver of the endpoint, whose message may be put
\* back: nobody else sleeps there.
LEMMA CoreRecv ==
    ASSUME NEW r, NEW b, NEW W, Core(r, b, W), NEW id, RecvErr(r, id) = "Ok",
           NEW p \in Pid, b[p] = None, Rcv[id] = p,
           NEW t, t = Recv(r, id), NEW m \in Message
    PROVE  /\ Core(PopSendWaiter(t, id), Woken(b, {FirstSendWaiter(t, id)}), W)
           /\ Core(RequeueFront(PopSendWaiter(t, id), id, m), Woken(b, {FirstSendWaiter(t, id)}), W)
<1>1. /\ Tidy(r) /\ b \in [Pid -> {None} \cup SyncReason] /\ Waits(r, b, W) /\ Quiet(r, b)
      /\ r \in RouterState
  BY DEF Core, Tidy
<1>2. Tidy(t) /\ Waits(t, b, W) BY <1>1, TidySendRecv
<1>3. PICK s : s = PopSendWaiter(t, id) OBVIOUS
<1>4. PICK f : f = FirstSendWaiter(t, id) OBVIOUS
<1>5. PICK w : w = Woken(b, {f}) OBVIOUS
<1>6. Tidy(s) /\ OnlyWaiters(t, s) /\ Waits(s, w, W) BY <1>1, <1>2, <1>3, <1>4, <1>5, PopWaits
<1>7. PICK u : u = RequeueFront(s, id, m) OBVIOUS
<1>8. Tidy(u) /\ Waits(u, w, W) BY <1>6, <1>7, TidySendRecv
<1>9. id \in DOMAIN r.eps /\ OnlyAt(r, t, id) BY <1>1, RecvEffect
<1>10. DOMAIN t.eps = DOMAIN r.eps /\ DOMAIN s.eps = DOMAIN r.eps
  BY <1>6, <1>9 DEF OnlyAt, OnlyWaiters
<1>11. OnlyAt(s, u, id) /\ DOMAIN u.eps = DOMAIN r.eps
  <2>1. CASE SendErr(s, id, m) = "Ok"
    <3>1. s \in RouterState BY <1>6 DEF Tidy
    <3>2. OnlyAt(s, u, id) BY <1>7, <2>1, <3>1, SendEffect
    <3>3. QED BY <1>10, <3>2 DEF OnlyAt
  <2>2. CASE SendErr(s, id, m) # "Ok" BY <1>7, <1>10, <2>2 DEF RequeueFront, OnlyAt
  <2>3. QED BY <2>1, <2>2
<1>12. ASSUME NEW q \in Pid, On(b, q, "waitset", id) PROVE FALSE
  <2>1. b[q] # None /\ id \in W[q] BY <1>1, <1>12 DEF On, Waits, Reasons
  <2>2. Rcv[id] = q BY <1>1, <2>1 DEF Waits, Watching
  <2>3. QED BY <2>1, <2>2
<1>13. SleepElsewhere(b, w, id) BY <1>1, <1>5, <1>12, WokenFacts DEF SleepElsewhere
<1>14. \A i \in DOMAIN r.eps : i # id => (Pending(s, i) => Pending(r, i))
  BY <1>6, <1>9, OnlyWaitersPending, OnlyAtPending
<1>15. \A i \in DOMAIN r.eps : i # id => (Pending(u, i) => Pending(r, i))
  BY <1>11, <1>14, OnlyAtPending
<1>16. Quiet(s, w)
  <2>1. FillsOnly(r, s, id) BY <1>10, <1>14 DEF FillsOnly
  <2>2. QED BY <1>1, <1>13, <2>1, QuietElsewhere
<1>17. Quiet(u, w)
  <2>1. FillsOnly(r, u, id) BY <1>11, <1>15 DEF FillsOnly
  <2>2. QED BY <1>1, <1>13, <2>1, QuietElsewhere
<1>18. w \in [Pid -> {None} \cup SyncReason] BY <1>1, <1>5, WokenFacts
<1>19. QED BY <1>3, <1>4, <1>5, <1>6, <1>7, <1>8, <1>16, <1>17, <1>18 DEF Core

-----------------------------------------------------------------------------
(* Fences *)

Waiting == [pid : Pid, target : Nat]

FenceRecord == [owner : Pid, value : Nat, waiters : Seq(Waiting), alive : BOOLEAN]

\* Fence f of fs still has p waiting for the value t, unless it is dead.
FenceHolds(fs, f, p, t) ==
    fs[f].alive => /\ [pid |-> p, target |-> t] \in Elements(fs[f].waiters)
                   /\ fs[f].value < t

\* Fence y is fence x without the waiters S.
LeftBy(y, x, S) ==
    /\ y \in FenceRecord /\ y.owner = x.owner /\ y.value = x.value /\ y.alive = x.alive
    /\ Elements(y.waiters) = {w \in Elements(x.waiters) : w.pid \notin S}

LEMMA LeaveEffect ==
    ASSUME NEW fs \in Seq(FenceRecord), NEW S
    PROVE  /\ LeaveFences(fs, S) \in Seq(FenceRecord)
           /\ Len(LeaveFences(fs, S)) = Len(fs) /\ DOMAIN LeaveFences(fs, S) = DOMAIN fs
           /\ \A f \in DOMAIN fs : LeftBy(LeaveFences(fs, S)[f], fs[f], S)
<1> DEFINE N(f) == [fs[f] EXCEPT !.waiters =
                      WithoutAll(fs[f].waiters, {w \in ToSet(fs[f].waiters) : w.pid \in S})]
<1>1. PICK gs : gs = LeaveFences(fs, S) OBVIOUS
<1>2. gs = [f \in DOMAIN fs |-> N(f)] BY <1>1 DEF LeaveFences
<1>3. ASSUME NEW f \in DOMAIN fs PROVE LeftBy(N(f), fs[f], S)
  <2>1. PICK x \in FenceRecord : x = fs[f] OBVIOUS
  <2>2. x.waiters \in Seq(Waiting) BY DEF FenceRecord
  <2>3. PICK D : D = {w \in ToSet(x.waiters) : w.pid \in S} OBVIOUS
  <2>4. PICK ws : ws = WithoutAll(x.waiters, D) OBVIOUS
  <2>5. ws \in Seq(Waiting) /\ Elements(ws) = Elements(x.waiters) \ D
    BY <2>2, <2>4, WithoutAllProperties
  <2>6. PICK y : y = [x EXCEPT !.waiters = ws] OBVIOUS
  <2>7. y \in FenceRecord /\ y.waiters = ws /\ y.owner = x.owner /\ y.value = x.value
    BY <2>5, <2>6 DEF FenceRecord
  <2>8. y.alive = x.alive BY <2>6 DEF FenceRecord
  <2>9. Elements(x.waiters) \ D = {w \in Elements(x.waiters) : w.pid \notin S}
    BY <2>3 DEF ToSet, Elements
  <2>10. N(f) = y BY <2>1, <2>3, <2>4, <2>6
  <2> HIDE DEF N
  <2>11. QED BY <2>1, <2>5, <2>7, <2>8, <2>9, <2>10 DEF LeftBy
<1> HIDE DEF N
<1>4. DOMAIN gs = DOMAIN fs /\ \A f \in DOMAIN fs : gs[f] = N(f) BY <1>2
<1>5. DOMAIN fs = 1..Len(fs) /\ Len(fs) \in Nat OBVIOUS
<1>6. gs \in [1..Len(fs) -> FenceRecord] BY <1>2, <1>3, <1>5 DEF LeftBy
<1>7. gs \in Seq(FenceRecord) /\ Len(gs) = Len(fs) BY <1>5, <1>6
<1>8. QED BY <1>1, <1>3, <1>4, <1>7

\* A task that does not leave keeps its place.
LEMMA LeaveKeeps ==
    ASSUME NEW fs \in Seq(FenceRecord), NEW S, NEW f \in DOMAIN fs, NEW p, p \notin S, NEW t,
           FenceHolds(fs, f, p, t)
    PROVE  FenceHolds(LeaveFences(fs, S), f, p, t)
<1>1. PICK y : y = LeaveFences(fs, S)[f] OBVIOUS
<1>2. LeftBy(y, fs[f], S) BY <1>1, LeaveEffect
<1>3. PICK w : w = [pid |-> p, target |-> t] OBVIOUS
<1>4. w.pid \notin S BY <1>3
<1>5. QED BY <1>1, <1>2, <1>3, <1>4 DEF LeftBy, FenceHolds

\* A registration is for the task and its target, and disturbs no other.
LEMMA RegisterWaiterEffect ==
    ASSUME NEW x \in FenceRecord, NEW p \in Pid, NEW t \in Nat,
           \A w \in Elements(x.waiters) : w.pid # p, NEW y, y = RegisterWaiter(x, p, t)
    PROVE  /\ y \in FenceRecord /\ y.owner = x.owner /\ y.value = x.value /\ y.alive = x.alive
           /\ Elements(y.waiters) = Elements(x.waiters) \cup {[pid |-> p, target |-> t]}
<1>1. PICK ws \in Seq(Waiting) : ws = x.waiters BY DEF FenceRecord
<1>2. PICK w \in Waiting : w = [pid |-> p, target |-> t] BY DEF Waiting
<1>3. ~\E n \in DOMAIN ws : ws[n].pid = p BY <1>1 DEF Elements
<1>4. PICK us : us = Append(ws, w) OBVIOUS
<1>5. y = [x EXCEPT !.waiters = us] BY <1>1, <1>2, <1>3, <1>4 DEF RegisterWaiter
<1>6. us \in Seq(Waiting) /\ Elements(us) = Elements(ws) \cup {w}
  <2>1. DOMAIN ws = 1..Len(ws) /\ Len(ws) \in Nat OBVIOUS
  <2>2. /\ us \in Seq(Waiting) /\ DOMAIN us = (1..Len(ws)) \cup {Len(ws) + 1}
        /\ us[Len(ws) + 1] = w /\ \A n \in 1..Len(ws) : us[n] = ws[n]
    BY <1>4, <2>1
  <2>3. QED BY <2>1, <2>2 DEF Elements
<1>7. y \in FenceRecord /\ y.waiters = us /\ y.owner = x.owner /\ y.value = x.value
  BY <1>5, <1>6 DEF FenceRecord
<1>8. y.alive = x.alive BY <1>5 DEF FenceRecord
<1>9. QED BY <1>1, <1>2, <1>6, <1>7, <1>8

-----------------------------------------------------------------------------
(* The invariant *)

\* The endpoints that task p's call watches.
Watched(p) ==
    IF call[p] # None /\ call[p].op = "waitset"
    THEN Elements(waitsets[caps[p][call[p].slot].ep].members) ELSE {}

Watches == [p \in Pid |-> Watched(p)]

\* A capability that task p may hold.
CapFine(p, c) == c # NoCap =>
    /\ c.kind = "Endpoint" /\ "RECV" \in c.rights => Rcv[c.ep] = p /\ Keeps(p, c)
    /\ c.kind = "Waitset" =>
         c.ep \in DOMAIN waitsets /\ waitsets[c.ep].owner = p /\ Keeps(p, c)
    /\ c.kind = "Fence" => c.ep \in DOMAIN fences

\* A capability that may be in a message.
Loose(c) == c # NoCap =>
    /\ ~(c.kind = "Endpoint" /\ "RECV" \in c.rights) /\ c.kind # "Waitset"
    /\ c.kind = "Fence" => c.ep \in DOMAIN fences

TablesOK == caps \in [Pid -> Table] /\ \A p \in Pid, s \in Slot : CapFine(p, caps[p][s])

MessagesOK ==
    \A i \in DOMAIN router.eps : \A m \in Elements(router.eps[i].queue) : Loose(m.cap)

WaitsetRecord == [owner : Pid, members : Seq(DOMAIN Owners), alive : BOOLEAN]

WaitsetsOK ==
    /\ waitsets \in Seq(WaitsetRecord)
    /\ \A w \in DOMAIN waitsets : \A i \in Elements(waitsets[w].members) :
         Rcv[i] = waitsets[w].owner

ObjectsOK == TablesOK /\ MessagesOK /\ WaitsetsOK /\ fences \in Seq(FenceRecord)

\* The call that task p will make again, and what it is parked on.
SyncCallOK(p) ==
    /\ call[p] # None =>
         /\ call[p] \in Calls[p]
         /\ call[p].op = "waitset" => HoldsWaitset(p, call[p].slot)
    /\ blocked[p] # None =>
         /\ call[p] # None /\ call[p].op = blocked[p].on
         /\ call[p].op = "fence" => /\ caps[p][call[p].slot] # NoCap
                                    /\ caps[p][call[p].slot].kind = "Fence"

FenceOK(p) ==
    BlockedOn(p, "fence") => FenceHolds(fences, caps[p][call[p].slot].ep, p, call[p].target)

CallsOK ==
    call \in [Pid -> {None} \cup Call] /\ \A p \in Pid : SyncCallOK(p) /\ FenceOK(p)

SyncInv == Core(router, blocked, Watches) /\ ObjectsOK /\ CallsOK

\* The calls of a task are well formed.
LEMMA CallFacts ==
    ASSUME NEW p \in Pid, NEW cl \in Calls[p]
    PROVE  /\ cl # None /\ cl \in Call
           /\ cl.op \in {"send", "recv"} => IsIpcCall(cl)
           /\ cl.op \in {"waitset", "fence"} => cl.slot \in Slot /\ cl.deadline \in Nat
           /\ cl.op = "fence" => cl.target \in Nat
           /\ cl.op \in {"send", "recv"} => cl.slot \in Slot /\ cl.deadline \in Nat
<1>1. cl # None /\ (cl.op \in {"send", "recv"} => IsIpcCall(cl)) BY IpcAssumption
<1>2. cl \in Call BY DEF Call
<1>3. cl.op \in {"waitset", "fence"} =>
         cl.slot \in Slot /\ cl.deadline \in Nat /\ (cl.op = "fence" => cl.target \in Nat)
  BY SyncAssumption
<1>4. QED BY <1>1, <1>2, <1>3 DEF IsIpcCall

\* What a task is about to do is a call of its own.
LEMMA MakingOwn ==
    ASSUME CallsOK, NEW p \in Pid, NEW cl \in Making(p)
    PROVE  cl \in Calls[p]
BY DEF Making, CallsOK, SyncCallOK

\* The capabilities in the slots of a table.
LEMMA HeldFine ==
    ASSUME TablesOK, NEW p \in Pid, NEW s \in Slot
    PROVE  CapFine(p, caps[p][s]) /\ caps[p] \in Table /\ caps[p][s] \in Cap \cup {NoCap}
BY DEF TablesOK, Table

\* A capability that the task can move may be in a message.
LEMMA MovableIsLoose ==
    ASSUME NEW p, NEW c, CapFine(p, c), c # NoCap, "MANAGE" \notin c.rights,
           NEW cl \in Calls[p], cl.op = "send", cl.move # None
    PROVE  Loose(c)
BY DEF CapFine, Keeps, Loose

\* ... and one in a message may be held by anybody.
LEMMA LooseIsFine ==
    ASSUME NEW p, NEW c, Loose(c) PROVE CapFine(p, c)
BY DEF CapFine, Loose

-----------------------------------------------------------------------------
(* What a step does to the tasks that do not take it *)

\* Task q is at most woken.
AtMostWoken(q) ==
    call'[q] = call[q] /\ caps'[q] = caps[q] /\ blocked'[q] \in {blocked[q], None}

WaitsetsKeptFor(q) ==
    \A w \in DOMAIN waitsets : waitsets[w].owner = q =>
        w \in DOMAIN waitsets' /\ waitsets'[w] = waitsets[w]

FencesKeptFor(q) ==
    blocked'[q] # None => \A f \in DOMAIN fences : \A t :
        FenceHolds(fences, f, q, t) => FenceHolds(fences', f, q, t)

Bystander(q) == AtMostWoken(q) /\ WaitsetsKeptFor(q) /\ FencesKeptFor(q)

\* The waitset that a task's call names is its own.
LEMMA OwnWaitset ==
    ASSUME TablesOK, NEW p \in Pid, NEW s \in Slot, HoldsWaitset(p, s)
    PROVE  /\ caps[p][s] # NoCap /\ caps[p][s].kind = "Waitset"
           /\ caps[p][s].ep \in DOMAIN waitsets /\ waitsets[caps[p][s].ep].owner = p
BY HeldFine DEF HoldsWaitset, CapFine

LEMMA BystanderKept ==
    ASSUME ObjectsOK, CallsOK, NEW q \in Pid, Bystander(q)
    PROVE  SyncCallOK(q)' /\ FenceOK(q)' /\ Watched(q)' = Watched(q)
<1>1. /\ call'[q] = call[q] /\ caps'[q] = caps[q] /\ blocked'[q] \in {blocked[q], None}
      /\ WaitsetsKeptFor(q) /\ FencesKeptFor(q) /\ SyncCallOK(q) /\ FenceOK(q) /\ TablesOK
  BY DEF Bystander, AtMostWoken, CallsOK, ObjectsOK
<1>2. ASSUME call[q] # None, call[q].op = "waitset"
      PROVE  /\ HoldsWaitset(q, call[q].slot)' /\ HoldsWaitset(q, call[q].slot)
             /\ Watched(q)' = Watched(q)
  <2>1. PICK s \in Slot : s = call[q].slot BY <1>1, <1>2, CallFacts DEF SyncCallOK
  <2>2. HoldsWaitset(q, s) BY <1>1, <1>2, <2>1 DEF SyncCallOK
  <2>3. PICK w : w = caps[q][s].ep OBVIOUS
  <2>4. /\ caps[q][s] # NoCap /\ caps[q][s].kind = "Waitset"
        /\ w \in DOMAIN waitsets /\ waitsets[w].owner = q
    BY <1>1, <2>2, <2>3, OwnWaitset
  <2>5. w \in DOMAIN waitsets' /\ waitsets'[w] = waitsets[w]
    BY <1>1, <2>4 DEF WaitsetsKeptFor
  <2>6. HoldsWaitset(q, s)' BY <1>1, <2>2, <2>3, <2>5 DEF HoldsWaitset
  <2>7. Watched(q)' = Watched(q) BY <1>1, <1>2, <2>1, <2>3, <2>5 DEF Watched
  <2>8. QED BY <1>1, <2>1, <2>2, <2>6, <2>7
<1>3. Watched(q)' = Watched(q)
  <2>1. CASE call[q] # None /\ call[q].op = "waitset" BY <1>2, <2>1
  <2>2. CASE ~(call[q] # None /\ call[q].op = "waitset") BY <1>1, <2>2 DEF Watched
  <2>3. QED BY <2>1, <2>2
<1>4. SyncCallOK(q)'
  <2>1. call'[q] # None =>
         /\ call'[q] \in Calls[q]
         /\ call'[q].op = "waitset" => HoldsWaitset(q, call[q].slot)'
    BY <1>1, <1>2 DEF SyncCallOK
  <2>2. blocked'[q] # None =>
         /\ call'[q] # None /\ call'[q].op = blocked'[q].on
         /\ call'[q].op = "fence" => /\ caps'[q][call'[q].slot] # NoCap
                                     /\ caps'[q][call'[q].slot].kind = "Fence"
    BY <1>1 DEF SyncCallOK
  <2>3. QED BY <2>1, <2>2 DEF SyncCallOK
<1>5. FenceOK(q)'
  <2>1. SUFFICES ASSUME blocked'[q] # None, blocked'[q].on = "fence"
                 PROVE  FenceHolds(fences', caps'[q][call'[q].slot].ep, q, call'[q].target)
    BY DEF FenceOK, BlockedOn
  <2>2. blocked'[q] = blocked[q] BY <1>1, <2>1
  <2>3. call[q] # None /\ call[q].op = "fence" /\ call[q] \in Calls[q]
    BY <1>1, <2>1, <2>2 DEF SyncCallOK
  <2>4. PICK s \in Slot : s = call[q].slot BY <2>3, CallFacts
  <2>5. caps[q][s] # NoCap /\ caps[q][s].kind = "Fence" BY <1>1, <2>1, <2>2, <2>3, <2>4 DEF SyncCallOK
  <2>6. PICK f : f = caps[q][s].ep OBVIOUS
  <2>7. f \in DOMAIN fences BY <1>1, <2>5, <2>6, HeldFine DEF CapFine
  <2>8. FenceHolds(fences, f, q, call[q].target)
    BY <1>1, <2>1, <2>2, <2>4, <2>6 DEF FenceOK, BlockedOn
  <2>9. QED BY <1>1, <2>1, <2>4, <2>6, <2>7, <2>8 DEF FencesKeptFor
<1>6. QED BY <1>3, <1>4, <1>5

\* Everybody but p.
Bystanders(p) == \A q \in Pid : q # p => Bystander(q)

\* Task p has returned from its call, or makes none.
LEMMA Returned ==
    ASSUME ObjectsOK, CallsOK, NEW p \in Pid, Bystanders(p),
           call' \in [Pid -> {None} \cup Call], call'[p] = None, blocked'[p] = None
    PROVE  CallsOK' /\ Watches' = [Watches EXCEPT ![p] = {}]
<1>1. ASSUME NEW q \in Pid
      PROVE  SyncCallOK(q)' /\ FenceOK(q)' /\ Watched(q)' = IF q = p THEN {} ELSE Watched(q)
  <2>1. CASE q = p BY <2>1 DEF SyncCallOK, FenceOK, BlockedOn, Watched
  <2>2. CASE q # p BY <2>2, BystanderKept DEF Bystanders
  <2>3. QED BY <2>1, <2>2
<1>2. CallsOK' BY <1>1 DEF CallsOK
<1>3. Watches' = [Watches EXCEPT ![p] = {}]
  <2>1. Watches' = [q \in Pid |-> Watched(q)'] BY DEF Watches
  <2>2. [Watches EXCEPT ![p] = {}] = [q \in Pid |-> IF q = p THEN {} ELSE Watched(q)]
    BY DEF Watches
  <2>3. QED BY <1>1, <2>1, <2>2
<1>4. QED BY <1>2, <1>3

\* Nobody makes a call.
LEMMA NobodyActs ==
    ASSUME ObjectsOK, CallsOK, \A q \in Pid : Bystander(q), call' = call
    PROVE  CallsOK' /\ Watches' = Watches
<1>1. \A q \in Pid : SyncCallOK(q)' /\ FenceOK(q)' /\ Watched(q)' = Watched(q) BY BystanderKept
<1>2. CallsOK' BY <1>1 DEF CallsOK
<1>3. Watches' = [q \in Pid |-> Watched(q)'] BY DEF Watches
<1>4. Watches' = Watches BY <1>1, <1>3 DEF Watches
<1>5. QED BY <1>2, <1>4

\* Task p blocks in the call cl, or is to make it again.
Blocks(p, cl) ==
    /\ call' = [call EXCEPT ![p] = cl] /\ caps'[p] = caps[p]
    /\ blocked'[p] # None => blocked'[p].on = cl.op
    /\ cl.op = "waitset" => HoldsWaitset(p, cl.slot)
    /\ cl.op = "fence" => caps[p][cl.slot] # NoCap /\ caps[p][cl.slot].kind = "Fence"
    /\ UNCHANGED waitsets

LEMMA Blocked ==
    ASSUME ObjectsOK, CallsOK, NEW p \in Pid, NEW cl \in Calls[p], Bystanders(p), Blocks(p, cl),
           FenceOK(p)'
    PROVE  /\ CallsOK'
           /\ Watches' = [Watches EXCEPT ![p] =
                IF cl.op = "waitset" THEN Elements(waitsets[caps[p][cl.slot].ep].members) ELSE {}]
<1>1. PICK M : M = IF cl.op = "waitset" THEN Elements(waitsets[caps[p][cl.slot].ep].members) ELSE {}
  OBVIOUS
<1>2. cl # None /\ cl \in Call BY CallFacts
<1>3. call' \in [Pid -> {None} \cup Call] /\ call'[p] = cl BY <1>2 DEF Blocks, CallsOK
<1>4. SyncCallOK(p)'
  <2>1. cl.op = "waitset" => HoldsWaitset(p, cl.slot)' BY DEF Blocks, HoldsWaitset
  <2>2. QED BY <1>2, <1>3, <2>1 DEF Blocks, SyncCallOK
<1>5. Watched(p)' = M BY <1>1, <1>2, <1>3 DEF Watched, Blocks
<1>6. ASSUME NEW q \in Pid
      PROVE  SyncCallOK(q)' /\ FenceOK(q)' /\ Watched(q)' = IF q = p THEN M ELSE Watched(q)
  <2>1. CASE q = p BY <1>4, <1>5, <2>1
  <2>2. CASE q # p BY <2>2, BystanderKept DEF Bystanders
  <2>3. QED BY <2>1, <2>2
<1>7. CallsOK' BY <1>3, <1>6 DEF CallsOK
<1>8. Watches' = [Watches EXCEPT ![p] = M]
  <2>1. Watches' = [q \in Pid |-> Watched(q)'] BY DEF Watches
  <2>2. [Watches EXCEPT ![p] = M] = [q \in Pid |-> IF q = p THEN M ELSE Watched(q)]
    BY DEF Watches
  <2>3. QED BY <1>6, <2>1, <2>2
<1>9. QED BY <1>1, <1>7, <1>8

-----------------------------------------------------------------------------
(* The messages in the queues *)

Messages(r) == UNION {Elements(r.eps[i].queue) : i \in DOMAIN r.eps}

\* The messages in s are those of r and M.
Adds(r, s, M) == Messages(s) \subseteq Messages(r) \cup M

LEMMA AddsOps ==
    ASSUME NEW r, Tidy(r), NEW id
    PROVE  /\ Adds(r, Recv(r, id), {})
           /\ RecvErr(r, id) = "Ok" =>
                Received(r, id) \in Messages(r) /\ Received(r, id) \in Message
           /\ \A m \in Message : Adds(r, Send(r, id, m), {m}) /\ Adds(r, RequeueFront(r, id, m), {m})
           /\ Adds(r, CloseEndpoint(r, id), {})
<1>1. r \in RouterState BY DEF Tidy
<1>2. ASSUME NEW s, OnlyAt(r, s, id), id \in DOMAIN r.eps, NEW M,
             Elements(s.eps[id].queue) \subseteq Elements(r.eps[id].queue) \cup M
      PROVE  Adds(r, s, M)
  <2>1. ASSUME NEW i \in DOMAIN s.eps, NEW m \in Elements(s.eps[i].queue)
        PROVE  m \in Messages(r) \cup M
    BY <1>2, <2>1 DEF OnlyAt, Messages
  <2>2. QED BY <2>1 DEF Adds, Messages
<1>3. Adds(r, r, {}) /\ \A M : Adds(r, r, M) BY DEF Adds
<1>4. ASSUME RecvErr(r, id) = "Ok"
      PROVE  /\ Adds(r, Recv(r, id), {})
             /\ Received(r, id) \in Messages(r) /\ Received(r, id) \in Message
  <2>1. PICK s : s = Recv(r, id) OBVIOUS
  <2>2. /\ id \in DOMAIN r.eps /\ r.eps[id].queue # <<>>
        /\ OnlyAt(r, s, id) /\ s.eps[id] = Pop(r.eps[id])
    BY <1>1, <1>4, <2>1, RecvEffect
  <2>3. r.eps[id] \in Endpoint BY <1>1, <2>2, RouterFields
  <2>4. PICK q \in Seq(Message) : q = r.eps[id].queue BY <2>3, EndpointFields
  <2>5. s.eps[id].queue = Tail(q) BY <2>2, <2>3, <2>4, PopFields
  <2>6. Elements(Tail(q)) \subseteq Elements(q) BY <2>2, <2>4 DEF Elements
  <2>7. Head(q) \in Elements(q) /\ Head(q) \in Message BY <2>2, <2>4 DEF Elements
  <2>8. Received(r, id) = Head(q) BY <2>4 DEF Received
  <2>9. QED BY <1>2, <2>1, <2>2, <2>4, <2>5, <2>6, <2>7, <2>8 DEF Messages
<1>5. RecvErr(r, id) # "Ok" => Adds(r, Recv(r, id), {}) BY <1>3 DEF Recv
<1>6. ASSUME NEW m \in Message
      PROVE  Adds(r, Send(r, id, m), {m}) /\ Adds(r, RequeueFront(r, id, m), {m})
  <2>1. CASE SendErr(r, id, m) # "Ok" BY <1>3, <2>1 DEF Send, RequeueFront
  <2>2. CASE SendErr(r, id, m) = "Ok"
    <3>1. PICK s, u : s = Send(r, id, m) /\ u = RequeueFront(r, id, m) OBVIOUS
    <3>2. /\ id \in DOMAIN r.eps /\ OnlyAt(r, s, id) /\ OnlyAt(r, u, id)
          /\ s.eps[id] = Push(r.eps[id], m) /\ u.eps[id] = PushFront(r.eps[id], m)
      BY <1>1, <2>2, <3>1, SendEffect
    <3>3. r.eps[id] \in Endpoint BY <1>1, <3>2, RouterFields
    <3>4. PICK q \in Seq(Message) : q = r.eps[id].queue BY <3>3, EndpointFields
    <3>5. s.eps[id].queue = Append(q, m) /\ u.eps[id].queue = <<m>> \o q
      BY <3>2, <3>3, <3>4, PushFields
    <3>6. Elements(Append(q, m)) \subseteq Elements(q) \cup {m} BY <3>4 DEF Elements
    <3>7. Elements(<<m>> \o q) \subseteq Elements(q) \cup {m} BY <3>4 DEF Elements
    <3>8. QED BY <1>2, <3>1, <3>2, <3>4, <3>5, <3>6, <3>7
  <2>3. QED BY <2>1, <2>2
<1>7. Adds(r, CloseEndpoint(r, id), {})
  <2>1. CASE ~EndpointAlive(r, id) BY <1>3, <2>1 DEF CloseEndpoint
  <2>2. CASE EndpointAlive(r, id)
    <3>1. PICK s : s = CloseEndpoint(r, id) OBVIOUS
    <3>2. id \in DOMAIN r.eps BY <2>2 DEF EndpointAlive
    <3>3. s.eps = [r.eps EXCEPT ![id] = Closed(r.eps[id])]
      BY <2>2, <3>1 DEF CloseEndpoint, RecomputeAccounting
    <3>4. r.eps[id] \in Endpoint BY <1>1, <3>2, RouterFields
    <3>5. Closed(r.eps[id]).queue = <<>> BY <3>4 DEF Closed, Endpoint
    <3>6. Elements(<<>>) = {} BY DEF Elements
    <3>7. OnlyAt(r, s, id) /\ s.eps[id].queue = <<>> BY <3>2, <3>3, <3>5 DEF OnlyAt
    <3>8. QED BY <1>2, <3>1, <3>2, <3>6, <3>7
  <2>3. QED BY <2>1, <2>2
<1>8. QED BY <1>4, <1>5, <1>6, <1>7

LEMMA AddsNone ==
    ASSUME NEW r, NEW s
    PROVE  /\ OnlyWaiters(r, s) => Adds(r, s, {})
           /\ Tidy(r) => \A p : Adds(r, CloseEndpointsForOwner(r, p), {})
<1>1. ASSUME OnlyWaiters(r, s) PROVE Adds(r, s, {})
  BY <1>1 DEF OnlyWaiters, SameContents, Adds, Messages
<1>2. ASSUME Tidy(r), NEW p PROVE Adds(r, CloseEndpointsForOwner(r, p), {})
  <2>1. PICK t : t = CloseEndpointsForOwner(r, p) OBVIOUS
  <2>2. PICK I : I = AliveOwnedBy(r, p) OBVIOUS
  <2>3. t.eps = [i \in DOMAIN r.eps |-> IF i \in I THEN Closed(r.eps[i]) ELSE r.eps[i]]
    BY <2>1, <2>2 DEF CloseEndpointsForOwner, RecomputeAccounting
  <2>4. ASSUME NEW i \in DOMAIN r.eps PROVE Elements(t.eps[i].queue) \subseteq Elements(r.eps[i].queue)
    <3>1. r.eps[i] \in Endpoint BY <1>2, TidyQueues
    <3>2. Closed(r.eps[i]).queue = <<>> BY <3>1 DEF Closed, Endpoint
    <3>3. Elements(<<>>) = {} BY DEF Elements
    <3>4. QED BY <2>3, <3>2, <3>3
  <2>5. DOMAIN t.eps = DOMAIN r.eps BY <2>3
  <2>6. QED BY <2>1, <2>4, <2>5 DEF Adds, Messages
<1>3. QED BY <1>1, <1>2

LEMMA AddsTwice ==
    ASSUME NEW r, NEW s, NEW t, NEW M, NEW N, Adds(r, s, M), Adds(s, t, N)
    PROVE  Adds(r, t, M \cup N)
BY DEF Adds

-----------------------------------------------------------------------------
(* What a step does to tables, messages and objects *)

\* Objects are added, and stay with their owner.
ObjectsGrow ==
    /\ DOMAIN waitsets \subseteq DOMAIN waitsets' /\ DOMAIN fences \subseteq DOMAIN fences'
    /\ \A w \in DOMAIN waitsets : waitsets'[w].owner = waitsets[w].owner

LEMMA CapsStay ==
    ASSUME ObjectsGrow, NEW p, NEW c
    PROVE  (CapFine(p, c) => CapFine(p, c)') /\ (Loose(c) => Loose(c)')
BY DEF ObjectsGrow, CapFine, Loose

\* Every capability in a table was there, or is one the task may hold.
TablesStep ==
    /\ caps' \in [Pid -> Table]
    /\ \A p \in Pid, s \in Slot :
         caps'[p][s] = caps[p][s] \/ caps'[p][s] = NoCap \/ CapFine(p, caps[p][s])'

LEMMA TablesKept ==
    ASSUME TablesOK, ObjectsGrow, TablesStep
    PROVE  TablesOK'
<1>1. ASSUME NEW p \in Pid, NEW s \in Slot PROVE CapFine(p, caps[p][s])'
  <2>1. PICK c : c = caps[p][s] OBVIOUS
  <2>2. CapFine(p, c)' BY <2>1, CapsStay DEF TablesOK
  <2>3. CASE caps'[p][s] = c BY <2>2, <2>3 DEF CapFine
  <2>4. CASE caps'[p][s] = NoCap BY <2>4 DEF CapFine
  <2>5. QED BY <2>1, <2>3, <2>4 DEF TablesStep
<1>2. QED BY <1>1 DEF TablesOK, TablesStep

LEMMA MessagesKept ==
    ASSUME MessagesOK, ObjectsGrow, NEW M, Adds(router, router', M),
           \A m \in M : Loose(m.cap)
    PROVE  MessagesOK'
<1>1. \A m \in Messages(router) : Loose(m.cap) BY DEF MessagesOK, Messages
<1>2. ASSUME NEW i \in DOMAIN router'.eps, NEW m \in Elements(router'.eps[i].queue)
      PROVE  Loose(m.cap)'
  <2>1. m \in Messages(router') BY <1>2 DEF Messages
  <2>2. m \in Messages(router) \cup M BY <2>1 DEF Adds
  <2>3. Loose(m.cap) BY <1>1, <2>2
  <2>4. QED BY <2>3, CapsStay
<1>3. QED BY <1>2 DEF MessagesOK

\* Steps that leave the objects alone, but for waits on fences that time out.
LEMMA ObjectsKept ==
    ASSUME ObjectsOK, FencesKept, UNCHANGED waitsets
    PROVE  /\ ObjectsGrow /\ WaitsetsOK' /\ fences' \in Seq(FenceRecord)
           /\ \A q \in Pid : WaitsetsKeptFor(q) /\ FencesKeptFor(q)
<1>1. fences \in Seq(FenceRecord) /\ WaitsetsOK BY DEF ObjectsOK
<1>2. PICK S : S = TimedOut OBVIOUS
<1>3. fences' = LeaveFences(fences, S) BY <1>2 DEF FencesKept
<1>4. fences' \in Seq(FenceRecord) /\ DOMAIN fences' = DOMAIN fences BY <1>1, <1>3, LeaveEffect
<1>5. ObjectsGrow BY <1>4 DEF ObjectsGrow
<1>6. WaitsetsOK' BY <1>1 DEF WaitsetsOK
<1>7. ASSUME NEW q \in Pid PROVE WaitsetsKeptFor(q) /\ FencesKeptFor(q)
  <2>1. WaitsetsKeptFor(q) BY DEF WaitsetsKeptFor
  <2>2. ASSUME blocked'[q] # None, NEW f \in DOMAIN fences, NEW t, FenceHolds(fences, f, q, t)
        PROVE  FenceHolds(fences', f, q, t)
    <3>1. q \notin S BY <1>2, <2>2 DEF TimedOut
    <3>2. FenceHolds(LeaveFences(fences, S), f, q, t) BY <1>1, <2>2, <3>1, LeaveKeeps
    <3>3. QED BY <1>3, <3>2
  <2>3. QED BY <2>1, <2>2 DEF FencesKeptFor
<1>8. QED BY <1>4, <1>5, <1>6, <1>7

\* Only task p acts; the others are at most woken and keep their objects.
OnlyActs(p) == \A q \in Pid :
    /\ blocked'[q] \in {blocked[q], None} \/ q = p
    /\ q # p => caps'[q] = caps[q] /\ WaitsetsKeptFor(q) /\ FencesKeptFor(q)

\* Task p returns from its call, which watches no endpoints, or makes none.
LEMMA StepReturns ==
    ASSUME SyncInv, NEW p \in Pid, Watched(p) = {}, OnlyActs(p), blocked'[p] = None,
           Return(p) \/ (call' = call /\ call[p] = None)
    PROVE  CallsOK' /\ Watches' = Watches
<1>1. ObjectsOK /\ CallsOK /\ call \in [Pid -> {None} \cup Call] BY DEF SyncInv, CallsOK
<1>2. /\ call' \in [Pid -> {None} \cup Call] /\ call'[p] = None
      /\ \A q \in Pid : q # p => call'[q] = call[q]
  BY <1>1 DEF Return
<1>3. Bystanders(p) BY <1>2 DEF OnlyActs, Bystanders, Bystander, AtMostWoken
<1>4. CallsOK' /\ Watches' = [Watches EXCEPT ![p] = {}] BY <1>1, <1>2, <1>3, Returned
<1>5. Watches[p] = {} /\ Watches = [q \in Pid |-> Watches[q]] BY DEF Watches
<1>6. [Watches EXCEPT ![p] = {}] = Watches BY <1>5
<1>7. QED BY <1>4, <1>6

\* A step in which no task watches other endpoints than before.
LEMMA StepKeeps ==
    ASSUME Core(router', blocked', Watches), Watches' = Watches, TablesOK', MessagesOK',
           WaitsetsOK', fences' \in Seq(FenceRecord), CallsOK'
    PROVE  SyncInv'
BY DEF SyncInv, ObjectsOK

\* The call of a task that is not in a waitset_wait watches nothing.
LEMMA WatchesNothing ==
    ASSUME NEW p \in Pid,
           call[p] = None \/ \E cl \in Making(p) : cl.op # "waitset"
    PROVE  Watched(p) = {}
BY DEF Watched, Making

LEMMA WakesAtMost ==
    ASSUME NEW b, NEW S PROVE \A q \in Pid : Woken(b, S)[q] \in {b[q], None}
BY DEF Woken

-----------------------------------------------------------------------------
(* Send and receive *)

\* The message that a send makes, and the capability in it.
LEMMA SendMessage ==
    ASSUME SyncInv, NEW p \in Pid, NEW cl \in Making(p), cl.op = "send",
           IpcSendErr(p, cl) \in {"Ok", "QueueFull"}
    PROVE  /\ MessageOf(p, cl) \in Message /\ Loose(MessageOf(p, cl).cap)
           /\ SendErr(router, caps[p][cl.slot].ep, MessageOf(p, cl)) = IpcSendErr(p, cl)
           /\ caps[p][cl.slot].ep \in DOMAIN Owners /\ cl.deadline \in Nat
<1>1. CallsOK /\ TablesOK BY DEF SyncInv, ObjectsOK
<1>2. cl \in Calls[p] BY <1>1, MakingOwn
<1>3. IsIpcCall(cl) BY <1>2, CallFacts
<1>4. /\ cl.len <= MAX_FRAME_BYTES /\ DerivesEndpoint(caps[p], cl.slot, "SEND")
      /\ MoveErr(p, cl) = "Ok"
      /\ IpcSendErr(p, cl) = SendErr(router, caps[p][cl.slot].ep, MessageOf(p, cl))
  BY <1>3, SendLegal
<1>5. caps[p] \in Table BY <1>1 DEF TablesOK
<1>6. PICK c : c = MovedCap(p, cl) OBVIOUS
<1>7. c \in Cap \cup {NoCap} BY <1>3, <1>5, <1>6 DEF MovedCap, Table, IsIpcCall
<1>8. cl.len \in 0..MAX_FRAME_BYTES BY <1>3, <1>4, RouterAssumption DEF IsIpcCall
<1>9. MessageOf(p, cl) \in Message /\ MessageOf(p, cl).cap = c
  BY <1>6, <1>7, <1>8, IpcAssumption DEF MessageOf
<1>10. Loose(c)
  <2>1. CASE cl.move = None BY <1>6, <2>1 DEF MovedCap, Loose
  <2>2. CASE cl.move # None
    <3>1. cl.move \in Slot /\ c = caps[p][cl.move] BY <1>3, <1>6, <2>2 DEF MovedCap, IsIpcCall
    <3>2. CapFine(p, c) BY <1>1, <3>1 DEF TablesOK
    <3>3. c # NoCap /\ "MANAGE" \notin c.rights BY <1>4, <2>2, <3>1 DEF MoveErr
    <3>4. QED BY <1>2, <2>2, <3>2, <3>3, MovableIsLoose
  <2>3. QED BY <2>1, <2>2
<1>11. caps[p][cl.slot].ep \in DOMAIN Owners /\ cl.deadline \in Nat
  <2>1. cl.slot \in Slot BY <1>3 DEF IsIpcCall
  <2>2. caps[p][cl.slot] \in Cap /\ caps[p][cl.slot].kind = "Endpoint"
    BY <1>4, <1>5, <2>1 DEF DerivesEndpoint, Table
  <2>3. QED BY <1>3, <2>2, IpcAssumption DEF IsIpcCall
<1>12. QED BY <1>4, <1>9, <1>10, <1>11

LEMMA SyncSendOk ==
    ASSUME SyncInv, NEW p \in Pid, NEW cl \in Making(p), SendOk(p, cl), FencesKept,
           UNCHANGED waitsets
    PROVE  SyncInv'
<1>1. /\ Core(router, blocked, Watches) /\ ObjectsOK /\ TablesOK /\ MessagesOK
      /\ blocked[p] = None /\ cl.op = "send" /\ IpcSendErr(p, cl) = "Ok"
  BY DEF SyncInv, ObjectsOK, SendOk, Runs
<1>2. PICK ep : ep = caps[p][cl.slot].ep OBVIOUS
<1>3. PICK m : m = MessageOf(p, cl) OBVIOUS
<1>4. m \in Message /\ Loose(m.cap) /\ SendErr(router, ep, m) = "Ok"
  BY <1>1, <1>2, <1>3, SendMessage
<1>5. PICK t : t = Send(router, ep, m) OBVIOUS
<1>6. router' = PopRecvWaiter(t, ep) /\ blocked' = Woken(blocked, {FirstRecvWaiter(t, ep)})
  BY <1>2, <1>3, <1>5 DEF SendOk
<1>7. Core(router', blocked', Watches) BY <1>1, <1>4, <1>5, <1>6, CoreSend
<1>8. /\ ObjectsGrow /\ WaitsetsOK' /\ fences' \in Seq(FenceRecord)
      /\ \A q \in Pid : WaitsetsKeptFor(q) /\ FencesKeptFor(q)
  BY <1>1, ObjectsKept
<1>9. MessagesOK'
  <2>1. Tidy(router) /\ Tidy(t) BY <1>1, <1>4, <1>5, TidySendRecv DEF Core
  <2>2. t \in RouterState BY <2>1 DEF Tidy
  <2>3. OnlyWaiters(t, router') BY <1>6, <2>2, OnlyWaitersOps
  <2>4. Adds(router, t, {m}) /\ Adds(t, router', {}) BY <1>4, <1>5, <2>1, <2>3, AddsOps, AddsNone
  <2>5. Adds(router, router', {m}) BY <2>4 DEF Adds
  <2>6. QED BY <1>1, <1>4, <1>8, <2>5, MessagesKept
<1>10. caps' = caps \/ \E s : caps' = [caps EXCEPT ![p] = Take(caps[p], s)] BY DEF SendOk
<1>11. TablesStep /\ \A q \in Pid : q # p => caps'[q] = caps[q]
  <2>1. caps \in [Pid -> Table] BY <1>1 DEF TablesOK
  <2>2. caps' \in [Pid -> Table] BY <1>10, <2>1, TablesTyped
  <2>3. QED BY <1>10, <2>1, <2>2 DEF TablesStep, Take, Table
<1>12. TablesOK' BY <1>1, <1>8, <1>11, TablesKept
<1>13. CallsOK' /\ Watches' = Watches
  <2>1. \A q \in Pid : blocked'[q] \in {blocked[q], None} BY <1>6, WakesAtMost
  <2>2. OnlyActs(p) BY <1>8, <1>11, <2>1 DEF OnlyActs
  <2>3. Watched(p) = {} BY <1>1, WatchesNothing
  <2>4. blocked'[p] = None BY <1>1, <2>1
  <2>5. QED BY <2>2, <2>3, <2>4, StepReturns DEF SendOk
<1>14. QED BY <1>7, <1>8, <1>9, <1>12, <1>13, StepKeeps

LEMMA SyncFail ==
    ASSUME SyncInv, NEW p \in Pid, NEW cl \in Making(p), SendFail(p, cl) \/ RecvFail(p, cl),
           FencesKept, UNCHANGED waitsets
    PROVE  SyncInv'
<1>1. /\ Core(router, blocked, Watches) /\ ObjectsOK /\ TablesOK /\ MessagesOK
      /\ blocked[p] = None /\ cl.op \in {"send", "recv"}
      /\ router' = router /\ blocked' = blocked /\ caps' = caps /\ Return(p)
  BY DEF SyncInv, ObjectsOK, SendFail, RecvFail, Runs
<1>2. /\ ObjectsGrow /\ WaitsetsOK' /\ fences' \in Seq(FenceRecord)
      /\ \A q \in Pid : WaitsetsKeptFor(q) /\ FencesKeptFor(q)
  BY <1>1, ObjectsKept
<1>3. MessagesOK'
  <2>1. Adds(router, router', {}) BY <1>1 DEF Adds
  <2>2. QED BY <1>1, <1>2, <2>1, MessagesKept
<1>4. TablesOK' BY <1>1, <1>2, TablesKept DEF TablesStep, TablesOK
<1>5. CallsOK' /\ Watches' = Watches
  <2>1. OnlyActs(p) BY <1>1, <1>2 DEF OnlyActs
  <2>2. Watched(p) = {} BY <1>1, WatchesNothing
  <2>3. QED BY <1>1, <2>1, <2>2, StepReturns
<1>6. QED BY <1>1, <1>2, <1>3, <1>4, <1>5, StepKeeps

\* What the router does when a task parks on the queues that s adds to r.
LEMMA CoreParks ==
    ASSUME NEW r, NEW W, Core(r, blocked, W), NEW p \in Pid, blocked[p] = None,
           NEW x, MayPark(r, p, x, W), NEW s, Enters(r, s, p, x), NEW cl, Park(p, cl, s, r, x)
    PROVE  /\ Core(router', blocked', W) /\ Adds(r, router', {})
           /\ \A q \in Pid : q # p => blocked'[q] \in {blocked[q], None}
           /\ blocked'[p] # None => blocked'[p] = x
<1>1. PICK b : b = [blocked EXCEPT ![p] = x] OBVIOUS
<1>2. Core(s, b, W) BY <1>1, CorePark
<1>3. Tidy(r) /\ Tidy(s) /\ OnlyWaiters(r, s) /\ blocked \in [Pid -> {None} \cup SyncReason]
  BY DEF Core, Enters
<1>4. b[p] = x /\ \A q \in Pid : q # p => b[q] = blocked[q] BY <1>1, <1>3
<1>5. CASE WakeExpired(s, b)
  <2>1. Core(router', blocked', W) BY <1>2, <1>5, CoreExpired
  <2>2. OnlyWaiters(s, router') BY <1>3, <1>5, DeregisterEffect DEF WakeExpired
  <2>3. Adds(r, s, {}) /\ Adds(s, router', {}) BY <1>3, <2>2, AddsNone
  <2>4. \A q \in Pid : blocked'[q] \in {b[q], None} BY <1>5, WakesAtMost DEF WakeExpired
  <2>5. QED BY <1>4, <2>1, <2>3, <2>4 DEF Adds
<1>6. CASE WakeExpired(r, blocked)
  <2>1. Core(router', blocked', W) BY <1>6, CoreExpired
  <2>2. OnlyWaiters(r, router') BY <1>3, <1>6, DeregisterEffect DEF WakeExpired
  <2>3. Adds(r, router', {}) BY <2>2, AddsNone
  <2>4. \A q \in Pid : blocked'[q] \in {blocked[q], None} BY <1>6, WakesAtMost DEF WakeExpired
  <2>5. QED BY <2>1, <2>3, <2>4
<1>7. QED BY <1>1, <1>5, <1>6 DEF Park

\* A send or receive that blocks.
LEMMA StepBlocks ==
    ASSUME SyncInv, NEW p \in Pid, NEW cl \in Making(p), cl.op \in {"send", "recv"},
           blocked[p] = None, NEW s, NEW x, x.on = cl.op, MayPark(router, p, x, Watches),
           Enters(router, s, p, x), Park(p, cl, s, router, x),
           FencesKept, UNCHANGED <<caps, waitsets>>
    PROVE  SyncInv'
<1>1. /\ Core(router, blocked, Watches) /\ ObjectsOK /\ TablesOK /\ MessagesOK /\ CallsOK
  BY DEF SyncInv, ObjectsOK
<1>2. /\ Core(router', blocked', Watches) /\ Adds(router, router', {})
      /\ \A q \in Pid : q # p => blocked'[q] \in {blocked[q], None}
      /\ blocked'[p] # None => blocked'[p] = x
  BY <1>1, CoreParks
<1>3. /\ ObjectsGrow /\ WaitsetsOK' /\ fences' \in Seq(FenceRecord)
      /\ \A q \in Pid : WaitsetsKeptFor(q) /\ FencesKeptFor(q)
  BY <1>1, ObjectsKept
<1>4. MessagesOK' BY <1>1, <1>2, <1>3, MessagesKept
<1>5. TablesOK' BY <1>1, <1>3, TablesKept DEF TablesStep, TablesOK
<1>6. call' = [call EXCEPT ![p] = cl] /\ call \in [Pid -> {None} \cup Call]
  BY <1>1 DEF Park, CallsOK
<1>7. Bystanders(p) BY <1>2, <1>3, <1>6 DEF Bystanders, Bystander, AtMostWoken
<1>8. Blocks(p, cl) BY <1>2, <1>6 DEF Blocks
<1>9. FenceOK(p)' BY <1>2 DEF FenceOK, BlockedOn
<1>10. cl \in Calls[p] BY <1>1, MakingOwn
<1>11. CallsOK' /\ Watches' = [Watches EXCEPT ![p] = {}]
  BY <1>1, <1>7, <1>8, <1>9, <1>10, Blocked
<1>12. Watched(p) = {} BY WatchesNothing
<1>13. Watches[p] = {} /\ Watches = [q \in Pid |-> Watches[q]] BY <1>12 DEF Watches
<1>14. [Watches EXCEPT ![p] = {}] = Watches BY <1>13
<1>15. QED BY <1>2, <1>3, <1>4, <1>5, <1>11, <1>14, StepKeeps

\* The reason for which a sender or receiver blocks.
LEMMA ReasonFacts ==
    ASSUME NEW on \in {"send", "recv", "waitset", "fence"}, NEW M, M \subseteq DOMAIN Owners,
           NEW d \in Nat
    PROVE  /\ Reason(on, M, d) \in SyncReason /\ Reason(on, M, d).on = on
           /\ Reason(on, M, d).eps = M
BY DEF Reason, SyncReason

LEMMA SyncSendWait ==
    ASSUME SyncInv, NEW p \in Pid, NEW cl \in Making(p), SendWait(p, cl), FencesKept,
           UNCHANGED waitsets
    PROVE  SyncInv'
<1>1. /\ Core(router, blocked, Watches) /\ Tidy(router) /\ router \in RouterState
      /\ blocked[p] = None /\ cl.op = "send" /\ IpcSendErr(p, cl) = "QueueFull" /\ caps' = caps
  BY DEF SyncInv, SendWait, SendBlocks, Runs, Core, Tidy
<1>2. PICK ep : ep = caps[p][cl.slot].ep OBVIOUS
<1>3. PICK m : m = MessageOf(p, cl) OBVIOUS
<1>4. SendErr(router, ep, m) = "QueueFull" /\ ep \in DOMAIN Owners /\ cl.deadline \in Nat
  BY <1>1, <1>2, <1>3, SendMessage
<1>5. EndpointAlive(router, ep) BY <1>1, <1>4, FullIsAlive
<1>6. PICK x : x = Reason("send", {ep}, cl.deadline) OBVIOUS
<1>7. x \in SyncReason /\ x.on = "send" /\ x.eps = {ep} BY <1>4, <1>6, ReasonFacts
<1>8. PICK s : s = RegisterSendWaiter(router, ep, p) OBVIOUS
<1>9. Enters(router, s, p, x) BY <1>1, <1>5, <1>7, <1>8, RegisterEnters
<1>10. Watches[p] = {} BY <1>1, WatchesNothing DEF Watches
<1>11. MayPark(router, p, x, Watches) BY <1>7, <1>10 DEF MayPark
<1>12. Park(p, cl, s, router, x) BY <1>2, <1>6, <1>8 DEF SendWait
<1>13. QED BY <1>1, <1>7, <1>9, <1>11, <1>12, StepBlocks

\* A receiver is the receiver of the endpoint.
LEMMA RecvEndpoint ==
    ASSUME SyncInv, NEW p \in Pid, NEW cl \in Making(p), cl.op = "recv",
           IpcRecvErr(p, cl) \in {"Ok", "QueueEmpty"}
    PROVE  /\ RecvErr(router, caps[p][cl.slot].ep) = IpcRecvErr(p, cl)
           /\ Rcv[caps[p][cl.slot].ep] = p /\ caps[p][cl.slot].ep \in DOMAIN Owners
           /\ cl.deadline \in Nat
<1>1. CallsOK /\ TablesOK BY DEF SyncInv, ObjectsOK
<1>2. cl \in Calls[p] BY <1>1, MakingOwn
<1>3. cl.slot \in Slot /\ cl.deadline \in Nat BY <1>2, CallFacts
<1>4. /\ DerivesEndpoint(caps[p], cl.slot, "RECV")
      /\ IpcRecvErr(p, cl) = RecvErr(router, caps[p][cl.slot].ep)
  BY DEF IpcRecvErr
<1>5. PICK c : c = caps[p][cl.slot] OBVIOUS
<1>6. c # NoCap /\ c.kind = "Endpoint" /\ "RECV" \in c.rights BY <1>4, <1>5 DEF DerivesEndpoint
<1>7. CapFine(p, c) /\ c \in Cap BY <1>1, <1>3, <1>5, <1>6, HeldFine
<1>8. Rcv[c.ep] = p /\ c.ep \in DOMAIN Owners BY <1>6, <1>7, IpcAssumption DEF CapFine
<1>9. QED BY <1>3, <1>4, <1>5, <1>8

LEMMA SyncRecvWait ==
    ASSUME SyncInv, NEW p \in Pid, NEW cl \in Making(p), RecvWait(p, cl), FencesKept,
           UNCHANGED waitsets
    PROVE  SyncInv'
<1>1. /\ Core(router, blocked, Watches) /\ Tidy(router) /\ router \in RouterState
      /\ blocked[p] = None /\ cl.op = "recv" /\ IpcRecvErr(p, cl) = "QueueEmpty" /\ caps' = caps
  BY DEF SyncInv, RecvWait, RecvBlocks, Runs, Core, Tidy
<1>2. PICK ep : ep = caps[p][cl.slot].ep OBVIOUS
<1>3. /\ RecvErr(router, ep) = "QueueEmpty" /\ ep \in DOMAIN Owners /\ cl.deadline \in Nat
      /\ Rcv[ep] = p
  BY <1>1, <1>2, RecvEndpoint
<1>4. EndpointAlive(router, ep) BY <1>3 DEF RecvErr
<1>5. PICK x : x = Reason("recv", {ep}, cl.deadline) OBVIOUS
<1>6. x \in SyncReason /\ x.on = "recv" /\ x.eps = {ep} BY <1>3, <1>5, ReasonFacts
<1>7. PICK s : s = RegisterRecvWaiter(router, ep, p) OBVIOUS
<1>8. Enters(router, s, p, x) BY <1>1, <1>4, <1>6, <1>7, RegisterEnters
<1>9. Watches[p] = {} BY <1>1, WatchesNothing DEF Watches
<1>10. MayPark(router, p, x, Watches) BY <1>3, <1>6, <1>9 DEF MayPark
<1>11. Park(p, cl, s, router, x) BY <1>2, <1>5, <1>7 DEF RecvWait
<1>12. QED BY <1>1, <1>6, <1>8, <1>10, <1>11, StepBlocks

LEMMA SyncRecvOk ==
    ASSUME SyncInv, NEW p \in Pid, NEW cl \in Making(p), RecvOk(p, cl), FencesKept,
           UNCHANGED waitsets
    PROVE  SyncInv'
<1>1. /\ Core(router, blocked, Watches) /\ ObjectsOK /\ TablesOK /\ MessagesOK
      /\ blocked[p] = None /\ cl.op = "recv" /\ IpcRecvErr(p, cl) = "Ok"
  BY DEF SyncInv, ObjectsOK, RecvOk, Runs
<1>2. PICK ep : ep = caps[p][cl.slot].ep OBVIOUS
<1>3. RecvErr(router, ep) = "Ok" /\ Rcv[ep] = p BY <1>1, <1>2, RecvEndpoint
<1>4. PICK m : m = Received(router, ep) OBVIOUS
<1>5. Tidy(router) BY <1>1 DEF Core
<1>6. m \in Message /\ m \in Messages(router) BY <1>3, <1>4, <1>5, AddsOps
<1>7. Loose(m.cap) BY <1>1, <1>6 DEF MessagesOK, Messages
<1>8. PICK t : t = Recv(router, ep) OBVIOUS
<1>9. PICK u : u = PopSendWaiter(t, ep) OBVIOUS
<1>10. /\ blocked' = Woken(blocked, {FirstSendWaiter(t, ep)})
       /\ router' = u \/ router' = RequeueFront(u, ep, m)
  BY <1>2, <1>4, <1>8, <1>9 DEF RecvOk
<1>11. Core(u, blocked', Watches) /\ Core(RequeueFront(u, ep, m), blocked', Watches)
  BY <1>1, <1>3, <1>6, <1>8, <1>9, <1>10, CoreRecv
<1>12. Core(router', blocked', Watches) BY <1>10, <1>11
<1>13. /\ ObjectsGrow /\ WaitsetsOK' /\ fences' \in Seq(FenceRecord)
       /\ \A q \in Pid : WaitsetsKeptFor(q) /\ FencesKeptFor(q)
  BY <1>1, ObjectsKept
<1>14. MessagesOK'
  <2>1. Tidy(t) /\ Tidy(u) BY <1>1, <1>5, <1>8, <1>11, TidySendRecv DEF Core
  <2>2. t \in RouterState BY <2>1 DEF Tidy
  <2>3. OnlyWaiters(t, u) BY <1>9, <2>2, OnlyWaitersOps
  <2>4. Adds(router, t, {}) /\ Adds(t, u, {}) BY <1>5, <1>8, <2>3, AddsOps, AddsNone
  <2>5. Adds(u, RequeueFront(u, ep, m), {m}) BY <1>6, <2>1, AddsOps
  <2>6. Adds(router, router', {m}) BY <1>10, <2>4, <2>5 DEF Adds
  <2>7. QED BY <1>1, <1>7, <1>13, <2>6, MessagesKept
<1>15. \/ caps' = caps
       \/ /\ m.cap # NoCap /\ FreeSlots(caps[p]) # {}
          /\ caps' = [caps EXCEPT ![p] = Allocate(caps[p], m.cap)]
  BY <1>2, <1>4 DEF RecvOk
<1>16. TablesStep /\ \A q \in Pid : q # p => caps'[q] = caps[q]
  <2>1. caps \in [Pid -> Table] BY <1>1 DEF TablesOK
  <2>2. PICK c : c = m.cap OBVIOUS
  <2>3. c \in Cap \cup {NoCap} BY <1>6, <2>2, IpcAssumption
  <2>4. caps' \in [Pid -> Table] BY <1>15, <2>1, <2>2, <2>3, TablesTyped
  <2>5. CapFine(p, c)' BY <1>7, <1>13, <2>2, CapsStay, LooseIsFine
  <2>6. ASSUME NEW q \in Pid, NEW s \in Slot
        PROVE  caps'[q][s] = caps[q][s] \/ (q = p /\ caps'[q][s] = c)
    BY <1>15, <2>1, <2>2 DEF Allocate, Table
  <2>7. ASSUME NEW s \in Slot, caps'[p][s] = c PROVE CapFine(p, caps[p][s])'
    BY <2>5, <2>7 DEF CapFine
  <2>8. TablesStep BY <2>4, <2>6, <2>7 DEF TablesStep
  <2>9. QED BY <1>15, <2>1, <2>8
<1>17. TablesOK' BY <1>1, <1>13, <1>16, TablesKept
<1>18. CallsOK' /\ Watches' = Watches
  <2>1. \A q \in Pid : blocked'[q] \in {blocked[q], None} BY <1>10, WakesAtMost
  <2>2. OnlyActs(p) BY <1>13, <1>16, <2>1 DEF OnlyActs
  <2>3. Watched(p) = {} BY <1>1, WatchesNothing
  <2>4. blocked'[p] = None BY <1>1, <2>1
  <2>5. QED BY <2>2, <2>3, <2>4, StepReturns DEF RecvOk
<1>19. QED BY <1>12, <1>13, <1>14, <1>17, <1>18, StepKeeps

-----------------------------------------------------------------------------
(* Closing, exiting and the timer *)

\* Task p, which makes no call, gives capabilities up.
LEMMA TablesShrink ==
    ASSUME TablesOK, ObjectsGrow, NEW p \in Pid,
           \/ caps' = caps
           \/ \E s : caps' = [caps EXCEPT ![p] = Take(caps[p], s)]
           \/ caps' = [caps EXCEPT ![p] = [s \in Slot |-> NoCap]]
    PROVE  TablesOK' /\ \A q \in Pid : q # p => caps'[q] = caps[q]
<1>1. caps \in [Pid -> Table] BY DEF TablesOK
<1>2. caps' \in [Pid -> Table] BY <1>1, TablesTyped
<1>3. TablesStep BY <1>1, <1>2 DEF TablesStep, Take, Table
<1>4. QED BY <1>1, <1>3, TablesKept

LEMMA SyncEndpointClose ==
    ASSUME SyncInv, NEW p \in Pid, NEW s \in Slot, EndpointClose(p, s), FencesKept,
           UNCHANGED waitsets
    PROVE  SyncInv'
<1>1. /\ Core(router, blocked, Watches) /\ ObjectsOK /\ TablesOK /\ MessagesOK
      /\ blocked[p] = None /\ call[p] = None /\ call' = call /\ Tidy(router)
  BY DEF SyncInv, ObjectsOK, EndpointClose, Runs, Core
<1>2. /\ ObjectsGrow /\ WaitsetsOK' /\ fences' \in Seq(FenceRecord)
      /\ \A q \in Pid : WaitsetsKeptFor(q) /\ FencesKeptFor(q)
  BY <1>1, ObjectsKept
<1>3. PICK ep : ep = caps[p][s].ep OBVIOUS
<1>4. \/ router' = CloseEndpoint(router, ep) /\ blocked' = Woken(blocked, DrainedByClose(router, ep))
      \/ router' = router /\ blocked' = blocked
  BY <1>3 DEF EndpointClose
<1>5. Core(router', blocked', Watches) BY <1>1, <1>4, CoreClose
<1>6. Adds(router, router', {}) /\ \A q \in Pid : blocked'[q] \in {blocked[q], None}
  <2>1. Adds(router, router, {}) BY DEF Adds
  <2>2. QED BY <1>1, <1>4, <2>1, AddsOps, WakesAtMost
<1>7. MessagesOK' BY <1>1, <1>2, <1>6, MessagesKept
<1>8. TablesOK' /\ \A q \in Pid : q # p => caps'[q] = caps[q]
  BY <1>1, <1>2, TablesShrink DEF EndpointClose
<1>9. CallsOK' /\ Watches' = Watches
  <2>1. OnlyActs(p) BY <1>2, <1>6, <1>8 DEF OnlyActs
  <2>2. Watched(p) = {} BY <1>1, WatchesNothing
  <2>3. blocked'[p] = None BY <1>1, <1>6
  <2>4. QED BY <1>1, <2>1, <2>2, <2>3, StepReturns
<1>10. QED BY <1>2, <1>5, <1>7, <1>8, <1>9, StepKeeps

LEMMA SyncExit ==
    ASSUME SyncInv, NEW p \in Pid, SysExit(p), FencesKept, UNCHANGED waitsets
    PROVE  SyncInv'
<1>1. /\ Core(router, blocked, Watches) /\ ObjectsOK /\ TablesOK /\ MessagesOK
      /\ blocked[p] = None /\ call[p] = None /\ call' = call /\ Tidy(router)
  BY DEF SyncInv, ObjectsOK, SysExit, Runs, Core
<1>2. /\ ObjectsGrow /\ WaitsetsOK' /\ fences' \in Seq(FenceRecord)
      /\ \A q \in Pid : WaitsetsKeptFor(q) /\ FencesKeptFor(q)
  BY <1>1, ObjectsKept
<1>3. PICK t : t = CloseEndpointsForOwner(router, p) OBVIOUS
<1>4. router' = RemoveWaiterFromAll(t, p) /\ blocked' = Woken(blocked, DrainedByOwner(router, p))
  BY <1>3 DEF SysExit
<1>5. \A q \in Pid : blocked'[q] \in {blocked[q], None} BY <1>4, WakesAtMost
<1>6. Core(t, blocked', Watches) BY <1>1, <1>3, <1>4, CoreCloseOwner
<1>7. Core(router', blocked', Watches) BY <1>1, <1>4, <1>5, <1>6, CoreRemoveAll
<1>8. MessagesOK'
  <2>1. t \in RouterState BY <1>6 DEF Core, Tidy
  <2>2. OnlyWaiters(t, router') BY <1>4, <2>1, OnlyWaitersAll
  <2>3. Adds(router, t, {}) /\ Adds(t, router', {}) BY <1>1, <1>3, <2>2, AddsNone
  <2>4. Adds(router, router', {}) BY <2>3 DEF Adds
  <2>5. QED BY <1>1, <1>2, <2>4, MessagesKept
<1>9. TablesOK' /\ \A q \in Pid : q # p => caps'[q] = caps[q]
  BY <1>1, <1>2, TablesShrink DEF SysExit
<1>10. CallsOK' /\ Watches' = Watches
  <2>1. OnlyActs(p) BY <1>2, <1>5, <1>9 DEF OnlyActs
  <2>2. Watched(p) = {} BY <1>1, WatchesNothing
  <2>3. blocked'[p] = None BY <1>1, <1>5
  <2>4. QED BY <1>1, <2>1, <2>2, <2>3, StepReturns
<1>11. QED BY <1>2, <1>7, <1>8, <1>9, <1>10, StepKeeps

LEMMA SyncTimer ==
    ASSUME SyncInv, TimerTick \/ TimePasses, FencesKept, UNCHANGED waitsets
    PROVE  SyncInv'
<1>1. /\ Core(router, blocked, Watches) /\ ObjectsOK /\ TablesOK /\ MessagesOK /\ CallsOK
      /\ call' = call /\ caps' = caps /\ Tidy(router)
  BY DEF SyncInv, ObjectsOK, TimerTick, TimePasses, Core
<1>2. /\ ObjectsGrow /\ WaitsetsOK' /\ fences' \in Seq(FenceRecord)
      /\ \A q \in Pid : WaitsetsKeptFor(q) /\ FencesKeptFor(q)
  BY <1>1, ObjectsKept
<1>3. PICK S : S = ExpiredIpc(blocked) OBVIOUS
<1>4. \/ router' = Deregister(router, blocked, S) /\ blocked' = Woken(blocked, S)
      \/ router' = router /\ blocked' = blocked
  BY <1>3 DEF TimerTick, TimePasses
<1>5. S \subseteq {q \in Pid : blocked[q] # None} BY <1>3 DEF ExpiredIpc, Expired
<1>6. Core(router', blocked', Watches) BY <1>1, <1>4, <1>5, CoreDeregister
<1>7. Adds(router, router', {}) /\ \A q \in Pid : blocked'[q] \in {blocked[q], None}
  <2>1. Adds(router, router, {}) BY DEF Adds
  <2>2. Adds(router, Deregister(router, blocked, S), {}) BY <1>1, DeregisterEffect, AddsNone
  <2>3. QED BY <1>4, <2>1, <2>2, WakesAtMost
<1>8. MessagesOK' BY <1>1, <1>2, <1>7, MessagesKept
<1>9. TablesOK' BY <1>1, <1>2, TablesKept DEF TablesStep, TablesOK
<1>10. \A q \in Pid : Bystander(q) BY <1>1, <1>2, <1>7 DEF Bystander, AtMostWoken
<1>11. CallsOK' /\ Watches' = Watches BY <1>1, <1>10, NobodyActs
<1>12. QED BY <1>2, <1>6, <1>8, <1>9, <1>11, StepKeeps

-----------------------------------------------------------------------------
(* Creating, changing and closing objects *)

\* A task that makes no call changes objects; everybody's capabilities to
\* objects stay valid and the router and the block reasons are as they were.
LEMMA StepChanges ==
    ASSUME SyncInv, NEW p \in Pid, Runs(p), Watched(p) = {}, OnlyActs(p), ObjectsGrow, TablesStep,
           Return(p) \/ (call' = call /\ call[p] = None), router' = router, blocked' = blocked,
           WaitsetsOK', fences' \in Seq(FenceRecord)
    PROVE  SyncInv'
<1>1. Core(router', blocked', Watches) /\ TablesOK /\ MessagesOK /\ blocked'[p] = None
  BY DEF SyncInv, ObjectsOK, Runs
<1>2. MessagesOK'
  <2>1. Adds(router, router', {}) BY DEF Adds
  <2>2. QED BY <1>1, <2>1, MessagesKept
<1>3. TablesOK' BY <1>1, TablesKept
<1>4. CallsOK' /\ Watches' = Watches BY <1>1, StepReturns
<1>5. QED BY <1>1, <1>2, <1>3, <1>4, StepKeeps

LEMMA SyncWaitFail ==
    ASSUME SyncInv, NEW p \in Pid, NEW cl \in Making(p), WaitFail(p, cl)
    PROVE  SyncInv'
<1>1. /\ ObjectsOK /\ TablesOK /\ WaitsetsOK /\ CallsOK /\ SyncCallOK(p)
      /\ fences \in Seq(FenceRecord) /\ Runs(p) /\ Return(p)
      /\ router' = router /\ blocked' = blocked /\ caps' = caps
      /\ waitsets' = waitsets /\ fences' = fences
  BY DEF SyncInv, ObjectsOK, CallsOK, WaitFail, syncVars
<1>2. Watched(p) = {}
  <2>1. CASE call[p] = None BY <2>1, WatchesNothing
  <2>2. CASE call[p] # None
    <3>1. cl = call[p] BY <2>2 DEF Making
    <3>2. cl.op # "waitset" BY <1>1, <2>2, <3>1 DEF SyncCallOK, WaitFail
    <3>3. QED BY <3>1, <3>2 DEF Watched
  <2>3. QED BY <2>1, <2>2
<1>3. OnlyActs(p) BY <1>1 DEF OnlyActs, WaitsetsKeptFor, FencesKeptFor
<1>4. ObjectsGrow BY <1>1 DEF ObjectsGrow
<1>5. TablesStep BY <1>1 DEF TablesStep, TablesOK
<1>6. WaitsetsOK' BY <1>1 DEF WaitsetsOK
<1>7. QED BY <1>1, <1>2, <1>3, <1>4, <1>5, <1>6, StepChanges

\* A table that gets a capability in a free slot, whichever it is.
LEMMA TablesGain ==
    ASSUME TablesOK, NEW p \in Pid, NEW c \in Cap, CapFine(p, c)', NEW s,
           caps' = [caps EXCEPT ![p] = [caps[p] EXCEPT ![s] = c]]
    PROVE  TablesStep /\ \A q \in Pid : q # p => caps'[q] = caps[q]
<1>1. caps \in [Pid -> Table] /\ caps[p] \in Table BY DEF TablesOK
<1>2. PICK t : t = [caps[p] EXCEPT ![s] = c] OBVIOUS
<1>3. t \in Table /\ \A u \in Slot : t[u] = caps[p][u] \/ t[u] = c BY <1>1, <1>2 DEF Table
<1>4. caps' = [caps EXCEPT ![p] = t] BY <1>2
<1>5. caps' \in [Pid -> Table] /\ caps'[p] = t /\ \A q \in Pid : q # p => caps'[q] = caps[q]
  BY <1>1, <1>3, <1>4
<1>6. ASSUME NEW q \in Pid, NEW u \in Slot
      PROVE  caps'[q][u] = caps[q][u] \/ caps'[q][u] = NoCap \/ CapFine(q, caps[q][u])'
  <2>1. CASE q # p BY <1>5, <2>1
  <2>2. CASE q = p /\ caps'[q][u] # caps[q][u]
    <3>1. caps'[q][u] = c BY <1>3, <1>5, <2>2
    <3>2. QED BY <2>2, <3>1 DEF CapFine
  <2>3. QED BY <2>1, <2>2
<1>7. QED BY <1>5, <1>6 DEF TablesStep

LEMMA SyncWaitsetCreate ==
    ASSUME SyncInv, NEW p \in Pid, WaitsetCreate(p)
    PROVE  SyncInv'
<1>1. /\ ObjectsOK /\ TablesOK /\ WaitsetsOK /\ waitsets \in Seq(WaitsetRecord)
      /\ fences \in Seq(FenceRecord) /\ Runs(p) /\ call[p] = None /\ call' = call
      /\ router' = router /\ blocked' = blocked /\ fences' = fences
  BY DEF SyncInv, ObjectsOK, WaitsetsOK, WaitsetCreate
<1>2. PICK n : n = Len(waitsets) + 1 OBVIOUS
<1>3. n \in 1..MaxIds BY <1>1, <1>2, SyncAssumption DEF WaitsetCreate
<1>4. PICK x : x = Waitset(p, <<>>) OBVIOUS
<1>5. x \in WaitsetRecord /\ x.owner = p /\ x.members = <<>>
  BY <1>4 DEF Waitset, WaitsetRecord
<1>6. waitsets' = Append(waitsets, x) BY <1>4 DEF WaitsetCreate
<1>7. /\ waitsets' \in Seq(WaitsetRecord) /\ DOMAIN waitsets' = DOMAIN waitsets \cup {n}
      /\ waitsets'[n] = x /\ \A w \in DOMAIN waitsets : waitsets'[w] = waitsets[w]
  BY <1>1, <1>2, <1>5, <1>6
<1>8. ObjectsGrow BY <1>1, <1>7 DEF ObjectsGrow
<1>9. WaitsetsOK'
  <2>1. ASSUME NEW w \in DOMAIN waitsets', NEW i \in Elements(waitsets'[w].members)
        PROVE  Rcv[i] = waitsets'[w].owner
    <3>1. CASE w = n BY <1>5, <1>7, <2>1, <3>1 DEF Elements
    <3>2. CASE w \in DOMAIN waitsets BY <1>1, <1>7, <2>1, <3>2 DEF WaitsetsOK
    <3>3. QED BY <1>7, <3>1, <3>2
  <2>2. QED BY <1>7, <2>1 DEF WaitsetsOK
<1>10. PICK c : c = WaitsetCap(n) OBVIOUS
<1>11. c \in Cap BY <1>3, <1>10, SyncAssumption
<1>12. CapFine(p, c)'
  <2>1. c.kind = "Waitset" /\ c.ep = n /\ "MANAGE" \in c.rights BY <1>10 DEF WaitsetCap
  <2>2. QED BY <1>5, <1>7, <2>1 DEF CapFine, Keeps
<1>13. PICK s : caps' = [caps EXCEPT ![p] = [caps[p] EXCEPT ![s] = c]]
  BY <1>2, <1>10 DEF WaitsetCreate, AllocateHigh
<1>14. TablesStep /\ \A q \in Pid : q # p => caps'[q] = caps[q]
  BY <1>1, <1>11, <1>12, <1>13, TablesGain
<1>15. OnlyActs(p) BY <1>1, <1>7, <1>14 DEF OnlyActs, WaitsetsKeptFor, FencesKeptFor
<1>16. Watched(p) = {} BY <1>1, WatchesNothing
<1>17. QED BY <1>1, <1>8, <1>9, <1>14, <1>15, <1>16, StepChanges

LEMMA SyncFenceCreate ==
    ASSUME SyncInv, NEW p \in Pid, FenceCreate(p)
    PROVE  SyncInv'
<1>1. /\ ObjectsOK /\ TablesOK /\ WaitsetsOK
      /\ fences \in Seq(FenceRecord) /\ Runs(p) /\ call[p] = None /\ call' = call
      /\ router' = router /\ blocked' = blocked /\ waitsets' = waitsets
  BY DEF SyncInv, ObjectsOK, FenceCreate
<1>2. PICK n : n = Len(fences) + 1 OBVIOUS
<1>3. n \in 1..MaxIds BY <1>1, <1>2, SyncAssumption DEF FenceCreate
<1>4. PICK x : x = Fence(p) OBVIOUS
<1>5. x \in FenceRecord BY <1>4 DEF Fence, FenceRecord
<1>6. fences' = Append(fences, x) BY <1>4 DEF FenceCreate
<1>7. /\ fences' \in Seq(FenceRecord) /\ DOMAIN fences' = DOMAIN fences \cup {n}
      /\ \A f \in DOMAIN fences : fences'[f] = fences[f]
  BY <1>1, <1>2, <1>5, <1>6
<1>8. ObjectsGrow BY <1>1, <1>7 DEF ObjectsGrow
<1>9. WaitsetsOK' BY <1>1 DEF WaitsetsOK
<1>10. PICK c : c = FenceCap(n) OBVIOUS
<1>11. c \in Cap BY <1>3, <1>10, SyncAssumption
<1>12. CapFine(p, c)'
  <2>1. c.kind = "Fence" /\ c.ep = n BY <1>10 DEF FenceCap
  <2>2. QED BY <1>7, <2>1 DEF CapFine
<1>13. PICK s : caps' = [caps EXCEPT ![p] = [caps[p] EXCEPT ![s] = c]]
  BY <1>2, <1>10 DEF FenceCreate, Allocate
<1>14. TablesStep /\ \A q \in Pid : q # p => caps'[q] = caps[q]
  BY <1>1, <1>11, <1>12, <1>13, TablesGain
<1>15. OnlyActs(p)
  <2>1. \A q \in Pid : WaitsetsKeptFor(q) BY <1>1 DEF WaitsetsKeptFor
  <2>2. \A q \in Pid : FencesKeptFor(q) BY <1>7 DEF FencesKeptFor, FenceHolds
  <2>3. QED BY <1>1, <1>14, <2>1, <2>2 DEF OnlyActs
<1>16. Watched(p) = {} BY <1>1, WatchesNothing
<1>17. QED BY <1>1, <1>7, <1>8, <1>9, <1>14, <1>15, <1>16, StepChanges

LEMMA SyncWaitsetAdd ==
    ASSUME SyncInv, NEW p \in Pid, NEW s \in Slot, NEW e \in Slot, WaitsetAdd(p, s, e)
    PROVE  SyncInv'
<1>1. /\ ObjectsOK /\ TablesOK /\ WaitsetsOK /\ waitsets \in Seq(WaitsetRecord)
      /\ fences \in Seq(FenceRecord) /\ Runs(p) /\ call[p] = None /\ call' = call
      /\ router' = router /\ blocked' = blocked /\ fences' = fences /\ caps' = caps
  BY DEF SyncInv, ObjectsOK, WaitsetsOK, WaitsetAdd, vars
<1>2. PICK w : w = caps[p][s].ep OBVIOUS
<1>3. PICK c : c = caps[p][e] OBVIOUS
<1>4. w \in DOMAIN waitsets /\ waitsets[w].owner = p BY <1>1, <1>2, OwnWaitset DEF WaitsetAdd
<1>5. c # NoCap /\ c.kind = "Endpoint" /\ "RECV" \in c.rights
  BY <1>3 DEF WaitsetAdd, DerivesEndpoint
<1>6. CapFine(p, c) /\ c \in Cap BY <1>1, <1>3, <1>5, HeldFine
<1>7. PICK ep : ep = c.ep OBVIOUS
<1>8. Rcv[ep] = p /\ ep \in DOMAIN Owners BY <1>5, <1>6, <1>7, IpcAssumption DEF CapFine
<1>9. PICK ms \in Seq(DOMAIN Owners) : ms = waitsets[w].members
  <2>1. waitsets[w] \in WaitsetRecord BY <1>1, <1>4
  <2>2. QED BY <2>1 DEF WaitsetRecord
<1>10. PICK x : x = [waitsets[w] EXCEPT !.members = Append(ms, ep)] OBVIOUS
<1>11. waitsets' = [waitsets EXCEPT ![w] = x]
  BY <1>2, <1>3, <1>7, <1>9, <1>10 DEF WaitsetAdd
<1>12. Append(ms, ep) \in Seq(DOMAIN Owners) BY <1>8, <1>9
<1>13. waitsets[w] \in WaitsetRecord BY <1>1, <1>4
<1>14. x \in WaitsetRecord /\ x.owner = p /\ x.members = Append(ms, ep)
  BY <1>4, <1>10, <1>12, <1>13 DEF WaitsetRecord
<1>15. /\ waitsets' \in Seq(WaitsetRecord) /\ DOMAIN waitsets' = DOMAIN waitsets
       /\ waitsets'[w] = x /\ \A v \in DOMAIN waitsets : v # w => waitsets'[v] = waitsets[v]
  BY <1>1, <1>4, <1>11, <1>14
<1>16. ObjectsGrow BY <1>1, <1>4, <1>14, <1>15 DEF ObjectsGrow
<1>17. WaitsetsOK'
  <2>1. ASSUME NEW v \in DOMAIN waitsets', NEW i \in Elements(waitsets'[v].members)
        PROVE  Rcv[i] = waitsets'[v].owner
    <3>1. CASE v # w BY <1>1, <1>15, <2>1, <3>1 DEF WaitsetsOK
    <3>2. CASE v = w
      <4>1. i \in Elements(Append(ms, ep)) BY <1>14, <1>15, <2>1, <3>2
      <4>2. i \in Elements(ms) \/ i = ep BY <1>9, <4>1 DEF Elements
      <4>3. i \in Elements(ms) => Rcv[i] = p BY <1>1, <1>4, <1>9 DEF WaitsetsOK
      <4>4. QED BY <1>8, <1>14, <1>15, <3>2, <4>2, <4>3
    <3>3. QED BY <3>1, <3>2
  <2>2. QED BY <1>15, <2>1 DEF WaitsetsOK
<1>18. TablesStep BY <1>1 DEF TablesStep, TablesOK
<1>19. OnlyActs(p)
  <2>1. \A q \in Pid : q # p => WaitsetsKeptFor(q) BY <1>4, <1>15 DEF WaitsetsKeptFor
  <2>2. \A q \in Pid : FencesKeptFor(q) BY <1>1 DEF FencesKeptFor
  <2>3. QED BY <1>1, <2>1, <2>2 DEF OnlyActs
<1>20. Watched(p) = {} BY <1>1, WatchesNothing
<1>21. QED BY <1>1, <1>16, <1>17, <1>18, <1>19, <1>20, StepChanges

\* sys_cap_close: the waitset that is freed is the task's own, and the fence
\* that is freed lets its waiters go.
LEMMA SyncObjectClose ==
    ASSUME SyncInv, NEW p \in Pid, NEW s \in Slot, ObjectClose(p, s)
    PROVE  SyncInv'
<1>1. /\ ObjectsOK /\ TablesOK /\ WaitsetsOK /\ waitsets \in Seq(WaitsetRecord)
      /\ fences \in Seq(FenceRecord) /\ Runs(p) /\ call[p] = None /\ call' = call
      /\ router' = router /\ blocked' = blocked
      /\ caps' = [caps EXCEPT ![p] = Take(caps[p], s)] /\ caps[p][s] # NoCap
  BY DEF SyncInv, ObjectsOK, WaitsetsOK, ObjectClose, SysCapClose
<1>2. PICK c : c = caps[p][s] OBVIOUS
<1>3. PICK o : o = c.ep OBVIOUS
<1>4. CapFine(p, c) BY <1>1, <1>2, HeldFine
<1>5. /\ waitsets' \in Seq(WaitsetRecord) /\ DOMAIN waitsets' = DOMAIN waitsets
      /\ \A w \in DOMAIN waitsets :
           /\ waitsets'[w].owner = waitsets[w].owner /\ waitsets'[w].members = waitsets[w].members
           /\ waitsets[w].owner # p => waitsets'[w] = waitsets[w]
  <2>1. CASE c.kind # "Waitset"
    <3>1. waitsets' = waitsets BY <1>2, <2>1 DEF ObjectClose
    <3>2. QED BY <1>1, <3>1
  <2>2. CASE c.kind = "Waitset"
    <3>1. o \in DOMAIN waitsets /\ waitsets[o].owner = p BY <1>1, <1>2, <1>3, <1>4, <2>2 DEF CapFine
    <3>2. PICK x : x = [waitsets[o] EXCEPT !.alive = FALSE] OBVIOUS
    <3>3. waitsets' = [waitsets EXCEPT ![o] = x] BY <1>2, <1>3, <2>2, <3>2 DEF ObjectClose
    <3>4. waitsets[o] \in WaitsetRecord BY <1>1, <3>1
    <3>5. x \in WaitsetRecord /\ x.owner = p /\ x.members = waitsets[o].members
      BY <3>1, <3>2, <3>4 DEF WaitsetRecord
    <3>6. QED BY <1>1, <3>1, <3>3, <3>5
  <2>3. QED BY <2>1, <2>2
<1>6. /\ fences' \in Seq(FenceRecord) /\ DOMAIN fences' = DOMAIN fences
      /\ \A f \in DOMAIN fences : fences'[f] = fences[f] \/ ~fences'[f].alive
  <2>1. CASE ~(c.kind = "Fence" /\ fences[c.ep].owner = p)
    <3>1. fences' = fences BY <1>2, <2>1 DEF ObjectClose
    <3>2. QED BY <1>1, <3>1
  <2>2. CASE c.kind = "Fence" /\ fences[c.ep].owner = p
    <3>1. o \in DOMAIN fences BY <1>1, <1>2, <1>3, <1>4, <2>2 DEF CapFine
    <3>2. PICK x : x = [fences[o] EXCEPT !.alive = FALSE, !.waiters = <<>>] OBVIOUS
    <3>3. fences[o] \in FenceRecord BY <1>1, <3>1
    <3>4. x \in FenceRecord /\ ~x.alive
      <4>1. <<>> \in Seq(Waiting) /\ FALSE \in BOOLEAN OBVIOUS
      <4>2. x = [owner |-> fences[o].owner, value |-> fences[o].value, waiters |-> <<>>,
                 alive |-> FALSE]
        BY <3>2, <3>3 DEF FenceRecord
      <4>3. fences[o].owner \in Pid /\ fences[o].value \in Nat BY <3>3 DEF FenceRecord
      <4>4. QED BY <4>1, <4>2, <4>3 DEF FenceRecord
    <3>5. fences' = [fences EXCEPT ![o].alive = FALSE, ![o].waiters = <<>>]
      BY <1>2, <1>3, <2>2 DEF ObjectClose
    <3>6. fences' = [fences EXCEPT ![o] = x] BY <1>1, <3>1, <3>2, <3>5
    <3>7. QED BY <1>1, <3>1, <3>4, <3>6
  <2>3. QED BY <2>1, <2>2
<1>7. ObjectsGrow BY <1>5, <1>6 DEF ObjectsGrow
<1>8. WaitsetsOK' BY <1>1, <1>5 DEF WaitsetsOK
<1>9. TablesStep /\ \A q \in Pid : q # p => caps'[q] = caps[q]
  <2>1. caps \in [Pid -> Table] BY <1>1 DEF TablesOK
  <2>2. caps' \in [Pid -> Table] BY <1>1, <2>1, TablesTyped
  <2>3. QED BY <1>1, <2>1, <2>2 DEF TablesStep, Take, Table
<1>10. OnlyActs(p)
  <2>1. \A q \in Pid : q # p => WaitsetsKeptFor(q) BY <1>5 DEF WaitsetsKeptFor
  <2>2. \A q \in Pid : FencesKeptFor(q) BY <1>6 DEF FencesKeptFor, FenceHolds
  <2>3. QED BY <1>1, <1>9, <2>1, <2>2 DEF OnlyActs
<1>11. Watched(p) = {} BY <1>1, WatchesNothing
<1>12. QED BY <1>1, <1>6, <1>7, <1>8, <1>9, <1>10, <1>11, StepChanges

\* The waiters of the fences are parked there.
FencesSleep ==
    \A f \in DOMAIN fences : \A w \in Elements(fences[f].waiters) : BlockedOn(w.pid, "fence")

\* sys_fence_signal: whoever stays blocked waits for a larger value.
LEMMA SyncFenceSignal ==
    ASSUME SyncInv, FencesSleep, NEW p \in Pid, NEW s \in Slot, NEW v \in Values, FenceSignal(p, s, v)
    PROVE  SyncInv'
<1>1. /\ Core(router, blocked, Watches) /\ ObjectsOK /\ TablesOK /\ MessagesOK /\ WaitsetsOK
      /\ fences \in Seq(FenceRecord) /\ CallsOK /\ call' = call
      /\ router' = router /\ caps' = caps /\ waitsets' = waitsets /\ HoldsFence(p, s)
  BY DEF SyncInv, ObjectsOK, FenceSignal
<1>2. PICK f : f = caps[p][s].ep OBVIOUS
<1>3. f \in DOMAIN fences BY <1>1, <1>2, HeldFine DEF HoldsFence, CapFine
<1>4. PICK n : n = SignalValue(fences[f], v) OBVIOUS
<1>5. fences[f] \in FenceRecord /\ fences[f].value \in Nat /\ v \in Nat
  <2>1. fences[f] \in FenceRecord BY <1>1, <1>3
  <2>2. QED BY <2>1, SyncAssumption DEF FenceRecord
<1>6. n \in Nat BY <1>4, <1>5 DEF SignalValue
<1>7. PICK S : S = Satisfied(fences[f], n) OBVIOUS
<1>8. PICK x : x = [fences[f] EXCEPT !.value = n] OBVIOUS
<1>9. PICK fs : fs = [fences EXCEPT ![f] = x] OBVIOUS
<1>10. fences' = LeaveFences(fs, S) /\ blocked' = Woken(blocked, S)
  BY <1>2, <1>4, <1>7, <1>8, <1>9 DEF FenceSignal
<1>11. x \in FenceRecord /\ x.value = n /\ x.waiters = fences[f].waiters /\ x.alive = fences[f].alive
  BY <1>5, <1>6, <1>8 DEF FenceRecord
<1>12. /\ fs \in Seq(FenceRecord) /\ DOMAIN fs = DOMAIN fences /\ fs[f] = x
       /\ \A g \in DOMAIN fences : g # f => fs[g] = fences[g]
  BY <1>1, <1>3, <1>9, <1>11
<1>13. fences' \in Seq(FenceRecord) /\ DOMAIN fences' = DOMAIN fences
  BY <1>10, <1>12, LeaveEffect
<1>14. ASSUME NEW q \in Pid, q \notin S, NEW g \in DOMAIN fences, NEW t, FenceHolds(fences, g, q, t)
       PROVE  FenceHolds(fs, g, q, t)
  <2>1. CASE g # f BY <1>12, <1>14, <2>1 DEF FenceHolds
  <2>2. CASE g = f /\ ~fences[f].alive BY <1>11, <1>12, <2>2 DEF FenceHolds
  <2>3. CASE g = f /\ fences[f].alive
    <3>1. PICK w : w = [pid |-> q, target |-> t] OBVIOUS
    <3>2. w \in Elements(fences[f].waiters) /\ w.pid = q /\ w.target = t
      BY <1>14, <2>3, <3>1 DEF FenceHolds
    <3>3. PICK ws \in Seq(Waiting) : ws = fences[f].waiters BY <1>5 DEF FenceRecord
    <3>4. w \in Waiting BY <3>2, <3>3 DEF Elements
    <3>5. t \in Nat BY <3>2, <3>4 DEF Waiting
    <3>6. ~(t <= n)
      <4>1. SUFFICES ASSUME t <= n PROVE q \in S BY <1>14
      <4>2. w \in ToSet(fences[f].waiters) BY <3>2 DEF ToSet, Elements
      <4>3. QED BY <1>7, <3>2, <4>1, <4>2 DEF Satisfied
    <3>7. n < t BY <1>6, <3>5, <3>6
    <3>8. QED BY <1>11, <1>12, <2>3, <3>1, <3>2, <3>7 DEF FenceHolds
  <2>4. QED BY <2>1, <2>2, <2>3
<1>15. ASSUME NEW q \in Pid PROVE Bystander(q)
  <2>1. AtMostWoken(q) BY <1>1, <1>10, WakesAtMost DEF AtMostWoken
  <2>2. WaitsetsKeptFor(q) BY <1>1 DEF WaitsetsKeptFor
  <2>3. ASSUME blocked'[q] # None, NEW g \in DOMAIN fences, NEW t, FenceHolds(fences, g, q, t)
        PROVE  FenceHolds(fences', g, q, t)
    <3>1. q \notin S BY <1>10, <2>3 DEF Woken
    <3>2. FenceHolds(fs, g, q, t) /\ g \in DOMAIN fs BY <1>12, <1>14, <2>3, <3>1
    <3>3. FenceHolds(LeaveFences(fs, S), g, q, t) BY <1>12, <3>1, <3>2, LeaveKeeps
    <3>4. QED BY <1>10, <3>3
  <2>4. QED BY <2>1, <2>2, <2>3 DEF Bystander, FencesKeptFor
<1>16. CallsOK' /\ Watches' = Watches BY <1>1, <1>15, NobodyActs
<1>17. ObjectsGrow BY <1>1, <1>13 DEF ObjectsGrow
<1>18. Core(router', blocked', Watches)
  <2>1. /\ Waits(router, blocked, Watches) /\ Quiet(router, blocked) /\ Tidy(router)
        /\ blocked \in [Pid -> {None} \cup SyncReason]
    BY <1>1 DEF Core
  <2>2. \A q \in S : BlockedOn(q, "fence")
    BY <1>3, <1>7 DEF Satisfied, FencesSleep, ToSet, Elements
  <2>3. Lets(router, router, blocked, S)
    BY <2>1, <2>2 DEF Lets, Waits, Queued, On, BlockedOn
  <2>4. Waits(router, Woken(blocked, S), Watches) BY <2>1, <2>3, WakeWaits
  <2>5. Quiet(router, Woken(blocked, S)) BY <2>1, WakeQuiet
  <2>6. Woken(blocked, S) \in [Pid -> {None} \cup SyncReason] BY <2>1, WokenFacts
  <2>7. QED BY <1>1, <1>10, <2>1, <2>4, <2>5, <2>6 DEF Core
<1>19. MessagesOK'
  <2>1. Adds(router, router', {}) BY <1>1 DEF Adds
  <2>2. QED BY <1>1, <1>17, <2>1, MessagesKept
<1>20. TablesOK' BY <1>1, <1>17, TablesKept DEF TablesStep, TablesOK
<1>21. WaitsetsOK' BY <1>1 DEF WaitsetsOK
<1>22. QED BY <1>13, <1>16, <1>18, <1>19, <1>20, <1>21, StepKeeps

-----------------------------------------------------------------------------
(* The two blocking calls *)

LEMMA WatchesTyped ==
    ASSUME SyncInv PROVE Watches \in [Pid -> SUBSET DOMAIN Owners]
<1>1. TablesOK /\ CallsOK /\ waitsets \in Seq(WaitsetRecord)
  BY DEF SyncInv, ObjectsOK, WaitsetsOK
<1>2. ASSUME NEW p \in Pid PROVE Watched(p) \subseteq DOMAIN Owners
  <2>1. CASE ~(call[p] # None /\ call[p].op = "waitset") BY <2>1 DEF Watched
  <2>2. CASE call[p] # None /\ call[p].op = "waitset"
    <3>1. call[p] \in Calls[p] /\ HoldsWaitset(p, call[p].slot)
      BY <1>1, <2>2 DEF CallsOK, SyncCallOK
    <3>2. PICK s \in Slot : s = call[p].slot BY <2>2, <3>1, CallFacts
    <3>3. PICK w : w = caps[p][s].ep OBVIOUS
    <3>4. w \in DOMAIN waitsets BY <1>1, <3>1, <3>2, <3>3, OwnWaitset
    <3>5. waitsets[w] \in WaitsetRecord BY <1>1, <3>4
    <3>6. waitsets[w].members \in Seq(DOMAIN Owners) BY <3>5 DEF WaitsetRecord
    <3>7. \A ms \in Seq(DOMAIN Owners) : Elements(ms) \subseteq DOMAIN Owners BY DEF Elements
    <3>8. Watched(p) = Elements(waitsets[w].members) BY <2>2, <3>2, <3>3 DEF Watched
    <3>9. QED BY <3>6, <3>7, <3>8
  <2>3. QED BY <2>1, <2>2
<1>3. QED BY <1>2 DEF Watches

\* waitset_wait begins with clearing its members: the task is in no receiver
\* queue then, and may watch what it likes of its own.
LEMMA Cleared ==
    ASSUME SyncInv, NEW p \in Pid, blocked[p] = None, NEW M, Watched(p) \subseteq M,
           NEW N, \A i \in N : Rcv[i] = p
    PROVE  /\ Core(ClearAll(router, p, M), blocked, [Watches EXCEPT ![p] = N])
           /\ OnlyWaiters(router, ClearAll(router, p, M)) /\ Tidy(ClearAll(router, p, M))
<1>1. Core(router, blocked, Watches) /\ Tidy(router) /\ Waits(router, blocked, Watches)
  BY DEF SyncInv, Core
<1>2. PICK s : s = ClearAll(router, p, M) OBVIOUS
<1>3. Withdraws(router, s, p, M) BY <1>1, <1>2, ClearWithdraws
<1>4. Core(s, blocked, Watches) BY <1>1, <1>3, CoreWithdraw
<1>5. OnlyWaiters(router, s) /\ Tidy(s) /\ DOMAIN s.eps = DOMAIN router.eps
  BY <1>3 DEF Withdraws, OnlyWaiters
<1>6. ASSUME NEW i \in DOMAIN s.eps PROVE p \notin Elements(s.eps[i].recv_waiters)
  <2>1. i \in DOMAIN router.eps BY <1>5
  <2>2. CASE i \in M BY <1>3, <2>1, <2>2 DEF Withdraws
  <2>3. CASE i \notin M
    <3>1. Elements(s.eps[i].recv_waiters) = Elements(router.eps[i].recv_waiters)
      BY <1>3, <2>1, <2>3 DEF Withdraws
    <3>2. i \notin Watches[p] BY <2>3 DEF Watches
    <3>3. p \notin Elements(router.eps[i].recv_waiters)
      BY <1>1, <2>1, <3>2 DEF Waits, Queued, On
    <3>4. QED BY <3>1, <3>3
  <2>4. QED BY <2>2, <2>3
<1>7. Watches \in [Pid -> SUBSET DOMAIN Owners] BY WatchesTyped
<1>8. Core(s, blocked, [Watches EXCEPT ![p] = N]) BY <1>4, <1>6, <1>7, CoreRewatch
<1>9. QED BY <1>2, <1>5, <1>8

LEMMA SyncWaitsetWait ==
    ASSUME SyncInv, NEW p \in Pid, NEW cl \in Making(p), WaitsetWait(p, cl)
    PROVE  SyncInv'
<1>1. /\ ObjectsOK /\ TablesOK /\ MessagesOK /\ WaitsetsOK /\ waitsets \in Seq(WaitsetRecord)
      /\ CallsOK /\ call \in [Pid -> {None} \cup Call]
      /\ blocked[p] = None /\ cl.op = "waitset" /\ HoldsWaitset(p, cl.slot)
      /\ caps' = caps /\ waitsets' = waitsets /\ FencesKept
  BY DEF SyncInv, ObjectsOK, WaitsetsOK, CallsOK, WaitsetWait, Runs
<1>2. /\ ObjectsGrow /\ WaitsetsOK' /\ fences' \in Seq(FenceRecord)
      /\ \A q \in Pid : WaitsetsKeptFor(q) /\ FencesKeptFor(q)
  BY <1>1, ObjectsKept
<1>3. TablesOK' BY <1>1, <1>2, TablesKept DEF TablesStep, TablesOK
<1>4. cl \in Calls[p] BY <1>1, MakingOwn
<1>5. cl.slot \in Slot /\ cl.deadline \in Nat BY <1>1, <1>4, CallFacts
<1>6. PICK w : w = caps[p][cl.slot].ep OBVIOUS
<1>7. w \in DOMAIN waitsets /\ waitsets[w].owner = p BY <1>1, <1>5, <1>6, OwnWaitset
<1>8. PICK M : M = Elements(waitsets[w].members) OBVIOUS
<1>9. M \subseteq DOMAIN Owners /\ \A i \in M : Rcv[i] = p
  <2>1. waitsets[w] \in WaitsetRecord BY <1>1, <1>7
  <2>2. waitsets[w].members \in Seq(DOMAIN Owners) BY <2>1 DEF WaitsetRecord
  <2>3. \A ms \in Seq(DOMAIN Owners) : Elements(ms) \subseteq DOMAIN Owners BY DEF Elements
  <2>4. QED BY <1>1, <1>7, <1>8, <2>2, <2>3 DEF WaitsetsOK
<1>10. ToSet(waitsets[w].members) = M BY <1>8 DEF ToSet, Elements
<1>11. Watched(p) \subseteq M BY <1>6, <1>8 DEF Watched, Making
<1>12. PICK c : c = ClearAll(router, p, M) OBVIOUS
<1>13. OnlyWaiters(router, c) /\ Tidy(c) BY <1>1, <1>9, <1>11, <1>12, Cleared
<1>14. Adds(router, c, {}) BY <1>13, AddsNone
<1>15. CASE router' = c /\ Return(p) /\ blocked' = blocked
  <2>1. \A i \in {} : Rcv[i] = p OBVIOUS
  <2>2. Core(c, blocked, [Watches EXCEPT ![p] = {}]) BY <1>1, <1>11, <1>12, <2>1, Cleared
  <2>3. MessagesOK' BY <1>1, <1>2, <1>14, <1>15, MessagesKept
  <2>4. call' \in [Pid -> {None} \cup Call] /\ call'[p] = None
        /\ \A q \in Pid : q # p => call'[q] = call[q]
    BY <1>1, <1>15 DEF Return
  <2>5. Bystanders(p) BY <1>1, <1>2, <1>15, <2>4 DEF Bystanders, Bystander, AtMostWoken
  <2>6. CallsOK' /\ Watches' = [Watches EXCEPT ![p] = {}] BY <1>1, <1>15, <2>4, <2>5, Returned
  <2>7. QED BY <1>2, <1>3, <1>15, <2>2, <2>3, <2>6 DEF SyncInv, ObjectsOK
<1>16. PICK x : x = Reason("waitset", M, cl.deadline) OBVIOUS
<1>17. x \in SyncReason /\ x.on = "waitset" /\ x.eps = M BY <1>5, <1>9, <1>16, ReasonFacts
<1>18. PICK s : s = RegisterAll(c, p, M) OBVIOUS
<1>19. CASE Park(p, cl, s, c, x) /\ \A i \in M : ~Pending(router, i)
  <2>1. PICK W : W = [Watches EXCEPT ![p] = M] OBVIOUS
  <2>2. Core(c, blocked, W) BY <1>1, <1>9, <1>11, <1>12, <2>1, Cleared
  <2>3. W[p] = M BY <2>1, WatchesTyped
  <2>4. \A i \in M : ~Pending(c, i) BY <1>13, <1>19, OnlyWaitersPending
  <2>5. MayPark(c, p, x, W) BY <1>17, <2>3, <2>4 DEF MayPark
  <2>6. Enters(c, s, p, x) BY <1>13, <1>17, <1>18, RegisterAllEnters
  <2>7. /\ Core(router', blocked', W) /\ Adds(c, router', {})
        /\ \A q \in Pid : q # p => blocked'[q] \in {blocked[q], None}
        /\ blocked'[p] # None => blocked'[p] = x
    BY <1>1, <1>19, <2>2, <2>5, <2>6, CoreParks
  <2>8. Adds(router, router', {}) BY <1>14, <2>7 DEF Adds
  <2>9. MessagesOK' BY <1>1, <1>2, <2>8, MessagesKept
  <2>10. call' = [call EXCEPT ![p] = cl] BY <1>19 DEF Park
  <2>11. Bystanders(p) BY <1>1, <1>2, <2>7, <2>10 DEF Bystanders, Bystander, AtMostWoken
  <2>12. Blocks(p, cl) BY <1>1, <1>17, <2>7, <2>10 DEF Blocks
  <2>13. FenceOK(p)' BY <1>17, <2>7 DEF FenceOK, BlockedOn
  <2>14. CallsOK' /\ Watches' = W
    BY <1>1, <1>4, <1>6, <1>8, <2>1, <2>11, <2>12, <2>13, Blocked
  <2>15. QED BY <1>2, <1>3, <2>7, <2>9, <2>14 DEF SyncInv, ObjectsOK
<1>20. QED BY <1>6, <1>10, <1>12, <1>15, <1>16, <1>18, <1>19 DEF WaitsetWait

\* What fence_wait does to the fences when the task stays blocked on fence f:
\* it is registered with its target, and no other task is disturbed.
FenceEntered(fs, f, p, t) ==
    [LeaveFences(fs, {p}) EXCEPT ![f] = RegisterWaiter(LeaveFences(fs, {p})[f], p, t)]

LEMMA FenceEnters ==
    ASSUME NEW fs \in Seq(FenceRecord), NEW f \in DOMAIN fs, NEW p \in Pid, NEW t \in Nat,
           fs[f].value < t, NEW gs, gs = FenceEntered(fs, f, p, t)
    PROVE  /\ gs \in Seq(FenceRecord) /\ DOMAIN gs = DOMAIN fs
           /\ FenceHolds(gs, f, p, t)
           /\ \A q, g, u : q # p /\ g \in DOMAIN fs /\ FenceHolds(fs, g, q, u) => FenceHolds(gs, g, q, u)
           /\ \A g \in DOMAIN fs : \A w \in Elements(gs[g].waiters) :
                w.pid = p \/ w \in Elements(fs[g].waiters)
<1>1. PICK cs : cs = LeaveFences(fs, {p}) OBVIOUS
<1>2. /\ cs \in Seq(FenceRecord) /\ DOMAIN cs = DOMAIN fs
      /\ \A g \in DOMAIN fs : LeftBy(cs[g], fs[g], {p})
  BY <1>1, LeaveEffect
<1>3. PICK x \in FenceRecord : x = cs[f] BY <1>2
<1>4. PICK y : y = RegisterWaiter(x, p, t) OBVIOUS
<1>5. gs = [cs EXCEPT ![f] = y] BY <1>1, <1>3, <1>4 DEF FenceEntered
<1>6. x.value = fs[f].value /\ \A w \in Elements(x.waiters) : w.pid # p /\ w \in Elements(fs[f].waiters)
  BY <1>2, <1>3 DEF LeftBy
<1>7. /\ y \in FenceRecord /\ y.owner = x.owner /\ y.value = x.value /\ y.alive = x.alive
      /\ Elements(y.waiters) = Elements(x.waiters) \cup {[pid |-> p, target |-> t]}
  BY <1>4, <1>6, RegisterWaiterEffect
<1>8. /\ gs \in Seq(FenceRecord) /\ DOMAIN gs = DOMAIN fs /\ gs[f] = y
      /\ \A g \in DOMAIN fs : g # f => gs[g] = cs[g]
  BY <1>2, <1>5, <1>7
<1>9. FenceHolds(gs, f, p, t) BY <1>6, <1>7, <1>8 DEF FenceHolds
<1>10. ASSUME NEW q, NEW g, NEW u, q # p, g \in DOMAIN fs, FenceHolds(fs, g, q, u)
       PROVE  FenceHolds(gs, g, q, u)
  <2>1. FenceHolds(cs, g, q, u) BY <1>1, <1>10, LeaveKeeps
  <2>2. CASE g # f BY <1>8, <1>10, <2>1, <2>2 DEF FenceHolds
  <2>3. CASE g = f BY <1>3, <1>7, <1>8, <2>1, <2>3 DEF FenceHolds
  <2>4. QED BY <2>2, <2>3
<1>11. ASSUME NEW g \in DOMAIN fs, NEW w \in Elements(gs[g].waiters)
       PROVE  w.pid = p \/ w \in Elements(fs[g].waiters)
  <2>1. CASE g # f BY <1>2, <1>8, <1>11, <2>1 DEF LeftBy
  <2>2. CASE g = f BY <1>6, <1>7, <1>8, <1>11, <2>2
  <2>3. QED BY <2>1, <2>2
<1>12. QED BY <1>8, <1>9, <1>10, <1>11

\* The waiters that stay are those that stay blocked.
LEMMA SleepLeave ==
    ASSUME NEW fs \in Seq(FenceRecord), NEW S, fences' = LeaveFences(fs, S),
           \A f \in DOMAIN fs : \A w \in Elements(fs[f].waiters) :
             w.pid \notin S => blocked'[w.pid] # None /\ blocked'[w.pid].on = "fence"
    PROVE  FencesSleep'
<1>1. /\ DOMAIN fences' = DOMAIN fs /\ \A f \in DOMAIN fs : LeftBy(fences'[f], fs[f], S)
  BY LeaveEffect
<1>2. ASSUME NEW f \in DOMAIN fences', NEW w \in Elements(fences'[f].waiters)
      PROVE  BlockedOn(w.pid, "fence")'
  <2>1. w \in Elements(fs[f].waiters) /\ w.pid \notin S BY <1>1, <1>2 DEF LeftBy
  <2>2. QED BY <1>1, <1>2, <2>1 DEF BlockedOn
<1>3. QED BY <1>2 DEF FencesSleep

LEMMA WaiterTyped ==
    ASSUME NEW fs \in Seq(FenceRecord), NEW f \in DOMAIN fs, NEW w \in Elements(fs[f].waiters)
    PROVE  w.pid \in Pid
<1>1. fs[f] \in FenceRecord OBVIOUS
<1>2. PICK ws \in Seq(Waiting) : ws = fs[f].waiters BY <1>1 DEF FenceRecord
<1>3. w \in Waiting BY <1>2 DEF Elements
<1>4. QED BY <1>3 DEF Waiting

\* Blocked tasks are at most woken.
WakesOnly == \A q \in Pid : blocked[q] # None => blocked'[q] \in {blocked[q], None}

LEMMA SleepKept ==
    ASSUME fences \in Seq(FenceRecord), FencesSleep, FencesKept, WakesOnly PROVE FencesSleep'
<1>1. PICK S : S = TimedOut OBVIOUS
<1>2. fences' = LeaveFences(fences, S) BY <1>1 DEF FencesKept
<1>3. ASSUME NEW f \in DOMAIN fences, NEW w \in Elements(fences[f].waiters), w.pid \notin S
      PROVE  blocked'[w.pid] # None /\ blocked'[w.pid].on = "fence"
  <2>1. w.pid \in Pid BY <1>3, WaiterTyped
  <2>2. blocked[w.pid] # None /\ blocked[w.pid].on = "fence" BY <1>3 DEF FencesSleep, BlockedOn
  <2>3. QED BY <1>1, <1>3, <2>1, <2>2 DEF WakesOnly, TimedOut
<1>4. QED BY <1>2, <1>3, SleepLeave

\* sys_fence_wait.
LEMMA SyncFenceWait ==
    ASSUME SyncInv, FencesSleep, NEW p \in Pid, NEW cl \in Making(p), FenceWait(p, cl)
    PROVE  SyncInv' /\ FencesSleep'
<1>1. /\ Core(router, blocked, Watches) /\ Tidy(router)
      /\ blocked \in [Pid -> {None} \cup SyncReason]
      /\ ObjectsOK /\ TablesOK /\ MessagesOK /\ WaitsetsOK /\ fences \in Seq(FenceRecord)
      /\ CallsOK /\ call \in [Pid -> {None} \cup Call]
      /\ Runs(p) /\ blocked[p] = None /\ cl.op = "fence" /\ HoldsFence(p, cl.slot)
      /\ caps' = caps /\ waitsets' = waitsets
  BY DEF SyncInv, ObjectsOK, CallsOK, FenceWait, Runs, Core
<1>2. cl \in Calls[p] BY <1>1, MakingOwn
<1>3. cl.slot \in Slot /\ cl.deadline \in Nat /\ cl.target \in Nat BY <1>1, <1>2, CallFacts
<1>4. PICK f : f = caps[p][cl.slot].ep OBVIOUS
<1>5. /\ f \in DOMAIN fences /\ caps[p][cl.slot] # NoCap /\ caps[p][cl.slot].kind = "Fence"
  BY <1>1, <1>3, <1>4, HeldFine DEF HoldsFence, CapFine
<1>6. Watched(p) = {} BY <1>1, WatchesNothing
<1>7. PICK cs : cs = LeaveFences(fences, {p}) OBVIOUS
<1>8. cs \in Seq(FenceRecord) /\ DOMAIN cs = DOMAIN fences BY <1>1, <1>7, LeaveEffect
<1>9. \A g \in DOMAIN fences : \A w \in Elements(fences[g].waiters) :
        w.pid \in Pid /\ blocked[w.pid] # None /\ blocked[w.pid].on = "fence"
  BY <1>1, WaiterTyped DEF FencesSleep, BlockedOn
<1>10. WaitsetsOK' /\ TablesStep /\ \A q \in Pid : WaitsetsKeptFor(q)
  BY <1>1 DEF WaitsetsOK, TablesStep, TablesOK, WaitsetsKeptFor
<1>11. CASE Return(p) /\ fences' = cs /\ router' = router /\ blocked' = blocked
  <2>1. fences' \in Seq(FenceRecord) /\ DOMAIN fences' = DOMAIN fences BY <1>8, <1>11
  <2>2. ObjectsGrow BY <1>1, <2>1 DEF ObjectsGrow
  <2>3. ASSUME NEW q \in Pid, q # p PROVE FencesKeptFor(q)
    BY <1>1, <1>7, <1>11, <2>3, LeaveKeeps DEF FencesKeptFor
  <2>4. OnlyActs(p) BY <1>1, <1>10, <1>11, <2>3 DEF OnlyActs
  <2>5. SyncInv' BY <1>1, <1>6, <1>10, <1>11, <2>1, <2>2, <2>4, StepChanges
  <2>6. FencesSleep' BY <1>1, <1>7, <1>9, <1>11, SleepLeave
  <2>7. QED BY <2>5, <2>6
<1>12. PICK x : x = Reason("fence", {}, cl.deadline) OBVIOUS
<1>13. x \in SyncReason /\ x.on = "fence" /\ x.eps = {} BY <1>3, <1>12, ReasonFacts
<1>14. PICK gs : gs = IF blocked'[p] = None THEN cs ELSE FenceEntered(fences, f, p, cl.target)
  OBVIOUS
<1>15. PICK S : S = TimedOut OBVIOUS
<1>16. CASE /\ Park(p, cl, router, router, x) /\ fences' = LeaveFences(gs, S)
            /\ ~(fences[f].value >= cl.target)
  <2>1. fences[f] \in FenceRecord BY <1>1, <1>5
  <2>2. fences[f].value \in Nat BY <2>1 DEF FenceRecord
  <2>3. fences[f].value < cl.target BY <1>3, <1>16, <2>2
  <2>4. /\ gs \in Seq(FenceRecord) /\ DOMAIN gs = DOMAIN fences
        /\ blocked'[p] # None => FenceHolds(gs, f, p, cl.target)
        /\ \A q, g, u : q # p /\ g \in DOMAIN fences /\ FenceHolds(fences, g, q, u) =>
             FenceHolds(gs, g, q, u)
        /\ \A g \in DOMAIN fences : \A w \in Elements(gs[g].waiters) :
             (w.pid = p /\ blocked'[p] # None) \/ w \in Elements(fences[g].waiters)
    <3>1. CASE blocked'[p] # None
      <4>1. gs = FenceEntered(fences, f, p, cl.target) BY <1>14, <3>1
      <4>2. QED BY <1>1, <1>3, <1>5, <2>3, <3>1, <4>1, FenceEnters
    <3>2. CASE blocked'[p] = None
      <4>1. gs = LeaveFences(fences, {p}) BY <1>7, <1>14, <3>2
      <4>2. \A q, g, u : q # p /\ g \in DOMAIN fences /\ FenceHolds(fences, g, q, u) =>
             FenceHolds(gs, g, q, u)
        BY <1>1, <4>1, LeaveKeeps
      <4>3. \A g \in DOMAIN fences : LeftBy(gs[g], fences[g], {p}) BY <1>1, <4>1, LeaveEffect
      <4>4. \A g \in DOMAIN fences : \A w \in Elements(gs[g].waiters) :
              w \in Elements(fences[g].waiters)
        BY <4>3 DEF LeftBy
      <4>5. QED BY <1>7, <1>8, <3>2, <4>1, <4>2, <4>4
    <3>3. QED BY <3>1, <3>2
  <2>5. Watches[p] = {} /\ Watches = [q \in Pid |-> Watches[q]] BY <1>6 DEF Watches
  <2>6. MayPark(router, p, x, Watches) BY <1>13, <2>5 DEF MayPark
  <2>7. Enters(router, router, p, x) BY <1>1, <1>13, NothingEntered
  <2>8. /\ Core(router', blocked', Watches) /\ Adds(router, router', {})
        /\ \A q \in Pid : q # p => blocked'[q] \in {blocked[q], None}
        /\ blocked'[p] # None => blocked'[p] = x
    BY <1>1, <1>16, <2>6, <2>7, CoreParks
  <2>9. fences' \in Seq(FenceRecord) /\ DOMAIN fences' = DOMAIN fences
    BY <1>16, <2>4, LeaveEffect
  <2>10. ObjectsGrow BY <1>1, <2>9 DEF ObjectsGrow
  <2>11. \A q \in Pid : blocked'[q] # None => q \notin S BY <1>15 DEF TimedOut
  <2>12. ASSUME NEW q \in Pid, q # p PROVE FencesKeptFor(q)
    <3>1. ASSUME blocked'[q] # None, NEW g \in DOMAIN fences, NEW t, FenceHolds(fences, g, q, t)
          PROVE  FenceHolds(fences', g, q, t)
      <4>1. FenceHolds(gs, g, q, t) /\ g \in DOMAIN gs BY <2>4, <2>12, <3>1
      <4>2. FenceHolds(LeaveFences(gs, S), g, q, t) BY <2>4, <2>11, <3>1, <4>1, LeaveKeeps
      <4>3. QED BY <1>16, <4>2
    <3>2. QED BY <3>1 DEF FencesKeptFor
  <2>13. call' = [call EXCEPT ![p] = cl] BY <1>16 DEF Park
  <2>14. Bystanders(p)
    BY <1>1, <1>10, <2>8, <2>12, <2>13 DEF Bystanders, Bystander, AtMostWoken
  <2>15. Blocks(p, cl) BY <1>1, <1>5, <1>13, <2>8, <2>13 DEF Blocks
  <2>16. FenceOK(p)'
    <3>1. SUFFICES ASSUME blocked'[p] # None
                   PROVE  FenceHolds(fences', caps'[p][call'[p].slot].ep, p, call'[p].target)
      BY DEF FenceOK, BlockedOn
    <3>2. call'[p] = cl /\ caps'[p][call'[p].slot].ep = f BY <1>1, <1>4, <2>13
    <3>3. FenceHolds(gs, f, p, cl.target) /\ f \in DOMAIN gs BY <1>5, <2>4, <3>1
    <3>4. FenceHolds(LeaveFences(gs, S), f, p, cl.target) BY <2>4, <2>11, <3>1, <3>3, LeaveKeeps
    <3>5. QED BY <1>16, <3>2, <3>4
  <2>17. CallsOK' /\ Watches' = [Watches EXCEPT ![p] = {}]
    BY <1>1, <1>2, <2>14, <2>15, <2>16, Blocked
  <2>18. [Watches EXCEPT ![p] = {}] = Watches BY <2>5
  <2>19. MessagesOK' BY <1>1, <2>8, <2>10, MessagesKept
  <2>20. TablesOK' BY <1>1, <1>10, <2>10, TablesKept
  <2>21. SyncInv' BY <1>10, <2>8, <2>9, <2>17, <2>18, <2>19, <2>20, StepKeeps
  <2>22. ASSUME NEW g \in DOMAIN gs, NEW w \in Elements(gs[g].waiters), w.pid \notin S
         PROVE  blocked'[w.pid] # None /\ blocked'[w.pid].on = "fence"
    <3>1. CASE w.pid = p /\ blocked'[p] # None BY <1>13, <2>8, <3>1
    <3>2. CASE w \in Elements(fences[g].waiters)
      <4>1. w.pid \in Pid /\ blocked[w.pid] # None /\ blocked[w.pid].on = "fence"
        BY <1>9, <2>4, <3>2
      <4>2. w.pid # p BY <1>1, <4>1
      <4>3. QED BY <1>15, <2>8, <2>22, <4>1, <4>2 DEF TimedOut
    <3>3. QED BY <2>4, <3>1, <3>2
  <2>23. FencesSleep' BY <1>16, <2>4, <2>22, SleepLeave
  <2>24. QED BY <2>21, <2>23
<1>17. QED BY <1>4, <1>7, <1>11, <1>12, <1>14, <1>15, <1>16 DEF FenceWait, FenceEntered

-----------------------------------------------------------------------------
(* The theorem *)

\* A task that parks is not blocked, so that the others are at most woken.
LEMMA ParkWakesOnly ==
    ASSUME NEW p, NEW cl, NEW r, NEW s, NEW x, Park(p, cl, r, s, x), blocked[p] = None,
           blocked \in [Pid -> {None} \cup SyncReason]
    PROVE  WakesOnly
<1>1. PICK b : b = [blocked EXCEPT ![p] = x] OBVIOUS
<1>2. \A q \in Pid : q # p => b[q] = blocked[q] BY <1>1
<1>3. \A q \in Pid : blocked'[q] \in {b[q], None} \/ blocked'[q] \in {blocked[q], None}
  BY <1>1, WakesAtMost DEF Park, WakeExpired
<1>4. QED BY <1>2, <1>3 DEF WakesOnly

LEMMA IpcWakesOnly ==
    ASSUME SyncInv, IpcNext PROVE WakesOnly
<1>1. blocked \in [Pid -> {None} \cup SyncReason] BY DEF SyncInv, Core
<1>2. ASSUME NEW p \in Pid, Step(p) PROVE WakesOnly
  <2>1. PICK cl \in Making(p) : \/ SendOk(p, cl) \/ SendWait(p, cl) \/ SendFail(p, cl)
                                \/ RecvOk(p, cl) \/ RecvWait(p, cl) \/ RecvFail(p, cl)
    BY <1>2 DEF Step
  <2>2. CASE SendOk(p, cl) BY <2>2, WakesAtMost DEF SendOk, WakesOnly
  <2>3. CASE RecvOk(p, cl) BY <2>3, WakesAtMost DEF RecvOk, WakesOnly
  <2>4. CASE SendFail(p, cl) \/ RecvFail(p, cl) BY <2>4 DEF SendFail, RecvFail, WakesOnly
  <2>5. CASE SendWait(p, cl) BY <1>1, <2>5, ParkWakesOnly DEF SendWait, Runs
  <2>6. CASE RecvWait(p, cl) BY <1>1, <2>6, ParkWakesOnly DEF RecvWait, Runs
  <2>7. QED BY <2>1, <2>2, <2>3, <2>4, <2>5, <2>6
<1>3. ASSUME NEW p, NEW s, EndpointClose(p, s) PROVE WakesOnly
  BY <1>3, WakesAtMost DEF EndpointClose, WakesOnly
<1>4. ASSUME NEW p, SysExit(p) PROVE WakesOnly BY <1>4, WakesAtMost DEF SysExit, WakesOnly
<1>5. TimerTick => WakesOnly BY WakesAtMost DEF TimerTick, WakesOnly
<1>6. TimePasses => WakesOnly BY DEF TimePasses, WakesOnly
<1>7. QED BY <1>2, <1>3, <1>4, <1>5, <1>6 DEF IpcNext

\* Steps that change waitsets and fences: the waiters of a fence stay asleep.
LEMMA SleepStep ==
    ASSUME SyncInv, FencesSleep, NEW p \in Pid,
           \/ \E cl \in Making(p) : WaitsetWait(p, cl) \/ WaitFail(p, cl)
           \/ WaitsetCreate(p) \/ FenceCreate(p)
           \/ \E s, e \in Slot : WaitsetAdd(p, s, e)
           \/ \E s \in Slot, v \in Values : FenceSignal(p, s, v)
           \/ \E s \in Slot : ObjectClose(p, s)
    PROVE  FencesSleep'
<1>1. /\ fences \in Seq(FenceRecord) /\ TablesOK
      /\ blocked \in [Pid -> {None} \cup SyncReason]
  BY DEF SyncInv, ObjectsOK, Core
<1>2. ASSUME fences' = fences, blocked' = blocked PROVE FencesSleep'
  BY <1>2 DEF FencesSleep, BlockedOn
<1>3. ASSUME NEW cl \in Making(p), WaitsetWait(p, cl) PROVE FencesSleep'
  <2>1. WakesOnly
    <3>1. CASE blocked' = blocked BY <3>1 DEF WakesOnly
    <3>2. ASSUME NEW r, NEW s, NEW x, Park(p, cl, r, s, x), blocked[p] = None PROVE WakesOnly
      BY <1>1, <3>2, ParkWakesOnly
    <3>3. QED BY <1>3, <3>1, <3>2 DEF WaitsetWait, Runs
  <2>2. FencesKept BY <1>3 DEF WaitsetWait
  <2>3. QED BY <1>1, <2>1, <2>2, SleepKept
<1>4. ASSUME NEW cl, WaitFail(p, cl) PROVE FencesSleep' BY <1>2, <1>4 DEF WaitFail, syncVars
<1>5. WaitsetCreate(p) => FencesSleep' BY <1>2 DEF WaitsetCreate
<1>6. ASSUME NEW s, NEW e, WaitsetAdd(p, s, e) PROVE FencesSleep'
  BY <1>2, <1>6 DEF WaitsetAdd, vars
<1>7. ASSUME FenceCreate(p) PROVE FencesSleep'
  <2>1. fences' = Append(fences, Fence(p)) /\ blocked' = blocked BY <1>7 DEF FenceCreate
  <2>2. PICK x : x = Fence(p) OBVIOUS
  <2>3. x.waiters = <<>> BY <2>2 DEF Fence
  <2>4. /\ DOMAIN fences' = DOMAIN fences \cup {Len(fences) + 1} /\ fences'[Len(fences) + 1] = x
        /\ \A f \in DOMAIN fences : fences'[f] = fences[f]
    BY <1>1, <2>1, <2>2
  <2>5. Elements(<<>>) = {} BY DEF Elements
  <2>6. ASSUME NEW f \in DOMAIN fences', NEW w \in Elements(fences'[f].waiters)
        PROVE  BlockedOn(w.pid, "fence")'
    <3>1. f \in DOMAIN fences /\ fences'[f] = fences[f] BY <2>3, <2>4, <2>5, <2>6
    <3>2. QED BY <2>1, <2>6, <3>1 DEF FencesSleep, BlockedOn
  <2>7. QED BY <2>6 DEF FencesSleep
<1>8. ASSUME NEW s \in Slot, NEW v \in Values, FenceSignal(p, s, v) PROVE FencesSleep'
  <2>1. PICK f : f = caps[p][s].ep OBVIOUS
  <2>2. f \in DOMAIN fences BY <1>1, <1>8, <2>1, HeldFine DEF FenceSignal, HoldsFence, CapFine
  <2>3. PICK n : n = SignalValue(fences[f], v) OBVIOUS
  <2>4. PICK S : S = Satisfied(fences[f], n) OBVIOUS
  <2>5. PICK x : x = [fences[f] EXCEPT !.value = n] OBVIOUS
  <2>6. PICK fs : fs = [fences EXCEPT ![f] = x] OBVIOUS
  <2>7. fences' = LeaveFences(fs, S) /\ blocked' = Woken(blocked, S)
    BY <1>8, <2>1, <2>3, <2>4, <2>5, <2>6 DEF FenceSignal
  <2>8. fences[f] \in FenceRecord BY <1>1, <2>2
  <2>9. n \in Nat
    <3>1. fences[f].value \in Nat /\ v \in Nat BY <2>8, SyncAssumption DEF FenceRecord
    <3>2. QED BY <2>3, <3>1 DEF SignalValue
  <2>10. x \in FenceRecord /\ x.waiters = fences[f].waiters BY <2>5, <2>8, <2>9 DEF FenceRecord
  <2>11. /\ fs \in Seq(FenceRecord) /\ DOMAIN fs = DOMAIN fences
         /\ \A g \in DOMAIN fences : fs[g].waiters = fences[g].waiters
    BY <1>1, <2>2, <2>6, <2>10
  <2>12. ASSUME NEW g \in DOMAIN fs, NEW w \in Elements(fs[g].waiters), w.pid \notin S
         PROVE  blocked'[w.pid] # None /\ blocked'[w.pid].on = "fence"
    <3>1. w \in Elements(fences[g].waiters) /\ g \in DOMAIN fences BY <2>11, <2>12
    <3>2. w.pid \in Pid BY <1>1, <3>1, WaiterTyped
    <3>3. blocked[w.pid] # None /\ blocked[w.pid].on = "fence" BY <3>1 DEF FencesSleep, BlockedOn
    <3>4. QED BY <2>7, <2>12, <3>2, <3>3 DEF Woken
  <2>13. QED BY <2>7, <2>11, <2>12, SleepLeave
<1>9. ASSUME NEW s \in Slot, ObjectClose(p, s) PROVE FencesSleep'
  <2>1. blocked' = blocked BY <1>9 DEF ObjectClose, SysCapClose
  <2>2. PICK o : o = caps[p][s].ep OBVIOUS
  <2>3. \/ fences' = fences
        \/ fences' = [fences EXCEPT ![o].alive = FALSE, ![o].waiters = <<>>]
    BY <1>9, <2>2 DEF ObjectClose
  <2>4. CASE fences' = fences BY <1>2, <2>1, <2>4
  <2>5. CASE fences' = [fences EXCEPT ![o].alive = FALSE, ![o].waiters = <<>>]
    <3>1. Elements(<<>>) = {} BY DEF Elements
    <3>2. ASSUME NEW f \in DOMAIN fences', NEW w \in Elements(fences'[f].waiters)
          PROVE  BlockedOn(w.pid, "fence")'
      <4>1. f \in DOMAIN fences BY <2>5, <3>2
      <4>2. CASE f # o
        <5>1. fences'[f] = fences[f] BY <2>5, <4>1, <4>2
        <5>2. QED BY <2>1, <3>2, <4>1, <5>1 DEF FencesSleep, BlockedOn
      <4>3. CASE f = o
        <5>1. fences[o] \in FenceRecord BY <1>1, <4>1, <4>3
        <5>2. PICK x : x = [fences[o] EXCEPT !.alive = FALSE, !.waiters = <<>>] OBVIOUS
        <5>3. x.waiters = <<>> BY <5>1, <5>2 DEF FenceRecord
        <5>4. fences' = [fences EXCEPT ![o] = x] BY <1>1, <2>5, <4>1, <4>3, <5>2
        <5>5. fences'[o] = x BY <1>1, <4>1, <4>3, <5>4
        <5>6. QED BY <3>1, <3>2, <4>3, <5>3, <5>5
      <4>4. QED BY <4>2, <4>3
    <3>3. QED BY <3>2 DEF FencesSleep
  <2>6. QED BY <2>3, <2>4, <2>5
<1>10. QED BY <1>3, <1>4, <1>5, <1>6, <1>7, <1>8, <1>9

\* The names and receivers that the theorem is about.
LEMMA ReceiversNamed ==
    ASSUME \E rcv : OneReceiver(rcv) PROVE OneReceiver(Rcv)
BY DEF Rcv

LEMMA SyncInitInv ==
    ASSUME ObjectsNamed, \E rcv : OneReceiver(rcv), SyncInit
    PROVE  SyncInv /\ FencesSleep
<1>1. Init /\ IpcInv BY IpcInit DEF SyncInit
<1>2. Tidy(router) BY <1>1 DEF IpcInv, Good, Sound, Parking, Tidy
<1>3. /\ blocked = [p \in Pid |-> None] /\ call = [p \in Pid |-> None] /\ caps = InitCaps
      /\ waitsets = InitWaitsets
      /\ fences = [f \in DOMAIN InitFences |-> Fence(InitFences[f])]
  BY DEF SyncInit, Init
<1>4. \A p \in Pid : blocked[p] = None /\ call[p] = None BY <1>3
<1>5. \A p \in Pid : Watched(p) = {} BY <1>4 DEF Watched
<1>6. Elements(<<>>) = {} BY DEF Elements
<1>7. \A i \in DOMAIN router.eps : /\ router.eps[i].recv_waiters = <<>>
                                   /\ router.eps[i].send_waiters = <<>>
                                   /\ router.eps[i].queue = <<>>
  BY <1>1 DEF Init, WithDepth
<1>8. Core(router, blocked, Watches)
  <2>1. \A p \in Pid : Watches[p] = {} BY <1>5 DEF Watches
  <2>2. Reasons(blocked, Watches) /\ Watching(Watches) BY <1>4, <2>1 DEF Reasons, Watching
  <2>3. Queued(router, blocked, Watches) BY <1>4, <1>6, <1>7 DEF Queued, On
  <2>4. Quiet(router, blocked) BY <1>4 DEF Quiet, On
  <2>5. blocked \in [Pid -> {None} \cup SyncReason] BY <1>3
  <2>6. QED BY <1>2, <2>2, <2>3, <2>4, <2>5 DEF Core, Waits
<1>9. OneReceiver(Rcv) BY ReceiversNamed
<1>10. waitsets \in Seq(WaitsetRecord) BY <1>3, SyncAssumption DEF WaitsetRecord
<1>11. WaitsetsOK
  <2>1. \A w \in DOMAIN waitsets : \A i \in Elements(waitsets[w].members) :
          Rcv[i] = waitsets[w].owner
    BY <1>3, <1>9 DEF OneReceiver, ToSet, Elements
  <2>2. QED BY <1>10, <2>1 DEF WaitsetsOK
<1>12. ASSUME NEW p \in Pid PROVE Fence(p) \in FenceRecord /\ Fence(p).waiters = <<>>
  BY DEF Fence, FenceRecord
<1>13. fences \in Seq(FenceRecord) /\ DOMAIN fences = DOMAIN InitFences
  <2>1. InitFences \in Seq(Pid) BY SyncAssumption
  <2>2. DOMAIN InitFences = 1..Len(InitFences) /\ Len(InitFences) \in Nat BY <2>1
  <2>3. fences \in [1..Len(InitFences) -> FenceRecord] BY <1>3, <1>12, <2>1, <2>2
  <2>4. QED BY <2>2, <2>3
<1>14. TablesOK
  <2>1. caps \in [Pid -> Table] BY <1>3, IpcAssumption
  <2>2. ASSUME NEW p \in Pid, NEW s \in Slot PROVE CapFine(p, caps[p][s])
    <3>1. PICK c : c = InitCaps[p][s] OBVIOUS
    <3>2. c # NoCap /\ c.kind = "Endpoint" /\ "RECV" \in c.rights => Rcv[c.ep] = p /\ Keeps(p, c)
      BY <1>9, <3>1 DEF OneReceiver, DerivesEndpoint
    <3>3. c # NoCap =>
            /\ c.kind = "Waitset" => /\ c.ep \in DOMAIN InitWaitsets
                                     /\ InitWaitsets[c.ep].owner = p /\ Keeps(p, c)
            /\ c.kind = "Fence" => c.ep \in DOMAIN InitFences
      BY <3>1 DEF ObjectsNamed
    <3>4. QED BY <1>3, <1>13, <3>1, <3>2, <3>3 DEF CapFine
  <2>3. QED BY <2>1, <2>2 DEF TablesOK
<1>15. MessagesOK BY <1>6, <1>7 DEF MessagesOK
<1>16. CallsOK
  <2>1. call \in [Pid -> {None} \cup Call] BY <1>3
  <2>2. \A p \in Pid : SyncCallOK(p) /\ FenceOK(p) BY <1>4 DEF SyncCallOK, FenceOK, BlockedOn
  <2>3. QED BY <2>1, <2>2 DEF CallsOK
<1>17. FencesSleep
  <2>1. \A f \in DOMAIN fences : fences[f].waiters = <<>>
    <3>1. InitFences \in Seq(Pid) BY SyncAssumption
    <3>2. QED BY <1>3, <1>12, <1>13, <3>1
  <2>2. QED BY <1>6, <2>1 DEF FencesSleep
<1>18. QED BY <1>8, <1>11, <1>13, <1>14, <1>15, <1>16, <1>17 DEF SyncInv, ObjectsOK

\* A step of the IPC system calls.
LEMMA SyncIpc ==
    ASSUME SyncInv, FencesSleep, IpcNext, FencesKept, UNCHANGED waitsets
    PROVE  SyncInv' /\ FencesSleep'
<1>1. FencesSleep' BY IpcWakesOnly, SleepKept DEF SyncInv, ObjectsOK
<1>2. Exits \subseteq Pid BY IpcAssumption
<1>3. ASSUME NEW p \in Pid, Step(p) PROVE SyncInv'
  BY <1>3, SyncSendOk, SyncSendWait, SyncFail, SyncRecvOk, SyncRecvWait DEF Step
<1>4. ASSUME NEW p \in Exits, NEW s \in Slot, EndpointClose(p, s) PROVE SyncInv'
  BY <1>2, <1>4, SyncEndpointClose
<1>5. ASSUME NEW p \in Exits, SysExit(p) PROVE SyncInv' BY <1>2, <1>5, SyncExit
<1>6. QED BY <1>1, <1>3, <1>4, <1>5, SyncTimer DEF IpcNext

LEMMA SyncInductive == SyncInv /\ FencesSleep /\ [SyncNext]_allVars => SyncInv' /\ FencesSleep'
<1> SUFFICES ASSUME SyncInv, FencesSleep, [SyncNext]_allVars PROVE SyncInv' /\ FencesSleep'
  OBVIOUS
<1>1. Exits \subseteq Pid /\ Users \subseteq Pid BY IpcAssumption, SyncAssumption
<1>2. CASE UNCHANGED allVars
  <2>1. /\ router' = router /\ blocked' = blocked /\ caps' = caps /\ call' = call
        /\ waitsets' = waitsets /\ fences' = fences
    BY <1>2 DEF allVars, vars, syncVars
  <2>2. FencesSleep' BY <2>1 DEF FencesSleep, BlockedOn
  <2>3. Watches' = Watches BY <2>1 DEF Watches, Watched
  <2>4. ObjectsOK' BY <2>1 DEF SyncInv, ObjectsOK, TablesOK, MessagesOK, WaitsetsOK, CapFine, Loose
  <2>5. CallsOK'
    BY <2>1 DEF SyncInv, CallsOK, SyncCallOK, FenceOK, BlockedOn, HoldsWaitset
  <2>6. QED BY <2>1, <2>2, <2>3, <2>4, <2>5 DEF SyncInv
<1>3. CASE IpcNext /\ FencesKept /\ UNCHANGED waitsets BY <1>3, SyncIpc
<1>4. ASSUME NEW p \in Pid, SyncStep(p) PROVE SyncInv' /\ FencesSleep'
  BY <1>4, SyncWaitsetWait, SyncFenceWait, SyncWaitFail, SleepStep DEF SyncStep
<1>5. ASSUME NEW p \in Pid, WaitsetCreate(p) \/ FenceCreate(p) PROVE SyncInv' /\ FencesSleep'
  BY <1>5, SyncWaitsetCreate, SyncFenceCreate, SleepStep
<1>6. ASSUME NEW p \in Pid, NEW s \in Slot, NEW e \in Slot, WaitsetAdd(p, s, e)
      PROVE  SyncInv' /\ FencesSleep'
  BY <1>6, SyncWaitsetAdd, SleepStep
<1>7. ASSUME NEW p \in Pid, NEW s \in Slot, NEW v \in Values, FenceSignal(p, s, v)
      PROVE  SyncInv' /\ FencesSleep'
  BY <1>7, SyncFenceSignal, SleepStep
<1>8. ASSUME NEW p \in Pid, NEW s \in Slot, ObjectClose(p, s) PROVE SyncInv' /\ FencesSleep'
  BY <1>8, SyncObjectClose, SleepStep
<1>9. QED BY <1>1, <1>2, <1>3, <1>4, <1>5, <1>6, <1>7, <1>8 DEF SyncNext

\* What the invariant says of a task that sleeps or has returned.
LEMMA SyncInvSuffices == SyncInv => NoLostWake
<1> SUFFICES ASSUME SyncInv PROVE NoLostWake OBVIOUS
<1>1. /\ Waits(router, blocked, Watches) /\ Quiet(router, blocked) /\ Tidy(router)
      /\ CallsOK /\ blocked \in [Pid -> {None} \cup SyncReason]
  BY DEF SyncInv, Core
<1>2. ASSUME NEW i \in DOMAIN router.eps, NEW p
      PROVE  Contains(router.eps[i].recv_waiters, p) <=> p \in Elements(router.eps[i].recv_waiters)
  <2>1. PICK ws \in Seq(Pid) : ws = router.eps[i].recv_waiters BY <1>1, TidyQueues
  <2>2. DOMAIN ws = 1..Len(ws) OBVIOUS
  <2>3. Contains(ws, p) <=> p \in Elements(ws) BY <2>2 DEF Contains, Elements
  <2>4. QED BY <2>1, <2>3
<1>3. WaitsetArmed
  <2>1. ASSUME NEW p \in Pid, NEW i \in DOMAIN router.eps, BlockedOn(p, "waitset"),
               i \in blocked[p].eps, router.eps[i].alive
        PROVE  p \in Elements(router.eps[i].recv_waiters)
    BY <1>1, <2>1 DEF Waits, Queued, On, BlockedOn
  <2>2. ASSUME NEW p \in Pid, NEW i \in DOMAIN router.eps, call[p] = None
        PROVE  p \notin Elements(router.eps[i].recv_waiters)
    <3>1. blocked[p] = None BY <1>1, <2>2 DEF CallsOK, SyncCallOK
    <3>2. Watches[p] = {} BY <2>2 DEF Watches, Watched
    <3>3. QED BY <1>1, <3>1, <3>2, RunningOff
  <2>3. QED BY <1>2, <2>1, <2>2 DEF WaitsetArmed
<1>4. WaitsetNoLostWake
  <2>1. ASSUME NEW p \in Pid, BlockedOn(p, "waitset"), NEW i \in blocked[p].eps
        PROVE  ~Pending(router, i)
    <3>1. CASE i \in DOMAIN router.eps BY <1>1, <2>1, <3>1 DEF Quiet, On, BlockedOn
    <3>2. CASE i \notin DOMAIN router.eps BY <3>2 DEF Pending, EndpointAlive
    <3>3. QED BY <3>1, <3>2
  <2>2. QED BY <2>1 DEF WaitsetNoLostWake
<1>5. FenceNoLostWake
  <2>1. ASSUME NEW p \in Pid, BlockedOn(p, "fence"), FenceOf(p).alive
        PROVE  /\ [pid |-> p, target |-> call[p].target] \in ToSet(FenceOf(p).waiters)
               /\ FenceOf(p).value < call[p].target
    <3>1. FenceHolds(fences, caps[p][call[p].slot].ep, p, call[p].target)
      BY <1>1, <2>1 DEF CallsOK, FenceOK
    <3>2. \A x : ToSet(x) = Elements(x) BY DEF ToSet, Elements
    <3>3. QED BY <2>1, <3>1, <3>2 DEF FenceHolds, FenceOf
  <2>2. QED BY <2>1 DEF FenceNoLostWake
<1>6. QED BY <1>3, <1>4, <1>5 DEF NoLostWake

\* No wake-up is lost, for any number of tasks, endpoints, waitsets and fences:
\* a task sleeps in waitset_wait only while it is registered with every live
\* member and none has a message, in fence_wait only while it is registered
\* and the value is not reached, and a task that has returned is registered
\* nowhere (sys_waitset_wait, sys_fence_wait).  The hypotheses are needed: a
\* send wakes one waiter only, so that a second receiver of the same endpoint
\* would sleep next to the message; and a waitset is freed by whoever closes a
\* capability to it, also while its owner sleeps on it.
THEOREM SyncNoLostWake ==
    ASSUME ObjectsNamed, \E rcv : OneReceiver(rcv)
    PROVE  SyncSpec => []NoLostWake
<1>1. SyncInit => SyncInv /\ FencesSleep BY SyncInitInv
<1>2. SyncInv /\ FencesSleep /\ [SyncNext]_allVars => SyncInv' /\ FencesSleep'
  BY SyncInductive
<1>3. SyncInv => NoLostWake BY SyncInvSuffices
<1>4. QED BY <1>1, <1>2, <1>3, PTL DEF SyncSpec
=============================================================================
