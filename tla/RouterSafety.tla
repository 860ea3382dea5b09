---------------------------- MODULE RouterSafety ----------------------------
(***************************************************************************)
(* For every set of tasks, messages and limits: the router's byte counters *)
(* are exact, its budgets hold, its waiter queues have no duplicates and   *)
(* its endpoint ids are stable, whatever the kernel asks of it.  Sound is  *)
(* the inductive invariant; RouterProofs has a lemma per operation and     *)
(* part of it.  With the limits of the endpoints (Limits) it is enough to  *)
(* show that the router implements Mailboxes.                              *)
(***************************************************************************)
EXTENDS RouterSpec, RouterProofs

\* Every reachable router is a vector of well-formed endpoints with natural
\* counters, and every result is an IpcError or a message.
THEOREM TypeCorrect == Spec => []TypeOK
<1> DEFINE Results == {"Ok", "NoSuchEndpoint", "QueueFull", "QueueEmpty", "NoSpace"}
           RetType == [res : Results, msg : Message \cup {None}]
<1>1. \A x \in Results : Result(x) \in RetType BY DEF Result
<1>2. Init => TypeOK
  <2> SUFFICES ASSUME Init PROVE TypeOK OBVIOUS
  <2>1. WithDepth(BOOT_DEPTH, None) \in Endpoint BY WithDepthType, RouterAssumption
  <2>2. [i \in 1..BootEndpoints |-> WithDepth(BOOT_DEPTH, None)] \in Seq(Endpoint)
    BY <2>1, RouterAssumption
  <2>3. [p \in Pid |-> 0] \in [Pid -> Nat] OBVIOUS
  <2>4. router \in RouterState BY <2>2, <2>3, MakeRouter DEF Init, NewRouter
  <2>5. ret \in RetType BY <1>1 DEF Init
  <2>6. QED BY <2>4, <2>5 DEF TypeOK
<1>3. TypeOK /\ [Next]_vars => TypeOK'
  <2> SUFFICES ASSUME TypeOK, [Next]_vars PROVE TypeOK'
    OBVIOUS
  <2>0. router \in RouterState /\ ret \in RetType BY DEF TypeOK
  <2> SUFFICES router' \in RouterState /\ ret' \in RetType BY DEF TypeOK
  <2>1. ASSUME NEW id \in EndpointId, NEW m \in Message, DoSend(id, m)
        PROVE  router' \in RouterState /\ ret' \in RetType
    <3>1. SendErr(router, id, m) \in Results BY DEF SendErr, PushErr
    <3>2. QED BY <1>1, <2>0, <2>1, <3>1, SendType DEF DoSend
  <2>2. ASSUME NEW id \in EndpointId, DoRecv(id)
        PROVE  router' \in RouterState /\ ret' \in RetType
    <3>1. RecvErr(router, id) \in Results BY DEF RecvErr
    <3>2. QED BY <1>1, <2>0, <2>2, <3>1, RecvType DEF DoRecv
  <2>3. ASSUME NEW id \in EndpointId, DoRecvRequeue(id)
        PROVE  router' \in RouterState /\ ret' \in RetType
    <3>1. Recv(router, id) \in RouterState /\ Received(router, id) \in Message
      BY <2>0, <2>3, RecvType DEF DoRecvRequeue
    <3>2. QED BY <1>1, <2>3, <3>1, SendType DEF DoRecvRequeue
  <2>4. ASSUME NEW id \in EndpointId, NEW p \in Waiter, DoRegister(id, p)
        PROVE  router' \in RouterState /\ ret' \in RetType
    BY <2>0, <2>4, CallerAssumption, WaiterQueueOpsType DEF DoRegister
  <2>5. ASSUME NEW id \in EndpointId, DoPopWaiter(id)
        PROVE  router' \in RouterState /\ ret' \in RetType
    BY <2>0, <2>5, PopWaiterType DEF DoPopWaiter
  <2>6. ASSUME NEW id \in EndpointId, NEW p \in Waiter, DoRemoveWaiter(id, p)
        PROVE  router' \in RouterState /\ ret' \in RetType
    BY <2>0, <2>6, CallerAssumption, WaiterQueueOpsType DEF DoRemoveWaiter
  <2>7. ASSUME NEW d \in Depth, NEW o \in Pid \cup {None}, DoCreate(d, o)
        PROVE  router' \in RouterState /\ ret' \in RetType
    <3>1. CreateErr(router, o) \in Results BY DEF CreateErr
    <3>2. d \in Nat BY CallerAssumption
    <3>3. QED BY <1>1, <2>0, <2>7, <3>1, <3>2, CreateCloseType DEF DoCreate
  <2>8. ASSUME NEW id \in EndpointId, DoClose(id)
        PROVE  router' \in RouterState /\ ret' \in RetType
    BY <1>1, <2>0, <2>8, CreateCloseType DEF DoClose
  <2>9. ASSUME NEW p \in Pid, DoCloseOwner(p)
        PROVE  router' \in RouterState /\ ret' \in RetType
    BY <1>1, <2>0, <2>9, CreateCloseType DEF DoCloseOwner
  <2>10. CASE UNCHANGED vars
    BY <2>0, <2>10 DEF vars
  <2>11. QED
    BY <2>1, <2>2, <2>3, <2>4, <2>5, <2>6, <2>7, <2>8, <2>9, <2>10 DEF Next
<1>4. QED BY <1>2, <1>3, PTL DEF Spec

-----------------------------------------------------------------------------
\* A router at boot is sound.
LEMMA SoundInit == Sound(NewRouter)
<1>1. PICK ep \in Endpoint : ep = WithDepth(BOOT_DEPTH, None)
  <2>1. WithDepth(BOOT_DEPTH, None) \in Endpoint BY WithDepthType, RouterAssumption
  <2>2. QED BY <2>1
<1>2. Fresh(ep) /\ ep.owner = None BY <1>1, WithDepthFresh
<1>3. PICK e : e = [i \in 1..BootEndpoints |-> ep] OBVIOUS
<1>4. e \in Seq(Endpoint) /\ Len(e) = BootEndpoints /\ DOMAIN e = 1..BootEndpoints
  BY <1>3, RouterAssumption
<1>5. \A i \in DOMAIN e : e[i] = ep BY <1>3
<1>6. NewRouter = [eps |-> e, total |-> 0, owned |-> [p \in Pid |-> 0]]
  BY <1>1, <1>3 DEF NewRouter
<1>7. ASSUME NEW p \in Pid
      PROVE  Cardinality({i \in DOMAIN e : e[i].owner = p}) <= MAX_ENDPOINTS_PER_OWNER
  <2>1. p # None BY RouterAssumption
  <2>2. {i \in DOMAIN e : e[i].owner = p} = {} BY <1>2, <1>5, <2>1
  <2>3. Cardinality({}) = 0 BY FS_EmptySet
  <2>4. 0 <= MAX_ENDPOINTS_PER_OWNER BY RouterAssumption
  <2>5. QED BY <2>2, <2>3, <2>4
<1>8. Len(e) <= MAX_ENDPOINTS BY <1>4, RouterAssumption
<1>9. QED BY <1>2, <1>4, <1>5, <1>6, <1>7, <1>8, FreshSound

\* Every step takes a sound router to a sound one and keeps the ids stable.
LEMMA SoundStep ==
    ASSUME Sound(router), [Next]_vars
    PROVE  Sound(router') /\ Stable(router, router')
<1>0. /\ router \in RouterState /\ AccountingOf(router)
      /\ BudgetsOf(router) /\ WaitersOf(router)
  BY DEF Sound
<1>1. ASSUME NEW id \in EndpointId, NEW m \in Message, DoSend(id, m)
      PROVE  Sound(router') /\ Stable(router, router')
  BY <1>0, <1>1, SendType, SendAccounting, SendBudgets, SendWaiters, StableSend
     DEF DoSend, Sound
<1>2. ASSUME NEW id \in EndpointId, DoRecv(id)
      PROVE  Sound(router') /\ Stable(router, router')
  BY <1>0, <1>2, RecvType, RecvAccounting, RecvBudgets, RecvWaiters, StableRecv
     DEF DoRecv, Sound
<1>3. ASSUME NEW id \in EndpointId, DoRecvRequeue(id)
      PROVE  Sound(router') /\ Stable(router, router')
  <2>1. PICK s : s = Recv(router, id) OBVIOUS
  <2>2. PICK m : m = Received(router, id) OBVIOUS
  <2>3. /\ s \in RouterState /\ AccountingOf(s) /\ BudgetsOf(s) /\ WaitersOf(s)
        /\ Stable(router, s) /\ m \in Message
    BY <1>0, <1>3, <2>1, <2>2, RecvType, RecvAccounting, RecvBudgets, RecvWaiters,
       StableRecv DEF DoRecvRequeue
  <2>4. router' = RequeueFront(s, id, m) BY <1>3, <2>1, <2>2 DEF DoRecvRequeue
  <2>5. Sound(router') /\ Stable(s, router')
    BY <2>3, <2>4, SendType, SendAccounting, SendBudgets, SendWaiters, StableSend DEF Sound
  <2>6. QED BY <2>3, <2>5, StableTwice
<1>4. ASSUME OnlyWaiters(router, router'), WaitersOf(router')
      PROVE  Sound(router') /\ Stable(router, router')
  <2>1. router' \in RouterState BY <1>4 DEF OnlyWaiters
  <2>2. QED BY <1>0, <1>4, <2>1, OnlyWaitersAccounting, OnlyWaitersBudgets, StableWaiters
            DEF Sound
<1>5. ASSUME NEW id \in EndpointId, NEW p \in Waiter, DoRegister(id, p)
      PROVE  Sound(router') /\ Stable(router, router')
  <2>1. p \in Pid BY CallerAssumption
  <2>2. OnlyWaiters(router, router') /\ WaitersOf(router')
    BY <1>0, <1>5, <2>1, OnlyWaitersOps, WaiterQueueOpsWaiters DEF DoRegister
  <2>3. QED BY <1>4, <2>2
<1>6. ASSUME NEW id \in EndpointId, DoPopWaiter(id)
      PROVE  Sound(router') /\ Stable(router, router')
  <2>1. OnlyWaiters(router, router') /\ WaitersOf(router')
    BY <1>0, <1>6, OnlyWaitersOps, WaiterQueueOpsWaiters DEF DoPopWaiter
  <2>2. QED BY <1>4, <2>1
<1>7. ASSUME NEW id \in EndpointId, NEW p \in Waiter, DoRemoveWaiter(id, p)
      PROVE  Sound(router') /\ Stable(router, router')
  <2>1. p \in Pid BY CallerAssumption
  <2>2. OnlyWaiters(router, router') /\ WaitersOf(router')
    BY <1>0, <1>7, <2>1, OnlyWaitersOps, WaiterQueueOpsWaiters, OnlyWaitersAll,
       RemoveAllWaiters DEF DoRemoveWaiter
  <2>3. QED BY <1>4, <2>2
<1>8. ASSUME NEW d \in Depth, NEW o \in Pid \cup {None}, DoCreate(d, o)
      PROVE  Sound(router') /\ Stable(router, router')
  <2>1. d \in Nat BY CallerAssumption
  <2>2. QED BY <1>0, <1>8, <2>1, CreateCloseType, CreateAccounting, CreateBudgets,
               CreateWaiters, StableCreate DEF DoCreate, Sound
<1>9. ASSUME NEW id \in EndpointId, DoClose(id)
      PROVE  Sound(router') /\ Stable(router, router')
  BY <1>0, <1>9, CreateCloseType, CloseAccounting, CloseBudgets, CloseWaiters, StableClose
     DEF DoClose, Sound
<1>10. ASSUME NEW p \in Pid, DoCloseOwner(p)
       PROVE  Sound(router') /\ Stable(router, router')
  BY <1>0, <1>10, CreateCloseType, CloseAccounting, CloseBudgets, CloseWaiters, StableClose
     DEF DoCloseOwner, Sound
<1>11. CASE UNCHANGED vars
  <2>1. router' = router BY <1>11 DEF vars
  <2>2. QED BY <2>1, StableSame
<1>12. QED
  BY <1>1, <1>2, <1>3, <1>5, <1>6, <1>7, <1>8, <1>9, <1>10, <1>11 DEF Next

\* The router stays sound.
LEMMA AlwaysSound == Spec => []Sound(router)
<1>1. Init => Sound(router) BY SoundInit DEF Init
<1>2. Sound(router) /\ [Next]_vars => Sound(router)' BY SoundStep
<1>3. QED BY <1>1, <1>2, PTL DEF Spec

\* The byte counters of send, recv, requeue_front and close never drift from
\* what is queued, for any tasks, messages and limits.
THEOREM AccountingCorrect == Spec => []Accounting
<1>1. Sound(router) => Accounting BY DEF Sound, Accounting
<1>2. QED BY <1>1, AlwaysSound, PTL

\* No sequence of operations exceeds a queue's limits, the byte budgets or
\* the endpoint quotas.
THEOREM BudgetsCorrect == Spec => []Budgets
<1>1. Sound(router) => Budgets BY DEF Sound, Budgets
<1>2. QED BY <1>1, AlwaysSound, PTL

\* Waiter queues have no duplicates, and a dead endpoint holds nothing.
THEOREM WaitersCorrect == Spec => []WaitersOK
<1>1. Sound(router) => WaitersOK BY DEF Sound, WaitersOK
<1>2. QED BY <1>1, AlwaysSound, PTL

\* An endpoint id names the same endpoint for ever.
THEOREM IdsNeverReused == Spec => IdsStable
<1>1. Sound(router) /\ [Next]_vars =>
        [\A i \in DOMAIN router.eps :
           /\ i \in DOMAIN router'.eps
           /\ router'.eps[i].owner = router.eps[i].owner
           /\ router'.eps[i].depth = router.eps[i].depth
           /\ router'.eps[i].alive => router.eps[i].alive]_vars
  BY SoundStep DEF Stable
<1>2. QED BY <1>1, AlwaysSound, PTL DEF Spec, IdsStable

-----------------------------------------------------------------------------
\* The actions on waiters change waiters only, and return nothing.
LEMMA WaiterSteps ==
    ASSUME router \in RouterState, NEW id \in EndpointId
    PROVE  /\ \A p \in Waiter : DoRegister(id, p) \/ DoRemoveWaiter(id, p)
                                  => OnlyWaiters(router, router') /\ ret' = ret
           /\ DoPopWaiter(id) => OnlyWaiters(router, router') /\ ret' = ret
<1>1. \A p \in Waiter : p \in Pid BY CallerAssumption
<1>2. QED BY <1>1, OnlyWaitersOps, OnlyWaitersAll DEF DoRegister, DoRemoveWaiter, DoPopWaiter

-----------------------------------------------------------------------------
(* The router implements Mailboxes *)

\* The mailbox an endpoint stands for, and the mailboxes of a router.
BoxOf(ep) == [alive |-> ep.alive, owner |-> ep.owner, depth |-> ep.depth, msgs |-> ep.queue]

Boxes(r) == [i \in DOMAIN r.eps |-> BoxOf(r.eps[i])]

\* The byte limit of an endpoint is what its depth of full frames needs.
Limits(r) == \A i \in DOMAIN r.eps :
               r.eps[i].max_queued_bytes = r.eps[i].depth * MAX_FRAME_BYTES

\* s has the endpoints of r, some of them perhaps changed or closed.
SameEndpoints(r, s) ==
    /\ DOMAIN s.eps = DOMAIN r.eps
    /\ \A i \in DOMAIN r.eps : SameIdentity(s.eps[i], r.eps[i])

\* Identity includes the byte limit.
LEMMA LimitsSame ==
    ASSUME NEW r, Limits(r), NEW s, SameEndpoints(r, s) PROVE Limits(s)
BY DEF Limits, SameEndpoints, SameIdentity

\* Queue operations keep the identity of every endpoint.
LEMMA SameQueueOps ==
    ASSUME NEW r \in RouterState, NEW id
    PROVE  /\ SameEndpoints(r, Recv(r, id))
           /\ \A m : /\ SameEndpoints(r, Send(r, id, m))
                     /\ SameEndpoints(r, RequeueFront(r, id, m))
<1>1. SameEndpoints(r, r) BY DEF SameEndpoints, SameIdentity
<1>2. ASSUME NEW s, OnlyAt(r, s, id), id \in DOMAIN r.eps, SameIdentity(s.eps[id], r.eps[id])
      PROVE  SameEndpoints(r, s)
  BY <1>2 DEF OnlyAt, SameEndpoints, SameIdentity
<1>3. SameEndpoints(r, Recv(r, id))
  <2>1. CASE RecvErr(r, id) = "Ok"
    <3>1. r.eps[id] \in Endpoint BY <2>1, RecvEffect, RouterFields
    <3>2. QED BY <1>2, <2>1, <3>1, RecvEffect, PopFields
  <2>2. CASE RecvErr(r, id) # "Ok" BY <1>1, <2>2 DEF Recv
  <2>3. QED BY <2>1, <2>2
<1>4. ASSUME NEW m
      PROVE  SameEndpoints(r, Send(r, id, m)) /\ SameEndpoints(r, RequeueFront(r, id, m))
  <2>1. CASE SendErr(r, id, m) = "Ok"
    <3>1. PICK ep \in Endpoint : ep = r.eps[id] BY <2>1, SendEffect, RouterFields
    <3>2. SameIdentity(Push(ep, m), ep) /\ SameIdentity(PushFront(ep, m), ep) BY PushFields
    <3>3. /\ id \in DOMAIN r.eps
          /\ OnlyAt(r, Send(r, id, m), id) /\ OnlyAt(r, RequeueFront(r, id, m), id)
          /\ Send(r, id, m).eps[id] = Push(ep, m)
          /\ RequeueFront(r, id, m).eps[id] = PushFront(ep, m)
      BY <2>1, <3>1, SendEffect
    <3>4. QED BY <1>2, <3>1, <3>2, <3>3
  <2>2. CASE SendErr(r, id, m) # "Ok" BY <1>1, <2>2 DEF Send, RequeueFront
  <2>3. QED BY <2>1, <2>2
<1>5. QED BY <1>3, <1>4

\* Closing keeps the identity of every endpoint.
LEMMA SameClose ==
    ASSUME NEW r \in RouterState
    PROVE  /\ \A id : SameEndpoints(r, CloseEndpoint(r, id))
           /\ \A p : SameEndpoints(r, CloseEndpointsForOwner(r, p))
<1>1. SameEndpoints(r, r) BY DEF SameEndpoints, SameIdentity
<1>2. ASSUME NEW f, SomeClosed(r.eps, f) PROVE SameEndpoints(r, RecomputeAccounting(r, f))
  <2>1. RecomputeAccounting(r, f).eps = f BY DEF RecomputeAccounting
  <2>2. \A i \in DOMAIN r.eps : SameIdentity(Closed(r.eps[i]), r.eps[i])
    BY RouterFields, ClosedFields
  <2>3. QED BY <1>2, <2>1, <2>2 DEF SomeClosed, SameEndpoints, SameIdentity
<1>3. QED BY <1>1, <1>2, CloseCases

\* Every operation keeps the byte limits what the depths need.
LEMMA LimitsStep ==
    ASSUME router \in RouterState, Limits(router), [Next]_vars PROVE Limits(router')
<1>1. ASSUME NEW id \in EndpointId, NEW m \in Message, DoSend(id, m) PROVE Limits(router')
  BY <1>1, SameQueueOps, LimitsSame DEF DoSend
<1>2. ASSUME NEW id \in EndpointId, DoRecv(id) PROVE Limits(router')
  BY <1>2, SameQueueOps, LimitsSame DEF DoRecv
<1>3. ASSUME NEW id \in EndpointId, DoRecvRequeue(id) PROVE Limits(router')
  <2>1. PICK s : s = Recv(router, id) OBVIOUS
  <2>2. Limits(s) BY <2>1, SameQueueOps, LimitsSame
  <2>3. s \in RouterState BY <1>3, <2>1, RecvType DEF DoRecvRequeue
  <2>4. router' = RequeueFront(s, id, Received(router, id)) BY <1>3, <2>1 DEF DoRecvRequeue
  <2>5. QED BY <2>2, <2>3, <2>4, SameQueueOps, LimitsSame
<1>4. ASSUME OnlyWaiters(router, router') PROVE Limits(router')
  BY <1>4, LimitsSame DEF OnlyWaiters, SameEndpoints
<1>5. ASSUME NEW d \in Depth, NEW o \in Pid \cup {None}, DoCreate(d, o) PROVE Limits(router')
  <2>1. CASE router' = router BY <2>1
  <2>2. ASSUME NEW k, router' = [eps |-> Append(router.eps, WithDepth(k, o)),
                                 total |-> router.total, owned |-> router.owned]
        PROVE  Limits(router')
    <3>1. PICK f : f = Append(router.eps, WithDepth(k, o)) OBVIOUS
    <3>2. \A i \in DOMAIN f : \/ i \in DOMAIN router.eps /\ f[i] = router.eps[i]
                              \/ f[i] = WithDepth(k, o)
      BY <3>1, RouterFields
    <3>3. WithDepth(k, o).max_queued_bytes = WithDepth(k, o).depth * MAX_FRAME_BYTES
      BY DEF WithDepth
    <3>4. QED BY <2>2, <3>1, <3>2, <3>3 DEF Limits
  <2>3. d \in Nat BY CallerAssumption
  <2>4. QED BY <1>5, <2>1, <2>2, <2>3, CreateCases DEF DoCreate
<1>6. ASSUME NEW id \in EndpointId, DoClose(id) PROVE Limits(router')
  BY <1>6, SameClose, LimitsSame DEF DoClose
<1>7. ASSUME NEW p \in Pid, DoCloseOwner(p) PROVE Limits(router')
  BY <1>7, SameClose, LimitsSame DEF DoCloseOwner
<1>8. CASE UNCHANGED vars BY <1>8 DEF vars
<1>9. QED BY <1>1, <1>2, <1>3, <1>4, <1>5, <1>6, <1>7, <1>8, WaiterSteps DEF Next

\* The mailboxes of a router, field by field.
LEMMA BoxFacts ==
    ASSUME NEW r \in RouterState
    PROVE  /\ DOMAIN Boxes(r) = DOMAIN r.eps /\ Len(Boxes(r)) = Len(r.eps)
           /\ \A i \in DOMAIN r.eps :
                /\ Boxes(r)[i] = BoxOf(r.eps[i])
                /\ Boxes(r)[i].alive = r.eps[i].alive /\ Boxes(r)[i].owner = r.eps[i].owner
                /\ Boxes(r)[i].depth = r.eps[i].depth /\ Boxes(r)[i].msgs = r.eps[i].queue
<1>1. DOMAIN r.eps = 1..Len(r.eps) /\ Len(r.eps) \in Nat BY RouterFields
<1>2. QED BY <1>1 DEF Boxes, BoxOf

\* The bytes Mailboxes counts in a queue are those the router counts.
LEMMA AbstractBytes ==
    ASSUME NEW q PROVE Abstract!Bytes(q) = SumSeq(Lengths(q))
<1>1. \A s : Abstract!SumSeq(s) = SumSeq(s) BY DEF Abstract!SumSeq, SumSeq
<1>2. QED BY <1>1 DEF Abstract!Bytes, Lengths

\* The mailboxes of a task are its endpoints that are alive.
LEMMA AbstractOwned ==
    ASSUME NEW p
    PROVE  /\ Abstract!OwnedBy(p) = AliveOwnedBy(router, p)
           /\ Abstract!Cardinality(Abstract!OwnedBy(p)) = Cardinality(AliveOwnedBy(router, p))
<1>1. Abstract!OwnedBy(p) = AliveOwnedBy(router, p) BY DEF Abstract!OwnedBy, AliveOwnedBy
<1>2. \A S : Abstract!Cardinality(S) = Cardinality(S) BY DEF Abstract!Cardinality, Cardinality
<1>3. QED BY <1>1, <1>2

\* A mailbox is alive when its endpoint is.
LEMMA AbstractAlive ==
    ASSUME NEW i PROVE Abstract!Alive(i) <=> EndpointAlive(router, i)
BY DEF Abstract!Alive, EndpointAlive

\* The bytes in a set of mailboxes are the sum of its endpoints' counters.
LEMMA AbstractBytesIn ==
    ASSUME Sound(router), NEW I
    PROVE  Abstract!BytesIn(I) =
             SumSeq([i \in DOMAIN router.eps |->
                       IF i \in I THEN router.eps[i].queued_bytes ELSE 0])
<1>1. \A s : Abstract!SumSeq(s) = SumSeq(s) BY DEF Abstract!SumSeq, SumSeq
<1>2. PICK f : f = [i \in DOMAIN router.eps |->
                      IF i \in I THEN router.eps[i].queued_bytes ELSE 0]
  OBVIOUS
<1>3. PICK g : g = [i \in DOMAIN router.eps |->
                      IF i \in I THEN Abstract!Bytes(router.eps[i].queue) ELSE 0]
  OBVIOUS
<1>4. \A i \in DOMAIN router.eps :
        router.eps[i].queued_bytes = Abstract!Bytes(router.eps[i].queue)
  BY AbstractBytes DEF Sound, AccountingOf
<1>5. f = g BY <1>2, <1>3, <1>4
<1>6. Abstract!BytesIn(I) = Abstract!SumSeq(g) BY <1>3 DEF Abstract!BytesIn
<1>7. QED BY <1>1, <1>2, <1>5, <1>6

\* So the counters are the bytes in the mailboxes.
LEMMA AbstractTotals ==
    ASSUME Sound(router)
    PROVE  /\ Abstract!BytesIn(DOMAIN router.eps) = router.total
           /\ \A p \in Pid : Abstract!BytesIn(Abstract!OwnedBy(p)) = router.owned[p]
<1>1. /\ router.total = QueuedBytesTotal(router.eps)
      /\ \A p \in Pid : router.owned[p] = OwnerQueuedBytes(router.eps, p)
  BY DEF Sound, AccountingOf
<1>2. Abstract!BytesIn(DOMAIN router.eps) = router.total
  <2>1. PICK f : f = [i \in DOMAIN router.eps |->
                        IF i \in DOMAIN router.eps THEN router.eps[i].queued_bytes ELSE 0]
    OBVIOUS
  <2>2. f = [i \in DOMAIN router.eps |-> router.eps[i].queued_bytes] BY <2>1
  <2>3. Abstract!BytesIn(DOMAIN router.eps) = SumSeq(f) BY <2>1, AbstractBytesIn
  <2>4. QED BY <1>1, <2>2, <2>3 DEF QueuedBytesTotal
<1>3. ASSUME NEW p \in Pid PROVE Abstract!BytesIn(Abstract!OwnedBy(p)) = router.owned[p]
  <2>1. PICK I : I = AliveOwnedBy(router, p) OBVIOUS
  <2>2. PICK f : f = [i \in DOMAIN router.eps |->
                        IF i \in I THEN router.eps[i].queued_bytes ELSE 0]
    OBVIOUS
  <2>3. f = [i \in DOMAIN router.eps |->
               IF router.eps[i].alive /\ router.eps[i].owner = p
               THEN router.eps[i].queued_bytes ELSE 0]
    BY <2>1, <2>2 DEF AliveOwnedBy
  <2>4. Abstract!BytesIn(I) = SumSeq(f) BY <2>2, AbstractBytesIn
  <2>5. QED BY <1>1, <2>1, <2>3, <2>4, AbstractOwned DEF OwnerQueuedBytes
<1>4. QED BY <1>2, <1>3

\* The budgets of send have room exactly when the contents leave room.
LEMMA AbstractFits ==
    ASSUME Sound(router), NEW id, NEW len \in Nat
    PROVE  Abstract!Fits(id, len) <=>
             ~ \/ router.total + len > MaxQueuedBytesTotal
               \/ /\ OwnerOf(router, id) # None
                  /\ router.owned[OwnerOf(router, id)] + len > MaxQueuedBytesPerOwner
<1>1. router \in RouterState BY DEF Sound
<1>2. router.total \in Nat /\ \A p \in Pid : router.owned[p] \in Nat BY <1>1, RouterFields
<1>3. PICK b : b = Boxes(router) OBVIOUS
<1>4. /\ DOMAIN b = DOMAIN router.eps
      /\ \A i \in DOMAIN b : b[i].owner = router.eps[i].owner
                             /\ router.eps[i].owner \in Pid \cup {None}
  <2>1. \A i \in DOMAIN router.eps : router.eps[i].owner \in Pid \cup {None}
    BY <1>1, RouterFields, EndpointFields
  <2>2. QED BY <1>1, <1>3, <2>1, BoxFacts
<1>5. Abstract!Fits(id, len) <=>
        /\ Abstract!BytesIn(DOMAIN b) + len <= MaxQueuedBytesTotal
        /\ id \in DOMAIN b /\ b[id].owner \in Pid =>
             Abstract!BytesIn(Abstract!OwnedBy(b[id].owner)) + len <= MaxQueuedBytesPerOwner
  BY <1>3 DEF Abstract!Fits, Boxes, BoxOf
<1>6. Abstract!Fits(id, len) <=>
        /\ router.total + len <= MaxQueuedBytesTotal
        /\ id \in DOMAIN b /\ b[id].owner \in Pid =>
             router.owned[b[id].owner] + len <= MaxQueuedBytesPerOwner
  BY <1>4, <1>5, AbstractTotals
<1>7. router.total + len <= MaxQueuedBytesTotal <=> ~(router.total + len > MaxQueuedBytesTotal)
  BY <1>2, RouterAssumption
<1>8. \A p \in Pid : router.owned[p] + len <= MaxQueuedBytesPerOwner
                       <=> ~(router.owned[p] + len > MaxQueuedBytesPerOwner)
  BY <1>2, RouterAssumption
<1>9. CASE id \in DOMAIN b
  <2>1. OwnerOf(router, id) = b[id].owner BY <1>4, <1>9 DEF OwnerOf
  <2>2. b[id].owner \in Pid <=> b[id].owner # None BY <1>4, <1>9, RouterAssumption
  <2>3. QED BY <1>6, <1>7, <1>8, <1>9, <2>1, <2>2
<1>10. CASE id \notin DOMAIN b
  <2>1. OwnerOf(router, id) = None BY <1>4, <1>10 DEF OwnerOf
  <2>2. QED BY <1>6, <1>7, <1>10, <2>1
<1>11. QED BY <1>9, <1>10

\* An endpoint whose queue has a place has the bytes for any message: the
\* byte limit of an endpoint never refuses what its depth admits.
LEMMA PlaceMeansBytes ==
    ASSUME Sound(router), Limits(router), NEW i \in DOMAIN router.eps, NEW m \in Message,
           Len(router.eps[i].queue) < router.eps[i].depth
    PROVE  /\ router.eps[i].queued_bytes + m.len <= router.eps[i].max_queued_bytes
           /\ router.eps[i].queued_bytes + m.len <= router.eps[i].depth * MAX_FRAME_BYTES
<1>1. PICK q \in Seq(Message) : q = router.eps[i].queue BY RouterFields, EndpointFields DEF Sound
<1>2. PICK d \in Nat : d = router.eps[i].depth BY RouterFields, EndpointFields DEF Sound
<1>3. PICK s \in Seq(Nat) : s = Lengths(q) /\ Len(s) = Len(q) BY LengthsType
<1>4. PICK M \in Nat : M = MAX_FRAME_BYTES BY RouterAssumption
<1>5. \A k \in 1..Len(s) : s[k] <= M
  <2>1. ASSUME NEW k \in 1..Len(s) PROVE s[k] <= M
    <3>1. k \in DOMAIN q BY <1>3
    <3>2. q[k] \in Message BY <3>1
    <3>3. s[k] = q[k].len BY <1>3, <3>1 DEF Lengths
    <3>4. QED BY <1>4, <3>2, <3>3, RouterAssumption
  <2>2. QED BY <2>1
<1>6. SumSeq(s) <= Len(s) * M BY <1>5, SumSeqBounded
<1>7. PICK n \in Nat : n = Len(q) OBVIOUS
<1>8. n < d BY <1>1, <1>2, <1>7
<1>9. PICK b \in Nat : b = SumSeq(s) BY SumSeqType
<1>10. b <= n * M BY <1>3, <1>6, <1>7, <1>9
<1>11. m.len \in Nat /\ m.len <= M BY <1>4, RouterAssumption
<1>12. PICK k \in Nat : d = (n + 1) + k
  <2>1. d - (n + 1) \in Nat /\ d = (n + 1) + (d - (n + 1)) BY <1>8
  <2>2. QED BY <2>1
<1>13. d * M = n * M + M + k * M BY <1>12
<1>14. n * M \in Nat /\ k * M \in Nat OBVIOUS
<1>15. b + m.len <= d * M BY <1>10, <1>11, <1>13, <1>14
<1>16. router.eps[i].queued_bytes = b BY <1>1, <1>3, <1>9 DEF Sound, AccountingOf
<1>17. router.eps[i].max_queued_bytes = d * M BY <1>2, <1>4 DEF Limits
<1>18. QED BY <1>2, <1>4, <1>15, <1>16, <1>17

\* What send returns is what the contents of the mailboxes say.
LEMMA SendResult ==
    ASSUME Sound(router), Limits(router), NEW id, NEW m \in Message
    PROVE  \/ SendErr(router, id, m) = "NoSpace" /\ ~Abstract!Fits(id, m.len)
           \/ /\ SendErr(router, id, m) = "NoSuchEndpoint"
              /\ ~EndpointAlive(router, id) /\ Abstract!Fits(id, m.len)
           \/ /\ SendErr(router, id, m) = "QueueFull" /\ Abstract!Fits(id, m.len)
              /\ EndpointAlive(router, id)
              /\ Len(router.eps[id].queue) = router.eps[id].depth
           \/ /\ SendErr(router, id, m) = "Ok" /\ Abstract!Fits(id, m.len)
              /\ EndpointAlive(router, id)
              /\ Len(router.eps[id].queue) < router.eps[id].depth
<1>1. m.len \in Nat BY RouterAssumption
<1>2. CASE ~Abstract!Fits(id, m.len)
  <2>1. SendErr(router, id, m) = "NoSpace" BY <1>1, <1>2, AbstractFits DEF SendErr
  <2>2. QED BY <1>2, <2>1
<1>3. CASE Abstract!Fits(id, m.len)
  <2>1. SendErr(router, id, m) = IF id \in DOMAIN router.eps THEN PushErr(router.eps[id], m)
                                                             ELSE "NoSuchEndpoint"
    BY <1>1, <1>3, AbstractFits DEF SendErr
  <2>2. CASE ~EndpointAlive(router, id)
    BY <1>3, <2>1, <2>2 DEF EndpointAlive, PushErr
  <2>3. CASE EndpointAlive(router, id)
    <3>1. id \in DOMAIN router.eps /\ router.eps[id].alive BY <2>3 DEF EndpointAlive
    <3>2. PICK n \in Nat : n = Len(router.eps[id].queue)
      <4>1. PICK q \in Seq(Message) : q = router.eps[id].queue
        BY <3>1, RouterFields, EndpointFields DEF Sound
      <4>2. Len(q) \in Nat OBVIOUS
      <4>3. QED BY <4>1, <4>2
    <3>3. PICK d \in Nat : d = router.eps[id].depth
      BY <3>1, RouterFields, EndpointFields DEF Sound
    <3>4. n <= d BY <3>1, <3>2, <3>3 DEF Sound, BudgetsOf
    <3>5. CASE n = d
      <4>1. PushErr(router.eps[id], m) = "QueueFull" BY <3>1, <3>2, <3>3, <3>5 DEF PushErr
      <4>2. QED BY <1>3, <2>1, <2>3, <3>1, <3>2, <3>3, <3>5, <4>1
    <3>6. CASE n < d
      <4>1. router.eps[id].queued_bytes + m.len <= router.eps[id].max_queued_bytes
        BY <3>1, <3>2, <3>3, <3>6, PlaceMeansBytes
      <4>2. router.eps[id].queued_bytes \in Nat /\ router.eps[id].max_queued_bytes \in Nat
        BY <3>1, RouterFields, EndpointFields DEF Sound
      <4>3. ~(router.eps[id].queued_bytes + m.len > router.eps[id].max_queued_bytes)
        BY <1>1, <4>1, <4>2
      <4>4. ~(Len(router.eps[id].queue) >= router.eps[id].depth) BY <3>2, <3>3, <3>6
      <4>5. PushErr(router.eps[id], m) = "Ok" BY <3>1, <4>3, <4>4 DEF PushErr
      <4>6. QED BY <1>3, <2>1, <2>3, <3>1, <3>2, <3>3, <3>6, <4>5
    <3>7. QED BY <3>4, <3>5, <3>6
  <2>4. QED BY <2>2, <2>3
<1>4. QED BY <1>2, <1>3

\* A router that changed one endpoint changed one mailbox.
LEMMA OneBox ==
    ASSUME NEW r \in RouterState, NEW s \in RouterState, NEW id \in DOMAIN r.eps,
           OnlyAt(r, s, id), NEW q, s.eps[id].queue = q,
           SameIdentity(s.eps[id], r.eps[id]), s.eps[id].alive = r.eps[id].alive
    PROVE  Boxes(s) = [Boxes(r) EXCEPT ![id].msgs = q]
<1>1. PICK b : b = Boxes(r) OBVIOUS
<1>2. PICK c : c = Boxes(s) OBVIOUS
<1>3. DOMAIN b = DOMAIN r.eps /\ DOMAIN c = DOMAIN b
  BY <1>1, <1>2, BoxFacts DEF OnlyAt
<1>4. \A j \in DOMAIN b : j # id => c[j] = b[j] BY <1>1, <1>2, <1>3, BoxFacts DEF OnlyAt
<1>5. c[id] = [b[id] EXCEPT !.msgs = q]
  <2>1. c[id] = BoxOf(s.eps[id]) /\ b[id] = BoxOf(r.eps[id])
    BY <1>1, <1>2, BoxFacts DEF OnlyAt
  <2>2. QED BY <2>1 DEF BoxOf, SameIdentity
<1>6. c = [i \in DOMAIN r.eps |-> BoxOf(s.eps[i])] BY <1>2 DEF Boxes, OnlyAt
<1>7. b = [i \in DOMAIN r.eps |-> BoxOf(r.eps[i])] BY <1>1 DEF Boxes
<1>8. c = [b EXCEPT ![id].msgs = q] BY <1>3, <1>4, <1>5, <1>6, <1>7
<1>9. QED BY <1>1, <1>2, <1>8

\* send is Accept or Reject.
LEMMA SendMaps ==
    ASSUME Sound(router), Limits(router), NEW id \in EndpointId, NEW m \in Message,
           DoSend(id, m)
    PROVE  Abstract!Next
<1>1. router \in RouterState /\ router' = Send(router, id, m) BY DEF Sound, DoSend
<1>2. router' \in RouterState BY <1>1, SendType
<1>3. ret' = Abstract!Result(SendErr(router, id, m))
  BY DEF DoSend, Result, Abstract!Result
<1>4. PICK b : b = Boxes(router) OBVIOUS
<1>5. PICK c : c = Boxes(router') OBVIOUS
<1>6. CASE SendErr(router, id, m) = "Ok"
  <2>1. /\ Abstract!Fits(id, m.len) /\ EndpointAlive(router, id)
        /\ Len(router.eps[id].queue) < router.eps[id].depth
    BY <1>6, SendResult
  <2>2. id \in DOMAIN router.eps BY <2>1 DEF EndpointAlive
  <2>3. PICK e \in Endpoint : e = router.eps[id] BY <1>1, <2>2, RouterFields
  <2>4. OnlyAt(router, router', id) /\ router'.eps[id] = Push(e, m)
    BY <1>1, <1>6, <2>3, SendEffect
  <2>5. /\ Push(e, m).queue = Append(e.queue, m) /\ Push(e, m).alive = e.alive
        /\ SameIdentity(Push(e, m), e)
    BY PushFields
  <2>6. c = [b EXCEPT ![id].msgs = Append(e.queue, m)]
    BY <1>1, <1>2, <1>4, <1>5, <2>2, <2>3, <2>4, <2>5, OneBox
  <2>7. b[id].msgs = e.queue /\ b[id].depth = e.depth BY <1>1, <1>4, <2>2, <2>3, BoxFacts
  <2>8. Abstract!Bytes(b[id].msgs) + m.len <= b[id].depth * MAX_FRAME_BYTES
    <3>1. e.queued_bytes + m.len <= e.depth * MAX_FRAME_BYTES
      BY <2>1, <2>2, <2>3, PlaceMeansBytes
    <3>2. e.queued_bytes = Abstract!Bytes(e.queue)
      BY <2>2, <2>3, AbstractBytes DEF Sound, AccountingOf
    <3>3. QED BY <2>7, <3>1, <3>2
  <2>9. c = [b EXCEPT ![id].msgs = Append(@, m)] BY <2>6, <2>7
  <2>10. Len(b[id].msgs) < b[id].depth BY <2>1, <2>3, <2>7
  <2>11. Abstract!Alive(id) BY <2>1, AbstractAlive
  <2>12. ret' = Abstract!Result("Ok") BY <1>3, <1>6
  <2>13. Abstract!Accept(id, m)
    BY <1>4, <1>5, <2>1, <2>8, <2>9, <2>10, <2>11, <2>12 DEF Abstract!Accept, Boxes, BoxOf
  <2>14. QED BY <2>13 DEF Abstract!Next, EndpointId
<1>7. CASE SendErr(router, id, m) # "Ok"
  <2>1. router' = router BY <1>1, <1>7 DEF Send
  <2>2. c = b BY <1>4, <1>5, <2>1
  <2>3. \/ ret' = Abstract!Result("NoSpace") /\ ~Abstract!Fits(id, m.len)
        \/ /\ ret' = Abstract!Result("NoSuchEndpoint")
           /\ ~Abstract!Alive(id) /\ Abstract!Fits(id, m.len)
        \/ /\ ret' = Abstract!Result("QueueFull") /\ Abstract!Fits(id, m.len)
           /\ Abstract!Alive(id) /\ Len(b[id].msgs) = b[id].depth
    <3>1. EndpointAlive(router, id) =>
            b[id].msgs = router.eps[id].queue /\ b[id].depth = router.eps[id].depth
      BY <1>1, <1>4, BoxFacts DEF EndpointAlive
    <3>2. QED BY <1>3, <1>7, <3>1, SendResult, AbstractAlive
  <2>4. Abstract!Reject(id, m) BY <1>4, <1>5, <2>2, <2>3 DEF Abstract!Reject, Boxes, BoxOf
  <2>5. QED BY <2>4 DEF Abstract!Next, EndpointId
<1>8. QED BY <1>6, <1>7

\* recv is Deliver or NothingToDeliver.
LEMMA RecvMaps ==
    ASSUME Sound(router), NEW id \in EndpointId, DoRecv(id)
    PROVE  Abstract!Next
<1>1. router \in RouterState /\ router' = Recv(router, id) BY DEF Sound, DoRecv
<1>2. PICK b : b = Boxes(router) OBVIOUS
<1>3. PICK c : c = Boxes(router') OBVIOUS
<1>4. CASE RecvErr(router, id) = "Ok"
  <2>1. /\ id \in DOMAIN router.eps /\ router.eps[id].alive /\ router.eps[id].queue # <<>>
        /\ OnlyAt(router, router', id) /\ router'.eps[id] = Pop(router.eps[id])
    BY <1>1, <1>4, RecvEffect
  <2>2. PICK e \in Endpoint : e = router.eps[id] BY <1>1, <2>1, RouterFields
  <2>3. /\ Pop(e).queue = Tail(e.queue) /\ Pop(e).alive = e.alive /\ SameIdentity(Pop(e), e)
    BY PopFields
  <2>4. router' \in RouterState BY <1>1, <1>4, RecvType
  <2>5. c = [b EXCEPT ![id].msgs = Tail(e.queue)]
    <3>1. PICK q : q = Tail(e.queue) OBVIOUS
    <3>2. PICK s \in RouterState : s = router' BY <2>4
    <3>3. /\ s.eps[id].queue = q /\ s.eps[id].alive = router.eps[id].alive
          /\ SameIdentity(s.eps[id], router.eps[id]) /\ OnlyAt(router, s, id)
      BY <2>1, <2>2, <2>3, <3>1, <3>2
    <3>4. router \in RouterState /\ id \in DOMAIN router.eps BY <1>1, <2>1
    <3>5. Boxes(s) = [Boxes(router) EXCEPT ![id].msgs = q] BY <3>3, <3>4, OneBox
    <3>6. QED BY <1>2, <1>3, <3>1, <3>2, <3>5
  <2>6. b[id].msgs = e.queue BY <1>1, <1>2, <2>1, <2>2, BoxFacts
  <2>7. c = [b EXCEPT ![id].msgs = Tail(@)] BY <2>5, <2>6
  <2>8. ret' = [res |-> "Ok", msg |-> Head(b[id].msgs)]
    BY <1>4, <2>2, <2>6 DEF DoRecv, Received
  <2>9. Abstract!Alive(id) BY <2>1, AbstractAlive DEF EndpointAlive
  <2>10. b[id].msgs # <<>> BY <2>1, <2>2, <2>6
  <2>11. Abstract!Deliver(id)
    BY <1>2, <1>3, <2>7, <2>8, <2>9, <2>10 DEF Abstract!Deliver, Boxes, BoxOf
  <2>12. QED BY <2>11 DEF Abstract!Next, EndpointId
<1>5. CASE RecvErr(router, id) # "Ok"
  <2>1. router' = router BY <1>1, <1>5 DEF Recv
  <2>2. ret' = Abstract!Result(RecvErr(router, id))
    BY <1>5 DEF DoRecv, Result, Abstract!Result
  <2>3. \/ RecvErr(router, id) = "NoSuchEndpoint" /\ ~EndpointAlive(router, id)
        \/ /\ RecvErr(router, id) = "QueueEmpty" /\ EndpointAlive(router, id)
           /\ router.eps[id].queue = <<>>
    BY <1>5 DEF RecvErr
  <2>4. EndpointAlive(router, id) => b[id].msgs = router.eps[id].queue
    BY <1>1, <1>2, BoxFacts DEF EndpointAlive
  <2>5. \/ ~Abstract!Alive(id) /\ ret' = Abstract!Result("NoSuchEndpoint")
        \/ Abstract!Alive(id) /\ b[id].msgs = <<>> /\ ret' = Abstract!Result("QueueEmpty")
    BY <2>2, <2>3, <2>4, AbstractAlive
  <2>6. c = b BY <1>2, <1>3, <2>1
  <2>7. Abstract!NothingToDeliver(id)
    BY <1>2, <1>3, <2>5, <2>6 DEF Abstract!NothingToDeliver, Boxes, BoxOf
  <2>8. QED BY <2>7 DEF Abstract!Next, EndpointId
<1>6. QED BY <1>4, <1>5

\* A receive that puts the message back is Refuse: the message fits
\* (RequeueFits), is first again, and no counter has moved.
LEMMA RequeueMaps ==
    ASSUME Sound(router), NEW id \in EndpointId, DoRecvRequeue(id)
    PROVE  Abstract!Next
<1>1. router \in RouterState /\ RecvErr(router, id) = "Ok" BY DEF Sound, DoRecvRequeue
<1>2. PICK s : s = Recv(router, id) OBVIOUS
<1>3. PICK m : m = Received(router, id) OBVIOUS
<1>4. s \in RouterState /\ m \in Message BY <1>1, <1>2, <1>3, RecvType
<1>5. SendErr(s, id, m) = "Ok" BY <1>1, <1>2, <1>3, <1>4, OnlyWaitersSame, RequeueFits
<1>6. router' = RequeueFront(s, id, m) BY <1>2, <1>3 DEF DoRecvRequeue
<1>7. /\ id \in DOMAIN router.eps /\ router.eps[id].alive /\ router.eps[id].queue # <<>>
      /\ OnlyAt(router, s, id) /\ s.eps[id] = Pop(router.eps[id])
  BY <1>1, <1>2, RecvEffect
<1>8. OnlyAt(s, router', id) /\ router'.eps[id] = PushFront(s.eps[id], m)
  BY <1>4, <1>5, <1>6, SendEffect
<1>9. PICK e \in Endpoint : e = router.eps[id] BY <1>1, <1>7, RouterFields
<1>10. PICK f \in Endpoint : f = s.eps[id] BY <1>4, <1>7, RouterFields DEF OnlyAt
<1>11. f.queue = Tail(e.queue) /\ f.alive = e.alive /\ SameIdentity(f, e)
  BY <1>7, <1>9, <1>10, PopFields
<1>12. /\ PushFront(f, m).queue = <<m>> \o f.queue /\ PushFront(f, m).alive = f.alive
       /\ SameIdentity(PushFront(f, m), f)
  BY PushFields
<1>13. <<m>> \o Tail(e.queue) = e.queue
  <2>1. PICK q \in Seq(Message) : q = e.queue BY EndpointFields
  <2>2. m = Head(q) /\ q # <<>> BY <1>3, <1>7, <1>9, <2>1 DEF Received
  <2>3. <<Head(q)>> \o Tail(q) = q BY <2>2
  <2>4. QED BY <2>1, <2>2, <2>3
<1>14. BoxOf(router'.eps[id]) = BoxOf(e)
  BY <1>8, <1>10, <1>11, <1>12, <1>13 DEF BoxOf, SameIdentity
<1>15. /\ DOMAIN router'.eps = DOMAIN router.eps
       /\ \A j \in DOMAIN router.eps : BoxOf(router'.eps[j]) = BoxOf(router.eps[j])
  BY <1>7, <1>8, <1>9, <1>14 DEF OnlyAt
<1>16. Boxes(router') = Boxes(router) BY <1>15 DEF Boxes
<1>17. PICK b : b = Boxes(router) OBVIOUS
<1>18. b[id].msgs # <<>> BY <1>1, <1>7, <1>17, BoxFacts
<1>19. Abstract!Alive(id) BY <1>7, AbstractAlive DEF EndpointAlive
<1>20. ret' = Abstract!Result("NoSpace") BY DEF DoRecvRequeue, Result, Abstract!Result
<1>21. Abstract!Refuse(id)
  BY <1>16, <1>17, <1>18, <1>19, <1>20 DEF Abstract!Refuse, Boxes, BoxOf
<1>22. QED BY <1>21 DEF Abstract!Next, EndpointId

\* create_endpoint is Create with the clamped depth.
LEMMA CreateMaps ==
    ASSUME Sound(router), NEW d \in Depth, NEW o \in Pid \cup {None}, DoCreate(d, o)
    PROVE  Abstract!Next
<1>1. router \in RouterState /\ d \in Nat BY CallerAssumption DEF Sound
<1>2. PICK k \in 1..MAX_DEPTH : k = ClampDepth(d) BY <1>1, RouterAssumption DEF ClampDepth
<1>3. PICK b : b = Boxes(router) OBVIOUS
<1>4. PICK c : c = Boxes(router') OBVIOUS
<1>5. PICK n \in Nat : n = Len(router.eps) /\ n = Len(b)
  <2>1. Len(router.eps) \in Nat BY <1>1, RouterFields
  <2>2. QED BY <1>1, <1>3, <2>1, BoxFacts
<1>6. n <= MAX_ENDPOINTS BY <1>5 DEF Sound, BudgetsOf
<1>7. o \in Pid <=> o # None BY RouterAssumption
<1>8. o \in Pid => /\ Cardinality(AliveOwnedBy(router, o)) \in Nat
                   /\ Cardinality(AliveOwnedBy(router, o)) <= MAX_ENDPOINTS_PER_OWNER
  BY <1>1, OwnedFinite DEF Sound, BudgetsOf
<1>9. ret' = Abstract!Result(CreateErr(router, o)) BY DEF DoCreate, Result, Abstract!Result
<1>10. CASE CreateErr(router, o) = "Ok"
  <2>1. /\ ~(Len(router.eps) >= MAX_ENDPOINTS)
        /\ o # None => ~(Cardinality(AliveOwnedBy(router, o)) >= MAX_ENDPOINTS_PER_OWNER)
    BY <1>10 DEF CreateErr
  <2>2. n < MAX_ENDPOINTS BY <1>5, <2>1, RouterAssumption
  <2>3. o \in Pid => Abstract!Cardinality(Abstract!OwnedBy(o)) < MAX_ENDPOINTS_PER_OWNER
    BY <1>7, <1>8, <2>1, AbstractOwned, RouterAssumption
  <2>4. PICK ep : ep = WithDepth(k, o) OBVIOUS
  <2>5. router'.eps = Append(router.eps, ep)
    BY <1>1, <1>2, <1>10, <2>4 DEF DoCreate, CreateEndpoint, RouterState
  <2>6. BoxOf(ep) = Abstract!Box(k, o) BY <2>4 DEF BoxOf, WithDepth, Abstract!Box
  <2>7. c = Append(b, Abstract!Box(k, o))
    <3>1. PICK x : x = Abstract!Box(k, o) OBVIOUS
    <3>2. DOMAIN router.eps = 1..n BY <1>1, <1>5, RouterFields
    <3>3. /\ DOMAIN router'.eps = 1..(n + 1) /\ router'.eps[n + 1] = ep
          /\ \A i \in 1..n : router'.eps[i] = router.eps[i]
      <4>1. PICK e \in Seq(Endpoint) : e = router.eps /\ Len(e) = n BY <1>1, <1>5, RouterFields
      <4>2. PICK f : f = Append(e, ep) OBVIOUS
      <4>3. DOMAIN f = 1..(n + 1) /\ f[n + 1] = ep /\ \A i \in 1..n : f[i] = e[i]
        BY <4>1, <4>2
      <4>4. QED BY <2>5, <4>1, <4>2, <4>3
    <3>4. b = [i \in 1..n |-> BoxOf(router.eps[i])] BY <1>3, <3>2 DEF Boxes
    <3>5. c = [i \in 1..(n + 1) |-> IF i = n + 1 THEN x ELSE b[i]]
      BY <1>4, <2>6, <3>1, <3>3, <3>4 DEF Boxes
    <3>6. Append(b, x) = [i \in 1..(n + 1) |-> IF i = n + 1 THEN x ELSE b[i]] BY <1>5, <3>4
    <3>7. QED BY <3>1, <3>5, <3>6
  <2>8. ret' = Abstract!Result("Ok") BY <1>9, <1>10
  <2>9. /\ Len(Boxes(router)) < MAX_ENDPOINTS
        /\ Boxes(router') = Append(Boxes(router), Abstract!Box(k, o))
    BY <1>3, <1>4, <1>5, <2>2, <2>7
  <2>10. Abstract!Create(k, o) BY <2>3, <2>8, <2>9 DEF Abstract!Create, Boxes, BoxOf
  <2>11. QED BY <2>10 DEF Abstract!Next
<1>11. CASE CreateErr(router, o) # "Ok"
  <2>1. CreateErr(router, o) = "NoSpace" BY <1>11 DEF CreateErr
  <2>2. \/ Len(router.eps) >= MAX_ENDPOINTS
        \/ o # None /\ Cardinality(AliveOwnedBy(router, o)) >= MAX_ENDPOINTS_PER_OWNER
    BY <1>11 DEF CreateErr
  <2>3. \/ Len(b) = MAX_ENDPOINTS
        \/ o \in Pid /\ Abstract!Cardinality(Abstract!OwnedBy(o)) = MAX_ENDPOINTS_PER_OWNER
    BY <1>5, <1>6, <1>7, <1>8, <2>2, AbstractOwned, RouterAssumption
  <2>4. router' = router /\ ret' = Abstract!Result("NoSpace")
    BY <1>9, <1>11, <2>1 DEF DoCreate, CreateEndpoint
  <2>5. Abstract!Create(k, o)
    BY <1>3, <2>3, <2>4 DEF Abstract!Create, Boxes, BoxOf
  <2>6. QED BY <2>5 DEF Abstract!Next
<1>12. QED BY <1>10, <1>11

\* Closing a set of endpoints closes their mailboxes.
LEMMA CloseMaps ==
    ASSUME router \in RouterState, NEW I,
           router'.eps = [i \in DOMAIN router.eps |->
                            IF i \in I THEN Closed(router.eps[i]) ELSE router.eps[i]],
           ret' = Abstract!Result("Ok")
    PROVE  Abstract!Close(I)
<1>1. PICK b : b = Boxes(router) OBVIOUS
<1>2. PICK c : c = Boxes(router') OBVIOUS
<1>3. ASSUME NEW i \in DOMAIN router.eps
      PROVE  BoxOf(Closed(router.eps[i])) = Abstract!Shut(BoxOf(router.eps[i]))
  <2>1. PICK e \in Endpoint : e = router.eps[i] BY RouterFields
  <2>2. PICK d : d = Closed(e) OBVIOUS
  <2>3. d.queue = <<>> /\ d.alive = FALSE /\ d.owner = e.owner /\ d.depth = e.depth
    BY <2>2, ClosedFields DEF SameIdentity
  <2>4. QED BY <2>1, <2>2, <2>3 DEF BoxOf, Abstract!Shut
<1>4. c = [i \in DOMAIN b |-> IF i \in I THEN Abstract!Shut(b[i]) ELSE b[i]]
  BY <1>1, <1>2, <1>3 DEF Boxes
<1>5. QED BY <1>1, <1>2, <1>4 DEF Abstract!Close, Boxes, BoxOf

\* The router's steps are steps of the mailboxes or change none of them.
LEMMA StepMaps ==
    ASSUME Sound(router), Limits(router), [Next]_vars
    PROVE  [Abstract!Next]_(Abstract!vars)
<1>0. router \in RouterState BY DEF Sound
<1>1. ASSUME OnlyWaiters(router, router'), ret' = ret PROVE UNCHANGED Abstract!vars
  <2>1. /\ DOMAIN router'.eps = DOMAIN router.eps
        /\ \A i \in DOMAIN router.eps : BoxOf(router'.eps[i]) = BoxOf(router.eps[i])
    BY <1>1 DEF OnlyWaiters, SameIdentity, SameContents, BoxOf
  <2>2. Boxes(router') = Boxes(router) BY <2>1 DEF Boxes
  <2>3. QED BY <1>1, <2>2 DEF Abstract!vars, Boxes, BoxOf
<1>2. ASSUME NEW id \in EndpointId, DoClose(id) PROVE Abstract!Next
  <2>1. CASE EndpointAlive(router, id)
    <3>1. id \in DOMAIN router.eps /\ Abstract!Alive(id)
      BY <2>1, AbstractAlive DEF EndpointAlive
    <3>2. router'.eps = [router.eps EXCEPT ![id] = Closed(@)]
      BY <1>2, <2>1 DEF DoClose, CloseEndpoint, RecomputeAccounting
    <3>3. PICK I : I = {id} OBVIOUS
    <3>4. router'.eps = [i \in DOMAIN router.eps |->
                           IF i \in I THEN Closed(router.eps[i]) ELSE router.eps[i]]
      BY <1>0, <3>1, <3>2, <3>3, RouterFields
    <3>5. ret' = Abstract!Result("Ok") BY <1>2, <2>1 DEF DoClose, Result, Abstract!Result
    <3>6. Abstract!Close(I) BY <1>0, <3>4, <3>5, CloseMaps
    <3>7. Abstract!CloseOne(id) BY <3>1, <3>3, <3>6 DEF Abstract!CloseOne
    <3>8. QED BY <3>7 DEF Abstract!Next, EndpointId
  <2>2. CASE ~EndpointAlive(router, id)
    <3>1. router' = router BY <1>2, <2>2 DEF DoClose, CloseEndpoint
    <3>2. ret' = Abstract!Result("NoSuchEndpoint")
      BY <1>2, <2>2 DEF DoClose, Result, Abstract!Result
    <3>3. ~Abstract!Alive(id) BY <2>2, AbstractAlive
    <3>4. Abstract!CloseOne(id) BY <3>1, <3>2, <3>3 DEF Abstract!CloseOne
    <3>5. QED BY <3>4 DEF Abstract!Next, EndpointId
  <2>3. QED BY <2>1, <2>2
<1>3. ASSUME NEW p \in Pid, DoCloseOwner(p) PROVE Abstract!Next
  <2>1. PICK I : I = AliveOwnedBy(router, p) OBVIOUS
  <2>2. router'.eps = [i \in DOMAIN router.eps |->
                         IF i \in I THEN Closed(router.eps[i]) ELSE router.eps[i]]
    BY <1>3, <2>1 DEF DoCloseOwner, CloseEndpointsForOwner, RecomputeAccounting
  <2>3. ret' = Abstract!Result("Ok") BY <1>3 DEF DoCloseOwner, Result, Abstract!Result
  <2>4. Abstract!Close(I) BY <1>0, <2>2, <2>3, CloseMaps
  <2>5. I = Abstract!OwnedBy(p) BY <2>1, AbstractOwned
  <2>6. Abstract!Close(Abstract!OwnedBy(p)) BY <2>4, <2>5 DEF Abstract!Close
  <2>7. QED BY <2>6 DEF Abstract!Next
<1>4. CASE UNCHANGED vars BY <1>4 DEF vars, Abstract!vars
<1>5. QED
  BY <1>0, <1>1, <1>2, <1>3, <1>4, SendMaps, RecvMaps, RequeueMaps, CreateMaps, WaiterSteps
     DEF Next

\* Counters, waiters and requeues are invisible to the router's callers: for
\* any tasks, messages and limits the router behaves as bounded FIFO
\* mailboxes, and what send, recv, create and close return depends on the
\* contents of the mailboxes only.
THEOREM RouterImplementsMailboxes == Spec => ImplementsMailboxes
<1>1. Init => Abstract!Init
  <2> SUFFICES ASSUME Init PROVE Abstract!Init OBVIOUS
  <2>1. PICK b : b = Boxes(router) OBVIOUS
  <2>2. BoxOf(WithDepth(BOOT_DEPTH, None)) = Abstract!Box(BOOT_DEPTH, None)
    BY DEF BoxOf, WithDepth, Abstract!Box
  <2>3. b = [i \in 1..BootEndpoints |-> Abstract!Box(BOOT_DEPTH, None)]
    BY <2>1, <2>2 DEF Init, NewRouter, Boxes
  <2>4. ret = Abstract!Result("Ok") BY DEF Init, Result, Abstract!Result
  <2>5. QED BY <2>1, <2>3, <2>4 DEF Abstract!Init, Boxes, BoxOf
<1>2. Init => Limits(router) BY DEF Init, NewRouter, Limits, WithDepth
<1>3. Sound(router) /\ Limits(router) /\ [Next]_vars => Limits(router)'
  BY LimitsStep DEF Sound
<1>4. Spec => []Limits(router) BY <1>2, <1>3, AlwaysSound, PTL DEF Spec
<1>5. Sound(router) /\ Limits(router) /\ [Next]_vars => [Abstract!Next]_(Abstract!vars)
  BY StepMaps
<1>6. QED BY <1>1, <1>4, <1>5, AlwaysSound, PTL DEF Spec, ImplementsMailboxes, Abstract!Spec
=============================================================================
