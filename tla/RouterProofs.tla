---------------------------- MODULE RouterProofs ----------------------------
(***************************************************************************)
(* What the router's operations do to a router value, for every set of     *)
(* tasks, messages and limits: they keep its type, its byte counters       *)
(* exact, its budgets, its waiter queues free of duplicates and its        *)
(* endpoint ids stable.  One lemma per operation and part of Sound, which  *)
(* RouterSafety and IpcProofs show to be invariant.                        *)
(***************************************************************************)
EXTENDS Router, SeqOpsProofs, SequenceTheorems, FiniteSetTheorems

(* Type correctness of the operators on endpoints *)

\* A new endpoint has the type of one.
LEMMA WithDepthType ==
    ASSUME NEW d \in 1..MAX_DEPTH, NEW o \in Pid \cup {None}
    PROVE  WithDepth(d, o) \in Endpoint
<1>1. d * MAX_FRAME_BYTES \in Nat BY RouterAssumption
<1>2. QED BY <1>1 DEF WithDepth, Endpoint

\* An endpoint stays one when its queue and its byte counter change.
LEMMA QueueFields ==
    ASSUME NEW ep \in Endpoint, NEW q \in Seq(Message), NEW n \in Nat
    PROVE  [ep EXCEPT !.queue = q, !.queued_bytes = n] \in Endpoint
BY DEF Endpoint

\* An endpoint stays one when its waiter queues change.
LEMMA WaiterFields ==
    ASSUME NEW ep \in Endpoint, NEW ws \in Seq(Pid), NEW xs \in Seq(Pid)
    PROVE  /\ [ep EXCEPT !.recv_waiters = ws] \in Endpoint
           /\ [ep EXCEPT !.send_waiters = xs] \in Endpoint
           /\ [ep EXCEPT !.recv_waiters = ws, !.send_waiters = xs] \in Endpoint
BY DEF Endpoint

\* Endpoint::close leaves an endpoint.
LEMMA ClosedType ==
    ASSUME NEW ep \in Endpoint PROVE Closed(ep) \in Endpoint
<1> DEFINE e1 == [ep EXCEPT !.alive = FALSE]
           e2 == [e1 EXCEPT !.queue = <<>>, !.queued_bytes = 0]
<1>1. e1 \in Endpoint BY DEF Endpoint
<1> HIDE DEF e1
<1>2. <<>> \in Seq(Message) /\ 0 \in Nat /\ <<>> \in Seq(Pid) OBVIOUS
<1>3. e2 \in Endpoint BY <1>1, <1>2, QueueFields
<1> HIDE DEF e2
<1>4. [e2 EXCEPT !.recv_waiters = <<>>, !.send_waiters = <<>>] \in Endpoint
  BY <1>2, <1>3, WaiterFields
<1>5. QED BY <1>4 DEF e1, e2, Closed

\* push and push_front leave an endpoint.
LEMMA PushType ==
    ASSUME NEW ep \in Endpoint, NEW m \in Message
    PROVE  Push(ep, m) \in Endpoint /\ PushFront(ep, m) \in Endpoint
<1>1. m.len \in Nat BY RouterAssumption
<1>2. ep.queue \in Seq(Message) BY DEF Endpoint
<1>3. ep.queued_bytes \in Nat BY DEF Endpoint
<1>4. ep.queued_bytes + m.len \in Nat BY <1>1, <1>3
<1>5. Push(ep, m) \in Endpoint
  <2>1. Append(ep.queue, m) \in Seq(Message) BY <1>2
  <2>2. QED BY <1>4, <2>1, QueueFields DEF Push
<1>6. PushFront(ep, m) \in Endpoint
  <2>1. <<m>> \o ep.queue \in Seq(Message) BY <1>2
  <2>2. QED BY <1>4, <2>1, QueueFields DEF PushFront
<1>7. QED BY <1>5, <1>6

\* pop of a non-empty queue leaves an endpoint.
LEMMA PopType ==
    ASSUME NEW ep \in Endpoint, ep.queue # <<>>
    PROVE  Pop(ep) \in Endpoint /\ Head(ep.queue) \in Message
<1>1. ep.queue \in Seq(Message) BY DEF Endpoint
<1>2. ep.queued_bytes \in Nat BY DEF Endpoint
<1>3. Head(ep.queue) \in Message /\ Tail(ep.queue) \in Seq(Message)
  BY <1>1
<1>4. Head(ep.queue).len \in Nat BY <1>3, RouterAssumption
<1>5. SaturatingSub(ep.queued_bytes, Head(ep.queue).len) \in Nat
  BY <1>2, <1>4 DEF SaturatingSub
<1>6. QED BY <1>3, <1>5, QueueFields DEF Pop

\* The operations on a waiter queue leave a sequence of tasks.
LEMMA WaiterOpsType ==
    ASSUME NEW ws \in Seq(Pid), NEW p \in Pid
    PROVE  /\ AddWaiter(ws, p) \in Seq(Pid)
           /\ RemoveWaiter(ws, p) \in Seq(Pid)
           /\ ws # <<>> => Tail(ws) \in Seq(Pid) /\ Head(ws) \in Pid
<1>1. AddWaiter(ws, p) \in Seq(Pid) BY DEF AddWaiter
<1>2. RemoveWaiter(ws, p) \in Seq(Pid) BY WithoutProperties DEF RemoveWaiter
<1>3. QED BY <1>1, <1>2

-----------------------------------------------------------------------------
(* Type correctness of the operators on routers *)

\* The types of the fields of a router.
LEMMA RouterFields ==
    ASSUME NEW r \in RouterState
    PROVE  /\ r.eps \in Seq(Endpoint) /\ r.total \in Nat /\ r.owned \in [Pid -> Nat]
           /\ DOMAIN r.eps = 1..Len(r.eps) /\ Len(r.eps) \in Nat
           /\ \A i \in DOMAIN r.eps : r.eps[i] \in Endpoint
<1>1. r.eps \in Seq(Endpoint) /\ r.total \in Nat /\ r.owned \in [Pid -> Nat]
  BY DEF RouterState
<1>2. QED BY <1>1

\* A router is built from its three fields.
LEMMA MakeRouter ==
    ASSUME NEW e \in Seq(Endpoint), NEW t \in Nat, NEW o \in [Pid -> Nat]
    PROVE  [eps |-> e, total |-> t, owned |-> o] \in RouterState
BY DEF RouterState

\* A router stays one when its endpoint vector changes.
LEMMA EpsField ==
    ASSUME NEW r \in RouterState, NEW e \in Seq(Endpoint)
    PROVE  [r EXCEPT !.eps = e] \in RouterState
BY DEF RouterState

\* A router stays one when one of its endpoints is replaced.
LEMMA SetEndpointType ==
    ASSUME NEW r \in RouterState, NEW id \in DOMAIN r.eps, NEW ep \in Endpoint
    PROVE  /\ SetEndpoint(r, id, ep) \in RouterState
           /\ [r.eps EXCEPT ![id] = ep] \in Seq(Endpoint)
<1>1. [r.eps EXCEPT ![id] = ep] \in Seq(Endpoint) BY RouterFields
<1>2. QED BY <1>1, EpsField DEF SetEndpoint

\* recompute_accounting builds a router whatever it found before.
LEMMA RecomputeType ==
    ASSUME NEW r, NEW e \in Seq(Endpoint)
    PROVE  RecomputeAccounting(r, e) \in RouterState
<1>1. ASSUME NEW i \in DOMAIN e PROVE e[i].queued_bytes \in Nat
  <2>1. e[i] \in Endpoint OBVIOUS
  <2>2. QED BY <2>1 DEF Endpoint
<1>2. DOMAIN e = 1..Len(e) /\ Len(e) \in Nat OBVIOUS
<1>3. QueuedBytesTotal(e) \in Nat
  <2>1. [i \in DOMAIN e |-> e[i].queued_bytes] \in Seq(Nat) BY <1>1, <1>2
  <2>2. QED BY <2>1, SumSeqType DEF QueuedBytesTotal
<1>4. ASSUME NEW p \in Pid PROVE OwnerQueuedBytes(e, p) \in Nat
  <2>1. [i \in DOMAIN e |-> IF e[i].alive /\ e[i].owner = p THEN e[i].queued_bytes
                                                            ELSE 0] \in Seq(Nat)
    BY <1>1, <1>2
  <2>2. QED BY <2>1, SumSeqType DEF OwnerQueuedBytes
<1>5. [p \in Pid |-> OwnerQueuedBytes(e, p)] \in [Pid -> Nat] BY <1>4
<1>6. QED BY <1>3, <1>5, MakeRouter DEF RecomputeAccounting

\* Charging a message to the counters leaves a router.
LEMMA ChargeType ==
    ASSUME NEW r \in RouterState, NEW id \in DOMAIN r.eps, NEW m \in Message,
           NEW ep \in Endpoint
    PROVE  Charge(r, id, m, ep) \in RouterState
<1>1. m.len \in Nat BY RouterAssumption
<1>2. [r.eps EXCEPT ![id] = ep] \in Seq(Endpoint) BY SetEndpointType
<1>3. r.total + m.len \in Nat BY <1>1, RouterFields
<1>4. \A p \in Pid : r.owned[p] \in Nat /\ r.owned[p] + m.len \in Nat
  BY <1>1, RouterFields
<1>5. [p \in Pid |-> IF p = r.eps[id].owner THEN r.owned[p] + m.len ELSE r.owned[p]]
        \in [Pid -> Nat]
  BY <1>4
<1>6. QED BY <1>2, <1>3, <1>5, MakeRouter DEF Charge

\* send and requeue_front leave a router.
LEMMA SendType ==
    ASSUME NEW r \in RouterState, NEW id, NEW m \in Message
    PROVE  /\ Send(r, id, m) \in RouterState
           /\ RequeueFront(r, id, m) \in RouterState
<1>1. SendErr(r, id, m) = "Ok" => id \in DOMAIN r.eps BY DEF SendErr
<1>2. Send(r, id, m) \in RouterState
  BY <1>1, RouterFields, PushType, ChargeType DEF Send
<1>3. RequeueFront(r, id, m) \in RouterState
  BY <1>1, RouterFields, PushType, ChargeType DEF RequeueFront
<1>4. QED BY <1>2, <1>3

\* recv leaves a router.
LEMMA RecvType ==
    ASSUME NEW r \in RouterState, NEW id
    PROVE  /\ Recv(r, id) \in RouterState
           /\ RecvErr(r, id) = "Ok" => Received(r, id) \in Message
<1>1. RecvErr(r, id) = "Ok" => id \in DOMAIN r.eps /\ r.eps[id].queue # <<>>
  BY DEF RecvErr, EndpointAlive
<1>2. ASSUME RecvErr(r, id) = "Ok"
      PROVE  Received(r, id) \in Message /\ Recv(r, id) \in RouterState
  <2>1. id \in DOMAIN r.eps /\ r.eps[id] \in Endpoint /\ r.eps[id].queue # <<>>
    BY <1>1, <1>2, RouterFields
  <2>2. Received(r, id) \in Message /\ Pop(r.eps[id]) \in Endpoint
    BY <2>1, PopType DEF Received
  <2>3. PICK l \in Nat : l = Received(r, id).len BY <2>2, RouterAssumption
  <2>4. [r.eps EXCEPT ![id] = Pop(r.eps[id])] \in Seq(Endpoint)
    BY <2>1, <2>2, SetEndpointType
  <2>5. \A n \in Nat : SaturatingSub(n, l) \in Nat BY DEF SaturatingSub
  <2>6. SaturatingSub(r.total, l) \in Nat BY <2>5, RouterFields
  <2>7. [p \in Pid |-> IF p = r.eps[id].owner THEN SaturatingSub(r.owned[p], l)
                                              ELSE r.owned[p]] \in [Pid -> Nat]
    BY <2>5, RouterFields
  <2>8. QED BY <1>2, <2>2, <2>3, <2>4, <2>6, <2>7, MakeRouter DEF Recv
<1>3. RecvErr(r, id) # "Ok" => Recv(r, id) = r BY DEF Recv
<1>4. QED BY <1>2, <1>3

\* Popping a waiter leaves a router.
LEMMA PopWaiterType ==
    ASSUME NEW r \in RouterState, NEW id
    PROVE  PopRecvWaiter(r, id) \in RouterState /\ PopSendWaiter(r, id) \in RouterState
<1>1. EndpointAlive(r, id) => id \in DOMAIN r.eps BY DEF EndpointAlive
<1>2. ASSUME NEW i \in DOMAIN r.eps
      PROVE  /\ r.eps[i] \in Endpoint
             /\ r.eps[i].recv_waiters \in Seq(Pid) /\ r.eps[i].send_waiters \in Seq(Pid)
  <2>1. r.eps[i] \in Endpoint BY RouterFields
  <2>2. QED BY <2>1 DEF Endpoint
<1>3. ASSUME NEW i \in DOMAIN r.eps, NEW ws \in Seq(Pid)
      PROVE  /\ SetEndpoint(r, i, [r.eps[i] EXCEPT !.recv_waiters = ws]) \in RouterState
             /\ SetEndpoint(r, i, [r.eps[i] EXCEPT !.send_waiters = ws]) \in RouterState
  BY <1>2, WaiterFields, SetEndpointType
<1>4. PopRecvWaiter(r, id) \in RouterState
  <2>1. FirstRecvWaiter(r, id) # None => EndpointAlive(r, id) /\ r.eps[id].recv_waiters # <<>>
    BY DEF FirstRecvWaiter
  <2>2. QED BY <1>1, <1>2, <1>3, <2>1, HeadTailProperties DEF PopRecvWaiter
<1>5. PopSendWaiter(r, id) \in RouterState
  <2>1. FirstSendWaiter(r, id) # None => EndpointAlive(r, id) /\ r.eps[id].send_waiters # <<>>
    BY DEF FirstSendWaiter
  <2>2. QED BY <1>1, <1>2, <1>3, <2>1, HeadTailProperties DEF PopSendWaiter
<1>6. QED BY <1>4, <1>5

\* Registering, popping and removing waiters leave a router.
LEMMA WaiterQueueOpsType ==
    ASSUME NEW r \in RouterState, NEW id, NEW p \in Pid
    PROVE  /\ RegisterRecvWaiter(r, id, p) \in RouterState
           /\ RegisterSendWaiter(r, id, p) \in RouterState
           /\ RemoveRecvWaiter(r, id, p) \in RouterState
           /\ RemoveSendWaiter(r, id, p) \in RouterState
           /\ RemoveWaiterFromAll(r, p) \in RouterState
<1>1. EndpointAlive(r, id) => id \in DOMAIN r.eps BY DEF EndpointAlive
<1>2. ASSUME NEW i \in DOMAIN r.eps
      PROVE  /\ r.eps[i] \in Endpoint
             /\ r.eps[i].recv_waiters \in Seq(Pid) /\ r.eps[i].send_waiters \in Seq(Pid)
  <2>1. r.eps[i] \in Endpoint BY RouterFields
  <2>2. QED BY <2>1 DEF Endpoint
<1>3. ASSUME NEW i \in DOMAIN r.eps, NEW ws \in Seq(Pid)
      PROVE  /\ SetEndpoint(r, i, [r.eps[i] EXCEPT !.recv_waiters = ws]) \in RouterState
             /\ SetEndpoint(r, i, [r.eps[i] EXCEPT !.send_waiters = ws]) \in RouterState
  BY <1>2, WaiterFields, SetEndpointType
<1>4. RegisterRecvWaiter(r, id, p) \in RouterState /\ RegisterSendWaiter(r, id, p) \in RouterState
  BY <1>1, <1>2, <1>3, WaiterOpsType DEF RegisterRecvWaiter, RegisterSendWaiter
<1>5. RemoveRecvWaiter(r, id, p) \in RouterState /\ RemoveSendWaiter(r, id, p) \in RouterState
  BY <1>1, <1>2, <1>3, WaiterOpsType DEF RemoveRecvWaiter, RemoveSendWaiter
<1>6. RemoveWaiterFromAll(r, p) \in RouterState
  <2> DEFINE W(ep) == [ep EXCEPT !.recv_waiters = RemoveWaiter(ep.recv_waiters, p),
                                 !.send_waiters = RemoveWaiter(ep.send_waiters, p)]
             e == [i \in DOMAIN r.eps |-> W(r.eps[i])]
  <2>1. \A i \in DOMAIN r.eps : W(r.eps[i]) \in Endpoint
    BY <1>2, WaiterOpsType, WaiterFields
  <2> HIDE DEF W
  <2>2. e \in Seq(Endpoint) BY <2>1, RouterFields
  <2> HIDE DEF e
  <2>3. [r EXCEPT !.eps = e] \in RouterState BY <2>2, EpsField
  <2>4. QED BY <2>3 DEF e, W, RemoveWaiterFromAll
<1>7. QED BY <1>4, <1>5, <1>6

\* Creating and closing endpoints leave a router.
LEMMA CreateCloseType ==
    ASSUME NEW r \in RouterState
    PROVE  /\ \A d \in Nat, o \in Pid \cup {None} : CreateEndpoint(r, d, o) \in RouterState
           /\ \A id : CloseEndpoint(r, id) \in RouterState
           /\ \A p \in Pid : CloseEndpointsForOwner(r, p) \in RouterState
<1>1. ASSUME NEW d \in Nat, NEW o \in Pid \cup {None}
      PROVE  CreateEndpoint(r, d, o) \in RouterState
  <2>1. ClampDepth(d) \in 1..MAX_DEPTH BY RouterAssumption DEF ClampDepth
  <2>2. WithDepth(ClampDepth(d), o) \in Endpoint BY <2>1, WithDepthType
  <2>3. Append(r.eps, WithDepth(ClampDepth(d), o)) \in Seq(Endpoint) BY <2>2, RouterFields
  <2>4. QED BY <2>3, EpsField DEF CreateEndpoint
<1>2. \A ep \in Endpoint : Closed(ep) \in Endpoint BY ClosedType
<1>3. ASSUME NEW id PROVE CloseEndpoint(r, id) \in RouterState
  <2>1. EndpointAlive(r, id) => id \in DOMAIN r.eps BY DEF EndpointAlive
  <2>2. QED BY <1>2, <2>1, RouterFields, SetEndpointType, RecomputeType DEF CloseEndpoint
<1>4. ASSUME NEW p \in Pid PROVE CloseEndpointsForOwner(r, p) \in RouterState
  <2> DEFINE e == [i \in DOMAIN r.eps |-> IF i \in AliveOwnedBy(r, p) THEN Closed(r.eps[i])
                                                                     ELSE r.eps[i]]
  <2>1. e \in Seq(Endpoint) BY <1>2, RouterFields
  <2>2. QED BY <2>1, RecomputeType DEF CloseEndpointsForOwner
<1>5. QED BY <1>1, <1>3, <1>4

-----------------------------------------------------------------------------
(* The fields that the operators on endpoints change, and those they keep *)

\* The types of the fields of an endpoint.
LEMMA EndpointFields ==
    ASSUME NEW ep \in Endpoint
    PROVE  /\ ep.queue \in Seq(Message) /\ ep.queued_bytes \in Nat
           /\ ep.depth \in Nat /\ ep.max_queued_bytes \in Nat
           /\ ep.owner \in Pid \cup {None} /\ ep.alive \in BOOLEAN
           /\ ep.recv_waiters \in Seq(Pid) /\ ep.send_waiters \in Seq(Pid)
<1>1. ep.depth \in 1..MAX_DEPTH BY DEF Endpoint
<1>2. ep.depth \in Nat BY <1>1, RouterAssumption
<1>3. QED BY <1>2 DEF Endpoint

\* e has the identity (owner, depth, byte limit) of ep.
SameIdentity(e, ep) ==
    /\ e.owner = ep.owner /\ e.depth = ep.depth
    /\ e.max_queued_bytes = ep.max_queued_bytes

SameContents(e, ep) == e.queue = ep.queue /\ e.queued_bytes = ep.queued_bytes

SameWaiters(e, ep) ==
    e.recv_waiters = ep.recv_waiters /\ e.send_waiters = ep.send_waiters

\* push and push_front add one message and its bytes, and change nothing else.
LEMMA PushFields ==
    ASSUME NEW ep \in Endpoint, NEW m
    PROVE  /\ Push(ep, m).queue = Append(ep.queue, m)
           /\ PushFront(ep, m).queue = <<m>> \o ep.queue
           /\ \A e \in {Push(ep, m), PushFront(ep, m)} :
                /\ e.queued_bytes = ep.queued_bytes + m.len
                /\ e.alive = ep.alive /\ SameIdentity(e, ep) /\ SameWaiters(e, ep)
<1>1. PICK q, n : q = Append(ep.queue, m) /\ n = ep.queued_bytes + m.len OBVIOUS
<1>2. PICK qf : qf = <<m>> \o ep.queue OBVIOUS
<1>3. Push(ep, m) = [ep EXCEPT !.queue = q, !.queued_bytes = n] BY <1>1 DEF Push
<1>4. PushFront(ep, m) = [ep EXCEPT !.queue = qf, !.queued_bytes = n]
  BY <1>1, <1>2 DEF PushFront
<1>5. /\ Push(ep, m).queue = q /\ Push(ep, m).queued_bytes = n
      /\ Push(ep, m).alive = ep.alive
      /\ SameIdentity(Push(ep, m), ep) /\ SameWaiters(Push(ep, m), ep)
  BY <1>3 DEF Endpoint, SameIdentity, SameWaiters
<1>6. /\ PushFront(ep, m).queue = qf /\ PushFront(ep, m).queued_bytes = n
      /\ PushFront(ep, m).alive = ep.alive
      /\ SameIdentity(PushFront(ep, m), ep) /\ SameWaiters(PushFront(ep, m), ep)
  BY <1>4 DEF Endpoint, SameIdentity, SameWaiters
<1>7. QED BY <1>1, <1>2, <1>5, <1>6

\* pop removes the first message and its bytes, and changes nothing else.
LEMMA PopFields ==
    ASSUME NEW ep \in Endpoint
    PROVE  /\ Pop(ep).queue = Tail(ep.queue)
           /\ Pop(ep).queued_bytes = SaturatingSub(ep.queued_bytes, Head(ep.queue).len)
           /\ Pop(ep).alive = ep.alive
           /\ SameIdentity(Pop(ep), ep) /\ SameWaiters(Pop(ep), ep)
<1>1. PICK q, n : /\ q = Tail(ep.queue)
                  /\ n = SaturatingSub(ep.queued_bytes, Head(ep.queue).len)
  OBVIOUS
<1>2. Pop(ep) = [ep EXCEPT !.queue = q, !.queued_bytes = n] BY <1>1 DEF Pop
<1>3. /\ Pop(ep).queue = q /\ Pop(ep).queued_bytes = n /\ Pop(ep).alive = ep.alive
      /\ SameIdentity(Pop(ep), ep) /\ SameWaiters(Pop(ep), ep)
  BY <1>2 DEF Endpoint, SameIdentity, SameWaiters
<1>4. QED BY <1>1, <1>3

\* A closed endpoint is empty and keeps its identity.
LEMMA ClosedFields ==
    ASSUME NEW ep \in Endpoint
    PROVE  /\ Closed(ep).queue = <<>> /\ Closed(ep).queued_bytes = 0
           /\ Closed(ep).alive = FALSE
           /\ Closed(ep).recv_waiters = <<>> /\ Closed(ep).send_waiters = <<>>
           /\ SameIdentity(Closed(ep), ep)
BY DEF Endpoint, SameIdentity, Closed

-----------------------------------------------------------------------------
(* Sums of payload lengths *)

\* The payload lengths of a queue are a sequence of naturals.
LEMMA LengthsType ==
    ASSUME NEW q \in Seq(Message)
    PROVE  Lengths(q) \in Seq(Nat) /\ Len(Lengths(q)) = Len(q)
<1>1. \A i \in 1..Len(q) : q[i].len \in Nat BY RouterAssumption
<1>2. DOMAIN q = 1..Len(q) /\ Len(q) \in Nat OBVIOUS
<1>3. QED BY <1>1, <1>2 DEF Lengths

\* A message at the back adds its length to the sum.
LEMMA LengthsAppend ==
    ASSUME NEW q \in Seq(Message), NEW m \in Message
    PROVE  SumSeq(Lengths(Append(q, m))) = SumSeq(Lengths(q)) + m.len
<1>1. m.len \in Nat BY RouterAssumption
<1>2. Lengths(q) \in Seq(Nat) /\ Len(Lengths(q)) = Len(q) BY LengthsType
<1>3. Lengths(Append(q, m)) \in Seq(Nat) /\ Len(Lengths(Append(q, m))) = Len(q) + 1
  <2>1. Append(q, m) \in Seq(Message) /\ Len(Append(q, m)) = Len(q) + 1 OBVIOUS
  <2>2. QED BY <2>1, LengthsType
<1>4. ASSUME NEW i \in 1..(Len(q) + 1)
      PROVE  Lengths(Append(q, m))[i] = Append(Lengths(q), m.len)[i]
  BY <1>2 DEF Lengths
<1>5. Lengths(Append(q, m)) = Append(Lengths(q), m.len)
  BY <1>1, <1>2, <1>3, <1>4
<1>6. QED BY <1>1, <1>2, <1>5, SumSeqAppend

\* A message at the front adds its length to the sum.
LEMMA LengthsCons ==
    ASSUME NEW q \in Seq(Message), NEW m \in Message
    PROVE  SumSeq(Lengths(<<m>> \o q)) = SumSeq(Lengths(q)) + m.len
<1>1. m.len \in Nat BY RouterAssumption
<1>2. Lengths(q) \in Seq(Nat) /\ Len(Lengths(q)) = Len(q) BY LengthsType
<1>3. Lengths(<<m>> \o q) \in Seq(Nat) /\ Len(Lengths(<<m>> \o q)) = Len(q) + 1
  <2>1. <<m>> \o q \in Seq(Message) /\ Len(<<m>> \o q) = Len(q) + 1 OBVIOUS
  <2>2. QED BY <2>1, LengthsType
<1>4. ASSUME NEW i \in 1..(Len(q) + 1)
      PROVE  Lengths(<<m>> \o q)[i] = (<<m.len>> \o Lengths(q))[i]
  <2>1. CASE i = 1 BY <1>2, <2>1 DEF Lengths
  <2>2. CASE i # 1 BY <1>2, <2>2 DEF Lengths
  <2>3. QED BY <2>1, <2>2
<1>5. Lengths(<<m>> \o q) = <<m.len>> \o Lengths(q)
  <2>1. PICK s \in Seq(Nat) : s = Lengths(<<m>> \o q) BY <1>3
  <2>2. /\ <<m.len>> \o Lengths(q) \in Seq(Nat)
        /\ Len(<<m.len>> \o Lengths(q)) = Len(q) + 1
    BY <1>1, <1>2
  <2>3. PICK t \in Seq(Nat) : t = <<m.len>> \o Lengths(q) BY <2>2
  <2>4. Len(s) = Len(t) /\ \A i \in 1..Len(s) : s[i] = t[i]
    BY <1>3, <1>4, <2>1, <2>2, <2>3
  <2>5. s = t BY <2>4, SeqEqual
  <2>6. QED BY <2>1, <2>3, <2>5
<1>6. SumSeq(<<m.len>> \o Lengths(q)) = m.len + SumSeq(Lengths(q))
  BY <1>1, <1>2, SumSeqCons
<1>7. PICK a \in Nat : a = SumSeq(Lengths(q)) BY <1>2, SumSeqType
<1>8. PICK l \in Nat : l = m.len BY <1>1
<1>9. l + a = a + l OBVIOUS
<1>10. SumSeq(Lengths(<<m>> \o q)) = m.len + SumSeq(Lengths(q)) BY <1>5, <1>6, Zenon
<1>11. m.len + SumSeq(Lengths(q)) = SumSeq(Lengths(q)) + m.len
  BY <1>7, <1>8, <1>9
<1>12. QED BY <1>10, <1>11, Zenon

\* Taking the first message takes its length from the sum.
LEMMA LengthsTail ==
    ASSUME NEW q \in Seq(Message), q # <<>>
    PROVE  /\ Head(q) \in Message /\ Tail(q) \in Seq(Message)
           /\ SumSeq(Lengths(q)) = Head(q).len + SumSeq(Lengths(Tail(q)))
<1>1. Head(q) \in Message /\ Tail(q) \in Seq(Message) /\ q = <<Head(q)>> \o Tail(q)
  OBVIOUS
<1>2. SumSeq(Lengths(<<Head(q)>> \o Tail(q))) = SumSeq(Lengths(Tail(q))) + Head(q).len
  BY <1>1, LengthsCons
<1>3. PICK a \in Nat : a = SumSeq(Lengths(Tail(q))) BY <1>1, LengthsType, SumSeqType
<1>4. PICK l \in Nat : l = Head(q).len BY <1>1, RouterAssumption
<1>5. SumSeq(Lengths(q)) = a + l BY <1>1, <1>2, <1>3, <1>4
<1>6. a + l = l + a OBVIOUS
<1>7. QED BY <1>1, <1>3, <1>4, <1>5, <1>6

-----------------------------------------------------------------------------
(* The totals of an endpoint vector *)

\* What endpoint ep adds to the bytes of owner p.
ShareOf(ep, p) == IF ep.alive /\ ep.owner = p THEN ep.queued_bytes ELSE 0

\* The summands of the global and the per-owner counter are naturals.
LEMMA VectorsType ==
    ASSUME NEW e \in Seq(Endpoint)
    PROVE  /\ [i \in DOMAIN e |-> e[i].queued_bytes] \in Seq(Nat)
           /\ Len([i \in DOMAIN e |-> e[i].queued_bytes]) = Len(e)
           /\ \A p : /\ [i \in DOMAIN e |-> ShareOf(e[i], p)] \in Seq(Nat)
                     /\ Len([i \in DOMAIN e |-> ShareOf(e[i], p)]) = Len(e)
                     /\ OwnerQueuedBytes(e, p) = SumSeq([i \in DOMAIN e |-> ShareOf(e[i], p)])
<1>1. DOMAIN e = 1..Len(e) /\ Len(e) \in Nat OBVIOUS
<1>2. \A i \in 1..Len(e) : e[i].queued_bytes \in Nat BY EndpointFields
<1>3. \A p : \A i \in 1..Len(e) : ShareOf(e[i], p) \in Nat BY <1>2 DEF ShareOf
<1>4. /\ [i \in DOMAIN e |-> e[i].queued_bytes] \in Seq(Nat)
      /\ Len([i \in DOMAIN e |-> e[i].queued_bytes]) = Len(e)
  BY <1>1, <1>2
<1>5. ASSUME NEW p
      PROVE  /\ [i \in DOMAIN e |-> ShareOf(e[i], p)] \in Seq(Nat)
             /\ Len([i \in DOMAIN e |-> ShareOf(e[i], p)]) = Len(e)
  BY <1>1, <1>3
<1>6. \A p : OwnerQueuedBytes(e, p) = SumSeq([i \in DOMAIN e |-> ShareOf(e[i], p)])
  BY DEF OwnerQueuedBytes, ShareOf
<1>7. QED BY <1>4, <1>5, <1>6

\* An element is at most the sum.
LEMMA SumSeqElement ==
    ASSUME NEW s \in Seq(Nat), NEW j \in 1..Len(s)
    PROVE  s[j] <= SumSeq(s)
<1> DEFINE t == [s EXCEPT ![j] = 0]
<1>1. /\ t \in Seq(Nat) /\ Len(t) = Len(s) /\ t[j] = 0
      /\ \A i \in 1..Len(s) : i # j => s[i] = t[i]
  OBVIOUS
<1> HIDE DEF t
<1>2. SumSeq(t) + s[j] = SumSeq(s) + t[j] BY <1>1, SumSeqUpdate
<1>3. PICK a \in Nat : a = SumSeq(t) BY <1>1, SumSeqType
<1>4. PICK b \in Nat : b = SumSeq(s) BY SumSeqType
<1>5. PICK c \in Nat : c = s[j] OBVIOUS
<1>6. a + c = b + 0 BY <1>1, <1>2, <1>3, <1>4, <1>5
<1>7. c <= b BY <1>6
<1>8. QED BY <1>4, <1>5, <1>7

\* Replacing one endpoint changes each total by what that endpoint adds to it.
LEMMA TotalsUpdate ==
    ASSUME NEW e \in Seq(Endpoint), NEW id \in DOMAIN e, NEW ep \in Endpoint
    PROVE  LET f == [e EXCEPT ![id] = ep]
           IN  /\ QueuedBytesTotal(f) + e[id].queued_bytes
                    = QueuedBytesTotal(e) + ep.queued_bytes
               /\ \A p : OwnerQueuedBytes(f, p) + ShareOf(e[id], p)
                           = OwnerQueuedBytes(e, p) + ShareOf(ep, p)
<1> DEFINE f == [e EXCEPT ![id] = ep]
<1>1. /\ f \in Seq(Endpoint) /\ DOMAIN f = DOMAIN e /\ Len(f) = Len(e)
      /\ DOMAIN e = 1..Len(e) /\ f[id] = ep
      /\ \A i \in DOMAIN e : i # id => f[i] = e[i]
  OBVIOUS
<1> HIDE DEF f
<1>2. QueuedBytesTotal(f) + e[id].queued_bytes = QueuedBytesTotal(e) + ep.queued_bytes
  <2>1. PICK s \in Seq(Nat) : /\ s = [i \in DOMAIN e |-> e[i].queued_bytes]
                              /\ Len(s) = Len(e)
    BY VectorsType
  <2>2. PICK t \in Seq(Nat) : /\ t = [i \in DOMAIN f |-> f[i].queued_bytes]
                              /\ Len(t) = Len(f)
    BY <1>1, VectorsType
  <2>3. /\ s[id] = e[id].queued_bytes /\ t[id] = ep.queued_bytes
        /\ \A i \in 1..Len(s) : i # id => s[i] = t[i]
        /\ id \in 1..Len(s) /\ Len(s) = Len(t)
    BY <1>1, <2>1, <2>2
  <2>4. SumSeq(t) + s[id] = SumSeq(s) + t[id] BY <2>3, SumSeqUpdate
  <2>5. QED BY <2>1, <2>2, <2>3, <2>4 DEF QueuedBytesTotal
<1>3. ASSUME NEW p
      PROVE  OwnerQueuedBytes(f, p) + ShareOf(e[id], p)
               = OwnerQueuedBytes(e, p) + ShareOf(ep, p)
  <2>1. PICK s \in Seq(Nat) : /\ s = [i \in DOMAIN e |-> ShareOf(e[i], p)]
                              /\ Len(s) = Len(e)
    BY VectorsType
  <2>2. PICK t \in Seq(Nat) : /\ t = [i \in DOMAIN f |-> ShareOf(f[i], p)]
                              /\ Len(t) = Len(f)
    BY <1>1, VectorsType
  <2>3. /\ s[id] = ShareOf(e[id], p) /\ t[id] = ShareOf(ep, p)
        /\ \A i \in 1..Len(s) : i # id => s[i] = t[i]
        /\ id \in 1..Len(s) /\ Len(s) = Len(t)
    BY <1>1, <2>1, <2>2
  <2>4. SumSeq(t) + s[id] = SumSeq(s) + t[id] BY <2>3, SumSeqUpdate
  <2>5. OwnerQueuedBytes(e, p) = SumSeq(s) BY <2>1, VectorsType
  <2>6. OwnerQueuedBytes(f, p) = SumSeq(t) BY <1>1, <2>2, VectorsType
  <2>7. QED BY <2>3, <2>4, <2>5, <2>6
<1>4. QED BY <1>2, <1>3 DEF f

\* An endpoint's bytes are part of both totals.
LEMMA TotalsBound ==
    ASSUME NEW e \in Seq(Endpoint), NEW id \in DOMAIN e
    PROVE  /\ QueuedBytesTotal(e) \in Nat
           /\ e[id].queued_bytes <= QueuedBytesTotal(e)
           /\ \A p : /\ OwnerQueuedBytes(e, p) \in Nat
                     /\ ShareOf(e[id], p) <= OwnerQueuedBytes(e, p)
<1>1. id \in 1..Len(e) OBVIOUS
<1>2. QueuedBytesTotal(e) \in Nat /\ e[id].queued_bytes <= QueuedBytesTotal(e)
  <2>1. PICK s \in Seq(Nat) : /\ s = [i \in DOMAIN e |-> e[i].queued_bytes]
                              /\ Len(s) = Len(e)
    BY VectorsType
  <2>2. s[id] = e[id].queued_bytes BY <2>1
  <2>3. SumSeq(s) \in Nat /\ s[id] <= SumSeq(s) BY <1>1, <2>1, SumSeqType, SumSeqElement
  <2>4. QED BY <2>1, <2>2, <2>3 DEF QueuedBytesTotal
<1>3. ASSUME NEW p
      PROVE  /\ OwnerQueuedBytes(e, p) \in Nat
             /\ ShareOf(e[id], p) <= OwnerQueuedBytes(e, p)
  <2>1. PICK s \in Seq(Nat) : /\ s = [i \in DOMAIN e |-> ShareOf(e[i], p)]
                              /\ Len(s) = Len(e)
    BY VectorsType
  <2>2. s[id] = ShareOf(e[id], p) BY <2>1
  <2>3. SumSeq(s) \in Nat /\ s[id] <= SumSeq(s) BY <1>1, <2>1, SumSeqType, SumSeqElement
  <2>4. QED BY <2>1, <2>2, <2>3, VectorsType
<1>4. QED BY <1>2, <1>3

-----------------------------------------------------------------------------
(* Accounting *)

\* The counters of one endpoint and of the router agree with r's queues.
LEMMA AccountingFacts ==
    ASSUME NEW r \in RouterState, AccountingOf(r)
    PROVE  /\ \A i \in DOMAIN r.eps :
                /\ r.eps[i] \in Endpoint
                /\ r.eps[i].queued_bytes = SumSeq(Lengths(r.eps[i].queue))
                /\ r.eps[i].queued_bytes \in Nat
           /\ r.total = QueuedBytesTotal(r.eps) /\ r.total \in Nat
           /\ \A p \in Pid : r.owned[p] = OwnerQueuedBytes(r.eps, p) /\ r.owned[p] \in Nat
<1>1. \A i \in DOMAIN r.eps : r.eps[i] \in Endpoint BY RouterFields
<1>2. \A i \in DOMAIN r.eps : r.eps[i].queued_bytes \in Nat BY <1>1, EndpointFields
<1>3. QED BY <1>1, <1>2, RouterFields DEF AccountingOf

\* Replacing an endpoint keeps the accounting when both totals move by the
\* same amount as the endpoint's own counter.
LEMMA AccountingUpdate ==
    ASSUME NEW r \in RouterState, AccountingOf(r), NEW id \in DOMAIN r.eps,
           NEW ep \in Endpoint, ep.queued_bytes = SumSeq(Lengths(ep.queue)),
           NEW t \in Nat, t + r.eps[id].queued_bytes = r.total + ep.queued_bytes,
           NEW o \in [Pid -> Nat],
           \A p \in Pid : o[p] + ShareOf(r.eps[id], p) = r.owned[p] + ShareOf(ep, p)
    PROVE  AccountingOf([eps |-> [r.eps EXCEPT ![id] = ep], total |-> t, owned |-> o])
<1> DEFINE f == [r.eps EXCEPT ![id] = ep]
<1>1. r.eps \in Seq(Endpoint) BY RouterFields
<1>2. /\ f \in Seq(Endpoint) /\ DOMAIN f = DOMAIN r.eps /\ f[id] = ep
      /\ \A i \in DOMAIN f : i # id => f[i] = r.eps[i]
  BY <1>1
<1>3. /\ QueuedBytesTotal(f) + r.eps[id].queued_bytes
           = QueuedBytesTotal(r.eps) + ep.queued_bytes
      /\ \A p : OwnerQueuedBytes(f, p) + ShareOf(r.eps[id], p)
                  = OwnerQueuedBytes(r.eps, p) + ShareOf(ep, p)
  BY <1>1, TotalsUpdate
<1> HIDE DEF f
<1>4. QueuedBytesTotal(f) \in Nat /\ \A p : OwnerQueuedBytes(f, p) \in Nat
  BY <1>2, TotalsBound
<1>5. \A i \in DOMAIN f : f[i].queued_bytes = SumSeq(Lengths(f[i].queue))
  BY <1>2, AccountingFacts
<1>6. t = QueuedBytesTotal(f)
  <2>1. PICK a \in Nat : a = r.eps[id].queued_bytes BY AccountingFacts
  <2>2. PICK b \in Nat : b = QueuedBytesTotal(f) BY <1>4
  <2>3. t + a = b + a BY <1>3, <2>1, <2>2, AccountingFacts
  <2>4. t = b BY <2>3
  <2>5. QED BY <2>2, <2>4
<1>7. ASSUME NEW p \in Pid PROVE o[p] = OwnerQueuedBytes(f, p)
  <2>1. ShareOf(r.eps[id], p) \in Nat BY AccountingFacts DEF ShareOf
  <2>2. PICK a \in Nat : a = ShareOf(r.eps[id], p) BY <2>1
  <2>3. PICK b \in Nat : b = OwnerQueuedBytes(f, p) BY <1>4
  <2>4. PICK c \in Nat : c = o[p] OBVIOUS
  <2>5. c + a = b + a BY <1>3, <2>2, <2>3, <2>4, AccountingFacts
  <2>6. c = b BY <2>5
  <2>7. QED BY <2>3, <2>4, <2>6
<1>8. QED BY <1>5, <1>6, <1>7 DEF AccountingOf, f

\* A message that goes in is charged to the endpoint, the total and the owner.
LEMMA ChargeAccounting ==
    ASSUME NEW r \in RouterState, AccountingOf(r), NEW id \in DOMAIN r.eps,
           r.eps[id].alive, NEW m \in Message, NEW ep \in Endpoint,
           ep.alive, ep.owner = r.eps[id].owner,
           ep.queued_bytes = r.eps[id].queued_bytes + m.len,
           SumSeq(Lengths(ep.queue)) = SumSeq(Lengths(r.eps[id].queue)) + m.len
    PROVE  AccountingOf(Charge(r, id, m, ep))
<1> DEFINE o == [p \in Pid |-> IF p = r.eps[id].owner THEN r.owned[p] + m.len
                                                      ELSE r.owned[p]]
<1>1. PICK l \in Nat : l = m.len BY RouterAssumption
<1>2. PICK a \in Nat : a = r.eps[id].queued_bytes BY AccountingFacts
<1>3. PICK t \in Nat : t = r.total BY AccountingFacts
<1>4. ep.queued_bytes = SumSeq(Lengths(ep.queue)) BY AccountingFacts
<1>5. t + l \in Nat /\ (t + l) + a = t + (a + l) OBVIOUS
<1>6. o \in [Pid -> Nat] BY <1>1, AccountingFacts
<1>7. ASSUME NEW p \in Pid
      PROVE  o[p] + ShareOf(r.eps[id], p) = r.owned[p] + ShareOf(ep, p)
  <2>1. PICK b \in Nat : b = r.owned[p] BY AccountingFacts
  <2>2. CASE p = r.eps[id].owner
    <3>1. o[p] = b + l BY <1>1, <2>1, <2>2
    <3>2. ShareOf(r.eps[id], p) = a /\ ShareOf(ep, p) = a + l
      BY <1>1, <1>2, <2>2 DEF ShareOf
    <3>3. (b + l) + a = b + (a + l) OBVIOUS
    <3>4. QED BY <2>1, <3>1, <3>2, <3>3
  <2>3. CASE p # r.eps[id].owner
    <3>1. o[p] = b BY <2>1, <2>3
    <3>2. ShareOf(r.eps[id], p) = 0 /\ ShareOf(ep, p) = 0 BY <2>3 DEF ShareOf
    <3>3. QED BY <2>1, <3>1, <3>2
  <2>4. QED BY <2>2, <2>3
<1> HIDE DEF o
<1>8. AccountingOf([eps |-> [r.eps EXCEPT ![id] = ep], total |-> t + l, owned |-> o])
  BY <1>1, <1>2, <1>3, <1>4, <1>5, <1>6, <1>7, AccountingUpdate
<1>9. QED BY <1>1, <1>3, <1>8 DEF Charge, o

\* send and requeue_front keep the counters exact.
LEMMA SendAccounting ==
    ASSUME NEW r \in RouterState, AccountingOf(r), NEW id, NEW m \in Message
    PROVE  AccountingOf(Send(r, id, m)) /\ AccountingOf(RequeueFront(r, id, m))
<1>1. CASE SendErr(r, id, m) # "Ok" BY <1>1 DEF Send, RequeueFront
<1>2. CASE SendErr(r, id, m) = "Ok"
  <2>1. id \in DOMAIN r.eps /\ r.eps[id].alive BY <1>2 DEF SendErr, PushErr
  <2>2. r.eps[id] \in Endpoint BY <2>1, AccountingFacts
  <2>3. r.eps[id].queue \in Seq(Message) BY <2>2, EndpointFields
  <2>4. AccountingOf(Charge(r, id, m, Push(r.eps[id], m)))
    <3>1. PICK ep \in Endpoint : ep = Push(r.eps[id], m) BY <2>2, PushType
    <3>2. /\ ep.queue = Append(r.eps[id].queue, m) /\ ep.alive = r.eps[id].alive
          /\ ep.queued_bytes = r.eps[id].queued_bytes + m.len
          /\ ep.owner = r.eps[id].owner
      BY <2>2, <3>1, PushFields DEF SameIdentity
    <3>3. SumSeq(Lengths(ep.queue)) = SumSeq(Lengths(r.eps[id].queue)) + m.len
      BY <2>3, <3>2, LengthsAppend
    <3>4. AccountingOf(Charge(r, id, m, ep)) BY <2>1, <3>2, <3>3, ChargeAccounting
    <3>5. QED BY <3>1, <3>4
  <2>5. AccountingOf(Charge(r, id, m, PushFront(r.eps[id], m)))
    <3>1. PICK ep \in Endpoint : ep = PushFront(r.eps[id], m) BY <2>2, PushType
    <3>2. /\ ep.queue = <<m>> \o r.eps[id].queue /\ ep.alive = r.eps[id].alive
          /\ ep.queued_bytes = r.eps[id].queued_bytes + m.len
          /\ ep.owner = r.eps[id].owner
      BY <2>2, <3>1, PushFields DEF SameIdentity
    <3>3. SumSeq(Lengths(ep.queue)) = SumSeq(Lengths(r.eps[id].queue)) + m.len
      BY <2>3, <3>2, LengthsCons
    <3>4. AccountingOf(Charge(r, id, m, ep)) BY <2>1, <3>2, <3>3, ChargeAccounting
    <3>5. QED BY <3>1, <3>4
  <2>6. QED BY <1>2, <2>4, <2>5 DEF Send, RequeueFront
<1>3. QED BY <1>1, <1>2

\* A saturating subtraction of at most its left side is exact.
LEMMA SubtractExact ==
    ASSUME NEW a \in Nat, NEW l \in Nat, l <= a
    PROVE  SaturatingSub(a, l) \in Nat /\ SaturatingSub(a, l) + l = a
BY DEF SaturatingSub

\* A message that goes out is credited to the endpoint, the total and the
\* owner; the accounting is what makes the saturating subtractions exact.
LEMMA RecvAccounting ==
    ASSUME NEW r \in RouterState, AccountingOf(r), NEW id
    PROVE  AccountingOf(Recv(r, id))
<1>1. CASE RecvErr(r, id) # "Ok" BY <1>1 DEF Recv
<1>2. CASE RecvErr(r, id) = "Ok"
  <2>1. id \in DOMAIN r.eps /\ r.eps[id].alive /\ r.eps[id].queue # <<>>
    BY <1>2 DEF RecvErr, EndpointAlive
  <2>2. r.eps[id] \in Endpoint /\ r.eps \in Seq(Endpoint)
    BY <2>1, AccountingFacts, RouterFields
  <2>3. PICK q \in Seq(Message) : q = r.eps[id].queue BY <2>2, EndpointFields
  <2>4. /\ Head(q) \in Message /\ Tail(q) \in Seq(Message)
        /\ SumSeq(Lengths(q)) = Head(q).len + SumSeq(Lengths(Tail(q)))
    BY <2>1, <2>3, LengthsTail
  <2>5. PICK l \in Nat : l = Head(q).len BY <2>4, RouterAssumption
  <2>6. PICK n \in Nat : n = SumSeq(Lengths(Tail(q))) BY <2>4, LengthsType, SumSeqType
  <2>7. r.eps[id].queued_bytes = l + n BY <2>1, <2>3, <2>4, <2>5, <2>6, AccountingFacts
  <2>8. PICK ep \in Endpoint : ep = Pop(r.eps[id]) BY <2>1, <2>2, PopType
  <2>9. ep.queued_bytes = n
    <3>1. ep.queued_bytes = SaturatingSub(r.eps[id].queued_bytes, Head(r.eps[id].queue).len)
      BY <2>2, <2>8, PopFields
    <3>2. SaturatingSub(l + n, l) = n BY DEF SaturatingSub
    <3>3. QED BY <2>3, <2>5, <2>7, <3>1, <3>2
  <2>10. /\ ep.queue = Tail(q) /\ ep.alive = r.eps[id].alive
         /\ ep.owner = r.eps[id].owner
    BY <2>2, <2>3, <2>8, PopFields DEF SameIdentity
  <2>11. PICK t \in Nat : t = r.total BY AccountingFacts
  <2>12. l <= t
    <3>1. l + n <= t BY <2>1, <2>2, <2>7, <2>11, TotalsBound, AccountingFacts
    <3>2. QED BY <3>1
  <2>13. PICK u \in Nat : u = SaturatingSub(t, l) /\ u + l = t BY <2>12, SubtractExact
  <2>14. u + (l + n) = t + n BY <2>13
  <2> DEFINE o == [p \in Pid |-> IF p = r.eps[id].owner THEN SaturatingSub(r.owned[p], l)
                                                        ELSE r.owned[p]]
  <2>15. ASSUME NEW p \in Pid
         PROVE  o[p] \in Nat /\ o[p] + ShareOf(r.eps[id], p) = r.owned[p] + ShareOf(ep, p)
    <3>1. PICK b \in Nat : b = r.owned[p] BY AccountingFacts
    <3>2. CASE p = r.eps[id].owner
      <4>1. ShareOf(r.eps[id], p) = l + n /\ ShareOf(ep, p) = n
        BY <2>1, <2>7, <2>9, <2>10, <3>2 DEF ShareOf
      <4>2. l + n <= b BY <2>1, <2>2, <3>1, <4>1, TotalsBound, AccountingFacts
      <4>3. l <= b BY <4>2
      <4>4. PICK c \in Nat : c = SaturatingSub(b, l) /\ c + l = b BY <4>3, SubtractExact
      <4>5. o[p] = c BY <3>1, <3>2, <4>4
      <4>6. c + (l + n) = b + n BY <4>4
      <4>7. QED BY <3>1, <4>1, <4>5, <4>6
    <3>3. CASE p # r.eps[id].owner
      <4>1. ShareOf(r.eps[id], p) = 0 /\ ShareOf(ep, p) = 0 BY <2>10, <3>3 DEF ShareOf
      <4>2. QED BY <3>1, <3>3, <4>1
    <3>4. QED BY <3>2, <3>3
  <2>16. o \in [Pid -> Nat] BY <2>15
  <2>17. Recv(r, id) = [eps |-> [r.eps EXCEPT ![id] = ep], total |-> u, owned |-> o]
    BY <1>2, <2>3, <2>5, <2>8, <2>11, <2>13 DEF Recv, Received
  <2> HIDE DEF o
  <2>18. ep.queued_bytes = SumSeq(Lengths(ep.queue)) BY <2>6, <2>9, <2>10
  <2>19. u + r.eps[id].queued_bytes = r.total + ep.queued_bytes
    BY <2>7, <2>9, <2>11, <2>14
  <2>20. \A p \in Pid : o[p] + ShareOf(r.eps[id], p) = r.owned[p] + ShareOf(ep, p)
    BY <2>15
  <2>21. AccountingOf([eps |-> [r.eps EXCEPT ![id] = ep], total |-> u, owned |-> o])
    BY <2>1, <2>16, <2>18, <2>19, <2>20, AccountingUpdate
  <2>22. QED BY <2>17, <2>21
<1>3. QED BY <1>1, <1>2

-----------------------------------------------------------------------------
(* The operations on waiters leave everything else as it is *)

OnlyWaiters(r, s) ==
    /\ s \in RouterState /\ DOMAIN s.eps = DOMAIN r.eps
    /\ s.total = r.total /\ s.owned = r.owned
    /\ \A i \in DOMAIN r.eps :
         /\ SameIdentity(s.eps[i], r.eps[i]) /\ SameContents(s.eps[i], r.eps[i])
         /\ s.eps[i].alive = r.eps[i].alive

\* Changing nothing changes waiters only.
LEMMA OnlyWaitersSame ==
    ASSUME NEW r \in RouterState PROVE OnlyWaiters(r, r)
BY DEF OnlyWaiters, SameIdentity, SameContents

\* Replacing a waiter queue of one endpoint changes waiters only.
LEMMA OnlyWaitersSet ==
    ASSUME NEW r \in RouterState, NEW id \in DOMAIN r.eps, NEW ws \in Seq(Pid)
    PROVE  /\ OnlyWaiters(r, SetEndpoint(r, id, [r.eps[id] EXCEPT !.recv_waiters = ws]))
           /\ OnlyWaiters(r, SetEndpoint(r, id, [r.eps[id] EXCEPT !.send_waiters = ws]))
<1>1. r.eps[id] \in Endpoint /\ r.eps \in Seq(Endpoint) BY RouterFields
<1>2. ASSUME NEW ep \in Endpoint, SameIdentity(ep, r.eps[id]),
             SameContents(ep, r.eps[id]), ep.alive = r.eps[id].alive
      PROVE  OnlyWaiters(r, SetEndpoint(r, id, ep))
  <2>1. PICK s \in RouterState : s = SetEndpoint(r, id, ep) BY SetEndpointType
  <2>2. s.eps = [r.eps EXCEPT ![id] = ep] /\ s.total = r.total /\ s.owned = r.owned
    BY <2>1 DEF SetEndpoint, RouterState
  <2>3. DOMAIN s.eps = DOMAIN r.eps BY <2>2
  <2>4. ASSUME NEW i \in DOMAIN r.eps
        PROVE  /\ SameIdentity(s.eps[i], r.eps[i]) /\ SameContents(s.eps[i], r.eps[i])
               /\ s.eps[i].alive = r.eps[i].alive
    <3>1. CASE i = id BY <1>2, <2>2, <3>1
    <3>2. CASE i # id
      <4>1. s.eps[i] = r.eps[i] BY <2>2, <3>2
      <4>2. QED BY <4>1 DEF SameIdentity, SameContents
    <3>3. QED BY <3>1, <3>2
  <2>5. OnlyWaiters(r, s) BY <2>2, <2>3, <2>4 DEF OnlyWaiters
  <2>6. QED BY <2>1, <2>5
<1>3. PICK ep \in Endpoint : ep = [r.eps[id] EXCEPT !.recv_waiters = ws]
  BY <1>1, WaiterFields
<1>4. /\ SameIdentity(ep, r.eps[id]) /\ SameContents(ep, r.eps[id])
      /\ ep.alive = r.eps[id].alive
  BY <1>1, <1>3 DEF Endpoint, SameIdentity, SameContents
<1>5. PICK es \in Endpoint : es = [r.eps[id] EXCEPT !.send_waiters = ws]
  BY <1>1, WaiterFields
<1>6. /\ SameIdentity(es, r.eps[id]) /\ SameContents(es, r.eps[id])
      /\ es.alive = r.eps[id].alive
  BY <1>1, <1>5 DEF Endpoint, SameIdentity, SameContents
<1>7. QED BY <1>2, <1>3, <1>4, <1>5, <1>6

\* The waiter operations on one endpoint change waiters only.
LEMMA OnlyWaitersOps ==
    ASSUME NEW r \in RouterState, NEW id
    PROVE  /\ OnlyWaiters(r, PopRecvWaiter(r, id)) /\ OnlyWaiters(r, PopSendWaiter(r, id))
           /\ \A p \in Pid :
                /\ OnlyWaiters(r, RegisterRecvWaiter(r, id, p))
                /\ OnlyWaiters(r, RegisterSendWaiter(r, id, p))
                /\ OnlyWaiters(r, RemoveRecvWaiter(r, id, p))
                /\ OnlyWaiters(r, RemoveSendWaiter(r, id, p))
<1>1. EndpointAlive(r, id) => id \in DOMAIN r.eps BY DEF EndpointAlive
<1>2. ASSUME NEW i \in DOMAIN r.eps
      PROVE  r.eps[i].recv_waiters \in Seq(Pid) /\ r.eps[i].send_waiters \in Seq(Pid)
  BY RouterFields, EndpointFields
<1>3. FirstRecvWaiter(r, id) # None => EndpointAlive(r, id) /\ r.eps[id].recv_waiters # <<>>
  BY DEF FirstRecvWaiter
<1>4. FirstSendWaiter(r, id) # None => EndpointAlive(r, id) /\ r.eps[id].send_waiters # <<>>
  BY DEF FirstSendWaiter
<1>5. OnlyWaiters(r, PopRecvWaiter(r, id))
  BY <1>1, <1>2, <1>3, OnlyWaitersSame, OnlyWaitersSet, HeadTailProperties DEF PopRecvWaiter
<1>6. OnlyWaiters(r, PopSendWaiter(r, id))
  BY <1>1, <1>2, <1>4, OnlyWaitersSame, OnlyWaitersSet, HeadTailProperties DEF PopSendWaiter
<1>7. ASSUME NEW p \in Pid
      PROVE  OnlyWaiters(r, RegisterRecvWaiter(r, id, p)) /\ OnlyWaiters(r, RegisterSendWaiter(r, id, p))
  BY <1>1, <1>2, OnlyWaitersSame, OnlyWaitersSet, WaiterOpsType
     DEF RegisterRecvWaiter, RegisterSendWaiter
<1>8. ASSUME NEW p \in Pid
      PROVE  OnlyWaiters(r, RemoveRecvWaiter(r, id, p)) /\ OnlyWaiters(r, RemoveSendWaiter(r, id, p))
  BY <1>1, <1>2, OnlyWaitersSame, OnlyWaitersSet, WaiterOpsType
     DEF RemoveRecvWaiter, RemoveSendWaiter
<1>9. QED BY <1>5, <1>6, <1>7, <1>8

\* So does the removal of a task from every waiter queue.
LEMMA OnlyWaitersAll ==
    ASSUME NEW r \in RouterState, NEW p \in Pid
    PROVE  OnlyWaiters(r, RemoveWaiterFromAll(r, p))
<1> DEFINE W(ep) == [ep EXCEPT !.recv_waiters = RemoveWaiter(ep.recv_waiters, p),
                               !.send_waiters = RemoveWaiter(ep.send_waiters, p)]
<1>1. PICK s \in RouterState : s = RemoveWaiterFromAll(r, p) BY WaiterQueueOpsType
<1>2. /\ s.eps = [i \in DOMAIN r.eps |-> W(r.eps[i])]
      /\ s.total = r.total /\ s.owned = r.owned
  BY <1>1 DEF RemoveWaiterFromAll, RouterState
<1>3. ASSUME NEW ep \in Endpoint
      PROVE  SameIdentity(W(ep), ep) /\ SameContents(W(ep), ep) /\ W(ep).alive = ep.alive
  BY DEF Endpoint, SameIdentity, SameContents
<1> HIDE DEF W
<1>4. QED BY <1>1, <1>2, <1>3, RouterFields DEF OnlyWaiters

\* The counters do not depend on waiters.
LEMMA OnlyWaitersAccounting ==
    ASSUME NEW r \in RouterState, NEW s, OnlyWaiters(r, s), AccountingOf(r)
    PROVE  AccountingOf(s)
<1>1. /\ DOMAIN s.eps = DOMAIN r.eps /\ s.total = r.total /\ s.owned = r.owned
      /\ \A i \in DOMAIN r.eps :
           /\ s.eps[i].queue = r.eps[i].queue
           /\ s.eps[i].queued_bytes = r.eps[i].queued_bytes
           /\ s.eps[i].alive = r.eps[i].alive /\ s.eps[i].owner = r.eps[i].owner
  BY DEF OnlyWaiters, SameIdentity, SameContents
<1>2. QueuedBytesTotal(s.eps) = QueuedBytesTotal(r.eps)
  <2>1. [i \in DOMAIN s.eps |-> s.eps[i].queued_bytes]
          = [i \in DOMAIN r.eps |-> r.eps[i].queued_bytes]
    BY <1>1
  <2>2. QED BY <2>1 DEF QueuedBytesTotal
<1>3. ASSUME NEW p \in Pid PROVE OwnerQueuedBytes(s.eps, p) = OwnerQueuedBytes(r.eps, p)
  <2>1. [i \in DOMAIN s.eps |-> IF s.eps[i].alive /\ s.eps[i].owner = p
                                THEN s.eps[i].queued_bytes ELSE 0]
          = [i \in DOMAIN r.eps |-> IF r.eps[i].alive /\ r.eps[i].owner = p
                                    THEN r.eps[i].queued_bytes ELSE 0]
    BY <1>1
  <2>2. QED BY <2>1 DEF OwnerQueuedBytes
<1>4. QED BY <1>1, <1>2, <1>3 DEF AccountingOf

-----------------------------------------------------------------------------
(* Accounting of create and close *)

\* An empty queue holds no bytes.
LEMMA LengthsEmpty == SumSeq(Lengths(<<>>)) = 0
<1>1. PICK s \in Seq(Nat) : s = Lengths(<<>>) /\ Len(s) = 0
  <2>1. <<>> \in Seq(Message) /\ Len(<<>>) = 0 OBVIOUS
  <2>2. QED BY <2>1, LengthsType
<1>2. s = <<>> BY <1>1
<1>3. QED BY <1>1, <1>2, SumSeqEmpty

\* A created router is r or r with one more, empty, endpoint.
LEMMA CreateCases ==
    ASSUME NEW r \in RouterState, NEW d \in Nat, NEW o \in Pid \cup {None}
    PROVE  \/ CreateEndpoint(r, d, o) = r
           \/ /\ CreateErr(r, o) = "Ok"
              /\ \E k \in 1..MAX_DEPTH :
                   /\ WithDepth(k, o) \in Endpoint
                   /\ CreateEndpoint(r, d, o) = [eps |-> Append(r.eps, WithDepth(k, o)),
                                                 total |-> r.total, owned |-> r.owned]
<1>1. ClampDepth(d) \in 1..MAX_DEPTH BY RouterAssumption DEF ClampDepth
<1>2. PICK k \in 1..MAX_DEPTH : k = ClampDepth(d) BY <1>1
<1>3. WithDepth(k, o) \in Endpoint BY WithDepthType
<1>4. PICK e \in Seq(Endpoint) : e = Append(r.eps, WithDepth(k, o))
  <2>1. Append(r.eps, WithDepth(k, o)) \in Seq(Endpoint) BY <1>3, RouterFields
  <2>2. QED BY <2>1
<1>5. [r EXCEPT !.eps = e] = [eps |-> e, total |-> r.total, owned |-> r.owned]
  BY DEF RouterState
<1>6. QED BY <1>2, <1>3, <1>4, <1>5 DEF CreateEndpoint

\* An endpoint with nothing queued adds nothing to either counter.
LEMMA TotalsAppend ==
    ASSUME NEW e \in Seq(Endpoint), NEW ep \in Endpoint, ep.queued_bytes = 0
    PROVE  /\ QueuedBytesTotal(Append(e, ep)) = QueuedBytesTotal(e)
           /\ \A p : OwnerQueuedBytes(Append(e, ep), p) = OwnerQueuedBytes(e, p)
<1>1. PICK f \in Seq(Endpoint) : f = Append(e, ep)
  <2>1. Append(e, ep) \in Seq(Endpoint) OBVIOUS
  <2>2. QED BY <2>1
<1>2. /\ Len(f) = Len(e) + 1 /\ f[Len(f)] = ep /\ Len(e) \in Nat
      /\ \A i \in 1..Len(e) : f[i] = e[i]
      /\ DOMAIN f = 1..Len(f) /\ DOMAIN e = 1..Len(e)
  BY <1>1
<1>3. ASSUME NEW s \in Seq(Nat), NEW t \in Seq(Nat), Len(s) = Len(e), Len(t) = Len(f),
             \A i \in 1..Len(e) : t[i] = s[i], t[Len(f)] = 0
      PROVE  SumSeq(t) = SumSeq(s)
  <2>1. Append(s, 0) \in Seq(Nat) /\ Len(Append(s, 0)) = Len(t) BY <1>2, <1>3
  <2>2. \A i \in 1..Len(t) : t[i] = Append(s, 0)[i] BY <1>2, <1>3
  <2>3. t = Append(s, 0) BY <2>1, <2>2, SeqEqual
  <2>4. SumSeq(t) = SumSeq(s) + 0 BY <2>3, SumSeqAppend
  <2>5. SumSeq(s) \in Nat BY SumSeqType
  <2>6. QED BY <2>4, <2>5
<1>4. QueuedBytesTotal(f) = QueuedBytesTotal(e)
  <2>1. PICK s \in Seq(Nat) : s = [i \in DOMAIN e |-> e[i].queued_bytes] /\ Len(s) = Len(e)
    BY VectorsType
  <2>2. PICK t \in Seq(Nat) : t = [i \in DOMAIN f |-> f[i].queued_bytes] /\ Len(t) = Len(f)
    BY VectorsType
  <2>3. (\A i \in 1..Len(e) : t[i] = s[i]) /\ t[Len(f)] = 0 BY <1>2, <2>1, <2>2
  <2>4. SumSeq(t) = SumSeq(s) BY <1>3, <2>1, <2>2, <2>3
  <2>5. QED BY <2>1, <2>2, <2>4 DEF QueuedBytesTotal
<1>5. ASSUME NEW p PROVE OwnerQueuedBytes(f, p) = OwnerQueuedBytes(e, p)
  <2>1. PICK s \in Seq(Nat) : s = [i \in DOMAIN e |-> ShareOf(e[i], p)] /\ Len(s) = Len(e)
    BY VectorsType
  <2>2. PICK t \in Seq(Nat) : t = [i \in DOMAIN f |-> ShareOf(f[i], p)] /\ Len(t) = Len(f)
    BY VectorsType
  <2>3. ShareOf(ep, p) = 0 BY DEF ShareOf
  <2>4. (\A i \in 1..Len(e) : t[i] = s[i]) /\ t[Len(f)] = 0 BY <1>2, <2>1, <2>2, <2>3
  <2>5. SumSeq(t) = SumSeq(s) BY <1>3, <2>1, <2>2, <2>4
  <2>6. OwnerQueuedBytes(e, p) = SumSeq(s) BY <2>1, VectorsType
  <2>7. OwnerQueuedBytes(f, p) = SumSeq(t) BY <2>2, VectorsType
  <2>8. QED BY <2>5, <2>6, <2>7
<1>6. QED BY <1>1, <1>4, <1>5

\* Creating an endpoint keeps the counters exact.
LEMMA CreateAccounting ==
    ASSUME NEW r \in RouterState, AccountingOf(r), NEW d \in Nat, NEW o \in Pid \cup {None}
    PROVE  AccountingOf(CreateEndpoint(r, d, o))
<1>1. CASE CreateEndpoint(r, d, o) = r BY <1>1
<1>2. ASSUME NEW k \in 1..MAX_DEPTH, WithDepth(k, o) \in Endpoint,
             CreateEndpoint(r, d, o) = [eps |-> Append(r.eps, WithDepth(k, o)),
                                        total |-> r.total, owned |-> r.owned]
      PROVE  AccountingOf(CreateEndpoint(r, d, o))
  <2>1. PICK ep \in Endpoint : ep = WithDepth(k, o) BY <1>2
  <2>2. ep.queue = <<>> /\ ep.queued_bytes = 0 BY <2>1 DEF WithDepth
  <2>3. PICK f \in Seq(Endpoint) : f = Append(r.eps, ep)
    <3>1. Append(r.eps, ep) \in Seq(Endpoint) BY RouterFields
    <3>2. QED BY <3>1
  <2>4. \A i \in DOMAIN f : f[i] = ep \/ (i \in DOMAIN r.eps /\ f[i] = r.eps[i])
    BY <2>3, RouterFields
  <2>5. \A i \in DOMAIN f : f[i].queued_bytes = SumSeq(Lengths(f[i].queue))
    BY <2>2, <2>4, LengthsEmpty, AccountingFacts
  <2>6. /\ QueuedBytesTotal(f) = QueuedBytesTotal(r.eps)
        /\ \A p : OwnerQueuedBytes(f, p) = OwnerQueuedBytes(r.eps, p)
    BY <2>2, <2>3, RouterFields, TotalsAppend
  <2>7. AccountingOf([eps |-> f, total |-> r.total, owned |-> r.owned])
    BY <2>5, <2>6, AccountingFacts DEF AccountingOf
  <2>8. QED BY <1>2, <2>1, <2>3, <2>7
<1>3. QED BY <1>1, <1>2, CreateCases

\* f is e with some endpoints closed.
SomeClosed(e, f) ==
    /\ f \in Seq(Endpoint) /\ DOMAIN f = DOMAIN e
    /\ \A i \in DOMAIN e : f[i] = e[i] \/ f[i] = Closed(e[i])

\* Closing changes nothing, or closes some endpoints and recomputes.
LEMMA CloseCases ==
    ASSUME NEW r \in RouterState
    PROVE  /\ \A id : \/ CloseEndpoint(r, id) = r
                      \/ \E f : /\ SomeClosed(r.eps, f)
                                /\ CloseEndpoint(r, id) = RecomputeAccounting(r, f)
           /\ \A p : \E f : /\ SomeClosed(r.eps, f)
                            /\ CloseEndpointsForOwner(r, p) = RecomputeAccounting(r, f)
<1>1. r.eps \in Seq(Endpoint) /\ \A i \in DOMAIN r.eps : Closed(r.eps[i]) \in Endpoint
  BY RouterFields, ClosedType
<1>2. ASSUME NEW id, EndpointAlive(r, id)
      PROVE  \E f : /\ SomeClosed(r.eps, f)
                    /\ CloseEndpoint(r, id) = RecomputeAccounting(r, f)
  <2>1. id \in DOMAIN r.eps BY <1>2 DEF EndpointAlive
  <2>2. PICK c \in Endpoint : c = Closed(r.eps[id]) BY <1>1, <2>1
  <2>3. PICK f \in Seq(Endpoint) : f = [r.eps EXCEPT ![id] = c]
    <3>1. [r.eps EXCEPT ![id] = c] \in Seq(Endpoint) BY <1>1, <2>1
    <3>2. QED BY <3>1
  <2>4. SomeClosed(r.eps, f)
    <3>1. DOMAIN f = DOMAIN r.eps BY <2>3
    <3>2. \A i \in DOMAIN r.eps : f[i] = r.eps[i] \/ (i = id /\ f[i] = c) BY <2>3
    <3>3. QED BY <2>2, <3>1, <3>2 DEF SomeClosed
  <2>5. CloseEndpoint(r, id) = RecomputeAccounting(r, f) BY <1>2, <2>2, <2>3 DEF CloseEndpoint
  <2>6. QED BY <2>4, <2>5
<1>3. ASSUME NEW p
      PROVE  \E f : /\ SomeClosed(r.eps, f)
                    /\ CloseEndpointsForOwner(r, p) = RecomputeAccounting(r, f)
  <2> DEFINE f == [i \in DOMAIN r.eps |-> IF i \in AliveOwnedBy(r, p) THEN Closed(r.eps[i])
                                                                     ELSE r.eps[i]]
  <2>1. f \in Seq(Endpoint) BY <1>1, RouterFields
  <2>2. SomeClosed(r.eps, f) BY <2>1 DEF SomeClosed
  <2>3. CloseEndpointsForOwner(r, p) = RecomputeAccounting(r, f) BY DEF CloseEndpointsForOwner
  <2>4. QED BY <2>2, <2>3
<1>4. \A id : ~EndpointAlive(r, id) => CloseEndpoint(r, id) = r BY DEF CloseEndpoint
<1>5. QED BY <1>2, <1>3, <1>4

\* The recomputed counters are exact.
LEMMA SomeClosedAccounting ==
    ASSUME NEW r \in RouterState, AccountingOf(r), NEW f, SomeClosed(r.eps, f)
    PROVE  AccountingOf(RecomputeAccounting(r, f))
<1>1. \A i \in DOMAIN f : f[i].queued_bytes = SumSeq(Lengths(f[i].queue))
  <2>1. ASSUME NEW ep \in Endpoint
        PROVE  Closed(ep).queued_bytes = SumSeq(Lengths(Closed(ep).queue))
    BY ClosedFields, LengthsEmpty
  <2>2. QED BY <2>1, AccountingFacts DEF SomeClosed
<1>2. QED BY <1>1 DEF RecomputeAccounting, AccountingOf

\* Closing one endpoint, or those of an owner, keeps the counters exact.
LEMMA CloseAccounting ==
    ASSUME NEW r \in RouterState, AccountingOf(r)
    PROVE  /\ \A id : AccountingOf(CloseEndpoint(r, id))
           /\ \A p : AccountingOf(CloseEndpointsForOwner(r, p))
<1>1. ASSUME NEW id PROVE AccountingOf(CloseEndpoint(r, id))
  BY CloseCases, SomeClosedAccounting
<1>2. ASSUME NEW p PROVE AccountingOf(CloseEndpointsForOwner(r, p))
  BY CloseCases, SomeClosedAccounting
<1>3. QED BY <1>1, <1>2

-----------------------------------------------------------------------------
(* Waiters *)

\* What WaitersOf says of one endpoint.
Clean(ep) ==
    /\ IsDistinct(ep.recv_waiters) /\ IsDistinct(ep.send_waiters)
    /\ ~ep.alive => ep.queue = <<>> /\ Waiters(ep) = {}

\* WaitersOf, endpoint by endpoint.
LEMMA WaitersAreClean ==
    ASSUME NEW r PROVE WaitersOf(r) <=> \A i \in DOMAIN r.eps : Clean(r.eps[i])
BY DEF WaitersOf, Clean

\* The operations on a waiter queue introduce no duplicate.
LEMMA DistinctOps ==
    ASSUME NEW ws \in Seq(Pid), IsDistinct(ws), NEW p \in Pid
    PROVE  /\ IsDistinct(AddWaiter(ws, p)) /\ IsDistinct(RemoveWaiter(ws, p))
           /\ ws # <<>> => IsDistinct(Tail(ws))
<1>1. IsDistinct(AddWaiter(ws, p))
  <2>1. CASE Contains(ws, p) BY <2>1 DEF AddWaiter
  <2>2. CASE ~Contains(ws, p)
    <3>1. \A i \in 1..Len(ws) : ws[i] # p BY <2>2 DEF Contains
    <3>2. IsDistinct(Append(ws, p)) BY <3>1 DEF IsDistinct
    <3>3. QED BY <2>2, <3>2 DEF AddWaiter
  <2>3. QED BY <2>1, <2>2
<1>2. IsDistinct(RemoveWaiter(ws, p)) BY WithoutProperties DEF RemoveWaiter
<1>3. ASSUME ws # <<>> PROVE IsDistinct(Tail(ws)) BY <1>3 DEF IsDistinct
<1>4. QED BY <1>1, <1>2, <1>3

\* Replacing an endpoint by a clean one keeps WaitersOf.
LEMMA CleanSet ==
    ASSUME NEW r \in RouterState, WaitersOf(r), NEW id \in DOMAIN r.eps, NEW ep,
           Clean(ep), NEW s, s.eps = [r.eps EXCEPT ![id] = ep]
    PROVE  WaitersOf(s)
<1>1. \A i \in DOMAIN s.eps : i \in DOMAIN r.eps /\ (s.eps[i] = ep \/ s.eps[i] = r.eps[i])
  BY RouterFields
<1>2. QED BY <1>1, WaitersAreClean

\* send and requeue_front keep WaitersOf.
LEMMA SendWaiters ==
    ASSUME NEW r \in RouterState, WaitersOf(r), NEW id, NEW m \in Message
    PROVE  WaitersOf(Send(r, id, m)) /\ WaitersOf(RequeueFront(r, id, m))
<1>1. CASE SendErr(r, id, m) # "Ok" BY <1>1 DEF Send, RequeueFront
<1>2. CASE SendErr(r, id, m) = "Ok"
  <2>1. id \in DOMAIN r.eps /\ r.eps[id].alive BY <1>2 DEF SendErr, PushErr
  <2>2. r.eps[id] \in Endpoint /\ Clean(r.eps[id]) BY <2>1, RouterFields, WaitersAreClean
  <2>3. Clean(Push(r.eps[id], m)) /\ Clean(PushFront(r.eps[id], m))
    BY <2>1, <2>2, PushFields DEF Clean, SameWaiters
  <2>4. ASSUME NEW ep, Clean(ep) PROVE WaitersOf(Charge(r, id, m, ep))
    BY <2>1, <2>4, CleanSet DEF Charge
  <2>5. QED BY <1>2, <2>3, <2>4 DEF Send, RequeueFront
<1>3. QED BY <1>1, <1>2

\* recv keeps WaitersOf.
LEMMA RecvWaiters ==
    ASSUME NEW r \in RouterState, WaitersOf(r), NEW id
    PROVE  WaitersOf(Recv(r, id))
<1>1. CASE RecvErr(r, id) # "Ok" BY <1>1 DEF Recv
<1>2. CASE RecvErr(r, id) = "Ok"
  <2>1. id \in DOMAIN r.eps /\ r.eps[id].alive BY <1>2 DEF RecvErr, EndpointAlive
  <2>2. r.eps[id] \in Endpoint /\ Clean(r.eps[id]) BY <2>1, RouterFields, WaitersAreClean
  <2>3. Clean(Pop(r.eps[id])) BY <2>1, <2>2, PopFields DEF Clean, SameWaiters
  <2>4. Recv(r, id).eps = [r.eps EXCEPT ![id] = Pop(r.eps[id])] BY <1>2 DEF Recv
  <2>5. QED BY <2>1, <2>3, <2>4, CleanSet
<1>3. QED BY <1>1, <1>2

\* So does a duplicate-free waiter queue on an endpoint that is alive.
LEMMA SetWaiters ==
    ASSUME NEW r \in RouterState, WaitersOf(r), NEW id, EndpointAlive(r, id),
           NEW ws \in Seq(Pid), IsDistinct(ws)
    PROVE  /\ WaitersOf(SetEndpoint(r, id, [r.eps[id] EXCEPT !.recv_waiters = ws]))
           /\ WaitersOf(SetEndpoint(r, id, [r.eps[id] EXCEPT !.send_waiters = ws]))
<1>1. id \in DOMAIN r.eps /\ r.eps[id].alive BY DEF EndpointAlive
<1>2. r.eps[id] \in Endpoint /\ Clean(r.eps[id]) BY <1>1, RouterFields, WaitersAreClean
<1>3. ASSUME NEW ep, Clean(ep) PROVE WaitersOf(SetEndpoint(r, id, ep))
  <2>1. SetEndpoint(r, id, ep).eps = [r.eps EXCEPT ![id] = ep]
    BY DEF SetEndpoint, RouterState
  <2>2. QED BY <1>1, <1>3, <2>1, CleanSet
<1>4. Clean([r.eps[id] EXCEPT !.recv_waiters = ws])
  <2>1. PICK ep : ep = [r.eps[id] EXCEPT !.recv_waiters = ws] OBVIOUS
  <2>2. /\ ep.recv_waiters = ws /\ ep.send_waiters = r.eps[id].send_waiters
        /\ ep.alive = r.eps[id].alive
    BY <1>2, <2>1 DEF Endpoint
  <2>3. Clean(ep) BY <1>1, <1>2, <2>2 DEF Clean
  <2>4. QED BY <2>1, <2>3
<1>5. Clean([r.eps[id] EXCEPT !.send_waiters = ws])
  <2>1. PICK ep : ep = [r.eps[id] EXCEPT !.send_waiters = ws] OBVIOUS
  <2>2. /\ ep.send_waiters = ws /\ ep.recv_waiters = r.eps[id].recv_waiters
        /\ ep.alive = r.eps[id].alive
    BY <1>2, <2>1 DEF Endpoint
  <2>3. Clean(ep) BY <1>1, <1>2, <2>2 DEF Clean
  <2>4. QED BY <2>1, <2>3
<1>6. QED BY <1>3, <1>4, <1>5

\* The waiter operations on one endpoint keep WaitersOf.
LEMMA WaiterQueueOpsWaiters ==
    ASSUME NEW r \in RouterState, WaitersOf(r), NEW id
    PROVE  /\ WaitersOf(PopRecvWaiter(r, id)) /\ WaitersOf(PopSendWaiter(r, id))
           /\ \A p \in Pid : /\ WaitersOf(RegisterRecvWaiter(r, id, p))
                             /\ WaitersOf(RegisterSendWaiter(r, id, p))
                             /\ WaitersOf(RemoveRecvWaiter(r, id, p))
                             /\ WaitersOf(RemoveSendWaiter(r, id, p))
<1>1. ASSUME EndpointAlive(r, id)
      PROVE  \A ws \in {r.eps[id].recv_waiters, r.eps[id].send_waiters} :
               ws \in Seq(Pid) /\ IsDistinct(ws)
  BY <1>1, RouterFields, EndpointFields, WaitersAreClean DEF EndpointAlive, Clean
<1>2. ASSUME NEW p \in Pid, NEW ws \in Seq(Pid), IsDistinct(ws)
      PROVE  \A xs \in {AddWaiter(ws, p), RemoveWaiter(ws, p)} :
               xs \in Seq(Pid) /\ IsDistinct(xs)
  BY <1>2, WaiterOpsType, DistinctOps
<1>3. ASSUME NEW p \in Pid
      PROVE  WaitersOf(RegisterRecvWaiter(r, id, p)) /\ WaitersOf(RegisterSendWaiter(r, id, p))
  BY <1>1, <1>2, SetWaiters DEF RegisterRecvWaiter, RegisterSendWaiter
<1>4. ASSUME NEW p \in Pid
      PROVE  WaitersOf(RemoveRecvWaiter(r, id, p)) /\ WaitersOf(RemoveSendWaiter(r, id, p))
  BY <1>1, <1>2, SetWaiters DEF RemoveRecvWaiter, RemoveSendWaiter
<1>5. ASSUME NEW ws \in Seq(Pid), IsDistinct(ws), ws # <<>>
      PROVE  Tail(ws) \in Seq(Pid) /\ IsDistinct(Tail(ws))
  BY <1>5, HeadTailProperties DEF IsDistinct
<1>6. WaitersOf(PopRecvWaiter(r, id))
  <2>1. FirstRecvWaiter(r, id) # None => EndpointAlive(r, id) /\ r.eps[id].recv_waiters # <<>>
    BY DEF FirstRecvWaiter
  <2>2. QED BY <1>1, <1>5, <2>1, SetWaiters DEF PopRecvWaiter
<1>7. WaitersOf(PopSendWaiter(r, id))
  <2>1. FirstSendWaiter(r, id) # None => EndpointAlive(r, id) /\ r.eps[id].send_waiters # <<>>
    BY DEF FirstSendWaiter
  <2>2. QED BY <1>1, <1>5, <2>1, SetWaiters DEF PopSendWaiter
<1>8. QED BY <1>3, <1>4, <1>6, <1>7

\* Removing a task from every waiter queue keeps WaitersOf.
LEMMA RemoveAllWaiters ==
    ASSUME NEW r \in RouterState, WaitersOf(r), NEW p \in Pid
    PROVE  WaitersOf(RemoveWaiterFromAll(r, p))
<1> DEFINE W(ep) == [ep EXCEPT !.recv_waiters = RemoveWaiter(ep.recv_waiters, p),
                               !.send_waiters = RemoveWaiter(ep.send_waiters, p)]
<1>1. PICK s \in RouterState : s = RemoveWaiterFromAll(r, p) BY WaiterQueueOpsType
<1>2. s.eps = [i \in DOMAIN r.eps |-> W(r.eps[i])]
  BY <1>1 DEF RemoveWaiterFromAll, RouterState
<1>3. ASSUME NEW ep \in Endpoint, Clean(ep) PROVE Clean(W(ep))
  <2>1. /\ W(ep).recv_waiters = RemoveWaiter(ep.recv_waiters, p)
        /\ W(ep).send_waiters = RemoveWaiter(ep.send_waiters, p)
        /\ W(ep).alive = ep.alive /\ W(ep).queue = ep.queue
    BY DEF Endpoint
  <2> HIDE DEF W
  <2>2. ep.recv_waiters \in Seq(Pid) /\ ep.send_waiters \in Seq(Pid) BY EndpointFields
  <2>3. ASSUME NEW ws \in Seq(Pid), IsDistinct(ws)
        PROVE  IsDistinct(RemoveWaiter(ws, p)) /\ ToSet(RemoveWaiter(ws, p)) \subseteq ToSet(ws)
    <3>1. /\ IsDistinct(Without(ws, p))
          /\ Elements(Without(ws, p)) = Elements(ws) \ {p}
      BY <2>3, WithoutProperties
    <3>2. \A xs : ToSet(xs) = Elements(xs) BY DEF ToSet, Elements
    <3>3. QED BY <3>1, <3>2 DEF RemoveWaiter
  <2>4. IsDistinct(W(ep).recv_waiters) /\ IsDistinct(W(ep).send_waiters)
    BY <1>3, <2>1, <2>2, <2>3 DEF Clean
  <2>5. Waiters(W(ep)) \subseteq Waiters(ep) BY <1>3, <2>1, <2>2, <2>3 DEF Clean, Waiters
  <2>6. QED BY <1>3, <2>1, <2>4, <2>5 DEF Clean
<1> HIDE DEF W
<1>4. \A i \in DOMAIN s.eps : Clean(s.eps[i])
  BY <1>2, <1>3, RouterFields, WaitersAreClean
<1>5. QED BY <1>1, <1>4, WaitersAreClean

\* The empty queue has no duplicates.
LEMMA EmptyDistinct == IsDistinct(<<>>) /\ ToSet(<<>>) = {}
BY DEF IsDistinct, ToSet

\* Creating an endpoint keeps WaitersOf.
LEMMA CreateWaiters ==
    ASSUME NEW r \in RouterState, WaitersOf(r), NEW d \in Nat, NEW o \in Pid \cup {None}
    PROVE  WaitersOf(CreateEndpoint(r, d, o))
<1>1. CASE CreateEndpoint(r, d, o) = r BY <1>1
<1>2. ASSUME NEW k \in 1..MAX_DEPTH, WithDepth(k, o) \in Endpoint,
             CreateEndpoint(r, d, o) = [eps |-> Append(r.eps, WithDepth(k, o)),
                                        total |-> r.total, owned |-> r.owned]
      PROVE  WaitersOf(CreateEndpoint(r, d, o))
  <2>1. PICK ep \in Endpoint : ep = WithDepth(k, o) BY <1>2
  <2>2. Clean(ep) BY <2>1, EmptyDistinct DEF WithDepth, Clean
  <2>3. PICK s : s = CreateEndpoint(r, d, o) OBVIOUS
  <2>4. s.eps = Append(r.eps, ep) BY <1>2, <2>1, <2>3
  <2>5. \A i \in DOMAIN s.eps : s.eps[i] = ep \/ (i \in DOMAIN r.eps /\ s.eps[i] = r.eps[i])
    BY <2>4, RouterFields
  <2>6. QED BY <2>2, <2>3, <2>5, WaitersAreClean
<1>3. QED BY <1>1, <1>2, CreateCases

\* Closing some endpoints empties them, which keeps WaitersOf.
LEMMA SomeClosedWaiters ==
    ASSUME NEW r \in RouterState, WaitersOf(r), NEW f, SomeClosed(r.eps, f)
    PROVE  WaitersOf(RecomputeAccounting(r, f))
<1>1. ASSUME NEW ep \in Endpoint PROVE Clean(Closed(ep))
  BY ClosedFields, EmptyDistinct DEF Clean, Waiters
<1>2. \A i \in DOMAIN f : Clean(f[i])
  BY <1>1, RouterFields, WaitersAreClean DEF SomeClosed
<1>3. RecomputeAccounting(r, f).eps = f BY DEF RecomputeAccounting
<1>4. QED BY <1>2, <1>3, WaitersAreClean

\* Closing one endpoint, or those of an owner, keeps WaitersOf.
LEMMA CloseWaiters ==
    ASSUME NEW r \in RouterState, WaitersOf(r)
    PROVE  /\ \A id : WaitersOf(CloseEndpoint(r, id))
           /\ \A p : WaitersOf(CloseEndpointsForOwner(r, p))
<1>1. ASSUME NEW id PROVE WaitersOf(CloseEndpoint(r, id))
  BY CloseCases, SomeClosedWaiters
<1>2. ASSUME NEW p PROVE WaitersOf(CloseEndpointsForOwner(r, p))
  BY CloseCases, SomeClosedWaiters
<1>3. QED BY <1>1, <1>2

-----------------------------------------------------------------------------
(* Budgets *)

\* What BudgetsOf says of one endpoint.
Fits(ep) == Len(ep.queue) <= ep.depth /\ ep.queued_bytes <= ep.max_queued_bytes

\* BudgetsOf, endpoint by endpoint.
LEMMA BudgetsParts ==
    ASSUME NEW r
    PROVE  BudgetsOf(r) <=>
             /\ \A i \in DOMAIN r.eps : Fits(r.eps[i])
             /\ r.total <= MaxQueuedBytesTotal
             /\ \A p \in Pid : r.owned[p] <= MaxQueuedBytesPerOwner
             /\ Len(r.eps) <= MAX_ENDPOINTS
             /\ \A p \in Pid : Cardinality(AliveOwnedBy(r, p)) <= MAX_ENDPOINTS_PER_OWNER
BY DEF BudgetsOf, Fits

\* An owner has finitely many endpoints.
LEMMA OwnedFinite ==
    ASSUME NEW r \in RouterState, NEW p
    PROVE  IsFiniteSet(AliveOwnedBy(r, p)) /\ Cardinality(AliveOwnedBy(r, p)) \in Nat
<1>1. DOMAIN r.eps = 1..Len(r.eps) /\ Len(r.eps) \in Nat BY RouterFields
<1>2. IsFiniteSet(DOMAIN r.eps) BY <1>1, FS_Interval
<1>3. AliveOwnedBy(r, p) \in SUBSET DOMAIN r.eps BY DEF AliveOwnedBy
<1>4. IsFiniteSet(AliveOwnedBy(r, p)) BY <1>2, <1>3, FS_Subset
<1>5. QED BY <1>4, FS_CardinalityType

\* s has the endpoints of r with the same owners, all or some still alive.
LEMMA OwnedShrinks ==
    ASSUME NEW r \in RouterState, NEW s, DOMAIN s.eps = DOMAIN r.eps,
           \A i \in DOMAIN r.eps : /\ s.eps[i].owner = r.eps[i].owner
                                   /\ s.eps[i].alive => r.eps[i].alive
    PROVE  \A p : Cardinality(AliveOwnedBy(r, p)) <= MAX_ENDPOINTS_PER_OWNER =>
                    Cardinality(AliveOwnedBy(s, p)) <= MAX_ENDPOINTS_PER_OWNER
<1> SUFFICES ASSUME NEW p, Cardinality(AliveOwnedBy(r, p)) <= MAX_ENDPOINTS_PER_OWNER
             PROVE  Cardinality(AliveOwnedBy(s, p)) <= MAX_ENDPOINTS_PER_OWNER
  OBVIOUS
<1>1. PICK A : A = AliveOwnedBy(r, p) OBVIOUS
<1>2. PICK B : B = AliveOwnedBy(s, p) OBVIOUS
<1>3. B \in SUBSET A BY <1>1, <1>2 DEF AliveOwnedBy
<1>4. IsFiniteSet(A) /\ Cardinality(A) \in Nat BY <1>1, OwnedFinite
<1>5. IsFiniteSet(B) /\ Cardinality(B) <= Cardinality(A) BY <1>3, <1>4, FS_Subset
<1>6. Cardinality(B) \in Nat BY <1>5, FS_CardinalityType
<1>7. Cardinality(A) <= MAX_ENDPOINTS_PER_OWNER BY <1>1
<1>8. Cardinality(B) <= MAX_ENDPOINTS_PER_OWNER
  BY <1>4, <1>5, <1>6, <1>7, RouterAssumption
<1>9. QED BY <1>2, <1>8

\* Replacing an endpoint by one of the same identity that fits.
LEMMA BudgetsUpdate ==
    ASSUME NEW r \in RouterState, BudgetsOf(r), NEW id \in DOMAIN r.eps,
           NEW ep \in Endpoint, Fits(ep), ep.owner = r.eps[id].owner,
           ep.alive = r.eps[id].alive, NEW t, t <= MaxQueuedBytesTotal,
           NEW o, \A p \in Pid : o[p] <= MaxQueuedBytesPerOwner
    PROVE  BudgetsOf([eps |-> [r.eps EXCEPT ![id] = ep], total |-> t, owned |-> o])
<1>1. r.eps \in Seq(Endpoint) BY RouterFields
<1>2. PICK f \in Seq(Endpoint) : f = [r.eps EXCEPT ![id] = ep]
  <2>1. [r.eps EXCEPT ![id] = ep] \in Seq(Endpoint) BY <1>1
  <2>2. QED BY <2>1
<1>3. /\ DOMAIN f = DOMAIN r.eps /\ Len(f) = Len(r.eps)
      /\ \A i \in DOMAIN r.eps : (i = id /\ f[i] = ep) \/ f[i] = r.eps[i]
  BY <1>1, <1>2
<1>4. PICK s : s = [eps |-> f, total |-> t, owned |-> o] OBVIOUS
<1>5. s.eps = f /\ s.total = t /\ s.owned = o BY <1>4
<1>6. \A i \in DOMAIN r.eps : /\ s.eps[i].owner = r.eps[i].owner
                              /\ s.eps[i].alive => r.eps[i].alive
  BY <1>3, <1>5
<1>7. \A p \in Pid : Cardinality(AliveOwnedBy(s, p)) <= MAX_ENDPOINTS_PER_OWNER
  BY <1>3, <1>5, <1>6, OwnedShrinks, BudgetsParts
<1>8. \A i \in DOMAIN s.eps : Fits(s.eps[i]) BY <1>3, <1>5, BudgetsParts
<1>9. BudgetsOf(s) BY <1>3, <1>5, <1>7, <1>8, BudgetsParts
<1>10. QED BY <1>2, <1>4, <1>9

\* The checks of send bound what a message that goes in may do.
LEMMA SendBudgets ==
    ASSUME NEW r \in RouterState, BudgetsOf(r), NEW id, NEW m \in Message
    PROVE  BudgetsOf(Send(r, id, m)) /\ BudgetsOf(RequeueFront(r, id, m))
<1>1. CASE SendErr(r, id, m) # "Ok" BY <1>1 DEF Send, RequeueFront
<1>2. CASE SendErr(r, id, m) = "Ok"
  <2>1. /\ id \in DOMAIN r.eps
        /\ ~(r.total + m.len > MaxQueuedBytesTotal)
        /\ ~(/\ OwnerOf(r, id) # None
             /\ r.owned[OwnerOf(r, id)] + m.len > MaxQueuedBytesPerOwner)
        /\ PushErr(r.eps[id], m) = "Ok"
    BY <1>2 DEF SendErr
  <2>2. r.eps[id] \in Endpoint BY <2>1, RouterFields
  <2>3. PICK e \in Endpoint : e = r.eps[id] BY <2>2
  <2>4. PICK l \in Nat : l = m.len BY RouterAssumption
  <2>5. /\ e.queue \in Seq(Message) /\ e.queued_bytes \in Nat /\ e.depth \in Nat
        /\ e.max_queued_bytes \in Nat /\ Len(e.queue) \in Nat
    BY EndpointFields
  <2>6. ~(Len(e.queue) >= e.depth) /\ ~(e.queued_bytes + l > e.max_queued_bytes)
    BY <2>1, <2>3, <2>4, <2>5 DEF PushErr
  <2>7. Len(e.queue) + 1 <= e.depth /\ e.queued_bytes + l <= e.max_queued_bytes
    BY <2>5, <2>6
  <2>8. Fits(Push(e, m)) /\ Fits(PushFront(e, m))
    <3>1. Len(Append(e.queue, m)) = Len(e.queue) + 1 /\ Len(<<m>> \o e.queue) = Len(e.queue) + 1
      BY <2>5
    <3>2. QED BY <2>4, <2>7, <3>1, PushFields DEF Fits, SameIdentity
  <2>9. r.total + m.len <= MaxQueuedBytesTotal
    <3>1. PICK t \in Nat : t = r.total BY RouterFields
    <3>2. ~(t + l > MaxQueuedBytesTotal) BY <2>1, <2>4, <3>1
    <3>3. t + l <= MaxQueuedBytesTotal BY <3>2, RouterAssumption
    <3>4. QED BY <2>4, <3>1, <3>3
  <2> DEFINE o == [p \in Pid |-> IF p = r.eps[id].owner THEN r.owned[p] + m.len
                                                        ELSE r.owned[p]]
  <2>10. ASSUME NEW p \in Pid PROVE o[p] <= MaxQueuedBytesPerOwner
    <3>1. CASE p = r.eps[id].owner
      <4>1. OwnerOf(r, id) = p /\ p # None BY <2>1, <3>1, RouterAssumption DEF OwnerOf
      <4>2. PICK b \in Nat : b = r.owned[p] BY RouterFields
      <4>3. ~(b + l > MaxQueuedBytesPerOwner) BY <2>1, <2>4, <4>1, <4>2
      <4>4. b + l <= MaxQueuedBytesPerOwner BY <4>3, RouterAssumption
      <4>5. QED BY <2>4, <3>1, <4>2, <4>4
    <3>2. CASE p # r.eps[id].owner BY <3>2, BudgetsParts
    <3>3. QED BY <3>1, <3>2
  <2>11. ASSUME NEW ep \in Endpoint, Fits(ep), ep.owner = r.eps[id].owner,
                ep.alive = r.eps[id].alive
         PROVE  BudgetsOf(Charge(r, id, m, ep))
    <3>1. PICK t : t = r.total + m.len OBVIOUS
    <3>2. PICK w : w = o OBVIOUS
    <3>3. t <= MaxQueuedBytesTotal /\ \A p \in Pid : w[p] <= MaxQueuedBytesPerOwner
      BY <2>9, <2>10, <3>1, <3>2
    <3>4. Charge(r, id, m, ep) = [eps |-> [r.eps EXCEPT ![id] = ep], total |-> t, owned |-> w]
      BY <3>1, <3>2 DEF Charge
    <3> HIDE DEF o
    <3>5. BudgetsOf([eps |-> [r.eps EXCEPT ![id] = ep], total |-> t, owned |-> w])
      BY <2>1, <2>11, <3>3, BudgetsUpdate
    <3>6. QED BY <3>4, <3>5
  <2>12. BudgetsOf(Charge(r, id, m, Push(e, m)))
    <3>1. PICK ep \in Endpoint : ep = Push(e, m) BY PushType
    <3>2. Fits(ep) /\ ep.owner = e.owner /\ ep.alive = e.alive
      BY <2>8, <3>1, PushFields DEF SameIdentity
    <3>3. QED BY <2>3, <2>11, <3>1, <3>2
  <2>13. BudgetsOf(Charge(r, id, m, PushFront(e, m)))
    <3>1. PICK ep \in Endpoint : ep = PushFront(e, m) BY PushType
    <3>2. Fits(ep) /\ ep.owner = e.owner /\ ep.alive = e.alive
      BY <2>8, <3>1, PushFields DEF SameIdentity
    <3>3. QED BY <2>3, <2>11, <3>1, <3>2
  <2>14. QED BY <1>2, <2>3, <2>12, <2>13 DEF Send, RequeueFront
<1>3. QED BY <1>1, <1>2

\* A saturating subtraction does not exceed a bound of its left side.
LEMMA SubtractBelow ==
    ASSUME NEW a \in Nat, NEW l \in Nat, NEW b \in Nat, a <= b
    PROVE  SaturatingSub(a, l) <= b
BY DEF SaturatingSub

\* recv keeps the budgets.
LEMMA RecvBudgets ==
    ASSUME NEW r \in RouterState, BudgetsOf(r), NEW id
    PROVE  BudgetsOf(Recv(r, id))
<1>1. CASE RecvErr(r, id) # "Ok" BY <1>1 DEF Recv
<1>2. CASE RecvErr(r, id) = "Ok"
  <2>1. id \in DOMAIN r.eps /\ r.eps[id].queue # <<>> BY <1>2 DEF RecvErr, EndpointAlive
  <2>2. PICK e \in Endpoint : e = r.eps[id] BY <2>1, RouterFields
  <2>3. PICK ep \in Endpoint : ep = Pop(e) /\ Head(e.queue) \in Message
    BY <2>1, <2>2, PopType
  <2>4. PICK l \in Nat : l = Head(e.queue).len BY <2>3, RouterAssumption
  <2>5. /\ e.queue \in Seq(Message) /\ e.queued_bytes \in Nat /\ e.depth \in Nat
        /\ e.max_queued_bytes \in Nat
    BY EndpointFields
  <2>6. Fits(e) BY <2>1, <2>2, BudgetsParts
  <2>7. /\ ep.owner = e.owner /\ ep.alive = e.alive /\ ep.depth = e.depth
        /\ ep.max_queued_bytes = e.max_queued_bytes /\ ep.queue = Tail(e.queue)
        /\ ep.queued_bytes = SaturatingSub(e.queued_bytes, l)
    BY <2>3, <2>4, PopFields DEF SameIdentity
  <2>8. Fits(ep)
    <3>1. Len(Tail(e.queue)) = Len(e.queue) - 1 /\ Len(e.queue) \in Nat
      BY <2>1, <2>2, <2>5
    <3>2. Len(Tail(e.queue)) <= e.depth BY <2>5, <2>6, <3>1 DEF Fits
    <3>3. SaturatingSub(e.queued_bytes, l) <= e.max_queued_bytes
      BY <2>5, <2>6, SubtractBelow DEF Fits
    <3>4. QED BY <2>7, <3>2, <3>3 DEF Fits
  <2>9. PICK t : t = SaturatingSub(r.total, l) OBVIOUS
  <2>10. t <= MaxQueuedBytesTotal
    BY <2>9, RouterFields, RouterAssumption, BudgetsParts, SubtractBelow
  <2>11. PICK o : o = [p \in Pid |-> IF p = r.eps[id].owner
                                     THEN SaturatingSub(r.owned[p], l) ELSE r.owned[p]]
    OBVIOUS
  <2>12. ASSUME NEW p \in Pid PROVE o[p] <= MaxQueuedBytesPerOwner
    <3>1. r.owned[p] \in Nat /\ r.owned[p] <= MaxQueuedBytesPerOwner
      BY RouterFields, BudgetsParts
    <3>2. SaturatingSub(r.owned[p], l) <= MaxQueuedBytesPerOwner
      BY <3>1, RouterAssumption, SubtractBelow
    <3>3. QED BY <2>11, <3>1, <3>2
  <2>13. Recv(r, id) = [eps |-> [r.eps EXCEPT ![id] = ep], total |-> t, owned |-> o]
    BY <1>2, <2>2, <2>3, <2>4, <2>9, <2>11 DEF Recv, Received
  <2>14. BudgetsOf([eps |-> [r.eps EXCEPT ![id] = ep], total |-> t, owned |-> o])
    BY <2>1, <2>2, <2>7, <2>8, <2>10, <2>12, BudgetsUpdate
  <2>15. QED BY <2>13, <2>14
<1>3. QED BY <1>1, <1>2

\* The budgets do not depend on waiters.
LEMMA OnlyWaitersBudgets ==
    ASSUME NEW r \in RouterState, NEW s, OnlyWaiters(r, s), BudgetsOf(r)
    PROVE  BudgetsOf(s)
<1>1. /\ DOMAIN s.eps = DOMAIN r.eps /\ s.total = r.total /\ s.owned = r.owned
      /\ \A i \in DOMAIN r.eps :
           /\ s.eps[i].alive = r.eps[i].alive /\ s.eps[i].owner = r.eps[i].owner
           /\ Fits(r.eps[i]) => Fits(s.eps[i])
  BY DEF OnlyWaiters, SameIdentity, SameContents, Fits
<1>2. Len(s.eps) = Len(r.eps)
  <2>1. s \in RouterState BY DEF OnlyWaiters
  <2>2. QED BY <1>1, <2>1, RouterFields
<1>3. \A p \in Pid : Cardinality(AliveOwnedBy(s, p)) <= MAX_ENDPOINTS_PER_OWNER
  BY <1>1, OwnedShrinks, BudgetsParts
<1>4. QED BY <1>1, <1>2, <1>3, BudgetsParts

\* The quotas of create bound the endpoints there are and those of an owner.
LEMMA CreateBudgets ==
    ASSUME NEW r \in RouterState, BudgetsOf(r), NEW d \in Nat, NEW o \in Pid \cup {None}
    PROVE  BudgetsOf(CreateEndpoint(r, d, o))
<1>1. CASE CreateEndpoint(r, d, o) = r BY <1>1
<1>2. ASSUME CreateErr(r, o) = "Ok",
             NEW k \in 1..MAX_DEPTH, WithDepth(k, o) \in Endpoint,
             CreateEndpoint(r, d, o) = [eps |-> Append(r.eps, WithDepth(k, o)),
                                        total |-> r.total, owned |-> r.owned]
      PROVE  BudgetsOf(CreateEndpoint(r, d, o))
  <2>1. PICK ep \in Endpoint : ep = WithDepth(k, o) BY <1>2
  <2>2. ep.alive /\ ep.owner = o /\ ep.queue = <<>> /\ ep.queued_bytes = 0
    BY <2>1 DEF WithDepth
  <2>3. Fits(ep)
    <3>1. ep.depth \in Nat /\ ep.max_queued_bytes \in Nat BY EndpointFields
    <3>2. Len(<<>>) <= ep.depth /\ 0 <= ep.max_queued_bytes BY <3>1
    <3>3. QED BY <2>2, <3>2 DEF Fits
  <2>4. PICK n \in Nat : n = Len(r.eps) BY RouterFields
  <2>5. PICK s : s = CreateEndpoint(r, d, o) OBVIOUS
  <2>6. s.eps = Append(r.eps, ep) /\ s.total = r.total /\ s.owned = r.owned
    BY <1>2, <2>1, <2>5
  <2>7. /\ DOMAIN r.eps = 1..n /\ DOMAIN s.eps = 1..(n + 1) /\ Len(s.eps) = n + 1
        /\ s.eps[n + 1] = ep /\ \A i \in 1..n : s.eps[i] = r.eps[i]
    BY <2>4, <2>6, RouterFields
  <2>8. n + 1 <= MAX_ENDPOINTS
    <3>1. ~(n >= MAX_ENDPOINTS) BY <1>2, <2>4 DEF CreateErr
    <3>2. QED BY <3>1, RouterAssumption
  <2>9. \A i \in DOMAIN s.eps : Fits(s.eps[i])
    <3>1. \A i \in 1..(n + 1) : i = n + 1 \/ i \in 1..n OBVIOUS
    <3>2. QED BY <2>3, <2>7, <3>1, BudgetsParts
  <2>10. ASSUME NEW p \in Pid
         PROVE  Cardinality(AliveOwnedBy(s, p)) <= MAX_ENDPOINTS_PER_OWNER
    <3>1. PICK A : A = AliveOwnedBy(r, p) OBVIOUS
    <3>2. /\ IsFiniteSet(A) /\ Cardinality(A) \in Nat
          /\ Cardinality(A) <= MAX_ENDPOINTS_PER_OWNER
      BY <3>1, OwnedFinite, BudgetsParts
    <3>3. CASE o # p
      <4>1. AliveOwnedBy(s, p) = A
        <5>1. \A i \in 1..(n + 1) : i = n + 1 \/ i \in 1..n OBVIOUS
        <5>2. \A i \in 1..n : i \in 1..(n + 1) /\ i # n + 1 OBVIOUS
        <5>3. QED BY <2>2, <2>7, <3>1, <3>3, <5>1, <5>2 DEF AliveOwnedBy
      <4>2. QED BY <3>2, <4>1
    <3>4. CASE o = p
      <4>1. ~(Cardinality(A) >= MAX_ENDPOINTS_PER_OWNER)
        <5>1. p # None BY RouterAssumption
        <5>2. QED BY <1>2, <3>1, <3>4, <5>1 DEF CreateErr
      <4>2. Cardinality(A) + 1 <= MAX_ENDPOINTS_PER_OWNER
        BY <3>2, <4>1, RouterAssumption
      <4>3. AliveOwnedBy(s, p) \in SUBSET (A \cup {n + 1})
        <5>1. \A i \in 1..(n + 1) : i = n + 1 \/ i \in 1..n OBVIOUS
        <5>2. QED BY <2>7, <3>1, <5>1 DEF AliveOwnedBy
      <4>4. PICK B : B = A \cup {n + 1} OBVIOUS
      <4>5. IsFiniteSet(B) /\ Cardinality(B) \in {Cardinality(A), Cardinality(A) + 1}
        BY <3>2, <4>4, FS_AddElement
      <4>6. PICK C : C = AliveOwnedBy(s, p) OBVIOUS
      <4>7. IsFiniteSet(C) /\ Cardinality(C) <= Cardinality(B)
        BY <4>3, <4>4, <4>5, <4>6, FS_Subset
      <4>8. Cardinality(C) \in Nat BY <4>7, FS_CardinalityType
      <4>9. Cardinality(C) <= MAX_ENDPOINTS_PER_OWNER
        BY <3>2, <4>2, <4>5, <4>7, <4>8, RouterAssumption
      <4>10. QED BY <4>6, <4>9
    <3>5. QED BY <3>3, <3>4
  <2>11. BudgetsOf(s) BY <2>6, <2>7, <2>8, <2>9, <2>10, BudgetsParts
  <2>12. QED BY <2>5, <2>11
<1>3. QED BY <1>1, <1>2, CreateCases

\* Closing endpoints only takes bytes and endpoints away.
LEMMA SomeClosedBudgets ==
    ASSUME NEW r \in RouterState, AccountingOf(r), BudgetsOf(r), NEW f, SomeClosed(r.eps, f)
    PROVE  BudgetsOf(RecomputeAccounting(r, f))
<1>1. r.eps \in Seq(Endpoint) /\ f \in Seq(Endpoint) /\ DOMAIN f = DOMAIN r.eps
  BY RouterFields DEF SomeClosed
<1>2. Len(f) = Len(r.eps) BY <1>1
<1>3. ASSUME NEW i \in DOMAIN r.eps
      PROVE  /\ f[i].owner = r.eps[i].owner
             /\ f[i].alive => r.eps[i].alive
             /\ f[i].queued_bytes <= r.eps[i].queued_bytes
             /\ \A p : ShareOf(f[i], p) <= ShareOf(r.eps[i], p)
             /\ Fits(f[i])
  <2>1. PICK e \in Endpoint : e = r.eps[i] BY RouterFields
  <2>2. e.queued_bytes \in Nat /\ e.depth \in Nat /\ e.max_queued_bytes \in Nat
    BY EndpointFields
  <2>3. Fits(e) BY <2>1, BudgetsParts
  <2>4. CASE f[i] = e
    <3>1. \A p : ShareOf(e, p) \in Nat BY <2>2 DEF ShareOf
    <3>2. QED BY <2>1, <2>2, <2>3, <2>4, <3>1
  <2>5. CASE f[i] = Closed(e)
    <3>1. /\ f[i].owner = e.owner /\ f[i].alive = FALSE /\ f[i].queued_bytes = 0
          /\ f[i].queue = <<>> /\ f[i].depth = e.depth
          /\ f[i].max_queued_bytes = e.max_queued_bytes
      BY <2>5, ClosedFields DEF SameIdentity
    <3>2. \A p : ShareOf(f[i], p) = 0 /\ ShareOf(e, p) \in Nat BY <2>2, <3>1 DEF ShareOf
    <3>3. \A p : ShareOf(f[i], p) <= ShareOf(e, p) BY <3>2
    <3>4. Len(<<>>) <= e.depth /\ 0 <= e.max_queued_bytes /\ 0 <= e.queued_bytes BY <2>2
    <3>5. QED BY <2>1, <3>1, <3>3, <3>4 DEF Fits
  <2>6. QED BY <2>1, <2>4, <2>5 DEF SomeClosed
<1>4. QueuedBytesTotal(f) <= QueuedBytesTotal(r.eps)
  <2>1. PICK s \in Seq(Nat) : s = [i \in DOMAIN f |-> f[i].queued_bytes] /\ Len(s) = Len(f)
    BY <1>1, VectorsType
  <2>2. PICK t \in Seq(Nat) : /\ t = [i \in DOMAIN r.eps |-> r.eps[i].queued_bytes]
                              /\ Len(t) = Len(r.eps)
    BY <1>1, VectorsType
  <2>3. Len(s) = Len(t) /\ \A i \in 1..Len(s) : s[i] <= t[i]
    BY <1>1, <1>2, <1>3, <2>1, <2>2
  <2>4. SumSeq(s) <= SumSeq(t) BY <2>3, SumSeqMonotone
  <2>5. QED BY <2>1, <2>2, <2>4 DEF QueuedBytesTotal
<1>5. ASSUME NEW p PROVE OwnerQueuedBytes(f, p) <= OwnerQueuedBytes(r.eps, p)
  <2>1. PICK s \in Seq(Nat) : s = [i \in DOMAIN f |-> ShareOf(f[i], p)] /\ Len(s) = Len(f)
    BY <1>1, VectorsType
  <2>2. PICK t \in Seq(Nat) : /\ t = [i \in DOMAIN r.eps |-> ShareOf(r.eps[i], p)]
                              /\ Len(t) = Len(r.eps)
    BY <1>1, VectorsType
  <2>3. Len(s) = Len(t) /\ \A i \in 1..Len(s) : s[i] <= t[i]
    <3>1. \A i \in DOMAIN r.eps : ShareOf(f[i], p) <= ShareOf(r.eps[i], p) BY <1>3
    <3>2. DOMAIN f = 1..Len(s) /\ DOMAIN r.eps = 1..Len(s) BY <1>1, <1>2, <2>1
    <3>3. QED BY <1>2, <2>1, <2>2, <3>1, <3>2
  <2>4. SumSeq(s) <= SumSeq(t) BY <2>3, SumSeqMonotone
  <2>5. OwnerQueuedBytes(f, p) = SumSeq(s) BY <1>1, <2>1, VectorsType
  <2>6. OwnerQueuedBytes(r.eps, p) = SumSeq(t) BY <1>1, <2>2, VectorsType
  <2>7. QED BY <2>4, <2>5, <2>6
<1>6. PICK s \in RouterState : s = RecomputeAccounting(r, f) BY <1>1, RecomputeType
<1>7. /\ s.eps = f /\ s.total = QueuedBytesTotal(f)
      /\ \A p \in Pid : s.owned[p] = OwnerQueuedBytes(f, p)
  BY <1>6 DEF RecomputeAccounting
<1>8. s.total <= MaxQueuedBytesTotal
  <2>1. s.total <= r.total BY <1>4, <1>7, AccountingFacts
  <2>2. s.total \in Nat /\ r.total \in Nat /\ r.total <= MaxQueuedBytesTotal
    BY RouterFields, BudgetsParts
  <2>3. QED BY <2>1, <2>2, RouterAssumption
<1>9. ASSUME NEW p \in Pid PROVE s.owned[p] <= MaxQueuedBytesPerOwner
  <2>1. s.owned[p] <= r.owned[p] BY <1>5, <1>7, AccountingFacts
  <2>2. s.owned[p] \in Nat /\ r.owned[p] \in Nat /\ r.owned[p] <= MaxQueuedBytesPerOwner
    BY RouterFields, BudgetsParts
  <2>3. QED BY <2>1, <2>2, RouterAssumption
<1>10. \A p \in Pid : Cardinality(AliveOwnedBy(s, p)) <= MAX_ENDPOINTS_PER_OWNER
  <2>1. DOMAIN s.eps = DOMAIN r.eps BY <1>1, <1>7
  <2>2. \A i \in DOMAIN r.eps : /\ s.eps[i].owner = r.eps[i].owner
                                /\ s.eps[i].alive => r.eps[i].alive
    BY <1>3, <1>7
  <2>3. QED BY <2>1, <2>2, OwnedShrinks, BudgetsParts
<1>11. BudgetsOf(s) BY <1>1, <1>2, <1>3, <1>7, <1>8, <1>9, <1>10, BudgetsParts
<1>12. QED BY <1>6, <1>11

\* Closing keeps the budgets: what is recomputed is at most what was counted.
LEMMA CloseBudgets ==
    ASSUME NEW r \in RouterState, AccountingOf(r), BudgetsOf(r)
    PROVE  /\ \A id : BudgetsOf(CloseEndpoint(r, id))
           /\ \A p : BudgetsOf(CloseEndpointsForOwner(r, p))
<1>1. ASSUME NEW id PROVE BudgetsOf(CloseEndpoint(r, id))
  BY CloseCases, SomeClosedBudgets
<1>2. ASSUME NEW p PROVE BudgetsOf(CloseEndpointsForOwner(r, p))
  BY CloseCases, SomeClosedBudgets
<1>3. QED BY <1>1, <1>2

-----------------------------------------------------------------------------
(* Stability of ids *)

\* What IdsStable says of a step from r to s.
Stable(r, s) ==
    \A i \in DOMAIN r.eps :
      /\ i \in DOMAIN s.eps
      /\ s.eps[i].owner = r.eps[i].owner
      /\ s.eps[i].depth = r.eps[i].depth
      /\ s.eps[i].alive => r.eps[i].alive

\* Changing nothing keeps every id stable.
LEMMA StableSame == ASSUME NEW r PROVE Stable(r, r)
BY DEF Stable

\* Two stable changes make one.
LEMMA StableTwice ==
    ASSUME NEW r, NEW s, NEW t, Stable(r, s), Stable(s, t)
    PROVE  Stable(r, t)
BY DEF Stable

\* Replacing an endpoint by one of the same identity is stable.
LEMMA StableSet ==
    ASSUME NEW r \in RouterState, NEW id \in DOMAIN r.eps, NEW ep, NEW s,
           SameIdentity(ep, r.eps[id]), ep.alive = r.eps[id].alive,
           s.eps = [r.eps EXCEPT ![id] = ep]
    PROVE  Stable(r, s)
<1>1. ASSUME NEW i \in DOMAIN r.eps
      PROVE  i \in DOMAIN s.eps /\ ((i = id /\ s.eps[i] = ep) \/ s.eps[i] = r.eps[i])
  BY RouterFields
<1>2. QED BY <1>1 DEF Stable, SameIdentity

\* send and requeue_front are stable.
LEMMA StableSend ==
    ASSUME NEW r \in RouterState, NEW id, NEW m \in Message
    PROVE  Stable(r, Send(r, id, m)) /\ Stable(r, RequeueFront(r, id, m))
<1>1. CASE SendErr(r, id, m) # "Ok" BY <1>1, StableSame DEF Send, RequeueFront
<1>2. CASE SendErr(r, id, m) = "Ok"
  <2>1. id \in DOMAIN r.eps BY <1>2 DEF SendErr
  <2>2. r.eps[id] \in Endpoint BY <2>1, RouterFields
  <2>3. ASSUME NEW ep, SameIdentity(ep, r.eps[id]), ep.alive = r.eps[id].alive
        PROVE  Stable(r, Charge(r, id, m, ep))
    <3>1. PICK s : s = Charge(r, id, m, ep) OBVIOUS
    <3>2. s.eps = [r.eps EXCEPT ![id] = ep] BY <3>1 DEF Charge
    <3>3. Stable(r, s) BY <2>1, <2>3, <3>2, StableSet
    <3>4. QED BY <3>1, <3>3
  <2>4. \A ep \in {Push(r.eps[id], m), PushFront(r.eps[id], m)} :
          SameIdentity(ep, r.eps[id]) /\ ep.alive = r.eps[id].alive
    <3>1. PICK e \in Endpoint : e = r.eps[id] BY <2>2
    <3>2. \A ep \in {Push(e, m), PushFront(e, m)} :
            SameIdentity(ep, e) /\ ep.alive = e.alive
      BY PushFields
    <3>3. QED BY <3>1, <3>2
  <2>5. QED BY <1>2, <2>3, <2>4 DEF Send, RequeueFront
<1>3. QED BY <1>1, <1>2

\* recv is stable.
LEMMA StableRecv ==
    ASSUME NEW r \in RouterState, NEW id PROVE Stable(r, Recv(r, id))
<1>1. CASE RecvErr(r, id) # "Ok" BY <1>1, StableSame DEF Recv
<1>2. CASE RecvErr(r, id) = "Ok"
  <2>1. id \in DOMAIN r.eps BY <1>2 DEF RecvErr, EndpointAlive
  <2>2. r.eps[id] \in Endpoint BY <2>1, RouterFields
  <2>3. Recv(r, id).eps = [r.eps EXCEPT ![id] = Pop(r.eps[id])] BY <1>2 DEF Recv
  <2>4. SameIdentity(Pop(r.eps[id]), r.eps[id]) /\ Pop(r.eps[id]).alive = r.eps[id].alive
    BY <2>2, PopFields
  <2>5. QED BY <2>1, <2>3, <2>4, StableSet
<1>3. QED BY <1>1, <1>2

\* A change of waiters only is stable.
LEMMA StableWaiters ==
    ASSUME NEW r, NEW s, OnlyWaiters(r, s) PROVE Stable(r, s)
BY DEF OnlyWaiters, SameIdentity, Stable

\* Creating an endpoint keeps the ids of the others.
LEMMA StableCreate ==
    ASSUME NEW r \in RouterState, NEW d \in Nat, NEW o \in Pid \cup {None}
    PROVE  Stable(r, CreateEndpoint(r, d, o))
<1>1. CASE CreateEndpoint(r, d, o) = r BY <1>1, StableSame
<1>2. ASSUME NEW k, CreateEndpoint(r, d, o).eps = Append(r.eps, k)
      PROVE  Stable(r, CreateEndpoint(r, d, o))
  <2>1. ASSUME NEW i \in DOMAIN r.eps
        PROVE  i \in DOMAIN Append(r.eps, k) /\ Append(r.eps, k)[i] = r.eps[i]
    BY RouterFields
  <2>2. QED BY <1>2, <2>1 DEF Stable
<1>3. QED
  <2>1. CreateEndpoint(r, d, o) # r =>
          \E k \in 1..MAX_DEPTH :
            CreateEndpoint(r, d, o) = [eps |-> Append(r.eps, WithDepth(k, o)),
                                       total |-> r.total, owned |-> r.owned]
    BY CreateCases
  <2>2. ASSUME NEW k, CreateEndpoint(r, d, o) = [eps |-> Append(r.eps, WithDepth(k, o)),
                                                 total |-> r.total, owned |-> r.owned]
        PROVE  Stable(r, CreateEndpoint(r, d, o))
    BY <1>2, <2>2
  <2>3. QED BY <1>1, <2>1, <2>2

\* Closing endpoints never brings one back.
LEMMA StableClose ==
    ASSUME NEW r \in RouterState
    PROVE  /\ \A id : Stable(r, CloseEndpoint(r, id))
           /\ \A p : Stable(r, CloseEndpointsForOwner(r, p))
<1>1. ASSUME NEW f, SomeClosed(r.eps, f) PROVE Stable(r, RecomputeAccounting(r, f))
  <2>1. RecomputeAccounting(r, f).eps = f BY DEF RecomputeAccounting
  <2>2. \A i \in DOMAIN r.eps : /\ Closed(r.eps[i]).owner = r.eps[i].owner
                                /\ Closed(r.eps[i]).depth = r.eps[i].depth
                                /\ Closed(r.eps[i]).alive = FALSE
    BY RouterFields, ClosedFields DEF SameIdentity
  <2>3. QED BY <1>1, <2>1, <2>2 DEF SomeClosed, Stable
<1>2. ASSUME NEW id PROVE Stable(r, CloseEndpoint(r, id))
  BY <1>1, StableSame, CloseCases
<1>3. ASSUME NEW p PROVE Stable(r, CloseEndpointsForOwner(r, p))
  BY <1>1, CloseCases
<1>4. QED BY <1>2, <1>3

-----------------------------------------------------------------------------
(* Sound routers *)

\* The inductive invariant on router values.
Sound(r) == r \in RouterState /\ AccountingOf(r) /\ BudgetsOf(r) /\ WaitersOf(r)

\* An endpoint that is as with_depth makes it.
Fresh(ep) ==
    /\ ep.queue = <<>> /\ ep.queued_bytes = 0 /\ ep.alive
    /\ ep.recv_waiters = <<>> /\ ep.send_waiters = <<>>

\* with_depth makes a fresh endpoint.
LEMMA WithDepthFresh ==
    ASSUME NEW d, NEW o
    PROVE  Fresh(WithDepth(d, o)) /\ WithDepth(d, o).owner = o
BY DEF WithDepth, Fresh

\* Zeros add up to zero.
LEMMA SumSeqZeros ==
    ASSUME NEW s \in Seq(Nat), \A i \in 1..Len(s) : s[i] = 0 PROVE SumSeq(s) = 0
<1>1. PICK f : PrefixSums(f, s, Len(s)) BY PrefixSumsExist
<1> DEFINE Z == {k \in 0..Len(s) : f[k] = 0}
<1>2. Len(s) \in Nat OBVIOUS
<1>3. 0 \in Z BY <1>1, <1>2 DEF PrefixSums
<1>4. \A k \in 0..Len(s) : k # Len(s) /\ k \in Z => k + 1 \in Z
  <2> SUFFICES ASSUME NEW k \in 0..Len(s), k # Len(s), k \in Z PROVE k + 1 \in Z
    OBVIOUS
  <2>1. k + 1 \in 1..Len(s) BY <1>2
  <2>2. f[k + 1] = f[k] + s[k + 1] BY <1>1, <1>2, <2>1 DEF PrefixSums
  <2>3. f[k + 1] = 0 BY <2>1, <2>2
  <2>4. QED BY <1>2, <2>1, <2>3
<1> HIDE DEF Z
<1>5. \A k \in 0..Len(s) : k \in Z BY <1>2, <1>3, <1>4, InductionTo
<1>6. f[Len(s)] = 0 BY <1>2, <1>5 DEF Z
<1>7. QED BY <1>1, <1>6, SumSeqIsPrefixSum

\* A router with fresh endpoints within the quotas and zero counters is sound.
LEMMA FreshSound ==
    ASSUME NEW e \in Seq(Endpoint), Len(e) <= MAX_ENDPOINTS,
           \A i \in DOMAIN e : Fresh(e[i]),
           \A p \in Pid : Cardinality({i \in DOMAIN e : e[i].owner = p})
                            <= MAX_ENDPOINTS_PER_OWNER
    PROVE  Sound([eps |-> e, total |-> 0, owned |-> [p \in Pid |-> 0]])
<1>1. DOMAIN e = 1..Len(e) /\ \A i \in DOMAIN e : e[i] \in Endpoint OBVIOUS
<1>2. \A i \in DOMAIN e : /\ e[i].queue = <<>> /\ e[i].queued_bytes = 0 /\ e[i].alive = TRUE
                          /\ e[i].recv_waiters = <<>> /\ e[i].send_waiters = <<>>
  BY <1>1, EndpointFields DEF Fresh
<1>3. PICK r : r = [eps |-> e, total |-> 0, owned |-> [p \in Pid |-> 0]] OBVIOUS
<1>4. r \in RouterState
  <2>1. 0 \in Nat /\ [p \in Pid |-> 0] \in [Pid -> Nat] OBVIOUS
  <2>2. QED BY <1>3, <2>1, MakeRouter
<1>5. r.eps = e /\ r.total = 0 /\ \A p \in Pid : r.owned[p] = 0 BY <1>3
<1>6. AccountingOf(r)
  <2>1. QueuedBytesTotal(e) = 0
    <3>1. PICK s \in Seq(Nat) : s = [i \in DOMAIN e |-> e[i].queued_bytes] /\ Len(s) = Len(e)
      BY VectorsType
    <3>2. \A i \in 1..Len(s) : s[i] = 0 BY <1>1, <1>2, <3>1
    <3>3. QED BY <3>1, <3>2, SumSeqZeros DEF QueuedBytesTotal
  <2>2. ASSUME NEW p \in Pid PROVE OwnerQueuedBytes(e, p) = 0
    <3>1. PICK s \in Seq(Nat) : s = [i \in DOMAIN e |-> ShareOf(e[i], p)] /\ Len(s) = Len(e)
      BY VectorsType
    <3>2. \A i \in DOMAIN e : ShareOf(e[i], p) = 0 BY <1>2 DEF ShareOf
    <3>3. \A i \in 1..Len(s) : s[i] = 0 BY <1>1, <3>1, <3>2
    <3>4. QED BY <3>1, <3>3, SumSeqZeros, VectorsType
  <2>3. QED BY <1>2, <1>5, <2>1, <2>2, LengthsEmpty DEF AccountingOf
<1>7. BudgetsOf(r)
  <2>1. \A i \in DOMAIN e : Fits(e[i])
    <3> SUFFICES ASSUME NEW i \in DOMAIN e PROVE Fits(e[i]) OBVIOUS
    <3>1. e[i].depth \in Nat /\ e[i].max_queued_bytes \in Nat BY <1>1, EndpointFields
    <3>2. Len(<<>>) <= e[i].depth /\ 0 <= e[i].max_queued_bytes BY <3>1
    <3>3. QED BY <1>2, <3>2 DEF Fits
  <2>2. ASSUME NEW p \in Pid
        PROVE  Cardinality(AliveOwnedBy(r, p)) <= MAX_ENDPOINTS_PER_OWNER
    <3>1. AliveOwnedBy(r, p) = {i \in DOMAIN e : e[i].owner = p}
      BY <1>2, <1>5 DEF AliveOwnedBy
    <3>2. QED BY <3>1
  <2>3. 0 <= MaxQueuedBytesTotal /\ 0 <= MaxQueuedBytesPerOwner BY RouterAssumption
  <2>4. QED BY <1>5, <2>1, <2>2, <2>3, BudgetsParts
<1>8. WaitersOf(r)
  <2>1. \A i \in DOMAIN e : Clean(e[i]) BY <1>2, EmptyDistinct DEF Clean
  <2>2. QED BY <1>5, <2>1, WaitersAreClean
<1>9. QED BY <1>3, <1>4, <1>6, <1>7, <1>8 DEF Sound

-----------------------------------------------------------------------------
(* What sending and receiving do, endpoint by endpoint *)

\* s differs from r on endpoint id at most.
OnlyAt(r, s, id) ==
    /\ DOMAIN s.eps = DOMAIN r.eps
    /\ \A j \in DOMAIN r.eps : j # id => s.eps[j] = r.eps[j]

\* A send that succeeds finds a live endpoint with room, and appends.
LEMMA SendEffect ==
    ASSUME NEW r \in RouterState, NEW id, NEW m, SendErr(r, id, m) = "Ok"
    PROVE  /\ id \in DOMAIN r.eps /\ r.eps[id].alive
           /\ Len(r.eps[id].queue) < r.eps[id].depth
           /\ OnlyAt(r, Send(r, id, m), id) /\ OnlyAt(r, RequeueFront(r, id, m), id)
           /\ Send(r, id, m).eps[id] = Push(r.eps[id], m)
           /\ RequeueFront(r, id, m).eps[id] = PushFront(r.eps[id], m)
<1>1. id \in DOMAIN r.eps /\ PushErr(r.eps[id], m) = "Ok" BY DEF SendErr
<1>2. r.eps[id] \in Endpoint BY <1>1, RouterFields
<1>3. r.eps[id].queue \in Seq(Message) /\ r.eps[id].depth \in Nat BY <1>2, EndpointFields
<1>4. r.eps[id].alive /\ Len(r.eps[id].queue) < r.eps[id].depth
  BY <1>1, <1>3 DEF PushErr
<1>5. ASSUME NEW ep
      PROVE  /\ OnlyAt(r, Charge(r, id, m, ep), id)
             /\ Charge(r, id, m, ep).eps[id] = ep
  BY <1>1, RouterFields DEF Charge, OnlyAt
<1>6. QED BY <1>1, <1>4, <1>5 DEF Send, RequeueFront

\* A receive that succeeds finds a live endpoint with messages, and pops.
LEMMA RecvEffect ==
    ASSUME NEW r \in RouterState, NEW id, RecvErr(r, id) = "Ok"
    PROVE  /\ id \in DOMAIN r.eps /\ r.eps[id].alive /\ r.eps[id].queue # <<>>
           /\ OnlyAt(r, Recv(r, id), id)
           /\ Recv(r, id).eps[id] = Pop(r.eps[id])
<1>1. id \in DOMAIN r.eps /\ r.eps[id].alive /\ r.eps[id].queue # <<>>
  BY DEF RecvErr, EndpointAlive
<1>2. Recv(r, id).eps = [r.eps EXCEPT ![id] = Pop(r.eps[id])] BY DEF Recv
<1>3. QED BY <1>1, <1>2, RouterFields DEF OnlyAt

\* A message that was just received fits again, whoever was woken since: its
\* bytes and its place are free.  The accounting makes that so.
LEMMA RequeueFits ==
    ASSUME NEW r, Sound(r), NEW id, RecvErr(r, id) = "Ok",
           NEW t, OnlyWaiters(Recv(r, id), t)
    PROVE  SendErr(t, id, Received(r, id)) = "Ok"
<1>1. r \in RouterState /\ AccountingOf(r) /\ BudgetsOf(r) BY DEF Sound
<1>2. id \in DOMAIN r.eps /\ r.eps[id].alive /\ r.eps[id].queue # <<>>
  BY DEF RecvErr, EndpointAlive
<1>3. PICK e : e = r.eps[id] OBVIOUS
<1>4. e \in Endpoint /\ r.eps \in Seq(Endpoint) BY <1>1, <1>2, <1>3, RouterFields
<1>5. PICK q \in Seq(Message) : q = e.queue BY <1>4, EndpointFields
<1>6. /\ Head(q) \in Message /\ Tail(q) \in Seq(Message)
      /\ SumSeq(Lengths(q)) = Head(q).len + SumSeq(Lengths(Tail(q)))
  BY <1>2, <1>3, <1>5, LengthsTail
<1>7. PICK l \in Nat : l = Head(q).len BY <1>6, RouterAssumption
<1>8. PICK n \in Nat : n = SumSeq(Lengths(Tail(q))) BY <1>6, LengthsType, SumSeqType
<1>9. e.queued_bytes = l + n
  BY <1>1, <1>2, <1>3, <1>5, <1>6, <1>7, <1>8, AccountingFacts
<1>10. PICK s : s = Recv(r, id) OBVIOUS
<1>11. /\ s.eps = [r.eps EXCEPT ![id] = Pop(e)] /\ s.total = SaturatingSub(r.total, l)
       /\ s.owned = [p \in Pid |-> IF p = e.owner THEN SaturatingSub(r.owned[p], l)
                                                   ELSE r.owned[p]]
  BY <1>3, <1>5, <1>7, <1>10 DEF Recv, Received
<1>12. s.eps[id] = Pop(e) /\ id \in DOMAIN s.eps BY <1>2, <1>11
<1>13. /\ Pop(e).queue = Tail(q) /\ Pop(e).queued_bytes = SaturatingSub(l + n, l)
       /\ Pop(e).alive = e.alive /\ SameIdentity(Pop(e), e)
  BY <1>4, <1>5, <1>7, <1>9, PopFields
<1>14. PICK f : f = t.eps[id] OBVIOUS
<1>15. /\ id \in DOMAIN t.eps /\ f.queue = Tail(q) /\ f.queued_bytes = n /\ f.alive
       /\ f.owner = e.owner /\ f.depth = e.depth
       /\ f.max_queued_bytes = e.max_queued_bytes
       /\ t.total = s.total /\ t.owned = s.owned
  <2>1. SaturatingSub(l + n, l) = n BY DEF SaturatingSub
  <2>2. OnlyWaiters(s, t) BY <1>10
  <2>3. /\ id \in DOMAIN t.eps /\ t.total = s.total /\ t.owned = s.owned
        /\ SameIdentity(f, Pop(e)) /\ SameContents(f, Pop(e)) /\ f.alive = Pop(e).alive
    BY <1>12, <1>14, <2>2 DEF OnlyWaiters
  <2>4. QED BY <1>2, <1>3, <1>13, <2>1, <2>3 DEF SameIdentity, SameContents
<1>16. t.total + l <= MaxQueuedBytesTotal
  <2>1. PICK a \in Nat : a = r.total BY <1>1, AccountingFacts
  <2>2. l + n <= a BY <1>1, <1>2, <1>3, <1>4, <1>9, <2>1, TotalsBound, AccountingFacts
  <2>3. l <= a BY <2>2
  <2>4. SaturatingSub(a, l) + l = a BY <2>3, SubtractExact
  <2>5. a <= MaxQueuedBytesTotal BY <1>1, <2>1 DEF BudgetsOf
  <2>6. QED BY <1>11, <1>15, <2>1, <2>4, <2>5
<1>17. ASSUME e.owner # None PROVE t.owned[e.owner] + l <= MaxQueuedBytesPerOwner
  <2>1. PICK o \in Pid : o = e.owner BY <1>4, <1>17, EndpointFields
  <2>2. PICK a \in Nat : a = r.owned[o] BY <1>1, AccountingFacts
  <2>3. ShareOf(e, o) = l + n BY <1>2, <1>3, <1>9, <2>1 DEF ShareOf
  <2>4. l + n <= a BY <1>1, <1>2, <1>3, <1>4, <2>2, <2>3, TotalsBound, AccountingFacts
  <2>5. l <= a BY <2>4
  <2>6. SaturatingSub(a, l) + l = a BY <2>5, SubtractExact
  <2>7. a <= MaxQueuedBytesPerOwner BY <1>1, <2>2 DEF BudgetsOf
  <2>8. t.owned[o] = SaturatingSub(a, l) BY <1>11, <1>15, <2>1, <2>2
  <2>9. QED BY <2>1, <2>6, <2>7, <2>8
<1>18. Len(f.queue) < f.depth /\ f.queued_bytes + l <= f.max_queued_bytes
  <2>1. Len(q) <= e.depth /\ l + n <= e.max_queued_bytes
    BY <1>1, <1>2, <1>3, <1>5, <1>9 DEF BudgetsOf
  <2>2. e.depth \in Nat /\ e.max_queued_bytes \in Nat BY <1>4, EndpointFields
  <2>3. Len(q) \in Nat /\ Len(Tail(q)) = Len(q) - 1 BY <1>2, <1>3, <1>5
  <2>4. /\ Len(f.queue) = Len(q) - 1 /\ f.depth = e.depth
        /\ f.queued_bytes = n /\ f.max_queued_bytes = e.max_queued_bytes
    BY <1>15, <2>3
  <2>5. Len(f.queue) < f.depth BY <2>1, <2>2, <2>3, <2>4
  <2>6. PICK x \in Nat : x = e.max_queued_bytes BY <2>2
  <2>7. n + l <= x BY <2>1, <2>6
  <2>8. QED BY <2>4, <2>5, <2>6, <2>7
<1>19. PICK m : m = Received(r, id) OBVIOUS
<1>20. m.len = l BY <1>3, <1>5, <1>7, <1>19 DEF Received
<1>21. PushErr(f, m) = "Ok"
  <2>1. e.depth \in Nat /\ e.max_queued_bytes \in Nat BY <1>4, EndpointFields
  <2>2. Len(f.queue) \in Nat /\ f.queued_bytes \in Nat BY <1>6, <1>15
  <2>3. ~(Len(f.queue) >= f.depth) /\ ~(f.queued_bytes + m.len > f.max_queued_bytes)
    BY <1>15, <1>18, <1>20, <2>1, <2>2
  <2>4. QED BY <1>15, <2>3 DEF PushErr
<1>22. OwnerOf(t, id) = e.owner BY <1>14, <1>15 DEF OwnerOf
<1>23. ~(t.total + m.len > MaxQueuedBytesTotal)
  <2>1. t.total \in Nat BY DEF OnlyWaiters, RouterState
  <2>2. QED BY <1>16, <1>20, <2>1, RouterAssumption
<1>24. e.owner # None => ~(t.owned[e.owner] + m.len > MaxQueuedBytesPerOwner)
  <2>1. t.owned \in [Pid -> Nat] BY DEF OnlyWaiters, RouterState
  <2>2. e.owner # None => t.owned[e.owner] \in Nat BY <1>4, <2>1, EndpointFields
  <2>3. QED BY <1>17, <1>20, <2>2, RouterAssumption
<1>25. SendErr(t, id, m) = "Ok"
  BY <1>14, <1>15, <1>21, <1>22, <1>23, <1>24 DEF SendErr
<1>26. QED BY <1>19, <1>25
=============================================================================
