----------------------------- MODULE RouterSpec -----------------------------
(***************************************************************************)
(* The router as a state machine: any caller in the kernel may do any of   *)
(* its operations, one at a time (the big kernel lock).                    *)
(***************************************************************************)
EXTENDS Router

CONSTANTS
    Depth,      \* queue depths callers ask for
    Waiter      \* the tasks that make blocking calls

ASSUME CallerAssumption == Depth \subseteq Nat /\ Waiter \subseteq Pid

VARIABLES
    router,
    ret         \* what the last send, recv, create or close returned

Result(res) == [res |-> res, msg |-> None]

vars == <<router, ret>>

\* Every id a caller may hold, and one that was never handed out.
EndpointId == 1..(MAX_ENDPOINTS + 1)

Init ==
    /\ router = NewRouter
    /\ ret = Result("Ok")

DoSend(id, m) ==
    /\ router' = Send(router, id, m)
    /\ ret' = Result(SendErr(router, id, m))

DoRecv(id) ==
    /\ router' = Recv(router, id)
    /\ ret' = IF RecvErr(router, id) = "Ok"
              THEN [res |-> "Ok", msg |-> Received(router, id)]
              ELSE Result(RecvErr(router, id))

\* sys_ipc_recv hands the message back when the receiver cannot hold the
\* capability that travels with it.
DoRecvRequeue(id) ==
    /\ RecvErr(router, id) = "Ok"
    /\ router' = RequeueFront(Recv(router, id), id, Received(router, id))
    /\ ret' = Result("NoSpace")

DoRegister(id, p) ==
    /\ \/ router' = RegisterRecvWaiter(router, id, p)
       \/ router' = RegisterSendWaiter(router, id, p)
    /\ UNCHANGED ret

DoPopWaiter(id) ==
    /\ \/ router' = PopRecvWaiter(router, id)
       \/ router' = PopSendWaiter(router, id)
    /\ UNCHANGED ret

DoRemoveWaiter(id, p) ==
    /\ \/ router' = RemoveRecvWaiter(router, id, p)
       \/ router' = RemoveSendWaiter(router, id, p)
       \/ router' = RemoveWaiterFromAll(router, p)
    /\ UNCHANGED ret

DoCreate(depth, owner) ==
    /\ router' = CreateEndpoint(router, depth, owner)
    /\ ret' = Result(CreateErr(router, owner))

DoClose(id) ==
    /\ router' = CloseEndpoint(router, id)
    /\ ret' = Result(IF EndpointAlive(router, id) THEN "Ok" ELSE "NoSuchEndpoint")

DoCloseOwner(p) ==
    /\ router' = CloseEndpointsForOwner(router, p)
    /\ ret' = Result("Ok")

Next ==
    \/ \E id \in EndpointId, m \in Message : DoSend(id, m)
    \/ \E id \in EndpointId : DoRecv(id)
    \/ \E id \in EndpointId : DoRecvRequeue(id)
    \/ \E id \in EndpointId, p \in Waiter : DoRegister(id, p)
    \/ \E id \in EndpointId : DoPopWaiter(id)
    \/ \E id \in EndpointId, p \in Waiter : DoRemoveWaiter(id, p)
    \/ \E d \in Depth, o \in Pid \cup {None} : DoCreate(d, o)
    \/ \E id \in EndpointId : DoClose(id)
    \/ \E p \in Pid : DoCloseOwner(p)

Spec == Init /\ [][Next]_vars

-----------------------------------------------------------------------------
(* Properties *)

\* The router is a vector of endpoints with natural-number counters.
TypeOK ==
    /\ router \in RouterState
    /\ ret \in [res : {"Ok", "NoSuchEndpoint", "QueueFull", "QueueEmpty", "NoSpace"},
               msg : Message \cup {None}]

\* The three incrementally maintained byte counters (per endpoint, global,
\* per owner) always equal what is really queued: no path through send,
\* recv, requeue or close leaks or double-counts a byte.
Accounting == AccountingOf(router)

\* No sequence of operations exceeds a queue's depth or byte limit, the
\* global or per-owner byte budget, or the endpoint quotas.
Budgets == BudgetsOf(router)

\* A task is parked at most once per waiter queue (one message wakes one
\* task), and a dead endpoint holds neither messages nor waiters: nobody can
\* be left parked on an endpoint that is gone.
WaitersOK == WaitersOf(router)

\* An endpoint id names the same endpoint for ever: ids are never reused, a
\* dead endpoint never comes back, and owner and depth are fixed, so a stale
\* capability can never reach somebody else's endpoint.
IdsStable ==
    [][\A i \in DOMAIN router.eps :
         /\ i \in DOMAIN router'.eps
         /\ router'.eps[i].owner = router.eps[i].owner
         /\ router'.eps[i].depth = router.eps[i].depth
         /\ router'.eps[i].alive => router.eps[i].alive]_vars

Abstract == INSTANCE Mailboxes WITH
    boxes <- [i \in DOMAIN router.eps |->
                [alive |-> router.eps[i].alive, owner |-> router.eps[i].owner,
                 depth |-> router.eps[i].depth, msgs |-> router.eps[i].queue]]

\* Counters, waiters and requeues are invisible to callers: the router
\* behaves as bounded FIFO mailboxes whose admission depends on contents only.
ImplementsMailboxes == Abstract!Spec
=============================================================================
