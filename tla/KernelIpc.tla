----------------------------- MODULE KernelIpc -----------------------------
(***************************************************************************)
(* The IPC system calls (source/kernel/neuron/src/syscall/api/ipc_msg.rs   *)
(* and the endpoint calls of caps.rs): tasks with capability tables send,  *)
(* receive, move capabilities with messages, block with or without a       *)
(* deadline, close endpoints and exit.                                     *)
(*                                                                         *)
(* Every call runs under the big kernel lock and is one step.  A call that *)
(* blocks ends with Error::Reschedule: the task's program counter stays on *)
(* the call, and when the task runs again it makes the whole call again.   *)
(* call[p] is the call task p will make again.  Scheduling is abstracted:  *)
(* a task that is not blocked may run at any time, and a wake puts a task  *)
(* back among those (Dispatch models how, and when that fails).            *)
(***************************************************************************)
EXTENDS Router, CapTable

CONSTANTS
    Owners,         \* the owner of each endpoint at the start
    InitDepth,      \* their depth
    InitCaps,       \* the capability tables at the start
    Calls,          \* Calls[p], the IPC calls task p makes
    Legacy,         \* the tasks that use the first-generation send and recv
    Exits,          \* the tasks that may exit
    MaxNow          \* bound on time

\* A BlockReason: eps are the endpoints in whose waiter queues the task is.
Reason(on, eps, deadline) == [on |-> on, eps |-> eps, deadline |-> deadline]

IpcReason == [on : {"send", "recv"}, eps : SUBSET DOMAIN Owners, deadline : Nat]

IsIpcCall(cl) ==
    /\ cl.slot \in Slot /\ cl.len \in Nat /\ cl.move \in Slot \cup {None}
    /\ cl.nonblock \in BOOLEAN /\ cl.deadline \in Nat

ASSUME IpcAssumption ==
    /\ IsFiniteSet(Pid)
    /\ Owners \in Seq(Pid) /\ InitDepth \in 1..MAX_DEPTH
    /\ Len(Owners) <= MAX_ENDPOINTS
    /\ \A p \in Pid : Cardinality({i \in DOMAIN Owners : Owners[i] = p})
                        <= MAX_ENDPOINTS_PER_OWNER
    /\ Message = [len : 0..MAX_FRAME_BYTES, cap : Cap \cup {NoCap}]
    /\ CapSlots \in Nat /\ NoCap \notin Cap
    /\ \A cap \in Cap : cap.kind = "Endpoint" => cap.ep \in DOMAIN Owners
    /\ InitCaps \in [Pid -> Table]
    /\ \A p \in Pid : \A cl \in Calls[p] :
         cl # None /\ (cl.op \in {"send", "recv"} => IsIpcCall(cl))
    /\ None \notin Slot /\ None \notin IpcReason
    /\ Legacy \subseteq Pid /\ Exits \subseteq Pid
    /\ MaxNow \in Nat \ {0}

VARIABLES
    router,
    caps,       \* caps[p], the capability table of task p
    blocked,    \* blocked[p], None or what p is parked on
    call,       \* call[p], None or the call p is making
    exited,     \* the tasks that have exited
    now,        \* the timer
    gone        \* capabilities that were destroyed (history)

vars == <<router, caps, blocked, call, exited, now, gone>>

-----------------------------------------------------------------------------
(* Waking *)

Passed(deadline) == deadline # 0 /\ now >= deadline

\* The tasks that wake_expired_blocked finds, b being who is blocked.
Expired(b) == {p \in Pid : b[p] # None /\ Passed(b[p].deadline)}

\* r with the waiters S taken off the endpoints they are parked on.
Deregister(r, b, S) ==
    LET Parked(on, i) == {p \in S : b[p].on \in on /\ i \in b[p].eps} IN
    [r EXCEPT !.eps = [i \in DOMAIN r.eps |->
        [r.eps[i] EXCEPT
           !.recv_waiters = WithoutAll(@, Parked({"recv", "waitset"}, i)),
           !.send_waiters = WithoutAll(@, Parked({"send"}, i))]]]

\* Seeded fault: senders are not looked at.
ExpiredIpc_RecvOnly(b) == {p \in Expired(b) : b[p].on = "recv"}

\* The ones wake_expired_ipc_deadlines finds: no waitset or fence waits.
ExpiredIpc(b) == {p \in Expired(b) : b[p].on \in {"send", "recv"}}

Woken(b, S) == [p \in Pid |-> IF p \in S THEN None ELSE b[p]]

\* wake_expired_blocked, as part of a step that leaves router r and blocking b.
WakeExpired(r, b) ==
    /\ router' = Deregister(r, b, Expired(b))
    /\ blocked' = Woken(b, Expired(b))

-----------------------------------------------------------------------------
(* Task p makes the call cl *)

Runs(p) == p \notin exited /\ blocked[p] = None

\* A new call, or the one p was making when it was descheduled.
Making(p) == IF call[p] = None THEN Calls[p] ELSE {call[p]}

Return(p) == call' = [call EXCEPT ![p] = None]

\* The task blocks for the given reason, with the router parked; or, when its
\* hart has nothing else to run, its registrations are undone, which leaves
\* the router undone, it is woken again and it spins on the call.
Park(p, cl, parked, undone, reason) ==
    /\ call' = [call EXCEPT ![p] = cl]
    /\ \/ WakeExpired(parked, [blocked EXCEPT ![p] = reason])
       \/ WakeExpired(undone, blocked)

-----------------------------------------------------------------------------
(* sys_ipc_send_v1 *)

MovedCap(p, cl) == IF cl.move = None THEN NoCap ELSE caps[p][cl.move]

MessageOf(p, cl) == [len |-> cl.len, cap |-> MovedCap(p, cl)]

\* Why the capability in slot cl.move cannot be moved.
MoveErr(p, cl) ==
    IF cl.move = None THEN "Ok"
    ELSE LET cap == caps[p][cl.move] IN
         IF cap = NoCap THEN "InvalidSlot"
         ELSE IF "MANAGE" \in cap.rights \/ cap.kind = "EndpointFactory"
              THEN "PermissionDenied"
         ELSE IF cap.kind = "Endpoint" /\ ~EndpointAlive(router, cap.ep)
              THEN "NoSuchEndpoint"
         ELSE "Ok"

IpcSendErr(p, cl) ==
    IF cl.len > MAX_FRAME_BYTES THEN "InvalidArgs"
    ELSE IF ~DerivesEndpoint(caps[p], cl.slot, "SEND") THEN "PermissionDenied"
    ELSE IF MoveErr(p, cl) # "Ok" THEN MoveErr(p, cl)
    ELSE SendErr(router, caps[p][cl.slot].ep, MessageOf(p, cl))

SendBlocks(p, cl) ==
    /\ IpcSendErr(p, cl) = "QueueFull"
    /\ ~cl.nonblock
    /\ ~Passed(cl.deadline)

\* Seeded fault: no receiver is woken.
SendOk_NoWake(p, cl) ==
    /\ Runs(p) /\ cl.op = "send" /\ IpcSendErr(p, cl) = "Ok"
    /\ router' = Send(router, caps[p][cl.slot].ep, MessageOf(p, cl))
    /\ caps' = IF cl.move = None THEN caps
               ELSE [caps EXCEPT ![p] = Take(@, cl.move)]
    /\ Return(p)
    /\ UNCHANGED <<blocked, exited, now, gone>>

\* The message is queued, with its capability, and one receiver is woken.
SendOk(p, cl) ==
    LET ep == caps[p][cl.slot].ep IN
    /\ Runs(p) /\ cl.op = "send"
    /\ IpcSendErr(p, cl) = "Ok"
    /\ LET r == Send(router, ep, MessageOf(p, cl)) IN
       /\ router' = PopRecvWaiter(r, ep)
       /\ blocked' = Woken(blocked, {FirstRecvWaiter(r, ep)})
    /\ caps' = IF cl.move = None THEN caps
               ELSE [caps EXCEPT ![p] = Take(@, cl.move)]
    /\ Return(p)
    /\ UNCHANGED <<exited, now, gone>>

\* Seeded fault: the capability is taken before the call blocks.
SendWait_TakesCap(p, cl) ==
    LET ep == caps[p][cl.slot].ep IN
    /\ Runs(p) /\ cl.op = "send" /\ SendBlocks(p, cl)
    /\ Park(p, cl, RegisterSendWaiter(router, ep, p), router,
            Reason("send", {ep}, cl.deadline))
    /\ caps' = IF cl.move = None THEN caps
               ELSE [caps EXCEPT ![p] = Take(@, cl.move)]
    /\ UNCHANGED <<exited, now, gone>>

\* The queue is full: the capability stays with the sender, which is parked.
SendWait(p, cl) ==
    LET ep == caps[p][cl.slot].ep IN
    /\ Runs(p) /\ cl.op = "send"
    /\ SendBlocks(p, cl)
    /\ Park(p, cl, RegisterSendWaiter(router, ep, p), router,
            Reason("send", {ep}, cl.deadline))
    /\ UNCHANGED <<caps, exited, now, gone>>

\* An error, TimedOut among them; the capability stays with the sender.
SendFail(p, cl) ==
    /\ Runs(p) /\ cl.op = "send"
    /\ IpcSendErr(p, cl) # "Ok" /\ ~SendBlocks(p, cl)
    /\ Return(p)
    /\ UNCHANGED <<router, caps, blocked, exited, now, gone>>

-----------------------------------------------------------------------------
(* sys_ipc_recv_v1 and sys_ipc_recv_v2 *)

IpcRecvErr(p, cl) ==
    IF ~DerivesEndpoint(caps[p], cl.slot, "RECV") THEN "PermissionDenied"
    ELSE RecvErr(router, caps[p][cl.slot].ep)

RecvBlocks(p, cl) ==
    /\ IpcRecvErr(p, cl) = "QueueEmpty"
    /\ ~cl.nonblock
    /\ ~Passed(cl.deadline)

\* Seeded fault: no sender is woken.
RecvOk_NoWake(p, cl) ==
    LET ep == caps[p][cl.slot].ep IN
    /\ Runs(p) /\ cl.op = "recv" /\ IpcRecvErr(p, cl) = "Ok"
    /\ router' = Recv(router, ep)
    /\ Return(p)
    /\ UNCHANGED <<caps, blocked, exited, now, gone>>

\* A message is taken off the queue and one sender is woken.  A capability in
\* the message goes to the receiver's first free slot; without one the message
\* goes back to the front of the queue, the error of which is ignored.
RecvOk(p, cl) ==
    LET ep == caps[p][cl.slot].ep
        m  == Received(router, ep)
        r  == Recv(router, ep)
        r1 == PopSendWaiter(r, ep)
    IN  /\ Runs(p) /\ cl.op = "recv"
        /\ IpcRecvErr(p, cl) = "Ok"
        /\ blocked' = Woken(blocked, {FirstSendWaiter(r, ep)})
        /\ \/ /\ m.cap = NoCap
              /\ router' = r1
              /\ UNCHANGED caps
           \/ /\ m.cap # NoCap /\ FreeSlots(caps[p]) # {}
              /\ router' = r1
              /\ caps' = [caps EXCEPT ![p] = Allocate(@, m.cap)]
           \/ /\ m.cap # NoCap /\ FreeSlots(caps[p]) = {}
              /\ router' = RequeueFront(r1, ep, m)
              /\ UNCHANGED caps
        /\ Return(p)
        /\ UNCHANGED <<exited, now, gone>>

RecvWait(p, cl) ==
    LET ep == caps[p][cl.slot].ep IN
    /\ Runs(p) /\ cl.op = "recv"
    /\ RecvBlocks(p, cl)
    /\ Park(p, cl, RegisterRecvWaiter(router, ep, p), router,
            Reason("recv", {ep}, cl.deadline))
    /\ UNCHANGED <<caps, exited, now, gone>>

RecvFail(p, cl) ==
    /\ Runs(p) /\ cl.op = "recv"
    /\ IpcRecvErr(p, cl) # "Ok" /\ ~RecvBlocks(p, cl)
    /\ Return(p)
    /\ UNCHANGED <<router, caps, blocked, exited, now, gone>>

-----------------------------------------------------------------------------
(* The first-generation calls: no payload, no capability, no waking *)

SysSend(p, s) ==
    /\ Runs(p) /\ call[p] = None /\ p \in Legacy
    /\ DerivesEndpoint(caps[p], s, "SEND")
    /\ router' = Send(router, caps[p][s].ep, [len |-> 0, cap |-> NoCap])
    /\ UNCHANGED <<caps, blocked, call, exited, now, gone>>

\* A capability in the message is dropped with it.
SysRecv(p, s) ==
    /\ Runs(p) /\ call[p] = None /\ p \in Legacy
    /\ DerivesEndpoint(caps[p], s, "RECV")
    /\ RecvErr(router, caps[p][s].ep) = "Ok"
    /\ router' = Recv(router, caps[p][s].ep)
    /\ gone' = gone \cup ({Received(router, caps[p][s].ep).cap} \ {NoCap})
    /\ UNCHANGED <<caps, blocked, call, exited, now>>

-----------------------------------------------------------------------------
(* Closing *)

\* The capabilities in the messages of the endpoints I, and in p's table.
QueuedCaps(I) ==
    {m.cap : m \in UNION {ToSet(router.eps[i].queue) : i \in I}} \ {NoCap}

TableCaps(p) == {caps[p][s] : s \in Slot} \ {NoCap}

\* sys_cap_close
SysCapClose(p, s) ==
    /\ Runs(p) /\ call[p] = None
    /\ caps[p][s] # NoCap
    /\ caps' = [caps EXCEPT ![p] = Take(@, s)]
    /\ gone' = gone \cup {caps[p][s]}
    /\ UNCHANGED <<router, blocked, call, exited, now>>

\* Seeded fault: the drained waiters are not woken.
EndpointClose_NoWake(p, s) ==
    LET cap == caps[p][s] IN
    /\ Runs(p) /\ call[p] = None
    /\ cap # NoCap /\ cap.kind = "Endpoint" /\ "MANAGE" \in cap.rights
    /\ router' = CloseEndpoint(router, cap.ep)
    /\ caps' = [caps EXCEPT ![p] = Take(@, s)]
    /\ gone' = gone \cup {cap} \cup QueuedCaps({cap.ep})
    /\ UNCHANGED <<blocked, call, exited, now>>

\* sys_ipc_endpoint_close: the capability is taken whatever happens next; with
\* MANAGE the endpoint is closed and its waiters are woken.
EndpointClose(p, s) ==
    LET cap == caps[p][s]
        closes == cap.kind = "Endpoint" /\ "MANAGE" \in cap.rights
    IN  /\ Runs(p) /\ call[p] = None
        /\ cap # NoCap
        /\ caps' = [caps EXCEPT ![p] = Take(@, s)]
        /\ \/ /\ closes
              /\ router' = CloseEndpoint(router, cap.ep)
              /\ blocked' = Woken(blocked, DrainedByClose(router, cap.ep))
              /\ gone' = gone \cup {cap} \cup QueuedCaps({cap.ep})
           \/ /\ ~closes
              /\ gone' = gone \cup {cap}
              /\ UNCHANGED <<router, blocked>>
        /\ UNCHANGED <<call, exited, now>>

\* sys_exit: the task's endpoints are closed, it is taken off every waiter
\* queue, its capabilities are dropped and the drained waiters are woken.
SysExit(p) ==
    /\ Runs(p) /\ call[p] = None /\ p \in Exits
    /\ router' = RemoveWaiterFromAll(CloseEndpointsForOwner(router, p), p)
    /\ blocked' = Woken(blocked, DrainedByOwner(router, p))
    /\ caps' = [caps EXCEPT ![p] = [s \in Slot |-> NoCap]]
    /\ exited' = exited \cup {p}
    /\ gone' = gone \cup TableCaps(p) \cup QueuedCaps(AliveOwnedBy(router, p))
    /\ UNCHANGED <<call, now>>

-----------------------------------------------------------------------------
(* The timer *)

\* wake_expired_ipc_deadlines, on a timer interrupt.
TimerTick ==
    /\ ExpiredIpc(blocked) # {}
    /\ router' = Deregister(router, blocked, ExpiredIpc(blocked))
    /\ blocked' = Woken(blocked, ExpiredIpc(blocked))
    /\ UNCHANGED <<caps, call, exited, now, gone>>

TimePasses ==
    /\ now < MaxNow
    /\ now' = now + 1
    /\ UNCHANGED <<router, caps, blocked, call, exited, gone>>

-----------------------------------------------------------------------------

Init ==
    /\ router = [eps |-> [i \in DOMAIN Owners |-> WithDepth(InitDepth, Owners[i])],
                 total |-> 0, owned |-> [p \in Pid |-> 0]]
    /\ caps = InitCaps
    /\ blocked = [p \in Pid |-> None]
    /\ call = [p \in Pid |-> None]
    /\ exited = {}
    /\ now = 1
    /\ gone = {}

Step(p) ==
    \E cl \in Making(p) :
        \/ SendOk(p, cl) \/ SendWait(p, cl) \/ SendFail(p, cl)
        \/ RecvOk(p, cl) \/ RecvWait(p, cl) \/ RecvFail(p, cl)

Next ==
    \/ \E p \in Pid : Step(p)
    \/ \E p \in Legacy, s \in Slot : SysSend(p, s) \/ SysRecv(p, s)
    \/ \E p \in Exits, s \in Slot : SysCapClose(p, s) \/ EndpointClose(p, s)
    \/ \E p \in Exits : SysExit(p)
    \/ TimerTick \/ TimePasses

Spec == Init /\ [][Next]_vars

\* A task with a call to retry is scheduled (NoStarvation of Dispatch), time
\* passes, and the timer interrupt comes.
Fairness ==
    /\ \A p \in Pid : WF_vars(call[p] # None /\ Step(p))
    /\ WF_vars(TimerTick) /\ WF_vars(TimePasses)

FairSpec == Spec /\ Fairness

-----------------------------------------------------------------------------
(* Properties *)

Call == UNION {Calls[p] : p \in Pid}

\* Types of the variables.
TypeOK ==
    /\ router \in RouterState
    /\ caps \in [Pid -> Table]
    /\ blocked \in [Pid -> {None} \cup IpcReason]
    /\ call \in [Pid -> {None} \cup Call]
    /\ exited \subseteq Pid /\ now \in 0..MaxNow /\ gone \subseteq Cap

\* A task is parked exactly when it is in the waiter queue of the endpoint it
\* waits for, and that endpoint is alive: no close, exit or timeout leaves a
\* task parked where nobody will wake it, or a stale waiter that would swallow
\* another task's wake-up (RFC-0005: "never leave waiters stuck").
ParkedIsRegistered ==
    \A p \in Pid, i \in DOMAIN router.eps :
        /\ Contains(router.eps[i].recv_waiters, p)
             <=> blocked[p] # None /\ blocked[p].on = "recv" /\ i \in blocked[p].eps
        /\ Contains(router.eps[i].send_waiters, p)
             <=> blocked[p] # None /\ blocked[p].on = "send" /\ i \in blocked[p].eps
        /\ blocked[p] # None /\ i \in blocked[p].eps => router.eps[i].alive

\* Where cap is: the slots of tables, and the places of message queues.
SlotsOf(cap) == {x \in Pid \X Slot : caps[x[1]][x[2]] = cap}

PlacesOf(cap) ==
    UNION {{<<i, n>> : n \in {n \in DOMAIN router.eps[i].queue :
                                router.eps[i].queue[n].cap = cap}} :
           i \in DOMAIN router.eps}

\* CAP_MOVE neither loses nor duplicates a capability: until it is explicitly
\* destroyed it is in exactly one place, a slot of one task or one queued
\* message, through every error, retry, timeout and requeue (RFC-0005: "only
\* consumed on a successful enqueue", "the message MUST NOT be lost").
CapConserved ==
    \A cap \in UNION {{InitCaps[p][s] : s \in Slot} \ {NoCap} : p \in Pid} :
        Cardinality(SlotsOf(cap)) + Cardinality(PlacesOf(cap))
          = IF cap \in gone THEN 0 ELSE 1

\* Task p will retry a call of kind op on endpoint i.
Retries(p, op, i) ==
    /\ Runs(p) /\ call[p] # None /\ call[p].op = op
    /\ caps[p][call[p].slot].ep = i

\* No receiver sleeps next to a message: while a receiver is parked on an
\* endpoint with messages, some woken task is on its way to receive.
NoStrandedReceiver ==
    \A i \in DOMAIN router.eps :
        router.eps[i].recv_waiters # <<>> /\ router.eps[i].queue # <<>>
        => \E p \in Pid : Retries(p, "recv", i)

\* No sender sleeps next to free space: while a sender is parked on an
\* endpoint whose queue has room, some woken task is on its way to send.
NoStrandedSender ==
    \A i \in DOMAIN router.eps :
        /\ router.eps[i].send_waiters # <<>>
        /\ Len(router.eps[i].queue) < router.eps[i].depth
        => \E p \in Pid : Retries(p, "send", i)

\* Nobody sleeps next to what he waits for, a message or a free place, unless
\* a woken task is on its way to it: one wake-up per message and per place is
\* enough, whoever takes them first (ipc_send_v1, ipc_recv_v1).
NoStranded == NoStrandedReceiver /\ NoStrandedSender

\* A call with a deadline returns, whatever the other tasks do.
TimedCallReturns ==
    \A p \in Pid : (call[p] # None /\ call[p].deadline # 0) ~> call[p] = None

\* A blocked receiver of an endpoint with a message does not sleep for ever.
ReceiverServed ==
    \A p \in Pid, i \in DOMAIN Owners :
        (blocked[p] # None /\ blocked[p].on = "recv" /\ i \in blocked[p].eps
           /\ Pending(router, i))
        ~> (blocked[p] = None \/ ~Pending(router, i))

\* A call that may go on does so: its deadline passes, or a message is there
\* (wake_expired_ipc_deadlines, the wake-up of ipc_send_v1).
CallsReturn == TimedCallReturns /\ ReceiverServed
=============================================================================
