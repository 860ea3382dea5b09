----------------------------- MODULE KernelSync -----------------------------
(***************************************************************************)
(* Waitsets and timeline fences (source/kernel/neuron/src/waitset.rs,      *)
(* fence.rs and their system calls in syscall/api/sync_objects.rs), on top *)
(* of the IPC system calls of KernelIpc.                                   *)
(*                                                                         *)
(* A waitset is a set of endpoints: its owner waits until one of them has  *)
(* a message, parked as a receiver on all of them.  A fence is a value     *)
(* that only grows: a task waits until it reaches a target.  Both tables   *)
(* are sequences indexed by id, in which a freed object stays as a dead    *)
(* entry (ids come from a 32-bit counter and are not reused).              *)
(***************************************************************************)
EXTENDS KernelIpc

CONSTANTS
    MAX_WAITSETS, MAX_WAITSET_MEMBERS,      \* 64 and 32
    MAX_FENCES, MAX_FENCE_WAITERS,          \* 64 and 64
    InitWaitsets,   \* the waitsets at the start: owner and members of each
    InitFences,     \* the fences at the start: the owner of each
    Values,         \* the values fences are signalled to
    Users,          \* the tasks that create, extend and signal objects
    MaxIds          \* bound on the ids either table gives out

\* The capabilities that the create calls hand out.
WaitsetCap(id) == [kind |-> "Waitset", ep |-> id, rights |-> {"MANAGE"}]

FenceCap(id) == [kind |-> "Fence", ep |-> id, rights |-> {"MANAGE"}]

SyncReason ==
    [on : {"send", "recv", "waitset", "fence"}, eps : SUBSET DOMAIN Owners, deadline : Nat]

ASSUME SyncAssumption ==
    /\ MAX_WAITSETS \in Nat /\ MAX_WAITSET_MEMBERS \in Nat
    /\ MAX_FENCES \in Nat /\ MAX_FENCE_WAITERS \in Nat
    /\ Values \subseteq Nat /\ Users \subseteq Pid /\ MaxIds \in Nat
    /\ InitWaitsets \in Seq([owner : Pid, members : Seq(DOMAIN Owners), alive : BOOLEAN])
    /\ InitFences \in Seq(Pid)
    /\ \A id \in 1..MaxIds : WaitsetCap(id) \in Cap /\ FenceCap(id) \in Cap
    /\ \A p \in Pid : \A cl \in Calls[p] : cl.op \in {"waitset", "fence"} =>
         /\ cl.slot \in Slot /\ cl.deadline \in Nat
         /\ cl.op = "fence" => cl.target \in Nat
    /\ None \notin SyncReason

VARIABLES
    waitsets,   \* WaitsetTable
    fences      \* FenceTable

syncVars == <<waitsets, fences>>

allVars == <<vars, syncVars>>

Waitset(owner, members) == [owner |-> owner, members |-> members, alive |-> TRUE]

Fence(owner) == [owner |-> owner, value |-> 0, waiters |-> <<>>, alive |-> TRUE]

Live(table) == {i \in DOMAIN table : table[i].alive}

\* The id that slot s of task p names, with the check that makes it usable.
HoldsWaitset(p, s) ==
    LET cap == caps[p][s] IN
    /\ cap # NoCap /\ cap.kind = "Waitset"
    /\ waitsets[cap.ep].alive /\ waitsets[cap.ep].owner = p

HoldsFence(p, s) ==
    LET cap == caps[p][s] IN
    cap # NoCap /\ cap.kind = "Fence" /\ fences[cap.ep].alive

-----------------------------------------------------------------------------
(* Waitset table and the waiter queues of a waitset's members *)

\* sys_waitset_create, when the table and the caller have room.
WaitsetCreate(p) ==
    /\ Runs(p) /\ call[p] = None
    /\ Len(waitsets) < MaxIds
    /\ Cardinality(Live(waitsets)) < MAX_WAITSETS /\ FreeSlots(caps[p]) # {}
    /\ waitsets' = Append(waitsets, Waitset(p, <<>>))
    /\ caps' = [caps EXCEPT ![p] = AllocateHigh(@, WaitsetCap(Len(waitsets) + 1))]
    /\ UNCHANGED <<router, blocked, call, exited, now, gone, fences>>

\* sys_waitset_add: a member already there is not added twice.
WaitsetAdd(p, s, e) ==
    LET id == caps[p][s].ep
        ep == caps[p][e].ep
    IN  /\ Runs(p) /\ call[p] = None
        /\ HoldsWaitset(p, s) /\ DerivesEndpoint(caps[p], e, "RECV")
        /\ ~Contains(waitsets[id].members, ep)
        /\ Len(waitsets[id].members) < MAX_WAITSET_MEMBERS
        /\ waitsets' = [waitsets EXCEPT ![id].members = Append(@, ep)]
        /\ UNCHANGED <<vars, fences>>

\* r with p taken off, or put on, the receiver queues of the endpoints M.
ClearAll(r, p, M) ==
    [r EXCEPT !.eps = [i \in DOMAIN r.eps |->
        IF i \in M THEN [r.eps[i] EXCEPT !.recv_waiters = RemoveWaiter(@, p)]
                   ELSE r.eps[i]]]

RegisterAll(r, p, M) ==
    [r EXCEPT !.eps = [i \in DOMAIN r.eps |->
        IF i \in M /\ r.eps[i].alive
        THEN [r.eps[i] EXCEPT !.recv_waiters = AddWaiter(@, p)]
        ELSE r.eps[i]]]

-----------------------------------------------------------------------------
(* Fence table *)

\* The fences after the tasks S were taken off their waiter lists.
LeaveFences(fs, S) ==
    [f \in DOMAIN fs |-> [fs[f] EXCEPT !.waiters =
        WithoutAll(@, {w \in ToSet(@) : w.pid \in S})]]

\* register_waiter: a task that is registered already gets the new target.
RegisterWaiter(fence, p, target) ==
    [fence EXCEPT !.waiters =
        IF \E n \in DOMAIN @ : @[n].pid = p
        THEN [n \in DOMAIN @ |-> IF @[n].pid = p THEN [pid |-> p, target |-> target]
                                                 ELSE @[n]]
        ELSE Append(@, [pid |-> p, target |-> target])]

Satisfied(fence, v) == {w.pid : w \in {w \in ToSet(fence.waiters) : w.target <= v}}

SignalValue(fence, v) == IF v > fence.value THEN v ELSE fence.value

\* sys_fence_create
FenceCreate(p) ==
    /\ Runs(p) /\ call[p] = None
    /\ Len(fences) < MaxIds
    /\ Cardinality(Live(fences)) < MAX_FENCES /\ FreeSlots(caps[p]) # {}
    /\ fences' = Append(fences, Fence(p))
    /\ caps' = [caps EXCEPT ![p] = Allocate(@, FenceCap(Len(fences) + 1))]
    /\ UNCHANGED <<router, blocked, call, exited, now, gone, waitsets>>

\* Seeded fault: only the first satisfied waiter is woken.
FenceSignal_WakesOne(p, s, v) ==
    LET f == caps[p][s].ep
        value == SignalValue(fences[f], v)
    IN  /\ Runs(p) /\ call[p] = None /\ HoldsFence(p, s)
        /\ LET S == Satisfied(fences[f], value)
               one == IF S = {} THEN {} ELSE {CHOOSE q \in S : TRUE}
           IN  /\ fences' = LeaveFences([fences EXCEPT ![f].value = value], one)
               /\ blocked' = Woken(blocked, one)
        /\ UNCHANGED <<router, caps, call, exited, now, gone, waitsets>>

\* sys_fence_signal: every waiter the value satisfies is removed and woken.
FenceSignal(p, s, v) ==
    LET f == caps[p][s].ep
        value == SignalValue(fences[f], v)
        woken == Satisfied(fences[f], value)
    IN  /\ Runs(p) /\ call[p] = None
        /\ HoldsFence(p, s)
        /\ fences' = LeaveFences([fences EXCEPT ![f].value = value], woken)
        /\ blocked' = Woken(blocked, woken)
        /\ UNCHANGED <<router, caps, call, exited, now, gone, waitsets>>

-----------------------------------------------------------------------------
(* The two blocking calls *)

\* The tasks that a step takes off a fence because their deadline has passed.
TimedOut ==
    {p \in Pid : blocked[p] # None /\ blocked[p].on = "fence" /\ blocked'[p] = None}

FencesKept == fences' = LeaveFences(fences, TimedOut)

\* Seeded fault: the registrations of the last round stay.
WaitsetWait_KeepsStale(p, cl) ==
    LET members == ToSet(waitsets[caps[p][cl.slot].ep].members)
        ready == \E i \in members : Pending(router, i)
    IN  /\ Runs(p) /\ cl.op = "waitset" /\ HoldsWaitset(p, cl.slot)
        /\ \/ /\ ready \/ Passed(cl.deadline)
              /\ Return(p) /\ UNCHANGED <<router, blocked>>
           \/ /\ ~ready /\ ~Passed(cl.deadline)
              /\ Park(p, cl, RegisterAll(router, p, members), router,
                      Reason("waitset", members, cl.deadline))
        /\ FencesKept
        /\ UNCHANGED <<caps, exited, now, gone, waitsets>>

\* Seeded fault: only the first member is registered.
WaitsetWait_RegistersFirst(p, cl) ==
    LET seq == waitsets[caps[p][cl.slot].ep].members
        members == ToSet(seq)
        clear == ClearAll(router, p, members)
        ready == \E i \in members : Pending(router, i)
    IN  /\ Runs(p) /\ cl.op = "waitset" /\ HoldsWaitset(p, cl.slot)
        /\ \/ /\ ready \/ Passed(cl.deadline)
              /\ router' = clear /\ Return(p) /\ UNCHANGED blocked
           \/ /\ ~ready /\ ~Passed(cl.deadline)
              /\ Park(p, cl, RegisterAll(clear, p, {seq[n] : n \in {1} \cap DOMAIN seq}),
                      clear, Reason("waitset", members, cl.deadline))
        /\ FencesKept
        /\ UNCHANGED <<caps, exited, now, gone, waitsets>>

\* sys_waitset_wait: registrations left from an earlier round are cleared;
\* then a ready member, the deadline, or parking on every member.  Members
\* that are closed cannot be registered on, which is ignored.
WaitsetWait(p, cl) ==
    LET members == ToSet(waitsets[caps[p][cl.slot].ep].members)
        clear == ClearAll(router, p, members)
        ready == \E i \in members : Pending(router, i)
    IN  /\ Runs(p) /\ cl.op = "waitset"
        /\ HoldsWaitset(p, cl.slot)
        /\ \/ /\ ready \/ Passed(cl.deadline)
              /\ router' = clear
              /\ Return(p)
              /\ UNCHANGED blocked
           \/ /\ ~ready /\ ~Passed(cl.deadline)
              /\ Park(p, cl, RegisterAll(clear, p, members), clear,
                      Reason("waitset", members, cl.deadline))
        /\ FencesKept
        /\ UNCHANGED <<caps, exited, now, gone, waitsets>>

\* sys_fence_wait: a registration left from an earlier round is cleared; then
\* the value, the deadline, a full waiter list, or parking.
FenceWait(p, cl) ==
    LET f == caps[p][cl.slot].ep
        clear == LeaveFences(fences, {p})
        returns == \/ fences[f].value >= cl.target
                   \/ Passed(cl.deadline)
                   \/ Len(clear[f].waiters) >= MAX_FENCE_WAITERS
    IN  /\ Runs(p) /\ cl.op = "fence"
        /\ HoldsFence(p, cl.slot)
        /\ \/ /\ returns
              /\ Return(p)
              /\ fences' = clear
              /\ UNCHANGED <<router, blocked>>
           \/ /\ ~returns
              /\ Park(p, cl, router, router, Reason("fence", {}, cl.deadline))
              /\ fences' = LeaveFences(
                   IF blocked'[p] = None THEN clear
                   ELSE [clear EXCEPT ![f] = RegisterWaiter(@, p, cl.target)], TimedOut)
        /\ UNCHANGED <<caps, exited, now, gone, waitsets>>

\* The slot does not name a usable waitset or fence (any more).
WaitFail(p, cl) ==
    /\ Runs(p)
    /\ \/ cl.op = "waitset" /\ ~HoldsWaitset(p, cl.slot)
       \/ cl.op = "fence" /\ ~HoldsFence(p, cl.slot)
    /\ Return(p)
    /\ UNCHANGED <<router, caps, blocked, exited, now, gone, syncVars>>

-----------------------------------------------------------------------------

\* sys_cap_close of a waitset or fence: a waitset is freed, and a fence if its
\* creator closes it.
ObjectClose(p, s) ==
    LET cap == caps[p][s] IN
    /\ SysCapClose(p, s)
    /\ waitsets' = IF cap.kind = "Waitset" THEN [waitsets EXCEPT ![cap.ep].alive = FALSE]
                   ELSE waitsets
    /\ fences' = IF cap.kind = "Fence" /\ fences[cap.ep].owner = p
                 THEN [fences EXCEPT ![cap.ep].alive = FALSE, ![cap.ep].waiters = <<>>]
                 ELSE fences

SyncInit ==
    /\ Init
    /\ waitsets = InitWaitsets
    /\ fences = [f \in DOMAIN InitFences |-> Fence(InitFences[f])]

SyncStep(p) ==
    \E cl \in Making(p) : WaitsetWait(p, cl) \/ FenceWait(p, cl) \/ WaitFail(p, cl)

IpcNext ==
    \/ \E p \in Pid : Step(p)
    \/ \E p \in Exits, s \in Slot : EndpointClose(p, s)
    \/ \E p \in Exits : SysExit(p)
    \/ TimerTick \/ TimePasses

SyncNext ==
    \/ IpcNext /\ FencesKept /\ UNCHANGED waitsets
    \/ \E p \in Pid : SyncStep(p)
    \/ \E p \in Users : WaitsetCreate(p) \/ FenceCreate(p)
    \/ \E p \in Users, s, e \in Slot : WaitsetAdd(p, s, e)
    \/ \E p \in Users, s \in Slot, v \in Values : FenceSignal(p, s, v)
    \/ \E p \in Exits, s \in Slot : ObjectClose(p, s)

SyncSpec == SyncInit /\ [][SyncNext]_allVars

-----------------------------------------------------------------------------
(* Properties *)

BlockedOn(p, on) == blocked[p] # None /\ blocked[p].on = on

\* The fence a task's call waits for.
FenceOf(p) == fences[caps[p][call[p].slot].ep]

\* Types of the object tables.
SyncTypeOK ==
    /\ \A i \in DOMAIN waitsets :
         /\ waitsets[i].owner \in Pid /\ IsDistinct(waitsets[i].members)
         /\ Len(waitsets[i].members) <= MAX_WAITSET_MEMBERS
    /\ \A f \in DOMAIN fences :
         /\ fences[f].value \in Nat
         /\ fences[f].waiters \in Seq([pid : Pid, target : Nat])
    /\ Cardinality(Live(waitsets)) <= MAX_WAITSETS
    /\ Cardinality(Live(fences)) <= MAX_FENCES

\* A task in waitset_wait is parked on every member that is alive, and a task
\* with no call outstanding on nothing: returning from a wait, ready, timed
\* out or failed, leaves no registration that would swallow a later wake-up.
WaitsetArmed ==
    \A p \in Pid, i \in DOMAIN router.eps :
        /\ BlockedOn(p, "waitset") /\ i \in blocked[p].eps /\ router.eps[i].alive
             => Contains(router.eps[i].recv_waiters, p)
        /\ call[p] = None => ~Contains(router.eps[i].recv_waiters, p)

\* The task cannot hand the capability on: it is one that cannot be moved, or
\* the task moves none.
Keeps(p, cap) ==
    "MANAGE" \in cap.rights \/ \A cl \in Calls[p] : cl.op = "send" => cl.move = None

\* Only task rcv[i] may receive from endpoint i, and keeps that to itself; the
\* waitsets at the start consist of endpoints of their owner.
OneReceiver(rcv) ==
    /\ \A p \in Pid, s \in Slot : DerivesEndpoint(InitCaps[p], s, "RECV") =>
         rcv[InitCaps[p][s].ep] = p /\ Keeps(p, InitCaps[p][s])
    /\ \A w \in DOMAIN InitWaitsets : \A i \in ToSet(InitWaitsets[w].members) :
         rcv[i] = InitWaitsets[w].owner

\* Capabilities name objects that exist, and a waitset is in the hands of its
\* owner only (whoever closes the capability frees the waitset).
ObjectsNamed ==
    \A p \in Pid, s \in Slot : LET cap == InitCaps[p][s] IN cap # NoCap =>
        /\ cap.kind = "Waitset" => /\ cap.ep \in DOMAIN InitWaitsets
                                   /\ InitWaitsets[cap.ep].owner = p /\ Keeps(p, cap)
        /\ cap.kind = "Fence" => cap.ep \in DOMAIN InitFences

\* No lost wake-up: a task sleeps in waitset_wait only while no member has a
\* message (for endpoints with a single receiver).
WaitsetNoLostWake ==
    \A p \in Pid : BlockedOn(p, "waitset") =>
        \A i \in blocked[p].eps : ~Pending(router, i)

\* No lost wake-up: a task sleeps in fence_wait only while it is registered
\* with its target and the fence has not reached it.
FenceNoLostWake ==
    \A p \in Pid : BlockedOn(p, "fence") /\ FenceOf(p).alive =>
        /\ [pid |-> p, target |-> call[p].target] \in ToSet(FenceOf(p).waiters)
        /\ FenceOf(p).value < call[p].target

\* No waiter of a waitset or a fence sleeps past its event, and none that has
\* returned swallows the wake-up of another (waitset_wait, fence_wait, whose
\* registrations are several and are undone one by one).
NoLostWake == WaitsetArmed /\ WaitsetNoLostWake /\ FenceNoLostWake

\* A wait for a fence that has reached the target returns.
SignalledWaitReturns ==
    \A p \in Pid :
        (call[p] # None /\ call[p].op = "fence" /\ HoldsFence(p, call[p].slot)
           /\ FenceOf(p).value >= call[p].target)
        ~> call[p] = None

\* Nobody waits for a fence that has been freed (fence.rs: "no dangling
\* waiters").
NoDanglingWaiter == \A p \in Pid : BlockedOn(p, "fence") => FenceOf(p).alive

\* Nobody waits without a deadline for endpoints that are all closed
\* (RFC-0005: closed endpoints "never leave waiters stuck").  The code does not
\* keep this (README).
WaitsetNotStuck ==
    \A p \in Pid : BlockedOn(p, "waitset") /\ blocked[p].deadline = 0 =>
        \E i \in blocked[p].eps : router.eps[i].alive

\* A timed waitset_wait or fence_wait returns ("a non-zero deadline yields
\* TimedOut").  The code does not keep this (README).
TimedWaitReturns ==
    \A p \in Pid :
        (call[p] # None /\ call[p].op \in {"waitset", "fence"} /\ call[p].deadline # 0)
        ~> call[p] = None
=============================================================================
