-------------------------------- MODULE Vmo --------------------------------
(***************************************************************************)
(* The arena that user memory comes from (VmoPool, syscall/api/vmo.rs) and *)
(* the system calls that take ranges from it and give them back: vmo       *)
(* create and destroy, exec and exit.  Create and exec are phased          *)
(* (trap/handler.rs): they reserve under the kernel lock, fill the memory  *)
(* with the lock dropped and publish under the lock again, while other     *)
(* harts run other calls and the idle zeroer.                              *)
(*                                                                         *)
(* Memory is counted in pages; of its contents the model keeps whether a   *)
(* page may hold something other than zeroes.                              *)
(***************************************************************************)
EXTENDS Naturals, FiniteSets, FiniteSetsExt

CONSTANTS
    VmTask,        \* tasks that make the calls
    VmSlots,       \* capability slots of a task
    Arena,         \* pages
    VmSize,        \* lengths asked for
    FreeSlots,     \* VMO_FREE_SLOTS
    ZeroBudget,    \* pages an idle step zeroes (64 KiB)
    FrontierAhead, \* FRONTIER_AHEAD
    DestroySent,   \* a task may destroy a VMO whose capability it sent
    ResumeEarly    \* an exec'd task may be resumed before exec returns

ASSUME VmoAssumption ==
    /\ Arena \in Nat /\ VmSize \subseteq Nat \ {0} /\ FreeSlots \in Nat
    /\ ZeroBudget \in Nat /\ FrontierAhead \in Nat
    /\ IsFiniteSet(VmTask) /\ VmSlots \in Nat

VARIABLES
    vmPool,     \* VMO_POOL, and the pages that are not zero
    vmCaps,     \* task -> slot -> range of its VMO capability
    vmMail,     \* the range of a capability in a queued message
    vmPend,     \* task -> its phased call
    vmChild,    \* the exec'd task: its state and image
    vmReturned  \* history: pages given back, not handed out again nor dropped

vmVars == <<vmPool, vmCaps, vmMail, vmPend, vmChild, vmReturned>>

(* A range is <<base, length>>; length 0 is no range. *)
NoRange == <<0, 0>>
Pages(r) == r[1]..(r[1] + r[2] - 1)
Entries == 1..FreeSlots
Idle == [stage |-> "none", call |-> "none", range |-> NoRange]
NoChild == [state |-> "none", image |-> NoRange]

VmInit ==
    /\ vmPool = [next |-> 0, zeroed |-> 0, leaked |-> 0, stale |-> 0..(Arena - 1),
                 free |-> [i \in Entries |-> NoRange],
                 dirty |-> [i \in Entries |-> NoRange]]
    /\ vmCaps = [t \in VmTask |-> [s \in 1..VmSlots |-> NoRange]]
    /\ vmMail = NoRange
    /\ vmPend = [t \in VmTask |-> Idle]
    /\ vmChild = NoChild /\ vmReturned = {}

-----------------------------------------------------------------------------
(* The pool. *)

Fits(p, n) == {i \in Entries : p.free[i][2] >= n}
CanAllocate(p, n) == Fits(p, n) # {} \/ p.next + n <= Arena

(* allocate_nozero: the first best fit of the clean list, else the frontier. *)
BestFit(p, n) ==
    CHOOSE i \in Fits(p, n) : \A j \in Fits(p, n) :
        p.free[i][2] < p.free[j][2] \/ (p.free[i][2] = p.free[j][2] /\ i <= j)

AllocateNozero(p, n) ==
    IF Fits(p, n) # {}
    THEN LET i == BestFit(p, n)
             r == p.free[i]
         IN  [range |-> <<r[1], n>>, zero |-> FALSE,
              pool |-> [p EXCEPT !.free[i] =
                           IF r[2] > n THEN <<r[1] + n, r[2] - n>> ELSE NoRange]]
    ELSE [range |-> <<p.next, n>>, zero |-> p.zeroed < p.next + n,
          pool |-> [p EXCEPT !.next = @ + n]]

EmptyEntries(list) == {i \in Entries : list[i] = NoRange}

Placed(p, r) ==
    IF EmptyEntries(p.free) = {}
    THEN [p EXCEPT !.leaked = @ + r[2]]
    ELSE [p EXCEPT !.free[Min(EmptyEntries(p.free))] = r]

Rejected(p, r) ==
    \/ r[1] + r[2] > p.next
    \/ \E i \in Entries : Pages(r) \cap (Pages(p.free[i]) \cup Pages(p.dirty[i])) # {}

PoolFree_Fault(p, r) ==
    IF Rejected(p, r) THEN p
    ELSE IF r[1] + r[2] = p.next THEN [p EXCEPT !.next = r[1]]
    ELSE IF EmptyEntries(p.dirty) # {} THEN [p EXCEPT !.dirty[Min(EmptyEntries(p.dirty))] = r]
    ELSE Placed([p EXCEPT !.stale = @ \ Pages(r)], r)

(* VmoPool::free: back to the frontier, else to be zeroed by an idle hart,   *)
(* else zeroed here.                                                         *)
PoolFree(p, r) ==
    IF Rejected(p, r) THEN p
    ELSE IF r[1] + r[2] = p.next THEN [p EXCEPT !.next = r[1], !.zeroed = Min({@, r[1]})]
    ELSE IF EmptyEntries(p.dirty) # {} THEN [p EXCEPT !.dirty[Min(EmptyEntries(p.dirty))] = r]
    ELSE Placed([p EXCEPT !.stale = @ \ Pages(r)], r)

(* One pass over the clean list takes the neighbours of a range out of it. *)
JoinEntry(acc, i) ==
    LET e == acc.free[i]
        r == acc.range
        without == [acc.free EXCEPT ![i] = NoRange]
    IN  IF e = NoRange THEN acc
        ELSE IF e[1] + e[2] = r[1] THEN [free |-> without, range |-> <<e[1], e[2] + r[2]>>]
        ELSE IF r[1] + r[2] = e[1] THEN [free |-> without, range |-> <<r[1], r[2] + e[2]>>]
        ELSE acc

Coalesced(list, range) ==
    LET join[i \in 0..FreeSlots] ==
          IF i = 0 THEN [free |-> list, range |-> range] ELSE JoinEntry(join[i - 1], i)
    IN  join[FreeSlots]

ZeroDirty_Fault(p) ==
    LET i == Min(Entries \ EmptyEntries(p.dirty))
        r == p.dirty[i]
        joined == Coalesced(p.free, r)
    IN  Placed([p EXCEPT !.stale = @ \ Pages(r), !.dirty[i] = NoRange, !.free = joined.free], r)

(* idle_zero_step on the first dirty range: it is promoted once it is clean. *)
ZeroDirty(p) ==
    LET i == Min(Entries \ EmptyEntries(p.dirty))
        r == p.dirty[i]
        n == Min({r[2], ZeroBudget})
        zeroed == [p EXCEPT !.stale = @ \ Pages(<<r[1], n>>)]
        joined == Coalesced(p.free, r)
    IN  IF n = r[2]
        THEN Placed([zeroed EXCEPT !.dirty[i] = NoRange, !.free = joined.free], joined.range)
        ELSE [zeroed EXCEPT !.dirty[i] = <<r[1] + n, r[2] - n>>]

(* idle_zero_step with nothing dirty: the frontier of clean memory advances. *)
ZeroFrontier(p) ==
    LET from == Max({p.zeroed, p.next})
        end == Max({from, Min({Arena, p.next + FrontierAhead, from + ZeroBudget})})
    IN  [p EXCEPT !.zeroed = end, !.stale = @ \ (from..(end - 1))]

(* What ZeroDirty takes off the dirty list and puts nowhere: of a range      *)
(* longer than the budget only the tail stays listed.                        *)
DroppedHead(p) ==
    LET r == p.dirty[Min(Entries \ EmptyEntries(p.dirty))]
    IN  IF r[2] > ZeroBudget THEN Pages(<<r[1], ZeroBudget>>) ELSE {}

(* cpu_main's idle hook; it takes the pool's lock only. *)
IdleZeroStep ==
    /\ IF EmptyEntries(vmPool.dirty) # Entries
       THEN /\ vmPool' = ZeroDirty(vmPool)
            /\ vmReturned' = vmReturned \ DroppedHead(vmPool)
       ELSE vmPool' = ZeroFrontier(vmPool) /\ UNCHANGED vmReturned
    /\ UNCHANGED <<vmCaps, vmMail, vmPend, vmChild>>

-----------------------------------------------------------------------------
(* Phased calls. *)

GiveBack(r) ==
    /\ vmPool' = PoolFree(vmPool, r)
    /\ vmReturned' = IF Rejected(vmPool, r) THEN vmReturned ELSE vmReturned \cup Pages(r)

HandOut(got) ==
    /\ vmPool' = got.pool
    /\ vmReturned' = vmReturned \ Pages(got.range)

(* Phase A of vmo_create (vmo_create_reserve). *)
Reserve(t, n) ==
    /\ vmPend[t] = Idle /\ CanAllocate(vmPool, n)
    /\ LET got == AllocateNozero(vmPool, n)
       IN  /\ HandOut(got)
           /\ vmPend' = [vmPend EXCEPT ![t] =
                            [stage |-> IF got.zero THEN "zero" ELSE "publish",
                             call |-> "create", range |-> got.range]]
    /\ UNCHANGED <<vmCaps, vmMail, vmChild>>

(* Phase A of exec: the child's memory, and the child itself, suspended.  If *)
(* a later part of it fails, exec_v2 gives the memory back, exec does not.   *)
ExecPhaseA(t, n) ==
    /\ vmPend[t] = Idle /\ vmChild.state = "none" /\ CanAllocate(vmPool, n)
    /\ LET got == AllocateNozero(vmPool, n)
       IN  \/ /\ HandOut(got)
              /\ vmPend' = [vmPend EXCEPT ![t] =
                               [stage |-> IF got.zero THEN "zero" ELSE "publish",
                                call |-> "exec", range |-> got.range]]
              /\ vmChild' = [state |-> "suspended", image |-> got.range]
           \/ /\ vmPool' = PoolFree(got.pool, got.range)
              /\ vmReturned' = vmReturned \cup Pages(got.range)
              /\ UNCHANGED <<vmPend, vmChild>>
           \/ /\ HandOut(got)
              /\ UNCHANGED <<vmPend, vmChild>>
    /\ UNCHANGED <<vmCaps, vmMail>>

(* Phase B, with the kernel lock dropped. *)
ZeroRange(t) ==
    /\ vmPend[t].stage = "zero"
    /\ vmPool' = [vmPool EXCEPT !.stale = @ \ Pages(vmPend[t].range)]
    /\ vmPend' = [vmPend EXCEPT ![t].stage = "publish"]
    /\ UNCHANGED <<vmCaps, vmMail, vmChild, vmReturned>>

(* The segments are copied; exec has nothing to do under the lock again. *)
CopySegments(t) ==
    /\ vmPend[t].stage = "publish" /\ vmPend[t].call = "exec"
    /\ vmPool' = [vmPool EXCEPT !.stale = @ \cup Pages(vmPend[t].range)]
    /\ vmPend' = [vmPend EXCEPT ![t] = Idle]
    /\ UNCHANGED <<vmCaps, vmMail, vmChild, vmReturned>>

(* Phase C (vmo_create_finish): into a slot the caller names, over what is   *)
(* there, or into the first free one; with none free the range goes back.    *)
CreateFinish(t, named) ==
    LET free == {s \in 1..VmSlots : vmCaps[t][s] = NoRange}
        into == IF named # 0 THEN {named} ELSE IF free = {} THEN {} ELSE {Min(free)}
    IN  /\ vmPend[t].stage = "publish" /\ vmPend[t].call = "create"
        /\ vmPend' = [vmPend EXCEPT ![t] = Idle]
        /\ IF into = {}
           THEN GiveBack(vmPend[t].range) /\ UNCHANGED vmCaps
           ELSE /\ vmCaps' = [vmCaps EXCEPT ![t] =
                     [s \in 1..VmSlots |-> IF s \in into THEN vmPend[t].range ELSE @[s]]]
                /\ UNCHANGED <<vmPool, vmReturned>>
        /\ UNCHANGED <<vmMail, vmChild>>

-----------------------------------------------------------------------------
(* Calls that hold the kernel lock throughout. *)

Holds(t, s) == vmPend[t] = Idle /\ vmCaps[t][s] # NoRange

(* References to a range in the capability tables (vmo_overlap_count). *)
References(r) ==
    {c \in VmTask \X (1..VmSlots) : Pages(vmCaps[c[1]][c[2]]) \cap Pages(r) # {}}

CanDestroy_Fault(t, s) == Holds(t, s)
CanDestroy(t, s) == Holds(t, s) /\ Cardinality(References(vmCaps[t][s])) = 1

(* sys_vmo_destroy.  It is for VMOs that were never shared: unless           *)
(* DestroySent, no task destroys one that a queued message refers to.        *)
VmoDestroy(t, s) ==
    /\ CanDestroy(t, s)
    /\ DestroySent \/ Pages(vmMail) \cap Pages(vmCaps[t][s]) = {}
    /\ GiveBack(vmCaps[t][s])
    /\ vmCaps' = [vmCaps EXCEPT ![t][s] = NoRange]
    /\ UNCHANGED <<vmMail, vmPend, vmChild>>

(* vmo_write, or a store through a mapping. *)
VmoWrite(t, s) ==
    /\ Holds(t, s)
    /\ vmPool' = [vmPool EXCEPT !.stale = @ \cup Pages(vmCaps[t][s])]
    /\ UNCHANGED <<vmCaps, vmMail, vmPend, vmChild, vmReturned>>

(* cap_transfer or cap_clone puts a copy into a free slot; cap_close drops   *)
(* one, and the memory stays allocated.                                      *)
CopyOrClose(t, s) ==
    /\ Holds(t, s)
    /\ \/ \E u \in VmTask, d \in 1..VmSlots :
             /\ vmCaps[u][d] = NoRange
             /\ vmCaps' = [vmCaps EXCEPT ![u][d] = vmCaps[t][s]]
       \/ vmCaps' = [vmCaps EXCEPT ![t][s] = NoRange]
    /\ UNCHANGED <<vmPool, vmMail, vmPend, vmChild, vmReturned>>

(* A message takes a copy of the capability along, or one is received. *)
SendOrReceive(t, s) ==
    /\ vmPend[t] = Idle
    /\ \/ /\ vmMail = NoRange /\ vmCaps[t][s] # NoRange
          /\ vmMail' = vmCaps[t][s] /\ UNCHANGED vmCaps
       \/ /\ vmMail # NoRange /\ vmCaps[t][s] = NoRange
          /\ vmCaps' = [vmCaps EXCEPT ![t][s] = vmMail] /\ vmMail' = NoRange
    /\ UNCHANGED <<vmPool, vmPend, vmChild, vmReturned>>

CopyingImage == \E t \in VmTask : vmPend[t].call = "exec"

(* sys_task_resume, by whichever task. *)
TaskResume ==
    /\ vmChild.state = "suspended" /\ (ResumeEarly \/ ~CopyingImage)
    /\ vmChild' = [vmChild EXCEPT !.state = "running"]
    /\ UNCHANGED <<vmPool, vmCaps, vmMail, vmPend, vmReturned>>

(* exit_current_and_release. *)
ExitAndRelease ==
    /\ vmChild.state = "running"
    /\ GiveBack(vmChild.image)
    /\ vmChild' = NoChild
    /\ UNCHANGED <<vmCaps, vmMail, vmPend>>

VmNext ==
    \/ IdleZeroStep \/ TaskResume \/ ExitAndRelease
    \/ \E t \in VmTask :
         \/ \E n \in VmSize : Reserve(t, n) \/ ExecPhaseA(t, n)
         \/ ZeroRange(t) \/ CopySegments(t)
         \/ \E s \in 0..VmSlots : CreateFinish(t, s)
         \/ \E s \in 1..VmSlots : VmoDestroy(t, s) \/ VmoWrite(t, s) \/ CopyOrClose(t, s)
                                  \/ SendOrReceive(t, s)

VmoSpec == VmInit /\ [][VmNext]_vmVars

-----------------------------------------------------------------------------
(* Who holds which pages: capabilities (in tables or in a message), calls    *)
(* that are not done, the image of a task, the lists and the frontier.       *)
Holding(what, at, range) == [what |-> what, at |-> at, range |-> range]

Holdings ==
    UNION { {Holding("vmo", 0, vmCaps[t][s]) : t \in VmTask, s \in 1..VmSlots},
            {Holding("vmo", 0, vmMail)},
            {Holding("call", t, vmPend[t].range) : t \in VmTask},
            IF CopyingImage THEN {} ELSE {Holding("image", 0, vmChild.image)},
            {Holding("free", i, vmPool.free[i]) : i \in Entries},
            {Holding("dirty", i, vmPool.dirty[i]) : i \in Entries},
            {Holding("frontier", 0, <<vmPool.next, Arena - vmPool.next>>)} }

(* No page has two owners: a range that a call reserved, a capability names, *)
(* a program runs in or a list offers for reuse overlaps no other one, while *)
(* calls on other harts reserve, free, split and join ranges between the     *)
(* phases (phased_syscall, VmoPool::free, sys_vmo_destroy's one reference).  *)
VmDisjoint ==
    \A a, b \in Holdings : a # b => Pages(a.range) \cap Pages(b.range) = {}

(* What is published is zero: when the zeroing phase is over, or was skipped *)
(* since the pool called the range clean, no page holds what an earlier      *)
(* owner wrote (vmo.rs: "pages must never leak stale contents").             *)
VmFreshIsZero ==
    \A t \in VmTask : vmPend[t].stage = "publish" =>
        Pages(vmPend[t].range) \cap vmPool.stale = {}

(* Pages that were given back can be had again: they are on a list or beyond *)
(* the frontier, except for what `leaked` counts (VmoPool::free, "when the   *)
(* bounded free list is full the range is leaked (counted)") and for the     *)
(* zeroed heads of ranges longer than one idle step zeroes (DroppedHead),    *)
(* which nothing lists or counts.                                            *)
VmReturnedKept ==
    LET listed == UNION {Pages(vmPool.free[i]) \cup Pages(vmPool.dirty[i]) : i \in Entries}
    IN  Cardinality({p \in vmReturned : p < vmPool.next} \ listed) = vmPool.leaked

(* No page has two owners, and every page that was given back is offered     *)
(* again, counted as leaked or a dropped head; no call, however it           *)
(* interleaves with the others, hands a page out twice or loses a returned   *)
(* one in another way (VmoPool, phased_syscall, sys_vmo_destroy).  Pages     *)
(* that are never given back (the last cap_close, vmo_create over a slot in  *)
(* use, a failed exec) are not followed.                                     *)
VmPagesOwned == VmDisjoint /\ VmReturnedKept
=============================================================================
