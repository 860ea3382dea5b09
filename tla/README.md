# A TLA+ model of open-nexus-OS

open-nexus-OS is a RISC-V operating system built around a capability
microkernel, NEURON (`src/source/kernel/neuron/src`). Everything above the
kernel (init, the system services, the drivers, the UI) is a user task that
talks to the others through kernel endpoints. This project models

* the kernel: the IPC router, the blocking system calls on top of it, waitsets
  and fences, the scheduler that parks, wakes and steals tasks, timers, device
  interrupts, the lock-free messages between harts, and the memory arena with
  the calls that drop the kernel lock;
* of the services, those whose correctness is a protocol or a recovery argument:
  the two file systems (nxfs, statefs), A/B updates, the stream multiplexer of
  DSoftBus, the log journal, and the launching of apps.

The modules model the code, not its documents. Where a document, a comment or a
test says something the code does not do, this is listed under *Disagreements*.

Paths below are relative to `src/source/kernel/neuron/src` unless they start
with `source/`, `userspace/` or `docs/`.

## 1. Inventory

### Atomicity

All kernel state is behind one lock (`core/trap/runtime.rs`, `KernelGuard`): a
hart takes it on a trap and gives it back before `sret`. A system call, a timer
interrupt, a fault and a round of the idle loop are therefore one atomic step
each. Two things are not: the *phased* system calls (`vmo_create` and `exec`
drop the lock in the middle, `core/trap/handler.rs:28`; module `Vmo`), and the
lock-free mailboxes of the inter-processor interrupts (`core/smp`; module `Smp`).
A service is a loop that handles one request at a time; what interleaves with it
are the services it asks, their late answers, time-outs, power cuts and restarts.

A call that must wait does not keep a kernel stack. It registers the task as a
waiter, marks it blocked, picks another task and returns `Error::Reschedule`
with the program counter still on the `ecall`, so the task **makes the whole call
again** when it runs next. All the interesting behaviour of IPC comes from that:
what was true when the task went to sleep need not be true when it retries,
somebody else may have taken the message it was woken for, its capability may
have been moved, its deadline may have passed.

### Components

| component | state | operations | hard behaviour | what makes it correct |
|---|---|---|---|---|
| IPC router (`ipc/mod.rs`) | endpoint vector (queue, depth, byte counter, owner, alive, two waiter queues), global and per-owner byte counters | send, recv, requeue_front, create, close, close by owner, register / pop / remove waiter | three counters maintained by increments on some paths and recomputed on others; ids index a vector that never shrinks | counters exact, budgets kept, one entry per waiter, ids never reused, FIFO |
| run queues (`sched/mod.rs`) | per CPU one bounded queue per QoS class and a current entry | enqueue, schedule_next, yield, finish_current, purge, set_task_qos, steal | full queues, stealing against affinity, entries that outlive their task | one entry per task, none lost, queues bounded |
| task table and dispatch (`task/mod.rs`, `syscall/api/sched_task.rs`, `core/trap/handler.rs`, `core/cpu_main.rs`) | per task state, block reason, QoS, home CPU, affinity; per CPU the current task | block, wake, exit, wait and reap, affinity, QoS, resume, preemption, fault kill, idle loop | two notions of "current"; wake against a full queue; self-wake when nothing else can run | blocked tasks have no entry, runnable tasks have one or execute, one hart per task, no starvation |
| capability table (`cap/mod.rs`) | slots of a task | allocate, allocate_high, take, set, derive | full table, moved capability | a moved capability is in one place |
| IPC calls (`syscall/api/ipc_msg.rs`, `caps.rs`) | router, capability tables, block reasons, calls to retry, time | send and receive (two generations), CAP_MOVE, endpoint close, capability close, exit, deadline wake-up | retry after a wake-up, rollback of a move, timeouts, close while parked | no lost or stolen wake-up, capability conserved, timed calls return |
| waitsets and fences (`waitset.rs`, `fence.rs`, `syscall/api/sync_objects.rs`) | member lists; value and waiter list; owner | create, add, wait; create, signal, wait; close | registered on several endpoints at once; stale registrations; free with waiters | no lost wake-up, monotonic value, no dangling waiter |
| timers (`timer.rs`, `core/trap/runtime.rs`) | timer table, deadline queue, per hart a comparator and a shadow of it | create, set, cancel, free, expire, arm_wakeup | one comparator for many deadlines, programmed by whichever hart; periodic re-arming in the past | every deadline fires, none after a cancel |
| interrupts (`core/irq.rs`, `hal/plic.rs`, `hidrawd`, gpud's `virtqueue.rs`) | bindings of lines to endpoints, masks, device latches and rings | claim, deliver, complete, drain | delivery to a full endpoint, events between the last poll and the sleep | no driver sleeps with an event behind a masked line |
| SMP (`core/smp`, `core/cpu_main.rs`, `sync/spin_irq.rs`) | resched, wake hint and TLB mailboxes, kernel lock | IPI, shootdown, acknowledge, idle | lock-free; a wait for a hart that waits for the lock | acknowledged means flushed; no sleep past a wake-up; shootdowns end |
| VMO arena (`syscall/api/vmo.rs`, `exec.rs`, `task_image.rs`) | frontier, zeroed mark, clean and dirty lists | create, destroy, exec, exit, transfer, idle zeroing | phased calls, ranges that are split, joined and reused | one owner per page, fresh memory is zero, returned memory is kept |
| nxfs (`userspace/nxfs`) | objects, tables, bitmap; journal, two checkpoints, superblock and mirror | mkfs, mount, fsck, create, mkdir, write, truncate, remove, rename, checkpoint | power cut between any two writes, stale and torn journal records, reuse of blocks | operations are atomic and durable |
| statefs (`userspace/statefs`, `source/services/statefsd`) | key-value map, append-only journal | put, delete, sync, reopen, upgrade from memory to the disk | power cut or write error inside a record or before a sync; when to move to the disk | synced operations survive, later ones are a prefix, nothing else appears |
| updates (`userspace/updates`, `source/services/updated`, init, bundlemgrd) | boot control in memory and on the disk, active slot of bundlemgrd | stage, switch, health report, boot attempt, reboot | three parties, each of which may fail in the middle; late answers | the system always falls back to a confirmed image; trials end |
| dsoftbus (`userspace/dsoftbus/src/mux_v2.rs`) | per end the streams, credit and buffered bytes; frames on the wire; class queues | open, data, window update, close, reset, ingest; enqueue, dequeue | frames that cross; one byte counter for both directions | the ends agree, data within the buffer's credit is accepted, no class starves |
| logd (`source/services/logd/src/journal.rs`) | ring of records, byte counters | append | three limits at once | the newest records are kept |
| app launching (`source/services/abilitymgr`, `sessiond`, execd) | instances, session, questions and answers in bounded queues | launch, transition, login, spawn, answer | answers without a nonce that come after the time-out; two services that wait for places in each other's queues | no app before the login; every request is answered |
| init, other services, drivers, libraries | their own | clients of the objects above | | not modelled |
| UI, graphics, DSL, tools, tests, vendored code | | | data processing, builds | not modelled |

Interactions: the IPC and object calls use the capability table of the caller
to find a router endpoint, the router to queue and to park, and the task table
(`block_current`, `wake`) to stop and restart tasks; the task table calls the
scheduler. The trap handler calls the deadline wake-up on timer interrupts, the
idle loop calls it when nothing runs. `exit` closes endpoints (router), wakes
their waiters (task table, scheduler) and the parent.

updated keeps its state through statefsd and tells bundlemgrd the active slot;
init reports boot attempts to updated; abilitymgr asks sessiond and execd. The
drivers wait for notifications the kernel sends to their endpoints.

The hazards that matter most, each with its line and the properties that cover
it, are in `PROJECT.json`; section 7 lists those that are known and not covered.

## 2. Modules

```
SeqOps -- Router -- RouterSpec -- implements Mailboxes   (MCRouter)
             |
             `-- + CapTable -- KernelIpc -- KernelSync   (MCIpc, MCSync)

Scheduler -- Dispatch                                    (MCDispatch)

KernelTimers, DeviceIrq, Smp, Vmo                        (MCKernelObjects)

Nxfs -- implements FsSpec
Statefs, Updates, Mux, Journal, Launch                   (MCServices, with Nxfs)
```

The proofs are in modules of their own, each on top of the model it is about:

```
SeqOpsProofs         SeqOps: sums and filters of sequences, induction
RouterProofs         Router: what each operation does to a router value
RouterSafety         RouterSpec, from RouterProofs: the router's theorems
IpcProofs            KernelIpc, from RouterProofs
SyncProofs           KernelSync, from IpcProofs
DispatchProofs       Scheduler, Dispatch
KernelObjectsProofs  Smp, DeviceIrq, KernelTimers, Vmo (with SeqOpsProofs)
ServicesProofs       Updates, Launch, Journal, Mux (with SeqOpsProofs)
```

* **Router** has one operator per operation of `ipc::Router`, from router values
  to router values, so that the system calls, which do several of them in one
  step, can be composed from them. `XErr` is the error operation `X` returns.
  Ids start at 1 instead of 0; an owner without an entry in
  `owner_queued_bytes` has 0. Payloads are reduced to their length, headers are
  dropped; a message of the IPC model carries at most one capability.
* **RouterSpec** lets any caller do any operation in any order, which is more
  than the system calls do: what holds here holds of all of them. Actions:
  `DoSend`, `DoRecv`, `DoRecvRequeue`, `DoRegister`, `DoPopWaiter`,
  `DoRemoveWaiter`, `DoCreate`, `DoClose`, `DoCloseOwner`. `ret` is what the
  last operation returned.
* **Mailboxes** is the abstract specification: bounded FIFO mailboxes whose
  admission depends on their contents only. It has no counters, no waiters and
  no requeue.
* **SeqOps** holds sums and filters of sequences as recursive functions (not
  `RECURSIVE` operators), so that **SeqOpsProofs** can prove what they compute.
* **Scheduler** models `sched/mod.rs`: per-CPU, per-class queues of bounded
  length, the current entry, the steal scan. Tasks are queued with the class
  they had when they were enqueued, as in the code.
* **Dispatch** adds the task table and the harts. `k.sched.cur[c]` is the
  scheduler's current entry, `hart[c].pid` the task table's, `hart[c].mode`
  what the hart really executes: a user task, its idle loop, or the saved frame
  of PID 0 (fault path only). Actions: `SysYield`, `Preempt`, `SysBlock`,
  `SysSignal`, `SysWait`, `SysExit`, `Fault`, `SysTaskQos`, `SysSetAffinity`,
  `SysResume`, `IdleRound`, `IdleDelivery`. What a task waits for is abstracted
  to `Event`, which any step may signal for up to two tasks at once; the wait
  for a child is kept, because the parent is woken by the code modelled here.
  Time slices are abstracted into *when* a preemption happens.
* **CapTable** has the slot operations the calls use.
* **KernelIpc** models the IPC calls. `call[p]` is the call task `p` will make
  again; a call has a success, a wait and a failure action (`SendOk`,
  `SendWait`, `SendFail`, `RecvOk`, `RecvWait`, `RecvFail`), and there are
  `SysSend` and `SysRecv` (first generation, no waking), `SysCapClose`,
  `EndpointClose`, `SysExit`, `TimerTick`, `TimePasses`. `Park` has the two
  outcomes of the code: the task sleeps, or, with nothing else to run on its
  hart, it undoes its registration and spins. Scheduling itself is abstracted:
  a task that is not blocked may take the next step. `gone` is a history
  variable with the capabilities that were destroyed. A receive into a buffer
  that is too small consumes the message in the code and is a `RecvOk` here.
* **KernelSync** adds waitsets and fences with `WaitsetCreate`, `WaitsetAdd`,
  `WaitsetWait`, `FenceCreate`, `FenceSignal`, `FenceWait`, `WaitFail`,
  `ObjectClose`. Object ids come from a 32-bit counter and are not reused; a
  freed object stays as a dead entry.
* **KernelTimers**: deadlines are kept as the time that is left (`left`, which
  goes below 0 when late). `tmCmp[h]` is the comparator of a hart, `tmShadow[h]`
  what `arm_wakeup` believes it is. Actions: `TimerCreate`, `TimerSet`,
  `TimerCancel`, `TimerFree`, `TimedWait`, `WaitOver`, `UserTimerIrq`,
  `KernelTimerIrq`, `IdlePass`, `Enter`, `Leave`, `TimeGoesOn`.
* **DeviceIrq** composes the PLIC, the kernel's routing and the two drivers. A
  source has *enabled*, *bound*, *claimed*; a device has *work* and a *latch*
  that drives its line; every step between two accesses of a driver is one.
* **Smp**: every access of a hart to a shared atomic is a step; `smPc[h]` says
  where the hart is, `"trap"` being a trap handler that wants the kernel lock with
  interrupts off and `"lock"` the main loop that wants it with interrupts on.
* **Vmo**: memory in pages; a range is `<<base, length>>`. Reserve, fill and
  publish are three steps of `vmo_create`; exec has two.
* **Nxfs**: an operation is a list of sector writes and a new state in memory;
  the power fails after any prefix of the list (the fault model of
  `userspace/nxfs/tests/crash_injection.rs`; writes are not reordered). Journal
  records are cut into cells, so that a torn one is recognised by what its
  checksum would show. **FsSpec** is the abstract file system: a tree that changes
  by whole operations.
* **Statefs**: a put or delete writes its blocks into the device's write cache and
  returns; only SYNC (`ServeSync`) flushes it. `sfCut` is what a power cut may leave
  on the disk: its contents after any of the block writes since the last flush (the
  cache writes back in order). A write or flush may also be reported as failed
  whether it was done or not.
* **Updates**: `upBoot` in memory, `upStored` on the disk, `upBundle` bundlemgrd
  with the requests and answers on their way, `upInit` init's retries.
* **Mux**: two ends and two wires, and separately the priority scheduler. A stream is
  opened with whatever credit the caller asks for; `granted` is a history variable
  with what it was given in all, window updates included, which are applied with the
  code's casts to 32 bits.
  **Journal**: a record is its size. **Launch**: abilitymgr's control flow as a
  program counter, up to the answer to the client, execd's loop, and the bounded
  queues between them, sessiond and the client.
* **MC\*** give the constants their values. `MCKernelObjects`, `MCServices` and
  `MCSync` check several independent models at once: `part` chooses one for a
  behaviour, the variables of the others keep their initial values, so their
  states add up and do not multiply.

Operators whose names contain an underscore followed by a description or by
`Fault` (`PushErr_OffByOne`, `SendOk_NoWake`, `OlderSlot_Fault`, ...) are seeded
faults: wrong versions of the
definition that follows them, which are used to see that a property notices.

## 3. Runs

All runs are exhaustive for their constants. State counts are distinct states.

### Runs that pass

| run | states | what it checks |
|---|---|---|
| `router` | 43 102 | `TypeOK`, `Accounting`, `Budgets`, `WaitersOK`, `IdsStable`, and that `RouterSpec` implements `Mailboxes`. |
| `dispatch` | 228 414 | `TablesAgree` (`OneEntry`, `CurrentAgrees`, `BlockedHasNoEntry`) and `NoTaskLost` with two CPUs, affinity changes and faults. |
| `dispatch_saturated` | 177 217 | `QueuesSound` (`OneEntry`, `QueuesBounded`) on three CPUs when queues hold one entry, tasks change class and one is pinned. |
| `dispatch_live` | 499 | `NoStarvation` (round robin) and `WaitSeesZombie` on one CPU. |
| `ipc_move` | 8 898 | `ParkedIsRegistered` and `CapConserved` with moves through full queues and tables, legacy calls, timeouts, closes and exits. |
| `ipc_wake` | 19 539 | `NoStranded` and `CallsReturn` (`TimedCallReturns`, `ReceiverServed`) on an endpoint everybody uses, with and without a capability in the message. |
| `sync` | 216 146 | `NoLostWake` (`WaitsetArmed`, `WaitsetNoLostWake`, `FenceNoLostWake`), `SignalledWaitReturns`. |
| `kernel_objects` | 204 382 | Timers: `TmQueued`, `TmFires`. Interrupts: `IqSleepsSafely`, `IqServed`. Harts: `SmAckMeansFlushed`, `SmSleepsSafely`. Memory: `VmPagesOwned` (`VmDisjoint`, `VmReturnedKept`), `VmFreshIsZero`. |
| `services` | 208 421 | nxfs: `NxDurable`, `NxBlocksOwned`, `NxCrashAtomic` (implements `FsSpec`). statefs: `SfDurable`, `SfCrashAtomic`, `SfUpgradeLosesNothing`. Updates: `UpFallbackGood`, `UpRestoreExact`, `UpTrialEnds`. Streams: `MxDataAccepted`, `MxEndsAgree`, `MxClassServed`. Log: `JnKeepsNewest`. Launching: `LnNoLaunchBeforeLogin`, `LnRequestEnds`. |

Bounds and why they are enough:

* `router`: two owners and one waiting task; at most two endpoints ever; depth
  1 or 2 (`Depth = {0, 3}` exercises both clamps); payloads of 1 and 2 bytes.
  The global budget (4) exceeds the owner budget (3), which is below what one
  queue could hold, so all three admission checks refuse in some state, and
  some ids are dead and some never existed. The theorems of section 5 remove
  these bounds for all six properties.
* `dispatch`: a root task and two children on two CPUs. Three tasks are enough
  for one to run on each hart while a third is queued, blocked or stolen;
  `Capacity = 3` means no queue is ever full, which is what the property is
  about (section 6 has the case with full queues). The children are
  symmetric. `dispatch_saturated` uses two classes and `Capacity = 1`, so every
  enqueue can fail, and three CPUs, the least on which a steal can overfill a queue:
  thief, victim and home of the pinned task are all different. There the queues do
  grow to two entries. To keep it small, tasks only change to the lower class, only
  one is pinned, none exits, and only the home of the other child varies (`Homes`).
* `dispatch_live`: one CPU without faults, one class. With two CPUs a task can
  be executed while it is queued (`one_hart`), and after a fault a hart can
  execute the frame of PID 0, so neither property can be expected to hold there;
  across classes the code starves by design.
* `ipc_move`: sender, owner-receiver and a receiver whose table is full. Two
  endpoints, so that the moved capability names an endpoint that can be closed
  under it. Time runs to 2, the deadline used.
* `ipc_wake`: three tasks that may all send to and receive from one endpoint of
  depth 2, with and without deadlines; time runs past the deadline. One message moves a
  capability, which its receiver may send on. The run leaves out what is known to break the properties (section 6): first-generation
  sends, full capability tables and moves of dead capabilities.
* `sync`: the owner has two endpoints, a waitset that may hold both and a fence;
  a second task sends and signals, a third waits; targets 1 and 2, one more
  object of each kind can be created. A behaviour exercises waitsets or fences.
* `kernel_objects`: one timer, one-shot or periodic with an interval of one tick,
  and one timed wait on two harts, where each may be the one that programs the
  comparator or overwrites it, and a pass may be a tick late. Two input devices
  and the graphics device with one notification per mailbox, so that the second
  one is refused, and two command slots. Two harts, two shootdowns: the second
  meets the leftovers of the first. Three pages, two tasks with one slot, one entry
  per list: requests of 1 and 2 pages split, join, leak and reach the frontier.
  `ZeroBudget = 1` zeroes a range of two pages in two steps; `RouteFails`,
  `DestroySent` and `ResumeEarly` are off (section 6).
* `services`, nxfs: two names, depth 2, files of one block, two data blocks, a
  journal of three blocks with two sectors of one cell, three transactions, three
  checkpoints and objects. A transaction needs three or four of the six cells, so
  that the second or the third one finds the journal full and compacts it while old
  records remain readable, and a transaction is torn at every sector. statefs: two keys, values of one and two cells, two blocks
  of two cells, so that a record straddles blocks and the device fills; a power cut may
  find up to three contents of the disk in play (`MaxUnflushed`), the flushed one and
  two block writes.
  Updates: 0 or 2 tries, two sends of a boot attempt, one outstanding request at
  bundlemgrd. Streams: each end opens an id of its own with a credit of 0 or 1 byte, window
  updates of 1 make it more than the buffer of two bytes holds, two frames in flight
  each way; four classes, bursts of two. Log: records of 1, 2 and 4 bytes
  in 3 records or 4 bytes, 9 bytes for life. Launching: three apps (one before the
  login, one with a process, one not permitted), three instances, queues of one place,
  so that a spawn finds execd's queue full of one that was given up and execd its
  response queue full of late answers. `RenameIntoSelf`, `ReadFailures` and `LoadFailures` are off
  (section 6).
* `MaxNow` bounds time and `MaxIds` the objects created; both appear in guards
  only.

Deadlock is checked in `router` only. In the others all tasks may legally sleep
or have exited, or the bounds on transactions, shootdowns and records end the
behaviour.

### Runs that fail, on purpose

| run | property | shows |
|---|---|---|
| `one_hart` | `OneHart` | two harts execute one task |
| `fence_close` | `NoDanglingWaiter` | freeing a fence strands its waiters |
| `shootdown` | `SmShootdownEnds` | a hart that spins for the kernel lock in a trap handler never acknowledges |

### Fairness

* `Dispatch!Fairness`: weak fairness of `Preempt` and `IdleRound` of each CPU.
  The kernel arms the timer before it returns to user mode, so a hart that
  executes user code is interrupted; a hart in `cpu_main` looks at its queues,
  sleeps in WFI and is woken by the resched IPI or the timer. Nothing is assumed
  about system calls: tasks need not make any.
* `KernelIpc!Fairness`: weak fairness of the retry of a pending
  call (a runnable task is scheduled, which is `NoStarvation` of `Dispatch`), of
  `TimerTick` (the periodic timer interrupt) and of `TimePasses`. No fairness is
  assumed for *new* calls: a task may stop sending or receiving for ever. `sync`
  has weak fairness of the retries of the two waiting tasks and nothing else.
* `kernel_objects`: time goes on (weak). A hart with a due comparator takes the
  interrupt and the boot hart makes its idle pass, both strongly fair: they need
  the hart to be in user mode or idle, which other steps interrupt again and
  again. Drivers, the graphics device and the claim of a pending interrupt are
  weakly fair; input events need not come.
* `shootdown`: weak fairness of every step of a hart, strong fairness of getting
  the kernel lock. That is more than the spin lock gives, so the counterexample
  does not rest on an unlucky lock.
* `services`: the machine is restarted (weak), init's boot attempt is sent and one
  of them is counted and stored again and again (strong: stores may fail, but not
  for ever); `dequeue_next` is called (weak); abilitymgr's own steps and execd's are
  taken, and a client whose request came without a reply capability takes its response
  (all weak; the last one is needed, since the broker waits for a place in that queue
  without limit). Nothing is assumed of sessiond and of bundlemgrd.

## 4. Properties worth reading

* `Accounting`: the byte counter of each endpoint, the global counter and the
  counter of each owner, which are adjusted by saturating arithmetic on send,
  receive and requeue and recomputed on close, equal the sums over the queues.
* `ImplementsMailboxes`: a message is accepted exactly when the *contents* of
  the mailboxes leave room for it, and messages come out in order, requeues
  included.
* `ParkedIsRegistered`: block reasons (task table) and waiter queues (router)
  are two records of the same thing and always agree.
* `CapConserved`: a capability that is not explicitly destroyed is in exactly
  one slot or one queued message. Messages queued at a closed endpoint, dropped
  by a first-generation receive, and tables of exited tasks count as destroyed.
* `NoStrandedReceiver` / `NoStrandedSender`: one wake-up per message is enough,
  although the woken task may find that another took the message, may time out
  or may have been woken for another reason.
* `WaitsetArmed`: a task that has returned from a waitset wait has no
  registration left that could swallow a wake-up meant for another.
* `TablesAgree`, `NoTaskLost`: the scheduler and the task table, which are
  updated by separate calls, tell the same story.
* `IqSleepsSafely`: a driver that sleeps has nothing unseen in its device but what
  raises an unmasked line, although a full mailbox drops notifications.
* `SmAckMeansFlushed`: when a shootdown returns, every hart has flushed since it
  began, so an address space id may be reused.
* `VmPagesOwned`, `VmFreshIsZero`: no page has two owners, and a page that was
  *given back* is offered again, while calls on other harts reserve, free, split and
  join ranges between the phases; and what is published holds no other task's data, although zeroing is skipped when the pool
  calls a range clean.
* `NxCrashAtomic`: nxfs implements the abstract file system across power cuts,
  where the interrupted operation is there or is not. `NxDurable`: a mount at any
  moment rebuilds the state in memory exactly, the allocation bitmap included.
* `SfDurable`: SYNC is the durability boundary. After a power cut replay finds the store
  as it was at some moment since the last acknowledged SYNC, so what was synced is there
  and of the rest a prefix.
* `UpFallbackGood`: now, and after a restart at this instant, the running image was
  confirmed or falls back to one that was, whichever of the three parties failed.
* `MxEndsAgree`: whenever nothing is on the wire both ends have the same view of
  every stream they know, after any crossing of closes and resets.
* `MxDataAccepted`: what the sender's credit allows the receiver accepts, as long as
  the credit given to both ends fits the one counter they share.
* `LnRequestEnds`: abilitymgr waits without limit for a place in execd's queue, and execd
  for a place in the queue of answers that abilitymgr reads only after its own request;
  they never wait for each other for ever.
* `LnNoLaunchBeforeLogin`: although answers to abandoned questions are taken for
  the answers to later ones. It holds because a session never ends while
  abilitymgr runs.

## 5. What is proved

TLAPS checks the theorems below for **every** value of the constants that satisfies
the assumptions of the modules: any number of tasks, endpoints, CPUs, harts, devices
and timers, any limits. Each states a property that a run of section 3 checks, except
`DispatchTypeOK` and `IpcRouterSound`; `VmDisjoint` is a part of `VmPagesOwned`.

| theorem | says | under |
|---|---|---|
| `RouterSafety!TypeCorrect` | `[]TypeOK` | |
| `RouterSafety!AccountingCorrect` | `[]Accounting` | |
| `RouterSafety!BudgetsCorrect` | `[]Budgets` | |
| `RouterSafety!WaitersCorrect` | `[]WaitersOK` | |
| `RouterSafety!IdsNeverReused` | `IdsStable` | |
| `RouterSafety!RouterImplementsMailboxes` | `ImplementsMailboxes` | |
| `IpcProofs!IpcRouterSound` | `[]Sound(router)`, under the system calls | |
| `IpcProofs!IpcParkedIsRegistered` | `[]ParkedIsRegistered` | |
| `IpcProofs!IpcCapConserved` | `[]CapConserved` | no capability is in two tables at the start |
| `IpcProofs!IpcNoStranded` | `[]NoStranded` | no first-generation calls; no send is refused by a byte budget, no moved capability is gone, no receiver's table is full (`BudgetsSuffice`, `MovesGoThrough`) |
| `SyncProofs!SyncNoLostWake` | `[]NoLostWake` | each endpoint has one receiver, which keeps its right; a waitset is in its owner's hands only |
| `DispatchProofs!DispatchTypeOK` | `[]TypeOK` | |
| `DispatchProofs!DispatchTablesAgree` | `[]TablesAgree` | |
| `DispatchProofs!DispatchLosesNoTask` | `[]NoTaskLost` | no more tasks than a queue holds |
| `DispatchProofs!DispatchQueuesSound` | `[]QueuesSound` | |
| `DispatchProofs!DispatchWaitSeesZombie` | `[]WaitSeesZombie` | no more tasks than a queue holds, no faults |
| `KernelObjectsProofs!SmpAcksAreFlushes` | `[]SmAckMeansFlushed` | |
| `KernelObjectsProofs!SmpSleepsSafely` | `[]SmSleepsSafely` | |
| `KernelObjectsProofs!IrqSleepsSafely` | `[]IqSleepsSafely` | inputd can be reached |
| `KernelObjectsProofs!TimersQueued` | `[]TmQueued` | |
| `KernelObjectsProofs!VmoFreshIsZero` | `[]VmFreshIsZero` | a VMO that was sent is not destroyed, an exec'd task not resumed early |
| `KernelObjectsProofs!VmoPagesDisjoint` | `[]VmDisjoint` | the same |
| `KernelObjectsProofs!VmoPagesOwned` | `[]VmPagesOwned` | the same |
| `ServicesProofs!UpdatesFallBackGood` | `[]UpFallbackGood` | statefs answers at start-up |
| `ServicesProofs!UpdatesRestoreExact` | `[]UpRestoreExact` | statefs answers at start-up |
| `ServicesProofs!LaunchGated` | `[]LnNoLaunchBeforeLogin` | |
| `ServicesProofs!JournalKeepsNewest` | `[]JnKeepsNewest` | |
| `ServicesProofs!MuxDataAccepted` | `[]MxDataAccepted` | the ends name their streams apart |
| `ServicesProofs!MuxEndsAgree` | `[]MxEndsAgree` | the same |

### Assumptions

The assumptions on constants are what the code's constants satisfy: limits are
natural numbers, depths are at least 1, no payload is longer than `MAX_FRAME_BYTES`
(which the system calls check before they call the router), `None` is not a task, no
more endpoints are made at boot than the table holds, CPU 0 is online, the harts are
numbered from 0, a mailbox holds at least one notification. TLC evaluates them in the
runs.

The hypotheses in the last column are not there to help the provers: without each of
them the property is false; sections 6 and 7 say where in the code. Some task is lost
when a queue is full, because `yield_current` keeps the entry as current and
`schedule_next` then overwrites it. A fault does not wake the parent. A driver that cannot reach
inputd leaves events in the ring, and updated that cannot read its state starts afresh.
A first-generation send wakes nobody, a receiver without a free slot and a sender
whose capability died keep a wake-up for themselves, which is what `MovesGoThrough`
rules out, and not the moves as such. A send
that a byte budget refuses is not parked, so a woken sender that fails this way does
not hand its wake-up on either. A send wakes one waiter, so of two receivers of an
endpoint one can sleep next to a message that the other's waitset call was woken for and
does not take. Whoever closes a capability of a waitset frees it (`syscall/api/caps.rs:155`),
also while its owner sleeps in it; the owner's retry then fails before it has cleared its
registrations. The streams of a connection are apart because each end names those it
opens; two ends that open the same id refuse each other. A VMO that is destroyed while a
copy is in a message, or an exec'd task that runs and exits while its image is still being
copied, gives a page two owners. The constants of the runs satisfy the hypotheses: a full queue of `ipc_wake`
just fits its byte budgets, its tasks have a slot for the capability that goes round, and `MCSync` asserts those of `SyncNoLostWake` (`ObjectsNamed`,
`OneReceiver`).

### Arguments

*Router.* The inductive invariant is

    Sound(r) == r \in RouterState /\ AccountingOf(r) /\ BudgetsOf(r) /\ WaitersOf(r)

`Budgets` alone is not inductive. Receiving subtracts with saturation, and closing
*recomputes* the counters from the queues; that the recomputed values are below the
budgets needs the counters to have been exact before. `Accounting` in turn needs the
types (a queued message has a natural length that the counter includes, so the
saturating subtraction is exact). `WaitersOK` needs dead endpoints to be empty, because
register, push and pop look at `alive` in different places. `IdsStable` is an action
property that follows from the step lemma. `RouterProofs` has one lemma per operation
and part of the invariant (`SendAccounting`, `CloseBudgets`, ...), and `SoundStep`
combines them by the disjuncts of `Next`.

*Refinement.* `Mailboxes` has no counters: its admission looks at the contents. By
`Accounting` the router's two global checks look at the same numbers. The check of an
endpoint's own byte limit has no counterpart in `Mailboxes`; it never refuses a message
that the depth admits (`PlaceMeansBytes`), since the limit is `depth * MAX_FRAME_BYTES`
(`Limits`, invariant) and a queue of fewer than `depth` frames holds less
(`SumSeqBounded`). Operations on waiter queues map to stuttering; a receive that puts
the message back changes no mailbox (`RequeueFits`: there is room for it, and it is
first again).

*IPC calls.* `IpcInv` is `Sound` of the router with `Parking`: block reasons and waiter
queues are inverse to each other, and a parked task is parked on exactly one endpoint
(`OneEach`). The last part is needed because a wake-up removes the task from one queue
and clears the whole block reason; with a second registration it would leave one
without a reason. The error of `requeue_front` that the code ignores never occurs: the
message has just been taken out and the exact counters still leave room for it
(`RequeueFits`), which `CapConserved` needs. `CapConserved` is inductive with the
stronger statement that tables, queues and `gone` are pairwise disjoint and hold
nothing twice. For `NoStranded` the invariant counts: where a receiver is parked, there
are at most as many messages as tasks that were woken or are about to try to receive
(`BalancedAt`), and the same with free places for senders. "There is a task that will
take it" alone is not inductive: two messages may wake two receivers of which the first
takes one message.

*Waitsets and fences.* A task in `waitset_wait` is in several receiver queues, a wake-up
takes it off one of them and clears the whole block reason: between waking up and making
the call again, it is in queues of endpoints it is not blocked on. So `Parking` gives way
to `Queued`: whoever is in a receiver queue is parked there or will make a call again whose
waitset has the endpoint as a member, and that call begins with clearing them all
(`ClearAll`). That the members are still the same by then needs that nobody else can add to
or free the waitset (`CapFine`, `SyncCallOK`); that no message passes unnoticed meanwhile
needs that the stale entry is the receiver's own (`Watching`): a send that finds it first
takes no wake-up from anybody else. `Quiet` is the property itself, `Core` the conjunction
that each operation of the router keeps (`Lets` says which entries a step may drop). A
fence's waiters are blocked on a fence (`FencesSleep`), so that a signal wakes nobody who
is parked elsewhere in the meantime; whoever is blocked on one is registered with its target
and the value is below it (`FenceHolds`), which needs that a value never falls and that a
signal takes out exactly those it satisfies. Each action is reduced to what it does to the
acting task and to all others (`Bystander`, `OnlyActs`), who are at most woken.

*Dispatch.* `IInv` adds to the types that a task has at most one entry in all queues and
current slots together, and only if it was started and is not blocked (`Single`,
`Entitled`), that the task table's current task of a CPU is the scheduler's, and that it
was started. `NoTaskLost` needs in addition that every runnable task has its entry
(`Tracked`) and that a CPU with a current task executes it (`CurrentRuns`); "no queue is
full" follows by counting, as a task with an entry of its own is missing in the queue it
is put into. For `QueuesSound` the bound is on the tasks of a queue that nobody pins
(`Free`): every enqueue looks at the length of the whole queue, and the push of a steal
that gives a task back does not look at all, but happens only to a task whose mask
excludes the thief (`FreeAnywhere`). A bound on the length is false (section 6).

*Harts, interrupts, timers.* `SmSleepsSafely` is not inductive: a hart goes to sleep in
several steps, and what makes the last one safe is that a task queued while it dozes
has left a hint or has a waker that still will (`SmHinted`), also when the hart is in an
interrupt handler it entered on the way (`smRet`). `SmAckMeansFlushed` needs that no
epoch is ahead of the global one (`SmEpochs`). `IqSleepsSafely` needs that a driver that
waits has its line unmasked or a notification in the mailbox (`IqListens`,
`IqNotified`) and that after the last look into the device its latch shows what is new
(`IqLatched`).

*Memory.* `VmInv` speaks of the pool and of those who have ranges of it. `PoolOK`: the
entries of both lists are below the frontier and pairwise apart, what is on the clean
list or between the frontier and the zeroed mark is zero. `UsersOK`: every range that a
call, a capability, a message or a program has is below the frontier and on no list
(`Taken`), and two users have ranges that are apart (`Off`). A capability and its copies
are one user, the call that reserved a range is another one than the capability it
becomes. `Allocates`, `Frees`, `ZeroDirtyKeeps` and `ZeroFrontierKeeps` say what the four
operations of `VmoPool` do to such a pool; `CoalescedJoins` that the pass over the clean
list makes one range of exactly the pages it takes out, by induction over the entries.
Every action is one of five moves of the pool (`PoolMoves`, one lemma per action):
nothing but contents, zeroing, a range out, a range back from its last user, both at once
(an exec that fails). `MovesKeep` does the rest for all of them. `VmoDestroy` needs that
one reference means one user, which is why the messages have to be looked at too
(`DestroySent`); exit needs that the child's image is no longer the call's
(`ResumeEarly`). For `VmPagesOwned` the account is added (`KeptOK`): what is listed was
given back, and the pages that were given back and are neither listed nor beyond the
frontier are as many as `leaked` says. A step that zeroes a part of a dirty range drops
its head from the lists (section 6); the account drops it too (`DroppedHead`), so the
theorem says that this is the only loss.

*Services.* For `Updates` the invariant adds the shape of a boot record (`SoundBoot`): on
trial, the pending slot is the active one and the rollback is the other. For `Launch` it
adds that every answer under way is true (`AnswersTrue`), which is why it does not matter
to which question it belongs. For `Journal` it adds that the records in use were paid
for (`jnUsed <= jnAllocated`): so the last check of `append` cannot refuse what the first
one let through, and nothing is dropped for a record that is then rejected. With
`cap_records = 0` it is always refused, but then nothing is dropped. For `Mux` the
invariant relates, for each stream and direction, the two ends and the frames between
them (`PairOK`): an open frame comes before everything else of its stream, no data frame
follows a close (`Opening`, `Closing`), and what one end has sent is what the other has
received and what is on the wire (`Counting`); an end has sent no more than it was
granted, so the one counter that holds both directions stays below the buffer's limit
while what both were granted does.

*Sequences.* `SeqOpsProofs` has the facts about sums (of an appended, prefixed, shortened,
bounded or pointwise smaller sequence, of a part, of one with one changed element) and
about `Without`. They are proved by induction over sets of naturals, since an operator
cannot be passed to the induction theorems of the library.

### Only model-checked

* All liveness properties, and what needs `ENABLED`: the proof system does not handle
  them.
* That nxfs implements `FsSpec`, and `NxDurable`, `NxBlocksOwned`, `SfDurable`,
  `SfCrashAtomic`, `SfUpgradeLosesNothing`: replay and compaction are folds over journals,
  and what a fold computes for every length is an induction over data.

## 6. Disagreements between the code and what is said of it

With a run: `one_hart`, `fence_close`, `shootdown` (quotations in `PROJECT.json`,
`findings`).

* **A task on two harts.** A task that blocks with nothing else to run is woken
  at once, which enqueues it, *and* its hart goes back to it
  (`syscall/api/ipc_msg.rs:429` and the same lines of the other blocking calls).
  An idle hart can now steal and execute it.
* **Freeing a fence strands its waiters** (`syscall/api/caps.rs:164`).
* **A TLB shootdown can wait for ever.** `shootdown_all` (`core/smp/tlb.rs:136`) waits
  with the kernel lock held. `tlb.rs:18` says a hart that spins for the lock "keeps
  interrupt windows open", but a trap handler is entered with interrupts off and
  the windows of `sync/spin_irq.rs` restore just that. A hart in the
  software-interrupt handler misses a request that comes between the poll of its
  mailbox and the clearing of the pending bit (`core/trap/handler.rs:504-508`).

Met while modelling and reproducible with the definitions that are kept in the
modules, but without a run of their own. Each names the property that fails and
the constants to change from the run in brackets:

* A run queue outgrows its capacity [`dispatch_saturated`, with `Len` of the whole queue
  in `QueuesBounded`]: a stolen task that the thief may not run is pushed to the
  front of its home queue without a capacity check (`sched/mod.rs:508`), while the
  capacity is checked everywhere else. `QueuesSound` states what is left of the bound:
  only pinned tasks exceed it.
* `ZombiePurged` fails on one CPU [`dispatch_live`]: after a self-wake the entry
  of an exiting task stays queued; `syscall/api/sched_task.rs:401` says "The
  zombie is already purged from the scheduler below", and `finish_current`
  (`:410`) only drops the current entry.
* `OwnIdleLoop` fails [`dispatch`]: the fault path falls back to PID 0's frame on
  any hart (`core/trap/handler.rs:1352`), which the comment at `:897` calls
  "catastrophically wrong on a secondary hart" for system calls.
* `WaitSeesZombie` fails with `Faulty = {t1, t2, t3}` [`dispatch_live`]: the fault
  path does not call `wake_parent_waiter` (`core/trap/handler.rs:1318`).
* `DispatchRespectsAffinity` fails with `Masks <- LastOnly` [`dispatch`]: a queued
  task is dispatched where it was queued before its mask changed. The comment at
  `syscall/api/sched_task.rs:340` says the change "takes effect on the next
  wake/dispatch"; it does on the next wake only.
* `NoStrandedReceiver` fails with `InitCaps <- FullCaps`, `Calls <- FullCalls`
  [`ipc_wake`]: a receiver without a free slot puts the message back
  (`syscall/api/ipc_msg.rs:520`) and wakes nobody, so another receiver that could
  take it sleeps on.
* `NoStrandedReceiver` fails with `Legacy = {p3}` [`ipc_wake`]: the first
  generation send wakes nobody (`syscall/api/ipc_msg.rs:141`).
* `NoStrandedSender` fails with `Owners <- StaleOwners`, `InitCaps <- StaleCaps`,
  `Calls <- StaleCalls` [`ipc_wake`]: a woken sender whose retry fails because the
  capability it moves names a closed endpoint (`syscall/api/ipc_msg.rs:228`) does
  not hand the wake-up on.
* `NoTaskLost` fails with `Capacity = 1` [`dispatch`]: when its queue is full,
  `yield_current` puts the task back as current, "keep the task as current so it is
  not silently dropped" (`sched/mod.rs:389`), but its callers call `schedule_next`
  next, which overwrites it.
* `TimedWaitReturns` of `KernelSync` does not hold: the timer interrupt and the idle
  loop look at send and receive deadlines only (`core/trap/runtime.rs:503`), while
  `syscall/api/sync_objects.rs:174` says "a non-zero deadline yields `TimedOut`". A
  waitset or fence wait with a deadline ends only when some task makes a blocking
  call or yields.
* `WaitsetNotStuck` of `KernelSync` does not hold when the members belong to a task
  that exits: registration on a closed member is ignored
  (`syscall/api/sync_objects.rs:220`), so a wait whose members are all closed never
  returns.
* `TmCovered` of `KernelTimers` does not hold: entering a task sets the comparator
  to the next tick without touching the shadow (`core/cpu_main.rs:345`), so
  `arm_wakeup` may leave out an earlier deadline it believes is programmed
  (`core/trap/runtime.rs:345`). The timer still fires (`TmFires`), up to a tick late.
* The idle zeroer loses memory [`kernel_objects`, with `vmReturned` left alone in
  `IdleZeroStep`]: "Partially zeroed: keep the (still dirty) tail parked"
  (`syscall/api/vmo.rs:636`) stores the tail only, and the zeroed head of a range longer
  than the budget is in no list and not counted as leaked. `VmReturnedKept` states that
  nothing else of what was given back is lost.
* `VmDisjoint` fails with `DestroySent = TRUE` [`kernel_objects`]: the sole-owner check
  of `vmo_destroy` ("refuses while any OTHER capability anywhere in the system
  references the range", `syscall/api/vmo.rs:336`) counts capability tables and not
  messages on their way.
* `VmDisjoint` fails with `ResumeEarly = TRUE` [`kernel_objects`]: any task may
  resume a suspended child (`syscall/api/sched_task.rs:515`), also while `exec` still
  copies its image without the lock; `core/trap/handler.rs:24` says "exec'd tasks
  spawn suspended and resume only after this syscall returns".
* `IqSleepsSafely` fails with `RouteFails = TRUE` [`kernel_objects`]: when inputd cannot
  be reached the drain loop is left with events in the rings
  (`source/services/hidrawd/src/os_lite.rs:260`), while the comment says a pass that
  drained nothing means the ring is empty and the latch clear, "safe to unmask +
  park" (`:270`). The events wait for the next one.
* `NxCrashAtomic` fails with `RenameIntoSelf = TRUE` [`services`]: nothing refuses to
  rename a directory below itself (`userspace/nxfs/src/fs.rs:361`); the subtree
  becomes unreachable (`docs/rfcs/RFC-0071`, lines 168-169, promise an atomic rename).
* `SfDurable` fails with `ReadFailures = TRUE` [`services`]: a read error in `reopen`
  leaves the write position at 0 (`userspace/statefs/src/lib.rs:1002`, `:1201`) and the
  next put overwrites the journal.
* An acknowledged put or delete that no SYNC followed may be lost in a power cut: nothing
  but SYNC flushes the device (`userspace/statefs/src/lib.rs:1096`). That is what "Sync is a
  durability boundary for all writers" (`source/services/statefsd/src/os_lite.rs:374`) says,
  and `SfDurable` claims no more.
* `MxDataAccepted` without its condition on the credit fails [`services`]: `open_stream`
  takes any credit (`userspace/dsoftbus/src/mux_v2.rs:377`), window updates add to it, and
  the counter of buffered bytes is never lowered, so the receiver rejects data
  (`:647`) that the sender was allowed to send.
* `UpFallbackGood` fails with `LoadFailures = TRUE` [`services`]: when statefs does not
  answer at start-up updated goes on with a fresh state on slot A
  (`source/services/updated/src/os_lite.rs:186`) and stores that at the next change.
* The log journal stops for good after `alloc_cap_bytes` bytes
  (`source/services/logd/src/journal.rs:180`, and the test
  `journal_alloc_cap_is_lifetime_budget`), while the comment at `:202` says the cap is
  enforced "on *current* usage, not lifetime allocated bytes". `JnKeepsNewest` holds
  either way.

## 7. Not modelled, and the plan

The repository has over 230 000 lines of implementation. The map covers a small
share of them (a few per cent), and that is not going to change by much: most of
the code is UI, graphics, language front ends, wire formats, device registers,
start-up scripts and self tests, which have no state that interleaves, fails or
recovers. What is modelled is the part that does.

Left out for good: UI, graphics and DSL (data processing without a protocol),
tools, tests, vendored code, device register access, page table layout, logging
and the trace rings; the service manager, whose routes init fixes before anybody
asks; request handlers of services that only look things up.

Abstractions to know of: nxfs's device makes its writes in order and at once, and statefs's
cache writes back in order, so nothing is
shown about a disk that reorders writes between two syncs (behind a record that did not
reach it, an old one could be read again), and no device error is
survived by nxfs (a failed superblock write leaves the slots in memory flipped,
`userspace/nxfs/src/fs.rs:469`); `open_or_format` looks at the primary superblock only
(`:113`), which matters when a sector becomes unreadable. Composition is by
contract: DeviceIrq uses a mailbox where the kernel has a router endpoint, and
Updates a store that succeeds, fails or does both where Statefs is. abilitymgr is execd's
only client in `Launch`: a wait for a process that another client asks for
(`OP_WAIT_PID`) keeps execd, and with it abilitymgr, for as long as it lasts.

Known hazards without a property, beside those of section 6:

* a stale waitset registration in front of a parked receiver takes the one wake-up
  of a message (`syscall/api/ipc_msg.rs:285`), with two receivers on an endpoint;
* a woken sender whose retry a byte budget refuses, because another endpoint of the
  same owner has used it up meanwhile, returns and hands its wake-up to nobody, so
  the next sender sleeps beside a free place (`syscall/api/ipc_msg.rs:297` parks
  for a full queue only);
* a wake that a full queue rejects leaves the task blocked and is only logged
  (`task/mod.rs:1080`);
* `endpoint_create` that finds no free slot leaves the endpoint behind
  (`syscall/api/caps.rs:90`); closing any copy of a timer or waitset capability frees
  the object (`:152`); dropping a VMO capability never frees memory (`:144`);
* statefs cannot be opened any more once the journal has as many records as the
  replay limit (`userspace/statefs/src/lib.rs:1068`);
* the stream multiplexer never sends a window update itself, never lowers the count of
  buffered bytes and never forgets a stream (`userspace/dsoftbus/src/mux_v2.rs:579`), and two ends that open the same id refuse
  each other (`:518`);
* abilitymgr's table keeps instances whose spawn failed until it is full
  (`source/services/abilitymgr/src/lifecycle.rs:150`), and takes execd's late answer to
  one spawn for the answer to the next (`os_lite.rs:446`), which only decides what it
  logs; sessiond's late answer from before the login refuses a launch after it
  (`os_lite.rs:352`);
* VMO pages whose last capability is closed, that a create publishes over, or that a
  failed exec had reserved have no owner and are on no list: `VmPagesOwned` speaks of
  pages that were given back.

Plan, in this order:

1. The rest of the capability calls: `cap_clone`, `cap_transfer`, endpoint creation.
2. execd's process table and policyd on the launch path; dsoftbus discovery and handshake.
3. Proofs about `Nxfs` and `Statefs` for journals of every length. They replay with folds;
   the recursive functions behind these would have to be written out first.
