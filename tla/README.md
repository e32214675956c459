# A TLA+ model of QUARK (DEPOS)

QUARK is a multicore RISC-V kernel and hypervisor written in C++. This directory
models it in TLA+, checks the models with TLC on small instances, and proves every
safety property with TLAPS for every number of cores, threads, semaphores, guests,
addresses, frames, blocks and pages.
Paths below are relative to the repository.

## Inventory

| Component | State | Operations | What is hard | What makes it correct |
|---|---|---|---|---|
| Threads (`src/Thread.cpp`) | `state_`, `context_`, `node_`, per-core `s_previous`, `s_spin`; `s_count` | create, run, yield, reschedule, sleep, wakeup, exit, join, destroy, idle | the switch is finished by the *next* thread (`epilogue`); cores interleave everywhere | one core per thread, saved contexts only, safe join, exact count, shutdown |
| Scheduler (`include/scheduler`) | run queues, `_heads` | insert, remove | a core without a ready thread needs an idle one | a successor always exists |
| Semaphore, Mutex, Spin | `value_`, `waiting_`, `lock_` | p, v | the lock outlives the caller's switch | a FIFO counting semaphore |
| Alarm, timer | per-core ordered list | sleep until, handler | the tick reschedules before it handles alarms | in order, never early, always woken |
| CPU barrier | `gsense`, `ready` | barrier | reuse while slow cores still wait | no core passes early, none stays |
| Memory (buddy allocator) | free lists | init, alloc, free, new, delete | splits and merges over long runs | blocks partition memory, are merged, fail only when full |
| Condition variables, periodic threads | waiters with messages | wait, send, period | unlock and sleep | no lost wake-up (in ARP, the only client) |
| Virtual CPU, PLIC, IPI | `external_`, `core_`, `pending_`, saved `sip` | interrupt, claim, switch, IPI | several cores, no lock | no lost interrupt |
| virtio | rings, `interrupt_status` | notify, worker, receive | guest, worker and receive path share memory | each buffer used once, interrupt follows |
| Network (ARP, TFTP, UDP, IPv4) | table, block number | resolve, request, receive | lost, repeated, reordered frames | one answer per request, blocks in order |
| Ethernet DMA | descriptor rings | send, receive, release | device and CPU share descriptors | one owner per buffer |
| MMU, FDT builder | page tables, blob | map, walk, build | pure algorithms | agree with their reference (not modelled) |
| ABI, console, drivers, payloads | | forwarding, register access | | not modelled |

Threads call the scheduler with interrupts disabled; Semaphore and Alarm call
`Thread::sleep` and `Thread::wakeup`; the timer's trap calls `Thread::reschedule` and
then `Alarm::handler`; the hypervisor's devices block on semaphores and raise
interrupts of virtual CPUs that are themselves scheduled threads.

## Modules

| Module | Models |
|---|---|
| `Thread` | threads, scheduler, run queues; the program is left open |
| `Semaphore` | `p` and `v` over `Thread` |
| `Alarm` | alarms and the clock over `Thread` |
| `Kernel` | the three together: specification, fairness, properties |
| `CountingSemaphore` | the abstract semaphore that `Semaphore` promises |
| `KernelInv` | the inductive invariant |
| `KernelProofs` | the proofs, and that the semaphore implements the abstract one |
| `MCKernel` | instances for TLC |
| `Barrier`, `BarrierProofs` | `CPU::barrier` and its proof |
| `Memory`, `MCMemory` | the buddy allocator and its instance |
| `MemoryProofs` | its inductive invariant: the blocks tile the memory |
| `VirtualInterrupts`, `MCVirtualInterrupts` | virtual PLIC, virtual CPU and its switch, tick, inter-processor interrupt |
| `VirtualInterruptsProofs` | a hart shows its own guest's bits; where a notice can be lost |
| `VirtualSwitch`, `MCVirtualSwitch` | virtio network devices, their rings and the virtual switch |
| `SwitchProofs` | its inductive invariants: no completion, no notification is lost; each buffer once; one order |
| `ARP`, `MCARP` | address resolution with condition variables and the network's worker |
| `ARPProofs` | its inductive invariants: right addresses; a reply for each waiter |
| `TFTP`, `MCTFTP` | the TFTP client, a lossy link and a server |
| `TFTPProofs` | its inductive invariant: what may be under way, and what the buffer holds |
| `DMARing`, `MCDMARing` | the descriptor rings of the Ethernet driver |
| `DMARingProofs` | its inductive invariants: frames in order, in both directions |

A proof module extends its model, so two of them cannot share a module of lemmas that
extends neither and hides its theorems; the few on remainders and least numbers stand in
each module that needs them.

The kernel modules are composed in `Kernel`. The modules below it in the table stand on
what the kernel modules establish: a `Semaphore` is a counter with an atomic `p` and `v`
(`CountingSemaphore`, which `Semaphore` is proved to refine), a `Mutex` is its holder.

### Thread

`pc[c]` is the control point of core `c`; `cpu[c]` the thread whose stack it executes;
`node[c]` and `lock[c]` its local pointers. Kernel paths run with interrupts off, so a
tick is possible only at `"user"`; other cores take steps between any two steps of a
path. A step is one access to shared state: an operation on a list (atomic under the
list's own `Spin`, or under the semaphore's lock), a store that another core reads
(`state_ = FINISHED`, `s_count`), a switch. `Dispatch` is `Thread::dispatch` up to
`Context::swtch`; `Epilogue` and `Finish` run on the stack of the next thread. A failed
`assert` leads to the control point `"assert"`, where the core stays.

`fifo` holds every list a thread's single intrusive node can be linked in: run queues,
semaphores' `waiting_` and alarms' `thread_`. `FIFO` is represented by the sequence its
pointers spell, which is right only as long as a node is in one list at a time:
`NodeLinkedOnce` states just that.

FixedCore (the default criterion) and RR differ in `Home` (the queue of a thread) and
`Source` (the queue of a core). `Boot` is what `Thread::init` and `Payload::init` leave.

The program may create a thread whose object is free, join any thread but `main`,
destroy a thread when it has joined it and nobody else is joining it, yield and exit, in
any order. Idle threads poll `s_count`. The two barriers of `Thread::idle` are one step
here (`Shutdown`); module `Barrier` justifies it.

### Semaphore, Alarm

`P` and `V` start the calls, `Acquire` is the spin. `PBody` is `fdec`, `PSleep` the
insertion of the caller into the list; `VBody` is `finc`, `VWake` and `VWakeup` the removal
of the first waiter and its way into a run queue: the value and the list change in different
steps. When `p` sleeps, `lock_` stays taken until the epilogue of the next thread. `V` is
also possible from a trap, in the context of any thread. `SleepUntil` is `Alarm::Alarm`;
`Handler` and `HandlerWakeup` are one turn of `Alarm::handler`'s loop. Deadlines are in
microseconds and the clock in nanoseconds, as in the code: `elapsed` converts the deadline
(`Convert`, a product modulo `Word` before the division) and takes the difference modulo
`Word`, which is negative from `Word / 2` on. The alarm's `Spin` on the stack (`LocalSpin`)
is never acquired: the list belongs to the core.

Both tickers of the timer have the timer's own frequency (`include/Traits.hpp`), so every
tick runs both: `ticking[t]` remembers that `Alarm::handler` is still to come when `t`,
interrupted by the tick and switched away from, runs again.

### Barrier, Memory

`Barrier` has one step for each load and store. `entered` and `left` are history variables.
`Memory` takes `alloc` and `free` as atomic: they are inside `spin_` with interrupts
disabled. A free list is a set of addresses. Merging in `Buddy::insert` is written without
recursion: the block rises to the first level whose buddy is not free. A failed allocation
is final.

### VirtualInterrupts

`pc[c]` is the control point of a hart: a guest or thread runs, `Save` and `SwitchIn` are
the two halves of `VirtualCPU::swtch`, `External` the rest of `activate`, `Ipi` and `IpiAck`
the handler of the inter-processor interrupt. An actor that raises or clears an interrupt
(a virtio worker, or the trap handler of a core) has a control point `step[a]` of its own:
`LoadPending` and `CasPending` are the two halves of `pending_ |=` and `&=`, which load
once and retry a `cas` that then cannot succeed (`utility/Atomic.hpp` line 50); `ReadCore`,
`SetExternal` and `Kick` are `setInterruptPending`; `TestPending` and `Clear` the end of
`claim`. Guests may claim, configure and set their timer at any time.

### VirtualSwitch

The two rings of a guest are records of their 16-bit indices and arrays (`Queue`). `Post`,
`Notify` and the interrupt handler (`Claim`, `ReadStatus`, `Acknowledge`, `Collect`) are the
guest's driver, which is not in the repository: it does what the virtio standard says, and
acknowledges before it collects. `P` and `Test` to `TxRaise` are `Network::entry`; `Lock`,
`Update`, `RxFree`, `RxSet`, `RxRaise`, `Unlock` are `VirtualSwitch::notify` under `lock_` and
`Network::update` of one observer after the other. `status |= 1`, `&= ~value` and the
interrupt are steps of their own. Only bit 0 is ever set, so what `|=` and `&=` store does
not depend on what they have loaded: each is one step, at its store.

### ARP

`Acquire`, `Check`, `Request`, `WaitLock`, `WaitRelease` and `Sleep` are `ARP::resolve` with
`ConditionalVariable::wait`; `TakeReply` to `ReplyRelease` are `ARP::update` with `send`. The
network is a number of requests and replies under way per address: it may lose, delay
and reorder them. The worker, which enters the replies, resolves addresses too when it
answers a packet (`TFTP::ack`): whoever sent the packet, it answers to the server that the
transfer was started with, which `request` stores before it resolves it (`TFTP.hpp` 35, 63).
So the worker may call for any address at any time. `entered` is a history variable: the
addresses that a reply was entered for.

### TFTP

`Begin` to `SendRequest` and `Return` are `TFTP::request`, store by store, since `update` may
come between them; `OnOack`, `OnErrorPacket`, `OnData` and `Copy` are `update`. The link keeps
order, holds `Capacity` frames each way and loses any; the server is not in the
repository: it repeats its last packet, early or late, and may give up. The number of
bytes of a packet is what `update` computes: the length of the frame, with its padding.

### DMARing

`Alloc`, `Fill`, `Claim`, `Wait`, `Write`, `Kick`, `Free` are a thread that sends;
`Transmit` and `Suspend` the device's half; `Arrive` is the device's receive side, `Trap` to
`ClearRbu` the interrupt handler, `P`, `Receive`, `Notify`, `Release` the worker. `reused`,
`fresh` and `uncounted` are history variables that name the conditions under which the
driver does not keep its promise.

## Runs

| Run | Instance | Shows |
|---|---|---|
| `kernel_fixed` | FixedCore, 2 cores, `main` and `t2` on one, `t1` on the other, one semaphore | types, links, contexts, asserts, value and waiters, thread count, shutdown, join; the semaphore refines `CountingSemaphore` |
| `kernel_rr` | RR, 2 cores, 2 program threads, a semaphore, deadlines 1 and 5 in words of 16 values, 2 ns to the us | no thread on two cores, no failing assert, although any core may take any thread; alarms in order, never early unless the conversion of the deadline wraps (5) |
| `kernel_live` | FixedCore, `main` and `t2` on one core, the other core idle, a semaphore, deadline 1 and a clock from 0 to 1, with fairness | ready threads run, exited ones finish, sleepers wake, also those that wait for the clock, the machine powers off |
| `memory` | 32 bytes, pages of 4, two reserved areas, blocks of 2..16, up to 4 chunks | blocks partition the memory, buddies merge, failures are unavoidable |
| `barrier` | 4 cores, 3 barriers | separation, and that everyone leaves |
| `vcpu` | 2 cores: a guest on one, traps of the other raise its interrupts, with fairness, the clock stopped | the notice of an interrupt is lost only in four windows; a raised `external_` is seen, but for those windows |
| `vcpu_switch` | 1 core, 2 guests, a worker that raises interrupts | types; a core shows the pending bits of its own virtual CPU only |
| `vcpu_timer` | 1 core: a guest and a worker that raises its interrupts, a clock up to 2, with fairness | a deadline that passes is seen, also by a guest that never gives up the core |
| `switch` | 2 guests and the wire, 2 and 1 frames, rings of 2, indices modulo 4 that start at 3 | each buffer in one place, one order of frames, no completion and no notification lost |
| `arp` | 2 threads and the worker with 1 call each, 3 addresses in 2 entries, 1 loss, with fairness | right addresses, a reply for each waiter, when the worker sleeps, and that calls return |
| `tftp` | 2 requests of 4 and 6 bytes, blocks of 2, block numbers modulo 3, 2 frames each way | undisturbed transfers are right; every call returns |
| `dma` | 2 threads that send 2 frames each through 3 descriptors, 3 arrivals through 2 | frames in order, no receive buffer lost, where a backlog comes from |

Bounds. `MaxValue` stops `v` on a semaphore that holds that many permits: with fewer threads
than that, larger values add nothing. `MaxTime` stops the clock; in `kernel_live` it
reaches the last deadline, in `kernel_rr` the last one wraps to 2 ns. Two cores and two
or three threads give every pair of kernel paths on two cores, a waiter behind a waiter, and
a joiner of a thread on the other core. `MaxChunks` lets the memory be exhausted in several
ways. `Rounds` is the number of barriers QUARK passes; three are enough for a core to lap
another. In `vcpu`, the four windows need one guest and one other core, and one interrupt
number: interrupts differ only in priority, of which two levels are tried. In `switch`, the
indices wrap after the first buffer, and three frames through rings of two use a buffer
again. In `arp`, three addresses in two entries give a collision and an entry without one.
In `tftp`, both files have more than one block, the second has more blocks than there are
block numbers and a full last block; frames of the first connection arrive during the
second. In `dma`, every ring goes round; its indices count without end, as the driver's do.

Fairness (`FairSpec`). A core completes a kernel path (weak fairness of its steps: it
runs with interrupts off and waits for nobody). A spinning core gets a lock that is free
again and again (strong fairness of `Acquire`: `tsl` gives no order, and this is what it
takes for `Spin` to be usable at all). The timer interrupt stays pending and is taken
when interrupts are on again and again (strong fairness of `Tick`). The idle loop goes on.
Nothing is assumed of the program: it may compute for ever, never call `v`, never join.
In `Barrier`, a core inside the barrier goes on. In `VirtualInterrupts`,
kernel code and trap handlers go on, and pending ticks and inter-processor interrupts are
taken when the core is in a guest or a thread again and again. A guest that is not on its
core gets there again, if the switch to it is possible again and again: it is in the FIFO
ready queue or, after a `wfi`, in an alarm that is already due
(`sbi/IllegalInstruction.hpp` 23-25). Nothing is assumed of the idle thread and the workers,
and nothing makes a guest leave its core: `reschedule` looks for threads of criterion
`NORMAL` only (`Thread.cpp` 138). Nothing is assumed of time and of the guests' claims. In
`ARP`, threads run, a mutex that is free again and again is obtained, hosts answer what
they receive. In `TFTP`, both threads run; the server repeats its packet until it gives
up, and of packets sent again and again some arrive. `VirtualSwitch` and `DMARing` have no
fairness: their properties are safety.

Every property is also known to fail when the modelled code is broken in a plausible way:
the definitions marked "Mutant" are those versions, and `PROJECT.json` pairs them with
the properties.

## Proofs

All theorems hold for every value of the constants that satisfies the named assumptions.
Those of the kernel: finitely many cores and threads; each core has an idle thread of its
own in the queue it takes threads from (`IdleAssumption`: `Thread::init` creates one per
core, and `FixedCore` gives it that core, `Thread.cpp` 121 and `FixedCore.hpp` 42-48; with RR
all share the one queue); boot lists that hold each boot thread once, in its own queue.
Those of the other models are the ranges of their parameters and, in `ARP`, finitely many
addresses.

The proofs use no induction over data, which is beyond the prover. Where one is needed (a
sum over a finite set, a multiple of a power of two, the cells of a file), it is replaced
by a smallest counterexample (`LeastNumber`, from the well-foundedness of the order on
naturals), or avoided by a closed form (`Contents(r, b)`).

- `TypesAreKept`: types. They are inductive only with `CoreShape`, which says which local
  pointers are set at each control point.
- `KernelInvariantHolds`: `KernelInvariant` of module `KernelInv`. None of the safety
  properties is inductive alone. The invariant says where a thread can be: held by at most
  one core (it executes it, has its node in hand, or owes it the epilogue) or linked in at
  most one list, with one overlap: a thread that goes to sleep is already in the list it
  sleeps on while its core still executes it, and during that time the core holds the list's
  lock, which it passes on to the epilogue (`WaitingInSemaphore`), or is the only one to
  reach the list (`AlarmedSleeps`). The value of a semaphore and its list disagree by one
  while the owner of `lock_` is between `fdec` and the insertion, or between `finc` and the
  removal; `WaitersCounted` says so (`Owed`). `StepOfCore` reduces a step to what its core
  holds, links and unlinks.
- From it: `NodesLinkedOnce`, `ThreadsOnOneCore`, `ReadyContextsSaved`,
  `FinishedUnreachable`, `ValuesCountWaiters`.
- `SemaphoreRefinement`: the kernel implements `CountingSemaphore` with `permits =
  max(value_, 0)` and `blocked = waiting_`. A step that finds a permit, or leaves one, is
  the abstract `p` or `v` at its `fdec` or `finc`; one that blocks or wakes a caller is at
  its insertion or removal.
- `AssertsHold`. `Thread::dispatch` finds a successor because the idle threads of a queue
  are at least as many as the cores that take from it, each core holds at most one, and a core
  that looks for one holds none (`IdleFound`).
- `CountExact`, `ShutsDownWhenDone`: `s_count` is the number of threads that are not
  finished, less the cores that are between the decrement in the epilogue and the store of
  `FINISHED`. When an idle loop reads no more than the number of cores, the threads of the
  program that are left are exactly those whose epilogue has yet to store `FINISHED`
  (`CountDecides`); none of them runs again, so none is created.
- `AlarmsDueFirst`: a core's list is ordered by deadline, also between the two halves of
  a turn of `Alarm::handler`, and nothing leaves it early unless its deadline wraps. When it
  does not, it is converted exactly and to less than half of the values of a word, so a
  clock behind it makes a difference that is negative as `intmax_t` (`ElapsedIsDue`).
- `BarriersSeparate`: every state lies between two openings of the barrier
  (`Phase(g)`), each core is outside, in the barrier being gathered or still waiting in
  the last one opened, and `ready` is the number of cores that have not arrived.
- `NoBlockLostOrShared`, `FreeBuddiesMerged`, `OutOfMemoryIsTrue` (`MemoryProofs`), for any
  RAM, pages, reserved areas and sequence of calls. The free blocks and the allocated ones
  are tiles: aligned to their size, apart, and together what `Memory::init` found free.
  `Regroup` is the one lemma that `insert`, `remove`, `alloc` and `free` need: replacing
  some tiles by tiles with the same units keeps this. It rests on `Halves` (a block is its
  two halves, and these are buddies) and `MergedCover` (the block that rises to a level
  covers itself and the buddies it has met). A failed allocation means that no aligned
  block of that size is free in whole or in pieces, because pieces would have been merged
  (`NoRoomLeft`).
- `HartShowsOwnBits`, `NoticeLostOnlyInWindows` (`VirtualInterruptsProofs`). A virtual CPU
  is in the queue of one core, so it is current on that core only; the bits a hart shows
  are those its `SwitchIn` and the actors that found it current have stored. The second is
  an action property: a step that forgets an interrupt, or leaves a running guest unaware
  of one, is in one of the four windows.
- `ResolveInvariantHolds` (`ARPProofs`): who holds an entry's mutex (`MutexHeld`); a
  thread in a list of waiters is asleep, once, in its own entry (`WaitersAsleep`); a valid
  entry holds the hardware address of its `pa`, except while the worker is between the two
  stores, when it holds the mutex (`EntryAgrees`); the entry of an address that was entered
  stays valid (`EnteredValid`); and from its test to its sleep the worker resolves an address
  that was not entered or whose entry belongs to another (`WorkerUnknown`), because nobody
  else writes the table. From it: `ResolveReturnsRightAddress` and
  `WorkerSleepsOnlyForUnknown`, for any number of threads, addresses and entries.
- `EveryWaiterHasReply` (`ARPProofs`): from the test of the entry to the sleep, a caller has
  the entry's mutex and then the condition's lock, so no reply can pass it by unseen.
  Requests, replies under way and losses together count at least the callers that wait; the
  counts are sums over finite sets of addresses and threads.
- `SwitchInvariantHolds` (`SwitchProofs`): `NoLostCompletion` is not inductive alone: the
  handler reads `interrupt_status` and returns when it is 0. `StatusSet` says that until the
  driver acknowledges, bit 0 is set for any buffer that it has not seen, unless someone
  is about to set it. From it: `CompletionsAreSeen`, `NotificationsAreTaken` and
  `SwitchTypes`, for any guests, frames and ring sizes that divide the range of the
  indices (the driver takes a power of two).
- `EachBufferIsOnce` (`SwitchProofs`): each buffer of a guest is in the available ring, in
  the used ring, in a hand or spare, once, although 16-bit indices wrap; positions less
  than a ring apart have different slots. `FramesInOneOrder`: a frame in a transmit ring is
  new to all; the frame of the holder of `lock_` is the last one that the observers already
  served have received, or missed, and unknown to the others.
- `FramesReceivedInOrder`, `BacklogIsCoalesced`, `FramesSentInOrder` (`DMARingProofs`), for
  any threads and rings. The invariants speak of positions, not slots. Sending: a claim
  finds room because the frames claimed and not yet sent lie in different buffers, none of
  them in that of the claiming thread, and there are no more buffers than descriptors
  (`RoomToClaim`). Receiving: only the worker returns
  buffers, each to its own slot, so the device meets them in order.
- `TransfersAreClean` (`TFTPProofs`), for any files, block size, range of block numbers and
  sequence of calls. When the client has taken `p` blocks, the server has sent `p` or
  `p + 1`. Under way to the client are errors, the last block of the call before (only
  while `p = 0`), block `p`, and behind it block `p + 1`; under way to the server are
  acknowledgements of `p - 1`, and behind them of `p`. These differ modulo the range, so
  `update` copies the expected block only. The last acknowledgement of a call is under way
  before the next request, so no two connections are open to the client at once.

Only model-checked: the liveness properties (`ReadyThreadRuns`, `ExitedThreadFinishes`,
`EventuallyOff`, `SleeperWakes`, `EveryoneLeaves`, `TimerSeen`, `ExternalSeen`,
`ResolveReturns`, `RequestReturns`). They need `ENABLED` and fairness, which are out of the
prover's reach.

## What the models found

Each point is a condition in one of the properties: without it, TLC shows a run that
violates the property. No document or test of the repository promises otherwise, so
none is listed as a disagreement.

- Interrupts of a guest (`LossOnlyInWindows`). Four windows lose the notice of an interrupt:
  the clear after an older test of `pending()` (`VirtualPLIC.hpp` 87), a write that enables
  what is already pending (97-110), `core_` read before `external_` is stored
  (`VirtualCPU.hpp` 59), and `msip` cleared after the test (`IPI.hpp` 13). The last two are
  made good when the guest is next switched in (`ExternalSeen`); the first two are not,
  until the next interrupt. A guest that computes without `wfi` and is the only ready thread
  of its core is not switched, as `reschedule` leaves the idle thread alone (`Thread.cpp`
  138): there the last two are as final as the first. A hart whose `cas` fails once in `|=`
  or `&=` spins until the old value returns (`Atomic.hpp` 50).
- TFTP. No port is checked, so a late full block of an earlier connection can be taken
  for one of this, after which client and server have different numbers for ever; a late
  last block ends the transfer. This needs a lost acknowledgement, unless the last block
  of the earlier file is numbered 1 modulo 2^16 (one block, or 65537): repeated late, it is
  taken for block 1 of the next call. The proof attempt showed this, and TLC confirms it
  with files of 6 and 4 bytes in blocks of 2, numbered modulo 3; hence the condition of
  `CleanTransfers`. The permit of an error that nobody waits for ends the
  next call at once. Room is checked before the block number (line 101): a repeated
  block can fail the transfer. The padding of a short frame counts as received bytes. A
  lost read request is not repeated. Read, not modelled: the comparison of ports in
  `UDP.hpp` line 50 swaps no bytes.
- ARP. Addresses with the same last byte share an entry: replies can wake the wrong
  waiters for ever. A lost frame leaves a thread asleep. When the worker sleeps in
  `resolve`, nobody enters the reply, and the network stops. It does so for a host whose entry
  was taken over, and for one that was never resolved: an OACK or DATA packet, from anybody,
  that comes before `request` has resolved the server is answered too (`TFTP.hpp` 80, 106).
- Time (`AlarmsInOrder`). An alarm whose deadline is 18446744074 microseconds (five hours) or
  more goes off as soon as the wrapped product is past: `elapsed` multiplies before it
  divides (`Alarm.cpp` 8, `types.hpp` 33). Read, not modelled: `Delay` and `PeriodicThread`
  convert the other way, so five hours after the start their deadlines jump back.
- Ethernet. `send` frees the buffer before the device has read it: with every buffer under
  way, a thread overwrites it. The test of `i - sx_tail_` only yields once. `onTrap` counts
  one permit for several frames, and clears the status of frames that come after the
  count, so frames can stay in the ring until others come.
- virtio. The races on `interrupt_status` are harmless, as only one bit is used and the
  driver acknowledges before it collects: this is proved (`CompletionsAreSeen`).
- Device trees, read and not modelled: `FDT_Builder::finish` adds the size of the reserved
  entry to `size_dt_struct` where it should subtract it.

## Hazards without a property

`PROJECT.json` lists them with the reason, which is one of two. One no run can reach: a
frame that is forwarded between the construction of a virtio device and the guest's writes
of QueuePFN makes `update` test pointers that nobody has set (`virtio/Network.hpp` 27).
In the others the code does go
wrong, so a property can only exempt the case, and then does not cover it: the failing `cas`
(`Spinning`), the guest that keeps its core (`Slept`), a lost ARP frame (`lost`), the permit
of a failed transfer, a late block numbered 1 and the test of the room before that of the
number (`CleanTransfers` ends at the first failure), and a transmit buffer that is given out
too early (`reused`).

## Not modelled

- Register layout, FPU, the registers of PHY, MAC, MTL, CLINT, PLIC and the other drivers,
  console output: hardware whose behaviour the repository does not describe.
- Memory ordering: all accesses are taken as sequentially consistent. `Queue::free` has no
  fence between the entry and the index (`Queue.hpp` 76), which a guest on another
  core could observe; the models cannot show it.
- The virtio console (it handles its ring inside the guest's own trap), the set-up and
  reset of rings, the destructor and `detach` (nothing destroys a virtual machine).
- `PeriodicThread` and `Delay`: a period is an alarm with a deadline, which any thread of
  `Kernel` may set; the arithmetic that computes it is left out.
- `Memory::alloc` of 0 bytes, which returns at once and changes nothing. `DMA::receive`
  increments `rx_head_` before it waits, `Receive` when the wait is over: nothing else reads
  it, and there is one worker.
- SBI calls and the decoding of trapped instructions, beyond the state they change in
  `VirtualInterrupts`; PMP; the page tables, which are built from three gigabyte entries
  before the first barrier; the device tree, which is built before the guest starts.
- IPv4, UDP and Ethernet headers (no state) and CAN.
- Payloads: the program is left open. `payload/RTCSA2026` is vendored SmartData code.

## Plan

1. Refinement of the virtual switch to a broadcast channel with bounded inboxes.
2. Refinement of `ARP`'s condition variable to an abstract one.
3. The FDT builder and the page-table walk as functions against a reference;
   the conversions of `Delay` and `PeriodicThread`.
