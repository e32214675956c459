------------------------ MODULE VirtualInterrupts -------------------------
(***************************************************************************)
(* How an interrupt reaches a guest: the virtual PLIC                      *)
(* (architecture/riscv64/VirtualPLIC.hpp), the virtual CPU and its         *)
(* external_ flag (VirtualCPU.hpp), the switch of virtual CPUs with their  *)
(* host threads (src/architecture/riscv64/Context.cpp), the tick           *)
(* (Timer.hpp) and the inter-processor interrupt (IPI.hpp, CLINT.hpp).     *)
(*                                                                         *)
(* A virtual machine has one virtual CPU and one virtual PLIC: v names     *)
(* both, and the host thread that boots them.  Other host threads          *)
(* (Workers) and trap handlers of any core raise interrupts: an actor is a *)
(* worker or a core.  The steps between which another core may come are    *)
(* actions of their own; loads and stores are sequentially consistent.     *)
(***************************************************************************)
EXTENDS Integers, FiniteSets

CONSTANTS
  Cores,     \* harts of the host
  VCPUs,     \* virtual machines, each with its virtual CPU and host thread
  Workers,   \* host threads that raise interrupts (virtio workers)
  Sources,   \* bound: the workers and the cores whose traps raise interrupts
  Home,      \* [VCPUs \cup Workers -> Cores] the core of a thread's queue
  Irqs,      \* interrupts of one bank of the virtual PLIC, without bit 0
  Contexts,  \* 0..(NumberOfContexts - 1)
  Levels,    \* bound: values of priorities and thresholds
  MaxTime,   \* bound: values of mtime
  None

ASSUME VirtualInterruptsAssumption ==
  /\ Sources \subseteq Workers \cup Cores
  /\ Home \in [VCPUs \cup Workers -> Cores]
  /\ Irqs \subseteq Nat \ {0} /\ Levels \subseteq Nat /\ 0 \in Levels
  /\ MaxTime \in Nat
  /\ None \notin VCPUs \cup Workers \cup Cores
  /\ VCPUs \cap (Workers \cup Cores) = {} /\ Workers \cap Cores = {}

Threads == VCPUs \cup Workers
Actors == Workers \cup Cores
Times == 0..(MaxTime + 1)  \* MaxTime + 1: never (~0ULL)

VARIABLES
  pc,        \* [Cores] control point of the hart
  running,   \* [Cores] thread that has the hart; None: the idle thread
  following, \* [Cores] thread that Thread::dispatch switches to
  cpu,       \* [VCPUs] HypervisorContext::cpu_ of the thread
  current,   \* [Cores] VirtualCPU::current_
  mip,       \* [Cores] supervisor bits of mip: a subset of {"TI", "EI"}
  msip,      \* [Cores] CLINT software interrupt
  mtime,
  core,      \* [VCPUs] core_; None: -1
  external,  \* [VCPUs] external_
  sip,       \* [VCPUs] registers_.sip
  mtimecmp,  \* [VCPUs] registers_.mtimecmp
  pending, enabled, priority, threshold,  \* [VCPUs] the virtual PLIC
  step,      \* [Actors] where in the virtual PLIC the actor is
  target,    \* [Actors] its virtual machine
  irq,       \* [Actors] its interrupt
  seen,      \* [Actors] value of pending_ that its |= or &= has loaded
  hart       \* [Actors] local variable core of setInterruptPending

harts == <<pc, running, following, cpu, current, mip, msip, mtime>>
machines == <<core, external, sip, mtimecmp>>
plic == <<pending, enabled, priority, threshold>>
actors == <<step, target, irq, seen, hart>>
vars == <<harts, machines, plic, actors>>

\* external_ is not initialised by the constructor: either value.
Init ==
  /\ pc = [c \in Cores |-> "run"]
  /\ running = [c \in Cores |-> None]
  /\ following = [c \in Cores |-> None]
  /\ cpu = [v \in VCPUs |-> None]
  /\ current = [c \in Cores |-> None]
  /\ mip = [c \in Cores |-> {}]
  /\ msip = [c \in Cores |-> FALSE]
  /\ mtime = 0
  /\ core = [v \in VCPUs |-> None]
  /\ external \in [VCPUs -> BOOLEAN]
  /\ sip = [v \in VCPUs |-> {}]
  /\ mtimecmp = [v \in VCPUs |-> MaxTime + 1]
  /\ pending = [v \in VCPUs |-> {}]
  /\ enabled = [v \in VCPUs |-> [x \in Contexts |-> {}]]
  /\ priority = [v \in VCPUs |-> [i \in Irqs |-> 0]]
  /\ threshold = [v \in VCPUs |-> [x \in Contexts |-> 0]]
  /\ step = [a \in Actors |-> "out"]
  /\ target = [a \in Actors |-> None]
  /\ irq = [a \in Actors |-> 0]
  /\ seen = [a \in Actors |-> {}]
  /\ hart = [a \in Actors |-> None]

-----------------------------------------------------------------------------
(* The hart: ticks, switches and inter-processor interrupts.               *)

CoreOf(a) == IF a \in Cores THEN a ELSE Home[a]

\* The virtual CPU whose guest executes on the core.
Guest(c) == IF pc[c] = "run" THEN current[c] ELSE None

Due(v) == mtime >= mtimecmp[v]

\* Threads that dispatch may choose on core c.
Ready(c) == ({t \in Threads : Home[t] = c} \cup {None}) \ {running[c]}

\* Mutant: the tick does not look at the guest's deadline.
TickOnlySwitches(c) ==
  /\ pc[c] = "run"
  /\ \/ \E t \in Ready(c) :
          /\ following' = [following EXCEPT ![c] = t]
          /\ pc' = [pc EXCEPT ![c] = "save"]
     \/ UNCHANGED <<following, pc>>
  /\ UNCHANGED <<running, cpu, current, mip, msip, mtime, machines, plic, actors>>

\* Timer::dispatch: VirtualCPU::onTick, then Timer::handler, which may switch.
Tick(c) ==
  /\ pc[c] = "run"
  /\ LET v == current[c]
     IN mip' = IF v # None /\ Due(v) THEN [mip EXCEPT ![c] = @ \cup {"TI"}]
                                     ELSE mip
  /\ \/ \E t \in Ready(c) :
          /\ following' = [following EXCEPT ![c] = t]
          /\ pc' = [pc EXCEPT ![c] = "save"]
     \/ UNCHANGED <<following, pc>>
  /\ UNCHANGED <<running, cpu, current, msip, mtime, machines, plic, actors>>

\* The thread gives up the hart: the wfi of a guest, which the hypervisor
\* turns into a sleep, or a host thread that blocks.
Yield(c, t) ==
  /\ pc[c] = "run" /\ t \in Ready(c)
  /\ following' = [following EXCEPT ![c] = t]
  /\ pc' = [pc EXCEPT ![c] = "save"]
  /\ UNCHANGED <<running, cpu, current, mip, msip, mtime, machines, plic, actors>>

\* HypervisorContext::swtch and the first half of VirtualCPU::swtch.
Save(c) ==
  /\ pc[c] = "save"
  /\ LET t == running[c]
         v == current[c]
     IN /\ cpu' = IF t \in VCPUs THEN [cpu EXCEPT ![t] = v] ELSE cpu
        /\ IF v = None
           THEN UNCHANGED <<sip, core>>
           ELSE /\ sip' = [sip EXCEPT ![v] = mip[c]]
                /\ core' = [core EXCEPT ![v] = None]
        /\ running' = [running EXCEPT ![c] = following[c]]
        /\ following' = [following EXCEPT ![c] = None]
  /\ pc' = [pc EXCEPT ![c] = "next"]
  /\ UNCHANGED <<current, mip, msip, mtime, external, mtimecmp, plic,
                 actors>>

\* VirtualCPU::activate up to its test of external_.
Activate(c, v) ==
  /\ core' = [core EXCEPT ![v] = c]
  /\ current' = [current EXCEPT ![c] = v]
  /\ sip' = IF Due(v) THEN [sip EXCEPT ![v] = @ \cup {"TI"}] ELSE sip
  /\ pc' = [pc EXCEPT ![c] = "external"]

\* The second half of VirtualCPU::swtch.
SwitchIn(c) ==
  /\ pc[c] = "next"
  /\ LET t == running[c]
         v == IF t \in VCPUs THEN cpu[t] ELSE None
     IN \/ /\ v # None
           /\ Activate(c, v)
           /\ UNCHANGED mip
        \/ /\ v = None
           /\ mip' = [mip EXCEPT ![c] = {}]
           /\ current' = [current EXCEPT ![c] = None]
           /\ pc' = [pc EXCEPT ![c] = "run"]
           /\ UNCHANGED <<core, sip>>
  /\ UNCHANGED <<running, following, cpu, msip, mtime, external, mtimecmp, plic,
                 actors>>

\* VirtualCPU::boot, called once by the thread of the virtual machine.
Boot(c) ==
  /\ pc[c] = "run" /\ running[c] \in VCPUs /\ current[c] = None
  /\ Activate(c, running[c])
  /\ UNCHANGED <<running, following, cpu, mip, msip, mtime, external, mtimecmp,
                 plic, actors>>

\* Mutant: activate forgets the interrupts that came while it was away.
ExternalForgotten(c) ==
  /\ pc[c] = "external"
  /\ mip' = [mip EXCEPT ![c] = sip[current[c]]]
  /\ pc' = [pc EXCEPT ![c] = "run"]
  /\ UNCHANGED <<running, following, cpu, current, msip, mtime, machines, plic,
                 actors>>

\* Mutant: restore sets the saved bits without clearing those of the
\* virtual CPU that had the hart before.
RestoreKeepsBits(c) ==
  /\ pc[c] = "external"
  /\ LET v == current[c]
         bits == sip[v] \cup (IF external[v] THEN {"EI"} ELSE {})
     IN /\ sip' = [sip EXCEPT ![v] = bits]
        /\ mip' = [mip EXCEPT ![c] = @ \cup bits]
  /\ pc' = [pc EXCEPT ![c] = "run"]
  /\ UNCHANGED <<running, following, cpu, current, msip, mtime, core, external,
                 mtimecmp, plic, actors>>

\* The test of external_, restore, and the return to the guest.
External(c) ==
  /\ pc[c] = "external"
  /\ LET v == current[c]
         bits == sip[v] \cup (IF external[v] THEN {"EI"} ELSE {})
     IN /\ sip' = [sip EXCEPT ![v] = bits]
        /\ mip' = [mip EXCEPT ![c] = bits]
  /\ pc' = [pc EXCEPT ![c] = "run"]
  /\ UNCHANGED <<running, following, cpu, current, msip, mtime, core, external,
                 mtimecmp, plic, actors>>

\* IPI::onTrap up to CLINT::ipi.
Ipi(c) ==
  /\ pc[c] = "run" /\ msip[c]
  /\ LET v == current[c]
     IN mip' = IF v # None /\ external[v] THEN [mip EXCEPT ![c] = @ \cup {"EI"}]
                                          ELSE mip
  /\ pc' = [pc EXCEPT ![c] = "ipi"]
  /\ UNCHANGED <<running, following, cpu, current, msip, mtime, machines, plic,
                 actors>>

\* CLINT::ipi(mhartid()): the own hart's bit becomes 0.
IpiAck(c) ==
  /\ pc[c] = "ipi"
  /\ msip' = [msip EXCEPT ![c] = FALSE]
  /\ pc' = [pc EXCEPT ![c] = "run"]
  /\ UNCHANGED <<running, following, cpu, current, mip, mtime, machines, plic,
                 actors>>

Clock ==
  /\ mtime < MaxTime
  /\ mtime' = mtime + 1
  /\ UNCHANGED <<pc, running, following, cpu, current, mip, msip, machines, plic,
                 actors>>

-----------------------------------------------------------------------------
(* Actors: they run on a hart, a trap handler without being preempted.     *)

\* The actor may take its next step.
Runs(a) ==
  IF a \in Cores THEN pc[a] = "trap"
                 ELSE running[Home[a]] = a /\ pc[Home[a]] = "run"

\* The actor leaves the virtual PLIC; a trap handler returns.
Return(a) ==
  /\ step' = [step EXCEPT ![a] = "out"]
  /\ target' = [target EXCEPT ![a] = None]
  /\ irq' = [irq EXCEPT ![a] = 0]
  /\ seen' = [seen EXCEPT ![a] = {}]
  /\ hart' = [hart EXCEPT ![a] = None]
  /\ pc' = IF a \in Cores THEN [pc EXCEPT ![a] = "run"] ELSE pc

Goto(a, l) == step' = [step EXCEPT ![a] = l]

\* The actor begins an operation on the virtual PLIC of v.
Begin(a, v, i, l) ==
  /\ step[a] = "out"
  /\ IF a \in Cores
     THEN pc[a] = "run" /\ pc' = [pc EXCEPT ![a] = "trap"]
     ELSE Runs(a) /\ UNCHANGED pc
  /\ step' = [step EXCEPT ![a] = l]
  /\ target' = [target EXCEPT ![a] = v]
  /\ irq' = [irq EXCEPT ![a] = i]
  /\ UNCHANGED <<running, following, cpu, current, mip, msip, mtime, seen, hart,
                 machines, plic>>

\* VirtualPLIC::interrupt: an interrupt that no context enables is dropped.
Interrupt(a, v, i) ==
  /\ \E x \in Contexts : i \in enabled[v][x]
  /\ Begin(a, v, i, "or")

\* The load of Atomic::operator|= or operator&=.
LoadPending(a) ==
  /\ Runs(a) /\ step[a] \in {"or", "and"}
  /\ seen' = [seen EXCEPT ![a] = pending[target[a]]]
  /\ Goto(a, IF step[a] = "or" THEN "or_cas" ELSE "and_cas")
  /\ UNCHANGED <<harts, machines, plic, target, irq, hart>>

\* The successful cas.  It expects what the one load has returned: after a
\* failure the actor tries the same value again, which changes nothing.
CasPending(a) ==
  /\ Runs(a) /\ step[a] \in {"or_cas", "and_cas"}
  /\ LET v == target[a]
     IN /\ pending[v] = seen[a]
        /\ pending' = [pending EXCEPT ![v] =
                         IF step[a] = "or_cas" THEN @ \cup {irq[a]} ELSE @ \ {irq[a]}]
  /\ Goto(a, IF step[a] = "or_cas" THEN "core" ELSE "pending")
  /\ UNCHANGED <<harts, machines, enabled, priority, threshold, target, irq, seen,
                 hart>>

\* setInterruptPending: int core = core_.
ReadCore(a) ==
  /\ Runs(a) /\ step[a] = "core"
  /\ hart' = [hart EXCEPT ![a] = core[target[a]]]
  /\ Goto(a, "external")
  /\ UNCHANGED <<harts, machines, plic, target, irq, seen>>

\* Mutant: a virtual CPU that has no hart is not told.
SetExternalOfRunning(a) ==
  /\ Runs(a) /\ step[a] = "external"
  /\ external' = [external EXCEPT ![target[a]] = @ \/ hart[a] # None]
  /\ Goto(a, "kick")
  /\ UNCHANGED <<harts, core, sip, mtimecmp, plic, target, irq, seen, hart>>

\* external_ = true.
SetExternal(a) ==
  /\ Runs(a) /\ step[a] = "external"
  /\ external' = [external EXCEPT ![target[a]] = TRUE]
  /\ Goto(a, "kick")
  /\ UNCHANGED <<harts, core, sip, mtimecmp, plic, target, irq, seen, hart>>

\* The rest of setInterruptPending: SEIP here, or CLINT::ipi of the hart read
\* before, whose msip becomes hartid != mhartid().
Kick(a) ==
  /\ Runs(a) /\ step[a] = "kick"
  /\ LET c == CoreOf(a)
     IN \/ /\ current[c] = target[a]
           /\ mip' = [mip EXCEPT ![c] = @ \cup {"EI"}]
           /\ UNCHANGED msip
        \/ /\ current[c] # target[a] /\ hart[a] # None
           /\ msip' = [msip EXCEPT ![hart[a]] = hart[a] # c]
           /\ UNCHANGED mip
        \/ /\ current[c] # target[a] /\ hart[a] = None
           /\ UNCHANGED <<mip, msip>>
  /\ Return(a)
  /\ UNCHANGED <<running, following, cpu, current, mtime, machines, plic>>

-----------------------------------------------------------------------------
(* The guest's accesses, which trap to the hart that runs it.              *)

\* VirtualPLIC::claim takes the first enabled interrupt, whatever its
\* priority; without one only the test of pending() is left.
Claim(c, x) ==
  /\ Guest(c) # None
  /\ LET v == Guest(c)
         active == pending[v] \cap enabled[v][x]
     IN \/ /\ active # {}
           /\ \E i \in active : /\ \A j \in active : i <= j
                                /\ Begin(c, v, i, "and")
        \/ /\ active = {}
           /\ Begin(c, v, 0, "pending")

\* VirtualPLIC::pending.
Active(v) ==
  \E x \in Contexts : \E i \in pending[v] \cap enabled[v][x] :
    priority[v][i] > threshold[v][x]

\* The test of pending() after the claim.
TestPending(c) ==
  /\ Runs(c) /\ step[c] = "pending"
  /\ \/ /\ Active(target[c])
        /\ Return(c)
     \/ /\ ~Active(target[c])
        /\ Goto(c, "clear")
        /\ UNCHANGED <<pc, target, irq, seen, hart>>
  /\ UNCHANGED <<running, following, cpu, current, mip, msip, mtime, machines, plic>>

\* VirtualCPU::clearInterruptPending.
Clear(c) ==
  /\ Runs(c) /\ step[c] = "clear"
  /\ external' = [external EXCEPT ![target[c]] = FALSE]
  /\ mip' = [mip EXCEPT ![c] = @ \ {"EI"}]
  /\ Return(c)
  /\ UNCHANGED <<running, following, cpu, current, msip, mtime, core, sip,
                 mtimecmp, plic>>

\* Mutant: the guest's deadline is taken as a delay.
SetTimerRelative(c, t) ==
  /\ Guest(c) # None
  /\ LET v == Guest(c)
     IN /\ mtimecmp' = [mtimecmp EXCEPT ![v] = mtime + t]
        /\ mip' = [mip EXCEPT ![c] =
                     IF t <= mtime THEN @ \cup {"TI"} ELSE @ \ {"TI"}]
  /\ UNCHANGED <<pc, running, following, cpu, current, msip, mtime, core,
                 external, sip, plic, actors>>

\* VirtualCPU::mtimecmp, the guest's SBI call.
SetTimer(c, t) ==
  /\ Guest(c) # None
  /\ LET v == Guest(c)
     IN /\ mtimecmp' = [mtimecmp EXCEPT ![v] = t]
        /\ mip' = [mip EXCEPT ![c] =
                     IF t <= mtime THEN @ \cup {"TI"} ELSE @ \ {"TI"}]
  /\ UNCHANGED <<pc, running, following, cpu, current, msip, mtime, core,
                 external, sip, plic, actors>>

\* VirtualPLIC::write: none of these looks at what is pending.
WriteEnabled(c, x, s) ==
  /\ Guest(c) # None
  /\ enabled' = [enabled EXCEPT ![Guest(c)][x] = s]
  /\ UNCHANGED <<harts, machines, pending, priority, threshold, actors>>

WritePriority(c, i, l) ==
  /\ Guest(c) # None
  /\ priority' = [priority EXCEPT ![Guest(c)][i] = l]
  /\ UNCHANGED <<harts, machines, pending, enabled, threshold, actors>>

WriteThreshold(c, x, l) ==
  /\ Guest(c) # None
  /\ threshold' = [threshold EXCEPT ![Guest(c)][x] = l]
  /\ UNCHANGED <<harts, machines, pending, enabled, priority, actors>>

Configure(c) ==
  \/ \E x \in Contexts, s \in SUBSET Irqs : WriteEnabled(c, x, s)
  \/ \E i \in Irqs, l \in Levels : WritePriority(c, i, l)
  \/ \E x \in Contexts, l \in Levels : WriteThreshold(c, x, l)

-----------------------------------------------------------------------------
\* The steps of the hypervisor that go on by themselves.
HartStep(c) == Save(c) \/ SwitchIn(c) \/ Boot(c) \/ External(c) \/ Ipi(c) \/ IpiAck(c)

ActorStep(a) ==
  LoadPending(a) \/ CasPending(a) \/ ReadCore(a) \/ SetExternal(a) \/ Kick(a)

TrapStep(c) == TestPending(c) \/ Clear(c)

\* What guests, devices and the scheduler may do at any time.
Demand ==
  \/ \E c \in Cores :
       \/ \E t \in Threads \cup {None} : Yield(c, t)
       \/ \E x \in Contexts : Claim(c, x)
       \/ \E t \in Times : SetTimer(c, t)
       \/ Configure(c)
  \/ \E a \in Sources, v \in VCPUs, i \in Irqs : Interrupt(a, v, i)

Next ==
  \/ \E c \in Cores : Tick(c) \/ HartStep(c) \/ TrapStep(c)
  \/ \E a \in Actors : ActorStep(a)
  \/ Demand
  \/ Clock

Spec == Init /\ [][Next]_vars

\* The hart is given to thread t, by a tick or by the thread that had it.
SwitchTo(c, t) ==
  /\ Tick(c) \/ Yield(c, t)
  /\ pc'[c] = "save" /\ following'[c] = t

\* Kernel code and trap handlers go on.  The tick that sets the timer bit and
\* inter-processor interrupts stay pending until they are taken.  A guest that
\* does not have its hart gets it again: it is ready, or will be at the next
\* tick (its wfi is an Alarm(0)), and the ready queue is FIFO.  Nothing makes a
\* guest give up the hart: the idle thread gets it only when no other thread is
\* ready (Thread.cpp:138).
Fairness ==
  /\ \A c \in Cores : /\ WF_vars(HartStep(c) \/ TrapStep(c) \/ ActorStep(c))
                      /\ SF_vars(Tick(c) /\ mip' # mip)
                      /\ SF_vars(Ipi(c))
  /\ \A v \in VCPUs : SF_vars(SwitchTo(Home[v], v))

FairSpec == Spec /\ Fairness

-----------------------------------------------------------------------------
\* Every variable keeps its type.
TypeOK ==
  /\ pc \in [Cores -> {"run", "save", "next", "external", "ipi", "trap"}]
  /\ running \in [Cores -> Threads \cup {None}]
  /\ following \in [Cores -> Threads \cup {None}]
  /\ cpu \in [VCPUs -> VCPUs \cup {None}]
  /\ current \in [Cores -> VCPUs \cup {None}]
  /\ mip \in [Cores -> SUBSET {"TI", "EI"}]
  /\ msip \in [Cores -> BOOLEAN]
  /\ mtime \in 0..MaxTime
  /\ core \in [VCPUs -> Cores \cup {None}]
  /\ external \in [VCPUs -> BOOLEAN]
  /\ sip \in [VCPUs -> SUBSET {"TI", "EI"}]
  /\ mtimecmp \in [VCPUs -> Times]
  /\ pending \in [VCPUs -> SUBSET Irqs]
  /\ enabled \in [VCPUs -> [Contexts -> SUBSET Irqs]]
  /\ priority \in [VCPUs -> [Irqs -> Levels]]
  /\ threshold \in [VCPUs -> [Contexts -> Levels]]
  /\ step \in [Actors -> {"out", "or", "or_cas", "core", "external", "kick",
                          "and", "and_cas", "pending", "clear"}]
  /\ target \in [Actors -> VCPUs \cup {None}]
  /\ irq \in [Actors -> Irqs \cup {0}]
  /\ seen \in [Actors -> SUBSET Irqs]
  /\ hart \in [Actors -> Cores \cup {None}]

\* A hart that executes shows the pending bits of the virtual CPU it executes
\* and of no other: without a guest there are none; with one, the hart belongs
\* to the virtual CPU of the running thread and the virtual CPU to the hart,
\* the timer bit means that the guest's own deadline has passed, and the
\* external bit that its own virtual PLIC has raised external_.  No virtual CPU
\* is current on two harts (VirtualCPU::swtch, boot, onTick, mtimecmp).
HartShowsItsVcpu ==
  /\ \A c \in Cores : pc[c] \in {"run", "ipi", "trap"} =>
       LET v == current[c]
       IN /\ v = None => mip[c] = {}
          /\ v # None => /\ v = running[c] /\ core[v] = c
                         /\ "TI" \in mip[c] => Due(v)
                         /\ "EI" \in mip[c] => external[v]
  /\ \A c, d \in Cores : current[c] = current[d] => c = d \/ current[c] = None

\* A pending interrupt that nobody will tell the guest about: external_ is
\* clear, and no actor is on its way to set it.
Forgotten(v) ==
  /\ Active(v) /\ ~external[v]
  /\ \A a \in Actors : target[a] = v => step[a] \notin {"core", "external"}

\* A guest that executes without seeing external_: neither the bit in mip, nor
\* an inter-processor interrupt, nor an actor about to send one.
Slept(v) ==
  \E c \in Cores :
    /\ current[c] = v /\ pc[c] \in {"run", "ipi", "trap"}
    /\ external[v] /\ "EI" \notin mip[c] /\ ~msip[c]
    /\ \A a \in Actors : target[a] = v /\ step[a] = "kick" =>
                           hart[a] # c /\ CoreOf(a) # c

\* The code loses the notice of an interrupt in four places only.  An
\* interrupt is forgotten only by the clear that follows an older test of
\* pending() (VirtualPLIC.hpp:87) or by a write that enables what is already
\* pending (VirtualPLIC.hpp:97-110); a running guest misses external_ only
\* because the core read before the store is stale (VirtualCPU.hpp:59), or
\* because the IPI handler clears msip after its test (IPI.hpp:13).
LossOnlyInWindows ==
  [][\A v \in VCPUs :
       /\ ~Forgotten(v) /\ Forgotten(v)' =>
            \E c \in Cores : \/ Clear(c) /\ target[c] = v
                             \/ Configure(c) /\ current[c] = v
       /\ ~Slept(v) /\ Slept(v)' =>
            \/ \E a \in Actors : SetExternal(a) /\ target[a] = v /\ hart[a] = None
            \/ \E c \in Cores : IpiAck(c) /\ current[c] = v]_vars

\* The hart of v is in a |= or &= whose cas fails.
Spinning(v) ==
  /\ step[Home[v]] \in {"or_cas", "and_cas"}
  /\ pending[target[Home[v]]] # seen[Home[v]]

Sees(v, bit) == Guest(Home[v]) = v /\ bit \in mip[Home[v]]
Booted(v) == cpu[v] = v \/ current[Home[v]] = v

\* A deadline that passes is seen, also by a guest that never gives up its
\* hart: the guest executes with the timer bit, or sets another deadline, or the
\* hart spins in a cas that its one load has made fail (VirtualCPU.hpp:53,
\* 76-81, Atomic.hpp:50).
TimerSeen ==
  \A v \in VCPUs :
    Booted(v) /\ Due(v) ~> ~Due(v) \/ Sees(v, "TI") \/ Spinning(v)

\* Once external_ is set, the guest executes with the external bit, or external_
\* is cleared, or the hart spins in a cas.  A guest that has its hart may miss
\* it for as long as it keeps it, in the windows of LossOnlyInWindows; one that
\* does not have its hart sees it when it gets it back, whatever was lost
\* before (VirtualCPU.hpp:54, 57-65, 73-75).
ExternalSeen ==
  \A v \in VCPUs :
    /\ Booted(v) /\ external[v] ~>
         ~external[v] \/ Sees(v, "EI") \/ Spinning(v) \/ Slept(v)
    /\ Booted(v) /\ external[v] /\ running[Home[v]] # v ~>
         ~external[v] \/ Sees(v, "EI") \/ Spinning(v)
=============================================================================
