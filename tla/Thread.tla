------------------------------- MODULE Thread -------------------------------
(***************************************************************************)
(* QUARK's kernel threads: src/Thread.cpp over the scheduler               *)
(* (include/scheduler) and its intrusive FIFO lists.  The program that the *)
(* threads execute is left open: a running thread may create, join and     *)
(* destroy threads, yield, be preempted by a timer tick or exit, at any    *)
(* time; blocking and waking belong to the modules that call Sleep and     *)
(* Wakeup.                                                                 *)
(*                                                                         *)
(* A core runs with interrupts disabled wherever pc[c] # "user"            *)
(* (CPU::IRQ::Guard in every kernel entry, and contexts saved by           *)
(* Context::swtch resume with interrupts off), so a tick is possible at    *)
(* "user" only.  Other cores interleave between any two steps.             *)
(***************************************************************************)
EXTENDS Integers, Sequences, FiniteSets

CONSTANTS
  Cores,     \* the Traits<CPU>::Active cores
  Normal,    \* threads of criterion NORMAL
  Idle,      \* the threads Thread::init creates, of criterion IDLE
  Main,      \* the thread Payload::init creates
  Spins,     \* the semaphores' Spin locks, each with a list of waiting threads
  LocalSpin, \* the Spin on the stack of Alarm::Alarm, which nobody acquires
  Queues,    \* the scheduler's run queues (a NORMAL and an IDLE FIFO each)
  Home,      \* the run queue a thread's criterion inserts it in
  Source,    \* the run queue a core removes from
  Boot,      \* the lists Thread::init and Payload::init leave
  None       \* nullptr

Threads == Normal \cup Idle
Locks   == Spins \cup {LocalSpin}

\* Every list a thread's single node_ may be linked into.
NormalLists == {<<"NORMAL", q>> : q \in Queues}
IdleLists   == {<<"IDLE", q>> : q \in Queues}
WaitLists   == {<<"waiting", s>> : s \in Spins}
AlarmLists  == {<<"alarm", t>> : t \in Normal}
Lists       == NormalLists \cup IdleLists \cup WaitLists \cup AlarmLists

\* FixedCore: one run queue per core.  RR: one for all of them.
ReadyList(t) == <<IF t \in Idle THEN "IDLE" ELSE "NORMAL", Home[t]>>
NormalOf(c)  == <<"NORMAL", Source[c]>>
IdleOf(c)    == <<"IDLE", Source[c]>>
WaitList(s)  == <<"waiting", s>>    \* Semaphore::waiting_
AlarmList(t) == <<"alarm", t>>      \* Alarm::thread_ of the alarm t sleeps on

\* The threads that exist when Thread::run starts the cores.
BootThreads == Idle \cup {Main}

ASSUME ThreadAssumption ==
  /\ IsFiniteSet(Cores) /\ Cores # {}
  /\ IsFiniteSet(Normal) /\ Main \in Normal
  /\ IsFiniteSet(Idle) /\ Cardinality(Idle) = Cardinality(Cores)
  /\ Normal \cap Idle = {}
  /\ Home \in [Threads -> Queues] /\ Source \in [Cores -> Queues]
  /\ LocalSpin \notin Spins /\ None \notin Threads \cup Locks

\* Thread::init creates as many idle threads as there are cores, and idles_
\* gives each core one that starts in the IDLE queue the core removes from.
ASSUME IdleAssumption ==
  \E own \in [Cores -> Idle] :
    /\ \A c, d \in Cores : own[c] = own[d] => c = d
    /\ \A c \in Cores : Home[own[c]] = Source[c]

ASSUME BootAssumption ==
  /\ Boot \in [Lists -> Seq(Threads)]
  /\ \A l \in Lists : \A i \in 1..Len(Boot[l]) :
       Boot[l][i] \in BootThreads /\ ReadyList(Boot[l][i]) = l
  /\ \A l \in Lists : \A i, j \in 1..Len(Boot[l]) :
       Boot[l][i] = Boot[l][j] => i = j
  /\ \A t \in BootThreads :
       \E i \in 1..Len(Boot[ReadyList(t)]) : Boot[ReadyList(t)][i] = t

VARIABLES
  pc,         \* [Cores]   control point of the core
  cpu,        \* [Cores]   thread whose stack and registers the core executes
  node,       \* [Cores]   local Node *: taken out of a list, linked in none
  lock,       \* [Cores]   local Spin *: the lock being operated on
  heads,      \* [Cores]   Scheduler::_heads, what Thread::running() returns
  s_previous, \* [Cores]   Thread::s_previous
  s_spin,     \* [Cores]   Thread::s_spin
  s_count,    \*           Thread::s_count
  state,      \* [Threads] Thread::state_; "NONE": there is no such object
  context,    \* [Threads] Thread::context_: where its saved frame resumes
  joining,    \* [Threads] the thread in whose join() this thread loops
  ticking,    \* [Threads] in Timer::handler, with Alarm::handler still to run
  locked,     \* [Locks]   Spin::locked_
  fifo        \* [Lists]   the FIFO lists of thread nodes

threadVars == <<pc, cpu, node, lock, heads, s_previous, s_spin, s_count,
                state, context, joining, ticking, locked, fifo>>

States   == {"NONE", "RUNNING", "READY", "WAITING", "FINISHING", "FINISHED"}
Contexts == {"none", "entry", "kernel", "live"}

\* FIFO::insert and FIFO::remove; the run queues' own Spin makes each atomic.
Insert(l, t) == fifo' = [fifo EXCEPT ![l] = Append(@, t)]
Remove(l)    == fifo[l] # <<>> /\ fifo' = [fifo EXCEPT ![l] = Tail(@)]

Goto(c, l) == pc' = [pc EXCEPT ![c] = l]

\* A step that only moves the core on.
Proceed(c, l) ==
  /\ Goto(c, l)
  /\ UNCHANGED <<cpu, node, lock, heads, s_previous, s_spin, s_count, state,
                 context, joining, ticking, locked, fifo>>

ThreadInit ==
  /\ pc = [c \in Cores |-> "run"]
  /\ cpu = [c \in Cores |-> None]
  /\ node = [c \in Cores |-> None]
  /\ lock = [c \in Cores |-> None]
  /\ heads = [c \in Cores |-> None]
  /\ s_previous = [c \in Cores |-> None]
  /\ s_spin = [c \in Cores |-> None]
  /\ s_count = Cardinality(Cores) + 1
  /\ state = [t \in Threads |-> IF t \in BootThreads THEN "READY" ELSE "NONE"]
  /\ context = [t \in Threads |-> IF t \in BootThreads THEN "entry" ELSE "none"]
  /\ joining = [t \in Threads |-> None]
  /\ ticking = [t \in Threads |-> FALSE]
  /\ locked = [s \in Locks |-> FALSE]
  /\ fifo = Boot

-----------------------------------------------------------------------------
(* What a running thread does in its own code, interrupts enabled.          *)

\* A thread of the program runs on c, outside join().
InProgram(c) == pc[c] = "user" /\ heads[c] \in Normal /\ joining[heads[c]] = None
InJoin(c)    == pc[c] = "user" /\ heads[c] \in Normal /\ joining[heads[c]] # None

\* Mutant: the tick does not reschedule.
TickAlarmOnly(c) ==
  /\ pc[c] = "user"
  /\ ticking' = [ticking EXCEPT ![heads[c]] = TRUE]
  /\ Goto(c, "alarm")
  /\ UNCHANGED <<cpu, node, lock, heads, s_previous, s_spin, s_count, state,
                 context, joining, locked, fifo>>

\* The timer's trap: Timer::handler calls Thread::reschedule first, and
\* Alarm::handler when this thread runs again.
Tick(c) ==
  /\ pc[c] = "user"
  /\ ticking' = [ticking EXCEPT ![heads[c]] = TRUE]
  /\ Goto(c, "reschedule")
  /\ UNCHANGED <<cpu, node, lock, heads, s_previous, s_spin, s_count, state,
                 context, joining, locked, fifo>>

\* Thread::yield.
Yield(c) == InProgram(c) /\ Proceed(c, "reschedule")

\* Mutant: the new thread is not counted.
CreateUncounted(c, t) ==
  /\ InProgram(c)
  /\ state[t] = "NONE"
  /\ state' = [state EXCEPT ![t] = "READY"]
  /\ context' = [context EXCEPT ![t] = "entry"]
  /\ node' = [node EXCEPT ![c] = t]
  /\ Goto(c, "create")
  /\ UNCHANGED <<cpu, lock, heads, s_previous, s_spin, s_count, joining, ticking,
                 locked, fifo>>

\* Thread::Thread, up to the count.
Create(c, t) ==
  /\ InProgram(c)
  /\ state[t] = "NONE"
  /\ state' = [state EXCEPT ![t] = "READY"]
  /\ context' = [context EXCEPT ![t] = "entry"]
  /\ s_count' = s_count + 1
  /\ node' = [node EXCEPT ![c] = t]
  /\ Goto(c, "create")
  /\ UNCHANGED <<cpu, lock, heads, s_previous, s_spin, joining, ticking, locked,
                 fifo>>

\* Thread::Thread's s_scheduler.insert.
CreateInsert(c) ==
  /\ pc[c] = "create"
  /\ Insert(ReadyList(node[c]), node[c])
  /\ node' = [node EXCEPT ![c] = None]
  /\ Goto(c, "user")
  /\ UNCHANGED <<cpu, lock, heads, s_previous, s_spin, s_count, state, context,
                 joining, ticking, locked>>

\* The program calls join(), or ~Thread, whose first statement it is.
Join(c, t) ==
  /\ InProgram(c)
  /\ t \notin {Main, heads[c]} /\ state[t] # "NONE"
  /\ joining' = [joining EXCEPT ![heads[c]] = t]
  /\ UNCHANGED <<pc, cpu, node, lock, heads, s_previous, s_spin, s_count,
                 state, context, ticking, locked, fifo>>

\* join() calls reschedule() until t is FINISHED.
JoinLoop(c) ==
  /\ InJoin(c) /\ state[joining[heads[c]]] # "FINISHED"
  /\ Proceed(c, "reschedule")

\* Then it returns; ~Thread also frees t's stacks, which a correct program
\* asks for when no other thread refers to t.
JoinReturn(c) ==
  /\ InJoin(c)
  /\ LET t == joining[heads[c]]
     IN /\ state[t] = "FINISHED"
        /\ \/ UNCHANGED <<state, context>>
           \/ /\ \A u \in Threads \ {heads[c]} : joining[u] # t
              /\ state' = [state EXCEPT ![t] = "NONE"]
              /\ context' = [context EXCEPT ![t] = "none"]
  /\ joining' = [joining EXCEPT ![heads[c]] = None]
  /\ UNCHANGED <<pc, cpu, node, lock, heads, s_previous, s_spin, s_count,
                 ticking, locked, fifo>>

\* The thread's function returns into Thread::exit.
Exit(c) == InProgram(c) /\ Proceed(c, "exit")

\* Mutant: the idle threads are counted as one too many.
IdleLoopEarly(c) ==
  /\ pc[c] = "user" /\ heads[c] \in Idle
  /\ Proceed(c, IF s_count > Cardinality(Cores) + 1 THEN "reschedule" ELSE "barrier")

\* Mutant: off by one, the idle threads wait for themselves.
IdleLoopForever(c) ==
  /\ pc[c] = "user" /\ heads[c] \in Idle
  /\ Proceed(c, IF s_count >= Cardinality(Cores) THEN "reschedule" ELSE "barrier")

\* Thread::idle: poll while a thread of the program exists, else shut down.
IdleLoop(c) ==
  /\ pc[c] = "user" /\ heads[c] \in Idle
  /\ Proceed(c, IF s_count > Cardinality(Cores) THEN "reschedule" ELSE "barrier")

\* CPU::barrier() in Thread::idle, then Machine::shutdown.
Shutdown(c) ==
  /\ pc[c] = "barrier" /\ \A d \in Cores : pc[d] \in {"barrier", "off"}
  /\ Proceed(c, "off")

-----------------------------------------------------------------------------
(* The kernel's paths, interrupts disabled.                                 *)

\* Scheduler::remove: the first node of l leaves it and becomes the head.
Take(c, l) ==
  /\ Remove(l)
  /\ node' = [node EXCEPT ![c] = Head(fifo[l])]
  /\ heads' = [heads EXCEPT ![c] = Head(fifo[l])]

\* Mutant: the tick's trap returns without Alarm::handler after a switch.
ResumeWithoutAlarm(t) == "user"

\* Where a kernel path ends: in Timer::handler, or with interrupts enabled.
Resume(t) == IF ticking[t] THEN "alarm" ELSE "user"

\* Thread::reschedule: switch only if a NORMAL thread is ready.
Reschedule(c) ==
  /\ pc[c] = "reschedule"
  /\ \/ /\ Take(c, NormalOf(c))
        /\ state' = [state EXCEPT ![heads[c]] = "READY"]
        /\ Goto(c, "dispatch")
     \/ /\ fifo[NormalOf(c)] = <<>>
        /\ Goto(c, Resume(heads[c]))
        /\ UNCHANGED <<fifo, node, heads, state>>
  /\ UNCHANGED <<cpu, lock, s_previous, s_spin, s_count, context, joining,
                 ticking, locked>>

\* The callers of Scheduler::remove(IDLE), and where they look for an idle
\* thread once the NORMAL queue was empty.
IdleRetry == [exit |-> "exit_idle", sleep |-> "sleep_idle", run |-> "run_idle"]

\* Mutant: exit() is FINISHED while it still runs on its stack.
RemovedFinished(c, caller) ==
  /\ state' = IF caller = "exit"
              THEN [state EXCEPT ![heads[c]] = "FINISHED"]
              ELSE state
  /\ Goto(c, IF caller = "run" THEN "load" ELSE "dispatch")

\* What Thread::exit, Thread::sleep and Thread::run do with the node.
Removed(c, caller) ==
  /\ state' = IF caller = "exit"
              THEN [state EXCEPT ![heads[c]] = "FINISHING"]
              ELSE state
  /\ Goto(c, IF caller = "run" THEN "load" ELSE "dispatch")

RemoveNormal(c) ==
  /\ \E caller \in DOMAIN IdleRetry :
       /\ pc[c] = caller
       /\ \/ Take(c, NormalOf(c)) /\ Removed(c, caller)
          \/ /\ fifo[NormalOf(c)] = <<>>
             /\ Goto(c, IdleRetry[caller])
             /\ UNCHANGED <<fifo, node, heads, state>>
  /\ UNCHANGED <<cpu, lock, s_previous, s_spin, s_count, context, joining,
                 ticking, locked>>

\* Without an idle thread, assert(threshold != Criterion::IDLE) fails.
RemoveIdle(c) ==
  /\ \E caller \in DOMAIN IdleRetry :
       /\ pc[c] = IdleRetry[caller]
       /\ \/ Take(c, IdleOf(c)) /\ Removed(c, caller)
          \/ /\ fifo[IdleOf(c)] = <<>>
             /\ Goto(c, "assert")
             /\ UNCHANGED <<fifo, node, heads, state>>
  /\ UNCHANGED <<cpu, lock, s_previous, s_spin, s_count, context, joining,
                 ticking, locked>>

\* Thread::run: Context::load, whose frame starts in Thread::entry.  The
\* state of the thread stays READY.
Load(c) ==
  /\ pc[c] = "load"
  /\ cpu' = [cpu EXCEPT ![c] = node[c]]
  /\ context' = [context EXCEPT ![node[c]] = "live"]
  /\ node' = [node EXCEPT ![c] = None]
  /\ Goto(c, IF s_previous[c] = None THEN "user" ELSE "epilogue")
  /\ UNCHANGED <<lock, heads, s_previous, s_spin, s_count, state, joining,
                 ticking, locked, fifo>>

\* Thread::dispatch up to Context::swtch: cpu[c], the caller, is saved in
\* its context and node[c] is loaded; it continues with the epilogue.
Dispatch(c) ==
  /\ pc[c] = "dispatch"
  /\ IF node[c] = cpu[c]
     THEN /\ Goto(c, "assert")
          /\ UNCHANGED <<cpu, node, lock, s_previous, s_spin, state, context>>
     ELSE /\ s_previous' = [s_previous EXCEPT ![c] = cpu[c]]
          /\ s_spin' = [s_spin EXCEPT ![c] = lock[c]]
          /\ state' = [state EXCEPT ![node[c]] = "RUNNING"]
          /\ context' = [context EXCEPT ![cpu[c]] = "kernel", ![node[c]] = "live"]
          /\ cpu' = [cpu EXCEPT ![c] = node[c]]
          /\ node' = [node EXCEPT ![c] = None]
          /\ lock' = [lock EXCEPT ![c] = None]
          /\ Goto(c, "epilogue")
  /\ UNCHANGED <<heads, s_count, joining, ticking, locked, fifo>>

\* Thread::epilogue, on the stack of the next thread.
Epilogue(c) ==
  /\ pc[c] = "epilogue"
  /\ LET t == s_previous[c]
     IN \/ /\ state[t] = "READY"
           /\ Insert(ReadyList(t), t)
           /\ Goto(c, Resume(cpu[c]))
           /\ UNCHANGED <<locked, s_count>>
        \/ /\ state[t] = "WAITING" /\ s_spin[c] # None
           /\ locked' = [locked EXCEPT ![s_spin[c]] = FALSE]
           /\ Goto(c, Resume(cpu[c]))
           /\ UNCHANGED <<fifo, s_count>>
        \/ /\ state[t] = "WAITING" /\ s_spin[c] = None
           /\ Goto(c, "assert")
           /\ UNCHANGED <<fifo, locked, s_count>>
        \/ /\ state[t] = "FINISHING"
           /\ s_count' = s_count - 1
           /\ Goto(c, "finish")
           /\ UNCHANGED <<fifo, locked>>
        \/ /\ state[t] \notin {"READY", "WAITING", "FINISHING"}
           /\ Goto(c, Resume(cpu[c]))
           /\ UNCHANGED <<fifo, locked, s_count>>
  /\ UNCHANGED <<cpu, node, lock, heads, s_previous, s_spin, state, context,
                 joining, ticking>>

\* Mutant: the epilogue of a finishing thread forgets the store.
FinishForgotten(c) ==
  /\ pc[c] = "finish"
  /\ Goto(c, Resume(cpu[c]))
  /\ UNCHANGED <<cpu, node, lock, heads, s_previous, s_spin, s_count, state,
                 context, joining, ticking, locked, fifo>>

\* Thread::epilogue's last store: from here on a joiner may free the stacks.
Finish(c) ==
  /\ pc[c] = "finish"
  /\ state' = [state EXCEPT ![s_previous[c]] = "FINISHED"]
  /\ Goto(c, Resume(cpu[c]))
  /\ UNCHANGED <<cpu, node, lock, heads, s_previous, s_spin, s_count, context,
                 joining, ticking, locked, fifo>>

-----------------------------------------------------------------------------
(* Thread::sleep and Thread::wakeup, for the modules that call them.        *)

\* Mutant: sleep links its local node, not the caller's.
SleepWrongNode(c, l) ==
  /\ Insert(l, node[c])
  /\ state' = [state EXCEPT ![heads[c]] = "WAITING"]
  /\ Goto(c, "sleep")

\* sleep(l, s): the caller's node enters l, then it looks for a successor.
Sleep(c, l) ==
  /\ Insert(l, heads[c])
  /\ state' = [state EXCEPT ![heads[c]] = "WAITING"]
  /\ Goto(c, "sleep")

\* Mutant: the woken thread stays linked in the waiting list.
WakeupLinked(c, l, after) ==
  \/ /\ fifo[l] # <<>> /\ UNCHANGED fifo
     /\ node' = [node EXCEPT ![c] = Head(fifo[l])]
     /\ state' = [state EXCEPT ![Head(fifo[l])] = "READY"]
     /\ Goto(c, after)
  \/ /\ fifo[l] = <<>>
     /\ Goto(c, "assert")
     /\ UNCHANGED <<fifo, node, state>>

\* Mutant: the last waiter leaves l.
WakeupLast(c, l, after) ==
  \/ /\ fifo[l] # <<>>
     /\ LET t == fifo[l][Len(fifo[l])]
        IN /\ fifo' = [fifo EXCEPT ![l] = SubSeq(@, 1, Len(@) - 1)]
           /\ node' = [node EXCEPT ![c] = t]
           /\ state' = [state EXCEPT ![t] = "READY"]
     /\ Goto(c, after)
  \/ /\ fifo[l] = <<>>
     /\ Goto(c, "assert")
     /\ UNCHANGED <<fifo, node, state>>

\* wakeup(l): the first waiter leaves l; without one assert(node) fails.
Wakeup(c, l, after) ==
  \/ /\ Remove(l)
     /\ node' = [node EXCEPT ![c] = Head(fifo[l])]
     /\ state' = [state EXCEPT ![Head(fifo[l])] = "READY"]
     /\ Goto(c, after)
  \/ /\ fifo[l] = <<>>
     /\ Goto(c, "assert")
     /\ UNCHANGED <<fifo, node, state>>

\* wakeup(l): s_scheduler.insert(node), then back to the caller.
WakeupInsert(c, after) ==
  /\ Insert(ReadyList(node[c]), node[c])
  /\ node' = [node EXCEPT ![c] = None]
  /\ Goto(c, after)

-----------------------------------------------------------------------------
\* What the program running on c may do next.
ProgramStep(c) ==
  Yield(c) \/ Exit(c) \/ \E t \in Normal : Create(c, t) \/ Join(c, t)

\* Kernel steps: bounded, interrupts disabled, never waiting for anyone.
KernelStep(c) ==
  \/ CreateInsert(c) \/ Reschedule(c) \/ RemoveNormal(c) \/ RemoveIdle(c)
  \/ Load(c) \/ Dispatch(c) \/ Epilogue(c) \/ Finish(c)

ThreadStep(c) ==
  \/ Tick(c) \/ JoinReturn(c) \/ JoinLoop(c) \/ IdleLoop(c) \/ Shutdown(c)
  \/ ProgramStep(c) \/ KernelStep(c)
=============================================================================
