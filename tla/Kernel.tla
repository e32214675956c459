------------------------------- MODULE Kernel -------------------------------
(***************************************************************************)
(* The kernel: threads (Thread), the semaphores and mutexes they block on  *)
(* (Semaphore) and the alarms they sleep on (Alarm), on several cores.     *)
(***************************************************************************)
EXTENDS Semaphore, Alarm

vars == <<threadVars, value, now, alarms>>

Init == ThreadInit /\ SemaphoreInit /\ AlarmInit

\* Machine::shutdown is final.
PoweredOff == (\A c \in Cores : pc[c] = "off") /\ UNCHANGED vars

Next ==
  \/ \E c \in Cores : ThreadStep(c) /\ UNCHANGED <<value, now, alarms>>
  \/ \E c \in Cores : SemaphoreStep(c) /\ UNCHANGED <<now, alarms>>
  \/ \E c \in Cores : AlarmStep(c) /\ UNCHANGED value
  \/ TimePasses /\ UNCHANGED value
  \/ PoweredOff

Spec == Init /\ [][Next]_vars

\* A core always completes a kernel path; a spinning core gets a lock that is
\* freed again and again; a pending timer interrupt is taken when interrupts
\* are enabled again and again; between ticks the idle loop and join() run.
Fairness ==
  /\ WF_vars(TimePasses /\ UNCHANGED value)
  /\ \A c \in Cores :
       /\ WF_vars(KernelStep(c) /\ UNCHANGED <<value, now, alarms>>)
       /\ WF_vars(SemaphoreKernelStep(c) /\ UNCHANGED <<now, alarms>>)
       /\ WF_vars(AlarmKernelStep(c) /\ UNCHANGED value)
       /\ SF_vars(Acquire(c) /\ UNCHANGED <<now, alarms>>)
       /\ SF_vars(Tick(c) /\ UNCHANGED <<value, now, alarms>>)
       /\ SF_vars(IdleLoop(c) /\ UNCHANGED <<value, now, alarms>>)
       /\ WF_vars(Shutdown(c) /\ UNCHANGED <<value, now, alarms>>)

FairSpec == Spec /\ Fairness

-----------------------------------------------------------------------------
Locations ==
  {"run", "run_idle", "load", "user", "reschedule", "create", "exit",
   "exit_idle", "sleep", "sleep_idle", "dispatch", "epilogue", "finish",
   "p_acquire", "p", "p_sleep", "v_acquire", "v", "v_wake", "v_wakeup",
   "v_release", "alarm", "alarm_wakeup", "barrier", "off", "assert"}

\* Every variable keeps its type (the fields of Thread, Scheduler, Semaphore
\* and Alarm).
TypeOK ==
  /\ pc \in [Cores -> Locations]
  /\ cpu \in [Cores -> Threads \cup {None}]
  /\ node \in [Cores -> Threads \cup {None}]
  /\ lock \in [Cores -> Locks \cup {None}]
  /\ heads \in [Cores -> Threads \cup {None}]
  /\ s_previous \in [Cores -> Threads \cup {None}]
  /\ s_spin \in [Cores -> Locks \cup {None}]
  /\ s_count \in Int
  /\ state \in [Threads -> States]
  /\ context \in [Threads -> Contexts]
  /\ joining \in [Threads -> Normal \cup {None}]
  /\ ticking \in [Threads -> BOOLEAN]
  /\ locked \in [Locks -> BOOLEAN]
  /\ fifo \in [Lists -> Seq(Threads)]
  /\ value \in [Spins -> Int]
  /\ now \in Nat
  /\ alarms \in [Cores -> Seq(Normal \X Nat)]

InList(t, l) == \E i \in 1..Len(fifo[l]) : fifo[l][i] = t

\* Thread::node_ is the only link a thread has: it is never in two lists of
\* the kernel, nor twice in one (the intrusive FIFO would lose its tail).
NodeLinkedOnce ==
  \A l, m \in Lists : \A i \in 1..Len(fifo[l]), j \in 1..Len(fifo[m]) :
    fifo[l][i] = fifo[m][j] => l = m /\ i = j

\* No two cores ever execute on the stack of the same thread.
ThreadOnOneCore ==
  \A c, d \in Cores : cpu[c] # None /\ cpu[c] = cpu[d] => c = d

\* A thread that a core can find in a run queue, or has taken to switch to,
\* has its registers saved: Context::swtch of its last core is over.
ReadyContextIsSaved ==
  \A t \in Threads :
    InList(t, ReadyList(t)) \/ (\E c \in Cores : node[c] = t)
      => context[t] \in {"entry", "kernel"}

\* No assert of Thread.cpp and Scheduler.hpp fails: a successor is always
\* found, it is not the caller, a sleeper has a lock, a waker finds a waiter.
NoAssertFails == \A c \in Cores : pc[c] # "assert"

\* With no core inside p() or v(), waiting_ holds exactly the threads that
\* value_ owes a permit to: a permit never stays in value_ past a waiter.
ValueCountsWaiters ==
  \A s \in Spins : ~locked[s] =>
    Len(fifo[WaitList(s)]) = IF value[s] < 0 THEN -value[s] ELSE 0

\* s_count is the number of threads not yet finished, less those whose
\* epilogue is between its decrement and the store of FINISHED.
CountIsExact ==
  s_count = Cardinality({t \in Threads : state[t] \notin {"NONE", "FINISHED"}})
              - Cardinality({c \in Cores : pc[c] = "finish"})

\* A core leaves Thread::idle for the shutdown only when every thread of the
\* program has finished, and no thread can come into existence afterwards.
ShutdownOnlyWhenDone ==
  \A c \in Cores : pc[c] \in {"barrier", "off"} =>
    \A t \in Normal :
      \/ state[t] \in {"NONE", "FINISHED"}
      \/ \E d \in Cores : pc[d] = "finish" /\ s_previous[d] = t

\* Once join() can return (and the stacks be freed), nothing in the kernel
\* refers to the thread: no list, no core, no pending epilogue.
FinishedIsUnreachable ==
  \A t \in Threads : state[t] \in {"NONE", "FINISHED"} =>
    /\ \A l \in Lists : ~InList(t, l)
    /\ \A c \in Cores :
         /\ cpu[c] # t /\ node[c] # t
         /\ pc[c] \in {"epilogue", "finish"} => s_previous[c] # t

\* A ready thread eventually runs: queues are FIFO and every core is ticked.
ReadyThreadRuns ==
  \A t \in Normal : InList(t, ReadyList(t)) ~> \E c \in Cores : cpu[c] = t

\* A thread that called exit() eventually becomes joinable.
ExitedThreadFinishes ==
  \A t \in Normal : state[t] = "FINISHING" ~> state[t] = "FINISHED"

\* When the last thread of the program is gone, all cores power off.
EventuallyOff ==
  s_count = Cardinality(Cores) ~> \A c \in Cores : pc[c] = "off"

\* A thread sleeping in Alarm eventually runs again, although each tick
\* reschedules before it looks at the alarms.
SleeperWakes ==
  \A t \in Normal :
    (\E c \in Cores : \E i \in 1..Len(alarms[c]) : alarms[c][i][1] = t)
      ~> \E c \in Cores : cpu[c] = t /\ pc[c] = "user"

\* A thread leaves a core's alarm list only when its time has come, and no
\* alarm of a smaller deadline stays behind.  Deadlines whose conversion to
\* nanoseconds wraps (18446744074 us, five hours, and more) are exempted from
\* the first: their alarms go off hours early (Alarm.cpp:8, types.hpp:33).
AlarmsInOrder ==
  [][\A c \in Cores : \A i \in 1..Len(alarms[c]) :
       LET us == alarms[c][i][2]
       IN (\A j \in 1..Len(alarms'[c]) : alarms'[c][j] # alarms[c][i]) =>
            /\ us * Nano < Word => us * Nano <= now * Micro
            /\ \A j \in 1..Len(alarms'[c]) : us <= alarms'[c][j][2]]_vars

-----------------------------------------------------------------------------
\* What p() and v() promise their callers: a negative value_ counts waiters.
Permits == [s \in Spins |-> IF value[s] > 0 THEN value[s] ELSE 0]
Blocked == [s \in Spins |-> fifo[WaitList(s)]]

Counting == INSTANCE CountingSemaphore WITH
  Semaphores <- Spins, permits <- Permits, blocked <- Blocked

\* Semaphore implements a counting semaphore that wakes in FIFO order and
\* hands the permit of v() to the first waiter.
ImplementsCountingSemaphore == Counting!Spec
=============================================================================
