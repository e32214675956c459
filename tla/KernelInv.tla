----------------------------- MODULE KernelInv -----------------------------
(***************************************************************************)
(* The inductive invariant of Kernel: where a thread may be.  A thread is  *)
(* linked in at most one list or held by at most one core, with one        *)
(* overlap: a thread that goes to sleep is linked in the list it sleeps on *)
(* while its core still executes it, and until then that core holds the    *)
(* list's lock (a semaphore's) or is the only one to reach the list (an    *)
(* alarm's).                                                               *)
(***************************************************************************)
EXTENDS Kernel

HandLocations == {"create", "v_wakeup", "alarm_wakeup", "dispatch"}
BootLocations == {"run", "run_idle", "load"}
LockLocations ==
  {"p_acquire", "p", "p_sleep", "v_acquire", "v", "v_wake", "v_wakeup", "v_release"}
SleepLocations == {"sleep", "sleep_idle"}

\* What the local variables of a core are at each control point.
CoreShape(c) ==
  /\ pc[c] \notin BootLocations \cup {"assert"} => cpu[c] # None
  /\ pc[c] \in BootLocations => cpu[c] = None /\ s_previous[c] = None
  /\ pc[c] \in HandLocations \cup {"load"} => node[c] # None
  /\ pc[c] \notin HandLocations \cup {"load", "assert"} => node[c] = None
  /\ pc[c] \notin {"dispatch", "load", "assert"} => heads[c] = cpu[c]
  /\ pc[c] \in {"dispatch", "load"} => heads[c] = node[c]
  /\ pc[c] \in {"epilogue", "finish"} =>
       s_previous[c] # None /\ s_previous[c] # cpu[c]
  /\ pc[c] \in LockLocations => lock[c] \in Spins
  /\ pc[c] \in SleepLocations => lock[c] # None /\ cpu[c] \in Normal
  /\ pc[c] \notin LockLocations \cup SleepLocations \cup {"dispatch", "assert"} =>
       lock[c] = None
  /\ pc[c] \in {"exit", "exit_idle", "p_acquire", "p", "p_sleep"} => cpu[c] \in Normal

\* Types are inductive together with the shapes of the cores only: Sleep and
\* CreateInsert link the thread that a local variable points to.
TypeInv == TypeOK /\ \A c \in Cores : CoreShape(c)

\* What state_ a thread has while a core deals with it.
StateShape(c) ==
  /\ cpu[c] # None =>
       /\ pc[c] \in SleepLocations => state[cpu[c]] = "WAITING"
       /\ pc[c] = "dispatch" =>
            state[cpu[c]] \in IF lock[c] # None THEN {"WAITING"}
                              ELSE {"READY", "FINISHING"}
       /\ pc[c] = "assert" => state[cpu[c]] \notin {"NONE", "FINISHED"}
       /\ pc[c] \notin SleepLocations \cup {"dispatch", "assert"} =>
            state[cpu[c]] \in {"READY", "RUNNING"}
  /\ node[c] # None => state[node[c]] = "READY" /\ cpu[c] # node[c]
  /\ pc[c] = "epilogue" =>
       state[s_previous[c]] \in IF s_spin[c] # None THEN {"WAITING"}
                                ELSE {"READY", "FINISHING"}
  /\ pc[c] = "finish" => state[s_previous[c]] = "FINISHING"

\* The core executes t, has its node in hand or still owes it the epilogue.
Holds(c, t) ==
  \/ cpu[c] = t
  \/ node[c] = t
  \/ pc[c] \in {"epilogue", "finish"} /\ s_previous[c] = t

HeldByOneCore ==
  \A t \in Threads : \A c, d \in Cores : Holds(c, t) /\ Holds(d, t) => c = d

\* The core is inside the critical section of s, or between p() and the
\* epilogue that releases s.
HoldsLock(c, s) ==
  \/ /\ lock[c] = s
     /\ pc[c] \in {"p", "p_sleep", "v", "v_wake", "v_wakeup", "v_release",
                    "dispatch", "assert"} \cup SleepLocations
  \/ pc[c] = "epilogue" /\ s_spin[c] = s

LockedByOneCore ==
  \A s \in Spins : \A c \in Cores : HoldsLock(c, s) =>
    locked[s] /\ \A d \in Cores : HoldsLock(d, s) => c = d

\* A thread in a run queue is ready and no core holds it.
ReadyInQueue ==
  \A l \in NormalLists \cup IdleLists : \A t \in Threads : InList(t, l) =>
    /\ state[t] = "READY" /\ l = ReadyList(t)
    /\ \A c \in Cores : ~Holds(c, t)

\* A thread in a semaphore's list is held by no core but the one that has
\* put it there and still holds the semaphore's lock.
WaitingInSemaphore ==
  \A s \in Spins : \A t \in Threads : InList(t, WaitList(s)) =>
    /\ state[t] = "WAITING"
    /\ \A c \in Cores : Holds(c, t) => HoldsLock(c, s)

\* A thread in an alarm's list has put itself there and is held by no core
\* but the one whose alarm list it is in.
Sleeps(list, t)  == \E i \in 1..Len(list) : list[i][1] = t
SleepsOnce(list) == \A i, j \in 1..Len(list) : list[i][1] = list[j][1] => i = j
Alarmed(c, t)    == Sleeps(alarms[c], t)

WaitingInAlarm ==
  \A t \in Normal, u \in Threads : InList(u, AlarmList(t)) =>
    u = t /\ state[t] = "WAITING"

AlarmedOnce ==
  /\ \A c \in Cores : SleepsOnce(alarms[c])
  /\ \A t \in Normal : \A c, d \in Cores : Alarmed(c, t) /\ Alarmed(d, t) => c = d

AlarmedSleeps ==
  \A t \in Normal : \A c \in Cores : Alarmed(c, t) =>
    /\ InList(t, AlarmList(t))
    /\ \A d \in Cores : Holds(d, t) => d = c /\ pc[c] # "alarm"

\* value_ runs ahead of waiting_ by one waiter: the caller of p() that has yet
\* to enter the list, or the one that the caller of v() has yet to take out.
InStep(l, s) == \E c \in Cores : pc[c] = l /\ lock[c] = s

Owed(s) ==
  CASE InStep("p_sleep", s) -> -value[s] - 1
    [] InStep("v_wake", s)  -> -value[s] + 1
    [] OTHER                -> IF value[s] < 0 THEN -value[s] ELSE 0

WaitersCounted ==
  \A s \in Spins :
    /\ Len(fifo[WaitList(s)]) = Owed(s)
    /\ InStep("v_wake", s) => value[s] <= 0

\* Only the threads that a core executes have no saved context.
ContextShape ==
  \A t \in Threads :
    /\ context[t] = "live" => \E c \in Cores : cpu[c] = t
    /\ context[t] = "none" => state[t] = "NONE"

KernelInvariant ==
  /\ TypeInv
  /\ \A c \in Cores : StateShape(c)
  /\ HeldByOneCore
  /\ LockedByOneCore
  /\ NodeLinkedOnce
  /\ ReadyInQueue
  /\ WaitingInSemaphore
  /\ WaitingInAlarm
  /\ AlarmedOnce
  /\ AlarmedSleeps
  /\ WaitersCounted
  /\ ContextShape

-----------------------------------------------------------------------------
\* An idle thread never blocks and never exits.  It waits in its own IDLE
\* queue, or one of the cores that remove from this queue holds it, and a core
\* holds one idle thread at a time: it takes one only in place of a thread of
\* the program.
IdleAtHome ==
  \A t \in Idle :
    /\ state[t] \in {"READY", "RUNNING"}
    /\ \/ InList(t, ReadyList(t))
       \/ \E c \in Cores : Source[c] = Home[t] /\ Holds(c, t)

OneIdleEach ==
  \A c \in Cores : \A t, u \in Idle : Holds(c, t) /\ Holds(c, u) => t = u

\* Only threads of the program are created, and woken.
HandIsNormal ==
  \A c \in Cores :
    pc[c] \in {"create", "v_wakeup", "alarm_wakeup"} => node[c] \in Normal

IdleInvariant == IdleAtHome /\ OneIdleEach /\ HandIsNormal /\ NoAssertFails

\* OrderedList keeps its criteria in order.
Ordered(list) ==
  \A i, j \in 1..Len(list) : i <= j => list[i][2] <= list[j][2]

AlarmsOrdered == \A c \in Cores : Ordered(alarms[c])
=============================================================================
