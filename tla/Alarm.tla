------------------------------- MODULE Alarm -------------------------------
(***************************************************************************)
(* src/Alarm.cpp over the threads of module Thread: a thread sleeps until  *)
(* an absolute time in the alarm list of its core, and the core's timer    *)
(* trap wakes the elapsed ones.  Only the core itself, with interrupts     *)
(* disabled, touches its list.                                             *)
(***************************************************************************)
EXTENDS Thread

CONSTANTS
  Deadlines,   \* the times the program passes to Alarm, in microseconds
  MaxTime,     \* bound: the clock stops there
  Micro, Nano, \* microseconds and nanoseconds in a second
  Word         \* the values of uintmax_t, 0..Word-1

ASSUME AlarmAssumption ==
  /\ MaxTime \in Nat
  /\ Micro \in Nat \ {0, 1}
  /\ Nano \in Nat /\ \E k \in 1..Nano : Nano = Micro * k
  /\ Word \in Nat \ {0}
  /\ Deadlines \subseteq 0..(Word - 1)

VARIABLES
  now,      \* Timer::now(), in nanoseconds
  alarms    \* [Cores] Alarm::alarms_, as <<thread, time>> in list order

AlarmInit ==
  /\ now = 0
  /\ alarms = [c \in Cores |-> <<>>]

\* Mutant: alarms in order of arrival.
InsertLast(list, a) == Append(list, a)

\* OrderedList::insert: behind every node whose criterion is not larger.
OrderedInsert(list, a) ==
  LET before == Cardinality({i \in 1..Len(list) : \A j \in 1..i : list[j][2] <= a[2]})
  IN SubSeq(list, 1, before) \o <<a>> \o SubSeq(list, before + 1, Len(list))

\* Duration: from one unit to another, the product in uintmax_t.
Convert(duration, from, to) == ((duration * to) % Word) \div from

\* Mutant: the difference is compared without the cast to intmax_t.
elapsedUnsigned(us) == (now - Convert(us, Micro, Nano)) % Word >= 0

\* Alarm::elapsed: a difference in uintmax_t that is not negative as intmax_t.
elapsed(us) == 2 * ((now - Convert(us, Micro, Nano)) % Word) < Word

TimePasses ==
  /\ now < MaxTime
  /\ now' = now + 1
  /\ UNCHANGED <<threadVars, alarms>>

\* Alarm::Alarm: into the core's list, then Thread::sleep under a Spin of its
\* own stack.
SleepUntil(c, us) ==
  /\ InProgram(c)
  /\ alarms' = [alarms EXCEPT ![c] = OrderedInsert(@, <<heads[c], us>>)]
  /\ lock' = [lock EXCEPT ![c] = LocalSpin]
  /\ Sleep(c, AlarmList(heads[c]))
  /\ UNCHANGED <<cpu, node, heads, s_previous, s_spin, s_count, context,
                 joining, ticking, locked, now>>

\* Alarm::handler: wake the head of the list if it has elapsed; otherwise put
\* it back, and the timer's trap returns.
Handler(c) ==
  /\ pc[c] = "alarm"
  /\ \/ /\ alarms[c] # <<>> /\ elapsed(Head(alarms[c])[2])
        /\ alarms' = [alarms EXCEPT ![c] = Tail(@)]
        /\ Wakeup(c, AlarmList(Head(alarms[c])[1]), "alarm_wakeup")
        /\ UNCHANGED ticking
     \/ /\ alarms[c] # <<>> /\ ~elapsed(Head(alarms[c])[2])
        /\ alarms' = [alarms EXCEPT ![c] = OrderedInsert(Tail(@), Head(@))]
        /\ ticking' = [ticking EXCEPT ![heads[c]] = FALSE]
        /\ Goto(c, "user")
        /\ UNCHANGED <<fifo, node, state>>
     \/ /\ alarms[c] = <<>>
        /\ ticking' = [ticking EXCEPT ![heads[c]] = FALSE]
        /\ Goto(c, "user")
        /\ UNCHANGED <<fifo, node, state, alarms>>
  /\ UNCHANGED <<cpu, lock, heads, s_previous, s_spin, s_count, context,
                 joining, locked, now>>

\* Alarm::handler: the woken thread becomes ready, and the loop goes on.
HandlerWakeup(c) ==
  /\ pc[c] = "alarm_wakeup"
  /\ WakeupInsert(c, "alarm")
  /\ UNCHANGED <<cpu, lock, heads, s_previous, s_spin, s_count, state, context,
                 joining, ticking, locked, now, alarms>>

AlarmKernelStep(c) == Handler(c) \/ HandlerWakeup(c)

AlarmStep(c) ==
  \/ \E us \in Deadlines : SleepUntil(c, us)
  \/ AlarmKernelStep(c)
=============================================================================
