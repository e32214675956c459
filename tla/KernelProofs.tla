---------------------------- MODULE KernelProofs ----------------------------
(***************************************************************************)
(* The lists of the kernel as sets of links, what a step of one core       *)
(* leaves alone, the types of all variables, which are inductive together  *)
(* with the shapes of the cores (TypeInv), and KernelInvariant, which is   *)
(* inductive.  Every step but that of the clock is a step of one core, so  *)
(* StepOfCore reduces the invariant of the whole kernel to conditions on   *)
(* what that core holds, links and unlinks; each action then only shows    *)
(* those.                                                                  *)
(*                                                                         *)
(* What follows from KernelInvariant: Semaphore.hpp implements the         *)
(* semaphores of CountingSemaphore, for every number of cores, threads and *)
(* semaphores, and every program; and what the asserts of the kernel, its  *)
(* count of threads and its alarms rest on: IdleInvariant, CountIsExact    *)
(* with ShutdownOnlyWhenDone, and AlarmsOrdered.  Each is inductive on top *)
(* of KernelInvariant.                                                     *)
(***************************************************************************)
EXTENDS KernelInv, FiniteSetTheorems, SequenceTheorems, WellFoundedInduction, TLAPS

-----------------------------------------------------------------------------
(* Lists and types.                                                         *)

\* FIFO::insert links one node more, at the end.
LEMMA InsertLinks ==
  ASSUME fifo \in [Lists -> Seq(Threads)], NEW l \in Lists, NEW t \in Threads,
         Insert(l, t)
  PROVE  /\ fifo' \in [Lists -> Seq(Threads)]
         /\ \A m \in Lists, u \in Threads :
              InList(u, m)' <=> InList(u, m) \/ (m = l /\ u = t)
         /\ NodeLinkedOnce /\ (\A m \in Lists : ~InList(t, m)) => NodeLinkedOnce'
<1> DEFINE s == fifo[l]
<1>1. s \in Seq(Threads) /\ fifo' = [fifo EXCEPT ![l] = Append(s, t)]
  BY DEF Insert
<1>2. /\ Append(s, t) \in Seq(Threads)
      /\ Len(Append(s, t)) = Len(s) + 1
      /\ \A i \in 1..Len(s) : Append(s, t)[i] = s[i]
      /\ Append(s, t)[Len(s) + 1] = t
  BY <1>1
<1>3. /\ fifo' \in [Lists -> Seq(Threads)]
      /\ fifo'[l] = Append(s, t)
      /\ \A m \in Lists \ {l} : fifo'[m] = fifo[m]
  BY <1>1, <1>2
<1> HIDE DEF s
<1>4. ASSUME NEW m \in Lists, NEW u \in Threads
      PROVE  InList(u, m)' <=> InList(u, m) \/ (m = l /\ u = t)
  <2>1. CASE m # l
    BY <2>1, <1>3 DEF InList
  <2>2. CASE m = l
    <3>1. Len(s) \in Nat
      BY <1>1
    <3>2. (\E i \in 1..(Len(s) + 1) : Append(s, t)[i] = u)
            <=> (\E i \in 1..Len(s) : s[i] = u) \/ u = t
      BY <1>2, <3>1
    <3> QED
      BY <2>2, <3>2, <1>2, <1>3 DEF InList, s
  <2> QED
    BY <2>1, <2>2
<1>5. ASSUME NodeLinkedOnce, \A m \in Lists : ~InList(t, m)
      PROVE  NodeLinkedOnce'
  <2> SUFFICES ASSUME NEW m \in Lists, NEW n \in Lists,
                      NEW i \in 1..Len(fifo'[m]), NEW j \in 1..Len(fifo'[n]),
                      fifo'[m][i] = fifo'[n][j]
               PROVE  m = n /\ i = j
    BY DEF NodeLinkedOnce
  <2>1. \A k \in Lists : Len(fifo[k]) \in Nat
    BY <1>3
  <2>2. \A k \in Lists : \A x \in 1..Len(fifo'[k]) :
          \/ x \in 1..Len(fifo[k]) /\ fifo'[k][x] = fifo[k][x]
          \/ k = l /\ x = Len(fifo[l]) + 1 /\ fifo'[k][x] = t
    <3> TAKE k \in Lists
    <3>1. CASE k # l
      BY <3>1, <1>3
    <3>2. CASE k = l
      <4>1. Len(s) \in Nat /\ s = fifo[l]
        BY <1>1 DEF s
      <4> QED
        BY <3>2, <4>1, <1>2, <1>3
    <3> QED
      BY <3>1, <3>2
  <2>3. \A k \in Lists : \A x \in 1..Len(fifo[k]) : fifo[k][x] # t
    BY <1>5 DEF InList
  <2>4. \/ i \in 1..Len(fifo[m]) /\ fifo'[m][i] = fifo[m][i]
        \/ m = l /\ i = Len(fifo[l]) + 1 /\ fifo'[m][i] = t
    BY <2>2
  <2>5. \/ j \in 1..Len(fifo[n]) /\ fifo'[n][j] = fifo[n][j]
        \/ n = l /\ j = Len(fifo[l]) + 1 /\ fifo'[n][j] = t
    BY <2>2
  <2> QED
    BY <1>5, <2>3, <2>4, <2>5 DEF NodeLinkedOnce
<1> QED
  BY <1>3, <1>4, <1>5

\* FIFO::remove unlinks the first node, and only that one.
LEMMA RemoveUnlinks ==
  ASSUME fifo \in [Lists -> Seq(Threads)], NEW l \in Lists, Remove(l)
  PROVE  /\ fifo' \in [Lists -> Seq(Threads)]
         /\ Head(fifo[l]) \in Threads
         /\ InList(Head(fifo[l]), l)
         /\ \A m \in Lists, u \in Threads : InList(u, m)' => InList(u, m)
         /\ NodeLinkedOnce =>
              /\ NodeLinkedOnce'
              /\ \A m \in Lists, u \in Threads :
                   InList(u, m)' <=> InList(u, m) /\ ~(m = l /\ u = Head(fifo[l]))
<1> DEFINE s == fifo[l]
<1>1. s \in Seq(Threads) /\ s # <<>> /\ fifo' = [fifo EXCEPT ![l] = Tail(s)]
  BY DEF Remove
<1>2. /\ Head(s) = s[1] /\ Head(s) \in Threads
      /\ Len(s) \in Nat /\ Len(s) >= 1
      /\ Tail(s) \in Seq(Threads) /\ Len(Tail(s)) = Len(s) - 1
      /\ \A i \in 1..(Len(s) - 1) : Tail(s)[i] = s[i + 1]
  BY <1>1
<1>3. /\ fifo' \in [Lists -> Seq(Threads)]
      /\ fifo'[l] = Tail(s)
      /\ \A m \in Lists \ {l} : fifo'[m] = fifo[m]
  BY <1>1, <1>2
<1>4. InList(Head(s), l)
  BY <1>2 DEF InList
<1>5. \A k \in Lists : \A x \in 1..Len(fifo'[k]) :
        \/ k # l /\ x \in 1..Len(fifo[k]) /\ fifo'[k][x] = fifo[k][x]
        \/ k = l /\ x + 1 \in 2..Len(fifo[k]) /\ fifo'[k][x] = fifo[k][x + 1]
  <2> TAKE k \in Lists
  <2>1. CASE k # l
    BY <2>1, <1>3
  <2>2. CASE k = l
    <3>1. SUFFICES ASSUME NEW x \in 1..(Len(s) - 1)
                   PROVE  x + 1 \in 2..Len(s) /\ Tail(s)[x] = s[x + 1]
      BY <2>2, <1>2, <1>3
    <3> QED
      BY <1>2
  <2> QED
    BY <2>1, <2>2
<1>6. \A m \in Lists, u \in Threads : InList(u, m)' => InList(u, m)
  <2> SUFFICES ASSUME NEW m \in Lists, NEW u \in Threads, InList(u, m)'
               PROVE  InList(u, m)
    OBVIOUS
  <2>1. PICK x \in 1..Len(fifo'[m]) : fifo'[m][x] = u
    BY DEF InList
  <2>2. Len(fifo[m]) \in Nat /\ Len(fifo'[m]) \in Nat
    BY <1>3
  <2>3. \E y \in 1..Len(fifo[m]) : fifo[m][y] = u
    <3>1. \/ m # l /\ x \in 1..Len(fifo[m]) /\ fifo'[m][x] = fifo[m][x]
          \/ m = l /\ x + 1 \in 2..Len(fifo[m]) /\ fifo'[m][x] = fifo[m][x + 1]
      BY <2>1, <1>5
    <3>2. x + 1 \in 2..Len(fifo[m]) => x + 1 \in 1..Len(fifo[m])
      BY <2>1, <2>2
    <3> QED
      BY <2>1, <3>1, <3>2
  <2> QED
    BY <2>3 DEF InList
<1>7. ASSUME NodeLinkedOnce
      PROVE  NodeLinkedOnce'
  <2> SUFFICES ASSUME NEW m \in Lists, NEW n \in Lists,
                      NEW i \in 1..Len(fifo'[m]), NEW j \in 1..Len(fifo'[n]),
                      fifo'[m][i] = fifo'[n][j]
               PROVE  m = n /\ i = j
    BY DEF NodeLinkedOnce
  <2>1. /\ Len(fifo[m]) \in Nat /\ Len(fifo[n]) \in Nat
        /\ Len(fifo'[m]) \in Nat /\ Len(fifo'[n]) \in Nat
    BY <1>3
  <2>2. \/ m # l /\ i \in 1..Len(fifo[m]) /\ fifo'[m][i] = fifo[m][i]
        \/ m = l /\ i + 1 \in 2..Len(fifo[m]) /\ fifo'[m][i] = fifo[m][i + 1]
    BY <1>5
  <2>3. \/ n # l /\ j \in 1..Len(fifo[n]) /\ fifo'[n][j] = fifo[n][j]
        \/ n = l /\ j + 1 \in 2..Len(fifo[n]) /\ fifo'[n][j] = fifo[n][j + 1]
    BY <1>5
  <2> QED
    BY <1>7, <2>1, <2>2, <2>3 DEF NodeLinkedOnce
<1>8. ASSUME NodeLinkedOnce, NEW m \in Lists, NEW u \in Threads
      PROVE  InList(u, m)' <=> InList(u, m) /\ ~(m = l /\ u = Head(fifo[l]))
  <2>1. CASE m # l
    BY <2>1, <1>3 DEF InList
  <2>2. CASE m = l
    <3>1. ASSUME InList(u, l)'
          PROVE  u # Head(s)
      <4>1. PICK x \in 1..Len(fifo'[l]) : fifo'[l][x] = u
        BY <3>1 DEF InList
      <4>2. x + 1 \in 2..Len(s) /\ u = s[x + 1]
        BY <4>1, <1>5
      <4> QED
        BY SMTT(60), <4>2, <1>2, <1>8 DEF NodeLinkedOnce
    <3>2. ASSUME InList(u, l), u # Head(s)
          PROVE  InList(u, l)'
      <4>1. PICK x \in 1..Len(s) : s[x] = u
        BY <3>2 DEF InList
      <4>2. x # 1 /\ x - 1 \in 1..(Len(s) - 1) /\ x = (x - 1) + 1
        BY <4>1, <3>2, <1>2
      <4>3. Tail(s)[x - 1] = u
        BY <4>1, <4>2, <1>2
      <4> QED
        BY <4>2, <4>3, <1>2, <1>3 DEF InList
    <3> QED
      BY <2>2, <3>1, <3>2, <1>6
  <2> QED
    BY <2>1, <2>2
<1> QED
  BY <1>2, <1>3, <1>4, <1>6, <1>7, <1>8

\* OrderedList::insert links one alarm more, at some place k.
LEMMA OrderedInsertLinks ==
  ASSUME NEW list \in Seq(Normal \X Nat), NEW a \in Normal \X Nat
  PROVE  /\ OrderedInsert(list, a) \in Seq(Normal \X Nat)
         /\ Len(OrderedInsert(list, a)) = Len(list) + 1
         /\ \E k \in 1..(Len(list) + 1) :
              /\ OrderedInsert(list, a)[k] = a
              /\ \A i \in 1..(Len(list) + 1) :
                   /\ i < k => /\ i \in 1..Len(list)
                               /\ OrderedInsert(list, a)[i] = list[i]
                   /\ i > k => /\ i - 1 \in 1..Len(list)
                               /\ OrderedInsert(list, a)[i] = list[i - 1]
<1> DEFINE B == {i \in 1..Len(list) : \A j \in 1..i : list[j][2] <= a[2]}
           b == Cardinality(B)
           front == SubSeq(list, 1, b)
           back == SubSeq(list, b + 1, Len(list))
<1>1. Len(list) \in Nat /\ \A i \in 1..Len(list) : list[i] \in Normal \X Nat
  OBVIOUS
<1>2. b \in 0..Len(list)
  <2>1. IsFiniteSet(1..Len(list)) /\ Cardinality(1..Len(list)) = Len(list)
    <3>1. 1 \in Int /\ Len(list) \in Int
      BY <1>1
    <3>2. /\ IsFiniteSet(1..Len(list))
          /\ Cardinality(1..Len(list)) = IF 1 > Len(list) THEN 0 ELSE Len(list) - 1 + 1
      BY <3>1, FS_Interval
    <3> QED
      BY <3>2, <1>1
  <2>2. B \in SUBSET (1..Len(list))
    OBVIOUS
  <2>3. IsFiniteSet(B) /\ Cardinality(B) <= Len(list)
    BY <2>1, <2>2, FS_Subset
  <2> HIDE DEF B
  <2>4. Cardinality(B) \in Nat
    BY <2>3, FS_CardinalityType
  <2> QED
    BY <1>1, <2>3, <2>4
<1> HIDE DEF b
<1>3. /\ front \in Seq(Normal \X Nat) /\ Len(front) = b
      /\ \A i \in 1..b : front[i] = list[i]
  <2>1. b \in Int /\ \A i \in 1..b : list[i] \in Normal \X Nat
    BY <1>1, <1>2
  <2>2. /\ front \in Seq(Normal \X Nat)
        /\ Len(front) = IF 1 <= b THEN b - 1 + 1 ELSE 0
        /\ \A i \in 1..(b - 1 + 1) : front[i] = list[1 + i - 1]
    BY <2>1, SubSeqProperties
  <2> QED
    BY <2>2, <1>2
<1>4. /\ back \in Seq(Normal \X Nat) /\ Len(back) = Len(list) - b
      /\ \A i \in 1..(Len(list) - b) : back[i] = list[b + i]
  <2>1. b + 1 \in Int /\ \A i \in (b + 1)..Len(list) : list[i] \in Normal \X Nat
    BY <1>1, <1>2
  <2>2. /\ back \in Seq(Normal \X Nat)
        /\ Len(back) = IF b + 1 <= Len(list) THEN Len(list) - (b + 1) + 1 ELSE 0
        /\ \A i \in 1..(Len(list) - (b + 1) + 1) : back[i] = list[(b + 1) + i - 1]
    BY <1>1, <2>1, SubSeqProperties
  <2> QED
    BY <2>2, <1>1, <1>2
<1>5. OrderedInsert(list, a) = front \o <<a>> \o back
  BY DEF OrderedInsert, b
<1> HIDE DEF front, back
<1> DEFINE mid == front \o <<a>>
<1>6. /\ mid \in Seq(Normal \X Nat) /\ Len(mid) = b + 1
      /\ \A i \in 1..b : mid[i] = list[i]
      /\ mid[b + 1] = a
  BY <1>2, <1>3
<1> HIDE DEF mid
<1> DEFINE new == mid \o back
<1>7. /\ new \in Seq(Normal \X Nat) /\ Len(new) = Len(list) + 1
      /\ \A i \in 1..(b + 1) : new[i] = mid[i]
      /\ \A i \in (b + 2)..(Len(list) + 1) : new[i] = back[i - (b + 1)]
  <2>1. /\ new \in Seq(Normal \X Nat)
        /\ Len(new) = Len(mid) + Len(back)
        /\ \A i \in 1..(Len(mid) + Len(back)) :
             new[i] = IF i <= Len(mid) THEN mid[i] ELSE back[i - Len(mid)]
    BY <1>4, <1>6, ConcatProperties
  <2> HIDE DEF new
  <2>2. b \in Nat /\ Len(mid) = b + 1 /\ Len(mid) + Len(back) = Len(list) + 1
    BY <1>1, <1>2, <1>4, <1>6
  <2>3. \A i \in 1..(b + 1) : new[i] = mid[i]
    BY <2>1, <2>2, <1>1, <1>2
  <2>4. ASSUME NEW i \in (b + 2)..(Len(list) + 1)
        PROVE  new[i] = back[i - (b + 1)]
    <3>1. i \in 1..(Len(list) + 1) /\ ~(i <= b + 1)
      BY <2>2, <1>1
    <3>2. new[i] = IF i <= Len(mid) THEN mid[i] ELSE back[i - Len(mid)]
      BY <2>1, <2>2, <3>1
    <3> QED
      BY <2>2, <3>1, <3>2
  <2> QED
    BY <2>1, <2>2, <2>3, <2>4
<1>8. OrderedInsert(list, a) = new
  BY <1>5 DEF mid
<1> HIDE DEF new
<1>9. b + 1 \in 1..(Len(list) + 1) /\ new[b + 1] = a
  BY <1>1, <1>2, <1>6, <1>7
<1>10. ASSUME NEW i \in 1..Len(new)
       PROVE  /\ i < b + 1 => i \in 1..Len(list) /\ new[i] = list[i]
              /\ i > b + 1 => i - 1 \in 1..Len(list) /\ new[i] = list[i - 1]
  <2>0. i \in 1..(Len(list) + 1)
    BY <1>7
  <2>1. CASE i < b + 1
    <3>1. i \in 1..b /\ i \in 1..(b + 1) /\ i \in 1..Len(list)
      BY <2>0, <2>1, <1>1, <1>2
    <3> QED
      BY SMTT(60), <2>1, <3>1, <1>6, <1>7
  <2>2. CASE i > b + 1
    <3>1. i \in (b + 2)..(Len(list) + 1) /\ i - (b + 1) \in 1..(Len(list) - b)
      BY <2>0, <2>2, <1>1, <1>2
    <3>2. new[i] = back[i - (b + 1)]
      BY <3>1, <1>7
    <3>3. back[i - (b + 1)] = list[b + (i - (b + 1))]
      BY <3>1, <1>4
    <3>4. b + (i - (b + 1)) = i - 1
      BY <2>0, <1>1, <1>2
    <3> QED
      BY <2>0, <2>2, <3>1, <3>2, <3>3, <3>4, <1>1, <1>2
  <2>3. CASE i = b + 1
    BY <2>3, <1>2
  <2> QED
    BY <1>1, <1>2, <2>0, <2>1, <2>2, <2>3
<1> QED
  BY <1>7, <1>8, <1>9, <1>10

-----------------------------------------------------------------------------
\* The lists that the kernel computes are lists.
LEMMA ListsExist ==
  /\ \A t \in Threads : ReadyList(t) \in Lists
  /\ \A c \in Cores : NormalOf(c) \in Lists /\ IdleOf(c) \in Lists
  /\ \A s \in Spins : WaitList(s) \in Lists
  /\ \A t \in Normal : AlarmList(t) \in Lists
BY ThreadAssumption
DEF Lists, NormalLists, IdleLists, WaitLists, AlarmLists, ReadyList, NormalOf,
    IdleOf, WaitList, AlarmList, Threads

\* A step of another core leaves a core's shape alone.
LEMMA ShapeFrame ==
  ASSUME NEW d \in Cores, CoreShape(d), pc'[d] = pc[d], cpu'[d] = cpu[d],
         node'[d] = node[d], lock'[d] = lock[d], heads'[d] = heads[d],
         s_previous'[d] = s_previous[d]
  PROVE  CoreShape(d)'
BY DEF CoreShape

\* What a step of core c leaves alone: the local variables of other cores.
OthersUnchanged(c) ==
  \A d \in Cores \ {c} :
    /\ pc'[d] = pc[d] /\ cpu'[d] = cpu[d] /\ node'[d] = node[d]
    /\ lock'[d] = lock[d] /\ heads'[d] = heads[d]
    /\ s_previous'[d] = s_previous[d] /\ s_spin'[d] = s_spin[d]

\* A step of module Thread on c changes the variables of no other core.
LEMMA ThreadFrame ==
  ASSUME TypeOK, NEW c \in Cores, ThreadStep(c)
  PROVE  OthersUnchanged(c)
<1> USE DEF TypeOK, OthersUnchanged, Goto
<1>1. CASE Tick(c)
  BY <1>1 DEF Tick
<1>2. ASSUME NEW l, Proceed(c, l)
      PROVE  OthersUnchanged(c)
  BY <1>2 DEF Proceed
<1>3. CASE Yield(c) \/ JoinLoop(c) \/ Exit(c) \/ IdleLoop(c) \/ Shutdown(c)
  BY <1>2, <1>3 DEF Yield, JoinLoop, Exit, IdleLoop, Shutdown
<1>4. CASE JoinReturn(c)
  BY <1>4 DEF JoinReturn
<1>5. ASSUME NEW t \in Normal, Create(c, t) \/ Join(c, t)
      PROVE  OthersUnchanged(c)
  BY <1>5 DEF Create, Join
<1>6. CASE CreateInsert(c)
  BY <1>6 DEF CreateInsert
<1>7. CASE Reschedule(c)
  BY <1>7 DEF Reschedule, Take
<1>8. CASE RemoveNormal(c)
  BY <1>8 DEF RemoveNormal, Take, Removed
<1>9. CASE RemoveIdle(c)
  BY <1>9 DEF RemoveIdle, Take, Removed
<1>10. CASE Load(c)
  BY <1>10 DEF Load
<1>11. CASE Dispatch(c)
  BY <1>11 DEF Dispatch
<1>12. CASE Epilogue(c)
  BY <1>12 DEF Epilogue
<1>13. CASE Finish(c)
  BY <1>13 DEF Finish
<1> QED
  BY <1>1, <1>3, <1>4, <1>5, <1>6, <1>7, <1>8, <1>9, <1>10, <1>11, <1>12, <1>13
  DEF ThreadStep, ProgramStep, KernelStep

\* A step of module Semaphore on c changes the variables of no other core.
LEMMA SemaphoreFrame ==
  ASSUME TypeOK, NEW c \in Cores, SemaphoreStep(c)
  PROVE  OthersUnchanged(c)
<1> USE DEF TypeOK, OthersUnchanged, Goto
<1>1. ASSUME NEW s \in Spins, P(c, s) \/ V(c, s)
      PROVE  OthersUnchanged(c)
  BY <1>1 DEF P, V
<1>2. CASE Acquire(c)
  BY <1>2 DEF Acquire
<1>3. CASE PBody(c) \/ VBody(c)
  BY <1>3 DEF PBody, VBody, Release
<1>4. CASE PSleep(c) \/ VWake(c)
  BY <1>4 DEF PSleep, VWake, Sleep, Wakeup
<1>5. CASE VWakeup(c)
  BY <1>5 DEF VWakeup, WakeupInsert
<1>6. CASE VRelease(c)
  BY <1>6 DEF VRelease, Release
<1> QED
  BY <1>1, <1>2, <1>3, <1>4, <1>5, <1>6 DEF SemaphoreStep, SemaphoreKernelStep

\* A step of module Alarm on c changes the variables of no other core.
LEMMA AlarmFrame ==
  ASSUME TypeOK, NEW c \in Cores, AlarmStep(c)
  PROVE  OthersUnchanged(c) /\ \A d \in Cores \ {c} : alarms'[d] = alarms[d]
<1> USE DEF TypeOK, OthersUnchanged, Goto
<1>1. ASSUME NEW us \in Deadlines, SleepUntil(c, us)
      PROVE  OthersUnchanged(c) /\ \A d \in Cores \ {c} : alarms'[d] = alarms[d]
  BY <1>1 DEF SleepUntil, Sleep
<1>2. CASE Handler(c)
  BY <1>2 DEF Handler, Wakeup
<1>3. CASE HandlerWakeup(c)
  BY <1>3 DEF HandlerWakeup, WakeupInsert
<1> QED
  BY <1>1, <1>2, <1>3 DEF AlarmStep, AlarmKernelStep

-----------------------------------------------------------------------------
\* What the shape of a core says about the threads it refers to.
LEMMA ShapeFacts ==
  ASSUME TypeInv, NEW c \in Cores
  PROVE  /\ pc[c] \notin BootLocations \cup {"assert"} => cpu[c] \in Threads
         /\ pc[c] \in HandLocations \cup {"load"} => node[c] \in Threads
         /\ pc[c] \notin {"dispatch", "load", "assert"} \cup BootLocations =>
              heads[c] = cpu[c] /\ heads[c] \in Threads
         /\ pc[c] \in {"epilogue", "finish"} => s_previous[c] \in Threads
         /\ pc[c] \in LockLocations => lock[c] \in Spins
         /\ None \notin Threads /\ None \notin Normal /\ None \notin Locks
         /\ Normal \subseteq Threads /\ Spins \subseteq Locks
BY ThreadAssumption
DEF TypeInv, TypeOK, CoreShape, BootLocations, HandLocations, LockLocations,
    Threads, Locks

\* Scheduler::remove yields a thread, the new head of the core.
LEMMA TakeType ==
  ASSUME TypeOK, NEW c \in Cores, NEW l \in Lists, Take(c, l)
  PROVE  /\ fifo' \in [Lists -> Seq(Threads)]
         /\ node' \in [Cores -> Threads \cup {None}]
         /\ heads' \in [Cores -> Threads \cup {None}]
         /\ node'[c] \in Threads /\ heads'[c] = node'[c]
<1>1. Head(fifo[l]) \in Threads /\ fifo' \in [Lists -> Seq(Threads)]
  BY RemoveUnlinks DEF Take, TypeOK
<1>2. \A t : node' = [node EXCEPT ![c] = t] /\ t \in Threads =>
        node' \in [Cores -> Threads \cup {None}] /\ node'[c] = t
  BY DEF TypeOK
<1>3. \A t : heads' = [heads EXCEPT ![c] = t] /\ t \in Threads =>
        heads' \in [Cores -> Threads \cup {None}] /\ heads'[c] = t
  BY DEF TypeOK
<1> QED
  BY <1>1, <1>2, <1>3 DEF Take

\* Thread::wakeup has a thread in hand, or its assert has failed.
LEMMA WakeupType ==
  ASSUME TypeOK, NEW c \in Cores, NEW l \in Lists, NEW after, Wakeup(c, l, after)
  PROVE  /\ fifo' \in [Lists -> Seq(Threads)]
         /\ node' \in [Cores -> Threads \cup {None}]
         /\ state' \in [Threads -> States]
         /\ \/ node'[c] \in Threads /\ pc' = [pc EXCEPT ![c] = after]
            \/ UNCHANGED node /\ pc' = [pc EXCEPT ![c] = "assert"]
<1>1. CASE Remove(l) /\ node' = [node EXCEPT ![c] = Head(fifo[l])]
           /\ state' = [state EXCEPT ![Head(fifo[l])] = "READY"] /\ Goto(c, after)
  <2>1. Head(fifo[l]) \in Threads /\ fifo' \in [Lists -> Seq(Threads)]
    BY <1>1, RemoveUnlinks DEF TypeOK
  <2>2. node'[c] = Head(fifo[l]) /\ node' \in [Cores -> Threads \cup {None}]
    BY <1>1, <2>1 DEF TypeOK
  <2>3. state' \in [Threads -> States]
    BY <1>1, <2>1 DEF TypeOK, States
  <2> QED
    BY <1>1, <2>1, <2>2, <2>3 DEF Goto
<1>2. CASE UNCHANGED <<fifo, node, state>> /\ Goto(c, "assert")
  BY <1>2 DEF Goto, TypeOK
<1> QED
  BY <1>1, <1>2 DEF Wakeup

\* The callers of Scheduler::remove(IDLE).
LEMMA IdleRetryFacts ==
  /\ DOMAIN IdleRetry = {"exit", "sleep", "run"}
  /\ IdleRetry["exit"] = "exit_idle"
  /\ IdleRetry["sleep"] = "sleep_idle"
  /\ IdleRetry["run"] = "run_idle"
BY DEF IdleRetry

\* Thread::dispatch switches to a thread other than the caller.
LEMMA DispatchType ==
  ASSUME TypeInv, NEW c \in Cores, Dispatch(c), UNCHANGED <<value, now, alarms>>
  PROVE  TypeOK' /\ CoreShape(c)'
<1>1. TypeOK /\ CoreShape(c) /\ pc[c] = "dispatch"
  BY DEF TypeInv, Dispatch
<1>2. cpu[c] \in Threads /\ node[c] \in Threads /\ heads[c] = node[c]
  BY <1>1, ShapeFacts DEF CoreShape, HandLocations, BootLocations
<1>3. CASE node[c] = cpu[c]
  BY <1>1, <1>3
  DEF Dispatch, Goto, TypeOK, Locations, CoreShape, BootLocations, HandLocations,
      LockLocations, SleepLocations
<1>4. CASE node[c] # cpu[c]
  <2>1. /\ s_previous' = [s_previous EXCEPT ![c] = cpu[c]]
        /\ s_spin' = [s_spin EXCEPT ![c] = lock[c]]
        /\ state' = [state EXCEPT ![node[c]] = "RUNNING"]
        /\ context' = [context EXCEPT ![cpu[c]] = "kernel", ![node[c]] = "live"]
        /\ cpu' = [cpu EXCEPT ![c] = node[c]]
        /\ node' = [node EXCEPT ![c] = None]
        /\ lock' = [lock EXCEPT ![c] = None]
        /\ pc' = [pc EXCEPT ![c] = "epilogue"]
        /\ UNCHANGED <<heads, s_count, joining, ticking, locked, fifo>>
    BY <1>4 DEF Dispatch, Goto
  <2>2. TypeOK'
    BY <1>1, <1>2, <2>1 DEF TypeOK, Locations, States, Contexts
  <2>3. CoreShape(c)'
    BY <1>1, <1>2, <1>4, <2>1, ShapeFacts
    DEF TypeOK, CoreShape, BootLocations, HandLocations, LockLocations, SleepLocations
  <2> QED
    BY <2>2, <2>3
<1> QED
  BY <1>3, <1>4

\* The steps of module Thread keep the types.
LEMMA ThreadType ==
  ASSUME TypeInv, NEW c \in Cores, ThreadStep(c), UNCHANGED <<value, now, alarms>>
  PROVE  TypeOK' /\ CoreShape(c)'
<1> DEFINE Good == TypeOK' /\ CoreShape(c)'
<1>0. TypeOK /\ CoreShape(c)
  BY DEF TypeInv
<1> USE <1>0, ShapeFacts
    DEF TypeOK, CoreShape, Goto, Locations, States, Contexts, BootLocations,
        HandLocations, LockLocations, SleepLocations
<1>1. CASE Tick(c)
  BY <1>1 DEF Tick
<1>2. CASE Yield(c)
  BY <1>2 DEF Yield, InProgram, Proceed
<1>3. CASE JoinLoop(c)
  BY <1>3 DEF JoinLoop, InJoin, Proceed
<1>4. CASE Exit(c)
  BY <1>4 DEF Exit, InProgram, Proceed
<1>5. CASE IdleLoop(c)
  BY <1>5 DEF IdleLoop, Proceed
<1>6. CASE Shutdown(c)
  BY <1>6 DEF Shutdown, Proceed
<1>7. CASE JoinReturn(c)
  <2>0. heads[c] \in Threads /\ joining[heads[c]] \in Normal
    BY <1>7 DEF JoinReturn, InJoin
  <2>1. state' \in [Threads -> States] /\ context' \in [Threads -> Contexts]
    <3>1. \/ UNCHANGED <<state, context>>
          \/ /\ state' = [state EXCEPT ![joining[heads[c]]] = "NONE"]
             /\ context' = [context EXCEPT ![joining[heads[c]]] = "none"]
      BY <1>7 DEF JoinReturn
    <3>2. state' \in [Threads -> States]
      BY <2>0, <3>1
    <3>3. context' \in [Threads -> Contexts]
      BY <2>0, <3>1
    <3> QED
      BY <3>2, <3>3
  <2> QED
    BY <1>7, <2>1 DEF JoinReturn, InJoin
<1>8. ASSUME NEW t \in Normal, Create(c, t)
      PROVE  Good
  BY <1>8 DEF Create, InProgram
<1>9. ASSUME NEW t \in Normal, Join(c, t)
      PROVE  Good
  BY <1>9 DEF Join, InProgram
<1>10. CASE CreateInsert(c)
  <2>1. fifo' \in [Lists -> Seq(Threads)]
    BY <1>10, ListsExist, InsertLinks DEF CreateInsert
  <2> QED
    BY <1>10, <2>1 DEF CreateInsert
<1>11. CASE Reschedule(c)
  <2>1. /\ fifo' \in [Lists -> Seq(Threads)]
        /\ node' \in [Cores -> Threads \cup {None}]
        /\ heads' \in [Cores -> Threads \cup {None}]
        /\ Take(c, NormalOf(c)) => node'[c] \in Threads /\ heads'[c] = node'[c]
    BY <1>11, ListsExist, TakeType DEF Reschedule
  <2>2. TypeOK'
    <3>1. pc' \in [Cores -> Locations]
      BY <1>11 DEF Reschedule, Resume
    <3>2. state' \in [Threads -> States]
      BY <1>11 DEF Reschedule
    <3> QED
      BY <1>11, <2>1, <3>1, <3>2 DEF Reschedule
  <2>3. CoreShape(c)'
    BY <1>11, <2>1 DEF Reschedule, Resume
  <2> QED
    BY <2>2, <2>3
<1>12. CASE RemoveNormal(c)
  <2>1. /\ fifo' \in [Lists -> Seq(Threads)]
        /\ node' \in [Cores -> Threads \cup {None}]
        /\ heads' \in [Cores -> Threads \cup {None}]
        /\ Take(c, NormalOf(c)) => node'[c] \in Threads /\ heads'[c] = node'[c]
    BY <1>12, ListsExist, TakeType DEF RemoveNormal
  <2>3. TypeOK'
    <3>1. pc' \in [Cores -> Locations]
      <4>1. \E l \in Locations : pc' = [pc EXCEPT ![c] = l]
        BY <1>12, IdleRetryFacts DEF RemoveNormal, Removed
      <4> QED
        BY <4>1
    <3>2. state' \in [Threads -> States]
      BY <1>12, IdleRetryFacts DEF RemoveNormal, Removed
    <3> QED
      BY <1>12, <2>1, <3>1, <3>2 DEF RemoveNormal
  <2>4. CoreShape(c)'
    BY <1>12, <2>1, IdleRetryFacts DEF RemoveNormal, Removed
  <2> QED
    BY <2>3, <2>4
<1>13. CASE RemoveIdle(c)
  <2>1. /\ fifo' \in [Lists -> Seq(Threads)]
        /\ node' \in [Cores -> Threads \cup {None}]
        /\ heads' \in [Cores -> Threads \cup {None}]
        /\ Take(c, IdleOf(c)) => node'[c] \in Threads /\ heads'[c] = node'[c]
    BY <1>13, ListsExist, TakeType DEF RemoveIdle
  <2>3. TypeOK'
    <3>1. pc' \in [Cores -> Locations]
      <4>1. \E l \in Locations : pc' = [pc EXCEPT ![c] = l]
        BY <1>13, IdleRetryFacts DEF RemoveIdle, Removed
      <4> QED
        BY <4>1
    <3>2. state' \in [Threads -> States]
      BY <1>13, IdleRetryFacts DEF RemoveIdle, Removed
    <3> QED
      BY <1>13, <2>1, <3>1, <3>2 DEF RemoveIdle
  <2>4. CoreShape(c)'
    BY <1>13, <2>1, IdleRetryFacts DEF RemoveIdle, Removed
  <2> QED
    BY <2>3, <2>4
<1>14. CASE Load(c)
  <2>1. TypeOK'
    BY <1>14 DEF Load
  <2>2. CoreShape(c)'
    BY <1>14 DEF Load
  <2> QED
    BY <2>1, <2>2
<1>15. CASE Dispatch(c)
  BY <1>15, DispatchType
<1>16. CASE Epilogue(c)
  <2>1. fifo' \in [Lists -> Seq(Threads)]
    BY <1>16, ListsExist, InsertLinks DEF Epilogue
  <2>2. TypeOK'
    <3>1. pc' \in [Cores -> Locations]
      <4>1. \E l \in {"assert", "finish", "alarm", "user"} :
              pc' = [pc EXCEPT ![c] = l]
        <5>1. \/ Goto(c, Resume(cpu[c]))
              \/ Goto(c, "assert")
              \/ Goto(c, "finish")
          BY <1>16 DEF Epilogue
        <5>2. Resume(cpu[c]) \in {"alarm", "user"}
          BY DEF Resume
        <5> QED
          BY ONLY <5>1, <5>2 DEF Goto
      <4>2. PICK l \in Locations : pc' = [pc EXCEPT ![c] = l]
        BY ONLY <4>1 DEF Locations
      <4>3. pc \in [Cores -> Locations]
        OBVIOUS
      <4> QED
        BY ONLY <4>2, <4>3
    <3>2. s_count' \in Int
      BY <1>16 DEF Epilogue
    <3>3. locked' \in [Locks -> BOOLEAN]
      <4>1. locked' = [locked EXCEPT ![s_spin[c]] = FALSE] \/ locked' = locked
        BY <1>16 DEF Epilogue
      <4> QED
        BY <4>1
    <3> QED
      BY <1>16, <2>1, <3>1, <3>2, <3>3 DEF Epilogue
  <2>3. CoreShape(c)'
    BY <1>16 DEF Epilogue, Resume
  <2> QED
    BY <2>2, <2>3
<1>17. CASE Finish(c)
  BY <1>17 DEF Finish, Resume
<1> QED
  BY <1>1, <1>2, <1>3, <1>4, <1>5, <1>6, <1>7, <1>8, <1>9, <1>10, <1>11, <1>12,
     <1>13, <1>14, <1>15, <1>16, <1>17
  DEF ThreadStep, ProgramStep, KernelStep

\* The steps of module Semaphore keep the types.
LEMMA SemaphoreType ==
  ASSUME TypeInv, NEW c \in Cores, SemaphoreStep(c), UNCHANGED <<now, alarms>>
  PROVE  TypeOK' /\ CoreShape(c)'
<1> DEFINE Good == TypeOK' /\ CoreShape(c)'
<1>0. TypeOK /\ CoreShape(c)
  BY DEF TypeInv
<1> USE <1>0, ShapeFacts
    DEF TypeOK, CoreShape, Goto, Locations, States, BootLocations, HandLocations,
        LockLocations, SleepLocations
<1>1. ASSUME NEW s \in Spins, P(c, s)
      PROVE  Good
  BY <1>1 DEF P, InProgram
<1>2. ASSUME NEW s \in Spins, V(c, s)
      PROVE  Good
  BY <1>2 DEF V
<1>3. CASE Acquire(c)
  BY <1>3 DEF Acquire
<1>4. CASE PBody(c) \/ VBody(c)
  <2>1. /\ lock[c] \in Spins
        /\ \E n \in Int : value' = [value EXCEPT ![lock[c]] = n]
    BY <1>4 DEF PBody, VBody
  <2>2. value' \in [Spins -> Int]
    BY <2>1
  <2>3. CASE Release(c)
    BY <1>4, <2>1, <2>2, <2>3 DEF PBody, VBody, Release
  <2>4. CASE /\ pc' = [pc EXCEPT ![c] = IF pc[c] = "p" THEN "p_sleep" ELSE "v_wake"]
             /\ UNCHANGED <<lock, locked>>
    BY <1>4, <2>1, <2>2, <2>4 DEF PBody, VBody
  <2> QED
    BY <1>4, <2>3, <2>4 DEF PBody, VBody
<1>5. CASE PSleep(c)
  <2>1. cpu[c] \in Normal /\ heads[c] = cpu[c] /\ lock[c] \in Spins
    BY <1>5 DEF PSleep
  <2>2. fifo' \in [Lists -> Seq(Threads)]
    BY <1>5, <2>1, ListsExist, InsertLinks DEF PSleep, Sleep
  <2> QED
    BY <1>5, <2>1, <2>2 DEF PSleep, Sleep
<1>5a. CASE VWake(c)
  <2>1. lock[c] \in Spins
    BY <1>5a DEF VWake
  <2>2. /\ fifo' \in [Lists -> Seq(Threads)]
        /\ node' \in [Cores -> Threads \cup {None}]
        /\ state' \in [Threads -> States]
        /\ \/ node'[c] \in Threads /\ pc' = [pc EXCEPT ![c] = "v_wakeup"]
           \/ UNCHANGED node /\ pc' = [pc EXCEPT ![c] = "assert"]
    BY <1>5a, <2>1, ListsExist, WakeupType DEF VWake
  <2>3. pc' \in [Cores -> Locations]
    <3>1. /\ pc \in [Cores -> Locations]
          /\ "v_wakeup" \in Locations /\ "assert" \in Locations
      BY DEF Locations
    <3>2. CASE pc' = [pc EXCEPT ![c] = "v_wakeup"]
      BY ONLY <3>1, <3>2
    <3>3. CASE pc' = [pc EXCEPT ![c] = "assert"]
      BY ONLY <3>1, <3>3
    <3> QED
      BY ONLY <2>2, <3>2, <3>3
  <2>4. TypeOK'
    BY <1>5a, <2>2, <2>3 DEF VWake
  <2>5. CoreShape(c)'
    BY <1>5a, <2>1, <2>2 DEF VWake
  <2> QED
    BY <2>4, <2>5
<1>6. CASE VWakeup(c)
  <2>1. fifo' \in [Lists -> Seq(Threads)]
    BY <1>6, ListsExist, InsertLinks DEF VWakeup, WakeupInsert
  <2> QED
    BY <1>6, <2>1 DEF VWakeup, WakeupInsert
<1>7. CASE VRelease(c)
  BY <1>7 DEF VRelease, Release
<1> QED
  BY <1>1, <1>2, <1>3, <1>4, <1>5, <1>5a, <1>6, <1>7
  DEF SemaphoreStep, SemaphoreKernelStep

\* The steps of module Alarm keep the types.
LEMMA AlarmType ==
  ASSUME TypeInv, NEW c \in Cores, AlarmStep(c), UNCHANGED value
  PROVE  TypeOK' /\ CoreShape(c)'
<1>0. TypeOK /\ CoreShape(c)
  BY DEF TypeInv
<1> USE <1>0, ShapeFacts
    DEF TypeOK, CoreShape, Goto, Locations, States, BootLocations, HandLocations,
        LockLocations, SleepLocations
<1>1. ASSUME NEW us \in Deadlines, SleepUntil(c, us)
      PROVE  TypeOK' /\ CoreShape(c)'
  <2>1. /\ heads[c] \in Normal /\ heads[c] = cpu[c] /\ us \in Nat
        /\ LocalSpin \in Locks
    BY <1>1, AlarmAssumption DEF SleepUntil, InProgram, Locks
  <2>2. alarms' \in [Cores -> Seq(Normal \X Nat)]
    <3>1. OrderedInsert(alarms[c], <<heads[c], us>>) \in Seq(Normal \X Nat)
      BY <2>1, OrderedInsertLinks
    <3>2. alarms' = [alarms EXCEPT ![c] = OrderedInsert(@, <<heads[c], us>>)]
      BY ONLY <1>1 DEF SleepUntil
    <3>3. alarms \in [Cores -> Seq(Normal \X Nat)]
      BY DEF TypeOK
    <3> QED
      BY ONLY <3>1, <3>2, <3>3
  <2>3. fifo' \in [Lists -> Seq(Threads)]
    BY <1>1, <2>1, ListsExist, InsertLinks DEF SleepUntil, Sleep
  <2>4. lock' \in [Cores -> Locks \cup {None}] /\ state' \in [Threads -> States]
    BY <1>1, <2>1 DEF SleepUntil, Sleep
  <2>5. pc' \in [Cores -> Locations]
    BY <1>1 DEF SleepUntil, Sleep
  <2>6. TypeOK'
    BY <1>1, <2>2, <2>3, <2>4, <2>5 DEF SleepUntil
  <2>7. CoreShape(c)'
    <3>1. /\ pc'[c] = "sleep" /\ lock'[c] = LocalSpin /\ LocalSpin # None
          /\ UNCHANGED <<cpu, node, heads, s_previous>>
      BY <1>1, <2>1 DEF SleepUntil, Sleep
    <3> QED
      BY <1>1, <2>1, <3>1 DEF SleepUntil, InProgram
  <2> QED
    BY <2>6, <2>7
<1>2. CASE Handler(c)
  <2>1. alarms[c] # <<>> =>
          /\ Head(alarms[c]) \in Normal \X Nat
          /\ Tail(alarms[c]) \in Seq(Normal \X Nat)
    OBVIOUS
  <2>2. alarms' \in [Cores -> Seq(Normal \X Nat)]
    <3>1. alarms[c] # <<>> =>
            OrderedInsert(Tail(alarms[c]), Head(alarms[c])) \in Seq(Normal \X Nat)
      BY <2>1, OrderedInsertLinks
    <3>2. \/ UNCHANGED alarms
          \/ alarms[c] # <<>> /\ alarms' = [alarms EXCEPT ![c] = Tail(@)]
          \/ /\ alarms[c] # <<>>
             /\ alarms' = [alarms EXCEPT ![c] = OrderedInsert(Tail(@), Head(@))]
      BY ONLY <1>2 DEF Handler
    <3>3. alarms \in [Cores -> Seq(Normal \X Nat)]
      BY DEF TypeOK
    <3> QED
      BY ONLY <2>1, <3>1, <3>2, <3>3
  <2>3. ASSUME alarms[c] # <<>>, Wakeup(c, AlarmList(Head(alarms[c])[1]), "alarm_wakeup"),
               UNCHANGED ticking
        PROVE  TypeOK' /\ CoreShape(c)'
    <3>1. /\ fifo' \in [Lists -> Seq(Threads)]
          /\ node' \in [Cores -> Threads \cup {None}]
          /\ state' \in [Threads -> States]
          /\ \/ node'[c] \in Threads /\ pc' = [pc EXCEPT ![c] = "alarm_wakeup"]
             \/ UNCHANGED node /\ pc' = [pc EXCEPT ![c] = "assert"]
      BY <2>1, <2>3, ListsExist, WakeupType
    <3>2. TypeOK'
      BY <1>2, <2>2, <2>3, <3>1 DEF Handler
    <3>3. CoreShape(c)'
      BY <1>2, <2>3, <3>1 DEF Handler
    <3> QED
      BY <3>2, <3>3
  <2>4. ASSUME ticking' = [ticking EXCEPT ![heads[c]] = FALSE], Goto(c, "user"),
               UNCHANGED <<fifo, node, state>>
        PROVE  TypeOK' /\ CoreShape(c)'
    BY <1>2, <2>2, <2>4 DEF Handler
  <2> QED
    BY <1>2, <2>3, <2>4 DEF Handler
<1>3. CASE HandlerWakeup(c)
  <2>1. fifo' \in [Lists -> Seq(Threads)]
    BY <1>3, ListsExist, InsertLinks DEF HandlerWakeup, WakeupInsert
  <2> QED
    BY <1>3, <2>1 DEF HandlerWakeup, WakeupInsert
<1> QED
  BY <1>1, <1>2, <1>3 DEF AlarmStep, AlarmKernelStep

\* Every step of the kernel keeps the types and the shapes of the cores.
LEMMA TypeStep ==
  ASSUME TypeInv, [Next]_vars
  PROVE  TypeInv'
<1>0. TypeOK /\ \A d \in Cores : CoreShape(d)
  BY DEF TypeInv
<1>1. ASSUME NEW c \in Cores, OthersUnchanged(c), TypeOK', CoreShape(c)'
      PROVE  TypeInv'
  <2>1. \A d \in Cores \ {c} : CoreShape(d)'
    BY <1>0, <1>1, ShapeFrame DEF OthersUnchanged
  <2> QED
    BY <1>1, <2>1 DEF TypeInv
<1>2. ASSUME NEW c \in Cores, ThreadStep(c), UNCHANGED <<value, now, alarms>>
      PROVE  TypeInv'
  BY <1>0, <1>1, <1>2, ThreadFrame, ThreadType
<1>3. ASSUME NEW c \in Cores, SemaphoreStep(c), UNCHANGED <<now, alarms>>
      PROVE  TypeInv'
  BY <1>0, <1>1, <1>3, SemaphoreFrame, SemaphoreType
<1>4. ASSUME NEW c \in Cores, AlarmStep(c), UNCHANGED value
      PROVE  TypeInv'
  BY <1>0, <1>1, <1>4, AlarmFrame, AlarmType
<1>5. ASSUME UNCHANGED threadVars, UNCHANGED <<value, alarms>>, now' \in Nat
      PROVE  TypeInv'
  <2>1. TypeOK'
    BY <1>0, <1>5 DEF TypeOK, threadVars
  <2>2. ASSUME NEW d \in Cores PROVE CoreShape(d)'
    BY <1>0, <1>5, ShapeFrame DEF threadVars
  <2> QED
    BY <2>1, <2>2 DEF TypeInv
<1>6. CASE TimePasses /\ UNCHANGED value
  BY <1>0, <1>5, <1>6 DEF TimePasses, TypeOK
<1>7. CASE UNCHANGED vars
  BY <1>0, <1>5, <1>7 DEF vars, TypeOK
<1> QED
  BY <1>2, <1>3, <1>4, <1>6, <1>7 DEF Next, PoweredOff

\* The boot state has the types.
LEMMA TypeInit ==
  ASSUME Init
  PROVE  TypeInv
<1>1. Cardinality(Cores) \in Nat
  BY ThreadAssumption, FS_CardinalityType
<1>2. TypeOK
  BY <1>1, ThreadAssumption, BootAssumption, SemaphoreAssumption
  DEF Init, ThreadInit, SemaphoreInit, AlarmInit, TypeOK, Locations, States,
      Contexts, Threads, Locks
<1>3. ASSUME NEW c \in Cores PROVE CoreShape(c)
  BY DEF Init, ThreadInit, CoreShape, BootLocations, HandLocations, LockLocations,
         SleepLocations
<1> QED
  BY <1>2, <1>3 DEF TypeInv

\* The fields of the kernel's objects keep their types, and the pointers that
\* Thread.cpp dereferences without a test (running(), previous, node, lock)
\* are never null.
THEOREM TypesAreKept == Spec => []TypeOK
<1>1. Init => TypeInv
  BY TypeInit
<1>2. TypeInv /\ [Next]_vars => TypeInv'
  BY TypeStep
<1>3. TypeInv => TypeOK
  BY DEF TypeInv
<1> QED
  BY <1>1, <1>2, <1>3, PTL DEF Spec

-----------------------------------------------------------------------------
(* KernelInvariant.                                                         *)

\* What core c holds in a step, and what other cores still hold.
LEMMA HoldsFrame ==
  ASSUME NEW c \in Cores, OthersUnchanged(c)
  PROVE  /\ \A d \in Cores \ {c} : \A t : Holds(d, t)' <=> Holds(d, t)
         /\ \A d \in Cores \ {c} : \A s : HoldsLock(d, s)' <=> HoldsLock(d, s)
BY DEF OthersUnchanged, Holds, HoldsLock

\* A thread is in at most one list.
LEMMA OneList ==
  ASSUME NodeLinkedOnce, NEW l \in Lists, NEW m \in Lists, NEW t,
         InList(t, l), InList(t, m)
  PROVE  l = m
BY DEF NodeLinkedOnce, InList

\* A thread that a core holds and that is not going to sleep is in no list:
\* Thread.cpp inserts such nodes only.
LEMMA HeldIsUnlinked ==
  ASSUME KernelInvariant, NEW c \in Cores, NEW t \in Threads, Holds(c, t),
         state[t] # "WAITING", NEW l \in Lists
  PROVE  ~InList(t, l)
<1>1. CASE l \in NormalLists \cup IdleLists
  BY <1>1 DEF KernelInvariant, ReadyInQueue
<1>2. CASE l \in WaitLists
  BY <1>2 DEF KernelInvariant, WaitingInSemaphore, WaitLists, WaitList
<1>3. CASE l \in AlarmLists
  BY <1>3 DEF KernelInvariant, WaitingInAlarm, AlarmLists, AlarmList
<1> QED
  BY <1>1, <1>2, <1>3 DEF Lists

\* Where a core has changed value_ and has yet to change waiting_.
OwedLocations == {"p_sleep", "v_wake"}

\* A step of core c that changes no semaphore's list or value keeps the
\* waiters counted, unless c is between the two.
LEMMA WaitersFrame ==
  ASSUME KernelInvariant, NEW c \in Cores, OthersUnchanged(c),
         pc[c] \notin OwedLocations, pc'[c] \notin OwedLocations, UNCHANGED value,
         \A s \in Spins : fifo'[WaitList(s)] = fifo[WaitList(s)]
  PROVE  WaitersCounted'
<1>1. \A l \in OwedLocations : \A s : InStep(l, s)' <=> InStep(l, s)
  BY DEF OthersUnchanged, InStep, OwedLocations
<1>2. \A s \in Spins : Owed(s)' = Owed(s)
  BY <1>1 DEF Owed, OwedLocations
<1> QED
  BY <1>1, <1>2 DEF KernelInvariant, WaitersCounted, OwedLocations

\* The core that holds s decides what is owed to its waiters.
LEMMA OwnerDecides ==
  ASSUME KernelInvariant, NEW c \in Cores, NEW s \in Spins, HoldsLock(c, s)
  PROVE  /\ \A l \in OwedLocations : InStep(l, s) <=> pc[c] = l /\ lock[c] = s
         /\ pc[c] = "p_sleep" /\ lock[c] = s => Len(fifo[WaitList(s)]) = -value[s] - 1
         /\ pc[c] = "v_wake" /\ lock[c] = s =>
              Len(fifo[WaitList(s)]) = -value[s] + 1 /\ value[s] <= 0
         /\ pc[c] \notin OwedLocations =>
              Len(fifo[WaitList(s)]) = IF value[s] < 0 THEN -value[s] ELSE 0
<1>1. \A d \in Cores : pc[d] \in OwedLocations /\ lock[d] = s => HoldsLock(d, s)
  BY DEF HoldsLock, OwedLocations
<1>2. \A l \in OwedLocations : InStep(l, s) <=> pc[c] = l /\ lock[c] = s
  BY <1>1 DEF KernelInvariant, LockedByOneCore, InStep
<1>3. Len(fifo[WaitList(s)]) = Owed(s) /\ (InStep("v_wake", s) => value[s] <= 0)
  BY DEF KernelInvariant, WaitersCounted
<1> QED
  BY <1>2, <1>3 DEF Owed, OwedLocations

\* A step of the core that holds s keeps the waiters counted if it leaves those
\* of s counted.
LEMMA OwnerCounts ==
  ASSUME KernelInvariant, NEW c \in Cores, OthersUnchanged(c),
         NEW s \in Spins, HoldsLock(c, s), lock[c] = s,
         pc'[c] \in OwedLocations => lock'[c] = s,
         \A r \in Spins \ {s} :
           value'[r] = value[r] /\ fifo'[WaitList(r)] = fifo[WaitList(r)],
         pc'[c] = "p_sleep" => Len(fifo'[WaitList(s)]) = -value'[s] - 1,
         pc'[c] = "v_wake" => Len(fifo'[WaitList(s)]) = -value'[s] + 1 /\ value'[s] <= 0,
         pc'[c] \notin OwedLocations =>
           Len(fifo'[WaitList(s)]) = IF value'[s] < 0 THEN -value'[s] ELSE 0
  PROVE  WaitersCounted'
<1>1. \A l \in OwedLocations : InStep(l, s)' <=> pc'[c] = l
  <2>1. \A d \in Cores \ {c} : pc[d] \in OwedLocations => lock[d] # s
    BY DEF KernelInvariant, LockedByOneCore, HoldsLock, OwedLocations
  <2> QED
    BY <2>1 DEF InStep, OthersUnchanged
<1>2. \A l \in OwedLocations : \A r \in Spins \ {s} : InStep(l, r)' <=> InStep(l, r)
  BY DEF InStep, OthersUnchanged
<1>3. ASSUME NEW r \in Spins \ {s}
      PROVE  /\ Len(fifo'[WaitList(r)]) = Owed(r)'
             /\ InStep("v_wake", r)' => value'[r] <= 0
  <2>1. Owed(r)' = Owed(r)
    BY <1>2 DEF Owed, OwedLocations
  <2> QED
    BY <1>2, <2>1 DEF KernelInvariant, WaitersCounted, OwedLocations
<1>4. /\ Len(fifo'[WaitList(s)]) = Owed(s)'
      /\ InStep("v_wake", s)' => value'[s] <= 0
  BY <1>1 DEF Owed, OwedLocations
<1> QED
  BY <1>3, <1>4 DEF WaitersCounted

\* The invariant is kept by a step of core c that
LEMMA StepOfCore ==
  ASSUME
    KernelInvariant, TypeInv', NEW c \in Cores, OthersUnchanged(c),
    \* leaves c's threads in states that fit its control point,
    StateShape(c)',
    \* gets hold only of threads that nobody holds,
    \A t \in Threads : Holds(c, t)' => Holds(c, t) \/ \A d \in Cores : ~Holds(d, t),
    \* changes the state of no thread that another core holds,
    \A t \in Threads : state'[t] = state[t] \/ \A d \in Cores \ {c} : ~Holds(d, t),
    \* takes free locks and releases its own,
    \A s \in Spins : HoldsLock(c, s)' => locked'[s] /\ (HoldsLock(c, s) \/ ~locked[s]),
    \A s \in Spins : locked'[s] = locked[s] \/ HoldsLock(c, s) \/ ~locked[s],
    \* links and unlinks as the kind of list demands,
    NodeLinkedOnce',
    \A l \in NormalLists \cup IdleLists : \A t \in Threads : InList(t, l)' =>
      /\ state'[t] = "READY" /\ l = ReadyList(t) /\ ~Holds(c, t)'
      /\ InList(t, l) \/ Holds(c, t),
    \A s \in Spins : \A t \in Threads : InList(t, WaitList(s))' =>
      /\ state'[t] = "WAITING" /\ (Holds(c, t)' => HoldsLock(c, s)')
      /\ InList(t, WaitList(s)) \/ Holds(c, t),
    WaitingInAlarm',
    WaitersCounted',
    \* adds to c's alarms only threads of its own,
    \A d \in Cores \ {c} : alarms'[d] = alarms[d],
    SleepsOnce(alarms[c])',
    \A t \in Normal : Alarmed(c, t)' =>
      /\ InList(t, AlarmList(t))' /\ (Holds(c, t)' => pc'[c] # "alarm")
      /\ Alarmed(c, t) \/ (Holds(c, t) /\ state[t] # "WAITING"),
    \A t \in Normal : \A d \in Cores \ {c} : Alarmed(d, t) =>
      InList(t, AlarmList(t))' /\ ~Holds(c, t)',
    \* and saves the context of the thread it leaves.
    \A t \in Threads : context'[t] = "live" =>
      cpu'[c] = t \/ (context[t] = "live" /\ cpu[c] # t),
    \A t \in Threads : context'[t] = "none" => state'[t] = "NONE"
  PROVE KernelInvariant'
<1>1. \A d \in Cores : StateShape(d)'
  <2> SUFFICES ASSUME NEW d \in Cores \ {c}
               PROVE  StateShape(d)'
    OBVIOUS
  <2>1. StateShape(d) /\ cpu[d] \in Threads \cup {None} /\ node[d] \in Threads \cup {None}
    BY DEF KernelInvariant, TypeInv, TypeOK
  <2>2. /\ cpu[d] # None => state'[cpu[d]] = state[cpu[d]]
        /\ node[d] # None => state'[node[d]] = state[node[d]]
        /\ pc[d] \in {"epilogue", "finish"} =>
             state'[s_previous[d]] = state[s_previous[d]]
    <3>1. pc[d] \in {"epilogue", "finish"} => s_previous[d] \in Threads
      BY ShapeFacts DEF KernelInvariant
    <3> QED
      BY <2>1, <3>1 DEF Holds
  <2> QED
    BY <2>1, <2>2 DEF StateShape, OthersUnchanged, SleepLocations
<1>2. HeldByOneCore'
  BY HoldsFrame DEF KernelInvariant, HeldByOneCore
<1>3. LockedByOneCore'
  BY HoldsFrame DEF KernelInvariant, LockedByOneCore
<1>4. ReadyInQueue'
  BY HoldsFrame DEF KernelInvariant, ReadyInQueue, HeldByOneCore
<1>5. WaitingInSemaphore'
  BY HoldsFrame DEF KernelInvariant, WaitingInSemaphore, HeldByOneCore
<1>6. \A d \in Cores \ {c} : \A t : Alarmed(d, t)' <=> Alarmed(d, t)
  BY DEF Alarmed
<1>7. AlarmedOnce'
  <2>1. \A d \in Cores : SleepsOnce(alarms[d])'
    BY DEF KernelInvariant, AlarmedOnce
  <2>2. ASSUME NEW t \in Normal, NEW d \in Cores \ {c}, Alarmed(c, t)', Alarmed(d, t)
        PROVE  FALSE
    <3>1. CASE Alarmed(c, t)
      BY <2>2, <3>1 DEF KernelInvariant, AlarmedOnce
    <3>2. CASE Holds(c, t) /\ state[t] # "WAITING"
      BY <2>2, <3>2 DEF KernelInvariant, AlarmedSleeps, WaitingInAlarm, Threads
    <3> QED
      BY <2>2, <3>1, <3>2
  <2>3. \A t \in Normal : \A d, e \in Cores \ {c} : Alarmed(d, t) /\ Alarmed(e, t) => d = e
    BY DEF KernelInvariant, AlarmedOnce
  <2> QED
    BY <1>6, <2>1, <2>2, <2>3 DEF AlarmedOnce
<1>8. AlarmedSleeps'
  <2> SUFFICES ASSUME NEW t \in Normal, NEW e \in Cores, Alarmed(e, t)'
               PROVE  /\ InList(t, AlarmList(t))'
                      /\ \A d \in Cores : Holds(d, t)' => d = e /\ pc'[e] # "alarm"
    BY DEF AlarmedSleeps
  <2>1. CASE e = c
    <3>1. \A d \in Cores \ {c} : ~Holds(d, t)
      BY <2>1 DEF KernelInvariant, AlarmedSleeps, HeldByOneCore, Threads
    <3> QED
      BY <2>1, <3>1, HoldsFrame
  <2>2. CASE e # c
    BY <2>2, <1>6, HoldsFrame DEF KernelInvariant, AlarmedSleeps, OthersUnchanged
  <2> QED
    BY <2>1, <2>2
<1>9. ContextShape'
  <2> SUFFICES ASSUME NEW t \in Threads, context'[t] = "live"
               PROVE  \E d \in Cores : cpu'[d] = t
    BY DEF ContextShape
  <2>1. CASE cpu'[c] = t
    BY <2>1
  <2>2. CASE context[t] = "live" /\ cpu[c] # t
    BY <2>2 DEF KernelInvariant, ContextShape, OthersUnchanged
  <2> QED
    BY <2>1, <2>2
<1> QED
  BY <1>1, <1>2, <1>3, <1>4, <1>5, <1>7, <1>8, <1>9 DEF KernelInvariant

-----------------------------------------------------------------------------
(* Steps that link, unlink and switch no thread.                            *)

\* A step of c that links and unlinks nothing and holds no more than before.
LEMMA QuietStep ==
  ASSUME
    KernelInvariant, TypeInv', NEW c \in Cores, OthersUnchanged(c),
    UNCHANGED <<fifo, state, context, alarms>>, cpu'[c] = cpu[c], node'[c] = node[c],
    StateShape(c)', WaitersCounted',
    pc'[c] \in {"epilogue", "finish"} =>
      pc[c] \in {"epilogue", "finish"} /\ s_previous'[c] = s_previous[c],
    \A s \in Spins : HoldsLock(c, s)' => locked'[s] /\ (HoldsLock(c, s) \/ ~locked[s]),
    \A s \in Spins : locked'[s] = locked[s] \/ HoldsLock(c, s) \/ ~locked[s],
    \A s \in Spins, t \in Threads :
      InList(t, WaitList(s)) /\ Holds(c, t)' => HoldsLock(c, s)',
    pc'[c] = "alarm" => \A t \in Normal : Alarmed(c, t) => ~Holds(c, t)'
  PROVE KernelInvariant'
<1>1. \A t, l : InList(t, l)' <=> InList(t, l)
  BY DEF InList
<1>2. \A t, d : Alarmed(d, t)' <=> Alarmed(d, t)
  BY DEF Alarmed
<1>3. \A t : Holds(c, t)' => Holds(c, t)
  BY DEF Holds
<1>4. NodeLinkedOnce' /\ WaitingInAlarm' /\ SleepsOnce(alarms[c])'
  BY <1>1 DEF KernelInvariant, NodeLinkedOnce, WaitingInAlarm, AlarmedOnce
<1>5. ReadyInQueue /\ WaitingInSemaphore /\ AlarmedSleeps /\ ContextShape
  BY DEF KernelInvariant
<1>6. \A l \in NormalLists \cup IdleLists : \A t \in Threads : InList(t, l)' =>
        /\ state'[t] = "READY" /\ l = ReadyList(t) /\ ~Holds(c, t)'
        /\ InList(t, l) \/ Holds(c, t)
  BY <1>1, <1>3, <1>5 DEF ReadyInQueue
<1>7. \A s \in Spins : \A t \in Threads : InList(t, WaitList(s))' =>
        /\ state'[t] = "WAITING" /\ (Holds(c, t)' => HoldsLock(c, s)')
        /\ InList(t, WaitList(s)) \/ Holds(c, t)
  BY <1>1, <1>5 DEF WaitingInSemaphore
<1>8. \A t \in Normal : Alarmed(c, t)' =>
        /\ InList(t, AlarmList(t))' /\ (Holds(c, t)' => pc'[c] # "alarm")
        /\ Alarmed(c, t) \/ (Holds(c, t) /\ state[t] # "WAITING")
  BY <1>1, <1>2, <1>5 DEF AlarmedSleeps
<1>9. \A t \in Normal : \A d \in Cores \ {c} : Alarmed(d, t) =>
        InList(t, AlarmList(t))' /\ ~Holds(c, t)'
  BY <1>1, <1>3, <1>5 DEF AlarmedSleeps
<1>10. \A t \in Threads : context'[t] = "live" =>
         cpu'[c] = t \/ (context[t] = "live" /\ cpu[c] # t)
  OBVIOUS
<1>11. \A t \in Threads : context'[t] = "none" => state'[t] = "NONE"
  BY <1>5 DEF ContextShape
<1> QED
  BY <1>3, <1>4, <1>6, <1>7, <1>8, <1>9, <1>10, <1>11, StepOfCore

\* Where a core holds nothing but the running thread, and no lock.
PlainLocations ==
  {"user", "reschedule", "exit", "exit_idle", "p_acquire", "v_acquire",
   "barrier", "off", "alarm"}

\* Outside the switch a core holds just the thread it executes, and no lock.
LEMMA PlainFacts ==
  ASSUME KernelInvariant, NEW c \in Cores, pc[c] \in PlainLocations
  PROVE  /\ cpu[c] \in Threads /\ heads[c] = cpu[c] /\ node[c] = None
         /\ state[cpu[c]] \in {"READY", "RUNNING"}
         /\ \A l \in Lists : ~InList(cpu[c], l)
         /\ \A t : Holds(c, t) /\ t # None => t = cpu[c]
         /\ \A s \in Spins : ~HoldsLock(c, s)
<1>1. TypeInv /\ CoreShape(c) /\ StateShape(c)
  BY DEF KernelInvariant, TypeInv
<1>2. cpu[c] \in Threads /\ heads[c] = cpu[c] /\ node[c] = None /\ None \notin Threads
  BY <1>1, ShapeFacts
  DEF PlainLocations, CoreShape, BootLocations, HandLocations
<1>3. state[cpu[c]] \in {"READY", "RUNNING"}
  BY <1>1, <1>2 DEF StateShape, PlainLocations, SleepLocations
<1>4. \A l \in Lists : ~InList(cpu[c], l)
  BY <1>2, <1>3, HeldIsUnlinked DEF Holds
<1>5. \A t : Holds(c, t) /\ t # None => t = cpu[c]
  BY <1>2 DEF Holds, PlainLocations
<1>6. \A s \in Spins : ~HoldsLock(c, s)
  BY DEF HoldsLock, PlainLocations, SleepLocations
<1> QED
  BY <1>2, <1>3, <1>4, <1>5, <1>6

\* The steps that only move the core on keep the invariant.
LEMMA PlainStep ==
  ASSUME KernelInvariant, TypeInv', NEW c \in Cores, OthersUnchanged(c),
         pc[c] \in PlainLocations, pc'[c] \in PlainLocations,
         UNCHANGED <<cpu, node, fifo, state, context, locked, alarms, value>>
  PROVE  KernelInvariant'
<1>1. /\ cpu[c] \in Threads /\ node[c] = None /\ None \notin Threads
      /\ state[cpu[c]] \in {"READY", "RUNNING"}
      /\ \A l \in Lists : ~InList(cpu[c], l)
  BY PlainFacts, ThreadAssumption
<1>2. StateShape(c)'
  BY <1>1 DEF StateShape, PlainLocations, SleepLocations
<1>3. \A t \in Threads : Holds(c, t)' => t = cpu[c]
  BY <1>1 DEF Holds, PlainLocations
<1>4. \A s \in Spins : ~HoldsLock(c, s)'
  BY DEF HoldsLock, PlainLocations, SleepLocations
<1>5. WaitersCounted'
  BY WaitersFrame DEF PlainLocations, OwedLocations
<1>6. \A s \in Spins, t \in Threads :
        InList(t, WaitList(s)) /\ Holds(c, t)' => HoldsLock(c, s)'
  BY <1>1, <1>3, ListsExist
<1>7. \A t \in Normal : Alarmed(c, t) => ~Holds(c, t)'
  BY <1>1, <1>3, ListsExist DEF KernelInvariant, AlarmedSleeps, Threads
<1>8. pc'[c] \notin {"epilogue", "finish"}
  BY DEF PlainLocations
<1> QED
  BY <1>2, <1>4, <1>5, <1>6, <1>7, <1>8, QuietStep

-----------------------------------------------------------------------------
(* Scheduler::remove: a core takes a ready thread to switch to.             *)

\* What Scheduler::remove unlinks and hands to the core.
LEMMA TakeFacts ==
  ASSUME KernelInvariant, NEW c \in Cores, NEW l \in NormalLists \cup IdleLists,
         Take(c, l)
  PROVE  /\ node'[c] \in Threads /\ state[node'[c]] = "READY"
         /\ \A d \in Cores : ~Holds(d, node'[c])
         /\ NodeLinkedOnce'
         /\ \A m \in Lists, u \in Threads :
              InList(u, m)' <=> InList(u, m) /\ u # node'[c]
         /\ \A m \in Lists \ (NormalLists \cup IdleLists) : fifo'[m] = fifo[m]
<1>1. TypeOK /\ NodeLinkedOnce /\ ReadyInQueue
  BY DEF KernelInvariant, TypeInv
<1>2. l \in Lists /\ fifo \in [Lists -> Seq(Threads)] /\ Remove(l)
  BY <1>1 DEF Lists, TypeOK, Take
<1>3. node'[c] = Head(fifo[l])
  BY <1>1 DEF Take, TypeOK
<1>4. /\ node'[c] \in Threads /\ InList(node'[c], l) /\ NodeLinkedOnce'
      /\ \A m \in Lists, u \in Threads :
           InList(u, m)' <=> InList(u, m) /\ ~(m = l /\ u = node'[c])
  BY <1>1, <1>2, <1>3, RemoveUnlinks
<1>5. \A m \in Lists : InList(node'[c], m) => m = l
  BY <1>1, <1>2, <1>4, OneList
<1>6. \A m \in Lists \ (NormalLists \cup IdleLists) : fifo'[m] = fifo[m]
  BY <1>2 DEF Remove
<1> QED
  BY <1>1, <1>4, <1>5, <1>6 DEF ReadyInQueue

\* Run queues, semaphores' lists and alarms' lists are different lists.
LEMMA KindsOfLists ==
  /\ \A s \in Spins : WaitList(s) \in Lists \ (NormalLists \cup IdleLists)
  /\ \A t \in Normal : AlarmList(t) \in Lists \ (NormalLists \cup IdleLists)
  /\ \A t \in Threads : ReadyList(t) \in NormalLists \cup IdleLists
  /\ \A c \in Cores : {NormalOf(c), IdleOf(c)} \subseteq NormalLists \cup IdleLists
  /\ \A s \in Spins, t \in Normal : WaitList(s) # AlarmList(t)
  /\ \A s, r \in Spins : WaitList(s) = WaitList(r) => s = r
  /\ \A t, u \in Normal : AlarmList(t) = AlarmList(u) => t = u
BY ThreadAssumption
DEF Lists, NormalLists, IdleLists, WaitLists, AlarmLists, ReadyList, NormalOf,
    IdleOf, WaitList, AlarmList, Threads

\* A core that takes a node from a run queue keeps the invariant.
LEMMA TakeStep ==
  ASSUME KernelInvariant, TypeInv', NEW c \in Cores, OthersUnchanged(c),
         NEW l \in NormalLists \cup IdleLists, Take(c, l), node[c] = None,
         StateShape(c)', pc[c] \notin OwedLocations, pc'[c] \in {"dispatch", "load"},
         UNCHANGED <<cpu, context, locked, alarms, value>>,
         \A s \in Spins : HoldsLock(c, s)' <=> HoldsLock(c, s),
         \A t \in Threads : state'[t] = state[t] \/
           (t = cpu[c] /\ state[t] # "NONE" /\ \A m \in Lists : ~InList(t, m))
  PROVE  KernelInvariant'
<1> DEFINE n == node'[c]
<1>1. /\ n \in Threads /\ state[n] = "READY"
      /\ \A d \in Cores : ~Holds(d, n)
      /\ NodeLinkedOnce'
      /\ \A m \in Lists, u \in Threads : InList(u, m)' <=> InList(u, m) /\ u # n
      /\ \A m \in Lists \ (NormalLists \cup IdleLists) : fifo'[m] = fifo[m]
  BY TakeFacts
<1>2. \A t \in Threads : Holds(c, t)' <=> cpu[c] = t \/ t = n
  BY DEF Holds
<1> HIDE DEF n
<1>3. \A t \in Threads : Holds(c, t)' => Holds(c, t) \/ \A d \in Cores : ~Holds(d, t)
  BY <1>1, <1>2 DEF Holds
<1>4. \A t \in Threads : state'[t] = state[t] \/ \A d \in Cores \ {c} : ~Holds(d, t)
  BY DEF Holds, KernelInvariant, HeldByOneCore
<1>5. /\ ReadyInQueue /\ WaitingInSemaphore /\ WaitingInAlarm /\ AlarmedSleeps
      /\ AlarmedOnce /\ LockedByOneCore /\ ContextShape
  BY DEF KernelInvariant
<1>6. \A m \in NormalLists \cup IdleLists : \A t \in Threads : InList(t, m)' =>
        /\ state'[t] = "READY" /\ m = ReadyList(t) /\ ~Holds(c, t)'
        /\ InList(t, m) \/ Holds(c, t)
  BY <1>1, <1>2, <1>5 DEF ReadyInQueue, Lists, Holds
<1>7. \A s \in Spins : \A t \in Threads : InList(t, WaitList(s))' =>
        /\ state'[t] = "WAITING" /\ (Holds(c, t)' => HoldsLock(c, s)')
        /\ InList(t, WaitList(s)) \/ Holds(c, t)
  BY <1>1, <1>2, <1>5, KindsOfLists DEF WaitingInSemaphore, Holds
<1>8. WaitingInAlarm'
  BY <1>1, <1>5, KindsOfLists DEF WaitingInAlarm, Threads
<1>9. WaitersCounted'
  BY <1>1, KindsOfLists, WaitersFrame DEF OwedLocations
<1>10. \A t, d : Alarmed(d, t)' <=> Alarmed(d, t)
  BY DEF Alarmed
<1>11. SleepsOnce(alarms[c])'
  BY <1>5 DEF AlarmedOnce
<1>12. \A t \in Normal : \A d \in Cores : Alarmed(d, t) =>
         t # n /\ InList(t, AlarmList(t))'
  BY <1>1, <1>5, KindsOfLists DEF AlarmedSleeps, WaitingInAlarm, Threads
<1>13. \A t \in Normal : \A d \in Cores \ {c} : Alarmed(d, t) =>
         InList(t, AlarmList(t))' /\ ~Holds(c, t)'
  BY <1>2, <1>5, <1>12 DEF AlarmedSleeps, Threads, Holds
<1>14. \A t \in Threads : context'[t] = "none" => state'[t] = "NONE"
  BY <1>5 DEF ContextShape
<1>15. \A s \in Spins : HoldsLock(c, s)' => locked'[s] /\ (HoldsLock(c, s) \/ ~locked[s])
  BY <1>5 DEF LockedByOneCore
<1> QED
  BY <1>1, <1>3, <1>4, <1>6, <1>7, <1>8, <1>9, <1>10, <1>11, <1>12, <1>13, <1>14,
     <1>15, StepOfCore

\* Thread::reschedule keeps the invariant.
LEMMA RescheduleStep ==
  ASSUME KernelInvariant, TypeInv', NEW c \in Cores, OthersUnchanged(c),
         Reschedule(c), UNCHANGED <<value, now, alarms>>
  PROVE  KernelInvariant'
<1>1. /\ pc[c] = "reschedule" /\ TypeOK /\ CoreShape(c)
      /\ UNCHANGED <<cpu, lock, context, locked>>
  BY DEF Reschedule, KernelInvariant, TypeInv
<1>2. /\ cpu[c] \in Threads /\ heads[c] = cpu[c] /\ node[c] = None /\ lock[c] = None
      /\ state[cpu[c]] \in {"READY", "RUNNING"}
      /\ \A l \in Lists : ~InList(cpu[c], l)
      /\ \A s \in Spins : ~HoldsLock(c, s)
  BY <1>1, PlainFacts
  DEF PlainLocations, CoreShape, LockLocations, SleepLocations, HandLocations
<1>3. CASE Take(c, NormalOf(c)) /\ state' = [state EXCEPT ![heads[c]] = "READY"]
           /\ Goto(c, "dispatch")
  <2>1. pc'[c] = "dispatch"
    BY <1>1, <1>3 DEF TypeOK, Goto
  <2>2. \A t \in Threads : state'[t] = IF t = cpu[c] THEN "READY" ELSE state[t]
    BY <1>1, <1>2, <1>3 DEF TypeOK
  <2>3. /\ node'[c] \in Threads /\ state[node'[c]] = "READY"
        /\ \A d \in Cores : ~Holds(d, node'[c])
    BY <1>3, KindsOfLists, TakeFacts
  <2>4. StateShape(c)'
    BY <1>1, <1>2, <2>1, <2>2, <2>3 DEF StateShape, SleepLocations, Holds
  <2>5. \A s \in Spins : ~HoldsLock(c, s)'
    BY <1>1, <1>2, <2>1, ShapeFacts DEF HoldsLock, KernelInvariant
  <2> QED
    BY <1>1, <1>2, <1>3, <2>1, <2>2, <2>4, <2>5, KindsOfLists, TakeStep
    DEF OwedLocations
<1>4. CASE Goto(c, Resume(heads[c])) /\ UNCHANGED <<fifo, node, heads, state>>
  <2>1. pc'[c] \in PlainLocations /\ pc[c] \in PlainLocations
    BY <1>1, <1>4 DEF Goto, Resume, TypeOK, PlainLocations
  <2> QED
    BY <1>1, <1>4, <2>1, PlainStep
<1> QED
  BY <1>3, <1>4 DEF Reschedule

\* Thread::exit, Thread::sleep and Thread::run with the node they removed.
LEMMA RemovedStep ==
  ASSUME KernelInvariant, TypeInv', NEW c \in Cores, OthersUnchanged(c),
         NEW l \in NormalLists \cup IdleLists, Take(c, l),
         NEW caller \in {"exit", "sleep", "run"}, Removed(c, caller),
         pc[c] \in {caller, IdleRetry[caller]},
         UNCHANGED <<cpu, lock, s_previous, s_spin, context, locked, alarms, value>>
  PROVE  KernelInvariant'
<1>1. \/ pc[c] \in {"exit", "exit_idle"} /\ caller = "exit"
      \/ pc[c] \in {"sleep", "sleep_idle"} /\ caller = "sleep"
      \/ pc[c] \in {"run", "run_idle"} /\ caller = "run"
  BY IdleRetryFacts
<1>2. TypeOK /\ CoreShape(c) /\ StateShape(c) /\ None \notin Threads /\ None \notin Spins
  BY ThreadAssumption DEF KernelInvariant, TypeInv, Locks
<1>3. node[c] = None /\ pc[c] \notin OwedLocations
  BY <1>1, <1>2 DEF CoreShape, HandLocations, OwedLocations
<1>4. /\ node'[c] \in Threads /\ state[node'[c]] = "READY"
      /\ \A d \in Cores : ~Holds(d, node'[c])
  BY TakeFacts
<1>5. CASE caller = "exit"
  <2>1. /\ cpu[c] \in Threads /\ heads[c] = cpu[c] /\ lock[c] = None
        /\ state[cpu[c]] \in {"READY", "RUNNING"}
        /\ \A m \in Lists : ~InList(cpu[c], m)
        /\ \A s \in Spins : ~HoldsLock(c, s)
    BY <1>1, <1>2, <1>5, PlainFacts
    DEF PlainLocations, CoreShape, LockLocations, SleepLocations
  <2>2. pc'[c] = "dispatch"
    BY <1>2, <1>5 DEF TypeOK, Goto, Removed
  <2>3. \A t \in Threads : state'[t] = IF t = cpu[c] THEN "FINISHING" ELSE state[t]
    BY <1>2, <1>5, <2>1 DEF TypeOK, Removed
  <2>4. StateShape(c)'
    BY <1>2, <1>4, <2>1, <2>2, <2>3 DEF StateShape, SleepLocations, Holds
  <2>5. \A s \in Spins : ~HoldsLock(c, s)'
    BY <1>2, <2>1, <2>2 DEF HoldsLock
  <2> QED
    BY <1>3, <2>1, <2>2, <2>3, <2>4, <2>5, TakeStep
<1>6. CASE caller = "sleep"
  <2>1. cpu[c] \in Threads /\ lock[c] # None /\ state[cpu[c]] = "WAITING"
    BY <1>1, <1>2, <1>6 DEF CoreShape, StateShape, SleepLocations, TypeOK, BootLocations
  <2>2. pc'[c] = "dispatch" /\ UNCHANGED state
    BY <1>2, <1>6 DEF TypeOK, Goto, Removed
  <2>3. StateShape(c)'
    BY <1>2, <1>4, <2>1, <2>2 DEF StateShape, SleepLocations, Holds
  <2>4. \A s \in Spins : HoldsLock(c, s)' <=> HoldsLock(c, s)
    BY <1>1, <1>6, <2>2 DEF HoldsLock, SleepLocations
  <2> QED
    BY <1>3, <2>2, <2>3, <2>4, TakeStep
<1>7. CASE caller = "run"
  <2>1. cpu[c] = None
    BY <1>1, <1>2, <1>7 DEF CoreShape, BootLocations
  <2>2. pc'[c] = "load" /\ UNCHANGED state
    BY <1>2, <1>7 DEF TypeOK, Goto, Removed
  <2>3. StateShape(c)'
    BY <1>2, <1>4, <2>1, <2>2 DEF StateShape, SleepLocations, Holds
  <2>4. \A s \in Spins : HoldsLock(c, s)' <=> HoldsLock(c, s)
    BY <1>1, <1>7, <2>2 DEF HoldsLock, SleepLocations
  <2> QED
    BY <1>3, <2>2, <2>3, <2>4, TakeStep
<1> QED
  BY <1>5, <1>6, <1>7

\* The NORMAL queue was empty, or the assert on the IDLE one fails.
LEMMA NotRemovedStep ==
  ASSUME KernelInvariant, TypeInv', NEW c \in Cores, OthersUnchanged(c),
         NEW caller \in {"exit", "sleep", "run"},
         \/ pc[c] = caller /\ pc' = [pc EXCEPT ![c] = IdleRetry[caller]]
         \/ pc[c] = IdleRetry[caller] /\ pc' = [pc EXCEPT ![c] = "assert"],
         UNCHANGED <<cpu, node, lock, heads, s_previous, s_spin, state, context,
                     locked, fifo, alarms, value>>
  PROVE  KernelInvariant'
<1>1. TypeOK /\ CoreShape(c) /\ StateShape(c) /\ None \notin Threads /\ None \notin Spins
  BY ThreadAssumption DEF KernelInvariant, TypeInv, Locks
<1>2. \/ pc[c] = "exit" /\ pc'[c] = "exit_idle"
      \/ pc[c] = "sleep" /\ pc'[c] = "sleep_idle"
      \/ pc[c] = "run" /\ pc'[c] = "run_idle"
      \/ pc[c] \in {"exit_idle", "sleep_idle", "run_idle"} /\ pc'[c] = "assert"
  BY <1>1, IdleRetryFacts DEF TypeOK
<1>3. node[c] = None /\ (pc[c] \notin SleepLocations => lock[c] = None)
  BY <1>1, <1>2 DEF CoreShape, HandLocations, LockLocations, SleepLocations
<1>4. StateShape(c)'
  BY <1>1, <1>2, <1>3 DEF StateShape, SleepLocations, CoreShape, BootLocations
<1>5. \A s \in Spins : HoldsLock(c, s)' <=> HoldsLock(c, s)
  BY <1>1, <1>2, <1>3 DEF HoldsLock, SleepLocations
<1>6. \A s \in Spins, t \in Threads :
        InList(t, WaitList(s)) /\ Holds(c, t)' => HoldsLock(c, s)'
  BY <1>2, <1>5 DEF KernelInvariant, WaitingInSemaphore, Holds
<1>7. WaitersCounted'
  BY <1>2, WaitersFrame DEF OwedLocations
<1>8. \A s \in Spins : HoldsLock(c, s)' => locked'[s] /\ (HoldsLock(c, s) \/ ~locked[s])
  BY <1>5 DEF KernelInvariant, LockedByOneCore
<1>9. pc'[c] \notin {"epilogue", "finish", "alarm"}
  BY <1>2
<1> QED
  BY <1>4, <1>6, <1>7, <1>8, <1>9, QuietStep

\* Scheduler::remove for exit, sleep and run keeps the invariant.
LEMMA RemoveStep ==
  ASSUME KernelInvariant, TypeInv', NEW c \in Cores, OthersUnchanged(c),
         RemoveNormal(c) \/ RemoveIdle(c), UNCHANGED <<value, now, alarms>>
  PROVE  KernelInvariant'
<1>1. UNCHANGED <<cpu, lock, s_previous, s_spin, context, locked, alarms, value>>
  BY DEF RemoveNormal, RemoveIdle
<1>2. CASE RemoveNormal(c)
  <2>1. PICK caller \in {"exit", "sleep", "run"} :
          /\ pc[c] = caller
          /\ \/ Take(c, NormalOf(c)) /\ Removed(c, caller)
             \/ /\ Goto(c, IdleRetry[caller])
                /\ UNCHANGED <<fifo, node, heads, state>>
    BY <1>2, IdleRetryFacts DEF RemoveNormal
  <2>2. CASE Take(c, NormalOf(c)) /\ Removed(c, caller)
    BY <1>1, <2>1, <2>2, KindsOfLists, RemovedStep
  <2>3. CASE Goto(c, IdleRetry[caller]) /\ UNCHANGED <<fifo, node, heads, state>>
    BY <1>1, <2>1, <2>3, NotRemovedStep DEF Goto
  <2> QED
    BY <2>1, <2>2, <2>3
<1>3. CASE RemoveIdle(c)
  <2>1. PICK caller \in {"exit", "sleep", "run"} :
          /\ pc[c] = IdleRetry[caller]
          /\ \/ Take(c, IdleOf(c)) /\ Removed(c, caller)
             \/ Goto(c, "assert") /\ UNCHANGED <<fifo, node, heads, state>>
    BY <1>3, IdleRetryFacts DEF RemoveIdle
  <2>2. CASE Take(c, IdleOf(c)) /\ Removed(c, caller)
    BY <1>1, <2>1, <2>2, KindsOfLists, RemovedStep
  <2>3. CASE Goto(c, "assert") /\ UNCHANGED <<fifo, node, heads, state>>
    BY <1>1, <2>1, <2>3, NotRemovedStep DEF Goto
  <2> QED
    BY <2>1, <2>2, <2>3
<1> QED
  BY <1>2, <1>3

-----------------------------------------------------------------------------
(* Context::load and Context::swtch.                                        *)

\* A step that switches threads: the thread that c ran, if any, is saved, and
\* c runs the one it had in hand.
LEMMA SwitchStep ==
  ASSUME KernelInvariant, TypeInv', NEW c \in Cores, OthersUnchanged(c),
         pc[c] \in {"load", "dispatch"}, pc'[c] \in {"user", "epilogue"},
         UNCHANGED <<fifo, alarms, value, locked>>,
         cpu'[c] = node[c], node'[c] = None,
         pc'[c] = "epilogue" => s_previous'[c] = cpu[c],
         StateShape(c)',
         \A s \in Spins : HoldsLock(c, s)' <=> HoldsLock(c, s),
         \A t \in Threads \ {node[c]} : state'[t] = state[t],
         \A t \in Threads : context'[t] = "live" =>
           t = node[c] \/ (context[t] = "live" /\ cpu[c] # t),
         \A t \in Threads : context'[t] = "none" => context[t] = "none" /\ t # node[c]
  PROVE  KernelInvariant'
<1>1. /\ TypeInv /\ StateShape(c) /\ None \notin Threads
      /\ HeldByOneCore /\ LockedByOneCore /\ NodeLinkedOnce /\ ReadyInQueue
      /\ WaitingInSemaphore /\ WaitingInAlarm /\ AlarmedOnce /\ AlarmedSleeps
      /\ ContextShape
  BY ThreadAssumption DEF KernelInvariant
<1>2. node[c] \in Threads /\ Holds(c, node[c]) /\ state[node[c]] = "READY"
  BY <1>1, ShapeFacts DEF Holds, StateShape, HandLocations
<1>3. \A l \in Lists : ~InList(node[c], l)
  BY <1>2, HeldIsUnlinked
<1>4. \A t \in Threads : Holds(c, t)' => Holds(c, t)
  BY <1>1 DEF Holds
<1>5. \A t, l : InList(t, l)' <=> InList(t, l)
  BY DEF InList
<1>6. \A t, d : Alarmed(d, t)' <=> Alarmed(d, t)
  BY DEF Alarmed
<1>7. \A t \in Threads : state'[t] = state[t] \/ \A d \in Cores \ {c} : ~Holds(d, t)
  BY <1>1, <1>2 DEF HeldByOneCore
<1>8. \A l \in NormalLists \cup IdleLists : \A t \in Threads : InList(t, l)' =>
        /\ state'[t] = "READY" /\ l = ReadyList(t) /\ ~Holds(c, t)'
        /\ InList(t, l) \/ Holds(c, t)
  BY <1>1, <1>3, <1>4, <1>5 DEF ReadyInQueue, Lists
<1>9. \A s \in Spins : \A t \in Threads : InList(t, WaitList(s))' =>
        /\ state'[t] = "WAITING" /\ (Holds(c, t)' => HoldsLock(c, s)')
        /\ InList(t, WaitList(s)) \/ Holds(c, t)
  BY <1>1, <1>3, <1>4, <1>5, ListsExist DEF WaitingInSemaphore
<1>10. WaitingInAlarm' /\ NodeLinkedOnce' /\ SleepsOnce(alarms[c])'
  BY <1>1, <1>3, <1>5, ListsExist
  DEF WaitingInAlarm, Threads, NodeLinkedOnce, AlarmedOnce
<1>11. \A t \in Normal : Alarmed(c, t)' =>
         /\ InList(t, AlarmList(t))' /\ (Holds(c, t)' => pc'[c] # "alarm")
         /\ Alarmed(c, t) \/ (Holds(c, t) /\ state[t] # "WAITING")
  BY <1>1, <1>5, <1>6 DEF AlarmedSleeps
<1>12. \A t \in Normal : \A d \in Cores \ {c} : Alarmed(d, t) =>
         InList(t, AlarmList(t))' /\ ~Holds(c, t)'
  BY <1>1, <1>4, <1>5 DEF AlarmedSleeps, Threads
<1>13. WaitersCounted'
  BY WaitersFrame DEF OwedLocations
<1>14. \A s \in Spins : HoldsLock(c, s)' => locked'[s] /\ (HoldsLock(c, s) \/ ~locked[s])
  BY <1>1 DEF LockedByOneCore
<1>15. \A t \in Threads : context'[t] = "none" => state'[t] = "NONE"
  BY <1>1 DEF ContextShape
<1> QED
  BY <1>4, <1>7, <1>8, <1>9, <1>10, <1>11, <1>12, <1>13, <1>14, <1>15, StepOfCore

\* Thread::run's Context::load keeps the invariant.
LEMMA LoadStep ==
  ASSUME KernelInvariant, TypeInv', NEW c \in Cores, OthersUnchanged(c),
         Load(c), UNCHANGED <<value, now, alarms>>
  PROVE  KernelInvariant'
<1>1. TypeOK /\ CoreShape(c) /\ StateShape(c) /\ None \notin Threads /\ None \notin Spins
  BY ThreadAssumption DEF KernelInvariant, TypeInv, Locks
<1>2. /\ pc[c] = "load" /\ UNCHANGED <<lock, s_spin, state, locked, fifo>>
      /\ context' = [context EXCEPT ![node[c]] = "live"]
  BY DEF Load
<1>3. cpu[c] = None /\ s_previous[c] = None /\ node[c] # None /\ lock[c] = None
  BY <1>1, <1>2
  DEF CoreShape, BootLocations, HandLocations, LockLocations, SleepLocations
<1>4. pc'[c] = "user" /\ cpu'[c] = node[c] /\ node'[c] = None
  BY <1>1, <1>3 DEF Load, Goto, TypeOK
<1>5. StateShape(c)'
  BY <1>1, <1>2, <1>3, <1>4 DEF StateShape, SleepLocations
<1>6. \A s \in Spins : ~HoldsLock(c, s)' /\ ~HoldsLock(c, s)
  BY <1>2, <1>4 DEF HoldsLock, SleepLocations
<1>7. \A t \in Threads : context'[t] = IF t = node[c] THEN "live" ELSE context[t]
  BY <1>1, <1>2 DEF TypeOK
<1> QED
  BY <1>1, <1>2, <1>3, <1>4, <1>5, <1>6, <1>7, SwitchStep

\* Thread::dispatch keeps the invariant: what c executed it now owes an epilogue.
LEMMA DispatchStep ==
  ASSUME KernelInvariant, TypeInv', NEW c \in Cores, OthersUnchanged(c),
         Dispatch(c), UNCHANGED <<value, now, alarms>>
  PROVE  KernelInvariant'
<1>1. TypeOK /\ CoreShape(c) /\ StateShape(c) /\ None \notin Threads /\ None \notin Spins
  BY ThreadAssumption DEF KernelInvariant, TypeInv, Locks
<1>2. pc[c] = "dispatch" /\ UNCHANGED <<locked, fifo>>
  BY DEF Dispatch
<1>3. /\ cpu[c] \in Threads /\ node[c] \in Threads /\ node[c] # cpu[c]
      /\ state[node[c]] = "READY"
  BY <1>1, <1>2 DEF TypeOK, CoreShape, StateShape, BootLocations, HandLocations
<1>4. /\ s_previous' = [s_previous EXCEPT ![c] = cpu[c]]
      /\ s_spin' = [s_spin EXCEPT ![c] = lock[c]]
      /\ state' = [state EXCEPT ![node[c]] = "RUNNING"]
      /\ context' = [context EXCEPT ![cpu[c]] = "kernel", ![node[c]] = "live"]
      /\ cpu' = [cpu EXCEPT ![c] = node[c]]
      /\ node' = [node EXCEPT ![c] = None]
      /\ lock' = [lock EXCEPT ![c] = None]
      /\ pc' = [pc EXCEPT ![c] = "epilogue"]
  BY <1>3 DEF Dispatch, Goto
<1>5. /\ pc'[c] = "epilogue" /\ cpu'[c] = node[c] /\ node'[c] = None
      /\ s_previous'[c] = cpu[c] /\ s_spin'[c] = lock[c] /\ lock'[c] = None
  BY <1>1, <1>4 DEF TypeOK
<1>6. \A t \in Threads : state'[t] = IF t = node[c] THEN "RUNNING" ELSE state[t]
  BY <1>1, <1>4 DEF TypeOK
<1>7. \A t \in Threads :
        context'[t] = IF t = node[c] THEN "live"
                      ELSE IF t = cpu[c] THEN "kernel" ELSE context[t]
  BY <1>1, <1>4 DEF TypeOK
<1>8. StateShape(c)'
  BY <1>1, <1>2, <1>3, <1>5, <1>6 DEF StateShape, SleepLocations
<1>9. \A s \in Spins : HoldsLock(c, s)' <=> HoldsLock(c, s)
  BY <1>1, <1>2, <1>5 DEF HoldsLock
<1> QED
  BY <1>2, <1>3, <1>5, <1>6, <1>7, <1>8, <1>9, SwitchStep

-----------------------------------------------------------------------------
(* A core puts a thread it holds into the run queue.                        *)

\* FIFO::insert makes its list longer by one, and no other.
LEMMA InsertLength ==
  ASSUME TypeOK, NEW l \in Lists, NEW t \in Threads, Insert(l, t)
  PROVE  /\ Len(fifo'[l]) = Len(fifo[l]) + 1
         /\ \A m \in Lists \ {l} : fifo'[m] = fifo[m]
BY DEF TypeOK, Insert

\* A thread that c alone holds may be put in its run queue.
LEMMA ReadyInsertStep ==
  ASSUME KernelInvariant, TypeInv', NEW c \in Cores, OthersUnchanged(c),
         NEW t \in Threads, Holds(c, t), state[t] = "READY", ~Holds(c, t)',
         Insert(ReadyList(t), t), pc[c] \notin OwedLocations, pc'[c] \notin OwedLocations,
         UNCHANGED <<cpu, state, context, alarms, value, locked>>,
         StateShape(c)',
         \A u \in Threads : Holds(c, u)' => Holds(c, u),
         \A s \in Spins : HoldsLock(c, s)' <=> HoldsLock(c, s),
         pc'[c] = "alarm" =>
           state[cpu[c]] # "WAITING" /\ \A u \in Threads : Holds(c, u)' => u = cpu[c]
  PROVE  KernelInvariant'
<1>1. /\ TypeOK /\ HeldByOneCore /\ LockedByOneCore /\ NodeLinkedOnce /\ ReadyInQueue
      /\ WaitingInSemaphore /\ WaitingInAlarm /\ AlarmedOnce /\ AlarmedSleeps
      /\ ContextShape
  BY DEF KernelInvariant, TypeInv
<1>2. ReadyList(t) \in Lists /\ ReadyList(t) \in NormalLists \cup IdleLists
  BY ListsExist, KindsOfLists
<1>3. \A m \in Lists : ~InList(t, m)
  BY HeldIsUnlinked
<1>4. /\ NodeLinkedOnce'
      /\ \A m \in Lists, u \in Threads :
           InList(u, m)' <=> InList(u, m) \/ (m = ReadyList(t) /\ u = t)
  BY <1>1, <1>2, <1>3, InsertLinks DEF TypeOK
<1>5. \A u, d : Alarmed(d, u)' <=> Alarmed(d, u)
  BY DEF Alarmed
<1>6. \A l \in NormalLists \cup IdleLists : \A u \in Threads : InList(u, l)' =>
        /\ state'[u] = "READY" /\ l = ReadyList(u) /\ ~Holds(c, u)'
        /\ InList(u, l) \/ Holds(c, u)
  BY <1>1, <1>4 DEF ReadyInQueue, Lists
<1>7. \A s \in Spins : \A u \in Threads : InList(u, WaitList(s))' =>
        /\ state'[u] = "WAITING" /\ (Holds(c, u)' => HoldsLock(c, s)')
        /\ InList(u, WaitList(s)) \/ Holds(c, u)
  BY <1>1, <1>2, <1>4, KindsOfLists DEF WaitingInSemaphore
<1>8. WaitingInAlarm' /\ SleepsOnce(alarms[c])'
  BY <1>1, <1>2, <1>4, KindsOfLists DEF WaitingInAlarm, AlarmedOnce
<1>9. \A u \in Normal : Alarmed(c, u)' =>
        /\ InList(u, AlarmList(u))' /\ (Holds(c, u)' => pc'[c] # "alarm")
        /\ Alarmed(c, u) \/ (Holds(c, u) /\ state[u] # "WAITING")
  BY <1>1, <1>4, <1>5, KindsOfLists DEF AlarmedSleeps, WaitingInAlarm, Threads
<1>10. \A u \in Normal : \A d \in Cores \ {c} : Alarmed(d, u) =>
         InList(u, AlarmList(u))' /\ ~Holds(c, u)'
  BY <1>1, <1>4, KindsOfLists DEF AlarmedSleeps, Threads
<1>11. WaitersCounted'
  BY <1>1, <1>2, KindsOfLists, InsertLength, WaitersFrame
<1>12. \A s \in Spins : HoldsLock(c, s)' => locked'[s] /\ (HoldsLock(c, s) \/ ~locked[s])
  BY <1>1 DEF LockedByOneCore
<1>13. \A u \in Threads : context'[u] = "none" => state'[u] = "NONE"
  BY <1>1 DEF ContextShape
<1>14. \A u \in Threads : context'[u] = "live" =>
         cpu'[c] = u \/ (context[u] = "live" /\ cpu[c] # u)
  OBVIOUS
<1> QED
  BY <1>4, <1>6, <1>7, <1>8, <1>9, <1>10, <1>11, <1>12, <1>13, <1>14, StepOfCore

\* Thread::Thread and Thread::wakeup insert the node they have in hand.
LEMMA HandInsertStep ==
  ASSUME KernelInvariant, TypeInv', NEW c \in Cores, OthersUnchanged(c),
         \/ pc[c] = "create" /\ pc'[c] = "user"
         \/ pc[c] = "v_wakeup" /\ pc'[c] = "v_release"
         \/ pc[c] = "alarm_wakeup" /\ pc'[c] = "alarm",
         Insert(ReadyList(node[c]), node[c]), node'[c] = None,
         UNCHANGED <<cpu, lock, s_previous, s_spin, state, context, alarms, value, locked>>
  PROVE  KernelInvariant'
<1>1. TypeOK /\ CoreShape(c) /\ StateShape(c) /\ None \notin Threads
  BY ThreadAssumption DEF KernelInvariant, TypeInv
<1>2. /\ cpu[c] \in Threads /\ node[c] \in Threads /\ cpu[c] # node[c]
      /\ state[node[c]] = "READY" /\ state[cpu[c]] \in {"READY", "RUNNING"}
  BY <1>1
  DEF TypeOK, CoreShape, StateShape, BootLocations, HandLocations, SleepLocations
<1>3. \A t \in Threads : Holds(c, t)' => t = cpu[c]
  BY <1>1 DEF Holds
<1>4. Holds(c, node[c]) /\ Holds(c, cpu[c])
  BY DEF Holds
<1>5. StateShape(c)'
  BY <1>1, <1>2 DEF StateShape, SleepLocations
<1>6. \A s \in Spins : HoldsLock(c, s)' <=> HoldsLock(c, s)
  BY DEF HoldsLock, SleepLocations
<1> QED
  BY <1>2, <1>3, <1>4, <1>5, <1>6, ReadyInsertStep DEF OwedLocations

\* Thread::epilogue keeps the invariant.
LEMMA EpilogueStep ==
  ASSUME KernelInvariant, TypeInv', NEW c \in Cores, OthersUnchanged(c),
         Epilogue(c), UNCHANGED <<value, now, alarms>>
  PROVE  KernelInvariant'
<1> DEFINE p == s_previous[c]
<1>1. TypeOK /\ CoreShape(c) /\ StateShape(c) /\ None \notin Threads /\ None \notin Spins
  BY ThreadAssumption DEF KernelInvariant, TypeInv, Locks
<1>2. /\ pc[c] = "epilogue"
      /\ UNCHANGED <<cpu, node, lock, heads, s_previous, s_spin, state, context>>
  BY DEF Epilogue
<1>3. /\ cpu[c] \in Threads /\ p \in Threads /\ p # cpu[c] /\ node[c] = None
      /\ lock[c] = None /\ state[cpu[c]] \in {"READY", "RUNNING"}
      /\ state[p] \in IF s_spin[c] # None THEN {"WAITING"} ELSE {"READY", "FINISHING"}
  BY <1>1, <1>2
  DEF TypeOK, CoreShape, StateShape, BootLocations, HandLocations, SleepLocations,
      LockLocations
<1>4. Holds(c, p) /\ Holds(c, cpu[c])
  BY <1>2 DEF Holds
<1>5. Resume(cpu[c]) \in {"user", "alarm"}
  BY DEF Resume
<1>6. \A l : Goto(c, l) => pc'[c] = l
  BY <1>1 DEF Goto, TypeOK
<1>7. ASSUME pc'[c] = Resume(cpu[c])
      PROVE  /\ StateShape(c)'
             /\ \A t \in Threads : Holds(c, t)' => t = cpu[c]
             /\ \A s \in Spins : ~HoldsLock(c, s)'
  <2>1. pc'[c] \in {"user", "alarm"}
    BY <1>5, <1>7
  <2> QED
    BY <1>1, <1>2, <1>3, <2>1 DEF StateShape, SleepLocations, Holds, HoldsLock
<1>8. CASE state[p] = "READY" /\ Insert(ReadyList(p), p) /\ Goto(c, Resume(cpu[c]))
           /\ UNCHANGED <<locked, s_count>>
  <2>1. pc'[c] = Resume(cpu[c])
    BY <1>6, <1>8
  <2>2. \A s \in Spins : ~HoldsLock(c, s)
    BY <1>1, <1>2, <1>3, <1>8 DEF HoldsLock, SleepLocations
  <2> QED
    BY <1>2, <1>3, <1>4, <1>5, <1>7, <1>8, <2>1, <2>2, ReadyInsertStep
    DEF OwedLocations
<1>9. CASE /\ state[p] = "WAITING" /\ locked' = [locked EXCEPT ![s_spin[c]] = FALSE]
           /\ Goto(c, Resume(cpu[c])) /\ UNCHANGED <<fifo, s_count>>
  <2>1. pc'[c] = Resume(cpu[c]) /\ pc'[c] \notin {"epilogue", "finish"}
    BY <1>5, <1>6, <1>9
  <2>2. \A s \in Spins : locked'[s] = locked[s] \/ HoldsLock(c, s)
    BY <1>1, <1>2, <1>9 DEF TypeOK, Locks, HoldsLock
  <2>3. \A l \in Lists : ~InList(cpu[c], l)
    BY <1>3, <1>4, HeldIsUnlinked
  <2>4. \A s \in Spins, t \in Threads : InList(t, WaitList(s)) => ~Holds(c, t)'
    BY <1>7, <2>1, <2>3, ListsExist
  <2>5. \A t \in Normal : Alarmed(c, t) => ~Holds(c, t)'
    BY <1>7, <2>1, <2>3, ListsExist DEF KernelInvariant, AlarmedSleeps, Threads
  <2>6. WaitersCounted'
    BY <1>2, <1>5, <1>9, <2>1, WaitersFrame DEF OwedLocations
  <2> QED
    BY <1>2, <1>7, <1>9, <2>1, <2>2, <2>4, <2>5, <2>6, QuietStep
<1>10. CASE state[p] = "FINISHING" /\ Goto(c, "finish") /\ UNCHANGED <<fifo, locked>>
  <2>1. pc'[c] = "finish"
    BY <1>6, <1>10
  <2>2. StateShape(c)'
    BY <1>1, <1>2, <1>3, <1>10, <2>1 DEF StateShape, SleepLocations
  <2>3. \A s \in Spins : ~HoldsLock(c, s)'
    BY <2>1 DEF HoldsLock, SleepLocations
  <2>4. \A t \in Threads : Holds(c, t)' => t = cpu[c] \/ t = p
    BY <1>1, <1>2, <1>3 DEF Holds
  <2>5. \A l \in Lists : ~InList(cpu[c], l) /\ ~InList(p, l)
    BY <1>3, <1>4, <1>10, HeldIsUnlinked
  <2>6. \A s \in Spins, t \in Threads : InList(t, WaitList(s)) => ~Holds(c, t)'
    BY <2>4, <2>5, ListsExist
  <2>7. WaitersCounted'
    BY <1>2, <1>10, <2>1, WaitersFrame DEF OwedLocations
  <2> QED
    BY <1>2, <1>10, <2>1, <2>2, <2>3, <2>6, <2>7, QuietStep
<1> QED
  BY <1>3, <1>8, <1>9, <1>10 DEF Epilogue

\* The store of FINISHED keeps the invariant: nothing else holds the thread.
LEMMA FinishStep ==
  ASSUME KernelInvariant, TypeInv', NEW c \in Cores, OthersUnchanged(c),
         Finish(c), UNCHANGED <<value, now, alarms>>
  PROVE  KernelInvariant'
<1> DEFINE p == s_previous[c]
<1>1. /\ TypeOK /\ CoreShape(c) /\ StateShape(c) /\ None \notin Threads
      /\ HeldByOneCore /\ LockedByOneCore /\ NodeLinkedOnce /\ ReadyInQueue
      /\ WaitingInSemaphore /\ WaitingInAlarm /\ AlarmedOnce /\ AlarmedSleeps
      /\ ContextShape
  BY ThreadAssumption DEF KernelInvariant, TypeInv
<1>2. /\ pc[c] = "finish" /\ state' = [state EXCEPT ![p] = "FINISHED"]
      /\ UNCHANGED <<cpu, node, lock, heads, s_previous, s_spin, context, locked, fifo>>
  BY DEF Finish
<1>3. /\ cpu[c] \in Threads /\ p \in Threads /\ p # cpu[c] /\ node[c] = None
      /\ state[cpu[c]] \in {"READY", "RUNNING"} /\ state[p] = "FINISHING"
  BY <1>1, <1>2
  DEF TypeOK, CoreShape, StateShape, BootLocations, HandLocations, SleepLocations
<1>4. pc'[c] \in {"user", "alarm"}
  BY <1>1 DEF Finish, Goto, Resume, TypeOK
<1>5. \A t \in Threads : state'[t] = IF t = p THEN "FINISHED" ELSE state[t]
  BY <1>1, <1>2 DEF TypeOK
<1>6. Holds(c, p) /\ Holds(c, cpu[c])
  BY <1>2 DEF Holds
<1>7. \A l \in Lists : ~InList(p, l) /\ ~InList(cpu[c], l)
  BY <1>3, <1>6, HeldIsUnlinked
<1>8. \A t \in Threads : Holds(c, t)' => t = cpu[c]
  BY <1>1, <1>2, <1>3, <1>4 DEF Holds
<1>9. \A t, l : InList(t, l)' <=> InList(t, l)
  BY <1>2 DEF InList
<1>10. \A t, d : Alarmed(d, t)' <=> Alarmed(d, t)
  BY DEF Alarmed
<1>11. StateShape(c)'
  BY <1>1, <1>2, <1>3, <1>4, <1>5 DEF StateShape, SleepLocations
<1>12. \A s \in Spins : ~HoldsLock(c, s)'
  BY <1>4 DEF HoldsLock, SleepLocations
<1>13. \A t \in Threads : state'[t] = state[t] \/ \A d \in Cores \ {c} : ~Holds(d, t)
  BY <1>1, <1>3, <1>5, <1>6 DEF HeldByOneCore
<1>14. \A l \in NormalLists \cup IdleLists : \A t \in Threads : InList(t, l)' =>
         /\ state'[t] = "READY" /\ l = ReadyList(t) /\ ~Holds(c, t)'
         /\ InList(t, l) \/ Holds(c, t)
  BY <1>1, <1>5, <1>7, <1>8, <1>9 DEF ReadyInQueue, Lists
<1>15. \A s \in Spins : \A t \in Threads : InList(t, WaitList(s))' =>
         /\ state'[t] = "WAITING" /\ (Holds(c, t)' => HoldsLock(c, s)')
         /\ InList(t, WaitList(s)) \/ Holds(c, t)
  BY <1>1, <1>5, <1>7, <1>8, <1>9, ListsExist DEF WaitingInSemaphore
<1>16. WaitingInAlarm' /\ NodeLinkedOnce' /\ SleepsOnce(alarms[c])'
  BY <1>1, <1>2, <1>5, <1>7, <1>9, ListsExist
  DEF WaitingInAlarm, Threads, NodeLinkedOnce, AlarmedOnce
<1>17. \A t \in Normal : \A d \in Cores : Alarmed(d, t) =>
         InList(t, AlarmList(t))' /\ ~Holds(c, t)'
  BY <1>1, <1>7, <1>8, <1>9, ListsExist DEF AlarmedSleeps, Threads
<1>18. WaitersCounted'
  BY <1>2, <1>4, WaitersFrame DEF OwedLocations
<1>19. \A t \in Threads : context'[t] = "none" => state'[t] = "NONE"
  BY <1>1, <1>2, <1>3, <1>5 DEF ContextShape
<1> QED
  BY <1>2, <1>6, <1>8, <1>10, <1>11, <1>12, <1>13, <1>14, <1>15, <1>16, <1>17,
     <1>18, <1>19, StepOfCore

-----------------------------------------------------------------------------
(* Threads come into existence and are destroyed.                           *)

\* A thread that is finished or does not exist is in no list and on no core.
LEMMA GoneIsUnreachable ==
  ASSUME KernelInvariant
  PROVE  FinishedIsUnreachable
<1> SUFFICES ASSUME NEW t \in Threads, state[t] \in {"NONE", "FINISHED"}
             PROVE  /\ \A l \in Lists : ~InList(t, l)
                    /\ \A c \in Cores :
                         /\ cpu[c] # t /\ node[c] # t
                         /\ pc[c] \in {"epilogue", "finish"} => s_previous[c] # t
  BY DEF FinishedIsUnreachable
<1>1. \A l \in Lists : ~InList(t, l)
  BY DEF KernelInvariant, ReadyInQueue, WaitingInSemaphore, WaitingInAlarm, Lists,
         WaitLists, WaitList, AlarmLists, AlarmList
<1>2. ASSUME NEW c \in Cores
      PROVE  /\ cpu[c] # t /\ node[c] # t
             /\ pc[c] \in {"epilogue", "finish"} => s_previous[c] # t
  <2>1. StateShape(c) /\ None \notin Threads
    BY ThreadAssumption DEF KernelInvariant
  <2> QED
    BY <2>1 DEF StateShape
<1> QED
  BY <1>1, <1>2

\* A step that changes the state of a thread that nothing refers to, in the
\* program's code.
LEMMA GoneStep ==
  ASSUME KernelInvariant, TypeInv', NEW c \in Cores, OthersUnchanged(c),
         NEW t \in Normal, state[t] \in {"NONE", "FINISHED"}, pc[c] = "user",
         \A u \in Threads \ {t} : state'[u] = state[u] /\ context'[u] = context[u],
         \/ state'[t] = "NONE" /\ context'[t] = "none" /\ node'[c] = None /\ pc'[c] = "user"
         \/ /\ state'[t] = "READY" /\ context'[t] = "entry"
            /\ node'[c] = t /\ pc'[c] = "create",
         UNCHANGED <<cpu, lock, s_previous, s_spin, locked, fifo, value, alarms>>
  PROVE  KernelInvariant'
<1>1. /\ TypeOK /\ StateShape(c) /\ None \notin Threads /\ t \in Threads
      /\ HeldByOneCore /\ LockedByOneCore /\ NodeLinkedOnce /\ ReadyInQueue
      /\ WaitingInSemaphore /\ WaitingInAlarm /\ AlarmedOnce /\ AlarmedSleeps
      /\ ContextShape
  BY ThreadAssumption DEF KernelInvariant, TypeInv, Threads
<1>2. /\ cpu[c] \in Threads /\ state[cpu[c]] \in {"READY", "RUNNING"}
      /\ \A l \in Lists : ~InList(cpu[c], l)
      /\ \A s \in Spins : ~HoldsLock(c, s)
  BY PlainFacts DEF PlainLocations
<1>2a. lock[c] = None /\ None \notin Spins
  BY ThreadAssumption
  DEF KernelInvariant, TypeInv, CoreShape, LockLocations, SleepLocations, Locks
<1>3. (\A l \in Lists : ~InList(t, l)) /\ (\A d \in Cores : ~Holds(d, t)) /\ t # cpu[c]
  BY <1>1, GoneIsUnreachable DEF FinishedIsUnreachable, Holds
<1>4. \A u \in Threads : Holds(c, u)' => u = cpu[c] \/ u = t
  BY <1>1 DEF Holds
<1>5. Holds(c, cpu[c])
  BY DEF Holds
<1>6. \A u, l : InList(u, l)' <=> InList(u, l)
  BY DEF InList
<1>7. \A u, d : Alarmed(d, u)' <=> Alarmed(d, u)
  BY DEF Alarmed
<1>8. StateShape(c)'
  BY <1>1, <1>2, <1>2a, <1>3 DEF StateShape, SleepLocations
<1>9. \A s \in Spins : ~HoldsLock(c, s)'
  BY <1>2a DEF HoldsLock, SleepLocations
<1>10. \A u \in Threads : state'[u] = state[u] \/ \A d \in Cores \ {c} : ~Holds(d, u)
  BY <1>3
<1>11. \A l \in NormalLists \cup IdleLists : \A u \in Threads : InList(u, l)' =>
         /\ state'[u] = "READY" /\ l = ReadyList(u) /\ ~Holds(c, u)'
         /\ InList(u, l) \/ Holds(c, u)
  BY <1>1, <1>2, <1>3, <1>4, <1>6 DEF ReadyInQueue, Lists
<1>12. \A s \in Spins : \A u \in Threads : InList(u, WaitList(s))' =>
         /\ state'[u] = "WAITING" /\ (Holds(c, u)' => HoldsLock(c, s)')
         /\ InList(u, WaitList(s)) \/ Holds(c, u)
  BY <1>1, <1>2, <1>3, <1>4, <1>6, ListsExist DEF WaitingInSemaphore
<1>13. WaitingInAlarm' /\ NodeLinkedOnce' /\ SleepsOnce(alarms[c])'
  BY <1>1, <1>3, <1>6, ListsExist
  DEF WaitingInAlarm, Threads, NodeLinkedOnce, AlarmedOnce
<1>14. \A u \in Normal : \A d \in Cores : Alarmed(d, u) =>
         InList(u, AlarmList(u))' /\ ~Holds(c, u)'
  BY <1>1, <1>2, <1>3, <1>4, <1>6, ListsExist DEF AlarmedSleeps, Threads
<1>15. WaitersCounted'
  BY WaitersFrame DEF OwedLocations
<1>16. \A u \in Threads : context'[u] = "none" => state'[u] = "NONE"
  BY <1>1 DEF ContextShape
<1>17. \A u \in Threads : context'[u] = "live" =>
         cpu'[c] = u \/ (context[u] = "live" /\ cpu[c] # u)
  BY <1>1
<1> QED
  BY <1>3, <1>4, <1>5, <1>7, <1>8, <1>9, <1>10, <1>11, <1>12, <1>13, <1>14, <1>15,
     <1>16, <1>17, StepOfCore

\* Thread::Thread keeps the invariant.
LEMMA CreateStep ==
  ASSUME KernelInvariant, TypeInv', NEW c \in Cores, OthersUnchanged(c),
         NEW t \in Normal, Create(c, t), UNCHANGED <<value, now, alarms>>
  PROVE  KernelInvariant'
<1>1. TypeOK /\ t \in Threads
  BY DEF KernelInvariant, TypeInv, Threads
<1>2. /\ pc[c] = "user" /\ state[t] = "NONE"
      /\ UNCHANGED <<cpu, lock, s_previous, s_spin, locked, fifo>>
  BY DEF Create, InProgram
<1>3. pc'[c] = "create" /\ node'[c] = t
  BY <1>1 DEF Create, Goto, TypeOK
<1>4. \A u \in Threads : /\ state'[u] = IF u = t THEN "READY" ELSE state[u]
                        /\ context'[u] = IF u = t THEN "entry" ELSE context[u]
  BY <1>1 DEF Create, TypeOK
<1> QED
  BY <1>1, <1>2, <1>3, <1>4, GoneStep

\* The return from join(), with or without the destruction, keeps the invariant.
LEMMA JoinReturnStep ==
  ASSUME KernelInvariant, TypeInv', NEW c \in Cores, OthersUnchanged(c),
         JoinReturn(c), UNCHANGED <<value, now, alarms>>
  PROVE  KernelInvariant'
<1> DEFINE t == joining[heads[c]]
<1>1. TypeOK /\ CoreShape(c)
  BY DEF KernelInvariant, TypeInv
<1>2. /\ pc[c] = "user" /\ heads[c] \in Normal /\ t \in Normal /\ state[t] = "FINISHED"
      /\ UNCHANGED <<pc, cpu, node, lock, s_previous, s_spin, locked, fifo>>
  BY <1>1 DEF JoinReturn, InJoin, TypeOK, Threads
<1>3. node[c] = None
  BY <1>1, <1>2 DEF CoreShape, HandLocations
<1>4. CASE UNCHANGED <<state, context>>
  BY <1>2, <1>4, PlainStep DEF PlainLocations
<1>5. CASE /\ state' = [state EXCEPT ![t] = "NONE"]
           /\ context' = [context EXCEPT ![t] = "none"]
  <2>1. \A u \in Threads : /\ state'[u] = IF u = t THEN "NONE" ELSE state[u]
                          /\ context'[u] = IF u = t THEN "none" ELSE context[u]
    BY <1>1, <1>5 DEF TypeOK
  <2>2. t \in Threads
    BY <1>2 DEF Threads
  <2> QED
    BY <1>2, <1>3, <2>1, <2>2, GoneStep
<1> QED
  BY <1>4, <1>5 DEF JoinReturn

-----------------------------------------------------------------------------
(* Thread::sleep and Thread::wakeup.                                        *)

\* The running thread enters a list and keeps its core until the epilogue.
LEMMA SleepStep ==
  ASSUME KernelInvariant, TypeInv', NEW c \in Cores, OthersUnchanged(c),
         pc[c] \in {"p_sleep", "user"}, cpu[c] \in Normal,
         NEW l \in Lists, Sleep(c, l),
         UNCHANGED <<cpu, node, s_previous, s_spin, context, locked>>,
         \/ \E s \in Spins : l = WaitList(s) /\ lock[c] = s
         \/ l = AlarmList(cpu[c]),
         \A s \in Spins : HoldsLock(c, s)' <=> HoldsLock(c, s),
         \A s \in Spins : lock[c] = s => HoldsLock(c, s),
         lock'[c] # None,
         WaitersCounted',
         \A d \in Cores \ {c} : alarms'[d] = alarms[d],
         SleepsOnce(alarms[c])',
         \A t \in Normal : Alarmed(c, t)' =>
           Alarmed(c, t) \/ (t = cpu[c] /\ l = AlarmList(cpu[c]))
  PROVE  KernelInvariant'
<1> DEFINE p == cpu[c]
<1>1. /\ TypeOK /\ CoreShape(c) /\ StateShape(c) /\ None \notin Threads /\ p \in Threads
      /\ HeldByOneCore /\ LockedByOneCore /\ NodeLinkedOnce /\ ReadyInQueue
      /\ WaitingInSemaphore /\ WaitingInAlarm /\ AlarmedOnce /\ AlarmedSleeps
      /\ ContextShape
  BY ThreadAssumption DEF KernelInvariant, TypeInv, Threads
<1>2. heads[c] = p /\ node[c] = None /\ state[p] \in {"READY", "RUNNING"}
  BY <1>1 DEF CoreShape, StateShape, HandLocations, SleepLocations
<1>3. pc'[c] = "sleep"
  BY <1>1 DEF Sleep, Goto, TypeOK
<1>4. \A t \in Threads : state'[t] = IF t = p THEN "WAITING" ELSE state[t]
  BY <1>1, <1>2 DEF Sleep, TypeOK
<1>5. Holds(c, p) /\ \A t \in Threads : Holds(c, t)' => t = p
  BY <1>1, <1>2, <1>3 DEF Holds
<1>6. \A m \in Lists : ~InList(p, m)
  BY <1>1, <1>2, <1>5, HeldIsUnlinked
<1>7. /\ NodeLinkedOnce'
      /\ \A m \in Lists, u \in Threads : InList(u, m)' <=> InList(u, m) \/ (m = l /\ u = p)
  BY <1>1, <1>2, <1>6, InsertLinks DEF Sleep, TypeOK
<1>8. StateShape(c)'
  BY <1>1, <1>2, <1>3, <1>4 DEF StateShape, SleepLocations
<1>9. \A t \in Threads : state'[t] = state[t] \/ \A d \in Cores \ {c} : ~Holds(d, t)
  BY <1>1, <1>4, <1>5 DEF HeldByOneCore
<1>10. \A m \in NormalLists \cup IdleLists : \A t \in Threads : InList(t, m)' =>
         /\ state'[t] = "READY" /\ m = ReadyList(t) /\ ~Holds(c, t)'
         /\ InList(t, m) \/ Holds(c, t)
  BY <1>1, <1>4, <1>5, <1>6, <1>7, KindsOfLists DEF ReadyInQueue, Lists
<1>11. \A s \in Spins : \A t \in Threads : InList(t, WaitList(s))' =>
         /\ state'[t] = "WAITING" /\ (Holds(c, t)' => HoldsLock(c, s)')
         /\ InList(t, WaitList(s)) \/ Holds(c, t)
  BY <1>1, <1>4, <1>5, <1>6, <1>7, KindsOfLists DEF WaitingInSemaphore
<1>12. WaitingInAlarm'
  BY <1>1, <1>4, <1>6, <1>7, KindsOfLists DEF WaitingInAlarm, Threads
<1>13. \A t \in Normal : Alarmed(c, t)' =>
         /\ InList(t, AlarmList(t))' /\ (Holds(c, t)' => pc'[c] # "alarm")
         /\ Alarmed(c, t) \/ (Holds(c, t) /\ state[t] # "WAITING")
  BY <1>1, <1>2, <1>3, <1>5, <1>7, KindsOfLists DEF AlarmedSleeps, Threads
<1>14. \A t \in Normal : \A d \in Cores \ {c} : Alarmed(d, t) =>
         InList(t, AlarmList(t))' /\ ~Holds(c, t)'
  BY <1>1, <1>5, <1>6, <1>7, KindsOfLists DEF AlarmedSleeps, Threads
<1>15. \A t \in Threads : context'[t] = "none" => state'[t] = "NONE"
  BY <1>1, <1>2, <1>4 DEF ContextShape
<1>16. \A t \in Threads : context'[t] = "live" =>
         cpu'[c] = t \/ (context[t] = "live" /\ cpu[c] # t)
  OBVIOUS
<1>17. \A s \in Spins : HoldsLock(c, s)' => locked'[s] /\ (HoldsLock(c, s) \/ ~locked[s])
  BY <1>1 DEF LockedByOneCore
<1> QED
  BY <1>5, <1>7, <1>8, <1>9, <1>10, <1>11, <1>12, <1>13, <1>14, <1>15, <1>16, <1>17,
     StepOfCore

\* A waker has the first waiter in hand: it is in no list and on no core.
LEMMA WakeupStep ==
  ASSUME KernelInvariant, TypeInv', NEW c \in Cores, OthersUnchanged(c),
         \/ pc[c] = "v_wake" /\ pc'[c] = "v_wakeup"
         \/ pc[c] = "alarm" /\ pc'[c] = "alarm_wakeup",
         NEW l \in Lists, Remove(l), NEW n \in Threads, n = Head(fifo[l]),
         node'[c] = n, state[n] = "WAITING", \A d \in Cores : ~Holds(d, n),
         \A t \in Threads : state'[t] = IF t = n THEN "READY" ELSE state[t],
         UNCHANGED <<cpu, lock, s_previous, s_spin, context, locked>>,
         WaitersCounted',
         \A d \in Cores \ {c} : alarms'[d] = alarms[d],
         SleepsOnce(alarms[c])',
         \A t \in Normal : Alarmed(c, t)' => Alarmed(c, t),
         \A d \in Cores : ~Alarmed(d, n)'
  PROVE  KernelInvariant'
<1>1. /\ TypeOK /\ CoreShape(c) /\ StateShape(c) /\ None \notin Threads
      /\ HeldByOneCore /\ LockedByOneCore /\ NodeLinkedOnce /\ ReadyInQueue
      /\ WaitingInSemaphore /\ WaitingInAlarm /\ AlarmedOnce /\ AlarmedSleeps
      /\ ContextShape
  BY ThreadAssumption DEF KernelInvariant, TypeInv
<1>2. /\ NodeLinkedOnce' /\ InList(n, l)
      /\ \A m \in Lists, u \in Threads : InList(u, m)' <=> InList(u, m) /\ ~(m = l /\ u = n)
  BY <1>1, RemoveUnlinks DEF TypeOK
<1>3. \A m \in Lists, u \in Threads : InList(u, m)' <=> InList(u, m) /\ u # n
  BY <1>1, <1>2, OneList
<1>4. /\ cpu[c] \in Threads /\ state[cpu[c]] \in {"READY", "RUNNING"} /\ cpu[c] # n
      /\ node[c] = None
  BY <1>1
  DEF TypeOK, CoreShape, StateShape, SleepLocations, BootLocations, HandLocations
<1>5. Holds(c, cpu[c]) /\ \A t \in Threads : Holds(c, t)' => t = cpu[c] \/ t = n
  BY <1>1, <1>4 DEF Holds
<1>6. \A m \in Lists : ~InList(cpu[c], m)
  BY <1>4, <1>5, HeldIsUnlinked
<1>7. StateShape(c)'
  BY <1>1, <1>4 DEF StateShape, SleepLocations
<1>8. \A s \in Spins : HoldsLock(c, s)' => HoldsLock(c, s)
  BY DEF HoldsLock, SleepLocations
<1>9. \A m \in NormalLists \cup IdleLists : \A t \in Threads : InList(t, m)' =>
        /\ state'[t] = "READY" /\ m = ReadyList(t) /\ ~Holds(c, t)'
        /\ InList(t, m) \/ Holds(c, t)
  BY <1>1, <1>3, <1>5, <1>6 DEF ReadyInQueue, Lists
<1>10. \A s \in Spins : \A t \in Threads : InList(t, WaitList(s))' =>
         /\ state'[t] = "WAITING" /\ (Holds(c, t)' => HoldsLock(c, s)')
         /\ InList(t, WaitList(s)) \/ Holds(c, t)
  BY <1>1, <1>3, <1>5, <1>6, ListsExist DEF WaitingInSemaphore
<1>11. WaitingInAlarm'
  BY <1>1, <1>3, ListsExist DEF WaitingInAlarm, Threads
<1>12. \A t \in Normal : Alarmed(c, t)' =>
         /\ InList(t, AlarmList(t))' /\ (Holds(c, t)' => pc'[c] # "alarm")
         /\ Alarmed(c, t) \/ (Holds(c, t) /\ state[t] # "WAITING")
  BY <1>1, <1>3, ListsExist DEF AlarmedSleeps, Threads
<1>13. \A d \in Cores \ {c} : \A t : Alarmed(d, t)' <=> Alarmed(d, t)
  BY DEF Alarmed
<1>14. \A t \in Normal : \A d \in Cores \ {c} : Alarmed(d, t) =>
         InList(t, AlarmList(t))' /\ ~Holds(c, t)'
  BY <1>1, <1>3, <1>5, <1>6, <1>13, ListsExist DEF AlarmedSleeps, Threads
<1>15. \A t \in Threads : context'[t] = "none" => state'[t] = "NONE"
  BY <1>1 DEF ContextShape
<1>16. \A t \in Threads : context'[t] = "live" =>
         cpu'[c] = t \/ (context[t] = "live" /\ cpu[c] # t)
  OBVIOUS
<1>17. \A t \in Threads : Holds(c, t)' => Holds(c, t) \/ \A d \in Cores : ~Holds(d, t)
  BY <1>5
<1>18. \A s \in Spins : HoldsLock(c, s)' => locked'[s] /\ (HoldsLock(c, s) \/ ~locked[s])
  BY <1>1, <1>8 DEF LockedByOneCore
<1>19. \A t \in Threads : state'[t] = state[t] \/ \A d \in Cores \ {c} : ~Holds(d, t)
  OBVIOUS
<1> QED
  BY <1>2, <1>7, <1>9, <1>10, <1>11, <1>12, <1>14, <1>15, <1>16, <1>17, <1>18, <1>19,
     StepOfCore

\* FIFO::remove makes its list shorter by one, and no other.
LEMMA RemoveLength ==
  ASSUME TypeOK, NEW l \in Lists, Remove(l)
  PROVE  /\ Len(fifo'[l]) = Len(fifo[l]) - 1
         /\ \A m \in Lists \ {l} : fifo'[m] = fifo[m]
BY DEF TypeOK, Remove

-----------------------------------------------------------------------------
(* Semaphore.hpp.                                                           *)

\* Between acquire and release: the caller runs on, and holds the lock.
LEMMA LockFacts ==
  ASSUME KernelInvariant, NEW c \in Cores,
         pc[c] \in {"p_acquire", "p", "p_sleep", "v_acquire", "v", "v_wake", "v_release"}
  PROVE  /\ lock[c] \in Spins /\ cpu[c] \in Threads /\ heads[c] = cpu[c]
         /\ node[c] = None /\ state[cpu[c]] \in {"READY", "RUNNING"}
         /\ \A l \in Lists : ~InList(cpu[c], l)
         /\ pc[c] \notin {"p_acquire", "v_acquire"} => HoldsLock(c, lock[c])
<1>1. TypeOK /\ CoreShape(c) /\ StateShape(c) /\ None \notin Threads
  BY ThreadAssumption DEF KernelInvariant, TypeInv
<1>2. /\ lock[c] \in Spins /\ cpu[c] \in Threads /\ heads[c] = cpu[c]
      /\ node[c] = None /\ state[cpu[c]] \in {"READY", "RUNNING"}
  BY <1>1
  DEF TypeOK, CoreShape, StateShape, SleepLocations, BootLocations, HandLocations,
      LockLocations
<1>3. \A l \in Lists : ~InList(cpu[c], l)
  BY <1>2, HeldIsUnlinked DEF Holds
<1> QED
  BY <1>2, <1>3 DEF HoldsLock

\* Spin::acquire and Spin::release around the body of p() and v(), and the
\* steps of the body that move no thread.
LEMMA LockStep ==
  ASSUME KernelInvariant, TypeInv', NEW c \in Cores, OthersUnchanged(c),
         UNCHANGED <<cpu, node, fifo, state, context, alarms>>, WaitersCounted',
         \/ /\ pc[c] \in {"p_acquire", "v_acquire"} /\ pc'[c] \in {"p", "v"}
            /\ ~locked[lock[c]] /\ locked' = [locked EXCEPT ![lock[c]] = TRUE]
            /\ UNCHANGED lock
         \/ /\ pc[c] \in {"p", "v", "v_release"} /\ pc'[c] = "user"
            /\ locked' = [locked EXCEPT ![lock[c]] = FALSE]
         \/ /\ pc[c] \in {"p", "v"} /\ pc'[c] \in OwedLocations
            /\ UNCHANGED <<lock, locked>>
  PROVE  KernelInvariant'
<1>0. \/ pc'[c] \in {"p", "v"} /\ ~locked[lock[c]] /\ UNCHANGED lock
      \/ pc'[c] = "user"
      \/ pc'[c] \in OwedLocations /\ UNCHANGED <<lock, locked>>
  OBVIOUS
<1>1. /\ lock[c] \in Spins /\ cpu[c] \in Threads
      /\ node[c] = None /\ state[cpu[c]] \in {"READY", "RUNNING"}
      /\ \A l \in Lists : ~InList(cpu[c], l)
      /\ pc[c] \notin {"p_acquire", "v_acquire"} => HoldsLock(c, lock[c])
  BY LockFacts
<1>2. TypeOK /\ StateShape(c) /\ None \notin Threads
  BY ThreadAssumption DEF KernelInvariant, TypeInv
<1>3. StateShape(c)'
  BY <1>0, <1>1, <1>2 DEF StateShape, SleepLocations, OwedLocations
<1>4. \A s \in Spins : s # lock[c] => locked'[s] = locked[s]
  BY <1>2 DEF TypeOK, Locks
<1>5. \A s \in Spins : HoldsLock(c, s)' => locked'[s] /\ (HoldsLock(c, s) \/ ~locked[s])
  <2>1. CASE pc'[c] \in OwedLocations /\ UNCHANGED <<lock, locked>>
    BY <1>1, <2>1 DEF HoldsLock, SleepLocations, OwedLocations, KernelInvariant,
                      LockedByOneCore
  <2>2. CASE pc'[c] = "user"
    BY <2>2 DEF HoldsLock, SleepLocations
  <2>3. CASE pc'[c] \in {"p", "v"}
    BY <1>1, <1>2, <2>3 DEF HoldsLock, SleepLocations, TypeOK, Locks, OwedLocations
  <2> QED
    BY <1>0, <2>1, <2>2, <2>3
<1>6. \A s \in Spins : locked'[s] = locked[s] \/ HoldsLock(c, s) \/ ~locked[s]
  BY <1>1, <1>4
<1>7. \A s \in Spins, t \in Threads : InList(t, WaitList(s)) => ~Holds(c, t)'
  BY <1>0, <1>1, <1>2, ListsExist DEF Holds, OwedLocations
<1>8. pc'[c] \notin {"epilogue", "finish", "alarm"}
  BY <1>0 DEF OwedLocations
<1> QED
  BY <1>3, <1>5, <1>6, <1>7, <1>8, QuietStep

\* Semaphore::p and Semaphore::v change value_: the caller then owns the step
\* that changes waiting_, or leaves.
LEMMA BodyStep ==
  ASSUME KernelInvariant, TypeInv', NEW c \in Cores, OthersUnchanged(c),
         PBody(c) \/ VBody(c), UNCHANGED <<now, alarms>>
  PROVE  KernelInvariant'
<1> DEFINE s == lock[c]
           l == WaitList(s)
<1>1. /\ pc[c] \in {"p", "v"} /\ UNCHANGED <<cpu, node, fifo, state, context>>
      /\ value' = [value EXCEPT ![s] = IF pc[c] = "p" THEN @ - 1 ELSE @ + 1]
  BY DEF PBody, VBody
<1>2. TypeOK
  BY DEF KernelInvariant, TypeInv
<1>3. s \in Spins /\ HoldsLock(c, s)
  BY <1>1, LockFacts
<1>4. /\ value[s] \in Int
      /\ value'[s] = IF pc[c] = "p" THEN value[s] - 1 ELSE value[s] + 1
      /\ \A r \in Spins \ {s} : value'[r] = value[r]
  BY <1>1, <1>2, <1>3 DEF TypeOK
<1>5. Len(fifo[l]) = IF value[s] < 0 THEN -value[s] ELSE 0
  BY <1>1, <1>3, OwnerDecides DEF OwedLocations
<1> HIDE DEF l
<1>6. CASE Release(c)
  <2>1. pc'[c] = "user" /\ locked' = [locked EXCEPT ![s] = FALSE]
    BY <1>2, <1>6 DEF Release, Goto, TypeOK
  <2>2. Len(fifo'[l]) = IF value'[s] < 0 THEN -value'[s] ELSE 0
    BY <1>1, <1>4, <1>5, <1>6, <1>2 DEF PBody, VBody, Release, Goto, TypeOK
  <2>3. WaitersCounted'
    BY <1>1, <1>3, <1>4, <2>1, <2>2, OwnerCounts DEF OwedLocations, l
  <2> QED
    BY <1>1, <2>1, <2>3, LockStep
<1>7. CASE /\ Goto(c, IF pc[c] = "p" THEN "p_sleep" ELSE "v_wake")
           /\ UNCHANGED <<lock, locked>>
           /\ value[s] < IF pc[c] = "p" THEN 1 ELSE 0
  <2>1. pc'[c] = IF pc[c] = "p" THEN "p_sleep" ELSE "v_wake"
    BY <1>2, <1>7 DEF Goto, TypeOK
  <2>2. /\ pc[c] = "p" => Len(fifo'[l]) = -value'[s] - 1
        /\ pc[c] = "v" => Len(fifo'[l]) = -value'[s] + 1 /\ value'[s] <= 0
    BY <1>1, <1>4, <1>5, <1>7
  <2>3. WaitersCounted'
    BY <1>1, <1>3, <1>4, <1>7, <2>1, <2>2, OwnerCounts DEF OwedLocations, l
  <2>4. pc'[c] \in OwedLocations
    BY <2>1 DEF OwedLocations
  <2> QED
    BY <1>1, <1>7, <2>3, <2>4, LockStep
<1> QED
  BY <1>6, <1>7 DEF PBody, VBody

\* Semaphore::p's sleep, under lock_, keeps the invariant.
LEMMA PSleepStep ==
  ASSUME KernelInvariant, TypeInv', NEW c \in Cores, OthersUnchanged(c),
         PSleep(c), UNCHANGED <<now, alarms>>
  PROVE  KernelInvariant'
<1> DEFINE s == lock[c]
           l == WaitList(s)
<1>1. /\ pc[c] = "p_sleep" /\ Sleep(c, l)
      /\ UNCHANGED <<cpu, node, lock, heads, s_previous, s_spin, context, locked, value>>
  BY DEF PSleep
<1>2. TypeOK /\ AlarmedOnce /\ CoreShape(c)
  BY DEF KernelInvariant, TypeInv
<1>3. /\ s \in Spins /\ cpu[c] \in Threads /\ heads[c] = cpu[c] /\ HoldsLock(c, s)
      /\ l \in Lists /\ cpu[c] \in Normal
  BY <1>1, <1>2, LockFacts, ListsExist DEF CoreShape
<1>4. s # None /\ Len(fifo[l]) \in Nat /\ value[s] \in Int
  BY <1>2, <1>3, ThreadAssumption DEF Locks, TypeOK
<1>5. Len(fifo[l]) = -value[s] - 1
  BY <1>1, <1>3, OwnerDecides
<1>6. /\ Len(fifo'[l]) = Len(fifo[l]) + 1
      /\ \A m \in Lists \ {l} : fifo'[m] = fifo[m]
  BY <1>1, <1>2, <1>3, InsertLength DEF Sleep
<1>7. pc'[c] = "sleep"
  BY <1>1, <1>2 DEF Sleep, Goto, TypeOK
<1>8. \A r \in Spins \ {s} : fifo'[WaitList(r)] = fifo[WaitList(r)]
  BY <1>3, <1>6, KindsOfLists
<1>9. Len(fifo'[l]) = IF value'[s] < 0 THEN -value'[s] ELSE 0
  BY <1>1, <1>4, <1>5, <1>6
<1>10. WaitersCounted'
  BY <1>1, <1>3, <1>7, <1>8, <1>9, OwnerCounts DEF OwedLocations
<1>11. \A r \in Spins : HoldsLock(c, r)' <=> HoldsLock(c, r)
  BY <1>1, <1>7 DEF HoldsLock, SleepLocations
<1>12. \A t : Alarmed(c, t)' <=> Alarmed(c, t)
  BY DEF Alarmed
<1>13. SleepsOnce(alarms[c])'
  BY <1>2 DEF AlarmedOnce
<1> QED
  BY <1>1, <1>3, <1>4, <1>10, <1>11, <1>12, <1>13, SleepStep

\* Semaphore::v's wakeup, under lock_, finds a waiter and keeps the invariant.
LEMMA VWakeStep ==
  ASSUME KernelInvariant, TypeInv', NEW c \in Cores, OthersUnchanged(c),
         VWake(c), UNCHANGED <<now, alarms>>
  PROVE  KernelInvariant'
<1> DEFINE s == lock[c]
           l == WaitList(s)
           n == Head(fifo[l])
<1>1. /\ pc[c] = "v_wake" /\ Wakeup(c, l, "v_wakeup")
      /\ UNCHANGED <<cpu, lock, heads, s_previous, s_spin, context, locked, value>>
  BY DEF VWake
<1>2. /\ TypeOK /\ AlarmedOnce /\ AlarmedSleeps /\ NodeLinkedOnce
      /\ WaitingInSemaphore /\ LockedByOneCore
  BY DEF KernelInvariant, TypeInv
<1>3. /\ s \in Spins /\ cpu[c] \in Threads /\ HoldsLock(c, s) /\ node[c] = None
      /\ l \in Lists /\ \A m \in Lists : ~InList(cpu[c], m)
  BY <1>1, LockFacts, ListsExist
<1>4. /\ fifo[l] \in Seq(Threads) /\ value[s] \in Int
      /\ Len(fifo[l]) = -value[s] + 1 /\ value[s] <= 0
  BY <1>1, <1>2, <1>3, OwnerDecides DEF TypeOK
<1>5. fifo[l] # <<>>
  BY <1>4
<1>6. /\ Remove(l) /\ node' = [node EXCEPT ![c] = n]
      /\ state' = [state EXCEPT ![n] = "READY"] /\ Goto(c, "v_wakeup")
  BY <1>1, <1>5 DEF Wakeup
<1>7. n \in Threads /\ InList(n, l)
  BY <1>2, <1>3, <1>6, RemoveUnlinks DEF TypeOK
<1>8. pc'[c] = "v_wakeup" /\ node'[c] = n
  BY <1>2, <1>6 DEF Goto, TypeOK
<1>9. \A t \in Threads : state'[t] = IF t = n THEN "READY" ELSE state[t]
  BY <1>2, <1>6 DEF TypeOK
<1>10. state[n] = "WAITING" /\ \A d \in Cores : Holds(d, n) => d = c
  BY <1>2, <1>3, <1>7 DEF WaitingInSemaphore, LockedByOneCore
<1>11. ~Holds(c, n)
  BY <1>1, <1>3, <1>7, ThreadAssumption DEF Holds
<1>12. \A d \in Cores : ~Alarmed(d, n)
  <2>1. n \in Normal => ~InList(n, AlarmList(n))
    BY <1>2, <1>3, <1>7, KindsOfLists, OneList
  <2>2. n \notin Normal => \A d \in Cores : ~Alarmed(d, n)
    BY <1>2 DEF TypeOK, Alarmed, Sleeps
  <2> QED
    BY <1>2, <2>1, <2>2 DEF AlarmedSleeps
<1>13. \A d, t : Alarmed(d, t)' <=> Alarmed(d, t)
  BY DEF Alarmed
<1>14. /\ Len(fifo'[l]) = Len(fifo[l]) - 1
       /\ \A m \in Lists \ {l} : fifo'[m] = fifo[m]
  BY <1>2, <1>3, <1>6, RemoveLength
<1>15. \A r \in Spins \ {s} : fifo'[WaitList(r)] = fifo[WaitList(r)]
  BY <1>3, <1>14, KindsOfLists
<1>16. Len(fifo'[l]) = IF value'[s] < 0 THEN -value'[s] ELSE 0
  BY <1>1, <1>4, <1>14
<1>17. WaitersCounted'
  BY <1>1, <1>3, <1>8, <1>15, <1>16, OwnerCounts DEF OwedLocations
<1>18. SleepsOnce(alarms[c])'
  BY <1>2 DEF AlarmedOnce
<1> HIDE DEF n
<1> QED
  BY <1>1, <1>3, <1>6, <1>7, <1>8, <1>9, <1>10, <1>11, <1>12, <1>13, <1>17, <1>18,
     WakeupStep DEF n

\* Every step of module Semaphore keeps the invariant.
LEMMA SemaphoreKeeps ==
  ASSUME KernelInvariant, TypeInv', NEW c \in Cores, OthersUnchanged(c),
         SemaphoreStep(c), UNCHANGED <<now, alarms>>
  PROVE  KernelInvariant'
<1>1. TypeOK /\ CoreShape(c)
  BY DEF KernelInvariant, TypeInv
<1>2. ASSUME NEW s \in Spins, P(c, s) \/ V(c, s)
      PROVE  KernelInvariant'
  BY <1>1, <1>2, PlainStep DEF P, V, Goto, TypeOK, InProgram, PlainLocations
<1>3. CASE Acquire(c)
  <2>1. pc[c] \in {"p_acquire", "v_acquire"} /\ pc'[c] \in {"p", "v"}
    BY <1>1, <1>3 DEF Acquire, Goto, TypeOK
  <2>2. WaitersCounted'
    BY <1>3, <2>1, WaitersFrame DEF Acquire, OwedLocations
  <2> QED
    BY <1>3, <2>1, <2>2, LockStep DEF Acquire
<1>4. CASE VWakeup(c)
  BY <1>1, <1>4, HandInsertStep DEF VWakeup, WakeupInsert, Goto, TypeOK
<1>5. CASE VRelease(c)
  <2>1. pc[c] = "v_release" /\ pc'[c] = "user"
    BY <1>1, <1>5 DEF VRelease, Release, Goto, TypeOK
  <2>2. WaitersCounted'
    BY <1>5, <2>1, WaitersFrame DEF VRelease, OwedLocations
  <2> QED
    BY <1>5, <2>1, <2>2, LockStep DEF VRelease, Release
<1> QED
  BY <1>2, <1>3, <1>4, <1>5, BodyStep, PSleepStep, VWakeStep
  DEF SemaphoreStep, SemaphoreKernelStep

-----------------------------------------------------------------------------
(* Alarm.cpp.                                                               *)

\* OrderedList::insert adds one sleeper to the list.
LEMMA AlarmInsert ==
  ASSUME NEW list \in Seq(Normal \X Nat), NEW a \in Normal \X Nat
  PROVE  /\ \A t : Sleeps(OrderedInsert(list, a), t) => Sleeps(list, t) \/ t = a[1]
         /\ SleepsOnce(list) /\ ~Sleeps(list, a[1]) => SleepsOnce(OrderedInsert(list, a))
<1> DEFINE new == OrderedInsert(list, a)
<1>1. Len(list) \in Nat
  OBVIOUS
<1>2. PICK k \in 1..(Len(list) + 1) :
        /\ new[k] = a
        /\ \A i \in 1..(Len(list) + 1) :
             /\ i < k => i \in 1..Len(list) /\ new[i] = list[i]
             /\ i > k => i - 1 \in 1..Len(list) /\ new[i] = list[i - 1]
  BY OrderedInsertLinks
<1>3. Len(new) = Len(list) + 1
  BY OrderedInsertLinks
<1> HIDE DEF new
<1>3a. \A i \in 1..Len(new) : i < k \/ i = k \/ i > k
  BY <1>1, <1>2, <1>3
<1>4. \A t : Sleeps(new, t) => Sleeps(list, t) \/ t = a[1]
  BY <1>2, <1>3, <1>3a DEF Sleeps
<1>5. ASSUME SleepsOnce(list), ~Sleeps(list, a[1])
      PROVE  SleepsOnce(new)
  <2> SUFFICES ASSUME NEW i \in 1..Len(new), NEW j \in 1..Len(new), new[i][1] = new[j][1]
               PROVE  i = j
    BY DEF SleepsOnce
  <2>1. \A x \in 1..Len(list) : list[x][1] # a[1]
    BY <1>5 DEF Sleeps
  <2>2. \/ i < k /\ i \in 1..Len(list) /\ new[i] = list[i]
        \/ i = k /\ new[i] = a
        \/ i > k /\ i - 1 \in 1..Len(list) /\ new[i] = list[i - 1]
    BY <1>2, <1>3, <1>3a
  <2>3. \/ j < k /\ j \in 1..Len(list) /\ new[j] = list[j]
        \/ j = k /\ new[j] = a
        \/ j > k /\ j - 1 \in 1..Len(list) /\ new[j] = list[j - 1]
    BY <1>2, <1>3, <1>3a
  <2>4. i \in Int /\ j \in Int /\ k \in Int
    BY <1>1, <1>2
  <2>5. \A x, y \in 1..Len(list) : list[x][1] = list[y][1] => x = y
    BY <1>5 DEF SleepsOnce
  <2>6. CASE i = k \/ j = k
    BY SMTT(60), <2>1, <2>2, <2>3, <2>6
  <2>7. CASE i < k
    <3>1. CASE j < k
      BY <2>2, <2>3, <2>4, <2>5, <2>7, <3>1
    <3>2. CASE j > k
      <4>0. /\ i \in 1..Len(list) /\ j - 1 \in 1..Len(list)
            /\ list[i][1] = list[j - 1][1]
        BY SMTT(60), <2>2, <2>3, <2>4, <2>7, <3>2
      <4>1. i = j - 1
        BY <2>5, <4>0
      <4> QED
        BY <2>4, <2>7, <3>2, <4>1
    <3> QED
      BY <2>3, <2>6, <3>1, <3>2
  <2>8. CASE i > k
    <3>1. CASE j < k
      <4>0. /\ i - 1 \in 1..Len(list) /\ j \in 1..Len(list)
            /\ list[i - 1][1] = list[j][1]
        BY <2>2, <2>3, <2>4, <2>8, <3>1, SMTT(30)
      <4>1. i - 1 = j
        BY <2>5, <4>0
      <4> QED
        BY <2>4, <2>8, <3>1, <4>1
    <3>2. CASE j > k
      <4>0. /\ i - 1 \in 1..Len(list) /\ j - 1 \in 1..Len(list)
            /\ list[i - 1][1] = list[j - 1][1]
        BY <2>2, <2>3, <2>4, <2>8, <3>2, SMTT(30)
      <4>1. i - 1 = j - 1
        BY <2>5, <4>0
      <4> QED
        BY <2>4, <4>1
    <3> QED
      BY <2>3, <2>6, <3>1, <3>2
  <2> QED
    BY <2>2, <2>6, <2>7, <2>8
<1> QED
  BY <1>4, <1>5 DEF new

\* OrderedList::remove takes the first sleeper out of the list.
LEMMA AlarmTail ==
  ASSUME NEW list \in Seq(Normal \X Nat), list # <<>>
  PROVE  /\ Head(list) \in Normal \X Nat /\ Tail(list) \in Seq(Normal \X Nat)
         /\ Sleeps(list, Head(list)[1])
         /\ \A t : Sleeps(Tail(list), t) => Sleeps(list, t)
         /\ SleepsOnce(list) =>
              SleepsOnce(Tail(list)) /\ ~Sleeps(Tail(list), Head(list)[1])
<1>1. /\ Head(list) \in Normal \X Nat /\ Tail(list) \in Seq(Normal \X Nat)
      /\ Len(list) \in Nat /\ Len(list) >= 1 /\ Head(list) = list[1]
      /\ Len(Tail(list)) = Len(list) - 1
      /\ \A i \in 1..(Len(list) - 1) : Tail(list)[i] = list[i + 1]
  OBVIOUS
<1>2. \A i \in 1..Len(Tail(list)) : i + 1 \in 1..Len(list) /\ Tail(list)[i] = list[i + 1]
  BY <1>1
<1>3. Sleeps(list, Head(list)[1])
  BY <1>1 DEF Sleeps
<1>4. \A t : Sleeps(Tail(list), t) => Sleeps(list, t)
  BY <1>2 DEF Sleeps
<1>5. ASSUME SleepsOnce(list)
      PROVE  SleepsOnce(Tail(list)) /\ ~Sleeps(Tail(list), Head(list)[1])
  <2>1. SleepsOnce(Tail(list))
    <3> SUFFICES ASSUME NEW i \in 1..Len(Tail(list)), NEW j \in 1..Len(Tail(list)),
                        Tail(list)[i][1] = Tail(list)[j][1]
                 PROVE  i = j
      BY DEF SleepsOnce
    <3>1. i + 1 = j + 1
      BY <1>2, <1>5 DEF SleepsOnce
    <3> QED
      BY <3>1
  <2>2. ASSUME NEW i \in 1..Len(Tail(list)), Tail(list)[i][1] = Head(list)[1]
        PROVE  FALSE
    <3>1. i + 1 = 1
      BY <1>1, <1>2, <1>5, <2>2 DEF SleepsOnce
    <3> QED
      BY <1>1, <3>1
  <2> QED
    BY <2>1, <2>2 DEF Sleeps
<1> QED
  BY <1>1, <1>3, <1>4, <1>5

\* Alarm::Alarm keeps the invariant.
LEMMA SleepUntilStep ==
  ASSUME KernelInvariant, TypeInv', NEW c \in Cores, OthersUnchanged(c),
         \A d \in Cores \ {c} : alarms'[d] = alarms[d],
         NEW us \in Deadlines, SleepUntil(c, us), UNCHANGED value
  PROVE  KernelInvariant'
<1>1. /\ TypeOK /\ CoreShape(c) /\ AlarmedOnce /\ AlarmedSleeps
      /\ None \notin Locks /\ LocalSpin \in Locks /\ LocalSpin \notin Spins
  BY ThreadAssumption DEF KernelInvariant, TypeInv, Locks
<1>2. /\ pc[c] = "user" /\ heads[c] \in Normal /\ Sleep(c, AlarmList(heads[c]))
      /\ UNCHANGED <<cpu, node, s_previous, s_spin, context, locked>>
  BY DEF SleepUntil, InProgram
<1>3. /\ heads[c] = cpu[c] /\ cpu[c] \in Normal /\ lock[c] = None
      /\ \A l \in Lists : ~InList(cpu[c], l)
      /\ \A s \in Spins : ~HoldsLock(c, s)
  BY <1>1, <1>2, PlainFacts
  DEF CoreShape, PlainLocations, LockLocations, SleepLocations
<1>4. pc'[c] = "sleep" /\ lock'[c] = LocalSpin
  BY <1>1 DEF SleepUntil, Sleep, Goto, TypeOK
<1>5. \A s \in Spins : ~HoldsLock(c, s)' /\ lock[c] # s
  BY <1>1, <1>3, <1>4 DEF HoldsLock, Locks
<1>6. ~Alarmed(c, cpu[c])
  BY <1>1, <1>3, ListsExist DEF AlarmedSleeps
<1>7. alarms[c] \in Seq(Normal \X Nat) /\ <<cpu[c], us>> \in Normal \X Nat
  BY <1>1, <1>3, AlarmAssumption DEF TypeOK
<1>8. alarms'[c] = OrderedInsert(alarms[c], <<cpu[c], us>>)
  BY <1>1, <1>3 DEF SleepUntil, TypeOK
<1>9. /\ \A t : Alarmed(c, t)' => Alarmed(c, t) \/ t = cpu[c]
      /\ SleepsOnce(alarms[c])'
  BY <1>1, <1>6, <1>7, <1>8, AlarmInsert DEF Alarmed, AlarmedOnce
<1>10. AlarmList(cpu[c]) \in Lists
  BY <1>3, ListsExist
<1>11. \A s \in Spins : fifo'[WaitList(s)] = fifo[WaitList(s)]
  BY <1>1, <1>2, <1>3, <1>10, KindsOfLists, InsertLength DEF Sleep, Threads
<1>12. WaitersCounted'
  BY <1>2, <1>4, <1>11, WaitersFrame DEF OwedLocations
<1> QED
  BY <1>1, <1>2, <1>3, <1>4, <1>5, <1>9, <1>10, <1>12, SleepStep

\* Alarm::handler puts an alarm that has not elapsed back.
LEMMA ReorderStep ==
  ASSUME KernelInvariant, TypeInv', NEW c \in Cores, OthersUnchanged(c),
         pc[c] = "alarm", pc'[c] = "user",
         UNCHANGED <<cpu, node, s_previous, s_spin, fifo, state, context, locked, value>>,
         \A d \in Cores \ {c} : alarms'[d] = alarms[d],
         SleepsOnce(alarms[c])', \A t : Alarmed(c, t)' => Alarmed(c, t)
  PROVE  KernelInvariant'
<1>1. /\ HeldByOneCore /\ LockedByOneCore /\ NodeLinkedOnce /\ ReadyInQueue
      /\ WaitingInSemaphore /\ WaitingInAlarm /\ AlarmedSleeps /\ ContextShape
  BY DEF KernelInvariant
<1>2. /\ cpu[c] \in Threads /\ node[c] = None /\ None \notin Threads
      /\ state[cpu[c]] \in {"READY", "RUNNING"}
      /\ \A l \in Lists : ~InList(cpu[c], l)
  BY PlainFacts, ThreadAssumption DEF PlainLocations
<1>3. \A t \in Threads : Holds(c, t)' => t = cpu[c]
  BY <1>2 DEF Holds
<1>4. \A s \in Spins : ~HoldsLock(c, s)'
  BY DEF HoldsLock, SleepLocations
<1>5. StateShape(c)'
  BY <1>2 DEF StateShape, SleepLocations
<1>6. \A t, l : InList(t, l)' <=> InList(t, l)
  BY DEF InList
<1>7. NodeLinkedOnce' /\ WaitingInAlarm' /\ WaitersCounted'
  BY <1>1, <1>6, WaitersFrame DEF NodeLinkedOnce, WaitingInAlarm, OwedLocations
<1>8. \A l \in NormalLists \cup IdleLists : \A t \in Threads : InList(t, l)' =>
        /\ state'[t] = "READY" /\ l = ReadyList(t) /\ ~Holds(c, t)'
        /\ InList(t, l) \/ Holds(c, t)
  BY <1>1, <1>2, <1>3, <1>6 DEF ReadyInQueue, Lists
<1>9. \A s \in Spins : \A t \in Threads : InList(t, WaitList(s))' =>
        /\ state'[t] = "WAITING" /\ (Holds(c, t)' => HoldsLock(c, s)')
        /\ InList(t, WaitList(s)) \/ Holds(c, t)
  BY <1>1, <1>2, <1>3, <1>6, ListsExist DEF WaitingInSemaphore
<1>10. \A t \in Normal : \A d \in Cores : Alarmed(d, t) =>
         InList(t, AlarmList(t))' /\ ~Holds(c, t)'
  BY <1>1, <1>2, <1>3, <1>6, ListsExist DEF AlarmedSleeps, Threads
<1>11. \A t \in Threads : context'[t] = "none" => state'[t] = "NONE"
  BY <1>1 DEF ContextShape
<1>12. \A t \in Threads : Holds(c, t)' => Holds(c, t)
  BY <1>3 DEF Holds
<1>13. \A t \in Threads : context'[t] = "live" =>
         cpu'[c] = t \/ (context[t] = "live" /\ cpu[c] # t)
  OBVIOUS
<1> QED
  BY <1>4, <1>5, <1>7, <1>8, <1>9, <1>10, <1>11, <1>12, <1>13, StepOfCore

\* Alarm::handler keeps the invariant.
LEMMA HandlerStep ==
  ASSUME KernelInvariant, TypeInv', NEW c \in Cores, OthersUnchanged(c),
         \A d \in Cores \ {c} : alarms'[d] = alarms[d],
         Handler(c), UNCHANGED value
  PROVE  KernelInvariant'
<1>1. /\ TypeOK /\ AlarmedOnce /\ AlarmedSleeps /\ WaitingInAlarm
      /\ SleepsOnce(alarms[c]) /\ alarms[c] \in Seq(Normal \X Nat)
  BY DEF KernelInvariant, TypeInv, AlarmedOnce, TypeOK
<1>2. /\ pc[c] = "alarm"
      /\ UNCHANGED <<cpu, lock, heads, s_previous, s_spin, context, locked>>
  BY DEF Handler
<1>3. alarms[c] # <<>> =>
        /\ Head(alarms[c]) \in Normal \X Nat /\ Tail(alarms[c]) \in Seq(Normal \X Nat)
        /\ Alarmed(c, Head(alarms[c])[1]) /\ Head(alarms[c])[1] \in Normal
        /\ \A u : Sleeps(Tail(alarms[c]), u) => Alarmed(c, u)
        /\ SleepsOnce(Tail(alarms[c])) 
        /\ ~Sleeps(Tail(alarms[c]), Head(alarms[c])[1])
  BY <1>1, AlarmTail DEF Alarmed
<1>4. CASE /\ alarms[c] # <<>> /\ alarms' = [alarms EXCEPT ![c] = Tail(@)]
           /\ Wakeup(c, AlarmList(Head(alarms[c])[1]), "alarm_wakeup")
  <2>0. PICK t \in Normal : t = Head(alarms[c])[1]
    BY <1>3, <1>4
  <2> DEFINE l == AlarmList(t)
  <2>1. t \in Normal /\ t \in Threads /\ l \in Lists /\ InList(t, l)
    BY <1>1, <1>3, <1>4, <2>0, ListsExist DEF AlarmedSleeps, Threads
  <2>2. fifo[l] # <<>>
    BY <2>1 DEF InList
  <2>3. /\ Remove(l) /\ node' = [node EXCEPT ![c] = Head(fifo[l])]
        /\ state' = [state EXCEPT ![Head(fifo[l])] = "READY"] /\ Goto(c, "alarm_wakeup")
    BY <1>4, <2>0, <2>2 DEF Wakeup
  <2>4. Head(fifo[l]) = t
    <3>1. Head(fifo[l]) \in Threads /\ InList(Head(fifo[l]), l)
      BY <1>1, <2>1, <2>3, RemoveUnlinks DEF TypeOK
    <3> QED
      BY <1>1, <2>1, <3>1 DEF WaitingInAlarm
  <2>5. state[t] = "WAITING" /\ \A d \in Cores : ~Holds(d, t)
    BY <1>1, <1>2, <1>3, <1>4, <2>0, <2>1 DEF WaitingInAlarm, AlarmedSleeps
  <2>6. alarms'[c] = Tail(alarms[c])
    BY <1>1, <1>4 DEF TypeOK
  <2>7. /\ \A u : Alarmed(c, u)' => Alarmed(c, u)
        /\ SleepsOnce(alarms[c])' /\ ~Alarmed(c, t)'
    BY <1>3, <1>4, <2>0, <2>6 DEF Alarmed
  <2>8. \A d \in Cores \ {c} : ~Alarmed(d, t)'
    BY <1>1, <1>3, <1>4, <2>0 DEF AlarmedOnce, Alarmed
  <2>9. pc'[c] = "alarm_wakeup" /\ node'[c] = t
    BY <1>1, <2>3, <2>4 DEF Goto, TypeOK
  <2>10. \A u \in Threads : state'[u] = IF u = t THEN "READY" ELSE state[u]
    BY <1>1, <2>3, <2>4 DEF TypeOK
  <2>11. WaitersCounted'
    BY <1>1, <1>2, <2>1, <2>3, <2>9, KindsOfLists, RemoveLength, WaitersFrame
    DEF OwedLocations
  <2> QED
    BY <1>2, <2>1, <2>3, <2>4, <2>5, <2>7, <2>8, <2>9, <2>10, <2>11, WakeupStep
<1>5. CASE /\ alarms[c] # <<>>
           /\ alarms' = [alarms EXCEPT ![c] = OrderedInsert(Tail(@), Head(@))]
           /\ Goto(c, "user") /\ UNCHANGED <<fifo, node, state>>
  <2>1. alarms'[c] = OrderedInsert(Tail(alarms[c]), Head(alarms[c]))
    BY <1>1, <1>5 DEF TypeOK
  <2>2. /\ \A u : Alarmed(c, u)' => Alarmed(c, u)
        /\ SleepsOnce(alarms[c])'
    <3> DEFINE list == Tail(alarms[c])
               a == Head(alarms[c])
    <3>1. /\ \A u : Sleeps(OrderedInsert(list, a), u) => Sleeps(list, u) \/ u = a[1]
          /\ SleepsOnce(OrderedInsert(list, a))
      BY <1>3, <1>5, AlarmInsert
    <3>2. \A u : Sleeps(list, u) \/ u = a[1] => Alarmed(c, u)
      BY <1>3, <1>5
    <3> HIDE DEF list, a
    <3>3. alarms'[c] = OrderedInsert(list, a)
      BY <2>1 DEF list, a
    <3> QED
      BY <3>1, <3>2, <3>3 DEF Alarmed
  <2>3. pc'[c] = "user"
    BY <1>1, <1>5 DEF Goto, TypeOK
  <2> QED
    BY <1>2, <1>5, <2>2, <2>3, ReorderStep
<1>6. CASE UNCHANGED <<fifo, node, state, alarms>> /\ Goto(c, "user")
  <2>1. pc'[c] = "user"
    BY <1>1, <1>6 DEF Goto, TypeOK
  <2> QED
    BY <1>2, <1>6, <2>1, PlainStep DEF PlainLocations
<1> QED
  BY <1>4, <1>5, <1>6 DEF Handler

-----------------------------------------------------------------------------
(* The kernel.                                                              *)

\* Every step of module Thread keeps the invariant.
LEMMA ThreadKeeps ==
  ASSUME KernelInvariant, TypeInv', NEW c \in Cores, OthersUnchanged(c),
         ThreadStep(c), UNCHANGED <<value, now, alarms>>
  PROVE  KernelInvariant'
<1>1. TypeOK
  BY DEF KernelInvariant, TypeInv
<1>2. ASSUME NEW l \in PlainLocations, pc[c] \in PlainLocations, Goto(c, l),
             UNCHANGED <<cpu, node, fifo, state, context, locked>>
      PROVE  KernelInvariant'
  <2>1. pc'[c] = l
    BY <1>1, <1>2 DEF Goto, TypeOK
  <2> QED
    BY <1>2, <2>1, PlainStep
<1>3. CASE Tick(c)
  BY <1>2, <1>3 DEF Tick, PlainLocations
<1>4. CASE Yield(c) \/ JoinLoop(c) \/ Exit(c)
  BY <1>2, <1>4 DEF Yield, JoinLoop, Exit, InProgram, InJoin, Proceed, PlainLocations
<1>5. CASE IdleLoop(c) \/ Shutdown(c)
  BY <1>2, <1>5 DEF IdleLoop, Shutdown, Proceed, PlainLocations
<1>6. ASSUME NEW t \in Normal, Join(c, t)
      PROVE  KernelInvariant'
  BY <1>6, PlainStep DEF Join, InProgram, PlainLocations
<1>7. CASE CreateInsert(c)
  BY <1>1, <1>7, HandInsertStep DEF CreateInsert, Goto, TypeOK
<1> QED
  BY <1>3, <1>4, <1>5, <1>6, <1>7, JoinReturnStep, CreateStep, RescheduleStep,
     RemoveStep, LoadStep, DispatchStep, EpilogueStep, FinishStep
  DEF ThreadStep, ProgramStep, KernelStep

\* Every step of module Alarm keeps the invariant.
LEMMA AlarmKeeps ==
  ASSUME KernelInvariant, TypeInv', NEW c \in Cores, OthersUnchanged(c),
         \A d \in Cores \ {c} : alarms'[d] = alarms[d],
         AlarmStep(c), UNCHANGED value
  PROVE  KernelInvariant'
<1>1. TypeOK
  BY DEF KernelInvariant, TypeInv
<1>2. CASE HandlerWakeup(c)
  BY <1>1, <1>2, HandInsertStep DEF HandlerWakeup, WakeupInsert, Goto, TypeOK
<1> QED
  BY <1>2, SleepUntilStep, HandlerStep DEF AlarmStep, AlarmKernelStep

\* Every step of the kernel keeps the invariant.
LEMMA KernelStepKeeps ==
  ASSUME KernelInvariant, [Next]_vars
  PROVE  KernelInvariant'
<1>1. TypeInv /\ TypeOK
  BY DEF KernelInvariant, TypeInv
<1>2. TypeInv'
  BY <1>1, TypeStep
<1>3. ASSUME NEW c \in Cores, ThreadStep(c), UNCHANGED <<value, now, alarms>>
      PROVE  KernelInvariant'
  BY <1>1, <1>2, <1>3, ThreadFrame, ThreadKeeps
<1>4. ASSUME NEW c \in Cores, SemaphoreStep(c), UNCHANGED <<now, alarms>>
      PROVE  KernelInvariant'
  BY <1>1, <1>2, <1>4, SemaphoreFrame, SemaphoreKeeps
<1>5. ASSUME NEW c \in Cores, AlarmStep(c), UNCHANGED value
      PROVE  KernelInvariant'
  BY <1>1, <1>2, <1>5, AlarmFrame, AlarmKeeps
<1>6. ASSUME UNCHANGED threadVars, UNCHANGED <<value, alarms>>
      PROVE  KernelInvariant'
  BY <1>2, <1>6
  DEF threadVars, KernelInvariant, StateShape, HeldByOneCore, Holds, LockedByOneCore,
      HoldsLock, NodeLinkedOnce, InList, ReadyInQueue, WaitingInSemaphore,
      WaitingInAlarm, AlarmedOnce, Alarmed, AlarmedSleeps, WaitersCounted, Owed, InStep,
      ContextShape
<1>7. CASE TimePasses /\ UNCHANGED value
  BY <1>6, <1>7 DEF TimePasses
<1>8. CASE UNCHANGED vars
  BY <1>6, <1>8 DEF vars
<1> QED
  BY <1>3, <1>4, <1>5, <1>7, <1>8 DEF Next, PoweredOff

\* The boot state satisfies the invariant.
LEMMA KernelInit ==
  ASSUME Init
  PROVE  KernelInvariant
<1>1. TypeInv /\ TypeOK
  BY TypeInit DEF TypeInv
<1>2. /\ \A c \in Cores : /\ pc[c] = "run" /\ cpu[c] = None /\ node[c] = None
                          /\ lock[c] = None /\ alarms[c] = <<>>
      /\ \A t \in Threads :
           /\ state[t] = IF t \in BootThreads THEN "READY" ELSE "NONE"
           /\ context[t] = IF t \in BootThreads THEN "entry" ELSE "none"
      /\ fifo = Boot /\ value = InitialValue
  BY DEF Init, ThreadInit, AlarmInit, SemaphoreInit
<1>3. None \notin Threads /\ None \notin Spins
  BY ThreadAssumption DEF Locks
<1>4. \A c \in Cores : StateShape(c)
  BY <1>2 DEF StateShape
<1>5. \A c \in Cores : \A t \in Threads : ~Holds(c, t)
  BY <1>2, <1>3 DEF Holds
<1>6. \A c \in Cores : \A s \in Spins : ~HoldsLock(c, s)
  BY <1>2, <1>3 DEF HoldsLock, SleepLocations
<1>7. \A l \in Lists : \A t \in Threads : InList(t, l) =>
        t \in BootThreads /\ l = ReadyList(t)
  BY <1>2, BootAssumption DEF InList
<1>8. NodeLinkedOnce
  <2> SUFFICES ASSUME NEW l \in Lists, NEW m \in Lists,
                      NEW i \in 1..Len(fifo[l]), NEW j \in 1..Len(fifo[m]),
                      fifo[l][i] = fifo[m][j]
               PROVE  l = m /\ i = j
    BY DEF NodeLinkedOnce
  <2>1. l = m
    BY <1>2, BootAssumption
  <2> QED
    BY <1>2, <2>1, BootAssumption
<1>9. ReadyInQueue
  BY <1>2, <1>5, <1>7 DEF ReadyInQueue, Lists
<1>10. \A l \in Lists \ (NormalLists \cup IdleLists) : \A t \in Threads : ~InList(t, l)
  BY <1>7, KindsOfLists
<1>11. WaitingInSemaphore /\ WaitingInAlarm
  BY <1>10, KindsOfLists DEF WaitingInSemaphore, WaitingInAlarm
<1>12. \A c \in Cores : SleepsOnce(alarms[c]) /\ \A t : ~Alarmed(c, t)
  BY <1>2 DEF SleepsOnce, Alarmed, Sleeps
<1>13. AlarmedOnce /\ AlarmedSleeps
  BY <1>12 DEF AlarmedOnce, AlarmedSleeps
<1>14. WaitersCounted
  <2>0. \A s : ~InStep("p_sleep", s) /\ ~InStep("v_wake", s)
    BY <1>2 DEF InStep
  <2> SUFFICES ASSUME NEW s \in Spins
               PROVE  Len(fifo[WaitList(s)]) = IF value[s] < 0 THEN -value[s] ELSE 0
    BY <2>0 DEF WaitersCounted, Owed
  <2>1. WaitList(s) \in Lists /\ fifo[WaitList(s)] \in Seq(Threads)
    BY <1>1, KindsOfLists DEF TypeOK
  <2>2. \A i \in 1..Len(fifo[WaitList(s)]) : fifo[WaitList(s)][i] \in Threads
    BY <2>1
  <2>3. Len(fifo[WaitList(s)]) \in Nat /\ 1 \notin 1..Len(fifo[WaitList(s)])
    BY <1>10, <2>1, <2>2, KindsOfLists DEF InList
  <2>4. value[s] \in Nat
    BY <1>2, SemaphoreAssumption
  <2> QED
    BY <2>3, <2>4
<1>15. ContextShape
  BY <1>2 DEF ContextShape
<1> QED
  BY <1>1, <1>4, <1>5, <1>6, <1>8, <1>9, <1>11, <1>13, <1>14, <1>15
  DEF KernelInvariant, HeldByOneCore, LockedByOneCore

\* In every state of the kernel each thread is linked in at most one list and
\* held by at most one core, and each semaphore's lock covers the switch of a
\* sleeping thread up to the epilogue of its successor.
THEOREM KernelInvariantHolds == Spec => []KernelInvariant
<1>1. Init => KernelInvariant
  BY KernelInit
<1>2. KernelInvariant /\ [Next]_vars => KernelInvariant'
  BY KernelStepKeeps
<1> QED
  BY <1>1, <1>2, PTL DEF Spec

\* Thread::node_ is never linked twice, whatever the program does.
THEOREM NodesLinkedOnce == Spec => []NodeLinkedOnce
<1>1. KernelInvariant => NodeLinkedOnce
  BY DEF KernelInvariant
<1> QED
  BY <1>1, KernelInvariantHolds, PTL

\* No two cores execute on one stack: a thread that goes to sleep or is
\* preempted can be taken by another core only after Context::swtch.
THEOREM ThreadsOnOneCore == Spec => []ThreadOnOneCore
<1>1. ASSUME KernelInvariant
      PROVE  ThreadOnOneCore
  BY <1>1 DEF KernelInvariant, TypeInv, TypeOK, HeldByOneCore, Holds, ThreadOnOneCore
<1> QED
  BY <1>1, KernelInvariantHolds, PTL

\* A thread in a run queue, or in the hand of a core, has a saved context.
THEOREM ReadyContextsSaved == Spec => []ReadyContextIsSaved
<1>1. ASSUME KernelInvariant
      PROVE  ReadyContextIsSaved
  <2> SUFFICES ASSUME NEW t \in Threads,
                      InList(t, ReadyList(t)) \/ (\E c \in Cores : node[c] = t)
               PROVE  context[t] \in {"entry", "kernel"}
    BY DEF ReadyContextIsSaved
  <2>1. /\ context[t] \in {"none", "entry", "kernel", "live"}
        /\ context[t] = "live" => \E c \in Cores : cpu[c] = t
        /\ context[t] = "none" => state[t] = "NONE"
        /\ None \notin Threads
    BY <1>1, ThreadAssumption
    DEF KernelInvariant, TypeInv, TypeOK, ContextShape, Contexts
  <2>2. CASE InList(t, ReadyList(t))
    <3>1. state[t] = "READY" /\ \A c \in Cores : cpu[c] # t
      BY <1>1, <2>2, KindsOfLists DEF KernelInvariant, ReadyInQueue, Holds
    <3> QED
      BY <2>1, <3>1
  <2>3. ASSUME NEW c \in Cores, node[c] = t
        PROVE  context[t] \in {"entry", "kernel"}
    <3>1. state[t] = "READY" /\ cpu[c] # t
      BY <1>1, <2>1, <2>3 DEF KernelInvariant, StateShape
    <3>2. \A d \in Cores : cpu[d] # t
      BY <1>1, <2>3, <3>1 DEF KernelInvariant, HeldByOneCore, Holds
    <3> QED
      BY <2>1, <3>1, <3>2
  <2> QED
    BY <2>2, <2>3
<1> QED
  BY <1>1, KernelInvariantHolds, PTL

\* When join() returns, nothing in the kernel refers to the thread any more,
\* so ~Thread may free its stacks.
THEOREM FinishedUnreachable == Spec => []FinishedIsUnreachable
<1>1. KernelInvariant => FinishedIsUnreachable
  BY GoneIsUnreachable
<1> QED
  BY <1>1, KernelInvariantHolds, PTL

\* Semaphore::value_ counts the waiters whenever lock_ is free.
THEOREM ValuesCountWaiters == Spec => []ValueCountsWaiters
<1>1. KernelInvariant => ValueCountsWaiters
  <2> SUFFICES ASSUME KernelInvariant, NEW s \in Spins, ~locked[s]
               PROVE  Len(fifo[WaitList(s)]) = IF value[s] < 0 THEN -value[s] ELSE 0
    BY DEF ValueCountsWaiters
  <2>1. ~InStep("p_sleep", s) /\ ~InStep("v_wake", s)
    BY DEF KernelInvariant, LockedByOneCore, InStep, HoldsLock
  <2> QED
    BY <2>1 DEF KernelInvariant, WaitersCounted, Owed
<1> QED
  BY <1>1, KernelInvariantHolds, PTL

-----------------------------------------------------------------------------
(* Semaphores.                                                              *)

\* Only p() and v() touch the waiting_ lists.
LEMMA InsertElsewhere ==
  ASSUME TypeOK, NEW l \in Lists, NEW t \in Threads, Insert(l, t) \/ Remove(l),
         \A s \in Spins : WaitList(s) # l
  PROVE  \A s \in Spins : fifo'[WaitList(s)] = fifo[WaitList(s)]
BY KindsOfLists, InsertLength, RemoveLength

\* No step of module Thread touches a semaphore's list.
LEMMA ThreadKeepsWaiters ==
  ASSUME KernelInvariant, NEW c \in Cores, ThreadStep(c)
  PROVE  \A s \in Spins : fifo'[WaitList(s)] = fifo[WaitList(s)]
<1> DEFINE Kept == \A s \in Spins : fifo'[WaitList(s)] = fifo[WaitList(s)]
<1>1. TypeOK /\ TypeInv /\ CoreShape(c)
  BY DEF KernelInvariant, TypeInv
<1>2. CASE UNCHANGED fifo
  BY <1>2
<1>3. ASSUME NEW t \in Threads, Insert(ReadyList(t), t)
      PROVE  Kept
  BY <1>1, <1>3, KindsOfLists, ListsExist, InsertElsewhere
<1>4. ASSUME NEW l \in NormalLists \cup IdleLists, Take(c, l)
      PROVE  Kept
  BY <1>1, <1>4, KindsOfLists, RemoveLength DEF Take, Lists
<1>5. CASE Tick(c) \/ Yield(c) \/ JoinLoop(c) \/ Exit(c) \/ IdleLoop(c) \/ Shutdown(c)
           \/ JoinReturn(c) \/ Load(c) \/ Dispatch(c) \/ Finish(c)
  BY <1>2, <1>5
  DEF Tick, Yield, JoinLoop, Exit, IdleLoop, Shutdown, JoinReturn, Load, Dispatch,
      Finish, Proceed
<1>6. ASSUME NEW t \in Normal, Create(c, t) \/ Join(c, t)
      PROVE  Kept
  BY <1>2, <1>6 DEF Create, Join
<1>7. CASE CreateInsert(c)
  <2>1. node[c] \in Threads
    BY <1>1, <1>7, ShapeFacts DEF CreateInsert, HandLocations
  <2> QED
    BY <1>3, <1>7, <2>1 DEF CreateInsert
<1>8. CASE Reschedule(c) \/ RemoveNormal(c) \/ RemoveIdle(c)
  <2>1. Take(c, NormalOf(c)) \/ Take(c, IdleOf(c)) \/ UNCHANGED fifo
    BY <1>8 DEF Reschedule, RemoveNormal, RemoveIdle
  <2> QED
    BY <1>2, <1>4, <2>1, KindsOfLists
<1>9. CASE Epilogue(c)
  <2>1. s_previous[c] \in Threads
    BY <1>1, <1>9, ShapeFacts DEF Epilogue
  <2>2. Insert(ReadyList(s_previous[c]), s_previous[c]) \/ UNCHANGED fifo
    BY <1>9 DEF Epilogue
  <2> QED
    BY <1>2, <1>3, <2>1, <2>2
<1> QED
  BY <1>5, <1>6, <1>7, <1>8, <1>9 DEF ThreadStep, ProgramStep, KernelStep

\* No step of module Alarm touches a semaphore's list.
LEMMA AlarmKeepsWaiters ==
  ASSUME KernelInvariant, NEW c \in Cores, AlarmStep(c)
  PROVE  \A s \in Spins : fifo'[WaitList(s)] = fifo[WaitList(s)]
<1> DEFINE Kept == \A s \in Spins : fifo'[WaitList(s)] = fifo[WaitList(s)]
<1>1. TypeOK /\ TypeInv
  BY DEF KernelInvariant, TypeInv
<1>2. ASSUME NEW us \in Deadlines, SleepUntil(c, us)
      PROVE  Kept
  <2>1. heads[c] \in Normal /\ heads[c] \in Threads /\ Insert(AlarmList(heads[c]), heads[c])
    BY <1>2 DEF SleepUntil, Sleep, InProgram, Threads
  <2> QED
    BY <1>1, <2>1, KindsOfLists, InsertElsewhere
<1>3. CASE Handler(c)
  <2>1. CASE alarms[c] # <<>> /\ Remove(AlarmList(Head(alarms[c])[1]))
    <3>1. Head(alarms[c])[1] \in Normal
      BY <1>1, <2>1 DEF TypeOK
    <3> QED
      BY <1>1, <2>1, <3>1, KindsOfLists, RemoveLength
  <2>2. CASE UNCHANGED fifo
    BY <2>2
  <2> QED
    BY <1>3, <2>1, <2>2 DEF Handler, Wakeup
<1>4. CASE HandlerWakeup(c)
  <2>1. node[c] \in Threads
    BY <1>1, <1>4, ShapeFacts DEF HandlerWakeup, HandLocations
  <2> QED
    BY <1>1, <1>4, <2>1, KindsOfLists, ListsExist, InsertElsewhere
    DEF HandlerWakeup, WakeupInsert
<1> QED
  BY <1>2, <1>3, <1>4 DEF AlarmStep, AlarmKernelStep

-----------------------------------------------------------------------------
\* p()'s fdec takes a permit, if there is one.
LEMMA PBodyImplements ==
  ASSUME KernelInvariant, NEW c \in Cores, PBody(c)
  PROVE  Counting!Next \/ UNCHANGED Counting!vars
<1> DEFINE s == lock[c]
<1>1. TypeOK
  BY DEF KernelInvariant, TypeInv
<1>2. s \in Spins /\ UNCHANGED fifo
  BY LockFacts DEF PBody
<1>3. /\ \A r \in Spins : value[r] \in Int
      /\ \A r \in Spins : value'[r] = IF r = s THEN value[s] - 1 ELSE value[r]
  BY <1>1 DEF PBody, TypeOK
<1>4. Blocked' = Blocked
  BY <1>2 DEF Blocked
<1>5. CASE value[s] < 1
  <2>1. Permits' = Permits
    BY <1>2, <1>3, <1>5 DEF Permits
  <2> QED
    BY <1>4, <2>1 DEF Counting!vars
<1>6. CASE value[s] >= 1
  <2>1. Permits[s] > 0 /\ Permits' = [Permits EXCEPT ![s] = @ - 1]
    BY <1>2, <1>3, <1>6 DEF Permits
  <2>2. Counting!TakePermit(s)
    BY <1>4, <2>1 DEF Counting!TakePermit
  <2> QED
    BY <1>2, <2>2 DEF Counting!Next
<1> QED
  BY <1>5, <1>6 DEF PBody

\* p()'s sleep joins the blocked threads; meanwhile no permit has come.
LEMMA PSleepImplements ==
  ASSUME KernelInvariant, NEW c \in Cores, PSleep(c), UNCHANGED value
  PROVE  Counting!Next
<1> DEFINE s == lock[c]
<1>1. TypeOK
  BY DEF KernelInvariant, TypeInv
<1>2. /\ s \in Spins /\ cpu[c] \in Threads /\ heads[c] = cpu[c] /\ WaitList(s) \in Lists
      /\ HoldsLock(c, s) /\ pc[c] = "p_sleep"
  BY LockFacts, ListsExist DEF PSleep
<1>3. /\ fifo[WaitList(s)] \in Seq(Threads) /\ value[s] \in Int
      /\ Len(fifo[WaitList(s)]) = -value[s] - 1
  BY <1>1, <1>2, OwnerDecides DEF TypeOK
<1>4. Permits[s] = 0 /\ Permits' = Permits
  <2>1. ~(value[s] > 0)
    BY <1>3
  <2>2. Permits[s] = 0
    BY <1>2, <2>1 DEF Permits
  <2>3. Permits' = Permits
    BY DEF Permits
  <2> QED
    BY <2>2, <2>3
<1>5. fifo' = [fifo EXCEPT ![WaitList(s)] = Append(@, cpu[c])]
  BY <1>2 DEF PSleep, Sleep, Insert
<1>6. Blocked' = [Blocked EXCEPT ![s] = Append(@, cpu[c])]
  BY <1>1, <1>2, <1>5, KindsOfLists DEF Blocked, TypeOK
<1>7. Counting!Block(s, cpu[c])
  BY <1>4, <1>6 DEF Counting!Block
<1> QED
  BY <1>2, <1>7 DEF Counting!Next

\* v()'s finc adds a permit, if no thread is blocked.
LEMMA VBodyImplements ==
  ASSUME KernelInvariant, NEW c \in Cores, VBody(c)
  PROVE  Counting!Next \/ UNCHANGED Counting!vars
<1> DEFINE s == lock[c]
<1>1. TypeOK
  BY DEF KernelInvariant, TypeInv
<1>2. /\ s \in Spins /\ WaitList(s) \in Lists /\ fifo[WaitList(s)] \in Seq(Threads)
      /\ HoldsLock(c, s) /\ pc[c] = "v" /\ UNCHANGED fifo
  BY <1>1, LockFacts, ListsExist DEF VBody, TypeOK
<1>3. /\ \A r \in Spins : value[r] \in Int
      /\ \A r \in Spins : value'[r] = IF r = s THEN value[s] + 1 ELSE value[r]
  BY <1>1 DEF VBody, TypeOK
<1>4. Blocked' = Blocked
  BY <1>2 DEF Blocked
<1>5. CASE value[s] < 0
  <2>1. Permits' = Permits
    BY <1>2, <1>3, <1>5 DEF Permits
  <2> QED
    BY <1>4, <2>1 DEF Counting!vars
<1>6. CASE value[s] >= 0
  <2>1. Permits' = [Permits EXCEPT ![s] = @ + 1]
    BY <1>2, <1>3, <1>6 DEF Permits
  <2>2. Len(fifo[WaitList(s)]) = 0
    BY <1>2, <1>3, <1>6, OwnerDecides DEF OwedLocations
  <2>3. Blocked[s] = <<>>
    BY <1>2, <2>2 DEF Blocked
  <2>4. Counting!GivePermit(s)
    BY <1>4, <2>1, <2>3 DEF Counting!GivePermit
  <2> QED
    BY <1>2, <2>4 DEF Counting!Next
<1> QED
  BY <1>5, <1>6 DEF VBody

\* v()'s wakeup releases the first blocked thread.
LEMMA VWakeImplements ==
  ASSUME KernelInvariant, NEW c \in Cores, VWake(c), UNCHANGED value
  PROVE  Counting!Next
<1> DEFINE s == lock[c]
<1>1. TypeOK
  BY DEF KernelInvariant, TypeInv
<1>2. /\ s \in Spins /\ WaitList(s) \in Lists /\ fifo[WaitList(s)] \in Seq(Threads)
      /\ HoldsLock(c, s) /\ pc[c] = "v_wake"
  BY <1>1, LockFacts, ListsExist DEF VWake, TypeOK
<1>3. fifo[WaitList(s)] # <<>>
  <2>1. value[s] \in Int /\ Len(fifo[WaitList(s)]) = -value[s] + 1 /\ value[s] <= 0
    BY <1>1, <1>2, OwnerDecides DEF TypeOK
  <2> QED
    BY <2>1
<1>4. fifo' = [fifo EXCEPT ![WaitList(s)] = Tail(@)]
  BY <1>3 DEF VWake, Wakeup, Remove
<1>5. Permits' = Permits
  BY DEF Permits
<1>6. Blocked[s] # <<>> /\ Blocked' = [Blocked EXCEPT ![s] = Tail(@)]
  BY <1>1, <1>2, <1>3, <1>4, KindsOfLists DEF Blocked, TypeOK
<1>7. Counting!Unblock(s)
  BY <1>5, <1>6 DEF Counting!Unblock
<1> QED
  BY <1>2, <1>7 DEF Counting!Next

\* Every step of the kernel is a step of the counting semaphores or a stutter.
LEMMA StepImplements ==
  ASSUME KernelInvariant, [Next]_vars
  PROVE  [Counting!Next]_(Counting!vars)
<1>1. ASSUME UNCHANGED value, \A s \in Spins : fifo'[WaitList(s)] = fifo[WaitList(s)]
      PROVE  UNCHANGED Counting!vars
  <2>1. Permits' = Permits
    BY <1>1 DEF Permits
  <2>2. Blocked' = Blocked
    BY <1>1 DEF Blocked
  <2> QED
    BY <2>1, <2>2 DEF Counting!vars
<1>2. ASSUME NEW c \in Cores, ThreadStep(c), UNCHANGED <<value, now, alarms>>
      PROVE  UNCHANGED Counting!vars
  BY <1>1, <1>2, ThreadKeepsWaiters
<1>3. ASSUME NEW c \in Cores, SemaphoreStep(c)
      PROVE  Counting!Next \/ UNCHANGED Counting!vars
  <2>1. CASE VWakeup(c)
    <3>1. TypeOK /\ node[c] \in Threads /\ Insert(ReadyList(node[c]), node[c])
      BY <2>1, ShapeFacts DEF KernelInvariant, TypeInv, VWakeup, WakeupInsert, HandLocations
    <3> QED
      BY <1>1, <2>1, <3>1, KindsOfLists, ListsExist, InsertElsewhere DEF VWakeup
  <2>2. CASE (\E s \in Spins : P(c, s) \/ V(c, s)) \/ Acquire(c) \/ VRelease(c)
    BY <1>1, <2>2 DEF P, V, Acquire, VRelease
  <2>3. CASE PSleep(c) \/ VWake(c)
    <3>1. UNCHANGED value
      BY <2>3 DEF PSleep, VWake
    <3> QED
      BY <2>3, <3>1, PSleepImplements, VWakeImplements
  <2>4. CASE PBody(c) \/ VBody(c)
    BY <2>4, PBodyImplements, VBodyImplements
  <2> QED
    BY <1>3, <2>1, <2>2, <2>3, <2>4 DEF SemaphoreStep, SemaphoreKernelStep
<1>4. ASSUME NEW c \in Cores, AlarmStep(c), UNCHANGED value
      PROVE  UNCHANGED Counting!vars
  BY <1>1, <1>4, AlarmKeepsWaiters
<1>5. CASE TimePasses /\ UNCHANGED value
  BY <1>1, <1>5 DEF TimePasses, threadVars
<1>6. CASE UNCHANGED vars
  BY <1>1, <1>6 DEF vars, threadVars
<1> QED
  BY <1>2, <1>3, <1>4, <1>5, <1>6 DEF Next, PoweredOff

\* The boot state is an initial state of the counting semaphores.
LEMMA InitImplements ==
  ASSUME Init
  PROVE  Counting!Init
<1>1. KernelInvariant /\ value = InitialValue
  BY KernelInit DEF Init, SemaphoreInit
<1>2. Permits = InitialValue
  BY <1>1, SemaphoreAssumption DEF Permits
<1>3. ASSUME NEW s \in Spins
      PROVE  fifo[WaitList(s)] = <<>>
  <2>1. fifo[WaitList(s)] \in Seq(Threads)
    BY <1>1, ListsExist DEF KernelInvariant, TypeInv, TypeOK
  <2>2. Len(fifo[WaitList(s)]) = 0
    <3>1. \A l : l # "run" => ~InStep(l, s)
      BY DEF Init, ThreadInit, InStep
    <3> QED
      BY <1>1, <3>1, SemaphoreAssumption DEF KernelInvariant, WaitersCounted, Owed
  <2> QED
    BY <2>1, <2>2
<1>4. Blocked = [s \in Spins |-> <<>>]
  BY <1>3 DEF Blocked
<1> QED
  BY <1>2, <1>4 DEF Counting!Init

\* Semaphore::p and Semaphore::v implement a counting semaphore that hands the
\* permit of v() to the longest waiting thread.
THEOREM SemaphoreRefinement == Spec => ImplementsCountingSemaphore
<1>1. Init => Counting!Init
  BY InitImplements
<1>2. KernelInvariant /\ [Next]_vars => [Counting!Next]_(Counting!vars)
  BY StepImplements
<1> QED
  BY <1>1, <1>2, KernelInvariantHolds, PTL
  DEF Spec, ImplementsCountingSemaphore, Counting!Spec

-----------------------------------------------------------------------------
(* Idle threads, and the asserts.                                           *)

\* An idle thread is no thread of the program, and its run queue is no list
\* but the IDLE queue of the cores it serves.
LEMMA IdleFacts ==
  /\ Idle \subseteq Threads /\ Normal \subseteq Threads
  /\ Idle \cap Normal = {} /\ None \notin Idle
  /\ \A t \in Threads : t \in Normal <=> t \notin Idle
  /\ \A t \in Idle : ReadyList(t) \in IdleLists /\ ReadyList(t) \in Lists
  /\ \A t \in Idle, c \in Cores :
       /\ ReadyList(t) # NormalOf(c)
       /\ ReadyList(t) = IdleOf(c) => Home[t] = Source[c]
       /\ Home[t] = Source[c] => ReadyList(t) = IdleOf(c)
BY ThreadAssumption, ListsExist
DEF Threads, ReadyList, IdleLists, NormalOf, IdleOf

\* IdleInvariant is kept by a step of core c that neither blocks nor ends an
\* idle thread, and that hands it on from c's queue to c and back.
LEMMA IdleStepOfCore ==
  ASSUME
    KernelInvariant, IdleInvariant, NEW c \in Cores, OthersUnchanged(c),
    \A t \in Idle : state'[t] \in {"READY", "RUNNING"},
    \A t \in Idle : InList(t, ReadyList(t)) =>
      InList(t, ReadyList(t))' \/ (Source[c] = Home[t] /\ Holds(c, t)'),
    \A t \in Idle : Holds(c, t) => InList(t, ReadyList(t))' \/ Holds(c, t)',
    \A t, u \in Idle : Holds(c, t)' /\ Holds(c, u)' => t = u,
    pc'[c] # "assert",
    pc'[c] \in {"create", "v_wakeup", "alarm_wakeup"} => node'[c] \in Normal
  PROVE IdleInvariant'
<1>1. IdleAtHome /\ OneIdleEach /\ HandIsNormal /\ NoAssertFails
  BY DEF IdleInvariant
<1>2. IdleAtHome'
  BY <1>1, HoldsFrame DEF IdleAtHome
<1>3. OneIdleEach'
  BY <1>1, HoldsFrame, IdleFacts DEF OneIdleEach
<1>4. HandIsNormal' /\ NoAssertFails'
  BY <1>1 DEF HandIsNormal, NoAssertFails, OthersUnchanged
<1> QED
  BY <1>2, <1>3, <1>4 DEF IdleInvariant

\* The same for the steps that switch no thread.
LEMMA IdleQuietStep ==
  ASSUME
    KernelInvariant, IdleInvariant, NEW c \in Cores, OthersUnchanged(c),
    cpu'[c] = cpu[c], node[c] \notin Idle, node'[c] \notin Idle,
    pc[c] \notin {"epilogue", "finish"},
    pc'[c] \notin {"epilogue", "finish", "assert"},
    \A t \in Idle : state'[t] \in {"READY", "RUNNING"},
    \A t \in Idle : InList(t, ReadyList(t)) => InList(t, ReadyList(t))',
    pc'[c] \in {"create", "v_wakeup", "alarm_wakeup"} => node'[c] \in Normal
  PROVE IdleInvariant'
<1>1. \A t \in Idle : Holds(c, t)' <=> Holds(c, t)
  BY DEF Holds
<1>2. \A t, u \in Idle : Holds(c, t)' /\ Holds(c, u)' => t = u
  BY <1>1 DEF IdleInvariant, OneIdleEach
<1> QED
  BY <1>1, <1>2, IdleStepOfCore

\* What a thread is linked into and unlinked from, as far as idle threads go.
LEMMA IdleLinks ==
  ASSUME TypeOK, NEW l \in Lists,
         \/ UNCHANGED fifo
         \/ \E t \in Threads : Insert(l, t)
         \/ Remove(l) /\ l \notin IdleLists
  PROVE  \A t \in Idle : InList(t, ReadyList(t)) => InList(t, ReadyList(t))'
<1>1. CASE UNCHANGED fifo
  BY <1>1 DEF InList
<1>2. ASSUME NEW u \in Threads, Insert(l, u)
      PROVE  \A t \in Idle : InList(t, ReadyList(t)) => InList(t, ReadyList(t))'
  BY <1>2, InsertLinks, IdleFacts DEF TypeOK
<1>3. CASE Remove(l) /\ l \notin IdleLists
  <2>1. \A m \in Lists \ {l} : fifo'[m] = fifo[m]
    BY <1>3 DEF Remove, TypeOK
  <2> QED
    BY <1>3, <2>1, IdleFacts DEF InList
<1> QED
  BY <1>1, <1>2, <1>3

\* The thread that a core has in hand to make it ready is not idle.
LEMMA HandFacts ==
  ASSUME KernelInvariant, IdleInvariant, NEW c \in Cores
  PROVE  /\ pc[c] \in HandLocations \ {"dispatch"} => node[c] \in Normal
         /\ pc[c] \notin {"dispatch", "load"} => node[c] \notin Idle
         /\ pc[c] # "assert"
         /\ \A t \in Idle : state[t] \in {"READY", "RUNNING"}
<1>1. TypeOK /\ CoreShape(c) /\ pc[c] # "assert"
  BY DEF KernelInvariant, TypeInv, IdleInvariant, NoAssertFails
<1>2. pc[c] \in HandLocations \ {"dispatch"} => node[c] \in Normal
  BY DEF IdleInvariant, HandIsNormal, HandLocations
<1>3. pc[c] \notin {"dispatch", "load"} => node[c] \notin Idle
  BY <1>1, <1>2, IdleFacts DEF CoreShape
<1> QED
  BY <1>1, <1>2, <1>3 DEF IdleInvariant, IdleAtHome

\* The steps of module Thread that leave all lists alone and keep the core's
\* threads.
LEMMA IdlePlainStep ==
  ASSUME KernelInvariant, IdleInvariant, NEW c \in Cores, OthersUnchanged(c),
         pc[c] \in PlainLocations, pc'[c] \in PlainLocations,
         UNCHANGED <<cpu, node, fifo>>,
         \A t \in Idle : state'[t] = state[t]
  PROVE  IdleInvariant'
<1>1. /\ node[c] = None /\ None \notin Idle
      /\ \A t \in Idle : state[t] \in {"READY", "RUNNING"}
  BY PlainFacts, IdleFacts, HandFacts
<1>2. \A t \in Idle : InList(t, ReadyList(t)) => InList(t, ReadyList(t))'
  BY DEF InList
<1>3. /\ pc[c] \notin {"epilogue", "finish"}
      /\ pc'[c] \notin {"epilogue", "finish", "assert"}
      /\ pc'[c] \notin {"create", "v_wakeup", "alarm_wakeup"}
  BY DEF PlainLocations
<1> QED
  BY <1>1, <1>2, <1>3, IdleQuietStep

\* A core takes a node from its NORMAL queue, which holds no idle thread, or
\* from its IDLE queue while it holds no idle thread.
LEMMA IdleTakeStep ==
  ASSUME KernelInvariant, IdleInvariant, NEW c \in Cores, OthersUnchanged(c),
         NEW l \in NormalLists \cup IdleLists, Take(c, l),
         l = NormalOf(c) \/ (l = IdleOf(c) /\ cpu[c] \notin Idle),
         pc[c] \notin {"epilogue", "finish", "dispatch", "load"},
         pc'[c] \in {"dispatch", "load"},
         UNCHANGED cpu,
         \A t \in Idle : state'[t] = state[t] \/ state'[t] \in {"READY", "RUNNING"}
  PROVE  IdleInvariant'
<1> DEFINE n == node'[c]
<1>1. /\ n \in Threads /\ \A d \in Cores : ~Holds(d, n)
      /\ \A m \in Lists, u \in Threads : InList(u, m)' <=> InList(u, m) /\ u # n
  BY TakeFacts
<1>2. TypeOK /\ l \in Lists /\ ReadyInQueue
  BY DEF KernelInvariant, TypeInv, Lists
<1>3. n \in Idle => l = ReadyList(n)
  <2>1. Remove(l) /\ node' = [node EXCEPT ![c] = Head(fifo[l])]
    BY DEF Take
  <2>2. Head(fifo[l]) \in Threads /\ InList(Head(fifo[l]), l)
    BY <1>2, <2>1, RemoveUnlinks DEF TypeOK
  <2>3. n = Head(fifo[l])
    BY <1>2, <2>1 DEF TypeOK
  <2> QED
    BY <1>2, <2>2, <2>3 DEF ReadyInQueue
<1>4. n \in Idle => l = IdleOf(c) /\ Home[n] = Source[c] /\ cpu[c] \notin Idle
  BY <1>3, IdleFacts
<1>5. /\ node[c] \notin Idle /\ \A t \in Idle : state[t] \in {"READY", "RUNNING"}
  BY HandFacts
<1>6. \A t \in Idle : Holds(c, t)' <=> cpu[c] = t \/ n = t
  BY DEF Holds
<1>7. \A t \in Idle : Holds(c, t) <=> cpu[c] = t
  BY <1>5 DEF Holds
<1> HIDE DEF n
<1>8. \A t \in Idle : InList(t, ReadyList(t)) =>
        InList(t, ReadyList(t))' \/ (Source[c] = Home[t] /\ Holds(c, t)')
  BY <1>1, <1>4, <1>6, IdleFacts
<1>9. \A t, u \in Idle : Holds(c, t)' /\ Holds(c, u)' => t = u
  BY <1>4, <1>6
<1>10. \A t \in Idle : Holds(c, t) => InList(t, ReadyList(t))' \/ Holds(c, t)'
  BY <1>6, <1>7
<1>11. /\ \A t \in Idle : state'[t] \in {"READY", "RUNNING"}
       /\ pc'[c] # "assert"
       /\ pc'[c] \notin {"create", "v_wakeup", "alarm_wakeup"}
  BY <1>5
<1> QED
  BY <1>8, <1>9, <1>10, <1>11, IdleStepOfCore

\* An IDLE queue is never found empty: the idle threads of a queue are as
\* many as the cores that remove from it, and the core that looks for one
\* holds none.
LEMMA IdleFound ==
  ASSUME KernelInvariant, IdleInvariant, NEW c \in Cores,
         pc[c] \in {"exit_idle", "sleep_idle", "run_idle"}
  PROVE  fifo[IdleOf(c)] # <<>>
<1> SUFFICES ASSUME fifo[IdleOf(c)] = <<>>
             PROVE  FALSE
  OBVIOUS
<1>1. PICK own \in [Cores -> Idle] :
        /\ \A d, e \in Cores : own[d] = own[e] => d = e
        /\ \A d \in Cores : Home[own[d]] = Source[d]
  BY IdleAssumption
<1> DEFINE Q == {d \in Cores : Source[d] = Source[c]}
<1>2. \A t \in Idle : ~Holds(c, t)
  <2>1. CoreShape(c)
    BY DEF KernelInvariant, TypeInv
  <2>2. cpu[c] \notin Idle /\ node[c] \notin Idle
    BY <2>1, IdleFacts
    DEF CoreShape, BootLocations, SleepLocations, HandLocations
  <2> QED
    BY <2>2 DEF Holds
<1>3. ASSUME NEW d \in Q
      PROVE  \E e \in Q \ {c} : Holds(e, own[d])
  <2>1. own[d] \in Idle /\ ReadyList(own[d]) = IdleOf(c)
    BY <1>1, IdleFacts
  <2>2. ~InList(own[d], IdleOf(c))
    BY DEF InList
  <2>3. PICK e \in Cores : Source[e] = Home[own[d]] /\ Holds(e, own[d])
    BY <2>1, <2>2 DEF IdleInvariant, IdleAtHome
  <2> QED
    BY <1>1, <1>2, <2>1, <2>3
<1> DEFINE f == [d \in Q |-> CHOOSE e \in Q \ {c} : Holds(e, own[d])]
<1>4. f \in [Q -> Q \ {c}] /\ \A d \in Q : Holds(f[d], own[d])
  BY <1>3
<1>5. /\ IsFiniteSet(Q) /\ IsFiniteSet(Q \ {c})
      /\ Cardinality(Q \ {c}) < Cardinality(Q)
  <2>0. Q \in SUBSET Cores
    OBVIOUS
  <2>1. IsFiniteSet(Q)
    BY <2>0, ThreadAssumption, FS_Subset
  <2>2. c \in Q
    OBVIOUS
  <2> HIDE DEF Q
  <2>3. IsFiniteSet(Q \ {c}) /\ Cardinality(Q \ {c}) = Cardinality(Q) - 1
    BY <2>1, <2>2, FS_RemoveElement
  <2> QED
    BY <2>1, <2>3, FS_CardinalityType
<1> HIDE DEF f
<1>6. PICK d, e \in Q : d # e /\ f[d] = f[e]
  <2> HIDE DEF Q
  <2> QED
    BY <1>4, <1>5, FS_PigeonHole
<1>7. own[d] = own[e]
  BY <1>1, <1>4, <1>6 DEF IdleInvariant, OneIdleEach
<1> QED
  BY <1>1, <1>6, <1>7
-----------------------------------------------------------------------------
(* The steps of the kernel, one by one.                                     *)

\* The steps of module Thread keep IdleInvariant.
LEMMA IdleThreadStep ==
  ASSUME KernelInvariant, IdleInvariant, TypeInv', NEW c \in Cores, ThreadStep(c),
         UNCHANGED <<value, now, alarms>>
  PROVE  IdleInvariant'
<1>0. /\ TypeOK /\ CoreShape(c) /\ StateShape(c)
      /\ OthersUnchanged(c)
  BY ThreadFrame DEF KernelInvariant, TypeInv
<1>1. ASSUME Tick(c) \/ Yield(c) \/ JoinLoop(c) \/ Exit(c) \/ IdleLoop(c) \/ Shutdown(c)
             \/ \E t \in Normal : Join(c, t)
      PROVE  IdleInvariant'
  <2>1. UNCHANGED <<cpu, node, fifo, state>>
    BY <1>1
    DEF Tick, Yield, JoinLoop, Exit, IdleLoop, Shutdown, Join, Proceed
  <2>2. pc[c] \in PlainLocations /\ pc'[c] \in PlainLocations
    BY <1>0, <1>1
    DEF Tick, Yield, JoinLoop, Exit, IdleLoop, Shutdown, Join, Proceed, InProgram,
        InJoin, Goto, TypeOK, PlainLocations
  <2> QED
    BY <1>0, <2>1, <2>2, IdlePlainStep
<1>2. CASE JoinReturn(c)
  <2>1. UNCHANGED <<pc, cpu, node, fifo>> /\ pc[c] \in PlainLocations
    BY <1>2 DEF JoinReturn, InJoin, PlainLocations
  <2>2. joining[heads[c]] \in Normal
    BY <1>0, <1>2, ShapeFacts DEF JoinReturn, InJoin, TypeOK, KernelInvariant
  <2>3. \A t \in Idle : state'[t] = state[t]
    BY <1>0, <1>2, <2>2, IdleFacts DEF JoinReturn, TypeOK
  <2> QED
    BY <1>0, <2>1, <2>3, IdlePlainStep
<1>3. ASSUME NEW t \in Normal, Create(c, t)
      PROVE  IdleInvariant'
  <2>1. /\ pc[c] = "user" /\ pc'[c] = "create" /\ node'[c] = t
        /\ UNCHANGED <<cpu, fifo>>
        /\ state' = [state EXCEPT ![t] = "READY"]
    BY <1>0, <1>3 DEF Create, InProgram, Goto, TypeOK
  <2>2. \A u \in Idle : state'[u] \in {"READY", "RUNNING"}
    BY <1>0, <2>1, HandFacts, IdleFacts DEF TypeOK
  <2>3. \A u \in Idle : InList(u, ReadyList(u)) => InList(u, ReadyList(u))'
    BY <2>1 DEF InList
  <2> QED
    BY <1>0, <2>1, <2>2, <2>3, HandFacts, IdleFacts, IdleQuietStep
<1>4. CASE CreateInsert(c)
  <2>1. /\ pc[c] = "create" /\ pc'[c] = "user" /\ node'[c] = None
        /\ UNCHANGED <<cpu, state>>
        /\ Insert(ReadyList(node[c]), node[c])
    BY <1>0, <1>4 DEF CreateInsert, Goto, TypeOK
  <2>2. node[c] \in Threads /\ ReadyList(node[c]) \in Lists
    BY <2>1, ShapeFacts, ListsExist DEF KernelInvariant, HandLocations
  <2>3. \A u \in Idle : InList(u, ReadyList(u)) => InList(u, ReadyList(u))'
    BY <1>0, <2>1, <2>2, IdleLinks
  <2> QED
    BY <1>0, <2>1, <2>3, HandFacts, IdleFacts, IdleQuietStep
<1>5. CASE Reschedule(c)
  <2>1. pc[c] = "reschedule" /\ UNCHANGED cpu /\ heads[c] = cpu[c] /\ cpu[c] \in Threads
    BY <1>5, ShapeFacts DEF Reschedule, KernelInvariant, BootLocations
  <2>2. CASE Take(c, NormalOf(c)) /\ state' = [state EXCEPT ![heads[c]] = "READY"]
             /\ Goto(c, "dispatch")
    <3>1. pc'[c] = "dispatch" /\ NormalOf(c) \in NormalLists \cup IdleLists
      BY <1>0, <2>2, KindsOfLists DEF Goto, TypeOK
    <3>2. \A t \in Idle : state'[t] = state[t] \/ state'[t] \in {"READY", "RUNNING"}
      BY <1>0, <2>2, IdleFacts DEF TypeOK
    <3> QED
      BY <1>0, <2>1, <2>2, <3>1, <3>2, IdleTakeStep
  <2>3. CASE Goto(c, Resume(heads[c])) /\ UNCHANGED <<fifo, node, heads, state>>
    <3>1. pc[c] \in PlainLocations /\ pc'[c] \in PlainLocations
      BY <1>0, <2>1, <2>3 DEF Goto, TypeOK, Resume, PlainLocations
    <3> QED
      BY <1>0, <2>1, <2>3, <3>1, IdlePlainStep
  <2> QED
    BY <1>5, <2>2, <2>3 DEF Reschedule
<1>6. CASE RemoveNormal(c)
  <2>1. PICK caller \in {"exit", "sleep", "run"} :
          /\ pc[c] = caller
          /\ \/ Take(c, NormalOf(c)) /\ Removed(c, caller)
             \/ /\ Goto(c, IdleRetry[caller])
                /\ UNCHANGED <<fifo, node, heads, state>>
    BY <1>6, IdleRetryFacts DEF RemoveNormal
  <2>2. UNCHANGED cpu /\ (caller = "exit" => heads[c] \in Normal)
    BY <1>0, <1>6, <2>1
    DEF RemoveNormal, CoreShape
  <2>3. CASE Take(c, NormalOf(c)) /\ Removed(c, caller)
    <3>1. pc'[c] \in {"dispatch", "load"} /\ NormalOf(c) \in NormalLists \cup IdleLists
      BY <1>0, <2>3, KindsOfLists DEF Removed, Goto, TypeOK
    <3>2. \A t \in Idle : state'[t] = state[t]
      BY <1>0, <2>2, <2>3, IdleFacts DEF Removed, TypeOK
    <3> QED
      BY <1>0, <2>1, <2>2, <2>3, <3>1, <3>2, IdleTakeStep
  <2>4. CASE Goto(c, IdleRetry[caller]) /\ UNCHANGED <<fifo, node, heads, state>>
    <3>1. pc'[c] \in {"exit_idle", "sleep_idle", "run_idle"}
      BY <1>0, <2>4, IdleRetryFacts DEF Goto, TypeOK
    <3>2. \A u \in Idle : InList(u, ReadyList(u)) => InList(u, ReadyList(u))'
      BY <2>4 DEF InList
    <3> QED
      BY <1>0, <2>1, <2>2, <2>4, <3>1, <3>2, HandFacts, IdleQuietStep
  <2> QED
    BY <2>1, <2>3, <2>4
<1>7. CASE RemoveIdle(c)
  <2>1. PICK caller \in {"exit", "sleep", "run"} :
          /\ pc[c] = IdleRetry[caller]
          /\ \/ Take(c, IdleOf(c)) /\ Removed(c, caller)
             \/ fifo[IdleOf(c)] = <<>>
    BY <1>7, IdleRetryFacts DEF RemoveIdle
  <2>2. pc[c] \in {"exit_idle", "sleep_idle", "run_idle"}
    BY <2>1, IdleRetryFacts
  <2>3. Take(c, IdleOf(c)) /\ Removed(c, caller)
    BY <2>1, <2>2, IdleFound
  <2>4. UNCHANGED cpu /\ cpu[c] \notin Idle /\ (caller = "exit" => heads[c] \in Normal)
    BY <1>0, <1>7, <2>1, <2>2, IdleFacts, IdleRetryFacts
    DEF RemoveIdle, CoreShape, BootLocations, SleepLocations
  <2>5. pc'[c] \in {"dispatch", "load"} /\ IdleOf(c) \in NormalLists \cup IdleLists
    BY <1>0, <2>3, KindsOfLists DEF Removed, Goto, TypeOK
  <2>6. \A t \in Idle : state'[t] = state[t]
    BY <1>0, <2>3, <2>4, IdleFacts DEF Removed, TypeOK
  <2> QED
    BY <1>0, <2>2, <2>3, <2>4, <2>5, <2>6, IdleTakeStep
<1>8. CASE Load(c)
  <2>1. /\ pc[c] = "load" /\ UNCHANGED <<state, fifo>> /\ cpu'[c] = node[c]
        /\ node'[c] = None /\ pc'[c] \in {"user", "epilogue"} /\ cpu[c] = None
        /\ s_previous[c] = None /\ s_previous'[c] = None
    BY <1>0, <1>8 DEF Load, Goto, TypeOK, CoreShape, BootLocations
  <2>2. \A t \in Idle : Holds(c, t)' <=> Holds(c, t)
    BY <2>1, IdleFacts DEF Holds
  <2>3. \A u \in Idle : InList(u, ReadyList(u)) => InList(u, ReadyList(u))'
    BY <2>1 DEF InList
  <2>4. \A t, u \in Idle : Holds(c, t)' /\ Holds(c, u)' => t = u
    BY <2>2 DEF IdleInvariant, OneIdleEach
  <2> QED
    BY <1>0, <2>1, <2>2, <2>3, <2>4, HandFacts, IdleStepOfCore
<1>9. CASE Dispatch(c)
  <2>1. pc[c] = "dispatch" /\ node[c] # None /\ node[c] # cpu[c] /\ node[c] \in Threads
    BY <1>0, <1>9, ShapeFacts
    DEF Dispatch, CoreShape, StateShape, HandLocations, KernelInvariant
  <2>2. /\ UNCHANGED fifo /\ cpu'[c] = node[c] /\ node'[c] = None
        /\ s_previous'[c] = cpu[c] /\ pc'[c] = "epilogue"
        /\ state' = [state EXCEPT ![node[c]] = "RUNNING"]
    BY <1>0, <1>9, <2>1 DEF Dispatch, Goto, TypeOK
  <2>3. \A t \in Idle : Holds(c, t)' <=> Holds(c, t)
    BY <2>1, <2>2, IdleFacts DEF Holds
  <2>4. \A u \in Idle : InList(u, ReadyList(u)) => InList(u, ReadyList(u))'
    BY <2>2 DEF InList
  <2>5. \A t, u \in Idle : Holds(c, t)' /\ Holds(c, u)' => t = u
    BY <2>3 DEF IdleInvariant, OneIdleEach
  <2>6. \A t \in Idle : state'[t] \in {"READY", "RUNNING"}
    BY <1>0, <2>2, HandFacts, IdleFacts DEF TypeOK
  <2> QED
    BY <1>0, <2>2, <2>3, <2>4, <2>5, <2>6, IdleStepOfCore
<1>10. CASE Epilogue(c)
  <2>1. /\ pc[c] = "epilogue" /\ UNCHANGED <<cpu, node, s_previous, state>>
        /\ node[c] = None /\ s_previous[c] \in Threads
    BY <1>0, <1>10, ShapeFacts
    DEF Epilogue, CoreShape, HandLocations, KernelInvariant
  <2>2. \A t \in Idle : Holds(c, t)' => Holds(c, t)
    BY <2>1 DEF Holds
  <2>3. \A t, u \in Idle : Holds(c, t)' /\ Holds(c, u)' => t = u
    BY <2>2 DEF IdleInvariant, OneIdleEach
  <2>4. UNCHANGED fifo \/ Insert(ReadyList(s_previous[c]), s_previous[c])
    BY <1>10 DEF Epilogue
  <2>5. \A u \in Idle : InList(u, ReadyList(u)) => InList(u, ReadyList(u))'
    BY <1>0, <2>1, <2>4, ListsExist, IdleLinks
  <2>6. s_previous[c] \in Idle => state[s_previous[c]] = "READY"
    BY <1>0, <2>1, HandFacts DEF StateShape
  <2>7. s_previous[c] \in Idle => InList(s_previous[c], ReadyList(s_previous[c]))'
    <3>1. CASE state[s_previous[c]] = "READY"
      <4>1. Insert(ReadyList(s_previous[c]), s_previous[c])
        BY <1>10, <3>1 DEF Epilogue
      <4> QED
        BY <1>0, <2>1, <4>1, ListsExist, InsertLinks DEF TypeOK
    <3> QED
      BY <2>6, <3>1
  <2>8. \A t \in Idle : Holds(c, t) => InList(t, ReadyList(t))' \/ Holds(c, t)'
    BY <2>1, <2>7, IdleFacts DEF Holds
  <2>9. pc'[c] \in {"user", "alarm", "finish"}
    BY <1>0, <1>10, <2>1 DEF Epilogue, StateShape, Goto, Resume, TypeOK
  <2> QED
    BY <1>0, <2>1, <2>3, <2>5, <2>8, <2>9, HandFacts, IdleStepOfCore
<1>11. CASE Finish(c)
  <2>1. /\ pc[c] = "finish" /\ UNCHANGED <<cpu, node, s_previous, fifo>>
        /\ state' = [state EXCEPT ![s_previous[c]] = "FINISHED"]
        /\ pc'[c] \in {"user", "alarm"} /\ node[c] = None
        /\ state[s_previous[c]] = "FINISHING"
    BY <1>0, <1>11
    DEF Finish, CoreShape, StateShape, HandLocations, Goto, Resume, TypeOK
  <2>2. s_previous[c] \notin Idle
    BY <2>1, HandFacts
  <2>3. \A t \in Idle : Holds(c, t)' <=> Holds(c, t)
    BY <2>1, <2>2 DEF Holds
  <2>4. \A u \in Idle : InList(u, ReadyList(u)) => InList(u, ReadyList(u))'
    BY <2>1 DEF InList
  <2>5. \A t, u \in Idle : Holds(c, t)' /\ Holds(c, u)' => t = u
    BY <2>3 DEF IdleInvariant, OneIdleEach
  <2>6. \A t \in Idle : state'[t] \in {"READY", "RUNNING"}
    BY <1>0, <2>1, <2>2, HandFacts, IdleFacts DEF TypeOK
  <2> QED
    BY <1>0, <2>1, <2>3, <2>4, <2>5, <2>6, IdleStepOfCore
<1> QED
  BY <1>1, <1>2, <1>3, <1>4, <1>5, <1>6, <1>7, <1>8, <1>9, <1>10, <1>11
  DEF ThreadStep, ProgramStep, KernelStep

\* Thread::wakeup hands over a thread of the program, and finds one.
LEMMA IdleWakeupStep ==
  ASSUME KernelInvariant, IdleInvariant, NEW c \in Cores, OthersUnchanged(c),
         NEW l \in WaitLists \cup AlarmLists, NEW t \in Threads, InList(t, l),
         pc[c] \in {"v_wake", "alarm"},
         NEW after \in {"v_wakeup", "alarm_wakeup"}, Wakeup(c, l, after),
         UNCHANGED cpu
  PROVE  IdleInvariant'
<1>1. /\ TypeOK /\ l \in Lists /\ fifo[l] # <<>> /\ l \notin IdleLists
      /\ WaitingInSemaphore /\ WaitingInAlarm
  BY DEF KernelInvariant, TypeInv, Lists, InList, WaitLists, AlarmLists, IdleLists
<1> DEFINE n == Head(fifo[l])
<1>2. /\ Remove(l) /\ node' = [node EXCEPT ![c] = n]
      /\ state' = [state EXCEPT ![n] = "READY"] /\ Goto(c, after)
  BY <1>1 DEF Wakeup
<1>3. n \in Threads /\ InList(n, l)
  BY <1>1, <1>2, RemoveUnlinks DEF TypeOK
<1>4. state[n] = "WAITING"
  BY <1>1, <1>3
  DEF WaitingInSemaphore, WaitingInAlarm, WaitLists, AlarmLists, WaitList, AlarmList
<1>5. n \in Normal
  BY <1>3, <1>4, HandFacts, IdleFacts
<1>6. node'[c] = n /\ pc'[c] = after
  BY <1>1, <1>2 DEF Goto, TypeOK
<1>7. \A u \in Idle : state'[u] \in {"READY", "RUNNING"}
  BY <1>1, <1>2, HandFacts, IdleFacts DEF TypeOK
<1>8. \A u \in Idle : InList(u, ReadyList(u)) => InList(u, ReadyList(u))'
  BY <1>1, <1>2, IdleLinks
<1> HIDE DEF n
<1> QED
  BY <1>5, <1>6, <1>7, <1>8, HandFacts, IdleFacts, IdleQuietStep

\* The steps of module Semaphore keep IdleInvariant: a semaphore whose value
\* is negative has a waiter for the assert of Thread::wakeup.
LEMMA IdleSemaphoreStep ==
  ASSUME KernelInvariant, IdleInvariant, TypeInv', NEW c \in Cores,
         SemaphoreStep(c), UNCHANGED <<now, alarms>>
  PROVE  IdleInvariant'
<1>0. TypeOK /\ CoreShape(c) /\ OthersUnchanged(c)
  BY SemaphoreFrame DEF KernelInvariant, TypeInv
<1>1. ASSUME UNCHANGED <<cpu, node, fifo, state>>,
             pc[c] \in {"user", "p_acquire", "v_acquire", "p", "v", "v_release"},
             pc'[c] \in {"user", "p_acquire", "v_acquire", "p", "v", "p_sleep", "v_wake"}
      PROVE  IdleInvariant'
  <2>1. \A u \in Idle : InList(u, ReadyList(u)) => InList(u, ReadyList(u))'
    BY <1>1 DEF InList
  <2> QED
    BY <1>0, <1>1, <2>1, HandFacts, IdleQuietStep
<1>2. ASSUME NEW s \in Spins, P(c, s) \/ V(c, s)
      PROVE  IdleInvariant'
  BY <1>0, <1>1, <1>2 DEF P, V, InProgram, Goto, TypeOK
<1>3. CASE Acquire(c)
  BY <1>0, <1>1, <1>3 DEF Acquire, Goto, TypeOK
<1>4. CASE PBody(c) \/ VBody(c)
  BY <1>0, <1>1, <1>4 DEF PBody, VBody, Release, Goto, TypeOK
<1>5. CASE PSleep(c)
  <2>1. /\ pc[c] = "p_sleep" /\ heads[c] \in Normal /\ lock[c] \in Spins
        /\ UNCHANGED <<cpu, node>>
    BY <1>0, <1>5 DEF PSleep, CoreShape, LockLocations
  <2>2. /\ pc'[c] = "sleep" /\ Insert(WaitList(lock[c]), heads[c])
        /\ state' = [state EXCEPT ![heads[c]] = "WAITING"]
    BY <1>0, <1>5 DEF PSleep, Sleep, Goto, TypeOK
  <2>3. \A u \in Idle : state'[u] \in {"READY", "RUNNING"}
    BY <1>0, <2>1, <2>2, HandFacts, IdleFacts DEF TypeOK
  <2>4. \A u \in Idle : InList(u, ReadyList(u)) => InList(u, ReadyList(u))'
    BY <1>0, <2>1, <2>2, ListsExist, IdleFacts, IdleLinks
  <2> QED
    BY <1>0, <2>1, <2>2, <2>3, <2>4, HandFacts, IdleQuietStep
<1>5a. CASE VWake(c)
  <2> DEFINE l == WaitList(lock[c])
  <2>1. /\ pc[c] = "v_wake" /\ lock[c] \in Spins /\ Wakeup(c, l, "v_wakeup")
        /\ UNCHANGED cpu
    BY <1>0, <1>5a DEF VWake, CoreShape, LockLocations
  <2>2. l \in WaitLists /\ l \in Lists
    BY <2>1 DEF WaitLists, WaitList, Lists
  <2>3. fifo[l] \in Seq(Threads) /\ Len(fifo[l]) > 0
    <3>1. value[lock[c]] \in Int /\ HoldsLock(c, lock[c])
      BY <1>0, <2>1, LockFacts DEF TypeOK
    <3> QED
      BY <1>0, <2>1, <2>2, <3>1, OwnerDecides DEF TypeOK
  <2>4. fifo[l][1] \in Threads /\ InList(fifo[l][1], l)
    BY <2>3 DEF InList
  <2> HIDE DEF l
  <2> QED
    BY <1>0, <2>1, <2>2, <2>4, IdleWakeupStep
<1>6. CASE VWakeup(c)
  <2>1. /\ pc[c] = "v_wakeup" /\ pc'[c] = "v_release" /\ node'[c] = None
        /\ UNCHANGED <<cpu, state>> /\ Insert(ReadyList(node[c]), node[c])
    BY <1>0, <1>6 DEF VWakeup, WakeupInsert, Goto, TypeOK
  <2>2. node[c] \in Threads
    BY <2>1, ShapeFacts DEF KernelInvariant, HandLocations
  <2>3. \A u \in Idle : InList(u, ReadyList(u)) => InList(u, ReadyList(u))'
    BY <1>0, <2>1, <2>2, ListsExist, IdleLinks
  <2> QED
    BY <1>0, <2>1, <2>3, HandFacts, IdleFacts, IdleQuietStep
<1>7. CASE VRelease(c)
  BY <1>0, <1>1, <1>7 DEF VRelease, Release, Goto, TypeOK
<1> QED
  BY <1>2, <1>3, <1>4, <1>5, <1>5a, <1>6, <1>7 DEF SemaphoreStep, SemaphoreKernelStep

\* The steps of module Alarm keep IdleInvariant: the thread of an alarm is in
\* the alarm's list.
LEMMA IdleAlarmStep ==
  ASSUME KernelInvariant, IdleInvariant, TypeInv', NEW c \in Cores,
         AlarmStep(c), UNCHANGED value
  PROVE  IdleInvariant'
<1>0. TypeOK /\ CoreShape(c) /\ OthersUnchanged(c)
  BY AlarmFrame DEF KernelInvariant, TypeInv
<1>1. ASSUME NEW us \in Deadlines, SleepUntil(c, us)
      PROVE  IdleInvariant'
  <2>1. /\ pc[c] = "user" /\ heads[c] \in Normal /\ UNCHANGED <<cpu, node>>
        /\ pc'[c] = "sleep" /\ Insert(AlarmList(heads[c]), heads[c])
        /\ state' = [state EXCEPT ![heads[c]] = "WAITING"]
    BY <1>0, <1>1 DEF SleepUntil, InProgram, Sleep, Goto, TypeOK
  <2>2. \A u \in Idle : state'[u] \in {"READY", "RUNNING"}
    BY <1>0, <2>1, HandFacts, IdleFacts DEF TypeOK
  <2>3. \A u \in Idle : InList(u, ReadyList(u)) => InList(u, ReadyList(u))'
    BY <1>0, <2>1, ListsExist, IdleFacts, IdleLinks
  <2> QED
    BY <1>0, <2>1, <2>2, <2>3, HandFacts, IdleQuietStep
<1>2. CASE Handler(c)
  <2>1. pc[c] = "alarm" /\ UNCHANGED cpu
    BY <1>2 DEF Handler
  <2>2. CASE alarms[c] # <<>> /\ Wakeup(c, AlarmList(Head(alarms[c])[1]), "alarm_wakeup")
    <3>0. alarms[c] \in Seq(Normal \X Nat)
      BY <1>0 DEF TypeOK
    <3>1. /\ Head(alarms[c]) = alarms[c][1] /\ 1 \in 1..Len(alarms[c])
          /\ Head(alarms[c]) \in Normal \X Nat
      BY <2>2, <3>0
    <3>2. PICK t \in Normal : t = Head(alarms[c])[1] /\ Alarmed(c, t)
      BY <3>1 DEF Alarmed, Sleeps
    <3>3. InList(t, AlarmList(t)) /\ t \in Threads /\ AlarmList(t) \in AlarmLists
      BY <3>2 DEF KernelInvariant, AlarmedSleeps, Threads, AlarmLists, AlarmList
    <3> QED
      BY <1>0, <2>1, <2>2, <3>2, <3>3, IdleWakeupStep
  <2>3. CASE Goto(c, "user") /\ UNCHANGED <<fifo, node, state>>
    <3>1. pc[c] \in PlainLocations /\ pc'[c] \in PlainLocations
      BY <1>0, <2>1, <2>3 DEF Goto, TypeOK, PlainLocations
    <3> QED
      BY <1>0, <2>1, <2>3, <3>1, IdlePlainStep
  <2> QED
    BY <1>2, <2>2, <2>3 DEF Handler
<1>3. CASE HandlerWakeup(c)
  <2>1. /\ pc[c] = "alarm_wakeup" /\ pc'[c] = "alarm" /\ node'[c] = None
        /\ UNCHANGED <<cpu, state>> /\ Insert(ReadyList(node[c]), node[c])
    BY <1>0, <1>3 DEF HandlerWakeup, WakeupInsert, Goto, TypeOK
  <2>2. node[c] \in Threads
    BY <2>1, ShapeFacts DEF KernelInvariant, HandLocations
  <2>3. \A u \in Idle : InList(u, ReadyList(u)) => InList(u, ReadyList(u))'
    BY <1>0, <2>1, <2>2, ListsExist, IdleLinks
  <2> QED
    BY <1>0, <2>1, <2>3, HandFacts, IdleFacts, IdleQuietStep
<1> QED
  BY <1>1, <1>2, <1>3 DEF AlarmStep, AlarmKernelStep

\* IdleInvariant holds at boot: every idle thread is in its IDLE queue.
LEMMA IdleInit ==
  ASSUME Init
  PROVE  IdleInvariant
<1>1. /\ \A c \in Cores : /\ pc[c] = "run" /\ cpu[c] = None /\ node[c] = None
      /\ \A t \in Idle : state[t] = "READY"
      /\ fifo = Boot
  BY IdleFacts DEF Init, ThreadInit, BootThreads
<1>2. \A t \in Idle : InList(t, ReadyList(t))
  BY <1>1, BootAssumption DEF InList, BootThreads
<1>3. \A t \in Idle, c \in Cores : ~Holds(c, t)
  BY <1>1, IdleFacts DEF Holds
<1> QED
  BY <1>1, <1>2, <1>3
  DEF IdleInvariant, IdleAtHome, OneIdleEach, HandIsNormal, NoAssertFails

\* Every step of the kernel keeps IdleInvariant.
LEMMA IdleStep ==
  ASSUME KernelInvariant, IdleInvariant, [Next]_vars
  PROVE  IdleInvariant'
<1>1. TypeInv'
  BY TypeStep DEF KernelInvariant
<1>2. ASSUME UNCHANGED threadVars
      PROVE  IdleInvariant'
  BY <1>2
  DEF threadVars, IdleInvariant, IdleAtHome, OneIdleEach, HandIsNormal, NoAssertFails,
      InList, Holds
<1> QED
  BY <1>1, <1>2, IdleThreadStep, IdleSemaphoreStep, IdleAlarmStep
  DEF Next, TimePasses, PoweredOff, vars

\* No assert of Thread.cpp or Scheduler.hpp ever fails: the core that has
\* nothing else to run finds an idle thread, Thread::dispatch never switches
\* to its caller, and Thread::wakeup is called for a waiting thread only.
THEOREM AssertsHold == Spec => []NoAssertFails
<1>1. Init => IdleInvariant
  BY IdleInit
<1>2. KernelInvariant /\ IdleInvariant /\ [Next]_vars => IdleInvariant'
  BY IdleStep
<1>3. IdleInvariant => NoAssertFails
  BY DEF IdleInvariant
<1> QED
  BY <1>1, <1>2, <1>3, KernelInvariantHolds, PTL DEF Spec

-----------------------------------------------------------------------------
(* Thread::s_count, and the shutdown it decides.                            *)

\* The threads that exist and have not finished, and the cores between the
\* epilogue's decrement of s_count and its store of FINISHED.
Alive     == {t \in Threads : state[t] \notin {"NONE", "FINISHED"}}
Finishing == {c \in Cores : pc[c] = "finish"}

\* The kernel only changes the state of threads it refers to, and those are
\* not finished.
LEMMA AliveFrame ==
  ASSUME KernelInvariant, NEW c \in Cores,
         \/ UNCHANGED state
         \/ \E t \in Threads, v \in States \ {"NONE", "FINISHED"} :
              /\ cpu[c] = t \/ node[c] = t \/ \E l \in Lists : InList(t, l)
              /\ state' = [state EXCEPT ![t] = v]
  PROVE  Alive' = Alive
<1>1. CASE UNCHANGED state
  BY <1>1 DEF Alive
<1>2. ASSUME NEW t \in Threads, NEW v \in States \ {"NONE", "FINISHED"},
             cpu[c] = t \/ node[c] = t \/ \E l \in Lists : InList(t, l),
             state' = [state EXCEPT ![t] = v]
      PROVE  Alive' = Alive
  <2>1. state[t] \notin {"NONE", "FINISHED"}
    BY <1>2, GoneIsUnreachable DEF FinishedIsUnreachable
  <2>2. state \in [Threads -> States]
    BY DEF KernelInvariant, TypeInv, TypeOK
  <2>3. \A u \in Threads : state'[u] = IF u = t THEN v ELSE state[u]
    BY <1>2, <2>2
  <2> QED
    BY <1>2, <2>1, <2>3 DEF Alive
<1> QED
  BY <1>1, <1>2

\* What a step of core c does to the threads and their count.
Quiet(c) ==
  /\ Alive' = Alive /\ s_count' = s_count
  /\ pc[c] # "finish" /\ pc'[c] # "finish"

Creates(c, t) ==
  /\ InProgram(c) /\ t \in Threads \ Alive
  /\ Alive' = Alive \cup {t} /\ s_count' = s_count + 1
  /\ pc[c] # "finish" /\ pc'[c] # "finish"

Uncounts(c) ==
  /\ Alive' = Alive /\ s_count' = s_count - 1
  /\ pc[c] # "finish" /\ pc'[c] = "finish"

Finishes(c) ==
  /\ s_previous[c] \in Alive
  /\ Alive' = Alive \ {s_previous[c]} /\ s_count' = s_count
  /\ pc[c] = "finish" /\ pc'[c] # "finish"

Life(c) == Quiet(c) \/ (\E t \in Normal : Creates(c, t)) \/ Uncounts(c) \/ Finishes(c)

\* Only Thread::idle leads to the shutdown.
MayShutDown(c) ==
  pc'[c] \in {"barrier", "off"} =>
    \/ pc[c] \in {"barrier", "off"}
    \/ pc[c] = "user" /\ s_count <= Cardinality(Cores)

\* The steps of module Thread: the constructor counts the thread it creates,
\* the epilogue of an exited thread uncounts it before it stores FINISHED.
LEMMA ThreadLife ==
  ASSUME KernelInvariant, IdleInvariant, NEW c \in Cores, ThreadStep(c)
  PROVE  Life(c) /\ MayShutDown(c)
<1>0. /\ TypeOK /\ CoreShape(c) /\ StateShape(c) /\ Cardinality(Cores) \in Nat
      /\ None \notin Threads
  BY ThreadAssumption, FS_CardinalityType DEF KernelInvariant, TypeInv
<1>00. States \ {"NONE", "FINISHED"} = {"RUNNING", "READY", "WAITING", "FINISHING"}
  BY DEF States
<1>1. ASSUME Tick(c) \/ Yield(c) \/ JoinLoop(c) \/ Exit(c) \/ IdleLoop(c) \/ Shutdown(c)
             \/ (\E t \in Normal : Join(c, t)) \/ CreateInsert(c)
      PROVE  Life(c) /\ MayShutDown(c)
  <2>1. UNCHANGED <<state, s_count>>
    BY <1>1
    DEF Tick, Yield, JoinLoop, Exit, IdleLoop, Shutdown, Join, Proceed, CreateInsert
  <2>2. pc[c] # "finish" /\ pc'[c] # "finish"
    BY <1>0, <1>1
    DEF Tick, Yield, JoinLoop, Exit, IdleLoop, Shutdown, Join, Proceed, InProgram,
        InJoin, Goto, TypeOK, CreateInsert
  <2>3. MayShutDown(c)
    <3>1. CASE IdleLoop(c)
      BY <1>0, <3>1 DEF IdleLoop, Proceed, Goto, TypeOK, MayShutDown
    <3>2. CASE Shutdown(c)
      BY <3>2 DEF Shutdown, MayShutDown
    <3> QED
      BY <1>0, <1>1, <3>1, <3>2
      DEF MayShutDown, Tick, Yield, JoinLoop, Exit, Join, Proceed, InProgram,
          InJoin, Goto, TypeOK, CreateInsert
  <2> QED
    BY <2>1, <2>2, <2>3, AliveFrame DEF Life, Quiet
<1>2. CASE JoinReturn(c)
  <2>1. /\ UNCHANGED <<pc, s_count>> /\ pc[c] = "user"
        /\ joining[heads[c]] \in Normal /\ joining[heads[c]] \in Threads
    BY <1>0, <1>2, ShapeFacts DEF JoinReturn, InJoin, TypeOK, KernelInvariant
  <2>2. Alive' = Alive
    BY <1>0, <1>2, <2>1 DEF JoinReturn, TypeOK, Alive
  <2> QED
    BY <2>1, <2>2 DEF Life, Quiet, MayShutDown
<1>3. ASSUME NEW t \in Normal, Create(c, t)
      PROVE  Life(c) /\ MayShutDown(c)
  <2>1. /\ pc[c] = "user" /\ pc'[c] = "create" /\ InProgram(c)
        /\ s_count' = s_count + 1
        /\ t \in Threads \ Alive
    BY <1>0, <1>3 DEF Create, InProgram, Goto, TypeOK, Alive, Threads
  <2>2. Alive' = Alive \cup {t}
    BY <1>0, <1>3, <2>1 DEF Create, TypeOK, Alive
  <2> QED
    BY <2>1, <2>2 DEF Life, Creates, MayShutDown
<1>4. CASE Reschedule(c)
  <2>1. cpu[c] \in Threads /\ heads[c] = cpu[c]
    BY <1>4, ShapeFacts DEF KernelInvariant, Reschedule, BootLocations
  <2>2. Alive' = Alive
    BY <1>00, <1>4, <2>1, AliveFrame DEF Reschedule
  <2>3. /\ s_count' = s_count /\ pc[c] = "reschedule"
        /\ pc'[c] \in {"dispatch", "user", "alarm"}
    BY <1>0, <1>4 DEF Reschedule, Goto, Resume, TypeOK
  <2> QED
    BY <2>2, <2>3 DEF Life, Quiet, MayShutDown
<1>5. CASE RemoveNormal(c) \/ RemoveIdle(c)
  <2>1. PICK caller \in {"exit", "sleep", "run"} :
          /\ pc[c] \in {caller, IdleRetry[caller]}
          /\ \/ Removed(c, caller)
             \/ /\ Goto(c, IdleRetry[caller]) \/ Goto(c, "assert")
                /\ UNCHANGED state
    BY <1>5, IdleRetryFacts DEF RemoveNormal, RemoveIdle
  <2>2. pc[c] \in {"exit", "exit_idle", "sleep", "sleep_idle", "run", "run_idle"}
    BY <2>1, IdleRetryFacts
  <2>3. /\ s_count' = s_count
        /\ pc'[c] \in {"exit_idle", "sleep_idle", "run_idle", "dispatch", "load", "assert"}
    BY <1>0, <1>5, <2>1, IdleRetryFacts DEF RemoveNormal, RemoveIdle, Removed, Goto, TypeOK
  <2>4. Alive' = Alive
    <3>1. CASE UNCHANGED state
      BY <3>1, AliveFrame
    <3>2. CASE caller = "exit" /\ state' = [state EXCEPT ![heads[c]] = "FINISHING"]
      <4>1. cpu[c] \in Threads /\ heads[c] = cpu[c]
        BY <2>1, <3>2, IdleRetryFacts, ShapeFacts DEF KernelInvariant, BootLocations
      <4> QED
        BY <1>00, <3>2, <4>1, AliveFrame
    <3> QED
      BY <2>1, <3>1, <3>2 DEF Removed
  <2> QED
    BY <2>2, <2>3, <2>4 DEF Life, Quiet, MayShutDown
<1>6. CASE Load(c)
  <2>1. /\ pc[c] = "load" /\ pc'[c] \in {"user", "epilogue"}
        /\ UNCHANGED <<state, s_count>>
    BY <1>0, <1>6 DEF Load, Goto, TypeOK
  <2> QED
    BY <2>1, AliveFrame DEF Life, Quiet, MayShutDown
<1>7. CASE Dispatch(c)
  <2>1. pc[c] = "dispatch" /\ node[c] \in Threads
    BY <1>7, ShapeFacts DEF Dispatch, KernelInvariant, HandLocations
  <2>2. Alive' = Alive
    BY <1>00, <1>7, <2>1, AliveFrame DEF Dispatch
  <2>3. s_count' = s_count /\ pc'[c] \in {"assert", "epilogue"}
    BY <1>0, <1>7 DEF Dispatch, Goto, TypeOK
  <2> QED
    BY <2>1, <2>2, <2>3 DEF Life, Quiet, MayShutDown
<1>8. CASE Epilogue(c)
  <2>1. pc[c] = "epilogue" /\ UNCHANGED state
    BY <1>8 DEF Epilogue
  <2>2. \/ s_count' = s_count /\ pc'[c] \in {"user", "alarm", "assert"}
        \/ s_count' = s_count - 1 /\ pc'[c] = "finish"
    BY <1>0, <1>8 DEF Epilogue, Goto, Resume, TypeOK
  <2> QED
    BY <2>1, <2>2, AliveFrame DEF Life, Quiet, Uncounts, MayShutDown
<1>9. CASE Finish(c)
  <2>1. /\ pc[c] = "finish" /\ pc'[c] \in {"user", "alarm"} /\ s_count' = s_count
        /\ s_previous[c] \in Threads /\ state[s_previous[c]] = "FINISHING"
        /\ state' = [state EXCEPT ![s_previous[c]] = "FINISHED"]
    BY <1>0, <1>9, ShapeFacts
    DEF Finish, StateShape, Goto, Resume, TypeOK, KernelInvariant
  <2>2. s_previous[c] \in Alive /\ Alive' = Alive \ {s_previous[c]}
    BY <1>0, <2>1 DEF Alive, TypeOK
  <2> QED
    BY <2>1, <2>2 DEF Life, Finishes, MayShutDown
<1> QED
  BY <1>1, <1>2, <1>3, <1>4, <1>5, <1>6, <1>7, <1>8, <1>9
  DEF ThreadStep, ProgramStep, KernelStep

\* Semaphores and alarms neither create nor finish threads.
LEMMA BlockingLife ==
  ASSUME KernelInvariant, IdleInvariant, NEW c \in Cores,
         SemaphoreStep(c) \/ AlarmStep(c)
  PROVE  Quiet(c) /\ MayShutDown(c)
<1>0. /\ TypeOK /\ CoreShape(c) /\ None \notin Threads
  BY ThreadAssumption DEF KernelInvariant, TypeInv
<1>00. States \ {"NONE", "FINISHED"} = {"RUNNING", "READY", "WAITING", "FINISHING"}
  BY DEF States
<1>1. /\ s_count' = s_count /\ pc[c] \notin {"finish", "barrier", "off"}
      /\ pc'[c] \notin {"finish", "barrier", "off"}
  <2>1. ASSUME SemaphoreStep(c)
        PROVE  /\ s_count' = s_count /\ pc[c] \notin {"finish", "barrier", "off"}
               /\ pc'[c] \notin {"finish", "barrier", "off"}
    BY <1>0, <2>1
    DEF SemaphoreStep, SemaphoreKernelStep, P, V, Acquire, PBody, PSleep, VBody, VWake,
        VWakeup, VRelease, Release, Sleep, Wakeup, WakeupInsert, InProgram, Goto, TypeOK
  <2>2. ASSUME AlarmStep(c)
        PROVE  /\ s_count' = s_count /\ pc[c] \notin {"finish", "barrier", "off"}
               /\ pc'[c] \notin {"finish", "barrier", "off"}
    BY <1>0, <2>2
    DEF AlarmStep, AlarmKernelStep, SleepUntil, Handler, HandlerWakeup, Sleep, Wakeup,
        WakeupInsert, InProgram, Goto, TypeOK
  <2> QED
    BY <2>1, <2>2
<1>2. ASSUME NEW l \in Lists, Sleep(c, l), pc[c] \in {"p_sleep", "user"}
      PROVE  Alive' = Alive
  <2>1. cpu[c] \in Threads /\ heads[c] = cpu[c]
    BY <1>2, ShapeFacts DEF KernelInvariant, BootLocations
  <2> QED
    BY <1>00, <1>2, <2>1, AliveFrame DEF Sleep
<1>3. ASSUME NEW l \in Lists, NEW after, Wakeup(c, l, after)
      PROVE  Alive' = Alive
  <2>1. CASE Remove(l) /\ state' = [state EXCEPT ![Head(fifo[l])] = "READY"]
    <3>1. Head(fifo[l]) \in Threads /\ InList(Head(fifo[l]), l)
      BY <1>0, <2>1, RemoveUnlinks DEF TypeOK
    <3> QED
      BY <1>00, <2>1, <3>1, AliveFrame
  <2> QED
    BY <1>3, <2>1, AliveFrame DEF Wakeup
<1>4. CASE SemaphoreStep(c)
  <2>1. ASSUME PSleep(c) \/ VWake(c)
        PROVE  Alive' = Alive
    <3>1. lock[c] \in Spins /\ WaitList(lock[c]) \in Lists
      BY <2>1, ShapeFacts, ListsExist DEF PSleep, VWake, LockLocations, KernelInvariant
    <3>2. CASE PSleep(c)
      BY <1>2, <3>1, <3>2 DEF PSleep
    <3>3. CASE VWake(c)
      BY <1>3, <3>1, <3>3 DEF VWake
    <3> QED
      BY <2>1, <3>2, <3>3
  <2>2. ASSUME UNCHANGED state
        PROVE  Alive' = Alive
    BY <2>2, AliveFrame
  <2> QED
    BY <1>1, <1>4, <2>1, <2>2
    DEF Quiet, MayShutDown, SemaphoreStep, SemaphoreKernelStep, P, V, Acquire, PBody,
        VBody, VWakeup, VRelease
<1>5. CASE AlarmStep(c)
  <2>1. ASSUME NEW us \in Deadlines, SleepUntil(c, us)
        PROVE  Alive' = Alive
    <3>1. pc[c] = "user" /\ Sleep(c, AlarmList(heads[c])) /\ heads[c] \in Normal
      BY <2>1 DEF SleepUntil, InProgram
    <3> QED
      BY <1>2, <3>1, ListsExist
  <2>2. ASSUME Handler(c)
        PROVE  Alive' = Alive
    <3>1. CASE alarms[c] # <<>> /\ Wakeup(c, AlarmList(Head(alarms[c])[1]), "alarm_wakeup")
      <4>1. alarms[c] \in Seq(Normal \X Nat)
        BY <1>0 DEF TypeOK
      <4>2. Head(alarms[c]) \in Normal \X Nat
        BY <3>1, <4>1
      <4> QED
        BY <1>3, <3>1, <4>2, ListsExist
    <3>2. CASE UNCHANGED state
      BY <3>2, AliveFrame
    <3> QED
      BY <2>2, <3>1, <3>2 DEF Handler
  <2>3. ASSUME HandlerWakeup(c)
        PROVE  Alive' = Alive
    BY <2>3, AliveFrame DEF HandlerWakeup
  <2> QED
    BY <1>1, <1>5, <2>1, <2>2, <2>3 DEF Quiet, MayShutDown, AlarmStep, AlarmKernelStep
<1> QED
  BY <1>4, <1>5

\* CountIsExact, in terms of Alive and Finishing, which are finite.
LEMMA CountFacts ==
  /\ CountIsExact <=> s_count = Cardinality(Alive) - Cardinality(Finishing)
  /\ IsFiniteSet(Threads) /\ IsFiniteSet(Alive) /\ IsFiniteSet(Finishing)
  /\ Cardinality(Alive) \in Nat /\ Cardinality(Finishing) \in Nat
  /\ Cardinality(Cores) \in Nat
<1>1. IsFiniteSet(Threads)
  BY ThreadAssumption, FS_Union DEF Threads
<1>2. Alive \in SUBSET Threads /\ Finishing \in SUBSET Cores
  BY DEF Alive, Finishing
<1>3. IsFiniteSet(Alive) /\ IsFiniteSet(Finishing)
  BY <1>1, <1>2, ThreadAssumption, FS_Subset
<1>4. CountIsExact <=> s_count = Cardinality(Alive) - Cardinality(Finishing)
  BY DEF CountIsExact, Alive, Finishing
<1> QED
  BY <1>1, <1>3, <1>4, ThreadAssumption, FS_CardinalityType

\* A step of core c keeps the count exact.
LEMMA CountStep ==
  ASSUME CountIsExact, NEW c \in Cores, OthersUnchanged(c), Life(c)
  PROVE  CountIsExact'
<1>1. /\ s_count = Cardinality(Alive) - Cardinality(Finishing)
      /\ CountIsExact' <=> s_count' = Cardinality(Alive') - Cardinality(Finishing')
      /\ IsFiniteSet(Alive) /\ IsFiniteSet(Finishing)
      /\ Cardinality(Alive) \in Nat /\ Cardinality(Finishing) \in Nat
  <2>1. CountIsExact' <=> s_count' = Cardinality(Alive') - Cardinality(Finishing')
    BY DEF CountIsExact, Alive, Finishing
  <2> QED
    BY <2>1, CountFacts
<1>2. /\ (pc[c] = "finish" <=> pc'[c] = "finish") => Finishing' = Finishing
      /\ pc[c] # "finish" /\ pc'[c] = "finish" =>
           Finishing' = Finishing \cup {c} /\ c \notin Finishing
      /\ pc[c] = "finish" /\ pc'[c] # "finish" =>
           Finishing' = Finishing \ {c} /\ c \in Finishing
  BY DEF Finishing, OthersUnchanged
<1>3. CASE Quiet(c)
  BY <1>1, <1>2, <1>3 DEF Quiet
<1>4. ASSUME NEW t \in Normal, Creates(c, t)
      PROVE  CountIsExact'
  <2>1. /\ Finishing' = Finishing /\ Alive' = Alive \cup {t} /\ t \notin Alive
        /\ s_count' = s_count + 1
    BY <1>2, <1>4 DEF Creates
  <2>2. Cardinality(Alive \cup {t}) = Cardinality(Alive) + 1
    BY <1>1, <2>1, FS_AddElement
  <2> QED
    BY <1>1, <2>1, <2>2
<1>5. CASE Uncounts(c)
  <2>1. /\ Finishing' = Finishing \cup {c} /\ c \notin Finishing /\ Alive' = Alive
        /\ s_count' = s_count - 1
    BY <1>2, <1>5 DEF Uncounts
  <2>2. Cardinality(Finishing \cup {c}) = Cardinality(Finishing) + 1
    BY <1>1, <2>1, FS_AddElement
  <2> QED
    BY <1>1, <2>1, <2>2
<1>6. CASE Finishes(c)
  <2>1. /\ Finishing' = Finishing \ {c} /\ c \in Finishing
        /\ Alive' = Alive \ {s_previous[c]} /\ s_previous[c] \in Alive
        /\ s_count' = s_count
    BY <1>2, <1>6 DEF Finishes
  <2>2. Cardinality(Finishing \ {c}) = Cardinality(Finishing) - 1
    BY <1>1, <2>1, FS_RemoveElement
  <2>3. Cardinality(Alive \ {s_previous[c]}) = Cardinality(Alive) - 1
    BY <1>1, <2>1, FS_RemoveElement
  <2> QED
    BY <1>1, <2>1, <2>2, <2>3
<1> QED
  BY <1>3, <1>4, <1>5, <1>6 DEF Life

\* At boot the threads are the idle ones and Main.
LEMMA CountInit ==
  ASSUME Init
  PROVE  CountIsExact
<1>1. s_count = Cardinality(Cores) + 1 /\ Finishing = {}
  BY DEF Init, ThreadInit, Finishing
<1>2. Alive = Idle \cup {Main}
  BY ThreadAssumption DEF Init, ThreadInit, Alive, BootThreads, Threads
<1>3. Cardinality(Idle \cup {Main}) = Cardinality(Cores) + 1
  BY ThreadAssumption, FS_AddElement
<1> QED
  BY <1>1, <1>2, <1>3, CountFacts, FS_EmptySet

\* When s_count is that of the idle threads, every other thread that is left
\* is one whose epilogue has still to store FINISHED.
LEMMA CountDecides ==
  ASSUME KernelInvariant, IdleInvariant, CountIsExact, s_count <= Cardinality(Cores)
  PROVE  \A t \in Normal : t \in Alive => \E d \in Finishing : s_previous[d] = t
<1> DEFINE A == Alive \ Idle
           previous == [d \in Finishing |-> s_previous[d]]
<1>1. previous \in [Finishing -> A]
  <2>1. ASSUME NEW d \in Finishing
        PROVE  s_previous[d] \in A
    <3>1. /\ pc[d] = "finish" /\ s_previous[d] \in Threads
          /\ state[s_previous[d]] = "FINISHING"
      BY ShapeFacts DEF KernelInvariant, Finishing, StateShape
    <3> QED
      BY <3>1, HandFacts DEF Alive, Finishing
  <2> QED
    BY <2>1
<1>2. ASSUME NEW d \in Finishing, NEW e \in Finishing, previous[d] = previous[e]
      PROVE  d = e
  <2>1. s_previous[d] \in Threads /\ Holds(d, s_previous[d]) /\ Holds(e, s_previous[d])
    BY <1>2, ShapeFacts DEF KernelInvariant, Finishing, Holds
  <2> QED
    BY <2>1 DEF KernelInvariant, HeldByOneCore, Finishing
<1>3. previous \in Injection(Finishing, A)
  BY <1>1, <1>2 DEF Injection, IsInjective
<1>4. Alive = A \cup Idle /\ A \cap Idle = {} /\ A \in SUBSET Alive
  BY HandFacts, IdleFacts, ThreadAssumption DEF Alive
<1>5. /\ IsFiniteSet(A) /\ Cardinality(A) \in Nat
      /\ Cardinality(Alive) = Cardinality(A) + Cardinality(Cores)
  <2> HIDE DEF A
  <2>1. IsFiniteSet(A)
    BY <1>4, CountFacts, FS_Subset
  <2>2. Cardinality(Alive) = Cardinality(A) + Cardinality(Idle) - Cardinality(A \cap Idle)
    BY <1>4, <2>1, ThreadAssumption, FS_Union
  <2>3. Cardinality(A) \in Nat
    BY <2>1, FS_CardinalityType
  <2>4. Cardinality(A \cap Idle) = 0
    BY <1>4, FS_EmptySet
  <2>5. Cardinality(Idle) = Cardinality(Cores) /\ Cardinality(Cores) \in Nat
    BY CountFacts, ThreadAssumption
  <2> QED
    BY <2>1, <2>2, <2>3, <2>4, <2>5
<1>6. Cardinality(A) <= Cardinality(Finishing)
  <2> HIDE DEF A
  <2>1. s_count = Cardinality(Alive) - Cardinality(Finishing)
    BY CountFacts
  <2> QED
    BY <1>5, <2>1, CountFacts
<1>7. previous \in Surjection(Finishing, A)
  <2> HIDE DEF A, previous
  <2>1. /\ Cardinality(Finishing) <= Cardinality(A)
        /\ Cardinality(Finishing) = Cardinality(A) <=> previous \in Surjection(Finishing, A)
    BY <1>3, <1>5, FS_Injection
  <2> QED
    BY <1>5, <1>6, <2>1, CountFacts
<1>8. \A t \in A : \E d \in Finishing : previous[d] = t
  BY <1>7 DEF Surjection
<1> QED
  BY <1>8, IdleFacts

\* Once a core has left Thread::idle no thread of the program runs, so none
\* is created, and the ones that are left only finish.
LEMMA ShutdownStep ==
  ASSUME KernelInvariant, IdleInvariant, CountIsExact, ShutdownOnlyWhenDone,
         NEW c \in Cores, OthersUnchanged(c), Life(c), MayShutDown(c)
  PROVE  ShutdownOnlyWhenDone'
<1> SUFFICES ASSUME NEW b \in Cores, pc'[b] \in {"barrier", "off"},
                    NEW t \in Normal, t \in Alive'
             PROVE  \E d \in Cores : pc'[d] = "finish" /\ s_previous'[d] = t
  BY IdleFacts DEF ShutdownOnlyWhenDone, Alive
<1>1. \A u \in Normal : u \in Alive => \E d \in Finishing : s_previous[d] = u
  <2>1. CASE pc[b] \in {"barrier", "off"}
    BY <2>1 DEF ShutdownOnlyWhenDone, Alive, Finishing
  <2>2. CASE pc[b] \notin {"barrier", "off"}
    <3>1. s_count <= Cardinality(Cores)
      BY <2>2 DEF OthersUnchanged, MayShutDown
    <3> QED
      BY <3>1, CountDecides
  <2> QED
    BY <2>1, <2>2
<1>2. ASSUME NEW u \in Normal, Creates(c, u)
      PROVE  FALSE
  <2>1. /\ pc[c] = "user" /\ heads[c] \in Normal /\ cpu[c] = heads[c]
        /\ state[cpu[c]] \in {"READY", "RUNNING"}
    BY <1>2, PlainFacts DEF Creates, InProgram, PlainLocations
  <2>2. heads[c] \in Alive
    BY <2>1, IdleFacts DEF Alive
  <2>3. PICK d \in Finishing : s_previous[d] = heads[c]
    BY <1>1, <2>1, <2>2
  <2>4. state[s_previous[d]] = "FINISHING"
    BY DEF KernelInvariant, StateShape, Finishing
  <2> QED
    BY <2>1, <2>3, <2>4
<1>3. t \in Alive /\ ~(Finishes(c) /\ s_previous[c] = t)
  BY <1>2 DEF Life, Quiet, Uncounts, Finishes
<1>4. PICK d \in Finishing : s_previous[d] = t
  BY <1>1, <1>3
<1>5. d # c
  <2>1. CASE Finishes(c)
    BY <1>3, <1>4, <2>1
  <2>2. CASE ~Finishes(c)
    BY <1>2, <2>2 DEF Life, Quiet, Uncounts, Finishing
  <2> QED
    BY <2>1, <2>2
<1> QED
  BY <1>4, <1>5 DEF Finishing, OthersUnchanged

\* Every step of the kernel keeps the count exact and the shutdown final.
LEMMA CountsStep ==
  ASSUME KernelInvariant, IdleInvariant, CountIsExact, ShutdownOnlyWhenDone, [Next]_vars
  PROVE  CountIsExact' /\ ShutdownOnlyWhenDone'
<1>1. ASSUME NEW c \in Cores, ThreadStep(c) \/ SemaphoreStep(c) \/ AlarmStep(c)
      PROVE  CountIsExact' /\ ShutdownOnlyWhenDone'
  <2>1. OthersUnchanged(c)
    BY <1>1, ThreadFrame, SemaphoreFrame, AlarmFrame DEF KernelInvariant, TypeInv
  <2>2. Life(c) /\ MayShutDown(c)
    BY <1>1, ThreadLife, BlockingLife DEF Life
  <2> QED
    BY <2>1, <2>2, CountStep, ShutdownStep
<1>2. ASSUME UNCHANGED threadVars
      PROVE  CountIsExact' /\ ShutdownOnlyWhenDone'
  BY <1>2 DEF threadVars, CountIsExact, ShutdownOnlyWhenDone
<1> QED
  BY <1>1, <1>2 DEF Next, TimePasses, PoweredOff, vars

\* The invariants of threads, idle threads and counts together.
LEMMA CountsHold ==
  Spec => [](KernelInvariant /\ IdleInvariant /\ CountIsExact /\ ShutdownOnlyWhenDone)
<1>1. Init => IdleInvariant /\ CountIsExact /\ ShutdownOnlyWhenDone
  <2>1. Init => ShutdownOnlyWhenDone
    BY DEF Init, ThreadInit, ShutdownOnlyWhenDone
  <2> QED
    BY <2>1, IdleInit, CountInit
<1>2. KernelInvariant /\ IdleInvariant /\ CountIsExact /\ ShutdownOnlyWhenDone
        /\ [Next]_vars
        => IdleInvariant' /\ CountIsExact' /\ ShutdownOnlyWhenDone'
  BY IdleStep, CountsStep
<1> QED
  BY <1>1, <1>2, KernelInvariantHolds, PTL DEF Spec

\* Thread::s_count is the number of threads that have not finished, up to the
\* cores that are between its decrement and the store of FINISHED.
THEOREM CountExact == Spec => []CountIsExact
BY CountsHold, PTL

\* No core leaves Thread::idle for the shutdown while a thread of the program
\* is left, but for the store of FINISHED that its last core still owes it;
\* and no thread comes into existence afterwards.
THEOREM ShutsDownWhenDone == Spec => []ShutdownOnlyWhenDone
BY CountsHold, PTL

-----------------------------------------------------------------------------
(* The order of the alarms.                                                 *)

\* A set of natural numbers has a least element.
LEMMA LeastNatural ==
  ASSUME NEW T \in SUBSET Nat, T # {}
  PROVE  \E m \in T : \A k \in T : m <= k
<1>1. PICK m \in T : \A k \in T : ~(<<k, m>> \in OpToRel(<, Nat))
  BY NatLessThanWellFounded, WFMin
<1>2. \A k \in T : ~(k < m)
  BY <1>1 DEF OpToRel
<1> QED
  BY <1>2

\* The place OrderedList::insert chooses is behind all nodes up to the first
\* with a larger criterion.
LEMMA InitialSegment ==
  ASSUME NEW n \in Nat, NEW B \in SUBSET (1..n),
         \A i \in B : \A j \in 1..i : j \in B
  PROVE  /\ Cardinality(B) \in 0..n
         /\ B = 1..Cardinality(B)
<1> DEFINE T == {k \in Nat : k + 1 \notin B}
<1>1. PICK m \in T : \A k \in T : m <= k
  <2>1. n \in T
    OBVIOUS
  <2> QED
    BY <2>1, LeastNatural
<1>2. B = 1..m
  <2>1. ASSUME NEW i \in 1..m
        PROVE  i \in B
    <3>1. i - 1 \in Nat /\ ~(m <= i - 1) /\ (i - 1) + 1 = i
      BY <1>1
    <3> QED
      BY <1>1, <3>1
  <2>2. ASSUME NEW i \in B
        PROVE  i \in 1..m
    <3>1. m + 1 \in 1..i => m + 1 \in B
      OBVIOUS
    <3> QED
      BY <1>1, <3>1
  <2> QED
    BY <2>1, <2>2
<1>3. Cardinality(B) = m
  BY <1>1, <1>2, FS_Interval
<1>4. m <= n
  BY <1>1
<1> QED
  BY <1>1, <1>2, <1>3, <1>4

\* OrderedList::insert keeps a list in order, keeps every alarm and adds one.
LEMMA OrderedInsertOrders ==
  ASSUME NEW list \in Seq(Normal \X Nat), NEW a \in Normal \X Nat, Ordered(list)
  PROVE  /\ OrderedInsert(list, a) \in Seq(Normal \X Nat)
         /\ Ordered(OrderedInsert(list, a))
         /\ \E j \in 1..Len(OrderedInsert(list, a)) : OrderedInsert(list, a)[j] = a
         /\ \A i \in 1..Len(list) :
              \E j \in 1..Len(OrderedInsert(list, a)) : OrderedInsert(list, a)[j] = list[i]
<1> DEFINE B == {i \in 1..Len(list) : \A j \in 1..i : list[j][2] <= a[2]}
           b == Cardinality(B)
           front == SubSeq(list, 1, b)
           back == SubSeq(list, b + 1, Len(list))
           n == Len(list)
<1>1. n \in Nat /\ a[2] \in Nat /\ \A i \in 1..n : list[i] \in Normal \X Nat
  OBVIOUS
<1>2. b \in 0..n /\ B = 1..b
  <2>1. B \in SUBSET (1..n) /\ \A i \in B : \A j \in 1..i : j \in B
    BY <1>1
  <2> HIDE DEF B
  <2> QED
    BY <1>1, <2>1, InitialSegment
<1> HIDE DEF b
<1>3. ASSUME NEW i \in 1..b
      PROVE  list[i][2] <= a[2]
  <2>1. i \in B /\ i \in 1..i
    BY <1>2
  <2> QED
    BY <2>1
<1>4. \A i \in (b + 1)..n : a[2] <= list[i][2]
  <2> SUFFICES ASSUME NEW i \in (b + 1)..n
               PROVE  a[2] <= list[i][2]
    OBVIOUS
  <2>1. b + 1 \in 1..n /\ b + 1 \notin 1..b
    BY <1>1, <1>2
  <2>2. PICK j \in 1..(b + 1) : ~(list[j][2] <= a[2])
    BY <1>2, <2>1
  <2>3. j = b + 1
    BY <1>2, <1>3, <2>2
  <2>4. list[b + 1][2] <= list[i][2] /\ list[b + 1][2] \in Nat /\ list[i][2] \in Nat
    BY <1>1, <1>2, <2>1 DEF Ordered
  <2> QED
    BY <1>1, <2>2, <2>3, <2>4
<1>5. /\ front \in Seq(Normal \X Nat) /\ Len(front) = b
      /\ \A i \in 1..b : front[i] = list[i]
  <2>1. b \in Int /\ \A i \in 1..b : list[i] \in Normal \X Nat
    BY <1>1, <1>2
  <2>2. /\ front \in Seq(Normal \X Nat)
        /\ Len(front) = IF 1 <= b THEN b - 1 + 1 ELSE 0
        /\ \A i \in 1..(b - 1 + 1) : front[i] = list[1 + i - 1]
    BY <2>1, SubSeqProperties
  <2> QED
    BY <2>2, <1>2
<1>6. /\ back \in Seq(Normal \X Nat) /\ Len(back) = n - b
      /\ \A i \in 1..(n - b) : back[i] = list[b + i]
  <2>1. b + 1 \in Int /\ \A i \in (b + 1)..n : list[i] \in Normal \X Nat
    BY <1>1, <1>2
  <2>2. /\ back \in Seq(Normal \X Nat)
        /\ Len(back) = IF b + 1 <= n THEN n - (b + 1) + 1 ELSE 0
        /\ \A i \in 1..(n - (b + 1) + 1) : back[i] = list[(b + 1) + i - 1]
    BY <1>1, <2>1, SubSeqProperties
  <2> QED
    BY <2>2, <1>1, <1>2
<1>7. OrderedInsert(list, a) = front \o <<a>> \o back
  BY DEF OrderedInsert, b
<1> HIDE DEF front, back
<1> DEFINE new == front \o <<a>> \o back
<1>8. /\ new \in Seq(Normal \X Nat) /\ Len(new) = n + 1
      /\ \A i \in 1..b : new[i] = list[i]
      /\ new[b + 1] = a
      /\ \A i \in (b + 2)..(n + 1) : new[i] = list[i - 1]
  <2> DEFINE mid == front \o <<a>>
  <2>1. /\ mid \in Seq(Normal \X Nat) /\ Len(mid) = b + 1
        /\ \A i \in 1..b : mid[i] = list[i]
        /\ mid[b + 1] = a
    BY <1>2, <1>5
  <2> HIDE DEF mid
  <2>2. /\ mid \o back \in Seq(Normal \X Nat)
        /\ Len(mid \o back) = Len(mid) + Len(back)
        /\ \A i \in 1..(Len(mid) + Len(back)) :
             (mid \o back)[i] = IF i <= Len(mid) THEN mid[i] ELSE back[i - Len(mid)]
    BY <1>6, <2>1, ConcatProperties
  <2>3. new = mid \o back
    BY DEF mid
  <2> HIDE DEF new
  <2>4. Len(mid) + Len(back) = n + 1 /\ b \in Nat /\ b <= n
    BY <1>1, <1>2, <1>6, <2>1
  <2>5. \A i \in 1..(n + 1) :
          new[i] = IF i <= b + 1 THEN mid[i] ELSE back[i - (b + 1)]
    BY <2>1, <2>2, <2>3, <2>4
  <2>6. ASSUME NEW i \in (b + 2)..(n + 1)
        PROVE  new[i] = list[i - 1]
    <3>1. /\ i \in 1..(n + 1) /\ ~(i <= b + 1) /\ i - (b + 1) \in 1..(n - b)
          /\ b + (i - (b + 1)) = i - 1
      BY <1>1, <2>4
    <3>2. new[i] = back[i - (b + 1)]
      BY <2>5, <3>1
    <3>3. back[i - (b + 1)] = list[b + (i - (b + 1))]
      BY <1>6, <3>1
    <3> QED
      BY <3>1, <3>2, <3>3
  <2>7. ASSUME NEW i \in 1..(b + 1)
        PROVE  new[i] = mid[i]
    <3>1. i \in 1..(n + 1) /\ i <= b + 1
      BY <1>1, <2>4
    <3> QED
      BY <2>5, <3>1
  <2>8. ASSUME NEW i \in 1..b
        PROVE  new[i] = list[i]
    <3>1. i \in 1..(b + 1)
      BY <2>4
    <3>2. new[i] = mid[i] /\ mid[i] = list[i]
      BY <2>1, <2>7, <3>1
    <3> QED
      BY <3>2
  <2>9. new[b + 1] = a
    <3>1. b + 1 \in 1..(b + 1)
      BY <2>4
    <3> QED
      BY <2>1, <2>7, <3>1
  <2>10. new \in Seq(Normal \X Nat) /\ Len(new) = n + 1
    BY <2>2, <2>3, <2>4
  <2> QED
    BY <2>6, <2>8, <2>9, <2>10
<1> HIDE DEF new
<1>9. ASSUME NEW i \in 1..(n + 1)
      PROVE  /\ i <= b => new[i][2] = list[i][2] /\ i \in 1..n
             /\ i = b + 1 => new[i][2] = a[2]
             /\ i >= b + 2 => new[i][2] = list[i - 1][2] /\ i - 1 \in (b + 1)..n
             /\ i <= b \/ i = b + 1 \/ i >= b + 2
  <2>1. /\ i <= b => i \in 1..b /\ i \in 1..n
        /\ i >= b + 2 => i \in (b + 2)..(n + 1) /\ i - 1 \in (b + 1)..n
        /\ i <= b \/ i = b + 1 \/ i >= b + 2
    BY <1>1, <1>2
  <2> QED
    BY <1>8, <2>1
<1>10. Ordered(new)
  <2> SUFFICES ASSUME NEW i \in 1..(n + 1), NEW j \in 1..(n + 1), i <= j
               PROVE  new[i][2] <= new[j][2]
    BY <1>8 DEF Ordered
  <2>1. \A k \in 1..n : list[k][2] \in Nat
    BY <1>1
  <2>2. \A k, l \in 1..n : k <= l => list[k][2] <= list[l][2]
    BY DEF Ordered
  <2>3. b \in Nat /\ b <= n /\ \A k \in (b + 1)..n : k \in 1..n
    BY <1>1, <1>2
  <2>4. CASE i <= b
    <3>1. new[i][2] = list[i][2] /\ i \in 1..b /\ i \in 1..n
      BY <1>9, <2>3, <2>4
    <3>2. CASE j <= b
      BY <1>9, <2>2, <3>1, <3>2
    <3>3. CASE j = b + 1
      BY <1>9, <1>3, <3>1, <3>3
    <3>4. CASE j >= b + 2
      BY <1>9, <2>2, <2>3, <2>4, <3>1, <3>4
    <3> QED
      BY <1>9, <3>2, <3>3, <3>4
  <2>5. CASE i = b + 1
    <3>1. new[i][2] = a[2]
      BY <1>9, <2>5
    <3>2. CASE j = b + 1
      BY <1>1, <2>5, <3>1, <3>2
    <3>3. CASE j >= b + 2
      BY <1>9, <1>4, <3>1, <3>3
    <3> QED
      BY <1>9, <2>3, <2>5, <3>2, <3>3
  <2>6. CASE i >= b + 2
    <3>1. j >= b + 2 /\ i - 1 <= j - 1
      BY <2>3, <2>6
    <3> QED
      BY <1>9, <2>2, <2>3, <2>6, <3>1
  <2> QED
    BY <1>9, <2>4, <2>5, <2>6
<1>11. ASSUME NEW i \in 1..n
       PROVE  \E j \in 1..(n + 1) : new[j] = list[i]
  <2>1. CASE i <= b
    BY <1>1, <1>2, <1>8, <2>1
  <2>2. CASE i > b
    <3>1. i + 1 \in (b + 2)..(n + 1) /\ i + 1 \in 1..(n + 1) /\ (i + 1) - 1 = i
      BY <1>1, <1>2, <2>2
    <3> QED
      BY <1>8, <3>1
  <2> QED
    BY <1>1, <1>2, <2>1, <2>2
<1>12. b + 1 \in 1..(n + 1)
  BY <1>1, <1>2
<1> QED
  BY <1>7, <1>8, <1>10, <1>11, <1>12 DEF new

\* Without its head a list in order is in order, keeps every other alarm, and
\* none of them is earlier than the head.
LEMMA TailOrders ==
  ASSUME NEW list \in Seq(Normal \X Nat), list # <<>>, Ordered(list)
  PROVE  /\ Head(list) \in Normal \X Nat /\ Head(list) = list[1]
         /\ Tail(list) \in Seq(Normal \X Nat) /\ Ordered(Tail(list))
         /\ \A j \in 1..Len(Tail(list)) : list[1][2] <= Tail(list)[j][2]
         /\ \A i \in 1..Len(list) : i # 1 =>
              \E j \in 1..Len(Tail(list)) : Tail(list)[j] = list[i]
<1>1. /\ Len(list) \in Nat /\ Len(list) >= 1
      /\ Head(list) = list[1] /\ Head(list) \in Normal \X Nat
      /\ Tail(list) \in Seq(Normal \X Nat) /\ Len(Tail(list)) = Len(list) - 1
      /\ \A j \in 1..(Len(list) - 1) : Tail(list)[j] = list[j + 1]
  OBVIOUS
<1>2. \A j \in 1..(Len(list) - 1) : j + 1 \in 1..Len(list) /\ 1 \in 1..Len(list)
  BY <1>1
<1>3. Ordered(Tail(list))
  <2> SUFFICES ASSUME NEW i \in 1..(Len(list) - 1), NEW j \in 1..(Len(list) - 1), i <= j
               PROVE  Tail(list)[i][2] <= Tail(list)[j][2]
    BY <1>1 DEF Ordered
  <2>1. i + 1 <= j + 1
    OBVIOUS
  <2> QED
    BY <1>1, <1>2, <2>1 DEF Ordered
<1>4. \A j \in 1..Len(Tail(list)) : list[1][2] <= Tail(list)[j][2]
  <2> SUFFICES ASSUME NEW j \in 1..(Len(list) - 1)
               PROVE  list[1][2] <= Tail(list)[j][2]
    BY <1>1
  <2>1. 1 <= j + 1
    OBVIOUS
  <2> QED
    BY <1>1, <1>2, <2>1 DEF Ordered
<1>5. ASSUME NEW i \in 1..Len(list), i # 1
      PROVE  \E j \in 1..Len(Tail(list)) : Tail(list)[j] = list[i]
  <2>1. i - 1 \in 1..(Len(list) - 1) /\ (i - 1) + 1 = i
    BY <1>1, <1>5
  <2> QED
    BY <1>1, <2>1
<1> QED
  BY <1>1, <1>3, <1>4, <1>5

\* A product divided by one of its factors is the other.
LEMMA DivideProduct ==
  ASSUME NEW m \in Nat, NEW n \in Nat \ {0}
  PROVE  (m * n) \div n = m
OBVIOUS

\* A deadline whose conversion to nanoseconds does not wrap has passed when
\* Alarm::elapsed says so: it is converted exactly and is less than half of the
\* values of a word, so a clock behind it would make a negative difference.
LEMMA ElapsedIsDue ==
  ASSUME now \in Nat, NEW us \in Nat, elapsed(us), us * Nano < Word
  PROVE  us * Nano <= now * Micro
<1>1. PICK k \in 1..Nano : Nano = Micro * k
  BY AlarmAssumption
<1> DEFINE due == us * k
<1>2. Micro \in Nat /\ Micro >= 2 /\ Word \in Nat /\ Word > 0 /\ k \in Nat
  BY <1>1, AlarmAssumption
<1>3. due \in Nat /\ us * Nano = due * Micro
  BY <1>1, <1>2
<1> HIDE DEF due
<1>4. Convert(us, Micro, Nano) = due
  <2>1. due * Micro \in Nat /\ due * Micro < Word
    BY <1>2, <1>3
  <2>2. (due * Micro) % Word = due * Micro
    BY <1>2, <2>1
  <2> QED
    BY <1>2, <1>3, <2>2, DivideProduct DEF Convert
<1>5. 2 * due < Word
  <2>1. 2 * due <= due * Micro
    BY <1>2, <1>3
  <2> QED
    BY <1>2, <1>3, <2>1
<1>6. due <= now
  <2> SUFFICES ASSUME now < due  PROVE FALSE
    BY <1>3
  <2>1. now - due + Word \in 0..(Word - 1)
    BY <1>2, <1>3, <1>5
  <2>2. (now - due) % Word = now - due + Word
    BY <1>2, <1>3, <2>1
  <2>3. 2 * (now - due + Word) < Word
    BY <1>4, <2>2 DEF elapsed
  <2> QED
    BY <1>2, <1>3, <1>5, <2>3
<1> QED
  BY <1>2, <1>3, <1>6

\* No alarm of core c is removed but one that is due, or whose deadline wraps,
\* before all later ones.
DueFirst(c) ==
  \A i \in 1..Len(alarms[c]) :
    LET us == alarms[c][i][2]
    IN (\A j \in 1..Len(alarms'[c]) : alarms'[c][j] # alarms[c][i]) =>
         /\ us * Nano < Word => us * Nano <= now * Micro
         /\ \A j \in 1..Len(alarms'[c]) : us <= alarms'[c][j][2]

\* Every step keeps the lists of alarms in order and removes only alarms that
\* have elapsed: Alarm::handler removes the head, and puts it back if it has not.
LEMMA AlarmsStep ==
  ASSUME TypeOK, AlarmsOrdered, [Next]_vars
  PROVE  AlarmsOrdered' /\ \A c \in Cores : DueFirst(c)
<1>1. ASSUME NEW c \in Cores, \A d \in Cores \ {c} : alarms'[d] = alarms[d],
             Ordered(alarms'[c]), DueFirst(c)
      PROVE  AlarmsOrdered' /\ \A d \in Cores : DueFirst(d)
  <2> SUFFICES ASSUME NEW d \in Cores  PROVE Ordered(alarms'[d]) /\ DueFirst(d)
    BY DEF AlarmsOrdered, Ordered
  <2>1. CASE d = c
    BY <1>1, <2>1
  <2>2. CASE alarms'[d] = alarms[d]
    <3>1. Ordered(alarms'[d])
      BY <2>2 DEF AlarmsOrdered
    <3>2. DueFirst(d)
      BY <2>2 DEF DueFirst
    <3> QED
      BY <3>1, <3>2
  <2> QED
    BY <1>1, <2>1, <2>2
<1>2. ASSUME UNCHANGED alarms
      PROVE  AlarmsOrdered' /\ \A d \in Cores : DueFirst(d)
  BY <1>2 DEF AlarmsOrdered, DueFirst, Ordered
<1>3. ASSUME NEW c \in Cores, AlarmStep(c)
      PROVE  Ordered(alarms'[c]) /\ DueFirst(c)
  <2> DEFINE list == alarms[c]
             new == alarms'[c]
  <2>1. /\ list \in Seq(Normal \X Nat) /\ Ordered(list) /\ now \in Nat
        /\ alarms \in [Cores -> Seq(Normal \X Nat)]
    BY DEF TypeOK, AlarmsOrdered
  <2>2. ASSUME NEW us \in Deadlines, SleepUntil(c, us)
        PROVE  Ordered(new) /\ DueFirst(c)
    <3>1. <<heads[c], us>> \in Normal \X Nat
      BY <2>2, AlarmAssumption DEF SleepUntil, InProgram
    <3>2. new = OrderedInsert(list, <<heads[c], us>>)
      BY <2>1, <2>2 DEF SleepUntil
    <3> HIDE DEF list, new
    <3>3. Ordered(new) /\ \A i \in 1..Len(list) : \E j \in 1..Len(new) : new[j] = list[i]
      <4> DEFINE ins == OrderedInsert(list, <<heads[c], us>>)
      <4>1. Ordered(ins) /\ \A i \in 1..Len(list) : \E j \in 1..Len(ins) : ins[j] = list[i]
        BY <2>1, <3>1, OrderedInsertOrders, ZenonT(30)
      <4> HIDE DEF ins
      <4>2. new = ins
        BY <3>2 DEF ins
      <4> QED
        BY <4>1, <4>2
    <3> QED
      BY <3>3 DEF DueFirst, list, new
  <2>3. ASSUME list # <<>>, elapsed(Head(list)[2]), new = Tail(list)
        PROVE  Ordered(new) /\ DueFirst(c)
    <3> HIDE DEF list, new
    <3>1. /\ Head(list) = list[1] /\ Head(list) \in Normal \X Nat
          /\ Ordered(new)
          /\ \A j \in 1..Len(new) : list[1][2] <= new[j][2]
          /\ \A i \in 1..Len(list) : i # 1 => \E j \in 1..Len(new) : new[j] = list[i]
      BY <2>1, <2>3, TailOrders
    <3>2. list[1][2] * Nano < Word => list[1][2] * Nano <= now * Micro
      BY <2>1, <2>3, <3>1, ElapsedIsDue
    <3> QED
      BY <3>1, <3>2 DEF DueFirst, list, new
  <2>4. ASSUME list # <<>>, new = OrderedInsert(Tail(list), Head(list))
        PROVE  Ordered(new) /\ DueFirst(c)
    <3> HIDE DEF list, new
    <3> DEFINE tail == Tail(list)
               head == Head(list)
    <3>1. /\ head = list[1] /\ head \in Normal \X Nat
          /\ tail \in Seq(Normal \X Nat) /\ Ordered(tail)
          /\ \A i \in 1..Len(list) : i # 1 => \E j \in 1..Len(tail) : tail[j] = list[i]
      BY <2>1, <2>4, TailOrders
    <3> HIDE DEF tail, head
    <3>2. new = OrderedInsert(tail, head)
      BY <2>4 DEF tail, head
    <3>3. /\ Ordered(new)
          /\ \E j \in 1..Len(new) : new[j] = head
          /\ \A i \in 1..Len(tail) : \E j \in 1..Len(new) : new[j] = tail[i]
      <4> DEFINE ins == OrderedInsert(tail, head)
      <4>1. /\ Ordered(ins)
            /\ \E j \in 1..Len(ins) : ins[j] = head
            /\ \A i \in 1..Len(tail) : \E j \in 1..Len(ins) : ins[j] = tail[i]
        BY <3>1, OrderedInsertOrders, ZenonT(30)
      <4> HIDE DEF ins
      <4>2. new = ins
        BY <3>2 DEF ins
      <4> QED
        BY <4>1, <4>2
    <3>4. \A i \in 1..Len(list) : \E j \in 1..Len(new) : new[j] = list[i]
      BY <3>1, <3>3, SMTT(30)
    <3> QED
      BY <3>3, <3>4 DEF DueFirst, list, new
  <2>5. CASE UNCHANGED alarms
    BY <2>1, <2>5 DEF DueFirst
  <2>6. CASE Handler(c)
    BY <2>1, <2>3, <2>4, <2>5, <2>6 DEF Handler
  <2> QED
    BY <1>3, <2>2, <2>5, <2>6 DEF AlarmStep, AlarmKernelStep, HandlerWakeup
<1> QED
  BY <1>1, <1>2, <1>3, AlarmFrame DEF Next, TimePasses, PoweredOff, vars

\* An alarm leaves its core's list only when its time has come, unless its
\* deadline wraps in the conversion to nanoseconds, and never before one of a
\* smaller deadline (Alarm.cpp:8, 25-39, types.hpp:33).
THEOREM AlarmsDueFirst == Spec => AlarmsInOrder
<1>1. Init => AlarmsOrdered
  BY DEF Init, AlarmInit, AlarmsOrdered, Ordered
<1>2. TypeOK /\ AlarmsOrdered /\ [Next]_vars => AlarmsOrdered'
  BY AlarmsStep
<1>3. TypeOK /\ AlarmsOrdered /\ [Next]_vars => [\A c \in Cores : DueFirst(c)]_vars
  BY AlarmsStep
<1>4. Spec => [][\A c \in Cores : DueFirst(c)]_vars
  BY <1>1, <1>2, <1>3, TypesAreKept, PTL DEF Spec
<1> QED
  BY <1>4 DEF AlarmsInOrder, DueFirst
=============================================================================
