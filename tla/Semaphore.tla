----------------------------- MODULE Semaphore -----------------------------
(***************************************************************************)
(* include/Semaphore.hpp (and Mutex.hpp, a Semaphore(1)) over the threads  *)
(* of module Thread.  Each semaphore is named by its lock_; its waiting_   *)
(* list is WaitList(s).  Under lock_ the value and the list belong to the  *)
(* core that holds it, also while the caller of p() switches to another    *)
(* thread: the lock is released by the epilogue of the next thread.        *)
(***************************************************************************)
EXTENDS Thread

CONSTANTS
  InitialValue,  \* [Spins] the value each semaphore is constructed with
  MaxValue       \* bound: no v() on a semaphore that holds MaxValue permits

ASSUME SemaphoreAssumption ==
  /\ InitialValue \in [Spins -> Nat]
  /\ MaxValue \in Nat

VARIABLE value   \* [Spins] Semaphore::value_

SemaphoreInit == value = InitialValue

-----------------------------------------------------------------------------
\* p(): the guard disables interrupts, then the core spins for lock_.
P(c, s) ==
  /\ InProgram(c)
  /\ lock' = [lock EXCEPT ![c] = s]
  /\ Goto(c, "p_acquire")
  /\ UNCHANGED <<cpu, node, heads, s_previous, s_spin, s_count, state, context,
                 joining, ticking, locked, fifo, value>>

\* v(), called by a thread or by a trap handler in its context.
V(c, s) ==
  /\ pc[c] = "user" /\ value[s] < MaxValue
  /\ lock' = [lock EXCEPT ![c] = s]
  /\ Goto(c, "v_acquire")
  /\ UNCHANGED <<cpu, node, heads, s_previous, s_spin, s_count, state, context,
                 joining, ticking, locked, fifo, value>>

\* Mutant: the test and the store of the lock are not one step.
AcquireTaken(c) ==
  /\ pc[c] \in {"p_acquire", "v_acquire"}
  /\ locked' = [locked EXCEPT ![lock[c]] = TRUE]
  /\ Goto(c, IF pc[c] = "p_acquire" THEN "p" ELSE "v")
  /\ UNCHANGED <<cpu, node, lock, heads, s_previous, s_spin, s_count, state,
                 context, joining, ticking, fifo, value>>

\* Spin::acquire.
Acquire(c) ==
  /\ pc[c] \in {"p_acquire", "v_acquire"}
  /\ ~locked[lock[c]]
  /\ locked' = [locked EXCEPT ![lock[c]] = TRUE]
  /\ Goto(c, IF pc[c] = "p_acquire" THEN "p" ELSE "v")
  /\ UNCHANGED <<cpu, node, lock, heads, s_previous, s_spin, s_count, state,
                 context, joining, ticking, fifo, value>>

\* Spin::release at the end of p() or v(), and the guard's exit.
Release(c) ==
  /\ locked' = [locked EXCEPT ![lock[c]] = FALSE]
  /\ lock' = [lock EXCEPT ![c] = None]
  /\ Goto(c, "user")

\* Mutant: p() sleeps one call too late.
PBodyLate(c) ==
  /\ pc[c] = "p"
  /\ value' = [value EXCEPT ![lock[c]] = @ - 1]
  /\ \/ /\ value[lock[c]] < 0
        /\ Goto(c, "p_sleep")
        /\ UNCHANGED <<lock, locked>>
     \/ /\ value[lock[c]] >= 0
        /\ Release(c)
  /\ UNCHANGED <<cpu, node, heads, s_previous, s_spin, s_count, state, context,
                 joining, ticking, fifo>>

\* p(): fdec takes a permit, or owes the caller one.
PBody(c) ==
  /\ pc[c] = "p"
  /\ value' = [value EXCEPT ![lock[c]] = @ - 1]
  /\ \/ /\ value[lock[c]] < 1
        /\ Goto(c, "p_sleep")
        /\ UNCHANGED <<lock, locked>>
     \/ /\ value[lock[c]] >= 1
        /\ Release(c)
  /\ UNCHANGED <<cpu, node, heads, s_previous, s_spin, s_count, state, context,
                 joining, ticking, fifo>>

\* Mutant: lock_ is released before the switch, not by the epilogue.
PSleepUnlocked(c) ==
  /\ pc[c] = "p_sleep"
  /\ Sleep(c, WaitList(lock[c]))
  /\ locked' = [locked EXCEPT ![lock[c]] = FALSE]
  /\ lock' = [lock EXCEPT ![c] = LocalSpin]
  /\ UNCHANGED <<cpu, node, heads, s_previous, s_spin, s_count, context, joining,
                 ticking, value>>

\* p(): sleep with lock_ still held.
PSleep(c) ==
  /\ pc[c] = "p_sleep"
  /\ Sleep(c, WaitList(lock[c]))
  /\ UNCHANGED <<cpu, node, lock, heads, s_previous, s_spin, s_count, context,
                 joining, ticking, locked, value>>

\* v(): finc keeps the permit, or owes it to the first waiter.
VBody(c) ==
  /\ pc[c] = "v"
  /\ value' = [value EXCEPT ![lock[c]] = @ + 1]
  /\ \/ /\ value[lock[c]] < 0
        /\ Goto(c, "v_wake")
        /\ UNCHANGED <<lock, locked>>
     \/ /\ value[lock[c]] >= 0
        /\ Release(c)
  /\ UNCHANGED <<cpu, node, heads, s_previous, s_spin, s_count, state, context,
                 joining, ticking, fifo>>

\* v(): the first waiter leaves the list.
VWake(c) ==
  /\ pc[c] = "v_wake"
  /\ Wakeup(c, WaitList(lock[c]), "v_wakeup")
  /\ UNCHANGED <<cpu, lock, heads, s_previous, s_spin, s_count, context, joining,
                 ticking, locked, value>>

\* v(): the woken thread becomes ready while lock_ is still held.
VWakeup(c) ==
  /\ pc[c] = "v_wakeup"
  /\ WakeupInsert(c, "v_release")
  /\ UNCHANGED <<cpu, lock, heads, s_previous, s_spin, s_count, state, context,
                 joining, ticking, locked, value>>

VRelease(c) ==
  /\ pc[c] = "v_release"
  /\ Release(c)
  /\ UNCHANGED <<cpu, node, heads, s_previous, s_spin, s_count, state, context,
                 joining, ticking, fifo, value>>

-----------------------------------------------------------------------------
SemaphoreKernelStep(c) ==
  \/ PBody(c) \/ PSleep(c)
  \/ VBody(c) \/ VWake(c) \/ VWakeup(c) \/ VRelease(c)

SemaphoreStep(c) ==
  \/ \E s \in Spins : P(c, s) \/ V(c, s)
  \/ Acquire(c)
  \/ SemaphoreKernelStep(c)
=============================================================================
