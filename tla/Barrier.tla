------------------------------ MODULE Barrier ------------------------------
(***************************************************************************)
(* The sense-reversing CPU::barrier of architecture/common/CPU.hpp, where  *)
(* the cores meet once at boot (src/init.cpp) and twice before the         *)
(* shutdown (Thread::idle).  Module Thread takes a barrier as one step:    *)
(* here are its loads and stores, all of them atomic operations.           *)
(***************************************************************************)
EXTENDS Integers, FiniteSets

CONSTANTS
  Cores,   \* the Traits<CPU>::Active cores
  Rounds   \* bound: barriers each core goes through

ASSUME BarrierAssumption ==
  IsFiniteSet(Cores) /\ Cores # {} /\ Rounds \in Nat

VARIABLES
  gsense,   \* static volatile bool gsense
  ready,    \* static volatile int ready
  at,       \* [Cores] control point
  sense,    \* [Cores] local sense
  entered,  \* [Cores] barriers the core has reached (history)
  left      \* [Cores] barriers the core has left (history)

vars == <<gsense, ready, at, sense, entered, left>>

Init ==
  /\ gsense = TRUE
  /\ ready = Cardinality(Cores)
  /\ at = [c \in Cores |-> "out"]
  /\ sense = [c \in Cores |-> FALSE]
  /\ entered = [c \in Cores |-> 0]
  /\ left = [c \in Cores |-> 0]

\* Mutant: the core waits for the sense that the barrier already has.
EnterSameSense(c) ==
  /\ at[c] = "out" /\ entered[c] < Rounds
  /\ entered' = [entered EXCEPT ![c] = @ + 1]
  /\ sense' = [sense EXCEPT ![c] = gsense]
  /\ at' = [at EXCEPT ![c] = "arrive"]
  /\ UNCHANGED <<gsense, ready, left>>

\* The call, and sense = !load(gsense).
Enter(c) ==
  /\ at[c] = "out" /\ entered[c] < Rounds
  /\ entered' = [entered EXCEPT ![c] = @ + 1]
  /\ sense' = [sense EXCEPT ![c] = ~gsense]
  /\ at' = [at EXCEPT ![c] = "arrive"]
  /\ UNCHANGED <<gsense, ready, left>>

\* position = fdec(ready): the last core to arrive opens the barrier.
Arrive(c) ==
  /\ at[c] = "arrive"
  /\ ready' = ready - 1
  /\ at' = [at EXCEPT ![c] = IF ready = 1 THEN "reset" ELSE "wait"]
  /\ UNCHANGED <<gsense, sense, entered, left>>

\* Mutant: ready keeps the zero that the last core found.
ResetForgotten(c) ==
  /\ at[c] = "reset"
  /\ at' = [at EXCEPT ![c] = "open"]
  /\ UNCHANGED <<gsense, ready, sense, entered, left>>

\* store(ready, Active).
Reset(c) ==
  /\ at[c] = "reset"
  /\ ready' = Cardinality(Cores)
  /\ at' = [at EXCEPT ![c] = "open"]
  /\ UNCHANGED <<gsense, sense, entered, left>>

\* store(gsense, sense), and the last core leaves.
Open(c) ==
  /\ at[c] = "open"
  /\ gsense' = sense[c]
  /\ left' = [left EXCEPT ![c] = @ + 1]
  /\ at' = [at EXCEPT ![c] = "out"]
  /\ UNCHANGED <<ready, sense, entered>>

\* The others leave when they load their own sense.
Wait(c) ==
  /\ at[c] = "wait" /\ gsense = sense[c]
  /\ left' = [left EXCEPT ![c] = @ + 1]
  /\ at' = [at EXCEPT ![c] = "out"]
  /\ UNCHANGED <<gsense, ready, sense, entered>>

Done == (\A c \in Cores : left[c] = Rounds) /\ UNCHANGED vars

Next ==
  \/ \E c \in Cores : Enter(c) \/ Arrive(c) \/ Reset(c) \/ Open(c) \/ Wait(c)
  \/ Done

\* A core inside the barrier goes on; nothing makes it enter one.
Fairness ==
  \A c \in Cores : WF_vars(Arrive(c) \/ Reset(c) \/ Open(c) \/ Wait(c))

Spec == Init /\ [][Next]_vars
FairSpec == Spec /\ Fairness

-----------------------------------------------------------------------------
\* No core leaves a barrier that another core has not reached, also when the
\* fast cores are already in the next one while the slow ones still wait.
BarrierSeparates == \A c, d \in Cores : left[c] <= entered[d]

\* Once every core has reached a barrier, every core leaves it: a core that
\* enters the next one never takes the wake-up of one that still waits.
EveryoneLeaves ==
  \A n \in 1..Rounds :
    (\A c \in Cores : entered[c] >= n) ~> (\A c \in Cores : left[c] >= n)
=============================================================================
