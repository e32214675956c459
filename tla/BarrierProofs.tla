--------------------------- MODULE BarrierProofs ---------------------------
(***************************************************************************)
(* CPU::barrier separates the rounds of any number of cores, for ever.     *)
(***************************************************************************)
EXTENDS Barrier, FiniteSetTheorems, TLAPS

TypeOK ==
  /\ gsense \in BOOLEAN
  /\ ready \in Int
  /\ at \in [Cores -> {"out", "arrive", "wait", "reset", "open"}]
  /\ sense \in [Cores -> BOOLEAN]
  /\ entered \in [Cores -> Nat]
  /\ left \in [Cores -> Nat]

\* After g openings: the cores that ready still counts.
Pending(g) == {c \in Cores : at[c] \in {"out", "arrive"} \/ left[c] < g}

\* A core is outside, in the barrier that is being gathered, or still
\* waiting in the one that the g-th opening opened.
CorePhase(c, g) ==
  \/ left[c] = g /\ at[c] = "out" /\ entered[c] = g
  \/ left[c] = g /\ at[c] # "out" /\ entered[c] = g + 1 /\ sense[c] = ~gsense
  \/ left[c] = g - 1 /\ at[c] = "wait" /\ entered[c] = g /\ sense[c] = gsense

\* c is the last to arrive: all others wait in the same barrier.
Last(c, g) ==
  /\ left[c] = g
  /\ \A d \in Cores \ {c} : at[d] = "wait" /\ left[d] = g

ReadyPhase(g) ==
  \/ /\ \A c \in Cores : at[c] \notin {"reset", "open"}
     /\ ready = Cardinality(Pending(g)) /\ Pending(g) # {}
  \/ \E c \in Cores : at[c] = "reset" /\ Last(c, g)
  \/ \E c \in Cores :
       at[c] = "open" /\ Last(c, g) /\ ready = Cardinality(Cores)

Phase(g) == (\A c \in Cores : CorePhase(c, g)) /\ ReadyPhase(g)

\* Each state lies between two openings of the barrier.
BarrierInvariant == TypeOK /\ \E g \in Nat : Phase(g)

-----------------------------------------------------------------------------
\* The barrier starts gathering all cores.
LEMMA BarrierInit == Init => BarrierInvariant
<1> SUFFICES ASSUME Init PROVE BarrierInvariant
  OBVIOUS
<1> USE BarrierAssumption
<1>1. TypeOK
  <2>1. Cardinality(Cores) \in Nat
    BY FS_CardinalityType
  <2> QED BY <2>1 DEF Init, TypeOK
<1>2. Pending(0) = Cores
  BY DEF Init, Pending
<1>3. Phase(0)
  BY <1>2 DEF Init, Phase, CorePhase, ReadyPhase
<1> QED BY <1>1, <1>3 DEF BarrierInvariant

\* The types are kept by every step.
LEMMA BarrierTypes == TypeOK /\ [Next]_vars => TypeOK'
<1> SUFFICES ASSUME TypeOK, [Next]_vars PROVE TypeOK'
  OBVIOUS
<1>0. Cardinality(Cores) \in Nat
  BY BarrierAssumption, FS_CardinalityType
<1>1. ASSUME NEW c \in Cores, Enter(c) PROVE TypeOK'
  BY <1>1 DEF TypeOK, Enter
<1>2. ASSUME NEW c \in Cores, Arrive(c) PROVE TypeOK'
  BY <1>2 DEF TypeOK, Arrive
<1>3. ASSUME NEW c \in Cores, Reset(c) PROVE TypeOK'
  BY <1>0, <1>3 DEF TypeOK, Reset
<1>4. ASSUME NEW c \in Cores, Open(c) PROVE TypeOK'
  BY <1>4 DEF TypeOK, Open
<1>5. ASSUME NEW c \in Cores, Wait(c) PROVE TypeOK'
  BY <1>5 DEF TypeOK, Wait
<1>6. ASSUME UNCHANGED vars PROVE TypeOK'
  BY <1>6 DEF TypeOK, vars
<1> QED BY <1>1, <1>2, <1>3, <1>4, <1>5, <1>6 DEF Next, Done

-----------------------------------------------------------------------------
\* A core enters the barrier that is being gathered: it stays pending.
LEMMA EnterPhase ==
  ASSUME TypeOK, NEW g \in Nat, Phase(g), NEW c \in Cores, Enter(c)
  PROVE  Phase(g)'
<1> USE DEF Enter, TypeOK
<1>1. \A d \in Cores : CorePhase(d, g)'
  BY DEF Phase, CorePhase
<1>2. Pending(g)' = Pending(g)
  BY DEF Pending
<1>3. ReadyPhase(g)'
  BY <1>2 DEF Phase, ReadyPhase, Last
<1> QED BY <1>1, <1>3 DEF Phase

\* A core arrives: ready still counts the others, or it was the last.
LEMMA ArrivePhase ==
  ASSUME TypeOK, NEW g \in Nat, Phase(g), NEW c \in Cores, Arrive(c)
  PROVE  Phase(g)'
<1> USE DEF Arrive, TypeOK
<1>1. \A d \in Cores : CorePhase(d, g)'
  BY DEF Phase, CorePhase
<1>2. /\ \A d \in Cores : at[d] \notin {"reset", "open"}
      /\ ready = Cardinality(Pending(g))
  BY DEF Phase, ReadyPhase, Last
<1>3. left[c] = g
  BY DEF Phase, CorePhase
<1>4. c \in Pending(g) /\ Pending(g)' = Pending(g) \ {c}
  BY <1>3 DEF Pending
<1>5. IsFiniteSet(Pending(g))
  BY BarrierAssumption, FS_Subset DEF Pending
<1>6. Cardinality(Pending(g)') = ready - 1 /\ IsFiniteSet(Pending(g)')
  BY <1>2, <1>4, <1>5, FS_RemoveElement
<1>7. CASE ready = 1
  <2>1. Pending(g)' = {}
    BY <1>6, <1>7, FS_EmptySet
  <2>2. \A d \in Cores \ {c} : at[d] = "wait" /\ left[d] = g
    BY <1>2, <1>4, <2>1 DEF Phase, CorePhase, Pending
  <2> QED BY <1>1, <1>3, <1>7, <2>2 DEF Phase, ReadyPhase, Last
<1>8. CASE ready # 1
  <2>1. Pending(g)' # {}
    BY <1>6, <1>8, FS_EmptySet
  <2> QED BY <1>1, <1>2, <1>6, <1>8, <2>1 DEF Phase, ReadyPhase
<1> QED BY <1>7, <1>8

\* The last core resets ready while all others wait.
LEMMA ResetPhase ==
  ASSUME TypeOK, NEW g \in Nat, Phase(g), NEW c \in Cores, Reset(c)
  PROVE  Phase(g)'
<1> USE DEF Reset, TypeOK
<1>1. \A d \in Cores : CorePhase(d, g)'
  BY DEF Phase, CorePhase
<1>2. Last(c, g)
  BY DEF Phase, ReadyPhase, Last
<1>3. Last(c, g)'
  BY <1>2 DEF Last
<1> QED BY <1>1, <1>3 DEF Phase, ReadyPhase

\* The opening starts the next phase, with every core pending.
LEMMA OpenPhase ==
  ASSUME TypeOK, NEW g \in Nat, Phase(g), NEW c \in Cores, Open(c)
  PROVE  Phase(g + 1)'
<1> USE DEF Open, TypeOK
<1>1. Last(c, g) /\ ready = Cardinality(Cores)
  BY DEF Phase, ReadyPhase, Last
<1>2. CorePhase(c, g + 1)'
  BY <1>1 DEF Phase, CorePhase, Last
<1>3. ASSUME NEW d \in Cores \ {c} PROVE CorePhase(d, g + 1)'
  BY <1>1 DEF Phase, CorePhase, Last
<1>4. Pending(g + 1)' = Cores
  BY <1>1 DEF Pending, Last
<1>5. ReadyPhase(g + 1)'
  BY <1>1, <1>4, BarrierAssumption DEF ReadyPhase, Last
<1> QED BY <1>2, <1>3, <1>5 DEF Phase

\* A waiting core only leaves the barrier that was opened: it stays pending.
LEMMA WaitPhase ==
  ASSUME TypeOK, NEW g \in Nat, Phase(g), NEW c \in Cores, Wait(c)
  PROVE  Phase(g)'
<1> USE DEF Wait, TypeOK
<1>1. left[c] = g - 1 /\ entered[c] = g
  BY DEF Phase, CorePhase
<1>2. \A d \in Cores : CorePhase(d, g)'
  BY <1>1 DEF Phase, CorePhase
<1>3. Pending(g)' = Pending(g)
  BY <1>1 DEF Pending
<1>4. ReadyPhase(g)'
  BY <1>1, <1>3 DEF Phase, ReadyPhase, Last
<1> QED BY <1>2, <1>4 DEF Phase

\* Every step keeps the phase or starts the next one.
LEMMA BarrierStep == BarrierInvariant /\ [Next]_vars => BarrierInvariant'
<1> SUFFICES ASSUME BarrierInvariant, [Next]_vars PROVE BarrierInvariant'
  OBVIOUS
<1>1. TypeOK /\ TypeOK'
  BY BarrierTypes DEF BarrierInvariant
<1>2. PICK g \in Nat : Phase(g)
  BY DEF BarrierInvariant
<1>3. ASSUME NEW c \in Cores, Enter(c) \/ Arrive(c) \/ Reset(c) \/ Wait(c)
      PROVE  Phase(g)'
  BY <1>1, <1>2, <1>3, EnterPhase, ArrivePhase, ResetPhase, WaitPhase
<1>4. ASSUME NEW c \in Cores, Open(c) PROVE Phase(g + 1)' /\ g + 1 \in Nat
  BY <1>1, <1>2, <1>4, OpenPhase
<1>5. ASSUME UNCHANGED vars PROVE Phase(g)'
  BY <1>2, <1>5 DEF Phase, CorePhase, ReadyPhase, Last, Pending, vars
<1> QED BY <1>1, <1>3, <1>4, <1>5 DEF BarrierInvariant, Next, Done

\* The phases are an invariant of the barrier.
THEOREM BarrierInvariantHolds == Spec => []BarrierInvariant
<1> QED BY BarrierInit, BarrierStep, PTL DEF Spec

\* CPU::barrier lets no core go before all have come, for every number of
\* cores and of barriers in a row.
THEOREM BarriersSeparate == Spec => []BarrierSeparates
<1>1. ASSUME BarrierInvariant PROVE BarrierSeparates
  <2>1. PICK g \in Nat : Phase(g)
    BY <1>1 DEF BarrierInvariant
  <2>2. \A c \in Cores : left[c] <= g /\ g <= entered[c]
    BY <1>1, <2>1 DEF BarrierInvariant, TypeOK, Phase, CorePhase
  <2> QED BY <1>1, <2>1, <2>2 DEF BarrierInvariant, TypeOK, BarrierSeparates
<1> QED BY <1>1, BarrierInvariantHolds, PTL
=============================================================================
