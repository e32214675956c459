--------------------------- MODULE DMARingProofs ---------------------------
(***************************************************************************)
(* The rings of DMARing for any number of threads, descriptors and frames: *)
(* what the worker receives, and what the device transmits.  The counters  *)
(* only grow and the slots are their remainders, so both invariants speak  *)
(* of positions: those between a tail and a head have different slots.     *)
(***************************************************************************)
EXTENDS DMARing, FiniteSetTheorems, SequenceTheorems, TLAPS

USE DMAAssumption

-----------------------------------------------------------------------------
(* Positions and their slots.                                              *)

\* A number is its quotient and its remainder.
LEMMA Division ==
  ASSUME NEW n \in Nat \ {0}, NEW x \in Int
  PROVE  /\ x % n \in 0..(n - 1)
         /\ \E k \in Int : x = n * k + (x % n)
<1> DEFINE k == x \div n
           r == x % n
<1>1. r \in 0..(n - 1)
  OBVIOUS
<1>2. k \in Int
  OBVIOUS
<1>3. x = n * k + r
  OBVIOUS
<1>4. QED  BY <1>1, <1>2, <1>3

\* A multiple of n between -n and n is zero.
LEMMA SmallMultiple ==
  ASSUME NEW n \in Nat \ {0}, NEW d \in Int, -n < n * d, n * d < n
  PROVE  d = 0
<1>1. ASSUME d >= 1  PROVE n * d >= n
  BY <1>1
<1>2. ASSUME d <= -1  PROVE n * d <= -n
  BY <1>2
<1>3. QED  BY <1>1, <1>2

\* There is one remainder in range.
LEMMA RemainderUnique ==
  ASSUME NEW n \in Nat \ {0}, NEW k \in Int, NEW r \in 0..(n - 1),
         NEW x \in Int, x = n * k + r
  PROVE  x % n = r
<1>1. PICK q \in Int : x = n * q + (x % n)
  BY Division
<1>2. x % n \in 0..(n - 1)
  BY Division
<1> DEFINE m == x % n
<1> HIDE DEF m
<1>3. m \in 0..(n - 1)
  BY <1>2 DEF m
<1>8. x = n * q + m
  BY <1>1 DEF m
<1>4. n * (k - q) = m - r
  BY <1>3, <1>8
<1>5. k - q = 0
  BY <1>3, <1>4, SmallMultiple
<1>6. m = r
  BY <1>3, <1>8, <1>5
<1>7. QED  BY <1>6 DEF m

\* Less than n positions apart, two positions have different slots.
LEMMA SlotsDiffer ==
  ASSUME NEW n \in Nat \ {0}, NEW p \in Int, NEW q \in Int,
         p < q, q < p + n
  PROVE  p % n # q % n
<1>1. PICK j \in Int : p = n * j + (p % n)
  BY Division
<1>2. PICK k \in Int : q = n * k + (q % n)
  BY Division
<1>3. p % n \in 0..(n - 1)
  BY Division
<1> SUFFICES ASSUME p % n = q % n  PROVE FALSE
  OBVIOUS
<1> DEFINE r == p % n
<1> HIDE DEF r
<1>4. r \in 0..(n - 1) /\ p = n * j + r /\ q = n * k + r
  BY <1>1, <1>2, <1>3 DEF r
<1>5. n * (k - j) = q - p
  BY <1>4
<1>6. k - j = 0
  BY <1>5, SmallMultiple
<1>7. QED  BY <1>5, <1>6

\* n positions in a row reach every slot.
LEMMA SlotReached ==
  ASSUME NEW n \in Nat \ {0}, NEW s \in Int, NEW d \in 0..(n - 1)
  PROVE  \E p \in s..(s + n - 1) : p % n = d
<1> DEFINE x == d - s
           r == x % n
<1>1. x \in Int
  OBVIOUS
<1> HIDE DEF x
<1>2. PICK k \in Int : x = n * k + r
  BY <1>1, Division
<1>3. r \in 0..(n - 1)
  BY <1>1, Division
<1> HIDE DEF r
<1> DEFINE p == s + r
<1>4. p \in Int /\ -k \in Int /\ p = n * (-k) + d /\ p \in s..(s + n - 1)
  BY <1>2, <1>3 DEF x
<1> HIDE DEF p
<1>5. p % n = d
  BY <1>4, RemainderUnique
<1>6. QED  BY <1>4, <1>5

\* The slot after that of a position is that of the next position.
LEMMA NextSlot ==
  ASSUME NEW n \in Nat \ {0}, NEW p \in Int
  PROVE  ((p % n) + 1) % n = (p + 1) % n
<1> DEFINE r == p % n
           q == p + 1
           s == r + 1
<1>1. PICK k \in Int : p = n * k + r
  BY Division
<1>2. r \in 0..(n - 1)
  BY Division
<1> HIDE DEF r
<1>3. q \in Int /\ q = n * k + s /\ s \in 1..n
  BY <1>1, <1>2
<1> HIDE DEF q, s
<1>4. s % n = q % n
  <2>1. CASE s \in 0..(n - 1)
    <3>1. s = n * 0 + s /\ s \in Int
      BY <1>3
    <3>2. s % n = s
      BY <2>1, <3>1, RemainderUnique
    <3>3. q % n = s
      BY <1>3, <2>1, RemainderUnique
    <3>4. QED  BY <3>2, <3>3
  <2>2. CASE s = n
    <3>1. s = n * 1 + 0 /\ s \in Int /\ q = n * (k + 1) + 0 /\ 0 \in 0..(n - 1)
      BY <1>3, <2>2
    <3>2. s % n = 0
      BY <3>1, RemainderUnique
    <3>3. q % n = 0
      BY <1>3, <3>1, RemainderUnique
    <3>4. QED  BY <3>2, <3>3
  <2>3. QED  BY <1>3, <2>1, <2>2
<1>5. QED  BY <1>4 DEF r, q, s

\* A position a whole round later has the same slot.
LEMMA SlotAround ==
  ASSUME NEW n \in Nat \ {0}, NEW p \in Int
  PROVE  (p + n) % n = p % n
<1> DEFINE r == p % n
           q == p + n
<1>1. PICK k \in Int : p = n * k + r
  BY Division
<1>2. r \in 0..(n - 1)
  BY Division
<1> HIDE DEF r
<1>3. q \in Int /\ q = n * (k + 1) + r
  BY <1>1, <1>2
<1> HIDE DEF q
<1>4. q % n = r
  BY <1>2, <1>3, RemainderUnique
<1>5. QED  BY <1>4 DEF q, r

-----------------------------------------------------------------------------
\* A sequence that agrees with another as far as it goes is a prefix of it.
LEMMA PrefixByEntries ==
  ASSUME NEW S, NEW s \in Seq(S), NEW t \in Seq(S), Len(s) <= Len(t),
         \A i \in 1..Len(s) : s[i] = t[i]
  PROVE  IsPrefix(s, t)
<1>1. Len(s) \in Nat /\ Len(t) \in Nat
  OBVIOUS
<1>2. \A i \in 1..Len(s) : SubSeq(s, 1, Len(s))[i] = s[i] /\ SubSeq(t, 1, Len(s))[i] = t[i]
  BY <1>1
<1>3. SubSeq(s, 1, Len(s)) = SubSeq(t, 1, Len(s))
  BY <1>1, <1>2
<1>4. QED  BY <1>3 DEF IsPrefix

-----------------------------------------------------------------------------
(* Receiving.                                                              *)

RxSlot(p) == p % ReceiveBufferCount

\* The worker holds a receive buffer.
Holding == worker \in {"notify", "release"}

ReceiveTypes ==
  /\ rxRing \in [RxSlots -> [buffer : RxSlots, own : BOOLEAN]]
  /\ rxMemory \in [RxSlots -> Nat]
  /\ rxHead \in Nat /\ rxTail \in Nat /\ rxPosition \in RxSlots
  /\ ri \in BOOLEAN /\ rbu \in BOOLEAN
  /\ worker \in {"p", "receive", "notify", "release"} /\ rxBuffer \in RxSlots
  /\ permits \in Nat /\ fresh \in Nat /\ uncounted \in Nat /\ arrivals \in Nat
  /\ accepted \in Seq(Nat) /\ handed \in Seq(Nat)

\* The positions from rx_head_ to rx_tail_ are a round, but for the one whose
\* buffer the worker holds; the device owns those that it has not filled.
ReceiveRing ==
  /\ \A d \in RxSlots : rxRing[d].buffer = d
  /\ rxPosition = RxSlot(Len(accepted))
  /\ rxTail = rxHead + ReceiveBufferCount - (IF Holding THEN 1 ELSE 0)
  /\ rxHead <= Len(accepted) /\ Len(accepted) <= rxTail
  /\ \A p \in rxHead..(rxTail - 1) : rxRing[RxSlot(p)].own <=> p >= Len(accepted)
  /\ Holding => rxBuffer = RxSlot(rxTail) /\ ~rxRing[rxBuffer].own

\* What the buffers hold, and what has been handed on.
ReceiveFrames ==
  /\ \A p \in rxHead..(Len(accepted) - 1) : rxMemory[RxSlot(p)] = accepted[p + 1]
  /\ worker = "notify" => rxHead > 0 /\ rxMemory[rxBuffer] = accepted[rxHead]
  /\ Len(handed) = rxHead - (IF worker = "notify" THEN 1 ELSE 0)
  /\ \A i \in 1..Len(handed) : handed[i] = accepted[i]

ReceiveInv ==
  ReceiveTypes /\ ReceiveRing /\ ReceiveFrames /\ BacklogOnlyByCoalescing

\* Slots of receive positions.
LEMMA RxSlotFacts ==
  /\ \A p \in Nat : RxSlot(p) \in RxSlots
  /\ \A p, q \in Nat : p < q /\ q < p + ReceiveBufferCount => RxSlot(p) # RxSlot(q)
  /\ \A p \in Nat : RxSlot(p + ReceiveBufferCount) = RxSlot(p)
  /\ \A p \in Nat : (RxSlot(p) + 1) % ReceiveBufferCount = RxSlot(p + 1)
<1>1. \A p \in Nat : p \in Int
  OBVIOUS
<1>2. QED
  BY <1>1, Division, SlotsDiffer, SlotAround, NextSlot DEF RxSlot, RxSlots

\* The initial states satisfy the receive invariant.
LEMMA ReceiveInit == Init => ReceiveInv
<1> SUFFICES ASSUME Init  PROVE ReceiveInv
  OBVIOUS
<1>1. ReceiveTypes
  <2>1. rxRing \in [RxSlots -> [buffer : RxSlots, own : BOOLEAN]]
    BY DEF Init
  <2>2. rxMemory \in [RxSlots -> Nat]
    BY DEF Init
  <2>3. 0 \in RxSlots
    BY DEF RxSlots
  <2>4. <<>> \in Seq(Nat)
    OBVIOUS
  <2>5. ReceiveBufferCount \in Nat
    OBVIOUS
  <2>6. QED  BY <2>1, <2>2, <2>3, <2>4, <2>5, Zenon DEF Init, ReceiveTypes
<1>2. \A p \in 0..(ReceiveBufferCount - 1) : RxSlot(p) \in RxSlots
  BY RxSlotFacts
<1>3. RxSlot(0) = 0
  BY RemainderUnique DEF RxSlot
<1>4. ReceiveRing
  BY <1>2, <1>3 DEF Init, ReceiveRing, Holding
<1>5. ReceiveFrames /\ BacklogOnlyByCoalescing
  BY DEF Init, ReceiveFrames, BacklogOnlyByCoalescing
<1>6. QED  BY <1>1, <1>4, <1>5 DEF ReceiveInv

\* A frame arrives.
LEMMA ArriveReceive ==
  ASSUME ReceiveInv, Arrive
  PROVE  ReceiveInv'
<1> DEFINE n == Len(accepted)
           d == RxSlot(n)
<1> USE DEF ReceiveInv, receiver
<1>1. /\ n \in Nat /\ d = RxSlot(n) /\ d \in RxSlots
      /\ rxPosition = d /\ rxRing[d].buffer = d
  <2>1. n \in Nat
    BY DEF ReceiveTypes
  <2>2. d \in RxSlots
    BY <2>1, RxSlotFacts
  <2>3. QED  BY <2>1, <2>2 DEF ReceiveRing
<1> HIDE DEF d
<1>2. CASE ~rxRing[d].own
  <2>1. /\ rbu' = TRUE /\ arrivals' = arrivals + 1
        /\ UNCHANGED <<rxRing, rxMemory, rxHead, rxTail, rxPosition, ri, worker, rxBuffer,
                       permits, fresh, uncounted, accepted, handed>>
    BY <1>1, <1>2 DEF Arrive
  <2>2. arrivals \in Nat => arrivals' \in Nat
    BY <2>1
  <2>3. ReceiveTypes'
    BY <2>1, <2>2 DEF ReceiveTypes
  <2>4. ReceiveRing' /\ ReceiveFrames'
    BY <2>1 DEF ReceiveRing, ReceiveFrames, Holding
  <2>5. BacklogOnlyByCoalescing'
    BY <2>1 DEF BacklogOnlyByCoalescing
  <2>6. QED  BY <2>3, <2>4, <2>5
<1>3. CASE rxRing[d].own
  <2>1. /\ rxMemory' = [rxMemory EXCEPT ![d] = arrivals + 1]
        /\ rxRing' = [rxRing EXCEPT ![d].own = FALSE]
        /\ rxPosition' = (d + 1) % ReceiveBufferCount
    BY <1>1, <1>3 DEF Arrive
  <2>11. accepted' = Append(accepted, arrivals + 1)
    BY <1>1, <1>3 DEF Arrive
  <2>12. /\ UNCHANGED <<rxHead, rxTail, worker, rxBuffer, handed, permits, uncounted, rbu>>
         /\ fresh' = fresh + 1 /\ ri' = TRUE /\ arrivals' = arrivals + 1
    BY <1>1, <1>3 DEF Arrive
  <2>2. n < rxTail
    <3>1. CASE n = rxTail /\ Holding
      BY <1>1, <1>3, <3>1 DEF ReceiveRing
    <3>2. CASE n = rxTail /\ ~Holding
      <4>1. n = rxHead + ReceiveBufferCount /\ rxHead \in rxHead..(rxTail - 1)
        BY <3>2 DEF ReceiveRing, ReceiveTypes
      <4>2. RxSlot(rxHead) = d /\ rxHead < n
        BY <4>1, <1>1, RxSlotFacts DEF ReceiveTypes
      <4>3. QED  BY <1>3, <4>1, <4>2 DEF ReceiveRing, ReceiveTypes
    <3>3. QED  BY <1>1, <3>1, <3>2 DEF ReceiveRing, ReceiveTypes
  <2>3. \A p \in rxHead..rxTail : p # n /\ (p < rxTail \/ Holding) => RxSlot(p) # d
    <3>1. ASSUME NEW p \in rxHead..rxTail, p # n, p < rxTail \/ Holding
          PROVE  RxSlot(p) # d
      <4>1. p \in Nat /\ p < n + ReceiveBufferCount /\ n < p + ReceiveBufferCount
        BY <3>1, <2>2, <1>1 DEF ReceiveRing, ReceiveTypes
      <4>2. CASE p < n
        BY <4>1, <4>2, <1>1, RxSlotFacts
      <4>3. CASE n < p
        BY <4>1, <4>3, <1>1, RxSlotFacts
      <4>4. QED  BY <3>1, <4>1, <4>2, <4>3, <1>1
    <3>2. QED  BY <3>1
  <2>4. /\ Len(accepted') = n + 1
        /\ accepted' \in Seq(Nat)
        /\ \A i \in 1..n : accepted'[i] = accepted[i]
        /\ accepted'[n + 1] = arrivals + 1
    BY <2>11 DEF ReceiveTypes
  <2>5. rxPosition' = RxSlot(n + 1) /\ rxPosition' \in RxSlots
    <3>1. rxPosition' = (RxSlot(n) + 1) % ReceiveBufferCount
      BY <2>1, <1>1
    <3>2. rxPosition' = RxSlot(n + 1)
      BY <3>1, <1>1, RxSlotFacts
    <3>3. QED  BY <3>2, <1>1, RxSlotFacts
  <2>6. ReceiveTypes'
    <3>1. rxRing' \in [RxSlots -> [buffer : RxSlots, own : BOOLEAN]]
      BY <2>1, <1>1 DEF ReceiveTypes
    <3>2. rxMemory' \in [RxSlots -> Nat]
      BY <2>1, <1>1 DEF ReceiveTypes
    <3>3. QED  BY <2>4, <2>5, <2>12, <3>1, <3>2 DEF ReceiveTypes
  <2>7. \A e \in RxSlots : /\ rxRing'[e].buffer = rxRing[e].buffer
                           /\ rxRing'[e].own <=> rxRing[e].own /\ e # d
                           /\ rxMemory'[e] = IF e = d THEN arrivals + 1 ELSE rxMemory[e]
    BY <2>1, <1>1 DEF ReceiveTypes
  <2>8. ReceiveRing'
    <3>1. ASSUME NEW p \in rxHead..(rxTail - 1)
          PROVE  rxRing'[RxSlot(p)].own <=> p >= n + 1
      <4>1. p \in Nat /\ RxSlot(p) \in RxSlots
        BY RxSlotFacts DEF ReceiveTypes
      <4>2. rxRing[RxSlot(p)].own <=> p >= n
        BY DEF ReceiveRing
      <4>3. p # n => RxSlot(p) # d
        BY <2>3 DEF ReceiveTypes
      <4>4. QED  BY <1>1, <2>7, <4>1, <4>2, <4>3
    <3>2. Holding => rxBuffer = RxSlot(rxTail) /\ ~rxRing'[rxBuffer].own
      BY <2>7 DEF ReceiveRing, ReceiveTypes
    <3>3. \A e \in RxSlots : rxRing'[e].buffer = e
      BY <2>7 DEF ReceiveRing
    <3>4. rxHead <= n + 1 /\ n + 1 <= rxTail
      BY <1>1, <2>2 DEF ReceiveRing, ReceiveTypes
    <3>5. rxTail = rxHead + ReceiveBufferCount - (IF Holding THEN 1 ELSE 0)
      BY DEF ReceiveRing
    <3>6. QED  BY <2>4, <2>5, <2>12, <3>1, <3>2, <3>3, <3>4, <3>5 DEF ReceiveRing, Holding
  <2>9. ReceiveFrames'
    <3>1. ASSUME NEW p \in rxHead..n
          PROVE  rxMemory'[RxSlot(p)] = accepted'[p + 1]
      <4>1. p \in Nat /\ RxSlot(p) \in RxSlots
        BY RxSlotFacts DEF ReceiveTypes
      <4>2. CASE p = n
        BY <1>1, <2>4, <2>7, <4>1, <4>2
      <4>3. CASE p < n
        <5>1. RxSlot(p) # d
          BY <1>1, <2>2, <2>3, <4>3 DEF ReceiveTypes
        <5>2. p + 1 \in 1..n /\ p \in rxHead..(n - 1)
          BY <1>1, <4>1, <4>3
        <5>3. QED  BY <2>4, <2>7, <4>1, <5>1, <5>2 DEF ReceiveFrames
      <4>4. QED  BY <1>1, <4>1, <4>2, <4>3
    <3>2. ASSUME worker = "notify"
          PROVE  rxHead > 0 /\ rxMemory'[rxBuffer] = accepted'[rxHead]
      <4>1. rxBuffer = RxSlot(rxTail) /\ Holding
        BY <3>2 DEF ReceiveRing, Holding
      <4>2. rxBuffer # d
        BY <4>1, <1>1, <2>2, <2>3 DEF ReceiveRing, ReceiveTypes
      <4>3. rxHead \in 1..n
        BY <3>2, <1>1 DEF ReceiveFrames, ReceiveRing, ReceiveTypes
      <4>4. QED  BY <3>2, <2>4, <2>7, <4>2, <4>3 DEF ReceiveFrames, ReceiveTypes
    <3>3. \A i \in 1..Len(handed) : handed[i] = accepted'[i]
      <4>1. Len(handed) <= n /\ Len(handed) \in Nat
        BY <1>1 DEF ReceiveFrames, ReceiveRing, ReceiveTypes
      <4>2. QED  BY <1>1, <2>4, <4>1 DEF ReceiveFrames
    <3>4. QED  BY <1>1, <2>4, <2>12, <3>1, <3>2, <3>3 DEF ReceiveFrames
  <2>10. BacklogOnlyByCoalescing'
    BY <2>4, <2>12, <1>1 DEF BacklogOnlyByCoalescing, ReceiveTypes
  <2>13. QED  BY <2>6, <2>8, <2>9, <2>10
<1>4. QED  BY <1>2, <1>3

\* The interrupt handler counts.
LEMMA OnTrapReceive ==
  ASSUME ReceiveInv, OnTrap
  PROVE  ReceiveInv'
<1> USE DEF receiver, device, ReceiveInv
<1>1. UNCHANGED <<rxRing, rxMemory, rxHead, rxTail, rxPosition, worker, rxBuffer, arrivals,
                  accepted, handed>>
  BY DEF OnTrap, Trap, NotifyRi, ClearRi, NotifyRbu, ClearRbu
<1>2. ReceiveRing' /\ ReceiveFrames'
  BY <1>1 DEF ReceiveRing, ReceiveFrames, Holding
<1>3. ri' \in BOOLEAN /\ rbu' \in BOOLEAN
  BY DEF OnTrap, Trap, NotifyRi, ClearRi, NotifyRbu, ClearRbu, ReceiveTypes
<1>4. /\ permits' \in Nat /\ fresh' \in Nat /\ uncounted' \in Nat
      /\ permits' + fresh' + uncounted' >= permits + fresh + uncounted
  <2>1. permits \in Nat /\ fresh \in Nat /\ uncounted \in Nat
    BY DEF ReceiveTypes
  <2>2. CASE Trap
    BY <2>1, <2>2 DEF Trap
  <2>3. CASE NotifyRi
    BY <2>1, <2>3 DEF NotifyRi
  <2>4. CASE ClearRi
    BY <2>1, <2>4 DEF ClearRi
  <2>5. CASE NotifyRbu
    BY <2>1, <2>5 DEF NotifyRbu
  <2>6. CASE ClearRbu
    BY <2>1, <2>6 DEF ClearRbu
  <2>7. QED  BY <2>2, <2>3, <2>4, <2>5, <2>6 DEF OnTrap
<1>5. fresh' = 0 \/ UNCHANGED <<fresh, ri>>
  BY DEF OnTrap, Trap, NotifyRi, ClearRi, NotifyRbu, ClearRbu
<1>6. ReceiveTypes'
  BY <1>1, <1>3, <1>4 DEF ReceiveTypes
<1> DEFINE waking == IF worker = "receive" THEN 1 ELSE 0
<1>7. Len(accepted') - rxHead' <= permits' + waking' + fresh' + uncounted'
  <2> DEFINE backlog == Len(accepted) - rxHead
  <2>1. backlog \in Int /\ waking \in Nat
        /\ permits \in Nat /\ fresh \in Nat /\ uncounted \in Nat
    BY DEF ReceiveTypes
  <2>2. backlog <= permits + waking + fresh + uncounted
    BY DEF BacklogOnlyByCoalescing
  <2>3. backlog' = backlog /\ waking' = waking
    BY <1>1
  <2> HIDE DEF backlog, waking
  <2>4. \A x, y, z \in Nat : x + y + z >= permits + fresh + uncounted =>
                             backlog <= x + waking + y + z
    BY <2>1, <2>2
  <2>5. backlog <= permits' + waking + fresh' + uncounted'
    BY <1>4, <2>4
  <2>6. QED  BY <2>3, <2>5 DEF backlog
<1>8. fresh' > 0 => ri'
  <2>1. CASE fresh' = 0
    BY <2>1
  <2>2. CASE fresh' = fresh /\ ri' = ri
    BY <2>2, Zenon DEF BacklogOnlyByCoalescing
  <2>3. QED  BY <1>5, <2>1, <2>2
<1>9. QED  BY <1>2, <1>6, <1>7, <1>8 DEF BacklogOnlyByCoalescing

\* The worker takes a permit.
LEMMA PReceive ==
  ASSUME ReceiveInv, P
  PROVE  ReceiveInv'
BY DEF P, WorkerTo, device, ReceiveInv, ReceiveTypes, ReceiveRing, ReceiveFrames, Holding,
       BacklogOnlyByCoalescing

\* The worker receives what lies at rx_head_: the device has given it up.
LEMMA ReceiveReceive ==
  ASSUME ReceiveInv, Receive
  PROVE  ReceiveInv'
<1> DEFINE n == Len(accepted)
           d == RxSlot(rxHead)
<1> USE DEF ReceiveInv, device, interrupt
<1>1. /\ worker = "receive" /\ worker' = "notify" /\ ~rxRing[d].own
      /\ rxBuffer' = rxRing[d].buffer /\ rxHead' = rxHead + 1
      /\ UNCHANGED <<ri, rbu, trap, permits, rxTail, handed, rxRing, rxMemory, rxPosition,
                     arrivals, accepted, fresh, uncounted>>
  BY DEF Receive, WorkerTo, RxSlot
<1>2. n \in Nat /\ d \in RxSlots /\ rxHead \in Nat /\ rxTail = rxHead + ReceiveBufferCount
  BY <1>1, RxSlotFacts DEF ReceiveTypes, ReceiveRing, Holding
<1>3. rxHead < n /\ rxHead \in rxHead..(rxTail - 1)
  BY <1>1, <1>2 DEF ReceiveRing
<1>4. rxBuffer' = d /\ d = RxSlot(rxTail)
  BY <1>1, <1>2, RxSlotFacts DEF ReceiveRing
<1>5. ReceiveTypes'
  BY <1>1, <1>2, <1>4 DEF ReceiveTypes
<1>6. ReceiveRing'
  BY <1>1, <1>2, <1>3, <1>4 DEF ReceiveRing, Holding
<1>7. ReceiveFrames'
  BY <1>1, <1>2, <1>3, <1>4 DEF ReceiveFrames
<1>8. BacklogOnlyByCoalescing'
  BY <1>1, <1>2 DEF BacklogOnlyByCoalescing, ReceiveTypes
<1>9. QED  BY <1>5, <1>6, <1>7, <1>8

\* The worker hands the frame to the observers.
LEMMA NotifyReceive ==
  ASSUME ReceiveInv, Notify
  PROVE  ReceiveInv'
<1> USE DEF ReceiveInv, device, interrupt
<1>1. /\ worker = "notify" /\ worker' = "release"
      /\ UNCHANGED <<ri, rbu, trap, permits, rxTail, rxHead, rxBuffer, rxRing, rxMemory,
                     rxPosition, arrivals, accepted, fresh, uncounted>>
  BY DEF Notify, WorkerTo
<1>2. handed' = Append(handed, rxMemory[rxBuffer])
  BY DEF Notify
<1>3. /\ rxMemory[rxBuffer] = accepted[rxHead] /\ rxMemory[rxBuffer] \in Nat
      /\ Len(handed) = rxHead - 1 /\ Len(handed) \in Nat
  BY <1>1 DEF ReceiveFrames, ReceiveTypes
<1>4. /\ handed' \in Seq(Nat) /\ Len(handed') = Len(handed) + 1
      /\ \A i \in 1..Len(handed) : handed'[i] = handed[i]
      /\ handed'[Len(handed) + 1] = accepted[rxHead]
  BY <1>2, <1>3 DEF ReceiveTypes
<1>5. \A i \in 1..rxHead : handed'[i] = accepted[i]
  <2>1. \A i \in 1..Len(handed) : handed[i] = accepted[i]
    BY DEF ReceiveFrames
  <2>2. rxHead = Len(handed) + 1
    BY <1>3 DEF ReceiveTypes
  <2>3. QED  BY <1>3, <1>4, <2>1, <2>2
<1>6. ReceiveTypes' /\ ReceiveRing'
  BY <1>1, <1>4 DEF ReceiveTypes, ReceiveRing, Holding
<1>7. ReceiveFrames'
  BY <1>1, <1>3, <1>4, <1>5 DEF ReceiveFrames, ReceiveTypes
<1>8. BacklogOnlyByCoalescing'
  BY <1>1 DEF BacklogOnlyByCoalescing
<1>9. QED  BY <1>6, <1>7, <1>8

\* The worker gives the buffer back, at rx_tail_.
LEMMA ReleaseReceive ==
  ASSUME ReceiveInv, Release
  PROVE  ReceiveInv'
<1> DEFINE n == Len(accepted)
           d == RxSlot(rxTail)
<1> USE DEF ReceiveInv, device, interrupt
<1>1. /\ worker = "release" /\ worker' = "p" /\ rxTail' = rxTail + 1
      /\ UNCHANGED <<ri, rbu, trap, permits, rxHead, rxBuffer, handed, rxMemory, rxPosition,
                     arrivals, accepted, fresh, uncounted>>
  BY DEF Release, WorkerTo
<1>2. rxRing' = [rxRing EXCEPT ![d] = [buffer |-> rxBuffer, own |-> TRUE]]
  BY DEF Release, RxSlot
<1>3. /\ n \in Nat /\ d \in RxSlots /\ rxHead \in Nat /\ rxTail \in Nat
      /\ rxTail = rxHead + ReceiveBufferCount - 1 /\ rxBuffer = d
      /\ rxHead <= n /\ n <= rxTail
  BY <1>1, RxSlotFacts DEF ReceiveTypes, ReceiveRing, Holding
<1>4. \A e \in RxSlots : rxRing'[e] = IF e = d THEN [buffer |-> d, own |-> TRUE]
                                               ELSE rxRing[e]
  BY <1>2, <1>3 DEF ReceiveTypes
<1>5. ReceiveTypes'
  <2>1. rxRing' \in [RxSlots -> [buffer : RxSlots, own : BOOLEAN]]
    BY <1>2, <1>3 DEF ReceiveTypes
  <2>2. QED  BY <1>1, <1>3, <2>1 DEF ReceiveTypes
<1>6. ASSUME NEW p \in rxHead..rxTail
      PROVE  rxRing'[RxSlot(p)].own <=> p >= n
  <2>1. CASE p = rxTail
    BY <1>3, <1>4, <2>1
  <2>2. CASE p < rxTail
    <3>1. p \in Nat /\ rxTail < p + ReceiveBufferCount
      BY <1>3
    <3>2. RxSlot(p) # d /\ RxSlot(p) \in RxSlots
      BY <1>3, <2>2, <3>1, RxSlotFacts
    <3>3. rxRing[RxSlot(p)].own <=> p >= n
      BY <1>3, <2>2 DEF ReceiveRing
    <3>4. QED  BY <1>4, <3>2, <3>3
  <2>3. QED  BY <1>3, <2>1, <2>2
<1>7. ReceiveRing'
  <2>1. \A e \in RxSlots : rxRing'[e].buffer = e
    BY <1>4 DEF ReceiveRing
  <2>2. QED  BY <1>1, <1>3, <1>6, <2>1 DEF ReceiveRing, Holding
<1>8. ReceiveFrames'
  BY <1>1, <1>3 DEF ReceiveFrames
<1>9. BacklogOnlyByCoalescing'
  BY <1>1 DEF BacklogOnlyByCoalescing
<1>10. QED  BY <1>5, <1>7, <1>8, <1>9

\* A step that leaves the receive ring alone.
LEMMA ReceiveUnchanged ==
  ASSUME ReceiveInv, UNCHANGED receive
  PROVE  ReceiveInv'
BY DEF receive, interrupt, receiver, device, ReceiveInv, ReceiveTypes, ReceiveRing,
       ReceiveFrames, Holding, BacklogOnlyByCoalescing

\* Every step preserves the receive invariant.
LEMMA ReceiveNext == ReceiveInv /\ [Next]_vars => ReceiveInv'
<1> SUFFICES ASSUME ReceiveInv, [Next]_vars  PROVE ReceiveInv'
  OBVIOUS
<1>1. CASE Arrive \/ OnTrap \/ Worker
  BY <1>1, ArriveReceive, OnTrapReceive, PReceive, ReceiveReceive, NotifyReceive,
     ReleaseReceive DEF Worker
<1>2. CASE UNCHANGED receive
  BY <1>2, ReceiveUnchanged
<1>3. QED
  BY <1>1, <1>2 DEF Next, Send, Alloc, Fill, Claim, Wait, Write, Kick, Free, Transmit,
     Suspend, vars

\* The receive invariant holds in every reachable state.
LEMMA ReceiveHolds == Spec => []ReceiveInv
<1>1. QED  BY ReceiveInit, ReceiveNext, PTL DEF Spec

\* The worker hands every stored frame on once and in order, and no receive
\* buffer is lost or in two descriptors: DMA::receive and DMA::release, however
\* often their indices have gone round.
THEOREM FramesReceivedInOrder == Spec => []ReceivesInOrder
<1>1. ASSUME ReceiveInv  PROVE ReceivesInOrder
  <2> USE <1>1 DEF ReceiveInv
  <2> DEFINE m == rxTail - rxHead
             ring == [i \in 1..m |-> rxRing[(rxHead + i - 1) % ReceiveBufferCount].buffer]
             held == IF Holding THEN <<rxBuffer>> ELSE <<>>
  <2>1. /\ m \in Nat /\ m = ReceiveBufferCount - (IF Holding THEN 1 ELSE 0)
        /\ rxHead \in Nat /\ rxTail \in Nat
    BY DEF ReceiveTypes, ReceiveRing
  <2>2. IsPrefix(handed, accepted)
    <3>1. Len(handed) <= Len(accepted)
      BY DEF ReceiveTypes, ReceiveRing, ReceiveFrames
    <3>2. QED  BY <3>1, PrefixByEntries DEF ReceiveTypes, ReceiveFrames
  <2>3. ASSUME NEW i \in 1..m
        PROVE  /\ RxSlot(rxHead + i - 1) \in RxSlots
               /\ rxRing[RxSlot(rxHead + i - 1)].buffer = RxSlot(rxHead + i - 1)
    <3>1. rxHead + i - 1 \in Nat
      BY <2>1
    <3>2. QED  BY <3>1, RxSlotFacts DEF ReceiveRing
  <2>4. /\ ring \in Seq(RxSlots) /\ Len(ring) = m
        /\ \A i \in 1..m : ring[i] = RxSlot(rxHead + i - 1)
    <3>1. ring = [i \in 1..m |-> RxSlot(rxHead + i - 1)]
      BY <2>3 DEF RxSlot
    <3> HIDE DEF ring
    <3>2. ring \in [1..m -> RxSlots]
      BY <2>3, <3>1
    <3>3. ring \in Seq(RxSlots) /\ DOMAIN ring = 1..m
      BY <2>1, <3>2
    <3>4. Len(ring) = m
      BY <2>1, <3>3
    <3>5. QED  BY <3>1, <3>3, <3>4
  <2>5. held \in Seq(RxSlots) /\ Len(held) = (IF Holding THEN 1 ELSE 0)
        /\ (Holding => held[1] = RxSlot(rxTail))
    BY DEF ReceiveTypes, ReceiveRing
  <2>6. RxBuffers = ring \o held
    BY DEF RxBuffers, Holding
  <2> HIDE DEF ring, held
  <2>7. /\ RxBuffers \in Seq(RxSlots) /\ Len(RxBuffers) = ReceiveBufferCount
        /\ \A i \in 1..ReceiveBufferCount : RxBuffers[i] = RxSlot(rxHead + i - 1)
    <3>1. RxBuffers \in Seq(RxSlots) /\ Len(RxBuffers) = ReceiveBufferCount
        <4>1. Len(ring \o held) = Len(ring) + Len(held) /\ ring \o held \in Seq(RxSlots)
        BY <2>4, <2>5, ConcatProperties
      <4>2. QED  BY <2>1, <2>4, <2>5, <2>6, <4>1
    <3>2. ASSUME NEW i \in 1..ReceiveBufferCount
          PROVE  RxBuffers[i] = RxSlot(rxHead + i - 1)
      <4>1. CASE i \in 1..m
        BY <2>1, <2>4, <2>5, <2>6, <4>1
      <4>2. CASE i = m + 1 /\ Holding
        <5>1. rxHead + i - 1 = rxTail /\ i \in Nat
          BY <2>1, <4>2
        <5>2. Len(held) = 1
          BY <2>5, <4>2
        <5>3. (ring \o held)[i] = held[i - m]
          <6>1. \A k \in 1..(m + 1) :
                  (ring \o held)[k] = IF k <= m THEN ring[k] ELSE held[k - m]
            BY <2>4, <2>5, <5>2, ConcatProperties
          <6>2. i \in 1..(m + 1) /\ ~(i <= m)
            BY <2>1, <4>2
          <6>3. QED  BY <6>1, <6>2
        <5>4. QED  BY <2>1, <2>5, <2>6, <4>2, <5>1, <5>3
      <4>3. QED  BY <2>1, <4>1, <4>2
    <3>3. QED  BY <3>1, <3>2
  <2>8. RxSlots \subseteq ToSet(RxBuffers)
    <3>1. ASSUME NEW d \in RxSlots  PROVE d \in ToSet(RxBuffers)
      <4>1. PICK p \in rxHead..(rxHead + ReceiveBufferCount - 1) : RxSlot(p) = d
        <5>1. ReceiveBufferCount \in Nat \ {0} /\ rxHead \in Int
              /\ d \in 0..(ReceiveBufferCount - 1)
          BY <2>1 DEF RxSlots
        <5>2. \E p \in rxHead..(rxHead + ReceiveBufferCount - 1) : p % ReceiveBufferCount = d
          BY <5>1, SlotReached
        <5>3. QED  BY <5>2 DEF RxSlot
      <4>2. p - rxHead + 1 \in 1..ReceiveBufferCount /\ rxHead + (p - rxHead + 1) - 1 = p
        BY <2>1
      <4>3. RxBuffers[p - rxHead + 1] = d
        BY <2>7, <4>1, <4>2
      <4>4. QED  BY <2>7, <4>2, <4>3 DEF ToSet
    <3>2. QED  BY <3>1
  <2>9. ToSet(RxBuffers) \subseteq RxSlots
    BY <2>7 DEF ToSet
  <2>10. QED  BY <2>2, <2>7, <2>8, <2>9 DEF ReceivesInOrder
<1>2. QED  BY <1>1, ReceiveHolds, PTL

\* A stored frame that no permit answers for was coalesced with another by the
\* interrupt handler.
THEOREM BacklogIsCoalesced == Spec => []BacklogOnlyByCoalescing
<1>1. ReceiveInv => BacklogOnlyByCoalescing
  BY DEF ReceiveInv
<1>2. QED  BY <1>1, ReceiveHolds, PTL

-----------------------------------------------------------------------------
(* Sending.                                                                *)

SxSlot(p) == p % SendBufferCount
Sent == Len(sent)
Claimed == Len(claimed)

\* What thread s sends, and who has claimed a descriptor without writing it.
FrameOf(s) == <<s, count[s]>>
Waits(s) == pc[s] \in {"wait", "write"}

SomeFrames == (Senders \cup {"none"}) \X Nat

SendTypes ==
  /\ list \in Seq(SxSlots) /\ memory \in [SxSlots -> SomeFrames]
  /\ sxRing \in [SxSlots -> [buffer : SxSlots, own : BOOLEAN]]
  /\ sxHead \in Nat /\ sxPosition \in SxSlots /\ active \in BOOLEAN
  /\ pc \in [Senders -> {"out", "fill", "claim", "wait", "write", "kick", "free"}]
  /\ buffer \in [Senders -> SxSlots] /\ index \in [Senders -> SxSlots]
  /\ count \in [Senders -> Nat] /\ reused \in BOOLEAN
  /\ claimed \in Seq(SomeFrames) /\ sent \in Seq(SomeFrames)

\* A send buffer is in the list once, or one thread holds it.
SendBuffers ==
  /\ \A i, j \in 1..Len(list) : list[i] = list[j] => i = j
  /\ \A s \in Senders : pc[s] # "out" => \A i \in 1..Len(list) : list[i] # buffer[s]
  /\ \A s, t \in Senders :
       pc[s] # "out" /\ pc[t] # "out" /\ buffer[s] = buffer[t] => s = t

\* The claimed positions that have not been sent are at most a round.
SendPositions ==
  /\ sxHead = Claimed /\ sxPosition = SxSlot(Sent)
  /\ Sent <= Claimed /\ Claimed <= Sent + SendBufferCount
  /\ \A i \in 1..Sent : sent[i] = claimed[i]

\* Each is written, or a thread is about to write it.
SendRing ==
  /\ \A d \in SxSlots : sxRing[d].own =>
       \E p \in Sent..(Claimed - 1) :
         d = SxSlot(p) /\ memory[sxRing[d].buffer] = claimed[p + 1]
  /\ \A p \in Sent..(Claimed - 1) : ~sxRing[SxSlot(p)].own =>
       \E s \in Senders : Waits(s) /\ index[s] = SxSlot(p)
  /\ \A s \in Senders : Waits(s) =>
       /\ ~sxRing[index[s]].own
       /\ \E p \in Sent..(Claimed - 1) :
            index[s] = SxSlot(p) /\ claimed[p + 1] = FrameOf(s)

\* Nobody writes a buffer that the device has yet to read, and it is in one
\* descriptor only.
SendFrames ==
  /\ \A s \in Senders : pc[s] \in {"claim", "wait", "write"} =>
       memory[buffer[s]] = FrameOf(s)
  /\ \A d, e \in SxSlots : sxRing[d].own /\ sxRing[e].own =>
       (sxRing[d].buffer = sxRing[e].buffer => d = e)
  /\ \A s \in Senders, d \in SxSlots :
       pc[s] \in {"fill", "claim", "wait", "write"} /\ sxRing[d].own =>
         buffer[s] # sxRing[d].buffer

\* A frame that the device may send does not wait for ever.
DeviceWoken == sxRing[sxPosition].own => active \/ \E s \in Senders : pc[s] = "kick"

SendInv ==
  /\ SendTypes /\ SendBuffers
  /\ ~reused => SendPositions /\ SendRing /\ SendFrames /\ DeviceWoken

\* Slots of send positions.
LEMMA SxSlotFacts ==
  /\ \A p \in Nat : SxSlot(p) \in SxSlots
  /\ \A p, q \in Nat : p < q /\ q < p + SendBufferCount => SxSlot(p) # SxSlot(q)
  /\ \A p \in Nat : (SxSlot(p) + 1) % SendBufferCount = SxSlot(p + 1)
<1>1. \A p \in Nat : p \in Int
  OBVIOUS
<1>2. QED
  BY <1>1, Division, SlotsDiffer, NextSlot DEF SxSlot, SxSlots

\* Sent and claimed frames are counted by natural numbers.
LEMMA SendLengths ==
  ASSUME SendTypes
  PROVE  Sent \in Nat /\ Claimed \in Nat
BY DEF SendTypes, Sent, Claimed

\* Two positions between what is sent and what is claimed, or the one that is
\* claimed next when there is room for it, have different slots.
LEMMA PendingSlots ==
  ASSUME SendTypes, SendPositions, NEW p \in Sent..Claimed, NEW q \in Sent..Claimed,
         Claimed < Sent + SendBufferCount \/ (p < Claimed /\ q < Claimed),
         SxSlot(p) = SxSlot(q)
  PROVE  p = q
<1>1. p \in Nat /\ q \in Nat /\ p < q + SendBufferCount /\ q < p + SendBufferCount
  BY SendLengths DEF SendPositions
<1>2. ~(p < q) /\ ~(q < p)
  BY <1>1, SxSlotFacts
<1>3. QED  BY <1>1, <1>2

\* The initial states satisfy the send invariant.
LEMMA SendInit == Init => SendInv
<1> SUFFICES ASSUME Init  PROVE SendInv
  OBVIOUS
<1> DEFINE free == [i \in 1..SendBufferCount |-> i - 1]
<1>1. free \in Seq(SxSlots) /\ Len(free) = SendBufferCount
      /\ \A i \in 1..SendBufferCount : free[i] = i - 1
  <2>1. free \in [1..SendBufferCount -> SxSlots]
    BY DEF SxSlots
  <2>2. free \in Seq(SxSlots) /\ DOMAIN free = 1..SendBufferCount
    BY <2>1
  <2>3. QED  BY <2>1, <2>2
<1>2. list = free
  BY DEF Init
<1> HIDE DEF free
<1>3. SendTypes
  <2>1. 0 \in SxSlots
    BY DEF SxSlots
  <2>2. memory \in [SxSlots -> SomeFrames]
    BY DEF Init, SomeFrames, NoFrame
  <2>3. sxRing \in [SxSlots -> [buffer : SxSlots, own : BOOLEAN]]
    BY <2>1 DEF Init
  <2>4. <<>> \in Seq(SomeFrames)
    OBVIOUS
  <2>5. /\ pc \in [Senders -> {"out", "fill", "claim", "wait", "write", "kick", "free"}]
        /\ buffer \in [Senders -> SxSlots] /\ index \in [Senders -> SxSlots]
        /\ count \in [Senders -> Nat]
    BY <2>1 DEF Init
  <2>6. QED  BY <1>1, <1>2, <2>1, <2>2, <2>3, <2>4, <2>5 DEF Init, SendTypes
<1>4. SendBuffers
  BY <1>1, <1>2 DEF Init, SendBuffers
<1>5. SxSlot(0) = 0
  BY RemainderUnique DEF SxSlot
<1>6. Sent = 0 /\ Claimed = 0
  BY DEF Init, Sent, Claimed
<1>7. SendPositions /\ SendRing
  BY <1>5, <1>6 DEF Init, SendPositions, SendRing, Waits
<1>8. SendFrames /\ DeviceWoken
  BY <1>3 DEF Init, SendTypes, SendFrames, DeviceWoken
<1>9. QED  BY <1>3, <1>4, <1>7, <1>8 DEF SendInv

\* A thread takes a buffer that the device does not have.
LEMMA AllocSend ==
  ASSUME SendInv, NEW s \in Senders, Alloc(s)
  PROVE  SendInv'
<1> USE DEF transmitter, Goto
<1>1. /\ SendTypes /\ SendBuffers /\ list # <<>>
  BY DEF SendInv, Alloc
<1>2. /\ Head(list) = list[1] /\ Tail(list) \in Seq(SxSlots) /\ list[1] \in SxSlots
      /\ Len(list) \in Nat \ {0} /\ Len(Tail(list)) = Len(list) - 1
      /\ \A i \in 1..(Len(list) - 1) : Tail(list)[i] = list[i + 1]
  BY <1>1 DEF SendTypes
<1>3. /\ pc[s] = "out" /\ pc' = [pc EXCEPT ![s] = "fill"]
      /\ buffer' = [buffer EXCEPT ![s] = list[1]] /\ list' = Tail(list)
      /\ count' = [count EXCEPT ![s] = @ + 1]
      /\ UNCHANGED <<memory, sxHead, index, sxRing, sxPosition, active, sent, claimed>>
  BY <1>2 DEF Alloc
<1>4. /\ reused' \in BOOLEAN
      /\ ~reused' => /\ ~reused
                     /\ \A d \in SxSlots : sxRing[d].own => sxRing[d].buffer # list[1]
  BY <1>1, <1>2 DEF Alloc, SendTypes
<1>5. SendTypes'
  BY <1>1, <1>2, <1>3, <1>4 DEF SendTypes
<1>6. SendBuffers'
  BY <1>1, <1>2, <1>3 DEF SendTypes, SendBuffers
<1>7. ASSUME ~reused'
      PROVE  SendPositions' /\ SendRing' /\ SendFrames' /\ DeviceWoken'
  <2>1. SendPositions /\ SendRing /\ SendFrames /\ DeviceWoken
    BY <1>4, <1>7 DEF SendInv
  <2>2. SendPositions' /\ DeviceWoken'
    BY <1>1, <1>3, <2>1 DEF SendTypes, SendPositions, DeviceWoken, Sent, Claimed
  <2>3. \A t \in Senders : /\ Waits(t)' <=> Waits(t)
                           /\ Waits(t) => FrameOf(t)' = FrameOf(t)
    BY <1>1, <1>3 DEF SendTypes, Waits, FrameOf
  <2>4. SendRing'
    BY <1>3, <2>1, <2>3 DEF SendRing, Sent, Claimed
  <2>5. SendFrames'
    BY <1>1, <1>3, <1>4, <1>7, <2>1 DEF SendTypes, SendFrames, FrameOf
  <2>6. QED  BY <2>2, <2>4, <2>5
<1>8. QED  BY <1>5, <1>6, <1>7 DEF SendInv

\* A thread writes its frame.
LEMMA FillSend ==
  ASSUME SendInv, NEW s \in Senders, Fill(s)
  PROVE  SendInv'
<1> USE DEF transmitter, Goto
<1>1. SendTypes /\ SendBuffers
  BY DEF SendInv
<1>2. /\ pc[s] = "fill" /\ pc' = [pc EXCEPT ![s] = "claim"]
      /\ memory' = [memory EXCEPT ![buffer[s]] = FrameOf(s)]
      /\ UNCHANGED <<list, sxHead, buffer, index, count, sxRing, sxPosition, active, sent,
                     claimed, reused>>
  BY DEF Fill, FrameOf
<1>3. SendTypes'
  <2>1. memory' \in [SxSlots -> SomeFrames]
    BY <1>1, <1>2 DEF SendTypes, FrameOf, SomeFrames
  <2>2. QED  BY <1>1, <1>2, <2>1 DEF SendTypes
<1>4. SendBuffers'
  BY <1>1, <1>2 DEF SendTypes, SendBuffers
<1>5. ASSUME ~reused
      PROVE  SendPositions' /\ SendRing' /\ SendFrames' /\ DeviceWoken'
  <2>1. SendPositions /\ SendRing /\ SendFrames /\ DeviceWoken
    BY <1>5 DEF SendInv
  <2>2. SendPositions' /\ DeviceWoken'
    BY <1>1, <1>2, <2>1 DEF SendTypes, SendPositions, DeviceWoken, Sent, Claimed
  <2>3. \A t \in Senders : (Waits(t)' <=> Waits(t)) /\ FrameOf(t)' = FrameOf(t)
    BY <1>1, <1>2 DEF SendTypes, Waits, FrameOf
  <2>4. \A d \in SxSlots : sxRing[d].own => memory'[sxRing[d].buffer] = memory[sxRing[d].buffer]
    BY <1>1, <1>2, <2>1 DEF SendTypes, SendFrames
  <2>5. SendRing'
    <3>1. /\ Sent' = Sent /\ Claimed' = Claimed /\ claimed' = claimed
          /\ sxRing' = sxRing /\ index' = index
      BY <1>2 DEF Sent, Claimed
    <3>2. \A d \in SxSlots : sxRing[d].own =>
            \E p \in Sent..(Claimed - 1) :
              d = SxSlot(p) /\ memory'[sxRing[d].buffer] = claimed[p + 1]
      BY <2>1, <2>4 DEF SendRing
    <3>3. QED  BY <2>1, <2>3, <3>1, <3>2 DEF SendRing
  <2>6. SendFrames'
    BY <1>1, <1>2, <2>1 DEF SendTypes, SendFrames, SendBuffers, FrameOf
  <2>7. QED  BY <2>2, <2>5, <2>6
<1>6. QED  BY <1>2, <1>3, <1>4, <1>5 DEF SendInv

\* A thread that claims a descriptor finds one that nobody has: the claimed
\* frames lie in different buffers, and none of them in its own.
LEMMA RoomToClaim ==
  ASSUME SendTypes, SendBuffers, SendPositions, SendRing, SendFrames,
         NEW s \in Senders, pc[s] = "claim"
  PROVE  Claimed < Sent + SendBufferCount
<1> SUFFICES ASSUME Claimed = Sent + SendBufferCount  PROVE FALSE
  BY SendLengths DEF SendPositions
<1> DEFINE b == buffer[s]
           T == SxSlots \ {b}
           waiter(d) == CHOOSE t \in Senders : Waits(t) /\ index[t] = d
           f == [d \in SxSlots |-> IF sxRing[d].own THEN sxRing[d].buffer
                                                   ELSE buffer[waiter(d)]]
<1>1. ASSUME NEW d \in SxSlots, ~sxRing[d].own
      PROVE  /\ waiter(d) \in Senders /\ Waits(waiter(d)) /\ index[waiter(d)] = d
             /\ pc[waiter(d)] \in {"wait", "write"}
  <2>1. PICK p \in Sent..(Sent + SendBufferCount - 1) : SxSlot(p) = d
    <3>1. Sent \in Int /\ d \in 0..(SendBufferCount - 1) /\ SendBufferCount \in Nat \ {0}
      BY SendLengths DEF SxSlots
    <3>2. \E p \in Sent..(Sent + SendBufferCount - 1) : p % SendBufferCount = d
      BY <3>1, SlotReached
    <3>3. QED  BY <3>2 DEF SxSlot
  <2>2. \E t \in Senders : Waits(t) /\ index[t] = d
    BY <1>1, <2>1, SendLengths DEF SendRing
  <2>3. QED  BY <2>2 DEF Waits
<1> HIDE DEF waiter
<1>2. ASSUME NEW d \in SxSlots  PROVE f[d] \in T
  <2>1. CASE sxRing[d].own
    BY <2>1 DEF SendTypes, SendFrames
  <2>2. CASE ~sxRing[d].own
    <3>1. /\ waiter(d) \in Senders /\ waiter(d) # s
          /\ pc[waiter(d)] # "out" /\ pc[s] # "out"
      BY <1>1, <2>2
    <3>2. buffer[waiter(d)] # b
      BY <3>1 DEF SendBuffers
    <3>3. QED  BY <2>2, <3>1, <3>2 DEF SendTypes
  <2>3. QED  BY <2>1, <2>2
<1>3. ASSUME NEW d \in SxSlots, NEW e \in SxSlots, f[d] = f[e]
      PROVE  d = e
  <2>1. CASE sxRing[d].own /\ sxRing[e].own
    BY <1>3, <2>1 DEF SendFrames
  <2>2. CASE ~sxRing[d].own /\ ~sxRing[e].own
    <3>1. buffer[waiter(d)] = buffer[waiter(e)]
      BY <1>3, <2>2
    <3>2. waiter(d) = waiter(e)
      BY <1>1, <2>2, <3>1 DEF SendBuffers
    <3>3. QED  BY <1>1, <2>2, <3>2
  <2>3. CASE sxRing[d].own /\ ~sxRing[e].own
    BY <1>1, <1>3, <2>3 DEF SendFrames
  <2>4. CASE ~sxRing[d].own /\ sxRing[e].own
    BY <1>1, <1>3, <2>4 DEF SendFrames
  <2>5. QED  BY <2>1, <2>2, <2>3, <2>4
<1>4. f \in [SxSlots -> T]
  BY <1>2
<1> HIDE DEF f
<1>5. IsFiniteSet(SxSlots) /\ Cardinality(SxSlots) = SendBufferCount
  <2> DEFINE n == SendBufferCount - 1
  <2>1. n \in Int /\ 0 \in Int /\ ~(0 > n) /\ n - 0 + 1 = SendBufferCount
    OBVIOUS
  <2> HIDE DEF n
  <2>2. IsFiniteSet(0..n) /\ Cardinality(0..n) = n - 0 + 1
    BY <2>1, FS_Interval
  <2>3. SxSlots = 0..n
    BY Zenon DEF SxSlots, n
  <2>4. QED  BY <2>1, <2>2, <2>3, Zenon
<1>6. b \in SxSlots
  BY DEF SendTypes
<1>7. IsFiniteSet(T) /\ Cardinality(T) = SendBufferCount - 1
  BY <1>5, <1>6, FS_RemoveElement
<1>8. Cardinality(T) < Cardinality(SxSlots)
  BY <1>5, <1>7
<1> HIDE DEF T
<1>9. \E d, e \in SxSlots : d # e /\ f[d] = f[e]
  BY <1>4, <1>5, <1>7, <1>8, FS_PigeonHole
<1>10. QED  BY <1>3, <1>9

\* sx_head_.finc().
LEMMA ClaimSend ==
  ASSUME SendInv, NEW s \in Senders, Claim(s)
  PROVE  SendInv'
<1> USE DEF transmitter, Goto
<1>1. SendTypes /\ SendBuffers
  BY DEF SendInv
<1>2. /\ pc[s] = "claim" /\ pc' = [pc EXCEPT ![s] = "wait"]
      /\ index' = [index EXCEPT ![s] = SxSlot(sxHead)] /\ sxHead' = sxHead + 1
      /\ UNCHANGED <<list, memory, buffer, count, sxRing, sxPosition, active, sent, reused>>
  BY DEF Claim, SxSlot
<1>3. claimed' = Append(claimed, FrameOf(s))
  BY DEF Claim, FrameOf
<1>4. FrameOf(s) \in SomeFrames /\ SxSlot(sxHead) \in SxSlots
  BY <1>1, SxSlotFacts DEF SendTypes, SomeFrames, FrameOf
<1>5. /\ claimed' \in Seq(SomeFrames) /\ Claimed' = Claimed + 1 /\ Sent' = Sent
      /\ \A i \in 1..Claimed : claimed'[i] = claimed[i]
      /\ claimed'[Claimed + 1] = FrameOf(s)
  BY <1>1, <1>2, <1>3, <1>4 DEF SendTypes, Claimed, Sent
<1>6. SendTypes'
  BY <1>1, <1>2, <1>4, <1>5 DEF SendTypes
<1>7. SendBuffers'
  BY <1>1, <1>2 DEF SendTypes, SendBuffers
<1>8. ASSUME ~reused
      PROVE  SendPositions' /\ SendRing' /\ SendFrames' /\ DeviceWoken'
  <2>1. SendPositions /\ SendRing /\ SendFrames /\ DeviceWoken
    BY <1>8 DEF SendInv
  <2>2. Claimed < Sent + SendBufferCount
    BY <1>1, <1>2, <2>1, RoomToClaim
  <2>3. Sent \in Nat /\ Claimed \in Nat /\ sxHead = Claimed /\ Sent <= Claimed
    BY <1>1, <2>1, SendLengths DEF SendPositions
  <2>4. SendPositions'
    BY <1>2, <1>5, <2>1, <2>2, <2>3 DEF SendPositions
  <2>5. \A t \in Senders : /\ FrameOf(t)' = FrameOf(t)
                           /\ Waits(t)' <=> Waits(t) \/ t = s
                           /\ t # s => index'[t] = index[t]
    BY <1>1, <1>2 DEF SendTypes, Waits, FrameOf
  <2>6. \A p \in Sent..(Claimed - 1) : SxSlot(p) # SxSlot(Claimed)
    BY <1>1, <2>1, <2>2, <2>3, PendingSlots
  <2>7. index'[s] = SxSlot(Claimed) /\ ~sxRing[SxSlot(Claimed)].own
    BY <1>1, <1>2, <1>4, <2>1, <2>3, <2>6 DEF SendTypes, SendRing
  <2>8. SendRing'
    <3>1. \A d \in SxSlots : sxRing[d].own =>
            \E p \in Sent..Claimed :
              d = SxSlot(p) /\ memory[sxRing[d].buffer] = claimed'[p + 1]
      BY <1>5, <2>1, <2>3 DEF SendRing
    <3>2. ASSUME NEW p \in Sent..Claimed, ~sxRing[SxSlot(p)].own
          PROVE  \E t \in Senders : Waits(t)' /\ index'[t] = SxSlot(p)
      <4>1. CASE p = Claimed
        BY <2>5, <2>7, <4>1
      <4>2. CASE p < Claimed
        BY <1>2, <2>1, <2>3, <2>5, <3>2, <4>2 DEF SendRing, Waits
      <4>3. QED  BY <2>3, <4>1, <4>2
    <3>3. ASSUME NEW t \in Senders, Waits(t)'
          PROVE  /\ ~sxRing[index'[t]].own
                 /\ \E p \in Sent..Claimed :
                      index'[t] = SxSlot(p) /\ claimed'[p + 1] = FrameOf(t)
      <4>1. CASE t = s
        BY <1>5, <2>3, <2>7, <4>1
      <4>2. CASE t # s
        BY <1>5, <2>1, <2>3, <2>5, <3>3, <4>2 DEF SendRing
      <4>3. QED  BY <4>1, <4>2
    <3>4. QED  BY <1>2, <1>5, <2>3, <2>5, <3>1, <3>2, <3>3 DEF SendRing
  <2>9. SendFrames'
    BY <1>1, <1>2, <2>1, <2>5 DEF SendTypes, SendFrames
  <2>10. DeviceWoken'
    BY <1>1, <1>2, <2>1 DEF SendTypes, DeviceWoken
  <2>11. QED  BY <2>4, <2>8, <2>9, <2>10
<1>9. QED  BY <1>2, <1>6, <1>7, <1>8 DEF SendInv

\* The thread has seen that its descriptor is free.
LEMMA WaitSend ==
  ASSUME SendInv, NEW s \in Senders, Wait(s)
  PROVE  SendInv'
<1> USE DEF transmitter, Goto
<1>1. SendTypes /\ SendBuffers
  BY DEF SendInv
<1>2. /\ pc[s] = "wait" /\ pc' = [pc EXCEPT ![s] = "write"]
      /\ UNCHANGED <<list, memory, sxHead, buffer, index, count, sxRing, sxPosition, active,
                     sent, claimed, reused>>
  BY DEF Wait
<1>3. SendTypes' /\ SendBuffers'
  BY <1>1, <1>2 DEF SendTypes, SendBuffers
<1>4. \A t \in Senders : (Waits(t)' <=> Waits(t)) /\ FrameOf(t)' = FrameOf(t)
  BY <1>1, <1>2 DEF SendTypes, Waits, FrameOf
<1>5. ASSUME SendPositions, SendRing, SendFrames, DeviceWoken
      PROVE  SendPositions' /\ SendRing' /\ SendFrames' /\ DeviceWoken'
  <2>1. Sent' = Sent /\ Claimed' = Claimed
    BY <1>2 DEF Sent, Claimed
  <2>2. SendPositions' /\ SendRing'
    BY <1>2, <1>4, <1>5, <2>1 DEF SendPositions, SendRing
  <2>3. SendFrames' /\ DeviceWoken'
    BY <1>1, <1>2, <1>4, <1>5 DEF SendTypes, SendFrames, DeviceWoken
  <2>4. QED  BY <2>2, <2>3
<1>6. QED  BY <1>2, <1>3, <1>5 DEF SendInv

\* The thread hands its descriptor to the device.
LEMMA WriteSend ==
  ASSUME SendInv, NEW s \in Senders, Write(s)
  PROVE  SendInv'
<1> DEFINE i == index[s]
           b == buffer[s]
<1> USE DEF transmitter, Goto
<1>1. SendTypes /\ SendBuffers /\ i \in SxSlots /\ b \in SxSlots
  BY DEF SendInv, SendTypes
<1>2. /\ pc[s] = "write" /\ pc' = [pc EXCEPT ![s] = "kick"]
      /\ sxRing' = [sxRing EXCEPT ![i] = [buffer |-> b, own |-> TRUE]]
      /\ UNCHANGED <<list, memory, sxHead, buffer, index, count, sxPosition, active, sent,
                     claimed, reused>>
  BY DEF Write
<1>3. SendTypes' /\ SendBuffers'
  <2>1. sxRing' \in [SxSlots -> [buffer : SxSlots, own : BOOLEAN]]
    BY <1>1, <1>2 DEF SendTypes
  <2>2. QED  BY <1>1, <1>2, <2>1 DEF SendTypes, SendBuffers
<1>4. \A d \in SxSlots : /\ d = i => sxRing'[d].buffer = b /\ sxRing'[d].own
                         /\ d # i => sxRing'[d] = sxRing[d]
  BY <1>1, <1>2 DEF SendTypes
<1>5. \A t \in Senders : /\ Waits(t)' <=> Waits(t) /\ t # s
                         /\ FrameOf(t)' = FrameOf(t)
  BY <1>1, <1>2 DEF SendTypes, Waits, FrameOf
<1>6. ASSUME SendPositions, SendRing, SendFrames, DeviceWoken
      PROVE  SendPositions' /\ SendRing' /\ SendFrames' /\ DeviceWoken'
  <2>1. Sent' = Sent /\ Claimed' = Claimed /\ Sent \in Nat /\ Claimed \in Nat
    BY <1>1, <1>2, SendLengths DEF Sent, Claimed
  <2>2. PICK p \in Sent..(Claimed - 1) : i = SxSlot(p) /\ claimed[p + 1] = FrameOf(s)
    BY <1>2, <1>6 DEF SendRing, Waits
  <2>3. memory[b] = FrameOf(s)
    BY <1>2, <1>6 DEF SendFrames
  <2>4. ASSUME NEW t \in Senders, Waits(t), t # s
        PROVE  index[t] # i
    <3>1. PICK q \in Sent..(Claimed - 1) : index[t] = SxSlot(q) /\ claimed[q + 1] = FrameOf(t)
      BY <1>6, <2>4 DEF SendRing
    <3>2. q # p
      BY <2>2, <2>4, <3>1 DEF FrameOf
    <3>3. SxSlot(q) # SxSlot(p)
      BY <1>1, <1>6, <2>1, <3>2, PendingSlots
    <3>4. QED  BY <2>2, <3>1, <3>3
  <2>5. SendPositions'
    BY <1>2, <1>6, <2>1 DEF SendPositions
  <2>6. SendRing'
    <3>1. ASSUME NEW d \in SxSlots, sxRing'[d].own
          PROVE  \E q \in Sent..(Claimed - 1) :
                   d = SxSlot(q) /\ memory[sxRing'[d].buffer] = claimed[q + 1]
      <4>1. CASE d = i
        BY <1>4, <2>2, <2>3, <4>1
      <4>2. CASE d # i
        BY <1>4, <1>6, <3>1, <4>2 DEF SendRing
      <4>3. QED  BY <4>1, <4>2
    <3>2. ASSUME NEW q \in Sent..(Claimed - 1), ~sxRing'[SxSlot(q)].own
          PROVE  \E t \in Senders : Waits(t)' /\ index[t] = SxSlot(q)
      <4>1. SxSlot(q) \in SxSlots
        BY <2>1, SxSlotFacts
      <4>2. SxSlot(q) # i /\ ~sxRing[SxSlot(q)].own
        BY <1>4, <3>2, <4>1
      <4>3. PICK t \in Senders : Waits(t) /\ index[t] = SxSlot(q)
        BY <1>6, <4>2 DEF SendRing
      <4>4. QED  BY <1>5, <4>2, <4>3
    <3>3. ASSUME NEW t \in Senders, Waits(t)'
          PROVE  /\ ~sxRing'[index[t]].own
                 /\ \E q \in Sent..(Claimed - 1) :
                      index[t] = SxSlot(q) /\ claimed[q + 1] = FrameOf(t)
      <4>1. Waits(t) /\ index[t] # i /\ index[t] \in SxSlots
        BY <1>1, <1>5, <2>4, <3>3 DEF SendTypes
      <4>2. QED  BY <1>4, <1>6, <4>1 DEF SendRing
    <3>4. QED  BY <1>2, <1>5, <2>1, <3>1, <3>2, <3>3 DEF SendRing
  <2>7. SendFrames'
    <3>1. \A d \in SxSlots : sxRing[d].own => sxRing[d].buffer # b
      BY <1>2, <1>6 DEF SendFrames
    <3>2. \A t \in Senders : pc'[t] \in {"fill", "claim", "wait", "write"} =>
            pc[t] = pc'[t] /\ buffer[t] # b
      BY <1>1, <1>2 DEF SendTypes, SendBuffers
    <3>3. QED  BY <1>2, <1>4, <1>5, <1>6, <3>1, <3>2 DEF SendFrames
  <2>8. DeviceWoken'
    BY <1>1, <1>2 DEF SendTypes, DeviceWoken
  <2>9. QED  BY <2>5, <2>6, <2>7, <2>8
<1>7. QED  BY <1>2, <1>3, <1>6 DEF SendInv

\* The thread writes the tail pointer, or frees its buffer.
LEMMA KickFreeSend ==
  ASSUME SendInv, NEW s \in Senders, Kick(s) \/ Free(s)
  PROVE  SendInv'
<1> USE DEF transmitter, Goto
<1>1. SendTypes /\ SendBuffers
  BY DEF SendInv
<1>2. /\ pc[s] \in {"kick", "free"}
      /\ \E l \in {"free", "out"} : pc' = [pc EXCEPT ![s] = l]
      /\ UNCHANGED <<memory, sxHead, buffer, index, count, sxRing, sxPosition, sent,
                     claimed, reused>>
  BY DEF Kick, Free
<1>3. /\ active' \in BOOLEAN /\ (active => active')
      /\ pc[s] = "kick" => active'
  BY <1>1 DEF Kick, Free, SendTypes
<1>4. SendTypes' /\ SendBuffers'
  <2>1. CASE Kick(s)
    <3>1. pc' = [pc EXCEPT ![s] = "free"] /\ pc[s] = "kick" /\ list' = list
      BY <2>1 DEF Kick
    <3>2. QED  BY <1>1, <1>2, <1>3, <3>1 DEF SendTypes, SendBuffers
  <2>2. CASE Free(s)
    <3>1. /\ pc' = [pc EXCEPT ![s] = "out"] /\ pc[s] = "free"
          /\ list' = Append(list, buffer[s])
      BY <2>2 DEF Free
    <3>2. /\ list' \in Seq(SxSlots) /\ Len(list') = Len(list) + 1 /\ Len(list) \in Nat
          /\ \A i \in 1..Len(list) : list'[i] = list[i]
          /\ list'[Len(list) + 1] = buffer[s]
      BY <1>1, <3>1 DEF SendTypes
    <3>3. SendTypes'
      <4>1. pc' \in [Senders -> {"out", "fill", "claim", "wait", "write", "kick", "free"}]
        BY <1>1, <3>1 DEF SendTypes
      <4>2. list' \in Seq(SxSlots)
        BY <3>2
      <4>3. /\ sxRing' = sxRing /\ memory' = memory /\ sxHead' = sxHead
            /\ sxPosition' = sxPosition /\ buffer' = buffer /\ index' = index
            /\ count' = count /\ reused' = reused /\ claimed' = claimed /\ sent' = sent
        BY <1>2
      <4>4. active' \in BOOLEAN
        BY <1>3
      <4> HIDE DEF transmitter, Goto
      <4>5. QED  BY ZenonT(30), <1>1, <4>1, <4>2, <4>3, <4>4 DEF SendTypes
    <3>4. SendBuffers'
      <4>1. pc \in [Senders -> {"out", "fill", "claim", "wait", "write", "kick", "free"}]
        BY <1>1 DEF SendTypes
      <4>2. \A t \in Senders : pc'[t] # "out" => t # s /\ pc[t] # "out"
        BY <3>1, <4>1
      <4>3. buffer' = buffer
        BY <1>2
      <4>4. \A t, u \in Senders :
              pc[t] # "out" /\ pc[u] # "out" /\ buffer[t] = buffer[u] => t = u
        BY <1>1 DEF SendBuffers
      <4>5. \A t \in Senders : pc'[t] # "out" => buffer[t] # buffer[s]
        BY <1>1, <3>1, <4>2, <4>4
      <4>6. \A i \in 1..Len(list) : list[i] # buffer[s]
        BY <1>1, <3>1 DEF SendBuffers
      <4>7. \A i, j \in 1..(Len(list) + 1) : list'[i] = list'[j] => i = j
        <5>1. \A i, j \in 1..Len(list) : list[i] = list[j] => i = j
          BY <1>1 DEF SendBuffers
        <5>2. QED  BY <3>2, <4>6, <5>1
      <4>8. \A t \in Senders : pc'[t] # "out" =>
              \A i \in 1..(Len(list) + 1) : list'[i] # buffer[t]
        <5>1. \A t \in Senders : pc'[t] # "out" =>
                \A i \in 1..Len(list) : list[i] # buffer[t]
          BY <1>1, <4>2 DEF SendBuffers
        <5>2. QED  BY <3>2, <4>5, <5>1
      <4>9. QED  BY <3>2, <4>2, <4>3, <4>4, <4>7, <4>8 DEF SendBuffers
    <3>5. QED  BY <3>3, <3>4
  <2>3. QED  BY <2>1, <2>2
<1>5. \A t \in Senders : /\ Waits(t)' <=> Waits(t)
                         /\ FrameOf(t)' = FrameOf(t)
                         /\ pc'[t] \in {"fill", "claim", "wait", "write"} => pc'[t] = pc[t]
  BY <1>1, <1>2 DEF SendTypes, Waits, FrameOf
<1>6. ASSUME SendPositions, SendRing, SendFrames, DeviceWoken
      PROVE  SendPositions' /\ SendRing' /\ SendFrames' /\ DeviceWoken'
  <2>1. Sent' = Sent /\ Claimed' = Claimed
    BY <1>2 DEF Sent, Claimed
  <2>2. SendPositions' /\ SendRing'
    BY <1>2, <1>5, <1>6, <2>1 DEF SendPositions, SendRing
  <2>3. SendFrames'
    BY <1>2, <1>5, <1>6 DEF SendFrames
  <2>4. DeviceWoken'
    <3>1. CASE pc[s] = "kick"
      BY <1>3, <3>1 DEF DeviceWoken
    <3>2. CASE pc[s] # "kick"
      <4>1. \A t \in Senders : pc[t] = "kick" => pc'[t] = "kick"
        BY <1>1, <1>2, <3>2 DEF SendTypes
      <4>2. sxRing' = sxRing /\ sxPosition' = sxPosition
        BY <1>2
      <4>3. ASSUME sxRing[sxPosition].own
            PROVE  active' \/ \E t \in Senders : pc'[t] = "kick"
        <5>1. CASE active
          BY <1>3, <5>1
        <5>2. CASE ~active
          BY <1>6, <4>1, <4>3, <5>2 DEF DeviceWoken
        <5>3. QED  BY <5>1, <5>2
      <4>4. QED  BY <4>2, <4>3 DEF DeviceWoken
    <3>3. QED  BY <3>1, <3>2
  <2>5. QED  BY <2>2, <2>3, <2>4
<1>7. QED  BY <1>2, <1>4, <1>6 DEF SendInv

\* The device transmits the first frame that is claimed and not sent.
LEMMA TransmitSend ==
  ASSUME SendInv, Transmit
  PROVE  SendInv'
<1> DEFINE d == sxPosition
           x == memory[sxRing[d].buffer]
<1> USE DEF sender
<1>1. SendTypes /\ SendBuffers /\ d \in SxSlots /\ x \in SomeFrames
  BY DEF SendInv, SendTypes
<1>2. /\ active /\ sxRing[d].own /\ sxRing' = [sxRing EXCEPT ![d].own = FALSE]
      /\ sxPosition' = (d + 1) % SendBufferCount
      /\ UNCHANGED <<list, memory, sxHead, pc, buffer, index, count, active, claimed, reused>>
  BY DEF Transmit
<1>3. sent' = Append(sent, x)
  BY DEF Transmit
<1>4. /\ sent' \in Seq(SomeFrames) /\ Sent' = Sent + 1 /\ Claimed' = Claimed
      /\ \A i \in 1..Sent : sent'[i] = sent[i]
      /\ sent'[Sent + 1] = x /\ Sent \in Nat /\ Claimed \in Nat
  BY <1>1, <1>2, <1>3, SendLengths DEF SendTypes, Sent, Claimed
<1>5. \A e \in SxSlots : /\ sxRing'[e].buffer = sxRing[e].buffer
                         /\ sxRing'[e].own <=> sxRing[e].own /\ e # d
  BY <1>1, <1>2 DEF SendTypes
<1>6. SendTypes' /\ SendBuffers'
  <2>1. sxRing' \in [SxSlots -> [buffer : SxSlots, own : BOOLEAN]]
    BY <1>1, <1>2 DEF SendTypes
  <2>2. sxPosition' \in SxSlots
    <3>1. d + 1 \in Int
      BY <1>1 DEF SxSlots
    <3>2. QED  BY <1>2, <3>1, Division DEF SxSlots
  <2>3. QED  BY <1>1, <1>2, <1>4, <2>1, <2>2 DEF SendTypes, SendBuffers
<1>7. \A t \in Senders : (Waits(t)' <=> Waits(t)) /\ FrameOf(t)' = FrameOf(t)
  BY <1>2 DEF Waits, FrameOf
<1>8. ASSUME SendPositions, SendRing, SendFrames, DeviceWoken
      PROVE  SendPositions' /\ SendRing' /\ SendFrames' /\ DeviceWoken'
  <2>1. d = SxSlot(Sent)
    BY <1>8 DEF SendPositions
  <2>2. PICK p \in Sent..(Claimed - 1) : d = SxSlot(p) /\ x = claimed[p + 1]
    BY <1>1, <1>2, <1>8 DEF SendRing
  <2>3. \A q \in Sent..(Claimed - 1) : SxSlot(q) = d => q = Sent
    BY <1>1, <1>4, <1>8, <2>1, PendingSlots
  <2>4. Sent < Claimed /\ x = claimed[Sent + 1]
    BY <1>4, <2>2, <2>3
  <2>5. SendPositions'
    <3>1. sxPosition' = SxSlot(Sent + 1)
      BY <1>2, <1>4, <2>1, SxSlotFacts
    <3>2. \A i \in 1..(Sent + 1) : sent'[i] = claimed[i]
      <4> SUFFICES ASSUME NEW i \in 1..(Sent + 1)  PROVE sent'[i] = claimed[i]
        OBVIOUS
      <4>1. CASE i = Sent + 1
        BY <1>4, <2>4, <4>1
      <4>2. CASE i # Sent + 1
        <5>1. i \in 1..Sent
          BY <1>4, <4>2
        <5>2. QED  BY <1>4, <1>8, <5>1 DEF SendPositions
      <4>3. QED  BY <4>1, <4>2
    <3>3. /\ Sent + 1 <= Claimed
          /\ Claimed <= (Sent + 1) + SendBufferCount
      BY <1>4, <1>8, <2>4, DMAAssumption DEF SendPositions
    <3>4. sxHead' = Claimed'
      BY <1>2, <1>4, <1>8 DEF SendPositions
    <3>5. /\ sxPosition' = SxSlot(Sent') /\ Sent' <= Claimed'
          /\ Claimed' <= Sent' + SendBufferCount
          /\ \A i \in 1..Sent' : sent'[i] = claimed'[i]
      <4>1. claimed' = claimed /\ Sent' = Sent + 1 /\ Claimed' = Claimed
        BY <1>2, <1>4
      <4>2. QED  BY <3>1, <3>2, <3>3, <4>1
    <3>6. QED  BY <3>4, <3>5 DEF SendPositions
  <2>6. SendRing'
    <3>1. ASSUME NEW e \in SxSlots, sxRing'[e].own
          PROVE  \E q \in (Sent + 1)..(Claimed - 1) :
                   e = SxSlot(q) /\ memory[sxRing'[e].buffer] = claimed[q + 1]
      <4>1. sxRing[e].own /\ e # d
        BY <1>5, <3>1
      <4>2. PICK q \in Sent..(Claimed - 1) :
              e = SxSlot(q) /\ memory[sxRing[e].buffer] = claimed[q + 1]
        BY <1>8, <4>1 DEF SendRing
      <4>3. q # Sent
        BY <2>1, <4>1, <4>2
      <4>4. QED  BY <1>4, <1>5, <4>2, <4>3
    <3>2. ASSUME NEW q \in (Sent + 1)..(Claimed - 1), ~sxRing'[SxSlot(q)].own
          PROVE  \E t \in Senders : Waits(t)' /\ index[t] = SxSlot(q)
      <4>1. q \in Sent..(Claimed - 1) /\ SxSlot(q) \in SxSlots /\ q # Sent
        BY <1>4, SxSlotFacts
      <4>2. ~sxRing[SxSlot(q)].own
        BY <1>5, <2>3, <3>2, <4>1
      <4>3. QED  BY <1>7, <1>8, <4>1, <4>2 DEF SendRing
    <3>3. ASSUME NEW t \in Senders, Waits(t)'
          PROVE  /\ ~sxRing'[index[t]].own
                 /\ \E q \in (Sent + 1)..(Claimed - 1) :
                      index[t] = SxSlot(q) /\ claimed[q + 1] = FrameOf(t)
      <4>1. Waits(t) /\ index[t] \in SxSlots /\ ~sxRing[index[t]].own
        BY <1>1, <1>7, <1>8, <3>3 DEF SendTypes, SendRing
      <4>2. PICK q \in Sent..(Claimed - 1) :
              index[t] = SxSlot(q) /\ claimed[q + 1] = FrameOf(t)
        BY <1>8, <4>1 DEF SendRing
      <4>3. q \in (Sent + 1)..(Claimed - 1)
        <5>1. q # Sent
          BY <1>2, <2>1, <4>1, <4>2
        <5>2. QED  BY <1>4, <4>2, <5>1
      <4>4. ~sxRing'[index[t]].own
        BY <1>5, <4>1
      <4>5. QED  BY <4>2, <4>3, <4>4
    <3>4. /\ claimed' = claimed /\ memory' = memory /\ index' = index
          /\ Sent' = Sent + 1 /\ Claimed' = Claimed
      BY <1>2, <1>4
    <3>5. \A e \in SxSlots : sxRing'[e].own =>
            \E q \in Sent'..(Claimed' - 1) :
              e = SxSlot(q) /\ memory'[sxRing'[e].buffer] = claimed'[q + 1]
      BY <3>1, <3>4
    <3>6. \A q \in Sent'..(Claimed' - 1) : ~sxRing'[SxSlot(q)].own =>
            \E t \in Senders : Waits(t)' /\ index'[t] = SxSlot(q)
      BY <3>2, <3>4
    <3>7. \A t \in Senders : Waits(t)' =>
            /\ ~sxRing'[index'[t]].own
            /\ \E q \in Sent'..(Claimed' - 1) :
                 index'[t] = SxSlot(q) /\ claimed'[q + 1] = FrameOf(t)'
      BY <1>7, <3>3, <3>4
    <3>8. QED  BY <3>5, <3>6, <3>7 DEF SendRing
  <2>7. SendFrames'
    BY <1>2, <1>5, <1>7, <1>8 DEF SendFrames
  <2>8. DeviceWoken'
    BY <1>2 DEF DeviceWoken
  <2>9. QED  BY <2>5, <2>6, <2>7, <2>8
<1>9. QED  BY <1>2, <1>6, <1>8 DEF SendInv

\* The device stops at a descriptor that it does not own; or a step leaves the
\* send ring alone.
LEMMA SuspendSend ==
  ASSUME SendInv, Suspend \/ UNCHANGED transmit
  PROVE  SendInv'
<1> USE DEF sender, transmitter, transmit
<1>1. UNCHANGED <<list, memory, sxHead, pc, buffer, index, count, sxRing, sxPosition, sent,
                  claimed, reused>>
  BY DEF Suspend
<1>2. active' \in BOOLEAN /\ (active' = active \/ ~sxRing[sxPosition].own)
  BY DEF Suspend, SendInv, SendTypes
<1>3. SendTypes' /\ SendBuffers'
  BY <1>1, <1>2 DEF SendInv, SendTypes, SendBuffers
<1>4. Sent' = Sent /\ Claimed' = Claimed
  BY <1>1 DEF Sent, Claimed
<1>5. ASSUME ~reused  PROVE SendPositions' /\ SendRing' /\ SendFrames'
  <2>1. SendPositions /\ SendRing /\ SendFrames
    BY <1>5 DEF SendInv
  <2>2. SendPositions'
    BY <1>1, <1>4, <2>1 DEF SendPositions
  <2>3. \A t \in Senders : (Waits(t)' <=> Waits(t)) /\ FrameOf(t)' = FrameOf(t)
    BY <1>1 DEF Waits, FrameOf
  <2>4. SendRing'
    BY <1>1, <1>4, <2>1, <2>3 DEF SendRing
  <2>5. SendFrames'
    BY <1>1, <2>1, <2>3 DEF SendFrames
  <2>6. QED  BY <2>2, <2>4, <2>5
<1>6. ~reused => DeviceWoken'
  BY <1>1, <1>2 DEF SendInv, DeviceWoken
<1>7. QED  BY <1>1, <1>3, <1>5, <1>6 DEF SendInv

\* Every step preserves the send invariant.
LEMMA SendNext == SendInv /\ [Next]_vars => SendInv'
<1> SUFFICES ASSUME SendInv, [Next]_vars  PROVE SendInv'
  OBVIOUS
<1>1. ASSUME NEW s \in Senders, Send(s)  PROVE SendInv'
  BY <1>1, AllocSend, FillSend, ClaimSend, WaitSend, WriteSend, KickFreeSend DEF Send
<1>2. CASE Transmit \/ Suspend
  BY <1>2, TransmitSend, SuspendSend
<1>3. CASE Arrive \/ OnTrap \/ Worker
  <2>1. UNCHANGED transmit
    BY <1>3 DEF Arrive, OnTrap, Trap, NotifyRi, ClearRi, NotifyRbu, ClearRbu, Worker, P,
                Receive, Notify, Release
  <2>2. QED  BY <2>1, SuspendSend
<1>4. CASE UNCHANGED vars
  BY <1>4, SuspendSend DEF vars
<1>5. QED  BY <1>1, <1>2, <1>3, <1>4 DEF Next

\* The send invariant holds in every reachable state.
LEMMA SendHolds == Spec => []SendInv
<1>1. QED  BY SendInit, SendNext, PTL DEF Spec

\* Until alloc gives out a buffer that the device still has to read, the
\* device transmits what the threads have sent in the order of their claims,
\* and nothing is left behind when everyone is done.
THEOREM FramesSentInOrder == Spec => []SendsInOrder
<1>1. ASSUME SendInv, ~reused
      PROVE  /\ IsPrefix(sent, claimed)
             /\ ~active /\ (\A s \in Senders : pc[s] = "out") => sent = claimed
  <2>1. SendTypes /\ SendPositions /\ SendRing /\ DeviceWoken
    BY <1>1 DEF SendInv
  <2>2. Sent \in Nat /\ Claimed \in Nat /\ Sent <= Claimed
    BY <2>1, SendLengths DEF SendPositions
  <2>3. IsPrefix(sent, claimed)
    BY <2>1, <2>2, PrefixByEntries DEF SendTypes, SendPositions, Sent, Claimed
  <2>4. ASSUME ~active, \A s \in Senders : pc[s] = "out"
        PROVE  sent = claimed
    <3>1. ~(Sent < Claimed)
      <4> SUFFICES ASSUME Sent < Claimed  PROVE FALSE
        OBVIOUS
      <4>1. sxPosition = SxSlot(Sent) /\ Sent \in Sent..(Claimed - 1)
        BY <2>1, <2>2 DEF SendPositions
      <4>2. ~sxRing[SxSlot(Sent)].own
        BY <2>1, <2>4, <4>1 DEF DeviceWoken
      <4>3. QED  BY <2>1, <2>4, <4>1, <4>2 DEF SendRing, Waits
    <3>2. Len(sent) = Len(claimed) /\ \A i \in 1..Len(sent) : sent[i] = claimed[i]
      BY <2>1, <2>2, <3>1 DEF SendPositions, Sent, Claimed
    <3>3. sent \in Seq(SomeFrames) /\ claimed \in Seq(SomeFrames)
      BY <2>1 DEF SendTypes
    <3>4. QED  BY <3>2, <3>3, SeqEqual
  <2>5. QED  BY <2>3, <2>4
<1>2. SendInv => SendsInOrder
  BY <1>1 DEF SendsInOrder
<1>3. QED  BY <1>2, SendHolds, PTL
=============================================================================
