--------------------------- MODULE SwitchProofs ----------------------------
(***************************************************************************)
(* The virtual switch for any guests, ring sizes and frames: no completion *)
(* and no notification is lost, every buffer is in one place, and the      *)
(* guests receive the frames in one order.                                 *)
(***************************************************************************)
EXTENDS VirtualSwitch, FiniteSetTheorems, SequenceTheorems, TLAPS

-----------------------------------------------------------------------------
(* Indices of the rings: numbers that only grow, taken modulo a size.      *)

\* A number is its quotient and its remainder.
LEMMA Division ==
  ASSUME NEW n \in Nat \ {0}, NEW x \in Int
  PROVE  /\ x % n \in 0..(n - 1)
         /\ \E k \in Int : x = n * k + (x % n)
<1> DEFINE k == x \div n
           r == x % n
<1>1. r \in 0..(n - 1)
  OBVIOUS
<1>2. k \in Int
  OBVIOUS
<1>3. x = n * k + r
  OBVIOUS
<1>4. QED  BY <1>1, <1>2, <1>3

\* A multiple of n between -n and n is zero.
LEMMA SmallMultiple ==
  ASSUME NEW n \in Nat \ {0}, NEW d \in Int, -n < n * d, n * d < n
  PROVE  d = 0
<1>1. ASSUME d >= 1  PROVE n * d >= n
  BY <1>1
<1>2. ASSUME d <= -1  PROVE n * d <= -n
  BY <1>2
<1>3. QED  BY <1>1, <1>2

\* There is one remainder in range.
LEMMA RemainderUnique ==
  ASSUME NEW n \in Nat \ {0}, NEW k \in Int, NEW r \in 0..(n - 1),
         NEW x \in Int, x = n * k + r
  PROVE  x % n = r
<1>1. PICK q \in Int : x = n * q + (x % n)
  BY Division
<1>2. x % n \in 0..(n - 1)
  BY Division
<1> DEFINE m == x % n
<1> HIDE DEF m
<1>3. m \in 0..(n - 1)
  BY <1>2 DEF m
<1>8. x = n * q + m
  BY <1>1 DEF m
<1>4. n * (k - q) = m - r
  BY <1>3, <1>8
<1>5. k - q = 0
  BY <1>3, <1>4, SmallMultiple
<1>6. m = r
  BY <1>3, <1>8, <1>5
<1>7. QED  BY <1>6 DEF m

\* Less than n positions apart, two positions have different slots.
LEMMA SlotsDiffer ==
  ASSUME NEW n \in Nat \ {0}, NEW p \in Int, NEW q \in Int,
         p < q, q < p + n
  PROVE  p % n # q % n
<1>1. PICK j \in Int : p = n * j + (p % n)
  BY Division
<1>2. PICK k \in Int : q = n * k + (q % n)
  BY Division
<1>3. p % n \in 0..(n - 1)
  BY Division
<1> SUFFICES ASSUME p % n = q % n  PROVE FALSE
  OBVIOUS
<1> DEFINE r == p % n
<1> HIDE DEF r
<1>4. r \in 0..(n - 1) /\ p = n * j + r /\ q = n * k + r
  BY <1>1, <1>2, <1>3 DEF r
<1>5. n * (k - j) = q - p
  BY <1>4
<1>6. k - j = 0
  BY <1>5, SmallMultiple
<1>7. QED  BY <1>5, <1>6

\* Numbers that differ by a multiple of n have the same remainder.
LEMMA SameRemainder ==
  ASSUME NEW n \in Nat \ {0}, NEW p \in Int, NEW q \in Int, NEW m \in Int, p = q + m,
         \E k \in Int : m = n * k
  PROVE  p % n = q % n
<1>1. PICK j \in Int : q = n * j + (q % n)
  BY Division
<1>2. PICK r \in 0..(n - 1) : r = q % n
  BY Division
<1>3. PICK i \in Int : n * i = (n * j) + m
  <2>1. PICK k \in Int : m = n * k
    OBVIOUS
  <2>2. j + k \in Int /\ n * (j + k) = (n * j) + m
    BY <2>1
  <2>3. QED  BY <2>2
<1>5. q = (n * j) + r
  BY <1>1, <1>2
<1>6. p = n * i + r
  BY <1>3, <1>5
<1>7. p % n = r
  <2>1. \A x \in Int : x = n * i + r => x % n = r
    BY RemainderUnique
  <2>2. QED  BY <1>6, <2>1
<1>8. QED  BY <1>2, <1>7

\* The same, for a name of its own: the provers do not look into it.
SameSlot(n, p, q) == p % n = q % n

\* Numbers whose difference is a multiple of n have the same slot.
LEMMA MultipleApart ==
  ASSUME NEW n \in Nat \ {0}, NEW p \in Int, NEW q \in Int, NEW m \in Int, p = q + m,
         \E k \in Int : m = n * k
  PROVE  SameSlot(n, p, q)
<1>1. p % n = q % n
  BY SameRemainder, Zenon
<1>2. QED  BY <1>1 DEF SameSlot

\* Small numbers are their own remainders.
LEMMA SmallRemainder ==
  ASSUME NEW n \in Nat \ {0}
  PROVE  /\ \A k \in 0..(n - 1) : k % n = k
         /\ \A k \in -n..-1 : k % n = k + n
         /\ \A x \in Int : (x % n) % n = x % n
<1>1. ASSUME NEW k \in 0..(n - 1)  PROVE k % n = k
  BY RemainderUnique, k = n * 0 + k
<1>2. ASSUME NEW k \in -n..-1  PROVE k % n = k + n
  <2>1. k = n * (-1) + (k + n) /\ k + n \in 0..(n - 1) /\ k \in Int
    OBVIOUS
  <2>2. QED  BY <2>1, RemainderUnique
<1>3. ASSUME NEW x \in Int  PROVE (x % n) % n = x % n
  BY <1>1, Division
<1>4. QED  BY <1>1, <1>2, <1>3

\* An index and its remainder have the same slot; small numbers are their own
\* slots.
LEMMA SlotOf ==
  ASSUME NEW n \in Nat \ {0}, NEW p \in Int
  PROVE  /\ SameSlot(n, p % n, p) /\ p % n \in Int
         /\ \A r \in 0..(n - 1) : SameSlot(n, p, r) => p % n = r
<1>1. PICK r \in 0..(n - 1) : r = p % n
  BY Division
<1>2. \A k \in 0..(n - 1) : k % n = k
  BY SmallRemainder
<1>3. r % n = r
  BY <1>2
<1>4. QED  BY <1>1, <1>2, <1>3 DEF SameSlot

\* Having the same slot is an equivalence.
LEMMA SlotsEqual ==
  ASSUME NEW n, NEW p, NEW q, NEW r
  PROVE  /\ SameSlot(n, p, q) => SameSlot(n, q, p)
         /\ SameSlot(n, p, q) /\ SameSlot(n, q, r) => SameSlot(n, p, r)
         /\ SameSlot(n, p, q) <=> p % n = q % n
BY Zenon DEF SameSlot

\* Two numbers have the same slot if their difference is a multiple of n, and
\* only then.
LEMMA MultipleOfSlots ==
  ASSUME NEW n \in Nat \ {0}, NEW p \in Int, NEW q \in Int, SameSlot(n, p, q)
  PROVE  \E k \in Int : p = q + n * k
<1> DEFINE r == q % n
<1>1. PICK i \in Int : p = n * i + r
  BY Division DEF SameSlot
<1>2. PICK j \in Int : q = n * j + r
  BY Division
<1>3. r \in Int
  BY Division
<1> HIDE DEF r
<1>4. i - j \in Int /\ p = q + n * (i - j)
  BY <1>1, <1>2, <1>3
<1>5. QED  BY <1>4

\* Sums and differences.
LEMMA SlotsOfSums ==
  ASSUME NEW n \in Nat \ {0}, NEW p \in Int, NEW q \in Int, SameSlot(n, p, q),
         NEW k \in Int, NEW a \in Int, NEW b \in Int,
         (a = p + k /\ b = q + k) \/ (a = k - p /\ b = k - q)
  PROVE  SameSlot(n, a, b)
<1>1. PICK j \in Int : p = q + n * j
  BY MultipleOfSlots
<1>2. PICK m \in Int : m = a - b
  OBVIOUS
<1>3. \E i \in Int : m = n * i
  <2>1. -j \in Int /\ n * (-j) = -(n * j)
    OBVIOUS
  <2>2. m = n * j \/ m = n * (-j)
    BY <1>1, <1>2, <2>1
  <2>3. QED  BY <2>1, <2>2
<1>4. a = b + m
  BY <1>2
<1>5. QED  BY <1>3, <1>4, MultipleApart

\* A ring that is a multiple of another one.
LEMMA CoarserSlots ==
  ASSUME NEW n \in Nat \ {0}, NEW m \in Nat \ {0}, m % n = 0,
         NEW p \in Int, NEW q \in Int, SameSlot(m, p, q)
  PROVE  SameSlot(n, p, q)
<1>1. PICK l \in Int : m = n * l
  <2>1. m \in Int
    OBVIOUS
  <2>2. PICK l \in Int : m = n * l + (m % n)
    BY <2>1, Division
  <2>3. m = n * l
    BY <2>2
  <2>4. QED  BY <2>3
<1>2. PICK j \in Int : p = q + m * j
  BY MultipleOfSlots
<1>3. PICK x \in Int : x = p - q
  OBVIOUS
<1>4. \E k \in Int : x = n * k
  <2>1. m * j = n * (l * j) /\ l * j \in Int
    BY <1>1
  <2>2. x = m * j
    BY <1>2, <1>3
  <2>3. QED  BY <2>1, <2>2
<1>5. p = q + x
  BY <1>3
<1>6. QED  BY <1>4, <1>5, MultipleApart

-----------------------------------------------------------------------------
Walking == {"free", "set", "raise"}

\* A worker that has taken a buffer has a receiver.
HasReceiver ==
  \A w \in Workers : pc[w] \in Walking => observer[w] \in 1..Len(Observers)

\* The driver has not seen a buffer of a used ring.
Unseen(g) == tx[g].used # seen[g].tx \/ rx[g].used # seen[g].rx

\* Someone has put a buffer into a used ring and not yet set interrupt_status.
Setting(g) ==
  \/ pc[g] = "txset"
  \/ holder # NoOne /\ pc[holder] = "set" /\ Receiver(holder) = g

\* Until the driver acknowledges, the status says that there is an unseen
\* buffer, unless someone is about to set it.
StatusSet ==
  \A g \in Guests :
    driver[g] \in {"run", "status", "ack"} /\ Unseen(g) /\ ~Setting(g) => status[g] = 1

SwitchInvariant ==
  TypeOK /\ HasReceiver /\ StatusSet /\ NoLostCompletion /\ NoLostNotification

-----------------------------------------------------------------------------
(* The rings.                                                              *)

\* What is left of a division is smaller than the divisor.
LEMMA Remainder ==
  ASSUME NEW n \in Nat \ {0}, NEW x \in Int
  PROVE  x % n \in 0..(n - 1)
  OBVIOUS

\* Positions in a ring, and its indices.
LEMMA SizeFacts ==
  /\ \A x \in Int : x % Size \in Ids
  /\ \A x \in Int : x % Modulus \in 0..(Modulus - 1)
  /\ Ids \subseteq Nat /\ 0..(Modulus - 1) \subseteq Int
<1>1. Size \in Nat \ {0} /\ Modulus \in Nat \ {0}
  BY SwitchAssumption
<1>2. ASSUME NEW x \in Int PROVE x % Size \in 0..(Size - 1)
  BY <1>1, Remainder
<1>3. ASSUME NEW x \in Int PROVE x % Modulus \in 0..(Modulus - 1)
  BY <1>1, Remainder
<1>4. 0..(Modulus - 1) \subseteq Int /\ 0..(Size - 1) \subseteq Nat
  BY <1>1
<1> QED BY <1>2, <1>3, <1>4 DEF Ids

\* The list of devices, and the identities.
LEMMA ListFacts ==
  /\ Len(Observers) \in Nat
  /\ \A i \in 1..Len(Observers) : Observers[i] \in Guests
  /\ Wire \notin Guests /\ NoOne \notin Guests \cup {Wire}
  BY SwitchAssumption, ElementOfSeq DEF Workers

\* alloc takes an index of the ring, and touches no used index.
LEMMA AllocType ==
  ASSUME NEW q \in QueueType
  PROVE  Alloc(q).id \in Ids /\ Alloc(q).queue \in QueueType /\ Alloc(q).queue.used = q.used
<1>1. q.last \in Int
  BY SizeFacts DEF QueueType
<1>2. q.last % Size \in Ids /\ Next16(q.last) \in 0..(Modulus - 1)
  BY <1>1, SizeFacts DEF Next16
<1> QED BY <1>2 DEF Alloc, QueueType

\* free writes one index into the used ring.
LEMMA FreeType ==
  ASSUME NEW q \in QueueType, NEW id \in Ids
  PROVE  Free(q, id) \in QueueType
<1>1. q.used \in Int
  BY SizeFacts DEF QueueType
<1>2. q.used % Size \in Ids /\ Next16(q.used) \in 0..(Modulus - 1)
  BY <1>1, SizeFacts DEF Next16
<1> QED BY <1>2 DEF Free, QueueType

\* What the driver offers goes into the available ring only.
LEMMA OfferType ==
  ASSUME NEW q \in QueueType, NEW ids \in Seq(Ids)
  PROVE  Offer(q, ids) \in QueueType /\ Offer(q, ids).used = q.used
<1> DEFINE position(p) == ((p - q.available) % Size) + 1
           ring == [p \in Ids |-> IF position(p) <= Len(ids) THEN ids[position(p)]
                                                        ELSE q.ring[p]]
           available == (q.available + Len(ids)) % Modulus
<1>0. q.available \in Int /\ Len(ids) \in Nat /\ q.ring \in [Ids -> Ids]
  <2>1. Len(ids) \in Nat
    OBVIOUS
  <2>2. q.available \in 0..(Modulus - 1) /\ q.ring \in [Ids -> Ids]
    BY DEF QueueType
  <2>3. q.available \in Int
    BY <2>2, SizeFacts
  <2> QED BY <2>1, <2>2, <2>3
<1>1. \A p \in Ids : position(p) \in Nat \ {0}
  <2> SUFFICES ASSUME NEW p \in Ids PROVE position(p) \in Nat \ {0}
    OBVIOUS
  <2>1. p - q.available \in Int
    <3>1. p \in Int
      BY SizeFacts
    <3> QED BY <1>0, <3>1
  <2>2. (p - q.available) % Size \in Ids
    BY <2>1, SizeFacts
  <2>3. (p - q.available) % Size \in Nat
    BY <2>2, SizeFacts
  <2> QED BY <2>3
<1>2. ring \in [Ids -> Ids]
  <2> SUFFICES ASSUME NEW p \in Ids PROVE ring[p] \in Ids
    OBVIOUS
  <2> HIDE DEF position
  <2>1. CASE position(p) <= Len(ids)
    BY <1>1, <2>1, ElementOfSeq
  <2>2. CASE ~(position(p) <= Len(ids))
    BY <1>0, <2>2
  <2> QED BY <2>1, <2>2
<1>3. available \in 0..(Modulus - 1)
  <2>1. q.available + Len(ids) \in Int
    BY <1>0
  <2> QED BY <2>1, SizeFacts
<1>4. Offer(q, ids) = [q EXCEPT !.available = available, !.ring = ring]
  BY DEF Offer
<1> HIDE DEF ring, available
<1> QED BY <1>2, <1>3, <1>4 DEF QueueType

\* The driver takes buffers back.
LEMMA ReturnedType ==
  ASSUME NEW q \in QueueType, NEW s \in 0..(Modulus - 1)
  PROVE  Returned(q, s) \in Seq(Ids)
<1>0. q.used \in Int /\ s \in Int /\ q.done \in [Ids -> Ids]
  BY SizeFacts DEF QueueType
<1>1. (q.used - s) % Modulus \in Nat
  <2>1. q.used - s \in Int
    BY <1>0
  <2>2. (q.used - s) % Modulus \in 0..(Modulus - 1)
    BY <2>1, SizeFacts
  <2> QED BY <2>2, SwitchAssumption
<1>2. ASSUME NEW i \in 1..((q.used - s) % Modulus)
      PROVE  q.done[(s + i - 1) % Size] \in Ids
  <2>1. s + i - 1 \in Int
    BY <1>0, <1>1
  <2>2. (s + i - 1) % Size \in Ids
    BY <2>1, SizeFacts
  <2> QED BY <1>0, <2>2
<1> QED BY <1>1, <1>2 DEF Returned

-----------------------------------------------------------------------------
(* The steps.                                                              *)

\* A step that puts nothing into a used ring, and changes nothing of the
\* handler and the interrupt, keeps what is known of completions.
LEMMA NothingRaised ==
  ASSUME StatusSet, NoLostCompletion, UNCHANGED <<driver, status, irq>>,
         \A g \in Guests : /\ Unseen(g)' => Unseen(g)
                           /\ Setting(g) => Setting(g)'
                           /\ Raising(g) => Raising(g)'
  PROVE  StatusSet' /\ NoLostCompletion'
<1>1. StatusSet'
  BY DEF StatusSet
<1>2. \A g \in Guests : driver[g] = "run" /\ ~irq[g] /\ ~Raising(g) => ~Unseen(g)
  BY DEF NoLostCompletion, Unseen
<1>3. \A g \in Guests : driver'[g] = "run" /\ ~irq'[g] /\ ~Raising(g)' => ~Unseen(g)'
  BY <1>2
<1> QED BY <1>1, <1>3 DEF NoLostCompletion, Unseen

\* A step for one guest: its completions are known of, and those of the others
\* are as before.
LEMMA OneGuest ==
  ASSUME StatusSet, NoLostCompletion, NEW g \in Guests,
         \A h \in Guests : h # g =>
           driver'[h] = driver[h] /\ status'[h] = status[h] /\ irq'[h] = irq[h],
         \A h \in Guests : h # g => (Unseen(h)' <=> Unseen(h)),
         \A h \in Guests : h # g => /\ Setting(h)' <=> Setting(h)
                                    /\ Raising(h)' <=> Raising(h),
         driver'[g] \in {"run", "status", "ack"} /\ Unseen(g)' /\ ~Setting(g)' =>
           status'[g] = 1,
         driver'[g] = "run" /\ ~irq'[g] /\ ~Raising(g)' => ~Unseen(g)'
  PROVE  StatusSet' /\ NoLostCompletion'
<1>1. StatusSet'
  BY DEF StatusSet
<1>2. \A h \in Guests : driver[h] = "run" /\ ~irq[h] /\ ~Raising(h) => ~Unseen(h)
  BY DEF NoLostCompletion, Unseen
<1>3. \A h \in Guests : driver'[h] = "run" /\ ~irq'[h] /\ ~Raising(h)' => ~Unseen(h)'
  BY <1>2
<1> QED BY <1>1, <1>3 DEF NoLostCompletion, Unseen

\* A frame is offered: the notification is still to come.
LEMMA PostStep ==
  ASSUME SwitchInvariant, NEW g \in Guests, Post(g)
  PROVE  SwitchInvariant'
<1> USE DEF SwitchInvariant, TypeOK, Workers, guest, worker, history
<1>a. \E q \in QueueType : q.used = tx[g].used /\ tx' = [tx EXCEPT ![g] = q]
  <2>1. PICK id \in spare[g] : tx' = [tx EXCEPT ![g] = Offer(tx[g], <<id>>)]
    BY DEF Post
  <2>2. tx[g] \in QueueType /\ <<id>> \in Seq(Ids)
    BY DEF RingTypes, DriverTypes
  <2>3. Offer(tx[g], <<id>>) \in QueueType /\ Offer(tx[g], <<id>>).used = tx[g].used
    BY <2>2, OfferType
  <2> QED BY <2>1, <2>3
<1>1. RingTypes'
  BY <1>a DEF RingTypes, Post
<1>2. DriverTypes'
  BY DEF DriverTypes, Post
<1>3. WorkerTypes' /\ HasReceiver'
  BY ListFacts DEF WorkerTypes, HasReceiver, Walking, Post
<1>4. \A h \in Guests : Unseen(h)' => Unseen(h)
  BY <1>a DEF Unseen, RingTypes, Post
<1>5. \A h \in Guests : (Setting(h) => Setting(h)') /\ (Raising(h) => Raising(h)')
  BY DEF Setting, Raising, Receiver, WorkerTypes, Post
<1>6. StatusSet' /\ NoLostCompletion'
  BY <1>4, <1>5, NothingRaised DEF Post
<1>7. NoLostNotification'
  BY OfferType
     DEF NoLostNotification, Available, RingTypes, DriverTypes, WorkerTypes,
         Receiver, Post
<1> QED BY <1>1, <1>2, <1>3, <1>6, <1>7 DEF SwitchInvariant

\* The notification leaves a permit.
LEMMA NotifyStep ==
  ASSUME SwitchInvariant, NEW g \in Guests, Notify(g)
  PROVE  SwitchInvariant'
<1> USE DEF SwitchInvariant, TypeOK, Workers, guest, worker, history
<1>1. RingTypes'
  BY DEF RingTypes, Notify
<1>2. DriverTypes'
  BY DEF DriverTypes, Notify
<1>3. WorkerTypes' /\ HasReceiver'
  BY ListFacts DEF WorkerTypes, HasReceiver, Walking, Notify
<1>4. \A h \in Guests : Unseen(h)' => Unseen(h)
  BY DEF Unseen, RingTypes, WorkerTypes, Receiver, Notify
<1>5. \A h \in Guests : (Setting(h) => Setting(h)') /\ (Raising(h) => Raising(h)')
  BY DEF Setting, Raising, Receiver, WorkerTypes, Notify
<1>6. StatusSet' /\ NoLostCompletion'
  BY <1>4, <1>5, NothingRaised DEF Notify
<1>7. NoLostNotification'
  BY DEF NoLostNotification, Available, RingTypes, DriverTypes, WorkerTypes,
         Receiver, Notify
<1> QED BY <1>1, <1>2, <1>3, <1>6, <1>7 DEF SwitchInvariant

\* The interrupt is taken into the handler.
LEMMA ClaimStep ==
  ASSUME SwitchInvariant, NEW g \in Guests, Claim(g)
  PROVE  SwitchInvariant'
<1> USE DEF SwitchInvariant, TypeOK, Workers, guest, worker, history
<1>1. RingTypes'
  BY DEF RingTypes, Claim, Handler
<1>2. DriverTypes'
  BY DEF DriverTypes, Claim, Handler
<1>3. WorkerTypes' /\ HasReceiver'
  BY ListFacts DEF WorkerTypes, HasReceiver, Walking, Claim, Handler
<1>4. \A h \in Guests : h # g => (Unseen(h)' <=> Unseen(h))
  BY DEF Unseen, RingTypes, WorkerTypes, Receiver, Claim, Handler
<1>5. \A h \in Guests : h # g => (Setting(h)' <=> Setting(h)) /\ (Raising(h)' <=> Raising(h))
  BY DEF Setting, Raising, Receiver, WorkerTypes, Claim, Handler
<1>6. \A h \in Guests : h # g =>
        driver'[h] = driver[h] /\ status'[h] = status[h] /\ irq'[h] = irq[h]
  BY DEF DriverTypes, Claim, Handler
<1>8. driver'[g] \in {"run", "status", "ack"} /\ Unseen(g)' /\ ~Setting(g)'
      => status'[g] = 1
  BY DEF StatusSet, DriverTypes, WorkerTypes, RingTypes, Unseen, Setting, Receiver,
         Claim, Handler
<1>9. driver'[g] = "run" /\ ~irq'[g] /\ ~Raising(g)' => ~Unseen(g)'
  BY DEF StatusSet, NoLostCompletion, DriverTypes, WorkerTypes, RingTypes, Unseen,
         Setting, Raising, Receiver, Claim, Handler
<1>10. StatusSet' /\ NoLostCompletion'
  BY <1>4, <1>5, <1>6, <1>8, <1>9, OneGuest
<1>7. NoLostNotification'
  BY DEF NoLostNotification, Available, RingTypes, DriverTypes, WorkerTypes,
         Receiver, Claim, Handler
<1> QED BY <1>1, <1>2, <1>3, <1>10, <1>7 DEF SwitchInvariant

\* Nothing set: whatever is unseen is still to be raised.
LEMMA ReadStatusStep ==
  ASSUME SwitchInvariant, NEW g \in Guests, ReadStatus(g)
  PROVE  SwitchInvariant'
<1> USE DEF SwitchInvariant, TypeOK, Workers, guest, worker, history
<1>1. RingTypes'
  BY DEF RingTypes, ReadStatus, Handler
<1>2. DriverTypes'
  BY DEF DriverTypes, ReadStatus, Handler
<1>3. WorkerTypes' /\ HasReceiver'
  BY ListFacts DEF WorkerTypes, HasReceiver, Walking, ReadStatus, Handler
<1>4. \A h \in Guests : h # g => (Unseen(h)' <=> Unseen(h))
  BY DEF Unseen, RingTypes, WorkerTypes, Receiver, ReadStatus, Handler
<1>5. \A h \in Guests : h # g => (Setting(h)' <=> Setting(h)) /\ (Raising(h)' <=> Raising(h))
  BY DEF Setting, Raising, Receiver, WorkerTypes, ReadStatus, Handler
<1>6. \A h \in Guests : h # g =>
        driver'[h] = driver[h] /\ status'[h] = status[h] /\ irq'[h] = irq[h]
  BY DEF DriverTypes, ReadStatus, Handler
<1>8. driver'[g] \in {"run", "status", "ack"} /\ Unseen(g)' /\ ~Setting(g)'
      => status'[g] = 1
  BY DEF StatusSet, DriverTypes, WorkerTypes, RingTypes, Unseen, Setting, Receiver,
         ReadStatus, Handler
<1>9. driver'[g] = "run" /\ ~irq'[g] /\ ~Raising(g)' => ~Unseen(g)'
  BY DEF StatusSet, NoLostCompletion, DriverTypes, WorkerTypes, RingTypes, Unseen,
         Setting, Raising, Receiver, ReadStatus, Handler
<1>10. StatusSet' /\ NoLostCompletion'
  BY <1>4, <1>5, <1>6, <1>8, <1>9, OneGuest
<1>7. NoLostNotification'
  BY DEF NoLostNotification, Available, RingTypes, DriverTypes, WorkerTypes,
         Receiver, ReadStatus, Handler
<1> QED BY <1>1, <1>2, <1>3, <1>10, <1>7 DEF SwitchInvariant

\* From here the handler is sure to look into the rings.
LEMMA AcknowledgeStep ==
  ASSUME SwitchInvariant, NEW g \in Guests, Acknowledge(g)
  PROVE  SwitchInvariant'
<1> USE DEF SwitchInvariant, TypeOK, Workers, guest, worker, history
<1>1. RingTypes'
  BY DEF RingTypes, Acknowledge, Handler
<1>2. DriverTypes'
  BY DEF DriverTypes, Acknowledge, Handler
<1>3. WorkerTypes' /\ HasReceiver'
  BY ListFacts DEF WorkerTypes, HasReceiver, Walking, Acknowledge, Handler
<1>4. \A h \in Guests : h # g => (Unseen(h)' <=> Unseen(h))
  BY DEF Unseen, RingTypes, WorkerTypes, Receiver, Acknowledge, Handler
<1>5. \A h \in Guests : h # g => (Setting(h)' <=> Setting(h)) /\ (Raising(h)' <=> Raising(h))
  BY DEF Setting, Raising, Receiver, WorkerTypes, Acknowledge, Handler
<1>6. \A h \in Guests : h # g =>
        driver'[h] = driver[h] /\ status'[h] = status[h] /\ irq'[h] = irq[h]
  BY DEF DriverTypes, Acknowledge, Handler
<1>8. driver'[g] \in {"run", "status", "ack"} /\ Unseen(g)' /\ ~Setting(g)'
      => status'[g] = 1
  BY DEF StatusSet, DriverTypes, WorkerTypes, RingTypes, Unseen, Setting, Receiver,
         Acknowledge, Handler
<1>9. driver'[g] = "run" /\ ~irq'[g] /\ ~Raising(g)' => ~Unseen(g)'
  BY DEF StatusSet, NoLostCompletion, DriverTypes, WorkerTypes, RingTypes, Unseen,
         Setting, Raising, Receiver, Acknowledge, Handler
<1>10. StatusSet' /\ NoLostCompletion'
  BY <1>4, <1>5, <1>6, <1>8, <1>9, OneGuest
<1>7. NoLostNotification'
  BY DEF NoLostNotification, Available, RingTypes, DriverTypes, WorkerTypes,
         Receiver, Acknowledge, Handler
<1> QED BY <1>1, <1>2, <1>3, <1>10, <1>7 DEF SwitchInvariant

\* Everything is seen.
LEMMA CollectStep ==
  ASSUME SwitchInvariant, NEW g \in Guests, Collect(g)
  PROVE  SwitchInvariant'
<1> USE DEF SwitchInvariant, TypeOK, Workers, guest, worker, history
<1>a. \E q \in QueueType : q.used = rx[g].used /\ rx' = [rx EXCEPT ![g] = q]
  <2>1. rx[g] \in QueueType /\ seen[g].rx \in 0..(Modulus - 1)
    BY DEF RingTypes
  <2>2. Returned(rx[g], seen[g].rx) \in Seq(Ids)
    BY <2>1, ReturnedType
  <2>3. rx' = [rx EXCEPT ![g] = Offer(rx[g], Returned(rx[g], seen[g].rx))]
    BY DEF Collect
  <2> QED BY <2>1, <2>2, <2>3, OfferType
<1>b. Returned(tx[g], seen[g].tx) \in Seq(Ids)
  <2>1. tx[g] \in QueueType /\ seen[g].tx \in 0..(Modulus - 1)
    BY DEF RingTypes
  <2> QED BY <2>1, ReturnedType
<1>c. /\ seen' = [seen EXCEPT ![g] = [rx |-> rx[g].used, tx |-> tx[g].used]]
      /\ rx[g].used \in 0..(Modulus - 1) /\ tx[g].used \in 0..(Modulus - 1)
      /\ UNCHANGED tx
  BY DEF Collect, RingTypes, QueueType
<1>d. ~Unseen(g)'
  BY <1>a, <1>c DEF Unseen, RingTypes
<1>1. RingTypes'
  BY <1>a, <1>c DEF RingTypes
<1>2. DriverTypes'
  <2>1. ToSet(Returned(tx[g], seen[g].tx)) \subseteq Ids
    BY <1>b DEF ToSet
  <2>2. spare' \in [Guests -> SUBSET Ids]
    BY <2>1 DEF Collect, DriverTypes
  <2>3. driver' \in [Guests -> {"run", "status", "ack", "collect"}]
    BY DEF Collect, Handler, DriverTypes
  <2> QED BY <2>2, <2>3 DEF DriverTypes, Collect
<1>3. WorkerTypes' /\ HasReceiver'
  BY ListFacts DEF WorkerTypes, HasReceiver, Walking, Collect, Handler
<1>4. \A h \in Guests : h # g => (Unseen(h)' <=> Unseen(h))
  BY <1>a, <1>c DEF Unseen, RingTypes
<1>5. \A h \in Guests : h # g => (Setting(h)' <=> Setting(h)) /\ (Raising(h)' <=> Raising(h))
  BY DEF Setting, Raising, Receiver, WorkerTypes, Collect, Handler
<1>6. \A h \in Guests : h # g =>
        driver'[h] = driver[h] /\ status'[h] = status[h] /\ irq'[h] = irq[h]
  BY DEF DriverTypes, Collect, Handler
<1>8. driver'[g] \in {"run", "status", "ack"} /\ Unseen(g)' /\ ~Setting(g)'
      => status'[g] = 1
  BY <1>d
<1>9. driver'[g] = "run" /\ ~irq'[g] /\ ~Raising(g)' => ~Unseen(g)'
  BY <1>d
<1>10. StatusSet' /\ NoLostCompletion'
  BY <1>4, <1>5, <1>6, <1>8, <1>9, OneGuest
<1>7. NoLostNotification'
  BY OfferType, ReturnedType
     DEF NoLostNotification, Available, RingTypes, DriverTypes, WorkerTypes,
         Receiver, Collect, Handler
<1> QED BY <1>1, <1>2, <1>3, <1>10, <1>7 DEF SwitchInvariant

\* The permit is taken for a look into the ring.
LEMMA PStep ==
  ASSUME SwitchInvariant, NEW g \in Guests, P(g)
  PROVE  SwitchInvariant'
<1> USE DEF SwitchInvariant, TypeOK, Workers, guest, worker, history
<1>1. RingTypes'
  BY DEF RingTypes, P, Goto
<1>2. DriverTypes'
  BY DEF DriverTypes, P, Goto
<1>3. WorkerTypes' /\ HasReceiver'
  BY ListFacts DEF WorkerTypes, HasReceiver, Walking, P, Goto
<1>4. \A h \in Guests : Unseen(h)' => Unseen(h)
  BY DEF Unseen, RingTypes, WorkerTypes, Receiver, P, Goto
<1>5. \A h \in Guests : (Setting(h) => Setting(h)') /\ (Raising(h) => Raising(h)')
  BY DEF Setting, Raising, Receiver, WorkerTypes, P, Goto
<1>6. StatusSet' /\ NoLostCompletion'
  BY <1>4, <1>5, NothingRaised DEF P, Goto
<1>7. NoLostNotification'
  BY DEF NoLostNotification, Available, RingTypes, DriverTypes, WorkerTypes,
         Receiver, P, Goto
<1> QED BY <1>1, <1>2, <1>3, <1>6, <1>7 DEF SwitchInvariant

\* The worker sleeps with an empty ring only.
LEMMA TestStep ==
  ASSUME SwitchInvariant, NEW g \in Guests, Test(g)
  PROVE  SwitchInvariant'
<1> USE DEF SwitchInvariant, TypeOK, Workers, guest, worker, history
<1>a. \E q \in QueueType : q.used = tx[g].used /\ tx' = [tx EXCEPT ![g] = q]
  <2>1. tx[g] \in QueueType /\ tx = [tx EXCEPT ![g] = tx[g]]
    BY DEF RingTypes
  <2>2. \/ tx' = tx
        \/ tx' = [tx EXCEPT ![g] = Alloc(tx[g]).queue]
    BY DEF Test
  <2> QED BY <2>1, <2>2, AllocType
<1>1. RingTypes'
  BY <1>a DEF RingTypes, Test
<1>2. DriverTypes'
  BY DEF DriverTypes, Test, Goto
<1>3. WorkerTypes' /\ HasReceiver'
  BY ListFacts DEF WorkerTypes, HasReceiver, Walking, Test, Goto
<1>4. \A h \in Guests : Unseen(h)' => Unseen(h)
  BY <1>a DEF Unseen, RingTypes, Test
<1>5. \A h \in Guests : (Setting(h) => Setting(h)') /\ (Raising(h) => Raising(h)')
  BY DEF Setting, Raising, Receiver, WorkerTypes, Test, Goto
<1>6. StatusSet' /\ NoLostCompletion'
  BY <1>4, <1>5, NothingRaised DEF Test, Goto
<1>7. NoLostNotification'
  BY AllocType
     DEF NoLostNotification, Available, RingTypes, DriverTypes, WorkerTypes,
         Receiver, Test, Goto
<1> QED BY <1>1, <1>2, <1>3, <1>6, <1>7 DEF SwitchInvariant

\* The wire has a frame.
LEMMA ArriveStep ==
  ASSUME SwitchInvariant, Arrive
  PROVE  SwitchInvariant'
<1> USE DEF SwitchInvariant, TypeOK, Workers, guest, worker, history
<1>1. RingTypes'
  BY DEF RingTypes, Arrive, Goto
<1>2. DriverTypes'
  BY DEF DriverTypes, Arrive, Goto
<1>3. WorkerTypes' /\ HasReceiver'
  BY ListFacts DEF WorkerTypes, HasReceiver, Walking, Arrive, Goto
<1>4. \A h \in Guests : Unseen(h)' => Unseen(h)
  BY DEF Unseen, RingTypes, WorkerTypes, Receiver, Arrive, Goto
<1>5. \A h \in Guests : (Setting(h) => Setting(h)') /\ (Raising(h) => Raising(h)')
  BY DEF Setting, Raising, Receiver, WorkerTypes, Arrive, Goto
<1>6. StatusSet' /\ NoLostCompletion'
  BY <1>4, <1>5, NothingRaised DEF Arrive, Goto
<1>7. NoLostNotification'
  BY DEF NoLostNotification, Available, RingTypes, DriverTypes, WorkerTypes,
         Receiver, Arrive, Goto
<1> QED BY <1>1, <1>2, <1>3, <1>6, <1>7 DEF SwitchInvariant

\* One worker at a time.
LEMMA LockStep ==
  ASSUME SwitchInvariant, NEW w \in Workers, Lock(w)
  PROVE  SwitchInvariant'
<1> USE DEF SwitchInvariant, TypeOK, Workers, guest, worker, history
<1>1. RingTypes'
  BY DEF RingTypes, Lock, Goto
<1>2. DriverTypes'
  BY DEF DriverTypes, Lock, Goto
<1>3. WorkerTypes' /\ HasReceiver'
  BY ListFacts DEF WorkerTypes, HasReceiver, Walking, Lock, Goto
<1>4. \A h \in Guests : Unseen(h)' => Unseen(h)
  BY DEF Unseen, RingTypes, WorkerTypes, Receiver, Lock, Goto
<1>5. \A h \in Guests : (Setting(h) => Setting(h)') /\ (Raising(h) => Raising(h)')
  BY DEF Setting, Raising, Receiver, WorkerTypes, Lock, Goto
<1>6. StatusSet' /\ NoLostCompletion'
  BY <1>4, <1>5, NothingRaised DEF Lock, Goto
<1>7. NoLostNotification'
  BY DEF NoLostNotification, Available, RingTypes, DriverTypes, WorkerTypes,
         Receiver, Lock, Goto
<1> QED BY <1>1, <1>2, <1>3, <1>6, <1>7 DEF SwitchInvariant

\* An RX buffer is taken.
LEMMA UpdateStep ==
  ASSUME SwitchInvariant, NEW w \in Workers, Update(w)
  PROVE  SwitchInvariant'
<1> USE DEF SwitchInvariant, TypeOK, Workers, guest, worker, history
<1>0. PICK g \in Guests : \/ rx' = rx /\ UNCHANGED <<buffer, pc>>
                            /\ observer' = [observer EXCEPT ![w] = @ + 1]
                         \/ /\ rx' = [rx EXCEPT ![g] = Alloc(rx[g]).queue]
                            /\ buffer' = [buffer EXCEPT ![w] = Alloc(rx[g]).id]
                            /\ Goto(w, "free") /\ UNCHANGED observer
  <2>1. Receiver(w) \in Guests
    BY ListFacts DEF Update, Receiver, WorkerTypes
  <2> QED BY <2>1 DEF Update
<1>a. \E q \in QueueType : q.used = rx[g].used /\ rx' = [rx EXCEPT ![g] = q]
  <2>1. rx[g] \in QueueType /\ rx = [rx EXCEPT ![g] = rx[g]]
    BY DEF RingTypes
  <2> QED BY <1>0, <2>1, AllocType
<1>b. rx[g] \in QueueType /\ Alloc(rx[g]).id \in Ids
  BY AllocType DEF RingTypes
<1>1. RingTypes'
  BY <1>a DEF RingTypes, Update
<1>2. DriverTypes'
  BY DEF DriverTypes, Update, Goto
<1>3. WorkerTypes' /\ HasReceiver'
  <2>1. observer[w] \in 1..Len(Observers) /\ pc[w] = "update"
    BY ListFacts DEF WorkerTypes, Update
  <2>2. buffer' \in [Workers -> Ids]
    BY <1>0, <1>b DEF WorkerTypes
  <2>3. observer' \in [Workers -> 1..(Len(Observers) + 1)]
    <3>1. observer[w] + 1 \in 1..(Len(Observers) + 1)
      BY <2>1, ListFacts
    <3> QED BY <1>0, <3>1 DEF WorkerTypes
  <2>4. pc' = pc \/ pc' = [pc EXCEPT ![w] = "free"]
    BY <1>0 DEF Goto
  <2>5. WorkerTypes'
    BY <2>1, <2>2, <2>3, <2>4 DEF WorkerTypes, Update
  <2>6. HasReceiver'
    BY <1>0, <2>1, <2>4 DEF HasReceiver, Walking, WorkerTypes, Goto
  <2> QED BY <2>5, <2>6
<1>4. \A h \in Guests : Unseen(h)' => Unseen(h)
  BY <1>a DEF Unseen, RingTypes, Update
<1>5. \A h \in Guests : (Setting(h) => Setting(h)') /\ (Raising(h) => Raising(h)')
  BY DEF Setting, Raising, Receiver, WorkerTypes, Update, Goto
<1>6. StatusSet' /\ NoLostCompletion'
  BY <1>4, <1>5, NothingRaised DEF Update, Goto
<1>7. NoLostNotification'
  BY AllocType
     DEF NoLostNotification, Available, RingTypes, DriverTypes, WorkerTypes,
         Receiver, Update, Goto
<1> QED BY <1>1, <1>2, <1>3, <1>6, <1>7 DEF SwitchInvariant

\* It is unseen, and the status is to be set.
LEMMA RxFreeStep ==
  ASSUME SwitchInvariant, NEW w \in Workers, RxFree(w)
  PROVE  SwitchInvariant'
<1> USE DEF SwitchInvariant, TypeOK, Workers, guest, worker, history
<1>0. PICK g \in Guests : g = Receiver(w)
  BY ListFacts DEF HasReceiver, Walking, WorkerTypes, Receiver, RxFree, Goto
<1>a. rx' = [rx EXCEPT ![g] = Free(rx[g], buffer[w])]
  BY <1>0 DEF RxFree
<1>b. Free(rx[g], buffer[w]) \in QueueType
  <2>1. rx[g] \in QueueType
    BY DEF RingTypes
  <2>2. buffer[w] \in Ids
    BY DEF WorkerTypes
  <2> QED BY <2>1, <2>2, FreeType
<1>c. UNCHANGED <<tx, seen>>
  BY DEF RxFree
<1>1. RingTypes'
  BY <1>a, <1>b, <1>c DEF RingTypes
<1>2. DriverTypes'
  BY DEF DriverTypes, RxFree, Goto
<1>3. WorkerTypes' /\ HasReceiver'
  BY ListFacts DEF WorkerTypes, HasReceiver, Walking, RxFree, Goto
<1>4. \A h \in Guests : h # g => (Unseen(h)' <=> Unseen(h))
  BY <1>0, <1>a, <1>c DEF Unseen, RingTypes
<1>5. \A h \in Guests : h # g => (Setting(h)' <=> Setting(h)) /\ (Raising(h)' <=> Raising(h))
  BY <1>0 DEF Setting, Raising, Receiver, WorkerTypes, RxFree, Goto
<1>6. \A h \in Guests : h # g =>
        driver'[h] = driver[h] /\ status'[h] = status[h] /\ irq'[h] = irq[h]
  BY <1>0 DEF DriverTypes, RxFree, Goto
<1>d. Setting(g)' /\ Raising(g)'
  <2>1. holder' = w /\ w # NoOne /\ pc'[w] = "set" /\ observer' = observer
    BY ListFacts DEF WorkerTypes, RxFree, Goto
  <2>2. Receiver(w)' = g
    BY <1>0, <2>1 DEF Receiver
  <2> QED BY <2>1, <2>2 DEF Setting, Raising
<1>8. driver'[g] \in {"run", "status", "ack"} /\ Unseen(g)' /\ ~Setting(g)'
      => status'[g] = 1
  BY <1>d
<1>9. driver'[g] = "run" /\ ~irq'[g] /\ ~Raising(g)' => ~Unseen(g)'
  BY <1>d
<1>10. StatusSet' /\ NoLostCompletion'
  BY <1>4, <1>5, <1>6, <1>8, <1>9, OneGuest
<1>7. NoLostNotification'
  BY FreeType
     DEF NoLostNotification, Available, RingTypes, DriverTypes, WorkerTypes,
         Receiver, RxFree, Goto
<1> QED BY <1>1, <1>2, <1>3, <1>10, <1>7 DEF SwitchInvariant

\* The status is set, and the interrupt is to be raised.
LEMMA RxSetStep ==
  ASSUME SwitchInvariant, NEW w \in Workers, RxSet(w)
  PROVE  SwitchInvariant'
<1> USE DEF SwitchInvariant, TypeOK, Workers, guest, worker, history
<1>0. PICK g \in Guests : g = Receiver(w)
  BY ListFacts DEF HasReceiver, Walking, WorkerTypes, Receiver, RxSet, Goto
<1>1. RingTypes'
  BY DEF RingTypes, RxSet, Goto
<1>2. DriverTypes'
  BY DEF DriverTypes, RxSet, Goto
<1>3. WorkerTypes' /\ HasReceiver'
  BY ListFacts DEF WorkerTypes, HasReceiver, Walking, RxSet, Goto
<1>4. \A h \in Guests : h # g => (Unseen(h)' <=> Unseen(h))
  BY <1>0 DEF Unseen, RingTypes, WorkerTypes, Receiver, RxSet, Goto
<1>5. \A h \in Guests : h # g => (Setting(h)' <=> Setting(h)) /\ (Raising(h)' <=> Raising(h))
  BY <1>0 DEF Setting, Raising, Receiver, WorkerTypes, RxSet, Goto
<1>6. \A h \in Guests : h # g =>
        driver'[h] = driver[h] /\ status'[h] = status[h] /\ irq'[h] = irq[h]
  BY <1>0 DEF DriverTypes, RxSet, Goto
<1>8. driver'[g] \in {"run", "status", "ack"} /\ Unseen(g)' /\ ~Setting(g)'
      => status'[g] = 1
  BY <1>0
     DEF StatusSet, DriverTypes, WorkerTypes, RingTypes, Unseen, Setting, Receiver,
         RxSet, Goto
<1>9. driver'[g] = "run" /\ ~irq'[g] /\ ~Raising(g)' => ~Unseen(g)'
  BY <1>0
     DEF StatusSet, NoLostCompletion, DriverTypes, WorkerTypes, RingTypes, Unseen,
         Setting, Raising, Receiver, RxSet, Goto
<1>10. StatusSet' /\ NoLostCompletion'
  BY <1>4, <1>5, <1>6, <1>8, <1>9, OneGuest
<1>7. NoLostNotification'
  BY DEF NoLostNotification, Available, RingTypes, DriverTypes, WorkerTypes,
         Receiver, RxSet, Goto
<1> QED BY <1>1, <1>2, <1>3, <1>10, <1>7 DEF SwitchInvariant

\* The interrupt is pending.
LEMMA RxRaiseStep ==
  ASSUME SwitchInvariant, NEW w \in Workers, RxRaise(w)
  PROVE  SwitchInvariant'
<1> USE DEF SwitchInvariant, TypeOK, Workers, guest, worker, history
<1>0. PICK g \in Guests : g = Receiver(w)
  BY ListFacts DEF HasReceiver, Walking, WorkerTypes, Receiver, RxRaise, Goto
<1>1. RingTypes'
  BY DEF RingTypes, RxRaise, Goto
<1>2. DriverTypes'
  BY DEF DriverTypes, RxRaise, Goto
<1>3. WorkerTypes' /\ HasReceiver'
  BY ListFacts DEF WorkerTypes, HasReceiver, Walking, RxRaise, Goto
<1>4. \A h \in Guests : h # g => (Unseen(h)' <=> Unseen(h))
  BY <1>0 DEF Unseen, RingTypes, WorkerTypes, Receiver, RxRaise, Goto
<1>5. \A h \in Guests : h # g => (Setting(h)' <=> Setting(h)) /\ (Raising(h)' <=> Raising(h))
  BY <1>0 DEF Setting, Raising, Receiver, WorkerTypes, RxRaise, Goto
<1>6. \A h \in Guests : h # g =>
        driver'[h] = driver[h] /\ status'[h] = status[h] /\ irq'[h] = irq[h]
  BY <1>0 DEF DriverTypes, RxRaise, Goto
<1>8. driver'[g] \in {"run", "status", "ack"} /\ Unseen(g)' /\ ~Setting(g)'
      => status'[g] = 1
  BY <1>0
     DEF StatusSet, DriverTypes, WorkerTypes, RingTypes, Unseen, Setting, Receiver,
         RxRaise, Goto
<1>9. driver'[g] = "run" /\ ~irq'[g] /\ ~Raising(g)' => ~Unseen(g)'
  BY <1>0
     DEF StatusSet, NoLostCompletion, DriverTypes, WorkerTypes, RingTypes, Unseen,
         Setting, Raising, Receiver, RxRaise, Goto
<1>10. StatusSet' /\ NoLostCompletion'
  BY <1>4, <1>5, <1>6, <1>8, <1>9, OneGuest
<1>7. NoLostNotification'
  BY DEF NoLostNotification, Available, RingTypes, DriverTypes, WorkerTypes,
         Receiver, RxRaise, Goto
<1> QED BY <1>1, <1>2, <1>3, <1>10, <1>7 DEF SwitchInvariant

\* Nobody walks the list.
LEMMA UnlockStep ==
  ASSUME SwitchInvariant, NEW w \in Workers, Unlock(w)
  PROVE  SwitchInvariant'
<1> USE DEF SwitchInvariant, TypeOK, Workers, guest, worker, history
<1>1. RingTypes'
  BY DEF RingTypes, Unlock, Goto
<1>2. DriverTypes'
  BY DEF DriverTypes, Unlock, Goto
<1>3. WorkerTypes' /\ HasReceiver'
  <2>1. pc' = [pc EXCEPT ![w] = IF w = Wire THEN "wait" ELSE "return"]
    BY DEF Unlock, Goto
  <2>2. observer' \in [Workers -> 1..(Len(Observers) + 1)]
    BY ListFacts DEF WorkerTypes, Unlock
  <2>3. buffer' \in [Workers -> Ids]
    <3>1. 0 \in Ids
      BY SwitchAssumption DEF Ids
    <3> QED BY <3>1 DEF WorkerTypes, Unlock
  <2>4. \A v \in Workers :
          pc'[v] \in {"update", "free", "set", "raise"} <=> holder' = v
    BY <2>1, ListFacts DEF WorkerTypes, Unlock
  <2>5. WorkerTypes'
    BY <2>1, <2>2, <2>3, <2>4 DEF WorkerTypes, Unlock
  <2>6. HasReceiver'
    BY <2>1 DEF HasReceiver, Walking, WorkerTypes, Unlock
  <2> QED BY <2>5, <2>6
<1>4. \A h \in Guests : Unseen(h)' => Unseen(h)
  BY DEF Unseen, RingTypes, WorkerTypes, Receiver, Unlock, Goto
<1>5. \A h \in Guests : (Setting(h) => Setting(h)') /\ (Raising(h) => Raising(h)')
  BY DEF Setting, Raising, Receiver, WorkerTypes, Unlock, Goto
<1>6. StatusSet' /\ NoLostCompletion'
  BY <1>4, <1>5, NothingRaised DEF Unlock, Goto
<1>7. NoLostNotification'
  BY ListFacts
     DEF NoLostNotification, Available, RingTypes, DriverTypes, WorkerTypes,
         Receiver, Unlock, Goto
<1> QED BY <1>1, <1>2, <1>3, <1>6, <1>7 DEF SwitchInvariant

\* A TX buffer is unseen, and the status is to be set.
LEMMA TxFreeStep ==
  ASSUME SwitchInvariant, NEW g \in Guests, TxFree(g)
  PROVE  SwitchInvariant'
<1> USE DEF SwitchInvariant, TypeOK, Workers, guest, worker, history
<1>a. tx' = [tx EXCEPT ![g] = Free(tx[g], tx[g].ring[(tx[g].last - 1) % Size])]
  BY DEF TxFree
<1>b. Free(tx[g], tx[g].ring[(tx[g].last - 1) % Size]) \in QueueType
  <2>1. tx[g] \in QueueType
    BY DEF RingTypes
  <2>2. tx[g].ring[(tx[g].last - 1) % Size] \in Ids
    <3>1. tx[g].last - 1 \in Int
      BY <2>1, SizeFacts DEF QueueType
    <3>2. (tx[g].last - 1) % Size \in Ids
      BY <3>1, SizeFacts
    <3> QED BY <2>1, <3>2 DEF QueueType
  <2> QED BY <2>1, <2>2, FreeType
<1>c. UNCHANGED <<rx, seen>>
  BY DEF TxFree
<1>1. RingTypes'
  BY <1>a, <1>b, <1>c DEF RingTypes
<1>2. DriverTypes'
  BY DEF DriverTypes, TxFree, Goto
<1>3. WorkerTypes' /\ HasReceiver'
  BY ListFacts DEF WorkerTypes, HasReceiver, Walking, TxFree, Goto
<1>4. \A h \in Guests : h # g => (Unseen(h)' <=> Unseen(h))
  BY <1>a, <1>c DEF Unseen, RingTypes
<1>5. \A h \in Guests : h # g => (Setting(h)' <=> Setting(h)) /\ (Raising(h)' <=> Raising(h))
  BY DEF Setting, Raising, Receiver, WorkerTypes, TxFree, Goto
<1>6. \A h \in Guests : h # g =>
        driver'[h] = driver[h] /\ status'[h] = status[h] /\ irq'[h] = irq[h]
  BY DEF DriverTypes, TxFree, Goto
<1>d. Setting(g)' /\ Raising(g)'
  BY DEF Setting, Raising, Receiver, WorkerTypes, TxFree, Goto
<1>8. driver'[g] \in {"run", "status", "ack"} /\ Unseen(g)' /\ ~Setting(g)'
      => status'[g] = 1
  BY <1>d
<1>9. driver'[g] = "run" /\ ~irq'[g] /\ ~Raising(g)' => ~Unseen(g)'
  BY <1>d
<1>10. StatusSet' /\ NoLostCompletion'
  BY <1>4, <1>5, <1>6, <1>8, <1>9, OneGuest
<1>7. NoLostNotification'
  BY FreeType, SizeFacts
     DEF NoLostNotification, Available, RingTypes, DriverTypes, WorkerTypes,
         Receiver, TxFree, Goto
<1> QED BY <1>1, <1>2, <1>3, <1>10, <1>7 DEF SwitchInvariant

\* The status is set, and the interrupt is to be raised.
LEMMA TxSetStep ==
  ASSUME SwitchInvariant, NEW g \in Guests, TxSet(g)
  PROVE  SwitchInvariant'
<1> USE DEF SwitchInvariant, TypeOK, Workers, guest, worker, history
<1>1. RingTypes'
  BY DEF RingTypes, TxSet, Goto
<1>2. DriverTypes'
  BY DEF DriverTypes, TxSet, Goto
<1>3. WorkerTypes' /\ HasReceiver'
  BY ListFacts DEF WorkerTypes, HasReceiver, Walking, TxSet, Goto
<1>4. \A h \in Guests : h # g => (Unseen(h)' <=> Unseen(h))
  BY DEF Unseen, RingTypes, WorkerTypes, Receiver, TxSet, Goto
<1>5. \A h \in Guests : h # g => (Setting(h)' <=> Setting(h)) /\ (Raising(h)' <=> Raising(h))
  BY DEF Setting, Raising, Receiver, WorkerTypes, TxSet, Goto
<1>6. \A h \in Guests : h # g =>
        driver'[h] = driver[h] /\ status'[h] = status[h] /\ irq'[h] = irq[h]
  BY DEF DriverTypes, TxSet, Goto
<1>8. driver'[g] \in {"run", "status", "ack"} /\ Unseen(g)' /\ ~Setting(g)'
      => status'[g] = 1
  BY DEF StatusSet, DriverTypes, WorkerTypes, RingTypes, Unseen, Setting, Receiver,
         TxSet, Goto
<1>9. driver'[g] = "run" /\ ~irq'[g] /\ ~Raising(g)' => ~Unseen(g)'
  BY DEF StatusSet, NoLostCompletion, DriverTypes, WorkerTypes, RingTypes, Unseen,
         Setting, Raising, Receiver, TxSet, Goto
<1>10. StatusSet' /\ NoLostCompletion'
  BY <1>4, <1>5, <1>6, <1>8, <1>9, OneGuest
<1>7. NoLostNotification'
  BY DEF NoLostNotification, Available, RingTypes, DriverTypes, WorkerTypes,
         Receiver, TxSet, Goto
<1> QED BY <1>1, <1>2, <1>3, <1>10, <1>7 DEF SwitchInvariant

\* The interrupt is pending, and the ring is looked at again.
LEMMA TxRaiseStep ==
  ASSUME SwitchInvariant, NEW g \in Guests, TxRaise(g)
  PROVE  SwitchInvariant'
<1> USE DEF SwitchInvariant, TypeOK, Workers, guest, worker, history
<1>1. RingTypes'
  BY DEF RingTypes, TxRaise, Goto
<1>2. DriverTypes'
  BY DEF DriverTypes, TxRaise, Goto
<1>3. WorkerTypes' /\ HasReceiver'
  BY ListFacts DEF WorkerTypes, HasReceiver, Walking, TxRaise, Goto
<1>4. \A h \in Guests : h # g => (Unseen(h)' <=> Unseen(h))
  BY DEF Unseen, RingTypes, WorkerTypes, Receiver, TxRaise, Goto
<1>5. \A h \in Guests : h # g => (Setting(h)' <=> Setting(h)) /\ (Raising(h)' <=> Raising(h))
  BY DEF Setting, Raising, Receiver, WorkerTypes, TxRaise, Goto
<1>6. \A h \in Guests : h # g =>
        driver'[h] = driver[h] /\ status'[h] = status[h] /\ irq'[h] = irq[h]
  BY DEF DriverTypes, TxRaise, Goto
<1>8. driver'[g] \in {"run", "status", "ack"} /\ Unseen(g)' /\ ~Setting(g)'
      => status'[g] = 1
  BY DEF StatusSet, DriverTypes, WorkerTypes, RingTypes, Unseen, Setting, Receiver,
         TxRaise, Goto
<1>9. driver'[g] = "run" /\ ~irq'[g] /\ ~Raising(g)' => ~Unseen(g)'
  BY DEF StatusSet, NoLostCompletion, DriverTypes, WorkerTypes, RingTypes, Unseen,
         Setting, Raising, Receiver, TxRaise, Goto
<1>10. StatusSet' /\ NoLostCompletion'
  BY <1>4, <1>5, <1>6, <1>8, <1>9, OneGuest
<1>7. NoLostNotification'
  BY DEF NoLostNotification, Available, RingTypes, DriverTypes, WorkerTypes,
         Receiver, TxRaise, Goto
<1> QED BY <1>1, <1>2, <1>3, <1>10, <1>7 DEF SwitchInvariant
-----------------------------------------------------------------------------
\* Both rings have been set up, and everything is seen.
LEMMA SwitchInit == Init => SwitchInvariant
<1> SUFFICES ASSUME Init PROVE SwitchInvariant
  OBVIOUS
<1>0. Start % Modulus \in 0..(Modulus - 1)
  <2>1. Start \in Int
    BY SwitchAssumption
  <2> QED BY <2>1, SizeFacts
<1>1. EmptyQueue \in QueueType
     /\ [EmptyQueue EXCEPT !.available = (@ + Size) % Modulus] \in QueueType
  <2>1. Start % Modulus \in 0..(Modulus - 1)
    BY <1>0
  <2>2. (Start % Modulus) + Size \in Int
    BY <2>1, SwitchAssumption
  <2>3. ((Start % Modulus) + Size) % Modulus \in 0..(Modulus - 1)
    BY <2>2, SizeFacts
  <2>4. EmptyQueue.available = Start % Modulus
    BY DEF EmptyQueue
  <2> QED BY <2>1, <2>3, <2>4 DEF EmptyQueue, QueueType
<1>2. RingTypes
  BY <1>0, <1>1 DEF Init, RingTypes
<1>3. DriverTypes
  BY DEF Init, DriverTypes
<1>4. WorkerTypes /\ HasReceiver
  <2>1. 0 \in Ids /\ 1 \in 1..(Len(Observers) + 1)
    BY SwitchAssumption, ListFacts DEF Ids
  <2> QED BY <2>1, ListFacts DEF Init, WorkerTypes, HasReceiver, Walking, Workers
<1>5. \A g \in Guests : ~Unseen(g)
  BY DEF Init, Unseen, EmptyQueue
<1>6. NoLostNotification
  BY DEF Init, NoLostNotification, Available, EmptyQueue
<1> QED BY <1>2, <1>3, <1>4, <1>5, <1>6
        DEF SwitchInvariant, TypeOK, StatusSet, NoLostCompletion, Unseen

\* Every step keeps the invariant.
LEMMA SwitchStep == SwitchInvariant /\ [Next]_vars => SwitchInvariant'
<1> SUFFICES ASSUME SwitchInvariant, [Next]_vars PROVE SwitchInvariant'
  OBVIOUS
<1>1. ASSUME NEW g \in Guests, Post(g) \/ Notify(g) \/ HandlerStep(g) \/ DeviceStep(g)
      PROVE  SwitchInvariant'
  BY <1>1, PostStep, NotifyStep, ClaimStep, ReadStatusStep, AcknowledgeStep,
     CollectStep, PStep, TestStep, TxFreeStep, TxSetStep, TxRaiseStep
     DEF HandlerStep, DeviceStep
<1>2. CASE Arrive
  BY <1>2, ArriveStep
<1>3. ASSUME NEW w \in Workers, Lock(w) \/ Forward(w) PROVE SwitchInvariant'
  BY <1>3, LockStep, UpdateStep, RxFreeStep, RxSetStep, RxRaiseStep, UnlockStep
     DEF Forward
<1>4. CASE UNCHANGED vars
  <2>1. TypeOK' /\ HasReceiver'
    BY <1>4
       DEF SwitchInvariant, TypeOK, RingTypes, DriverTypes, WorkerTypes,
           HasReceiver,
                vars, guest, worker
  <2>2. StatusSet' /\ NoLostCompletion'
    BY <1>4 DEF SwitchInvariant, StatusSet, NoLostCompletion, Unseen, Setting, Raising,
                Receiver, vars, guest, worker
  <2>3. NoLostNotification'
    BY <1>4 DEF SwitchInvariant, NoLostNotification, Available, vars, guest, worker
  <2> QED BY <2>1, <2>2, <2>3 DEF SwitchInvariant
<1> QED BY <1>1, <1>2, <1>3, <1>4 DEF Next

\* The invariant under which no completion and no notification is lost.
THEOREM SwitchInvariantHolds == Spec => []SwitchInvariant
<1> QED BY SwitchInit, SwitchStep, PTL DEF Spec

\* Types are kept, and whoever walks the list of devices holds lock_
\* (VirtualSwitch.hpp:21-34).
THEOREM SwitchTypes == Spec => []TypeOK
<1>1. SwitchInvariant => TypeOK
  BY DEF SwitchInvariant
<1> QED BY <1>1, SwitchInvariantHolds, PTL

\* A guest that is outside its handler, without an interrupt pending or about
\* to come, has seen every used buffer (Network.hpp:59-61, 78-80).
THEOREM CompletionsAreSeen == Spec => []NoLostCompletion
<1>1. SwitchInvariant => NoLostCompletion
  BY DEF SwitchInvariant
<1> QED BY <1>1, SwitchInvariantHolds, PTL

\* A worker that sleeps without a permit has taken every frame that its guest
\* has notified of (Network.hpp:36-39, 67-84).
THEOREM NotificationsAreTaken == Spec => []NoLostNotification
<1>1. SwitchInvariant => NoLostNotification
  BY DEF SwitchInvariant
<1> QED BY <1>1, SwitchInvariantHolds, PTL

-----------------------------------------------------------------------------
(* Distances in a ring.                                                     *)

\* How far index x is ahead of index y.
Ahead(x, y) == (x - y) % Modulus

\* The numbers of a ring.
LEMMA RingFacts ==
  /\ Size \in Nat \ {0} /\ Modulus \in Nat \ {0}
  /\ Size < Modulus /\ Modulus % Size = 0
BY SwitchAssumption

\* A distance is a remainder.
LEMMA AheadType ==
  ASSUME NEW x \in Int, NEW y \in Int
  PROVE  Ahead(x, y) \in 0..(Modulus - 1) /\ Ahead(x, y) \in Nat
<1>1. PICK d \in Int : d = x - y
  OBVIOUS
<1>2. d % Modulus \in 0..(Modulus - 1)
  BY SizeFacts
<1>3. QED  BY <1>1, <1>2, RingFacts DEF Ahead

\* An index k further ahead, or k less far behind.
LEMMA AheadMoves ==
  ASSUME NEW x \in Int, NEW y \in Int, NEW k \in Int,
         Ahead(x, y) + k \in 0..(Modulus - 1)
  PROVE  /\ Ahead((x + k) % Modulus, y) = Ahead(x, y) + k
         /\ Ahead(x, (y - k) % Modulus) = Ahead(x, y) + k
<1>1. PICK d \in Int, e \in Int, a \in Int, b \in Int, n \in Int, f \in Int :
        d = x - y /\ e = d + k /\ a = x + k /\ b = y - k /\ n = Ahead(x, y) /\ f = n + k
  BY AheadType
<1>2. SameSlot(Modulus, n, d) /\ f \in 0..(Modulus - 1)
  BY <1>1, RingFacts, SlotOf DEF Ahead
<1>3. SameSlot(Modulus, f, e)
  BY <1>1, <1>2, RingFacts, SlotsOfSums
<1>4. PICK r \in Int, s \in Int : r = a % Modulus /\ s = b % Modulus
  BY RingFacts, SlotOf
<1>5. SameSlot(Modulus, r, a) /\ SameSlot(Modulus, s, b)
  BY <1>4, RingFacts, SlotOf
<1>6. PICK g \in Int, h \in Int : g = r - y /\ h = x - s
  OBVIOUS
<1>7. SameSlot(Modulus, g, e)
  <2>1. -y \in Int /\ g = r + (-y) /\ e = a + (-y)
    BY <1>1, <1>6
  <2>2. QED  BY <1>5, <2>1, RingFacts, SlotsOfSums
<1>8. SameSlot(Modulus, h, e)
  <2>1. e = x - b
    BY <1>1
  <2>2. QED  BY <1>5, <1>6, <2>1, RingFacts, SlotsOfSums
<1>9. SameSlot(Modulus, g, f) /\ SameSlot(Modulus, h, f)
  BY <1>3, <1>7, <1>8, SlotsEqual
<1>10. g % Modulus = f /\ h % Modulus = f
  BY <1>2, <1>9, RingFacts, SlotOf
<1>11. QED  BY <1>1, <1>4, <1>6, <1>10 DEF Ahead

\* The slot of an index is that of its distance from another one.
LEMMA AheadSlot ==
  ASSUME NEW x \in Int, NEW y \in Int, NEW k \in Int, NEW a \in Int, NEW b \in Int,
         a = x + k, b = y + Ahead(x, y) + k
  PROVE  SameSlot(Size, a, b)
<1>1. PICK d \in Int, n \in Int, j \in Int : d = x - y /\ n = Ahead(x, y) /\ j = y + k
  BY AheadType
<1>2. SameSlot(Modulus, n, d)
  BY <1>1, RingFacts, SlotOf DEF Ahead
<1>3. SameSlot(Size, d, n)
  BY <1>2, RingFacts, CoarserSlots, SlotsEqual
<1>4. a = d + j /\ b = n + j
  BY <1>1
<1>5. QED  BY <1>3, <1>4, RingFacts, SlotsOfSums

\* An index counted on modulo 2^16 keeps its slots.
LEMMA IndexSlot ==
  ASSUME NEW x \in Int, NEW k \in Int, NEW a \in Int, NEW b \in Int,
         a = (x % Modulus) + k, b = x + k
  PROVE  SameSlot(Size, a, b)
<1>1. PICK r \in Int : r = x % Modulus /\ SameSlot(Modulus, r, x)
  BY RingFacts, SlotOf
<1>2. SameSlot(Size, r, x)
  BY <1>1, RingFacts, CoarserSlots
<1>3. QED  BY <1>1, <1>2, RingFacts, SlotsOfSums

\* Slots that are less than a round apart are different.
LEMMA SlotsApart ==
  ASSUME NEW p \in Int, NEW q \in Int, p # q, p < q + Size, q < p + Size
  PROVE  ~SameSlot(Size, p, q)
<1>1. CASE p < q
  BY <1>1, RingFacts, SlotsDiffer DEF SameSlot
<1>2. CASE q < p
  BY <1>2, RingFacts, SlotsDiffer DEF SameSlot
<1>3. QED  BY <1>1, <1>2

-----------------------------------------------------------------------------
(* What the operations of a queue do to the buffers in it.                  *)

\* The buffers in the available ring, entry by entry.
LEMMA WaitingFacts ==
  ASSUME NEW q \in QueueType
  PROVE  /\ Waiting(q) \in Seq(Ids) /\ Len(Waiting(q)) = Ahead(q.available, q.last)
         /\ Ahead(q.available, q.last) \in 0..(Modulus - 1)
         /\ \A i \in 1..Len(Waiting(q)) : Waiting(q)[i] = q.ring[(q.last + i - 1) % Size]
<1>1. /\ q.available \in Int /\ q.last \in Int /\ q.ring \in [Ids -> Ids]
      /\ Ahead(q.available, q.last) \in Nat
      /\ Ahead(q.available, q.last) \in 0..(Modulus - 1)
  BY SizeFacts, AheadType DEF QueueType
<1>2. ASSUME NEW i \in 1..Ahead(q.available, q.last)
      PROVE  q.ring[(q.last + i - 1) % Size] \in Ids
  <2>1. q.last + i - 1 \in Int
    BY <1>1
  <2>2. QED  BY <1>1, <2>1, SizeFacts
<1>3. Waiting(q) = [i \in 1..Ahead(q.available, q.last) |-> q.ring[(q.last + i - 1) % Size]]
  BY DEF Waiting, Ahead
<1>4. QED  BY <1>1, <1>2, <1>3

\* The used buffers that a driver that has seen those below s takes back.
LEMMA ReturnedFacts ==
  ASSUME NEW q \in QueueType, NEW s \in 0..(Modulus - 1)
  PROVE  /\ Returned(q, s) \in Seq(Ids) /\ Len(Returned(q, s)) = Ahead(q.used, s)
         /\ Ahead(q.used, s) \in 0..(Modulus - 1)
         /\ \A i \in 1..Len(Returned(q, s)) : Returned(q, s)[i] = q.done[(s + i - 1) % Size]
<1>1. /\ q.used \in Int /\ s \in Int /\ q.done \in [Ids -> Ids]
      /\ Ahead(q.used, s) \in Nat /\ Ahead(q.used, s) \in 0..(Modulus - 1)
  BY SizeFacts, AheadType DEF QueueType
<1>2. ASSUME NEW i \in 1..Ahead(q.used, s)
      PROVE  q.done[(s + i - 1) % Size] \in Ids
  <2>1. s + i - 1 \in Int
    BY <1>1
  <2>2. QED  BY <1>1, <2>1, SizeFacts
<1>3. Returned(q, s) = [i \in 1..Ahead(q.used, s) |-> q.done[(s + i - 1) % Size]]
  BY DEF Returned, Ahead
<1>4. QED  BY <1>1, <1>2, <1>3

\* alloc takes the first buffer of the available ring.
LEMMA AllocRing ==
  ASSUME NEW q \in QueueType, Available(q)
  PROVE  LET r == Alloc(q).queue
         IN /\ Len(Waiting(q)) > 0 /\ Alloc(q).id = Head(Waiting(q))
            /\ r \in QueueType /\ Waiting(r) = Tail(Waiting(q))
            /\ \A s \in 0..(Modulus - 1) : Returned(r, s) = Returned(q, s)
            /\ r.ring[(r.last - 1) % Size] = Alloc(q).id
<1> DEFINE r == Alloc(q).queue
           n == Ahead(q.available, q.last)
<1>1. /\ q.available \in 0..(Modulus - 1) /\ q.last \in 0..(Modulus - 1)
      /\ q.available \in Int /\ q.last \in Int /\ q.ring \in [Ids -> Ids]
      /\ n \in 0..(Modulus - 1) /\ n \in Nat
  BY SizeFacts, AheadType DEF QueueType
<1> HIDE DEF n
<1>2. r = [q EXCEPT !.last = (q.last + 1) % Modulus] /\ r \in QueueType
  BY AllocType DEF Alloc, Next16
<1>3. /\ r.available = q.available /\ r.last = (q.last + 1) % Modulus /\ r.used = q.used
      /\ r.ring = q.ring /\ r.done = q.done
  BY <1>2 DEF QueueType
<1>4. n > 0
  <2> SUFFICES ASSUME n = 0  PROVE FALSE
    BY <1>1
  <2>1. PICK d \in Int : d = q.available - q.last
    BY <1>1
  <2>2. d % Modulus = 0
    BY <2>1 DEF Ahead, n
  <2>3. PICK k \in Int : d = Modulus * k
    <3>1. PICK z \in Int : z = 0
      OBVIOUS
    <3>2. SameSlot(Modulus, d, z)
      BY <2>2, <3>1, RingFacts, SmallRemainder DEF SameSlot
    <3>3. PICK k \in Int : d = z + Modulus * k
      BY <3>2, RingFacts, MultipleOfSlots
    <3>4. QED  BY <3>1, <3>3, RingFacts
  <2>4. -Modulus < Modulus * k /\ Modulus * k < Modulus
    BY <1>1, <2>1, <2>3, RingFacts
  <2>5. k = 0
    BY <2>4, RingFacts, SmallMultiple
  <2>6. q.available = q.last
    BY <1>1, <2>1, <2>3, <2>5, RingFacts
  <2>7. QED  BY <2>6 DEF Available
<1>5. Ahead(r.available, r.last) = n - 1
  <2>1. n + (-1) \in 0..(Modulus - 1) /\ -1 \in Int /\ q.last - (-1) = q.last + 1
    BY <1>1, <1>4, RingFacts
  <2>2. Ahead(q.available, (q.last - (-1)) % Modulus) = n + (-1)
    BY <1>1, <2>1, AheadMoves DEF n
  <2>3. QED  BY <1>1, <1>3, <2>1, <2>2
<1> HIDE DEF r
<1>6. /\ Waiting(q) \in Seq(Ids) /\ Len(Waiting(q)) = n /\ Waiting(r) \in Seq(Ids)
      /\ Len(Waiting(r)) = n - 1
  BY <1>2, <1>5, WaitingFacts DEF n
<1>7. ASSUME NEW i \in 1..(n - 1)
      PROVE  Waiting(r)[i] = Waiting(q)[i + 1]
  <2>1. i \in 1..Len(Waiting(r)) /\ i + 1 \in 1..Len(Waiting(q)) /\ n \in Nat
    BY <1>1, <1>6
  <2>2. Waiting(r)[i] = q.ring[(r.last + i - 1) % Size]
    BY <1>2, <1>3, <2>1, WaitingFacts
  <2>3. Waiting(q)[i + 1] = q.ring[(q.last + (i + 1) - 1) % Size]
    BY <2>1, WaitingFacts
  <2>4. PICK x \in Int, k \in Int, a \in Int, b \in Int :
          /\ x = q.last + 1 /\ k = i - 1 /\ a = (x % Modulus) + k /\ b = x + k
    <3>1. r.last \in Int /\ r.last = (q.last + 1) % Modulus
      BY <1>2, <1>3, SizeFacts DEF QueueType
    <3>2. q.last + 1 \in Int /\ i - 1 \in Int /\ r.last + (i - 1) \in Int
          /\ (q.last + 1) + (i - 1) \in Int
      BY <1>1, <3>1
    <3>3. QED  BY <3>1, <3>2
  <2>5. SameSlot(Size, a, b)
    BY <2>4, IndexSlot
  <2>6. a = r.last + i - 1 /\ b = q.last + (i + 1) - 1
    BY <1>1, <1>2, <1>3, <2>4, SizeFacts DEF QueueType
  <2>7. QED  BY <2>2, <2>3, <2>5, <2>6 DEF SameSlot
<1>8. Waiting(r) = Tail(Waiting(q))
  <2>1. /\ Waiting(q) # <<>> /\ Tail(Waiting(q)) \in Seq(Ids)
        /\ Len(Tail(Waiting(q))) = n - 1
        /\ \A i \in 1..(n - 1) : Tail(Waiting(q))[i] = Waiting(q)[i + 1]
    BY <1>4, <1>6, HeadTailProperties
  <2>2. QED  BY <1>6, <1>7, <2>1, SeqEqual
<1>9. Alloc(q).id = Head(Waiting(q))
  <2>1. Head(Waiting(q)) = Waiting(q)[1] /\ 1 \in 1..Len(Waiting(q))
    BY <1>1, <1>4, <1>6
  <2>2. Waiting(q)[1] = q.ring[(q.last + 1 - 1) % Size]
    BY <2>1, WaitingFacts
  <2>3. q.last + 1 - 1 = q.last
    BY <1>1
  <2>4. QED  BY <2>1, <2>2, <2>3 DEF Alloc
<1>10. \A s \in 0..(Modulus - 1) : Returned(r, s) = Returned(q, s)
  BY <1>3 DEF Returned
<1>11. r.ring[(r.last - 1) % Size] = Alloc(q).id
  <2>1. PICK x \in Int, k \in Int, a \in Int, b \in Int :
          /\ x = q.last + 1 /\ k = -1 /\ a = (x % Modulus) + k /\ b = x + k
    <3>1. r.last \in Int /\ r.last = (q.last + 1) % Modulus
      BY <1>2, <1>3, SizeFacts DEF QueueType
    <3>2. QED  BY <1>1, <3>1
  <2>2. SameSlot(Size, a, b)
    BY <2>1, IndexSlot
  <2>3. a = r.last - 1 /\ b = q.last
    BY <1>1, <1>2, <1>3, <2>1, SizeFacts DEF QueueType
  <2>4. QED  BY <1>3, <2>2, <2>3 DEF SameSlot, Alloc
<1>12. Len(Waiting(q)) > 0
  BY <1>4, <1>6
<1>13. QED  BY <1>2, <1>8, <1>9, <1>10, <1>11, <1>12 DEF r

\* free puts a buffer behind the used ones, if the ring is not full of them.
LEMMA FreeRing ==
  ASSUME NEW q \in QueueType, NEW id \in Ids, NEW s \in 0..(Modulus - 1),
         Len(Returned(q, s)) < Size
  PROVE  LET r == Free(q, id)
         IN /\ r \in QueueType /\ Returned(r, s) = Append(Returned(q, s), id)
            /\ Waiting(r) = Waiting(q) /\ r.last = q.last /\ r.ring = q.ring
<1> DEFINE r == Free(q, id)
           n == Ahead(q.used, s)
           e == q.used % Size
<1>1. /\ q.used \in Int /\ s \in Int /\ q.done \in [Ids -> Ids] /\ e \in Ids
      /\ n \in 0..(Modulus - 1) /\ n \in Nat
  BY SizeFacts, AheadType DEF QueueType
<1>2. /\ r = [q EXCEPT !.done = [q.done EXCEPT ![e] = id], !.used = (q.used + 1) % Modulus]
      /\ r \in QueueType
  BY FreeType DEF Free, Next16
<1>3. /\ r.available = q.available /\ r.last = q.last /\ r.ring = q.ring
      /\ r.used = (q.used + 1) % Modulus /\ r.done = [q.done EXCEPT ![e] = id]
  BY <1>2 DEF QueueType
<1>4. Waiting(r) = Waiting(q)
  BY <1>3 DEF Waiting
<1> HIDE DEF r, n
<1>5. n < Size
  BY ReturnedFacts DEF n
<1>6. Ahead(r.used, s) = n + 1
  <2>1. n + 1 \in 0..(Modulus - 1)
    BY <1>1, <1>5, RingFacts
  <2>2. QED  BY <1>1, <1>3, <2>1, AheadMoves DEF n
<1>7. /\ Returned(q, s) \in Seq(Ids) /\ Len(Returned(q, s)) = n /\ Returned(r, s) \in Seq(Ids)
      /\ Len(Returned(r, s)) = n + 1
  BY <1>2, <1>6, ReturnedFacts DEF n
<1>8. Size \in Nat /\ \A x \in Int : x % Size \in Ids
  BY SizeFacts, RingFacts
<1>9. ASSUME NEW i \in 1..n
      PROVE  Returned(r, s)[i] = Returned(q, s)[i]
  <2>1. i \in 1..Len(Returned(q, s)) /\ i \in 1..Len(Returned(r, s))
    BY <1>1, <1>7
  <2>2. PICK x \in Int : x = s + i - 1
    BY <1>1
  <2>3. Returned(r, s)[i] = r.done[x % Size] /\ Returned(q, s)[i] = q.done[x % Size]
    <3>1. /\ Returned(r, s)[i] = r.done[(s + i - 1) % Size]
          /\ Returned(q, s)[i] = q.done[(s + i - 1) % Size]
      BY <1>2, <2>1, ReturnedFacts
    <3>2. QED  BY <2>2, <3>1
  <2>4. PICK b \in Int : b = s + n
    BY <1>1
  <2>5. SameSlot(Size, q.used, b)
    <3>1. 0 \in Int /\ q.used = q.used + 0 /\ b = s + Ahead(q.used, s) + 0
      BY <1>1, <2>4 DEF n
    <3>2. QED  BY <1>1, <3>1, AheadSlot
  <2>6. ~SameSlot(Size, b, x)
    <3>1. b # x /\ b < x + Size /\ x < b + Size
      BY <1>1, <1>5, <1>8, <2>2, <2>4
    <3>2. QED  BY <3>1, SlotsApart
  <2>7. e # x % Size
    <3>1. ~SameSlot(Size, q.used, x)
      BY <2>5, <2>6, SlotsEqual
    <3>2. QED  BY <3>1 DEF SameSlot
  <2>8. x % Size \in Ids
    BY <1>8
  <2>9. QED  BY <1>1, <1>3, <2>3, <2>7, <2>8
<1>10. Returned(r, s)[n + 1] = id
  <2>1. n + 1 \in 1..Len(Returned(r, s))
    BY <1>1, <1>7
  <2>2. PICK x \in Int : x = s + (n + 1) - 1
    BY <1>1
  <2>3. Returned(r, s)[n + 1] = r.done[x % Size]
    <3>1. Returned(r, s)[n + 1] = r.done[(s + (n + 1) - 1) % Size]
      BY <1>2, <2>1, ReturnedFacts
    <3>2. QED  BY <2>2, <3>1
  <2>4. SameSlot(Size, q.used, x)
    <3>1. 0 \in Int /\ q.used = q.used + 0 /\ x = s + Ahead(q.used, s) + 0
      BY <1>1, <2>2 DEF n
    <3>2. QED  BY <1>1, <3>1, AheadSlot
  <2>5. x % Size = e
    BY <2>4 DEF SameSlot
  <2>6. QED  BY <1>1, <1>3, <2>3, <2>5
<1>11. Returned(r, s) = Append(Returned(q, s), id)
  <2>1. /\ Append(Returned(q, s), id) \in Seq(Ids) /\ Len(Append(Returned(q, s), id)) = n + 1
        /\ \A i \in 1..n : Append(Returned(q, s), id)[i] = Returned(q, s)[i]
        /\ Append(Returned(q, s), id)[n + 1] = id
    BY <1>7, AppendProperties
  <2>2. ASSUME NEW i \in 1..(n + 1)
        PROVE  Returned(r, s)[i] = Append(Returned(q, s), id)[i]
    <3>1. i \in 1..n \/ i = n + 1
      BY <1>1
    <3>2. QED  BY <1>9, <1>10, <2>1, <3>1
  <2>3. QED  BY <1>7, <2>1, <2>2, SeqEqual
<1>12. QED  BY <1>2, <1>3, <1>4, <1>11 DEF r

\* What the driver offers comes behind the buffers in the available ring, if
\* there is room for it; the slot of the buffer that the device took last is
\* kept if one more is free.
LEMMA OfferRing ==
  ASSUME NEW q \in QueueType, NEW ids \in Seq(Ids), Len(Waiting(q)) + Len(ids) <= Size
  PROVE  LET r == Offer(q, ids)
         IN /\ r \in QueueType /\ Waiting(r) = Waiting(q) \o ids
            /\ \A s \in 0..(Modulus - 1) : Returned(r, s) = Returned(q, s)
            /\ r.last = q.last /\ r.used = q.used
            /\ Len(Waiting(q)) + Len(ids) < Size =>
                 r.ring[(r.last - 1) % Size] = q.ring[(q.last - 1) % Size]
<1> DEFINE r == Offer(q, ids)
           n == Ahead(q.available, q.last)
           m == Len(ids)
           position(p) == ((p - q.available) % Size) + 1
           slots == [p \in Ids |-> IF position(p) <= m THEN ids[position(p)] ELSE q.ring[p]]
<1>1. /\ q.available \in Int /\ q.last \in Int /\ q.ring \in [Ids -> Ids]
      /\ n \in 0..(Modulus - 1) /\ n \in Nat /\ m \in Nat
  <2>1. m \in Nat
    OBVIOUS
  <2> HIDE DEF m
  <2>2. QED  BY <2>1, SizeFacts, AheadType DEF QueueType
<1>2. /\ r = [q EXCEPT !.available = (q.available + m) % Modulus, !.ring = slots]
      /\ r \in QueueType
  BY OfferType DEF Offer
<1> HIDE DEF slots
<1>3. /\ r.available = (q.available + m) % Modulus /\ r.last = q.last /\ r.ring = slots
      /\ r.used = q.used /\ r.done = q.done
  BY <1>2 DEF QueueType
<1> HIDE DEF r, n, m
<1>4. n + m <= Size /\ Len(Waiting(q)) = n
  BY WaitingFacts DEF n, m
<1>5. Ahead(r.available, r.last) = n + m
  <2>1. n + m \in 0..(Modulus - 1)
    BY <1>1, <1>4, RingFacts
  <2>2. QED  BY <1>1, <1>3, <2>1, AheadMoves DEF n
<1>6. /\ Waiting(q) \in Seq(Ids) /\ Waiting(r) \in Seq(Ids) /\ Len(Waiting(r)) = n + m
  BY <1>2, <1>5, WaitingFacts
<1>7. \A x \in Int : x % Size \in Ids
  BY SizeFacts
<1>15. Size \in Nat
  BY RingFacts
\* The slot j behind those in the ring.
<1>8. ASSUME NEW x \in Int, NEW j \in Int, x = q.last + n + j, -Size <= j, j < Size
      PROVE  /\ j >= 0 => position(x % Size) = j + 1
             /\ j < 0 => position(x % Size) = Size + j + 1
  <2>1. PICK y \in Int, z \in Int : y = x % Size /\ z = y - q.available
    BY <1>1, RingFacts, SlotOf
  <2>2. SameSlot(Size, y, x)
    BY <2>1, RingFacts, SlotOf
  <2>3. PICK a \in Int : a = q.available + j
    BY <1>1
  <2>4. SameSlot(Size, a, x)
    <3>1. x = q.last + Ahead(q.available, q.last) + j
      BY <1>8 DEF n
    <3>2. QED  BY <1>1, <2>3, <3>1, AheadSlot
  <2>5. SameSlot(Size, y, a)
    BY <2>2, <2>4, SlotsEqual
  <2>6. SameSlot(Size, z, j)
    <3>1. -q.available \in Int /\ z = y + (-q.available) /\ j = a + (-q.available)
      BY <1>1, <2>1, <2>3
    <3>2. QED  BY <2>5, <3>1, RingFacts, SlotsOfSums
  <2>7. CASE j >= 0
    <3>1. j \in 0..(Size - 1)
      BY <1>8, <2>7, RingFacts
    <3>2. z % Size = j
      BY <2>6, <3>1, RingFacts, SlotOf
    <3>3. QED  BY <1>8, <2>1, <2>7, <3>2
  <2>8. CASE j < 0
    <3>1. j % Size = j + Size
      <4>1. j \in -Size..-1
        BY <1>8, <2>8, RingFacts
      <4>2. QED  BY <4>1, RingFacts, SmallRemainder
    <3>2. z % Size = j + Size
      BY <2>6, <3>1 DEF SameSlot
    <3>3. QED  BY <1>15, <1>8, <2>1, <2>8, <3>2
  <2>9. QED  BY <1>8, <2>7, <2>8
<1> HIDE DEF position
<1>9. ASSUME NEW x \in Int, NEW j \in Int, x = q.last + n + j, -Size <= j, j < Size
      PROVE  /\ j >= 0 /\ j < m => slots[x % Size] = ids[j + 1]
             /\ j < 0 /\ Size + j >= m => slots[x % Size] = q.ring[x % Size]
  <2>1. slots[x % Size] = IF position(x % Size) <= m THEN ids[position(x % Size)]
                                                     ELSE q.ring[x % Size]
    BY <1>7 DEF slots
  <2>2. CASE j >= 0 /\ j < m
    <3>1. position(x % Size) = j + 1
      BY <1>8, <1>9, <2>2
    <3>2. QED  BY <1>1, <2>1, <2>2, <3>1
  <2>3. CASE j < 0 /\ Size + j >= m
    <3>1. position(x % Size) = Size + j + 1
      BY <1>8, <1>9, <2>3
    <3>2. ~(Size + j + 1 <= m)
      BY <1>1, <1>15, <2>3
    <3>3. QED  BY <2>1, <2>3, <3>1, <3>2
  <2>4. QED  BY <1>1, <1>15, <2>2, <2>3
<1>10. ASSUME NEW i \in 1..(n + m)
       PROVE  Waiting(r)[i] = IF i <= n THEN Waiting(q)[i] ELSE ids[i - n]
  <2>1. PICK x \in Int, j \in Int : x = q.last + i - 1 /\ j = i - 1 - n
    BY <1>1
  <2>2. x = q.last + n + j /\ -Size <= j /\ j < Size
    <3>1. q.last \in Int /\ n \in Nat /\ m \in Nat /\ Size \in Nat /\ n + m <= Size
      BY <1>1, <1>4, <1>15
    <3>2. i \in Nat /\ 1 <= i /\ i <= n + m
      BY <3>1
    <3> QED BY <2>1, <3>1, <3>2
  <2>3. Waiting(r)[i] = slots[x % Size]
    BY <1>2, <1>3, <1>6, <2>1, WaitingFacts
  <2>4. CASE i <= n
    <3>1. i \in 1..Len(Waiting(q)) /\ j < 0 /\ Size + j >= m
      BY <1>1, <1>4, <1>15, <2>1, <2>4
    <3>2. Waiting(q)[i] = q.ring[x % Size]
      BY <2>1, <3>1, WaitingFacts
    <3>3. QED  BY <1>9, <2>2, <2>3, <2>4, <3>1, <3>2
  <2>5. CASE i > n
    <3>1. j >= 0 /\ j < m /\ j + 1 = i - n /\ ~(i <= n)
      BY <1>1, <2>1, <2>5
    <3>2. slots[x % Size] = ids[j + 1]
      BY <1>9, <2>2, <3>1
    <3>3. QED  BY <2>3, <3>1, <3>2
  <2>6. QED  BY <1>1, <2>4, <2>5
<1>11. Waiting(r) = Waiting(q) \o ids
  <2>1. /\ Waiting(q) \o ids \in Seq(Ids) /\ Len(Waiting(q) \o ids) = n + m
        /\ \A i \in 1..(n + m) :
             (Waiting(q) \o ids)[i] = IF i <= n THEN Waiting(q)[i] ELSE ids[i - n]
    BY <1>4, <1>6, ConcatProperties DEF m
  <2>2. QED  BY <1>6, <1>10, <2>1, SeqEqual
<1>12. \A s \in 0..(Modulus - 1) : Returned(r, s) = Returned(q, s)
  BY <1>3 DEF Returned
<1>13. ASSUME n + m < Size
       PROVE  r.ring[(r.last - 1) % Size] = q.ring[(q.last - 1) % Size]
  <2>1. PICK x \in Int, j \in Int : x = q.last - 1 /\ j = -1 - n
    BY <1>1
  <2>2. x = q.last + n + j /\ -Size <= j /\ j < Size /\ j < 0 /\ Size + j >= m
    BY <1>1, <1>13, <1>15, <2>1
  <2>3. slots[x % Size] = q.ring[x % Size]
    BY <1>9, <2>2
  <2>4. QED  BY <1>3, <2>1, <2>3
<1>14. QED  BY <1>2, <1>3, <1>4, <1>11, <1>12, <1>13 DEF r, m

\* What the driver has seen is not returned again.
LEMMA AllSeen ==
  ASSUME NEW q \in QueueType
  PROVE  Returned(q, q.used) = <<>>
<1>1. q.used \in 0..(Modulus - 1) /\ q.used \in Int
  BY SizeFacts DEF QueueType
<1>2. (q.used - q.used) % Modulus = 0
  <2>1. q.used - q.used = 0 /\ 0 \in 0..(Modulus - 1)
    BY <1>1, RingFacts
  <2>2. QED  BY <2>1, RingFacts, SmallRemainder
<1>3. Len(Returned(q, q.used)) = 0 /\ Returned(q, q.used) \in Seq(Ids)
  BY <1>1, <1>2, ReturnedFacts DEF Ahead
<1>4. QED  BY <1>3, EmptySeq

-----------------------------------------------------------------------------
(* Sequences without repetition.                                            *)

\* The elements of a sequence, by their positions.
LEMMA Elements ==
  ASSUME NEW X, NEW s \in Seq(X)
  PROVE  /\ Len(s) \in Nat /\ DOMAIN s = 1..Len(s) /\ ToSet(s) \subseteq X
         /\ \A x : x \in ToSet(s) <=> \E i \in 1..Len(s) : s[i] = x
         /\ \A i \in 1..Len(s) : s[i] \in X
         /\ IsInjective(s) <=> \A i, j \in 1..Len(s) : s[i] = s[j] => i = j
BY DEF ToSet, IsInjective

\* Without the first one.
LEMMA TailElements ==
  ASSUME NEW X, NEW s \in Seq(X), Len(s) > 0, IsInjective(s)
  PROVE  /\ IsInjective(Tail(s)) /\ Head(s) \in ToSet(s) /\ Tail(s) \in Seq(X)
         /\ ToSet(Tail(s)) = ToSet(s) \ {Head(s)}
<1> DEFINE t == Tail(s)
           n == Len(s)
<1>1. /\ n \in Nat /\ n > 0 /\ s # <<>>
      /\ \A x : x \in ToSet(s) <=> \E i \in 1..n : s[i] = x
      /\ \A i, j \in 1..n : s[i] = s[j] => i = j
  BY Elements
<1>2. /\ t \in Seq(X) /\ Len(t) = n - 1 /\ \A i \in 1..(n - 1) : t[i] = s[i + 1]
      /\ Head(s) = s[1]
  BY <1>1, HeadTailProperties
<1>3. /\ \A x : x \in ToSet(t) <=> \E i \in 1..(n - 1) : t[i] = x
      /\ IsInjective(t) <=> \A i, j \in 1..(n - 1) : t[i] = t[j] => i = j
  <2> HIDE DEF t, n
  <2>1. /\ \A x : x \in ToSet(t) <=> \E i \in 1..Len(t) : t[i] = x
        /\ IsInjective(t) <=> \A i, j \in 1..Len(t) : t[i] = t[j] => i = j
    BY <1>2, Elements
  <2>2. QED  BY <1>2, <2>1
<1> HIDE DEF t, n
<1>4. \A i, j \in 1..(n - 1) : t[i] = t[j] => i = j
  <2> SUFFICES ASSUME NEW i \in 1..(n - 1), NEW j \in 1..(n - 1), t[i] = t[j]
               PROVE  i = j
    OBVIOUS
  <2>1. i + 1 \in 1..n /\ j + 1 \in 1..n /\ s[i + 1] = s[j + 1]
    BY <1>1, <1>2
  <2>2. i + 1 = j + 1
    BY <1>1, <2>1
  <2>3. QED  BY <2>2
<1>5. ASSUME NEW x  PROVE x \in ToSet(t) <=> x \in ToSet(s) /\ x # Head(s)
  <2>1. ASSUME x \in ToSet(t)  PROVE x \in ToSet(s) /\ x # Head(s)
    <3>1. PICK i \in 1..(n - 1) : t[i] = x
      BY <1>3, <2>1
    <3>2. i + 1 \in 1..n /\ 1 \in 1..n /\ i + 1 # 1 /\ s[i + 1] = x
      BY <1>1, <1>2, <3>1
    <3>3. QED  BY <1>1, <1>2, <3>2
  <2>2. ASSUME x \in ToSet(s), x # Head(s)  PROVE x \in ToSet(t)
    <3>1. PICK i \in 1..n : s[i] = x /\ i # 1
      BY <1>1, <1>2, <2>2
    <3>2. i - 1 \in 1..(n - 1) /\ (i - 1) + 1 = i
      BY <1>1, <3>1
    <3>3. t[i - 1] = x
      BY <1>2, <3>1, <3>2
    <3>4. QED  BY <1>3, <3>2, <3>3
  <2>3. QED  BY <2>1, <2>2
<1>6. Head(s) \in ToSet(s)
  BY <1>1, <1>2
<1>7. ToSet(t) = ToSet(s) \ {Head(s)}
  BY <1>5
<1>8. QED  BY <1>2, <1>3, <1>4, <1>6, <1>7 DEF t

\* With another sequence behind it.
LEMMA ConcatElements ==
  ASSUME NEW X, NEW s \in Seq(X), NEW t \in Seq(X)
  PROVE  /\ s \o t \in Seq(X) /\ ToSet(s \o t) = ToSet(s) \cup ToSet(t)
         /\ IsInjective(s \o t) <=>
              IsInjective(s) /\ IsInjective(t) /\ ToSet(s) \cap ToSet(t) = {}
<1> DEFINE u == s \o t
           m == Len(s)
           n == Len(t)
<1>1. /\ m \in Nat /\ n \in Nat /\ u \in Seq(X) /\ Len(u) = m + n
      /\ \A i \in 1..(m + n) : u[i] = IF i <= m THEN s[i] ELSE t[i - m]
  BY Elements, ConcatProperties
<1>2. /\ \A x : x \in ToSet(s) <=> \E i \in 1..m : s[i] = x
      /\ \A x : x \in ToSet(t) <=> \E i \in 1..n : t[i] = x
      /\ IsInjective(s) <=> \A i, j \in 1..m : s[i] = s[j] => i = j
      /\ IsInjective(t) <=> \A i, j \in 1..n : t[i] = t[j] => i = j
  BY Elements
<1>3. /\ \A x : x \in ToSet(u) <=> \E i \in 1..(m + n) : u[i] = x
      /\ IsInjective(u) <=> \A i, j \in 1..(m + n) : u[i] = u[j] => i = j
  <2> HIDE DEF u, m, n
  <2>1. /\ \A x : x \in ToSet(u) <=> \E i \in 1..Len(u) : u[i] = x
        /\ IsInjective(u) <=> \A i, j \in 1..Len(u) : u[i] = u[j] => i = j
    BY <1>1, Elements
  <2>2. QED  BY <1>1, <2>1
<1> HIDE DEF u, m, n
<1>4. /\ \A i \in 1..m : i \in 1..(m + n) /\ u[i] = s[i]
      /\ \A i \in 1..n : m + i \in 1..(m + n) /\ u[m + i] = t[i]
      /\ \A i \in 1..(m + n) : i \in 1..m \/ \E j \in 1..n : i = m + j
  <2>1. \A i \in 1..m : i \in 1..(m + n) /\ u[i] = s[i]
    BY <1>1
  <2>2. ASSUME NEW i \in 1..n  PROVE m + i \in 1..(m + n) /\ u[m + i] = t[i]
    <3>1. m + i \in 1..(m + n) /\ ~(m + i <= m) /\ (m + i) - m = i
      BY <1>1
    <3>2. QED  BY <1>1, <3>1
  <2>3. ASSUME NEW i \in 1..(m + n), ~(i \in 1..m)  PROVE \E j \in 1..n : i = m + j
    <3>1. i - m \in 1..n /\ i = m + (i - m)
      BY <1>1, <2>3
    <3>2. QED  BY <3>1
  <2>4. QED  BY <2>1, <2>2, <2>3
<1>5. ASSUME NEW x  PROVE x \in ToSet(u) <=> x \in ToSet(s) \/ x \in ToSet(t)
  <2>1. ASSUME x \in ToSet(u)  PROVE x \in ToSet(s) \/ x \in ToSet(t)
    BY <1>2, <1>3, <1>4, <2>1
  <2>2. ASSUME x \in ToSet(s)  PROVE x \in ToSet(u)
    BY <1>2, <1>3, <1>4, <2>2
  <2>3. ASSUME x \in ToSet(t)  PROVE x \in ToSet(u)
    BY <1>2, <1>3, <1>4, <2>3
  <2>4. QED  BY <2>1, <2>2, <2>3
<1>6. ASSUME IsInjective(u)
      PROVE  IsInjective(s) /\ IsInjective(t) /\ ToSet(s) \cap ToSet(t) = {}
  <2>1. IsInjective(s)
    BY <1>2, <1>3, <1>4, <1>6
  <2>2. IsInjective(t)
    <3>1. ASSUME NEW i \in 1..n, NEW j \in 1..n, t[i] = t[j]  PROVE i = j
      <4>1. m + i = m + j
        BY <1>3, <1>4, <1>6, <3>1
      <4>2. QED  BY <1>1, <4>1
    <3>2. QED  BY <1>2, <3>1
  <2>3. ASSUME NEW i \in 1..m, NEW j \in 1..n, s[i] = t[j]  PROVE FALSE
    <3>1. i = m + j
      BY <1>3, <1>4, <1>6, <2>3
    <3>2. QED  BY <1>1, <3>1
  <2>4. QED  BY <1>2, <2>1, <2>2, <2>3
<1>7. ASSUME IsInjective(s), IsInjective(t), ToSet(s) \cap ToSet(t) = {}
      PROVE  IsInjective(u)
  <2> SUFFICES ASSUME NEW i \in 1..(m + n), NEW j \in 1..(m + n), u[i] = u[j]
               PROVE  i = j
    BY <1>3
  <2>1. CASE i \in 1..m /\ j \in 1..m
    BY <1>2, <1>4, <1>7, <2>1
  <2>2. ASSUME NEW k \in 1..n, NEW l \in 1..n, i = m + k, j = m + l  PROVE i = j
    <3>1. t[k] = t[l]
      BY <1>4, <2>2
    <3>2. QED  BY <1>2, <1>7, <2>2, <3>1
  <2>3. ASSUME NEW k \in 1..m, NEW l \in 1..n, u[k] = u[m + l]  PROVE FALSE
    BY <1>2, <1>4, <1>7, <2>3
  <2>4. QED  BY <1>4, <2>1, <2>2, <2>3
<1>8. ToSet(u) = ToSet(s) \cup ToSet(t)
  BY <1>5
<1>9. QED  BY <1>1, <1>6, <1>7, <1>8 DEF u

\* With one more at the end.
LEMMA AppendElements ==
  ASSUME NEW X, NEW s \in Seq(X), NEW x \in X
  PROVE  /\ Append(s, x) \in Seq(X) /\ ToSet(Append(s, x)) = ToSet(s) \cup {x}
         /\ IsInjective(Append(s, x)) <=> IsInjective(s) /\ x \notin ToSet(s)
<1>1. <<x>> \in Seq(X) /\ Append(s, x) = s \o <<x>>
  BY AppendIsConcat
<1>2. ToSet(<<x>>) = {x} /\ IsInjective(<<x>>)
  BY DEF ToSet, IsInjective
<1> DEFINE t == <<x>>
<1> HIDE DEF t
<1>3. t \in Seq(X) /\ Append(s, x) = s \o t /\ ToSet(t) = {x} /\ IsInjective(t)
  BY <1>1, <1>2 DEF t
<1>4. /\ s \o t \in Seq(X) /\ ToSet(s \o t) = ToSet(s) \cup ToSet(t)
      /\ IsInjective(s \o t) <=>
           IsInjective(s) /\ IsInjective(t) /\ ToSet(s) \cap ToSet(t) = {}
  BY <1>3, ConcatElements
<1>5. Append(s, x) \in Seq(X) /\ ToSet(Append(s, x)) = ToSet(s) \cup {x}
  BY <1>3, <1>4
<1>6. IsInjective(Append(s, x)) <=> IsInjective(s) /\ x \notin ToSet(s)
  BY <1>3, <1>4
<1>7. QED  BY <1>5, <1>6

\* It is as long as its elements are many.
LEMMA LengthIsCardinality ==
  ASSUME NEW X, NEW s \in Seq(X), IsInjective(s)
  PROVE  IsFiniteSet(ToSet(s)) /\ Cardinality(ToSet(s)) = Len(s)
<1> DEFINE n == Len(s)
           T == ToSet(s)
<1>1. /\ n \in Nat /\ DOMAIN s = 1..n
      /\ \A x : x \in T <=> \E i \in 1..n : s[i] = x
      /\ \A i, j \in 1..n : s[i] = s[j] => i = j
  BY Elements
<1>2. s \in [1..n -> T]
  <2>1. s = [i \in 1..n |-> s[i]]
    OBVIOUS
  <2>2. QED  BY <1>1, <2>1
<1>3. IsFiniteSet(1..n) /\ Cardinality(1..n) = n
  <2> HIDE DEF n
  <2>1. QED  BY <1>1, FS_Interval
<1>4. s \in Bijection(1..n, T)
  BY <1>1, <1>2 DEF Bijection, Injection, Surjection, IsInjective
<1>5. ExistsBijection(1..n, T)
  BY <1>4 DEF ExistsBijection
<1> HIDE DEF n, T
<1>6. IsFiniteSet(T) /\ Cardinality(T) = n
  BY <1>3, <1>5, FS_Bijection
<1>7. QED  BY <1>6 DEF n, T

-----------------------------------------------------------------------------
(* Buffers.                                                                 *)

\* The buffers S are in the available ring, in the used ring or in hand, each
\* once.
Once(waiting, returned, hand, S) ==
  /\ IsInjective(waiting) /\ IsInjective(returned)
  /\ ToSet(waiting) \cap ToSet(returned) = {}
  /\ hand \cap (ToSet(waiting) \cup ToSet(returned)) = {}
  /\ ToSet(waiting) \cup ToSet(returned) \cup hand = S

\* The RX buffer and the TX buffer that a worker has in hand.
RxHand(g) ==
  IF holder # NoOne /\ pc[holder] = "free" /\ Receiver(holder) = g THEN {buffer[holder]} ELSE {}
TxHand(g) ==
  IF pc[g] \in {"wait", "test", "txset", "txraise"} THEN {}
  ELSE {tx[g].ring[(tx[g].last - 1) % Size]}

RxOnce(g) == Once(Waiting(rx[g]), Returned(rx[g], seen[g].rx), RxHand(g), Ids)
TxOnce(g) == Once(Waiting(tx[g]), Returned(tx[g], seen[g].tx), TxHand(g), Ids \ spare[g])

BuffersInv == \A g \in Guests : RxOnce(g) /\ TxOnce(g)

\* Buffers change places.
LEMMA OnceMoves ==
  ASSUME NEW w \in Seq(Ids), NEW r \in Seq(Ids), NEW h, NEW S
  PROVE  /\ Len(w) > 0 /\ Once(w, r, {}, S) => Once(Tail(w), r, {Head(w)}, S)
         /\ \A x \in Ids : Once(w, r, {x}, S) => Once(w, Append(r, x), {}, S)
         /\ Once(w, r, h, S) => Once(w \o r, <<>>, h, S)
         /\ Once(w, r, h, S) => Once(w, <<>>, h, S \ ToSet(r))
         /\ \A x \in Ids : x \notin S /\ Once(w, r, h, S) =>
              Once(w \o <<x>>, r, h, S \cup {x})
<1>1. ToSet(<<>>) = {} /\ IsInjective(<<>>)
  BY DEF ToSet, IsInjective
<1>2. ASSUME Len(w) > 0, Once(w, r, {}, S)  PROVE Once(Tail(w), r, {Head(w)}, S)
  <2>1. /\ IsInjective(Tail(w)) /\ Head(w) \in ToSet(w)
        /\ ToSet(Tail(w)) = ToSet(w) \ {Head(w)}
    BY <1>2, TailElements DEF Once
  <2> DEFINE t == Tail(w)
             x == Head(w)
  <2> HIDE DEF t, x
  <2>2. IsInjective(t) /\ x \in ToSet(w) /\ ToSet(t) = ToSet(w) \ {x}
    BY <2>1 DEF t, x
  <2>3. Once(t, r, {x}, S)
    BY <1>2, <2>2 DEF Once
  <2>4. QED  BY <2>3 DEF t, x
<1>3. ASSUME NEW x \in Ids, Once(w, r, {x}, S)  PROVE Once(w, Append(r, x), {}, S)
  <2> DEFINE t == Append(r, x)
  <2> HIDE DEF t
  <2>1. ToSet(t) = ToSet(r) \cup {x} /\ (IsInjective(t) <=> IsInjective(r) /\ x \notin ToSet(r))
    BY AppendElements DEF t
  <2>2. Once(w, t, {}, S)
    BY <1>3, <2>1 DEF Once
  <2>3. QED  BY <2>2 DEF t
<1>4. ASSUME Once(w, r, h, S)  PROVE Once(w \o r, <<>>, h, S)
  <2> DEFINE t == w \o r
             e == <<>>
  <2> HIDE DEF t, e
  <2>1. /\ ToSet(t) = ToSet(w) \cup ToSet(r)
        /\ IsInjective(t) <=>
             IsInjective(w) /\ IsInjective(r) /\ ToSet(w) \cap ToSet(r) = {}
        /\ ToSet(e) = {} /\ IsInjective(e)
    BY <1>1, ConcatElements DEF t, e
  <2>2. Once(t, e, h, S)
    BY <1>4, <2>1 DEF Once
  <2>3. QED  BY <2>2 DEF t, e
<1>5. ASSUME Once(w, r, h, S)  PROVE Once(w, <<>>, h, S \ ToSet(r))
  <2> DEFINE e == <<>>
  <2> HIDE DEF e
  <2>1. ToSet(e) = {} /\ IsInjective(e)
    BY <1>1 DEF e
  <2>2. Once(w, e, h, S \ ToSet(r))
    BY <1>5, <2>1 DEF Once
  <2>3. QED  BY <2>2 DEF e
<1>6. ASSUME NEW x \in Ids, x \notin S, Once(w, r, h, S)
      PROVE  Once(w \o <<x>>, r, h, S \cup {x})
  <2> DEFINE t == w \o <<x>>
  <2> HIDE DEF t
  <2>1. t = Append(w, x)
    BY AppendIsConcat DEF t
  <2>2. ToSet(t) = ToSet(w) \cup {x} /\ (IsInjective(t) <=> IsInjective(w) /\ x \notin ToSet(w))
    BY <2>1, AppendElements
  <2>3. Once(t, r, h, S \cup {x})
    BY <1>6, <2>2 DEF Once
  <2>4. QED  BY <2>3 DEF t
<1>7. QED  BY <1>2, <1>3, <1>4, <1>5, <1>6

\* There are as many buffers as there are places for them.
LEMMA OnceLengths ==
  ASSUME NEW w \in Seq(Ids), NEW r \in Seq(Ids), NEW h \in SUBSET Ids,
         NEW S \in SUBSET Ids, Once(w, r, h, S)
  PROVE  /\ Len(w) + Len(r) + Cardinality(h) = Cardinality(S)
         /\ Cardinality(S) + Cardinality(Ids \ S) = Size
         /\ Cardinality(h) \in Nat /\ Cardinality(S) \in Nat /\ Cardinality(Ids \ S) \in Nat
         /\ IsFiniteSet(S) /\ IsFiniteSet(h)
<1>1. IsFiniteSet(Ids) /\ Cardinality(Ids) = Size
  <2>1. Size - 1 \in Int /\ 0 \in Int /\ ~(0 > Size - 1) /\ (Size - 1) - 0 + 1 = Size
    BY RingFacts
  <2>2. QED  BY <2>1, FS_Interval DEF Ids
<1>2. /\ IsFiniteSet(S) /\ IsFiniteSet(h) /\ IsFiniteSet(Ids \ S)
  <2>1. Ids \ S \in SUBSET Ids
    OBVIOUS
  <2>2. QED  BY <1>1, <2>1, FS_Subset
<1>3. /\ IsFiniteSet(ToSet(w)) /\ Cardinality(ToSet(w)) = Len(w)
      /\ IsFiniteSet(ToSet(r)) /\ Cardinality(ToSet(r)) = Len(r)
  BY LengthIsCardinality DEF Once
<1>4. /\ Cardinality(h) \in Nat /\ Cardinality(S) \in Nat /\ Cardinality(Ids \ S) \in Nat
      /\ Len(w) \in Nat /\ Len(r) \in Nat
  BY <1>2, <1>3, FS_CardinalityType
<1>5. \A A, B : IsFiniteSet(A) /\ IsFiniteSet(B) /\ A \cap B = {} =>
        IsFiniteSet(A \cup B) /\ Cardinality(A \cup B) = Cardinality(A) + Cardinality(B)
  <2> SUFFICES ASSUME NEW A, NEW B, IsFiniteSet(A), IsFiniteSet(B), A \cap B = {}
               PROVE  /\ IsFiniteSet(A \cup B)
                      /\ Cardinality(A \cup B) = Cardinality(A) + Cardinality(B)
    OBVIOUS
  <2>1. /\ IsFiniteSet(A \cup B)
        /\ Cardinality(A \cup B) = Cardinality(A) + Cardinality(B) - Cardinality(A \cap B)
    BY FS_Union
  <2>2. Cardinality(A \cap B) = 0 /\ Cardinality(A) \in Nat /\ Cardinality(B) \in Nat
    BY FS_EmptySet, FS_CardinalityType
  <2>3. QED  BY <2>1, <2>2
<1>6. /\ ToSet(w) \cap ToSet(r) = {} /\ (ToSet(w) \cup ToSet(r)) \cap h = {}
      /\ (ToSet(w) \cup ToSet(r)) \cup h = S /\ S \cap (Ids \ S) = {} /\ S \cup (Ids \ S) = Ids
  BY DEF Once
<1>7. /\ IsFiniteSet(ToSet(w) \cup ToSet(r))
      /\ Cardinality(ToSet(w) \cup ToSet(r)) = Len(w) + Len(r)
  BY <1>3, <1>5, <1>6
<1>8. Cardinality(S) = Len(w) + Len(r) + Cardinality(h)
  BY <1>2, <1>5, <1>6, <1>7
<1>9. Cardinality(Ids) = Cardinality(S) + Cardinality(Ids \ S)
  BY <1>2, <1>5, <1>6
<1>10. QED  BY <1>1, <1>2, <1>4, <1>8, <1>9

\* The rings of a guest.
LEMMA GuestRings ==
  ASSUME SwitchInvariant, NEW g \in Guests
  PROVE  /\ tx[g] \in QueueType /\ rx[g] \in QueueType
         /\ seen[g].rx \in 0..(Modulus - 1) /\ seen[g].tx \in 0..(Modulus - 1)
         /\ Waiting(rx[g]) \in Seq(Ids) /\ Returned(rx[g], seen[g].rx) \in Seq(Ids)
         /\ Waiting(tx[g]) \in Seq(Ids) /\ Returned(tx[g], seen[g].tx) \in Seq(Ids)
         /\ RxHand(g) \in SUBSET Ids /\ TxHand(g) \in SUBSET Ids /\ spare[g] \in SUBSET Ids
<1>1. /\ tx[g] \in QueueType /\ rx[g] \in QueueType
      /\ seen[g].rx \in 0..(Modulus - 1) /\ seen[g].tx \in 0..(Modulus - 1)
      /\ spare[g] \in SUBSET Ids
  BY DEF SwitchInvariant, TypeOK, RingTypes, DriverTypes
<1>2. /\ Waiting(rx[g]) \in Seq(Ids) /\ Returned(rx[g], seen[g].rx) \in Seq(Ids)
      /\ Waiting(tx[g]) \in Seq(Ids) /\ Returned(tx[g], seen[g].tx) \in Seq(Ids)
  BY <1>1, WaitingFacts, ReturnedFacts
<1>3. RxHand(g) \in SUBSET Ids
  BY DEF RxHand, SwitchInvariant, TypeOK, WorkerTypes
<1>4. TxHand(g) \in SUBSET Ids
  <2>1. tx[g].last \in Int /\ tx[g].ring \in [Ids -> Ids]
    BY <1>1, SizeFacts DEF QueueType
  <2>2. PICK x \in Int : x = tx[g].last - 1
    BY <2>1
  <2>3. tx[g].ring[x % Size] \in Ids
    BY <2>1, SizeFacts
  <2>4. QED  BY <2>2, <2>3 DEF TxHand
<1>5. QED  BY <1>1, <1>2, <1>3, <1>4

\* Who holds the lock, and where the others are.
LEMMA Walkers ==
  ASSUME SwitchInvariant, NEW w \in Workers
  PROVE  /\ pc[w] \in {"update", "free", "set", "raise"} <=> holder = w
         /\ pc[w] \in {"wait", "test", "lock", "update", "free", "set", "raise",
                       "return", "txset", "txraise"}
         /\ pc[w] \in Walking => Receiver(w) \in Guests
         /\ w # NoOne
BY ListFacts, SwitchAssumption DEF SwitchInvariant, TypeOK, WorkerTypes, HasReceiver, Receiver, Workers

\* A step that leaves the rings alone.
LEMMA RingsKept ==
  ASSUME BuffersInv, UNCHANGED <<tx, rx, seen, spare>>,
         \A g \in Guests : RxHand(g)' = RxHand(g) /\ TxHand(g)' = TxHand(g)
  PROVE  BuffersInv'
BY DEF BuffersInv, RxOnce, TxOnce

\* The steps that leave the rings alone.
LEMMA BuffersElsewhere ==
  ASSUME SwitchInvariant, BuffersInv,
         \/ \E g \in Guests : \/ Notify(g) \/ Claim(g) \/ ReadStatus(g) \/ Acknowledge(g)
                              \/ P(g) \/ TxSet(g) \/ TxRaise(g)
         \/ Arrive
         \/ \E w \in Workers : Lock(w) \/ RxSet(w) \/ RxRaise(w) \/ Unlock(w)
         \/ UNCHANGED vars
  PROVE  BuffersInv'
<1> USE DEF guest, worker, history, Handler
<1>1. ASSUME NEW g \in Guests, Notify(g) \/ Claim(g) \/ ReadStatus(g) \/ Acknowledge(g)
      PROVE  BuffersInv'
  <2>1. UNCHANGED <<tx, rx, seen, spare, pc, holder, observer, buffer>>
    BY <1>1 DEF Notify, Claim, ReadStatus, Acknowledge
  <2>2. QED  BY <2>1, RingsKept DEF RxHand, TxHand, Receiver
<1>2. CASE UNCHANGED vars
  <2>1. UNCHANGED <<tx, rx, seen, spare, pc, holder, observer, buffer>>
    BY <1>2 DEF vars
  <2>2. QED  BY <2>1, RingsKept DEF RxHand, TxHand, Receiver
<1>3. ASSUME NEW w \in Workers, NEW l \in {"wait", "test", "lock", "txraise"},
             pc' = [pc EXCEPT ![w] = l], pc[w] \in {"wait", "test", "txset", "txraise"},
             l = "lock" => w = Wire,
             UNCHANGED <<tx, rx, seen, spare, holder, observer, buffer>>
      PROVE  BuffersInv'
  <2>1. pc \in [Workers -> {"wait", "test", "lock", "update", "free", "set", "raise",
                            "return", "txset", "txraise"}]
    BY DEF SwitchInvariant, TypeOK, WorkerTypes
  <2>2. holder # w
    BY <1>3, Walkers
  <2>3. \A g \in Guests : RxHand(g)' = RxHand(g)
    BY <1>3, <2>1, <2>2 DEF RxHand, Receiver, SwitchInvariant, TypeOK, WorkerTypes
  <2>4. ASSUME NEW g \in Guests  PROVE TxHand(g)' = TxHand(g)
    <3>1. pc'[g] \in {"wait", "test", "txset", "txraise"}
          <=> pc[g] \in {"wait", "test", "txset", "txraise"}
      <4>1. CASE g = w
        BY <1>3, <2>1, <4>1, SwitchAssumption
      <4>2. CASE g # w
        BY <1>3, <2>1, <4>2 DEF Workers
      <4>3. QED  BY <4>1, <4>2
    <3>2. QED  BY <1>3, <3>1 DEF TxHand
  <2>5. QED  BY <1>3, <2>3, <2>4, RingsKept
<1>4. ASSUME NEW g \in Guests, P(g) \/ TxSet(g) \/ TxRaise(g)  PROVE BuffersInv'
  <2>1. g \in Workers
    BY DEF Workers
  <2>2. \/ pc' = [pc EXCEPT ![g] = "test"] /\ pc[g] \in {"wait", "txraise"}
        \/ pc' = [pc EXCEPT ![g] = "txraise"] /\ pc[g] = "txset"
    BY <1>4 DEF P, TxSet, TxRaise, Goto
  <2>3. UNCHANGED <<tx, rx, seen, spare, holder, observer, buffer>>
    BY <1>4 DEF P, TxSet, TxRaise
  <2>4. QED  BY <1>3, <2>1, <2>2, <2>3
<1>5. CASE Arrive
  BY <1>3, <1>5 DEF Arrive, Goto, Workers
<1>6. ASSUME NEW w \in Workers, Lock(w) \/ RxSet(w) \/ RxRaise(w) \/ Unlock(w)
      PROVE  BuffersInv'
  <2>1. pc \in [Workers -> {"wait", "test", "lock", "update", "free", "set", "raise",
                            "return", "txset", "txraise"}]
    BY DEF SwitchInvariant, TypeOK, WorkerTypes
  <2>2. /\ pc[w] \in {"lock", "update", "set", "raise"} /\ holder \in {w, NoOne}
        /\ holder' \in {w, NoOne}
        /\ \E l \in {"update", "raise", "return", "wait"} :
             pc' = [pc EXCEPT ![w] = l] /\ (l = "wait" => w = Wire)
        /\ UNCHANGED <<tx, rx, seen, spare>>
    BY <1>6, Walkers DEF Lock, RxSet, RxRaise, Unlock, Goto
  <2>3. \A g \in Guests : RxHand(g)' = RxHand(g)
    BY <2>1, <2>2 DEF RxHand
  <2>4. ASSUME NEW g \in Guests  PROVE TxHand(g)' = TxHand(g)
    <3>1. pc'[g] \in {"wait", "test", "txset", "txraise"}
          <=> pc[g] \in {"wait", "test", "txset", "txraise"}
      <4>1. CASE g = w
        BY <2>1, <2>2, <4>1, SwitchAssumption
      <4>2. CASE g # w
        BY <2>1, <2>2, <4>2 DEF Workers
      <4>3. QED  BY <4>1, <4>2
    <3>2. QED  BY <2>2, <3>1 DEF TxHand
  <2>5. QED  BY <2>2, <2>3, <2>4, RingsKept
<1>7. QED  BY <1>1, <1>2, <1>4, <1>5, <1>6

\* The driver offers a frame.
LEMMA BuffersPost ==
  ASSUME SwitchInvariant, BuffersInv, NEW g \in Guests, Post(g)
  PROVE  /\ BuffersInv'
         /\ \E id \in spare[g] :
              /\ memory' = [memory EXCEPT ![g].tx[id] = <<g, count[g] + 1>>]
              /\ Waiting(tx[g])' = Waiting(tx[g]) \o <<id>>
              /\ \A h \in Guests : h # g => tx'[h] = tx[h]
<1> USE DEF guest, worker, history
<1> DEFINE W == Waiting(tx[g])
           R == Returned(tx[g], seen[g].tx)
<1>1. PICK id \in spare[g] : /\ spare' = [spare EXCEPT ![g] = @ \ {id}]
                             /\ memory' = [memory EXCEPT ![g].tx[id] = <<g, count[g] + 1>>]
                             /\ tx' = [tx EXCEPT ![g] = Offer(@, <<id>>)]
  BY DEF Post
<1>2. UNCHANGED <<rx, seen, pc, observer, buffer, holder>>
  BY DEF Post
<1>3. /\ tx \in [Guests -> QueueType] /\ spare \in [Guests -> SUBSET Ids] /\ id \in Ids
      /\ tx[g] \in QueueType /\ W \in Seq(Ids) /\ R \in Seq(Ids)
      /\ seen[g].tx \in 0..(Modulus - 1)
      /\ TxHand(g) \in SUBSET Ids /\ spare[g] \in SUBSET Ids
  BY GuestRings DEF SwitchInvariant, TypeOK, RingTypes, DriverTypes
<1>4. Once(W, R, TxHand(g), Ids \ spare[g])
  BY DEF BuffersInv, TxOnce
<1> DEFINE r == Offer(tx[g], <<id>>)
<1>5. tx'[g] = r /\ spare'[g] = spare[g] \ {id}
  BY <1>1, <1>3
<1> HIDE DEF W, R, r
<1>6. Len(W) + 1 <= Size /\ (TxHand(g) # {} => Len(W) + 1 < Size)
  <2>1. Ids \ spare[g] \in SUBSET Ids /\ Ids \ (Ids \ spare[g]) = spare[g]
    BY <1>3
  <2>2. /\ Len(W) + Len(R) + Cardinality(TxHand(g)) + Cardinality(spare[g]) = Size
        /\ Cardinality(TxHand(g)) \in Nat /\ Cardinality(spare[g]) \in Nat
        /\ IsFiniteSet(TxHand(g))
    <3> DEFINE S == Ids \ spare[g]
    <3> HIDE DEF S
    <3>1. S \in SUBSET Ids /\ Ids \ S = spare[g] /\ Once(W, R, TxHand(g), S)
      BY <1>4, <2>1 DEF S
    <3>2. /\ Len(W) + Len(R) + Cardinality(TxHand(g)) = Cardinality(S)
          /\ Cardinality(S) + Cardinality(Ids \ S) = Size
          /\ Cardinality(TxHand(g)) \in Nat /\ Cardinality(Ids \ S) \in Nat
          /\ IsFiniteSet(TxHand(g))
      BY <1>3, <3>1, OnceLengths
    <3>3. QED  BY <3>1, <3>2
  <2>3. Cardinality(spare[g]) # 0
    <3>1. IsFiniteSet(spare[g])
      <4>1. IsFiniteSet(Ids)
        BY RingFacts, FS_Interval DEF Ids
      <4>2. QED  BY <1>3, <4>1, FS_Subset
    <3>2. QED  BY <3>1, FS_EmptySet
  <2>4. TxHand(g) # {} => Cardinality(TxHand(g)) # 0
    BY <2>2, FS_EmptySet
  <2>5. Len(W) \in Nat /\ Len(R) \in Nat
    BY <1>3
  <2>6. QED  BY <2>2, <2>3, <2>4, <2>5, RingFacts
<1>7. <<id>> \in Seq(Ids) /\ Len(<<id>>) = 1
  BY <1>3
<1>8. /\ Waiting(r) = W \o <<id>> /\ Returned(r, seen[g].tx) = R
      /\ Len(W) + 1 < Size => r.ring[(r.last - 1) % Size] = tx[g].ring[(tx[g].last - 1) % Size]
  BY <1>3, <1>6, <1>7, OfferRing DEF W, R, r
<1>9. TxHand(g)' = TxHand(g)
  BY <1>2, <1>5, <1>6, <1>8 DEF TxHand
<1>10. (Ids \ spare[g]) \cup {id} = Ids \ (spare[g] \ {id}) /\ id \notin Ids \ spare[g]
  BY <1>1, <1>3
<1>11. Once(W \o <<id>>, R, TxHand(g), (Ids \ spare[g]) \cup {id})
  BY <1>3, <1>4, <1>10, OnceMoves
<1>12. TxOnce(g)'
  BY <1>2, <1>5, <1>8, <1>9, <1>10, <1>11 DEF TxOnce
<1>13. ASSUME NEW h \in Guests, h # g  PROVE TxOnce(h)'
  <2>1. tx'[h] = tx[h] /\ spare'[h] = spare[h] /\ TxHand(h)' = TxHand(h)
    BY <1>1, <1>2, <1>3, <1>13 DEF TxHand
  <2>2. QED  BY <1>2, <2>1 DEF BuffersInv, TxOnce
<1>14. ASSUME NEW h \in Guests  PROVE RxOnce(h)'
  BY <1>2 DEF BuffersInv, RxOnce, RxHand, Receiver
<1>15. BuffersInv'
  BY <1>12, <1>13, <1>14 DEF BuffersInv
<1>16. Waiting(tx[g])' = Waiting(tx[g]) \o <<id>>
  BY <1>5, <1>8 DEF W
<1>17. \A h \in Guests : h # g => tx'[h] = tx[h]
  BY <1>1, <1>3
<1>18. QED  BY <1>1, <1>15, <1>16, <1>17

\* The driver takes back the used buffers and offers the RX buffers again.
LEMMA BuffersCollect ==
  ASSUME SwitchInvariant, BuffersInv, NEW g \in Guests, Collect(g)
  PROVE  BuffersInv' /\ Returned(rx[g], seen[g].rx)' = <<>>
<1> USE DEF guest, worker, history
<1> DEFINE W == Waiting(rx[g])
           R == Returned(rx[g], seen[g].rx)
           V == Waiting(tx[g])
           Q == Returned(tx[g], seen[g].tx)
           r == Offer(rx[g], R)
<1>1. /\ spare' = [spare EXCEPT ![g] = @ \cup ToSet(Q)]
      /\ rx' = [rx EXCEPT ![g] = r]
      /\ seen' = [seen EXCEPT ![g] = [rx |-> rx[g].used, tx |-> tx[g].used]]
      /\ UNCHANGED <<tx, pc, observer, buffer, holder>>
  BY DEF Collect
<1>2. /\ rx \in [Guests -> QueueType] /\ spare \in [Guests -> SUBSET Ids]
      /\ seen \in [Guests -> [rx : 0..(Modulus - 1), tx : 0..(Modulus - 1)]]
  BY DEF SwitchInvariant, TypeOK, RingTypes, DriverTypes
<1>3. /\ tx[g] \in QueueType /\ rx[g] \in QueueType
      /\ W \in Seq(Ids) /\ R \in Seq(Ids) /\ V \in Seq(Ids) /\ Q \in Seq(Ids)
      /\ RxHand(g) \in SUBSET Ids /\ spare[g] \in SUBSET Ids
      /\ rx[g].used \in 0..(Modulus - 1)
  BY GuestRings DEF QueueType
<1>4. Once(W, R, RxHand(g), Ids) /\ Once(V, Q, TxHand(g), Ids \ spare[g])
  BY DEF BuffersInv, RxOnce, TxOnce
<1>5. /\ rx'[g] = r /\ spare'[g] = spare[g] \cup ToSet(Q) /\ tx'[g] = tx[g]
      /\ seen'[g].rx = rx[g].used /\ seen'[g].tx = tx[g].used
  BY <1>1, <1>2
<1> HIDE DEF W, R, V, Q, r
<1>6. Len(W) + Len(R) <= Size
  <2>1. /\ Len(W) + Len(R) + Cardinality(RxHand(g)) = Size
        /\ Cardinality(RxHand(g)) \in Nat
    <3>1. Ids \in SUBSET Ids /\ Cardinality(Ids \ Ids) = 0
      <4>1. Ids \ Ids = {}
        OBVIOUS
      <4>2. QED  BY <4>1, FS_EmptySet
    <3>2. /\ Len(W) + Len(R) + Cardinality(RxHand(g)) = Cardinality(Ids)
          /\ Cardinality(Ids) + Cardinality(Ids \ Ids) = Size
          /\ Cardinality(RxHand(g)) \in Nat /\ Cardinality(Ids) \in Nat
      BY <1>3, <1>4, <3>1, OnceLengths
    <3>3. QED  BY <3>1, <3>2
  <2>2. Len(W) \in Nat /\ Len(R) \in Nat
    BY <1>3
  <2>3. QED  BY <2>1, <2>2, RingFacts
<1>7. Waiting(r) = W \o R /\ r \in QueueType /\ r.used = rx[g].used
  BY <1>3, <1>6, OfferRing DEF W, R, r
<1>8. Returned(r, rx[g].used) = <<>> /\ Returned(tx[g], tx[g].used) = <<>>
  BY <1>3, <1>7, AllSeen
<1>9. \A h \in Guests : RxHand(h)' = RxHand(h) /\ TxHand(h)' = TxHand(h)
  BY <1>1 DEF RxHand, TxHand, Receiver
<1>10. RxOnce(g)'
  <2>1. Once(W \o R, <<>>, RxHand(g), Ids)
    BY <1>3, <1>4, OnceMoves
  <2>2. QED  BY <1>5, <1>7, <1>8, <1>9, <2>1 DEF RxOnce
<1>11. TxOnce(g)'
  <2>1. Once(V, <<>>, TxHand(g), (Ids \ spare[g]) \ ToSet(Q))
    BY <1>3, <1>4, OnceMoves
  <2>2. (Ids \ spare[g]) \ ToSet(Q) = Ids \ (spare[g] \cup ToSet(Q))
    OBVIOUS
  <2>3. QED  BY <1>5, <1>8, <1>9, <2>1, <2>2 DEF TxOnce, V
<1>12. ASSUME NEW h \in Guests, h # g  PROVE RxOnce(h)' /\ TxOnce(h)'
  <2>1. rx'[h] = rx[h] /\ tx'[h] = tx[h] /\ spare'[h] = spare[h] /\ seen'[h] = seen[h]
    BY <1>1, <1>2, <1>12
  <2>2. QED  BY <1>9, <2>1 DEF BuffersInv, RxOnce, TxOnce
<1>13. BuffersInv'
  BY <1>10, <1>11, <1>12 DEF BuffersInv
<1>14. QED  BY <1>5, <1>8, <1>13

\* The worker of a guest's device takes a frame, or gives its buffer back.
LEMMA BuffersTx ==
  ASSUME SwitchInvariant, BuffersInv, NEW g \in Guests, Test(g) \/ TxFree(g)
  PROVE  /\ BuffersInv' /\ \A h \in Guests : h # g => tx'[h] = tx[h]
         /\ TxFree(g) => Waiting(tx[g])' = Waiting(tx[g])
<1> USE DEF guest, worker, history, Goto
<1> DEFINE W == Waiting(tx[g])
           R == Returned(tx[g], seen[g].tx)
           r == tx'[g]
           b == tx[g].ring[(tx[g].last - 1) % Size]
<1>1. /\ tx \in [Guests -> QueueType] /\ g \in Workers
      /\ pc \in [Workers -> {"wait", "test", "lock", "update", "free", "set", "raise",
                             "return", "txset", "txraise"}]
  BY DEF SwitchInvariant, TypeOK, RingTypes, WorkerTypes, Workers
<1>2. /\ tx[g] \in QueueType /\ W \in Seq(Ids) /\ R \in Seq(Ids)
      /\ seen[g].tx \in 0..(Modulus - 1) /\ TxHand(g) \in SUBSET Ids
  BY GuestRings
<1>3. Once(W, R, TxHand(g), Ids \ spare[g])
  BY DEF BuffersInv, TxOnce
<1>4. /\ UNCHANGED <<rx, seen, spare, observer, buffer, holder>>
      /\ \A h \in Guests : h # g => tx'[h] = tx[h]
      /\ \E l \in {"wait", "lock", "txset"} : pc' = [pc EXCEPT ![g] = l]
      /\ pc[g] \in {"test", "return"}
  BY <1>1 DEF Test, TxFree
<1>5. \A h \in Guests : RxOnce(h)'
  <2>1. holder # g
    BY <1>1, <1>4, Walkers
  <2>2. \A h \in Guests : RxHand(h)' = RxHand(h)
    BY <1>1, <1>4, <2>1 DEF RxHand, Receiver, SwitchInvariant, TypeOK, WorkerTypes
  <2>3. QED  BY <1>4, <2>2 DEF BuffersInv, RxOnce
<1>6. ASSUME NEW h \in Guests, h # g  PROVE TxOnce(h)'
  <2>1. pc'[h] = pc[h] /\ tx'[h] = tx[h]
    BY <1>1, <1>4, <1>6 DEF Workers
  <2>2. QED  BY <1>4, <2>1 DEF BuffersInv, TxOnce, TxHand
<1>7. CASE Test(g) /\ ~Available(tx[g])
  <2>1. tx' = tx /\ pc'[g] = "wait" /\ pc[g] = "test"
    BY <1>1, <1>7 DEF Test
  <2>2. TxOnce(g)'
    BY <1>4, <2>1 DEF BuffersInv, TxOnce, TxHand
  <2>3. BuffersInv'
    BY <1>5, <1>6, <2>2 DEF BuffersInv
  <2>4. QED  BY <1>4, <2>1, <2>3 DEF TxFree
<1>8. CASE Test(g) /\ Available(tx[g])
  <2>1. r = Alloc(tx[g]).queue /\ pc'[g] = "lock" /\ pc[g] = "test"
    BY <1>1, <1>8 DEF Test
  <2>2. /\ Len(W) > 0 /\ Alloc(tx[g]).id = Head(W) /\ Waiting(r) = Tail(W)
        /\ Returned(r, seen[g].tx) = R /\ r.ring[(r.last - 1) % Size] = Alloc(tx[g]).id
    BY <1>2, <1>8, <2>1, AllocRing
  <2>3. TxHand(g) = {} /\ TxHand(g)' = {Head(W)}
    BY <2>1, <2>2 DEF TxHand
  <2> HIDE DEF W, R, r
  <2>4. Once(Tail(W), R, {Head(W)}, Ids \ spare[g])
    BY <1>2, <1>3, <2>2, <2>3, OnceMoves
  <2>5. TxOnce(g)'
    BY <1>4, <2>2, <2>3, <2>4 DEF TxOnce, r
  <2>6. BuffersInv'
    BY <1>5, <1>6, <2>5 DEF BuffersInv
  <2>7. QED  BY <1>4, <2>1, <2>6 DEF TxFree
<1>9. CASE TxFree(g)
  <2>1. r = Free(tx[g], b) /\ pc'[g] = "txset" /\ pc[g] = "return"
    BY <1>1, <1>9 DEF TxFree
  <2>2. TxHand(g) = {b} /\ TxHand(g)' = {} /\ b \in Ids
    BY <1>2, <2>1 DEF TxHand
  <2> HIDE DEF W, R, r, b
  <2>3. Len(R) < Size
    <3> DEFINE S == Ids \ spare[g]
    <3> HIDE DEF S
    <3>1. S \in SUBSET Ids /\ {b} \in SUBSET Ids /\ Once(W, R, {b}, S)
      BY <1>3, <2>2 DEF S
    <3>2. /\ Len(W) + Len(R) + Cardinality({b}) = Cardinality(S)
          /\ Cardinality(S) + Cardinality(Ids \ S) = Size
          /\ Cardinality(S) \in Nat /\ Cardinality(Ids \ S) \in Nat
      BY <1>2, <3>1, OnceLengths
    <3>3. Cardinality({b}) = 1
      BY FS_Singleton
    <3>4. Len(W) \in Nat /\ Len(R) \in Nat
      BY <1>2
    <3> HIDE DEF S
    <3>5. QED  BY <3>2, <3>3, <3>4, RingFacts
  <2>4. Returned(r, seen[g].tx) = Append(R, b) /\ Waiting(r) = W
    BY <1>2, <2>1, <2>2, <2>3, FreeRing DEF W, R
  <2>5. Once(W, Append(R, b), {}, Ids \ spare[g])
    BY <1>2, <1>3, <2>2, OnceMoves
  <2>6. TxOnce(g)'
    BY <1>4, <2>2, <2>4, <2>5 DEF TxOnce, r
  <2>7. BuffersInv'
    BY <1>5, <1>6, <2>6 DEF BuffersInv
  <2>8. QED  BY <1>4, <2>4, <2>7 DEF W, r
<1>10. QED  BY <1>7, <1>8, <1>9

\* A worker takes an RX buffer of a guest.
LEMMA BuffersUpdate ==
  ASSUME SwitchInvariant, BuffersInv, NEW w \in Workers, Update(w)
  PROVE  BuffersInv'
<1> USE DEF guest, worker, history, Goto
<1> DEFINE g == Receiver(w)
           W == Waiting(rx[g])
           R == Returned(rx[g], seen[g].rx)
           r == rx'[g]
<1>1. /\ rx \in [Guests -> QueueType] /\ buffer \in [Workers -> Ids]
      /\ pc \in [Workers -> {"wait", "test", "lock", "update", "free", "set", "raise",
                             "return", "txset", "txraise"}]
      /\ pc[w] = "update" /\ holder = w /\ w # NoOne
  BY Walkers DEF SwitchInvariant, TypeOK, RingTypes, WorkerTypes, Update
<1>2. g \in Guests
  <2>1. observer[w] \in 1..Len(Observers)
    BY ListFacts DEF SwitchInvariant, TypeOK, WorkerTypes, Update
  <2>2. QED  BY <2>1, ListFacts DEF Receiver
<1>3. /\ rx[g] \in QueueType /\ W \in Seq(Ids) /\ R \in Seq(Ids)
      /\ seen[g].rx \in 0..(Modulus - 1)
  BY <1>2, GuestRings
<1>4. \A h \in Guests : RxHand(h) = {}
  BY <1>1 DEF RxHand
<1>5. UNCHANGED <<tx, seen, spare, holder>>
  BY DEF Update
<1>6. CASE ~Available(rx[g])
  <2>1. UNCHANGED <<rx, pc>>
    BY <1>6 DEF Update
  <2>2. \A h \in Guests : RxHand(h)' = {} /\ TxHand(h)' = TxHand(h)
    BY <1>1, <1>5, <2>1 DEF RxHand, TxHand
  <2>3. QED  BY <1>4, <1>5, <2>1, <2>2, RingsKept
<1>7. CASE Available(rx[g])
  <2>1. /\ rx' = [rx EXCEPT ![g] = Alloc(rx[g]).queue]
        /\ buffer' = [buffer EXCEPT ![w] = Alloc(rx[g]).id]
        /\ pc' = [pc EXCEPT ![w] = "free"] /\ UNCHANGED observer
    BY <1>7 DEF Update
  <2>2. /\ r = Alloc(rx[g]).queue /\ buffer'[w] = Alloc(rx[g]).id /\ pc'[w] = "free"
        /\ Receiver(w)' = g /\ \A h \in Guests : h # g => rx'[h] = rx[h]
    BY <1>1, <1>2, <2>1 DEF Receiver
  <2>3. /\ Len(W) > 0 /\ Alloc(rx[g]).id = Head(W) /\ Waiting(r) = Tail(W)
        /\ Returned(r, seen[g].rx) = R
    BY <1>3, <1>7, <2>2, AllocRing
  <2>4. /\ \A h \in Guests : h = g => RxHand(h)' = {Head(W)}
        /\ \A h \in Guests : h # g => RxHand(h)' = {}
    BY <1>1, <1>5, <2>2, <2>3 DEF RxHand
  <2>5. \A h \in Guests : TxOnce(h)'
    <3>1. \A h \in Guests : TxHand(h)' = TxHand(h)
      BY <1>1, <1>5, <2>1 DEF TxHand, Workers
    <3>2. QED  BY <1>5, <3>1 DEF BuffersInv, TxOnce
  <2>6. Once(W, R, {}, Ids)
    BY <1>2, <1>4 DEF BuffersInv, RxOnce
  <2> HIDE DEF W, R, r, g
  <2>7. Once(Tail(W), R, {Head(W)}, Ids)
    BY <1>3, <2>3, <2>6, OnceMoves
  <2>8. \A h \in Guests : RxOnce(h)'
    <3> TAKE h \in Guests
    <3>1. CASE h = g
      <4>1. /\ Waiting(rx[h])' = Tail(W) /\ Returned(rx[h], seen[h].rx)' = R
            /\ RxHand(h)' = {Head(W)}
        BY <1>5, <2>3, <2>4, <3>1 DEF r
      <4>2. QED  BY <2>7, <4>1 DEF RxOnce
    <3>2. CASE h # g
      <4>1. /\ Waiting(rx[h])' = Waiting(rx[h])
            /\ Returned(rx[h], seen[h].rx)' = Returned(rx[h], seen[h].rx)
            /\ RxHand(h)' = RxHand(h)
        BY <1>4, <1>5, <2>2, <2>4, <3>2
      <4>2. RxOnce(h)
        BY DEF BuffersInv
      <4>3. QED  BY <4>1, <4>2 DEF RxOnce
    <3>3. QED  BY <3>1, <3>2
  <2>9. QED  BY <2>5, <2>8 DEF BuffersInv
<1>8. QED  BY <1>6, <1>7

\* A worker gives an RX buffer back.
LEMMA BuffersRxFree ==
  ASSUME SwitchInvariant, BuffersInv, NEW w \in Workers, RxFree(w)
  PROVE  /\ BuffersInv'
         /\ \A h \in Guests :
              Returned(rx[h], seen[h].rx)' =
                IF h = Receiver(w) THEN Append(Returned(rx[h], seen[h].rx), buffer[w])
                ELSE Returned(rx[h], seen[h].rx)
<1> USE DEF guest, worker, history, Goto
<1> DEFINE g == Receiver(w)
           W == Waiting(rx[g])
           R == Returned(rx[g], seen[g].rx)
           r == rx'[g]
           b == buffer[w]
<1>1. /\ rx \in [Guests -> QueueType] /\ b \in Ids
      /\ pc \in [Workers -> {"wait", "test", "lock", "update", "free", "set", "raise",
                             "return", "txset", "txraise"}]
      /\ pc[w] = "free" /\ holder = w /\ w # NoOne
  BY Walkers DEF SwitchInvariant, TypeOK, RingTypes, WorkerTypes, RxFree
<1>2. g \in Guests
  BY <1>1, Walkers DEF Walking
<1>3. /\ rx[g] \in QueueType /\ W \in Seq(Ids) /\ R \in Seq(Ids)
      /\ seen[g].rx \in 0..(Modulus - 1)
  BY <1>2, GuestRings
<1>4. /\ UNCHANGED <<tx, seen, spare, holder, observer, buffer>>
      /\ rx' = [rx EXCEPT ![g] = Free(@, b)] /\ pc' = [pc EXCEPT ![w] = "set"]
  BY DEF RxFree
<1>5. r = Free(rx[g], b) /\ \A h \in Guests : h # g => rx'[h] = rx[h]
  BY <1>1, <1>2, <1>4
<1>6. RxHand(g) = {b} /\ \A h \in Guests : h # g => RxHand(h) = {}
  BY <1>1 DEF RxHand
<1>7. \A h \in Guests : RxHand(h)' = {}
  BY <1>1, <1>4 DEF RxHand
<1>8. Once(W, R, {b}, Ids)
  BY <1>2, <1>6 DEF BuffersInv, RxOnce
<1>9. \A h \in Guests : TxOnce(h)'
  <2>1. \A h \in Guests : TxHand(h)' = TxHand(h)
    BY <1>1, <1>4 DEF TxHand, Workers
  <2>2. QED  BY <1>4, <2>1 DEF BuffersInv, TxOnce
<1> HIDE DEF W, R, r, g, b
<1>10. Len(R) < Size
  <2>1. {b} \in SUBSET Ids /\ Ids \in SUBSET Ids
    BY <1>1
  <2>2. /\ Len(W) + Len(R) + Cardinality({b}) = Cardinality(Ids)
        /\ Cardinality(Ids) + Cardinality(Ids \ Ids) = Size
        /\ Cardinality(Ids) \in Nat /\ Cardinality(Ids \ Ids) \in Nat
    BY <1>3, <1>8, <2>1, OnceLengths
  <2>3. Cardinality({b}) = 1
    BY FS_Singleton
  <2>4. Len(W) \in Nat /\ Len(R) \in Nat
    BY <1>3
  <2>5. QED  BY <2>2, <2>3, <2>4, RingFacts
<1>11. Returned(r, seen[g].rx) = Append(R, b) /\ Waiting(r) = W
  BY <1>1, <1>3, <1>5, <1>10, FreeRing DEF W, R
<1>12. Once(W, Append(R, b), {}, Ids)
  BY <1>1, <1>3, <1>8, OnceMoves
<1>13. \A h \in Guests : RxOnce(h)'
  <2> TAKE h \in Guests
  <2>1. CASE h = g
    <3>1. /\ Waiting(rx[h])' = W /\ Returned(rx[h], seen[h].rx)' = Append(R, b)
          /\ RxHand(h)' = {}
      BY <1>4, <1>7, <1>11, <2>1 DEF r
    <3>2. QED  BY <1>12, <3>1 DEF RxOnce
  <2>2. CASE h # g
    <3>1. /\ Waiting(rx[h])' = Waiting(rx[h])
          /\ Returned(rx[h], seen[h].rx)' = Returned(rx[h], seen[h].rx)
          /\ RxHand(h)' = RxHand(h)
      BY <1>4, <1>5, <1>6, <1>7, <2>2
    <3>2. RxOnce(h)
      BY DEF BuffersInv
    <3>3. QED  BY <3>1, <3>2 DEF RxOnce
  <2>3. QED  BY <2>1, <2>2
<1>14. \A h \in Guests :
         Returned(rx[h], seen[h].rx)' =
           IF h = g THEN Append(Returned(rx[h], seen[h].rx), b)
           ELSE Returned(rx[h], seen[h].rx)
  <2> TAKE h \in Guests
  <2>1. CASE h = g
    <3>1. Returned(rx[h], seen[h].rx)' = Append(R, b) /\ R = Returned(rx[h], seen[h].rx)
      BY <1>4, <1>11, <2>1 DEF r, R
    <3>2. QED  BY <2>1, <3>1
  <2>2. CASE h # g
    BY <1>4, <1>5, <2>2
  <2>3. QED  BY <2>1, <2>2
<1>15. BuffersInv'
  BY <1>9, <1>13 DEF BuffersInv
<1>16. QED  BY <1>14, <1>15 DEF g, b

\* In the initial state all buffers wait in the RX ring and are spare for TX.
LEMMA BuffersInit ==
  ASSUME SwitchInvariant, Init  PROVE BuffersInv
<1> SUFFICES ASSUME NEW g \in Guests  PROVE RxOnce(g) /\ TxOnce(g)
  BY DEF BuffersInv
<1> DEFINE e == EmptyQueue
           w == Waiting(rx[g])
           n == Start % Modulus
<1>1. /\ tx[g] = e /\ rx[g] = [e EXCEPT !.available = (@ + Size) % Modulus]
      /\ seen[g].rx = n /\ seen[g].tx = n /\ spare[g] = Ids
      /\ pc[g] = "wait" /\ holder = NoOne
  BY DEF Init, Workers
<1>2. e.available = n /\ e.last = n /\ e.used = n
  BY DEF EmptyQueue
<1>3. /\ tx[g] \in QueueType /\ rx[g] \in QueueType /\ n \in 0..(Modulus - 1)
  BY <1>1, GuestRings
<1>4. RxHand(g) = {} /\ TxHand(g) = {}
  BY <1>1 DEF RxHand, TxHand
<1>5. Returned(tx[g], n) = <<>> /\ Returned(rx[g], n) = <<>>
  <2>1. tx[g].used = n /\ rx[g].used = n
    BY <1>1, <1>2 DEF EmptyQueue
  <2>2. QED  BY <1>3, <2>1, AllSeen
<1>6. Waiting(tx[g]) = <<>>
  <2>1. /\ Waiting(tx[g]) \in Seq(Ids)
        /\ Len(Waiting(tx[g])) = Ahead(tx[g].available, tx[g].last)
    BY <1>3, WaitingFacts
  <2>2. Ahead(n, n) = 0
    BY <1>3, RingFacts DEF Ahead
  <2>3. QED  BY <1>1, <1>2, <2>1, <2>2
<1>7. IsInjective(<<>>) /\ ToSet(<<>>) = {}
  BY DEF IsInjective, ToSet
<1>8. TxOnce(g)
  <2>1. Once(<<>>, <<>>, {}, {})
    BY <1>7 DEF Once
  <2>2. QED  BY <1>1, <1>4, <1>5, <1>6, <2>1 DEF TxOnce
<1>9. w \in Seq(Ids) /\ Len(w) = Size
  <2>1. w \in Seq(Ids) /\ Len(w) = Ahead(rx[g].available, rx[g].last)
    BY <1>3, WaitingFacts
  <2>2. rx[g].available = (n + Size) % Modulus /\ rx[g].last = n
    BY <1>1, <1>2 DEF EmptyQueue
  <2>3. n \in Int /\ Size \in Int /\ Ahead(n, n) = 0
    BY <1>3, RingFacts DEF Ahead
  <2>4. Ahead(n, n) + Size \in 0..(Modulus - 1)
    BY <2>3, RingFacts
  <2>5. Ahead((n + Size) % Modulus, n) = Ahead(n, n) + Size
    BY <2>3, <2>4, AheadMoves
  <2>6. QED  BY <2>1, <2>2, <2>3, <2>5
<1>10. \A i \in 1..Size : w[i] = (n + i - 1) % Size
  <2> TAKE i \in 1..Size
  <2>1. w[i] = rx[g].ring[(rx[g].last + i - 1) % Size]
    <3>1. PICK m : m = (rx[g].available - rx[g].last) % Modulus
      OBVIOUS
    <3>2. w = [k \in 1..m |-> rx[g].ring[(rx[g].last + k - 1) % Size]]
      BY <3>1 DEF Waiting
    <3>3. 1..m = 1..Size
      <4>1. DOMAIN w = 1..m
        BY <3>2
      <4>2. DOMAIN w = 1..Size
        BY <1>9
      <4>3. QED  BY <4>1, <4>2
    <3>4. QED  BY <3>2, <3>3
  <2>2. rx[g].ring = [k \in Ids |-> k] /\ rx[g].last = n
    BY <1>1, <1>2 DEF EmptyQueue
  <2>3. PICK k \in Int : k = n + i - 1
    BY <1>3
  <2>4. k % Size \in Ids
    BY RingFacts, SlotOf DEF Ids
  <2>5. QED  BY <2>1, <2>2, <2>3, <2>4
<1> HIDE DEF w
<1>11. IsInjective(w)
  <2> SUFFICES ASSUME NEW i \in 1..Size, NEW k \in 1..Size, w[i] = w[k]  PROVE i = k
    <3>1. DOMAIN w = 1..Size
      BY <1>9
    <3>2. QED  BY <3>1 DEF IsInjective
  <2>1. PICK p \in Int, q \in Int : p = n + i - 1 /\ q = n + k - 1
    BY <1>3
  <2>2. p % Size = q % Size
    BY <1>10, <2>1
  <2>3. SameSlot(Size, p, q)
    BY <2>2, RingFacts, SlotsEqual
  <2>4. ~(p # q /\ p < q + Size /\ q < p + Size)
    BY <2>3, SlotsApart
  <2>5. QED  BY <1>3, <2>1, <2>4, RingFacts
<1>12. ToSet(w) = Ids
  <2>1. ToSet(w) \subseteq Ids /\ IsFiniteSet(ToSet(w)) /\ Cardinality(ToSet(w)) = Size
    BY <1>9, <1>11, Elements, LengthIsCardinality
  <2>2. IsFiniteSet(Ids) /\ Cardinality(Ids) = Size
    <3>1. Size - 1 \in Int /\ 0 \in Int /\ ~(0 > Size - 1) /\ (Size - 1) - 0 + 1 = Size
      BY RingFacts
    <3>2. QED  BY <3>1, FS_Interval DEF Ids
  <2>3. QED  BY <2>1, <2>2, FS_Subset
<1>13. Once(w, <<>>, {}, Ids)
  BY <1>7, <1>11, <1>12 DEF Once
<1>14. RxOnce(g)
  BY <1>1, <1>4, <1>5, <1>13 DEF RxOnce, w
<1>15. QED  BY <1>8, <1>14

\* Every step leaves every buffer in one place.
LEMMA BuffersNext ==
  ASSUME SwitchInvariant, BuffersInv, [Next]_vars
  PROVE  BuffersInv'
<1>1. ASSUME NEW g \in Guests,
             Post(g) \/ Notify(g) \/ HandlerStep(g) \/ DeviceStep(g)
      PROVE  BuffersInv'
  BY <1>1, BuffersPost, BuffersCollect, BuffersTx, BuffersElsewhere
  DEF HandlerStep, DeviceStep
<1>2. CASE Arrive
  BY <1>2, BuffersElsewhere
<1>3. ASSUME NEW w \in Workers, Lock(w) \/ Forward(w)  PROVE BuffersInv'
  BY <1>3, BuffersUpdate, BuffersRxFree, BuffersElsewhere DEF Forward
<1>4. CASE UNCHANGED vars
  BY <1>4, BuffersElsewhere
<1>5. QED  BY <1>1, <1>2, <1>3, <1>4 DEF Next

\* Every buffer is always in one place.
LEMMA BuffersHold == Spec => []BuffersInv
<1>1. Spec => []SwitchInvariant
  BY SwitchInvariantHolds
<1>2. SwitchInvariant /\ Init => BuffersInv
  BY BuffersInit
<1>3. SwitchInvariant /\ BuffersInv /\ [Next]_vars => BuffersInv'
  BY BuffersNext
<1>4. QED  BY <1>1, <1>2, <1>3, PTL DEF Spec

\* A buffer in hand, or none, as a sequence.
LEMMA HandSequence ==
  ASSUME NEW h, NEW l,
         \/ h = {} /\ l = <<>>
         \/ \E x \in Ids : h = {x} /\ l = <<x>>
  PROVE  l \in Seq(Ids) /\ ToSet(l) = h /\ Len(l) = Cardinality(h) /\ h \in SUBSET Ids
<1>1. CASE h = {} /\ l = <<>>
  <2>1. Cardinality(h) = 0
    BY <1>1, FS_EmptySet
  <2>2. QED  BY <1>1, <2>1 DEF ToSet
<1>2. ASSUME NEW x \in Ids, h = {x}, l = <<x>>
      PROVE  l \in Seq(Ids) /\ ToSet(l) = h /\ Len(l) = Cardinality(h) /\ h \in SUBSET Ids
  <2>1. Cardinality({x}) = 1
    BY FS_Singleton
  <2>2. ToSet(<<x>>) = {x} /\ Len(<<x>>) = 1 /\ <<x>> \in Seq(Ids)
    BY DEF ToSet
  <2>3. QED  BY <1>2, <2>1, <2>2
<1>3. QED  BY <1>1, <1>2

\* Two sequences of buffers and the buffer in hand.
LEMMA HandElements ==
  ASSUME NEW w \in Seq(Ids), NEW r \in Seq(Ids), NEW l \in Seq(Ids), NEW h \in SUBSET Ids,
         NEW S \in SUBSET Ids, ToSet(l) = h, Len(l) = Cardinality(h), Once(w, r, h, S)
  PROVE  /\ ToSet((w \o r) \o l) = S
         /\ Len((w \o r) \o l) + Cardinality(Ids \ S) = Size
<1>1. /\ w \o r \in Seq(Ids) /\ ToSet(w \o r) = ToSet(w) \cup ToSet(r)
  BY ConcatElements
<1>2. Len((w \o r) \o l) = Len(w) + Len(r) + Len(l)
  OBVIOUS
<1>3. PICK u \in Seq(Ids) : u = w \o r
  BY <1>1
<1>4. ToSet(u \o l) = ToSet(u) \cup ToSet(l)
  BY ConcatElements
<1>5. ToSet(u \o l) = S
  BY <1>1, <1>3, <1>4 DEF Once
<1>6. /\ Len(w) + Len(r) + Cardinality(h) = Cardinality(S)
      /\ Cardinality(S) + Cardinality(Ids \ S) = Size
  <2>1. IsFiniteSet(Ids) /\ Cardinality(Ids) = Size
    <3>1. Size - 1 \in Int /\ 0 \in Int /\ ~(0 > Size - 1) /\ (Size - 1) - 0 + 1 = Size
      BY RingFacts
    <3>2. QED  BY <3>1, FS_Interval DEF Ids
  <2>2. Len(w) + Len(r) + Cardinality(h) = Cardinality(S) /\ Cardinality(S) \in Nat
    BY OnceLengths
  <2>3. Cardinality(Ids \ S) = Cardinality(Ids) - Cardinality(Ids \cap S)
    BY <2>1, FS_Difference
  <2>4. Cardinality(Ids \cap S) = Cardinality(S)
    <3>1. Ids \cap S = S
      OBVIOUS
    <3>2. QED  BY <3>1, Zenon
  <2>5. Size \in Nat
    BY RingFacts
  <2>6. QED  BY <2>1, <2>2, <2>3, <2>4, <2>5
<1>7. QED  BY <1>2, <1>3, <1>5, <1>6

\* EachBufferOnce: whatever the 16-bit indices have wrapped around to, each buffer
\* of a guest is in one place only, and none is lost (Queue.hpp:57, 64-70).
THEOREM EachBufferIsOnce == Spec => []EachBufferOnce
<1>1. ASSUME SwitchInvariant, BuffersInv  PROVE EachBufferOnce
  <2> SUFFICES ASSUME NEW g \in Guests
               PROVE  /\ Len(Lent(g)) = Size /\ ToSet(Lent(g)) = Ids
                      /\ Len(Sent(g)) + Cardinality(spare[g]) = Size
                      /\ ToSet(Sent(g)) = Ids \ spare[g]
    BY DEF EachBufferOnce
  <2>1. /\ RxOnce(g) /\ TxOnce(g) /\ spare[g] \in SUBSET Ids /\ buffer \in [Workers -> Ids]
        /\ holder \in Workers \cup {NoOne} /\ tx[g] \in QueueType
    BY <1>1, GuestRings DEF SwitchInvariant, TypeOK, DriverTypes, WorkerTypes, BuffersInv
  <2>2. Len(Lent(g)) = Size /\ ToSet(Lent(g)) = Ids
    <3> DEFINE l == IF holder # NoOne /\ pc[holder] = "free" /\ Receiver(holder) = g
                    THEN <<buffer[holder]>> ELSE <<>>
               w == Waiting(rx[g])
               r == Returned(rx[g], seen[g].rx)
               h == RxHand(g)
    <3>1. \/ h = {} /\ l = <<>>
          \/ \E x \in Ids : h = {x} /\ l = <<x>>
      BY <2>1 DEF RxHand
    <3>2. Lent(g) = (w \o r) \o l
      BY DEF Lent
    <3>3. w \in Seq(Ids) /\ r \in Seq(Ids) /\ Once(w, r, h, Ids)
      BY <1>1, <2>1, GuestRings DEF RxOnce
    <3> HIDE DEF l, w, r, h
    <3>4. l \in Seq(Ids) /\ ToSet(l) = h /\ Len(l) = Cardinality(h) /\ h \in SUBSET Ids
      BY <3>1, HandSequence
    <3>5. ToSet((w \o r) \o l) = Ids /\ Len((w \o r) \o l) + Cardinality(Ids \ Ids) = Size
      BY <3>3, <3>4, HandElements
    <3>6. Cardinality(Ids \ Ids) = 0
      <4>1. Ids \ Ids = {}
        OBVIOUS
      <4>2. QED  BY <4>1, FS_EmptySet
    <3>7. Len((w \o r) \o l) \in Int
      BY <3>3, <3>4
    <3>8. Len((w \o r) \o l) = Size
      BY <3>5, <3>6, <3>7, RingFacts
    <3>9. QED  BY <3>2, <3>5, <3>8
  <2>3. Len(Sent(g)) + Cardinality(spare[g]) = Size /\ ToSet(Sent(g)) = Ids \ spare[g]
    <3> DEFINE x == tx[g].ring[(tx[g].last - 1) % Size]
               l == IF pc[g] \in {"wait", "test", "txset", "txraise"} THEN <<>> ELSE <<x>>
               w == Waiting(tx[g])
               r == Returned(tx[g], seen[g].tx)
               h == TxHand(g)
               S == Ids \ spare[g]
    <3>1. x \in Ids
      <4>1. PICK k \in Int : k = tx[g].last - 1
        BY <2>1 DEF QueueType
      <4>2. k % Size \in Ids
        BY RingFacts, SlotOf DEF Ids
      <4>3. QED  BY <2>1, <4>1, <4>2 DEF QueueType
    <3>2. \/ h = {} /\ l = <<>>
          \/ \E y \in Ids : h = {y} /\ l = <<y>>
      BY <3>1 DEF TxHand
    <3>3. Sent(g) = (w \o r) \o l
      BY DEF Sent
    <3>4. w \in Seq(Ids) /\ r \in Seq(Ids) /\ Once(w, r, h, S)
      BY <1>1, <2>1, GuestRings DEF TxOnce
    <3>5. S \in SUBSET Ids /\ Ids \ S = spare[g] /\ S = Ids \ spare[g]
      BY <2>1
    <3> HIDE DEF l, x, w, r, h, S
    <3>6. l \in Seq(Ids) /\ ToSet(l) = h /\ Len(l) = Cardinality(h) /\ h \in SUBSET Ids
      BY <3>2, HandSequence
    <3>7. ToSet((w \o r) \o l) = S /\ Len((w \o r) \o l) + Cardinality(Ids \ S) = Size
      BY <3>4, <3>5, <3>6, HandElements
    <3>8. QED  BY <3>3, <3>5, <3>7
  <2>4. QED  BY <2>2, <2>3
<1>2. QED  BY <1>1, SwitchInvariantHolds, BuffersHold, PTL

-----------------------------------------------------------------------------
(* Frames.                                                                  *)

FrameSet == (Workers \cup {NoOne}) \X Nat

FrameTypes ==
  /\ memory \in [Guests -> [{"rx", "tx"} -> [Ids -> FrameSet]]]
  /\ frame \in [Workers -> FrameSet]
  /\ got \in [Guests -> Seq(FrameSet)]
  /\ missed \in [Guests -> SUBSET FrameSet]

\* What lies in RX buffers of g are frames.
LEMMA FramesInType ==
  ASSUME FrameTypes, NEW g \in Guests, NEW ids \in Seq(Ids)
  PROVE  /\ FramesIn(g, "rx", ids) \in Seq(FrameSet) /\ Len(FramesIn(g, "rx", ids)) = Len(ids)
         /\ \A i \in 1..Len(ids) : FramesIn(g, "rx", ids)[i] = memory[g]["rx"][ids[i]]
<1>1. \A i \in 1..Len(ids) : memory[g]["rx"][ids[i]] \in FrameSet
  <2>1. \A i \in 1..Len(ids) : ids[i] \in Ids
    OBVIOUS
  <2>2. memory[g]["rx"] \in [Ids -> FrameSet]
    BY DEF FrameTypes
  <2>3. QED  BY <2>1, <2>2
<1>2. Len(ids) \in Nat
  OBVIOUS
<1>3. QED  BY <1>1, <1>2 DEF FramesIn

\* What a guest has received are frames.
LEMMA ReceivedType ==
  ASSUME SwitchInvariant, FrameTypes, NEW g \in Guests
  PROVE  Received(g) \in Seq(FrameSet) /\ got[g] \in Seq(FrameSet)
         /\ FramesIn(g, "rx", Returned(rx[g], seen[g].rx)) \in Seq(FrameSet)
<1>1. Returned(rx[g], seen[g].rx) \in Seq(Ids)
  BY GuestRings
<1>2. got[g] \in Seq(FrameSet)
  BY DEF FrameTypes
<1>3. FramesIn(g, "rx", Returned(rx[g], seen[g].rx)) \in Seq(FrameSet)
  BY <1>1, FramesInType
<1>4. QED  BY <1>2, <1>3 DEF Received

\* No step makes anything else than frames.
LEMMA FrameTypesNext ==
  ASSUME SwitchInvariant, FrameTypes, [Next]_vars
  PROVE  FrameTypes'
<1> USE DEF guest, worker, history
<1>1. \A w \in Workers, n \in Nat : <<w, n>> \in FrameSet
  BY DEF FrameSet
<1>2. count \in [Workers -> Nat] /\ NoFrame \in FrameSet
  BY DEF SwitchInvariant, TypeOK, WorkerTypes, NoFrame, FrameSet
<1>3. ASSUME NEW g \in Guests, Post(g)  PROVE FrameTypes'
  <2>1. PICK id \in spare[g] : memory' = [memory EXCEPT ![g].tx[id] = <<g, count[g] + 1>>]
    BY <1>3 DEF Post
  <2>2. id \in Ids /\ <<g, count[g] + 1>> \in FrameSet
    BY <1>1, <1>2 DEF Workers, SwitchInvariant, TypeOK, DriverTypes
  <2>3. memory' \in [Guests -> [{"rx", "tx"} -> [Ids -> FrameSet]]]
    BY <2>1, <2>2 DEF FrameTypes
  <2>4. QED  BY <1>3, <2>3 DEF FrameTypes, Post
<1>4. ASSUME NEW g \in Guests, Collect(g)  PROVE FrameTypes'
  <2>1. got[g] \o FramesIn(g, "rx", Returned(rx[g], seen[g].rx)) \in Seq(FrameSet)
    BY ReceivedType
  <2>2. got' = [got EXCEPT ![g] = got[g] \o FramesIn(g, "rx", Returned(rx[g], seen[g].rx))]
    BY <1>4 DEF Collect
  <2>3. got' \in [Guests -> Seq(FrameSet)]
    BY <2>1, <2>2 DEF FrameTypes
  <2>4. QED  BY <1>4, <2>3 DEF FrameTypes, Collect
<1>5. ASSUME NEW g \in Guests, Test(g)  PROVE FrameTypes'
  <2>1. memory[g].tx[Alloc(tx[g]).id] \in FrameSet
    BY AllocType, GuestRings DEF FrameTypes
  <2>2. frame' \in [Workers -> FrameSet]
    BY <1>5, <2>1 DEF Test, FrameTypes
  <2>3. QED  BY <1>5, <2>2 DEF FrameTypes, Test
<1>6. CASE Arrive
  <2>1. <<Wire, count[Wire] + 1>> \in FrameSet
    BY <1>1, <1>2 DEF Workers
  <2>2. QED  BY <1>6, <2>1 DEF FrameTypes, Arrive
<1>7. ASSUME NEW w \in Workers, Update(w)  PROVE FrameTypes'
  <2> DEFINE g == Receiver(w)
  <2>1. g \in Guests
    <3>1. observer[w] \in 1..Len(Observers)
      BY <1>7, ListFacts DEF SwitchInvariant, TypeOK, WorkerTypes, Update
    <3>2. QED  BY <3>1, ListFacts DEF Receiver
  <2>2. frame[w] \in FrameSet /\ Alloc(rx[g]).id \in Ids
    BY <2>1, AllocType, GuestRings DEF FrameTypes
  <2>3. \/ memory' = memory /\ missed' = [missed EXCEPT ![g] = @ \cup {frame[w]}]
        \/ memory' = [memory EXCEPT ![g].rx[Alloc(rx[g]).id] = frame[w]] /\ missed' = missed
    BY <1>7 DEF Update
  <2>4. UNCHANGED <<frame, got>>
    BY <1>7 DEF Update
  <2> HIDE DEF g
  <2>5. memory' \in [Guests -> [{"rx", "tx"} -> [Ids -> FrameSet]]]
    <3>1. CASE memory' = memory
      BY <3>1 DEF FrameTypes
    <3>2. CASE memory' = [memory EXCEPT ![g].rx[Alloc(rx[g]).id] = frame[w]]
      BY <2>1, <2>2, <3>2 DEF FrameTypes
    <3>3. QED  BY <2>3, <3>1, <3>2
  <2>6. missed' \in [Guests -> SUBSET FrameSet]
    BY <2>1, <2>2, <2>3 DEF FrameTypes
  <2>7. QED  BY <2>4, <2>5, <2>6 DEF FrameTypes
<1>8. ASSUME NEW w \in Workers, Unlock(w)  PROVE FrameTypes'
  BY <1>2, <1>8 DEF FrameTypes, Unlock
<1>9. ASSUME NEW g \in Guests,
             Notify(g) \/ Claim(g) \/ ReadStatus(g) \/ Acknowledge(g) \/ P(g) \/ TxFree(g)
               \/ TxSet(g) \/ TxRaise(g)
      PROVE  FrameTypes'
  BY <1>9 DEF FrameTypes, Notify, Claim, ReadStatus, Acknowledge, P, TxFree, TxSet, TxRaise
<1>10. ASSUME NEW w \in Workers, Lock(w) \/ RxFree(w) \/ RxSet(w) \/ RxRaise(w)
       PROVE  FrameTypes'
  BY <1>10 DEF FrameTypes, Lock, RxFree, RxSet, RxRaise
<1>11. CASE UNCHANGED vars
  BY <1>11 DEF FrameTypes, vars
<1>12. QED
  BY <1>3, <1>4, <1>5, <1>6, <1>7, <1>8, <1>9, <1>10, <1>11
  DEF Next, HandlerStep, DeviceStep, Forward

\* Nobody receives anything.
SameReceived == \A h \in Guests : Received(h)' = Received(h)

\* Only RxFree lets a guest receive a frame; the guest may take it over, and the
\* buffers that the worker and the driver write are not among the returned ones.
LEMMA ReceivedKept ==
  ASSUME SwitchInvariant, BuffersInv, FrameTypes,
         \/ \E g \in Guests : Post(g) \/ Notify(g) \/ HandlerStep(g) \/ DeviceStep(g)
         \/ Arrive \/ UNCHANGED vars
         \/ \E w \in Workers : Lock(w) \/ Update(w) \/ RxSet(w) \/ RxRaise(w) \/ Unlock(w)
  PROVE  SameReceived
<1> USE DEF guest, worker, history
<1>1. ASSUME UNCHANGED <<got, rx, seen, memory>>  PROVE SameReceived
  BY <1>1 DEF SameReceived, Received, FramesIn
<1>2. ASSUME UNCHANGED <<got, rx, seen>>, NEW h \in Guests,
             memory'[h]["rx"] = memory[h]["rx"]
      PROVE  Received(h)' = Received(h)
  BY <1>2 DEF Received, FramesIn
<1>3. ASSUME NEW g \in Guests, Post(g)  PROVE SameReceived
  <2>1. PICK id \in spare[g] : memory' = [memory EXCEPT ![g].tx[id] = <<g, count[g] + 1>>]
    BY <1>3 DEF Post
  <2>2. \A h \in Guests : memory'[h]["rx"] = memory[h]["rx"]
    BY <2>1 DEF FrameTypes
  <2>3. UNCHANGED <<got, rx, seen>>
    BY <1>3 DEF Post
  <2>4. QED  BY <1>2, <2>2, <2>3 DEF SameReceived
<1>4. ASSUME NEW g \in Guests, Collect(g)  PROVE SameReceived
  <2> SUFFICES ASSUME NEW h \in Guests  PROVE Received(h)' = Received(h)
    BY DEF SameReceived
  <2>1. /\ got' = [got EXCEPT ![g] = got[g] \o FramesIn(g, "rx", Returned(rx[g], seen[g].rx))]
        /\ UNCHANGED memory
    BY <1>4 DEF Collect
  <2>2. CASE h = g
    <3>1. got'[g] = Received(g)
      BY <2>1 DEF Received, FrameTypes
    <3>2. Returned(rx[g], seen[g].rx)' = <<>>
      BY <1>4, BuffersCollect
    <3>3. FramesIn(g, "rx", <<>>)' = <<>>
      BY DEF FramesIn
    <3>4. Received(g)' = got'[g] \o <<>>
      BY <3>2, <3>3 DEF Received
    <3>5. Received(g) \in Seq(FrameSet)
      BY ReceivedType
    <3>6. Received(g) \o <<>> = Received(g)
      BY <3>5
    <3>7. QED  BY <2>2, <3>1, <3>4, <3>6
  <2>3. CASE h # g
    <3>1. rx'[h] = rx[h] /\ seen'[h] = seen[h] /\ got'[h] = got[h]
      BY <1>4, <2>1, <2>3 DEF Collect, SwitchInvariant, TypeOK, RingTypes, FrameTypes
    <3>2. QED  BY <2>1, <3>1 DEF Received, FramesIn
  <2>4. QED  BY <2>2, <2>3
<1>5. ASSUME NEW w \in Workers, Update(w)  PROVE SameReceived
  <2> SUFFICES ASSUME NEW h \in Guests  PROVE Received(h)' = Received(h)
    BY DEF SameReceived
  <2> DEFINE g == Receiver(w)
             id == Alloc(rx[g]).id
             R == Returned(rx[g], seen[g].rx)
  <2>1. g \in Guests
    <3>1. observer[w] \in 1..Len(Observers)
      BY <1>5, ListFacts DEF SwitchInvariant, TypeOK, WorkerTypes, Update
    <3>2. QED  BY <3>1, ListFacts DEF Receiver
  <2>2. UNCHANGED <<got, seen>>
    BY <1>5 DEF Update
  <2>3. CASE ~Available(rx[g])
    BY <1>1, <1>5, <2>2, <2>3 DEF Update, SameReceived
  <2>4. CASE Available(rx[g])
    <3>1. /\ rx' = [rx EXCEPT ![g] = Alloc(rx[g]).queue]
          /\ memory' = [memory EXCEPT ![g].rx[id] = frame[w]]
      BY <1>5, <2>4 DEF Update
    <3>2. CASE h # g
      <4>1. rx'[h] = rx[h] /\ memory'[h] = memory[h]
        BY <2>1, <3>1, <3>2 DEF SwitchInvariant, TypeOK, RingTypes, FrameTypes
      <4>2. QED  BY <2>2, <4>1 DEF Received, FramesIn
    <3>3. CASE h = g
      <4>1. /\ rx[g] \in QueueType /\ seen[g].rx \in 0..(Modulus - 1) /\ R \in Seq(Ids)
            /\ Waiting(rx[g]) \in Seq(Ids)
        BY <2>1, GuestRings
      <4>2. rx'[g] = Alloc(rx[g]).queue
        BY <2>1, <3>1 DEF SwitchInvariant, TypeOK, RingTypes
      <4>3. /\ Len(Waiting(rx[g])) > 0 /\ id = Head(Waiting(rx[g]))
            /\ Returned(rx'[g], seen[g].rx) = R
        BY <2>4, <4>1, <4>2, AllocRing
      <4>4. RxOnce(g)
        BY <2>1 DEF BuffersInv
      <4>5. id \in ToSet(Waiting(rx[g]))
        BY <4>1, <4>3, <4>4, TailElements DEF RxOnce, Once
      <4>6. id \notin ToSet(R)
        BY <4>4, <4>5 DEF RxOnce, Once
      <4>7. \A i \in 1..Len(R) : R[i] # id
        BY <4>1, <4>6, Elements
      <4>8. \A i \in 1..Len(R) : memory'[g]["rx"][R[i]] = memory[g]["rx"][R[i]]
        <5> HIDE DEF id, R, g
        <5>1. memory[g]["rx"] \in [Ids -> FrameSet] /\ \A i \in 1..Len(R) : R[i] \in Ids
          BY <2>1, <4>1 DEF FrameTypes
        <5>2. memory'[g]["rx"] = [memory[g]["rx"] EXCEPT ![id] = frame[w]]
          BY <2>1, <3>1 DEF FrameTypes
        <5>3. QED  BY <4>7, <5>1, <5>2
      <4>9. /\ Returned(rx[h], seen[h].rx)' = R /\ Returned(rx[h], seen[h].rx) = R
            /\ got'[h] = got[h]
        BY <2>2, <3>3, <4>3
      <4>10. [i \in 1..Len(R) |-> memory'[h]["rx"][R[i]]]
               = [i \in 1..Len(R) |-> memory[h]["rx"][R[i]]]
        BY <3>3, <4>8
      <4> HIDE DEF R, g, id
      <4>11. FramesIn(h, "rx", Returned(rx[h], seen[h].rx))'
               = [i \in 1..Len(R) |-> memory'[h]["rx"][R[i]]]
        BY <4>9 DEF FramesIn
      <4>12. FramesIn(h, "rx", Returned(rx[h], seen[h].rx))
               = [i \in 1..Len(R) |-> memory[h]["rx"][R[i]]]
        BY <4>9 DEF FramesIn
      <4>13. QED  BY <4>9, <4>10, <4>11, <4>12, Zenon DEF Received
    <3>4. QED  BY <3>2, <3>3
  <2>5. QED  BY <2>3, <2>4
<1>6. ASSUME NEW g \in Guests,
             Notify(g) \/ Claim(g) \/ ReadStatus(g) \/ Acknowledge(g) \/ P(g) \/ Test(g)
               \/ TxFree(g) \/ TxSet(g) \/ TxRaise(g)
      PROVE  SameReceived
  <2>1. UNCHANGED <<got, rx, seen, memory>>
    BY <1>6 DEF Notify, Claim, ReadStatus, Acknowledge, P, Test, TxFree, TxSet, TxRaise
  <2>2. QED  BY <1>1, <2>1
<1>7. ASSUME NEW w \in Workers, Lock(w) \/ RxSet(w) \/ RxRaise(w) \/ Unlock(w)
      PROVE  SameReceived
  <2>1. UNCHANGED <<got, rx, seen, memory>>
    BY <1>7 DEF Lock, RxSet, RxRaise, Unlock
  <2>2. QED  BY <1>1, <2>1
<1>8. CASE Arrive \/ UNCHANGED vars
  <2>1. UNCHANGED <<got, rx, seen, memory>>
    BY <1>8 DEF Arrive, vars
  <2>2. QED  BY <1>1, <2>1
<1>9. QED
  BY <1>3, <1>4, <1>5, <1>6, <1>7, <1>8 DEF HandlerStep, DeviceStep

\* A worker has a frame in hand that it forwards.
InHand == {"lock", "update", "free", "set", "raise"}

\* A frame that has been sent.
Numbered(f) == f[1] \in Workers /\ f[2] \in 1..count[f[1]]

\* The frames that guest h has received or missed.
Reached(h) == ToSet(Received(h)) \cup missed[h]

\* The frame in TX buffer i of g.
TxFrame(g, i) == memory[g]["tx"][i]

\* The frames that wait in the TX ring of g are its own, differ, and nobody has
\* received them.
OfferedOf(g) ==
  /\ \A i \in ToSet(Waiting(tx[g])) :
       /\ TxFrame(g, i)[1] = g /\ Numbered(TxFrame(g, i))
       /\ pc[g] \in InHand => frame[g] # TxFrame(g, i)
       /\ \A h \in Guests : TxFrame(g, i) \notin Reached(h)
  /\ \A i, j \in ToSet(Waiting(tx[g])) : TxFrame(g, i) = TxFrame(g, j) => i = j

\* A worker has one of its own frames in hand, which is new until it has the lock.
Carries(w) ==
  /\ pc[w] \in InHand => frame[w][1] = w /\ Numbered(frame[w])
  /\ pc[w] = "lock" => \A h \in Guests : frame[w] \notin Reached(h)
  /\ holder # w => observer[w] = 1

\* Guest h has received frame f last.
LastReceived(h, f) == Received(h) # <<>> /\ Received(h)[Len(Received(h))] = f

\* Worker w is done with observer i.
Served(w, i) == i < observer[w] \/ (i = observer[w] /\ pc[w] \in {"set", "raise"})

\* While a worker hands its frame round, the observers that it is done with have
\* received it last, or missed it, and the others do not know it.
Hands(w) ==
  holder = w =>
    /\ \A i \in 1..Len(Observers) :
         /\ Served(w, i) =>
              frame[w] \in missed[Observers[i]] \/ LastReceived(Observers[i], frame[w])
         /\ ~Served(w, i) => frame[w] \notin Reached(Observers[i])
    /\ pc[w] = "free" => memory[Receiver(w)]["rx"][buffer[w]] = frame[w]

FramesInv ==
  /\ \A g \in Guests : OfferedOf(g)
  /\ \A h \in Guests : \A f \in Reached(h) : Numbered(f)
  /\ \A w \in Workers : Carries(w) /\ Hands(w)
  /\ SameOrder

CountGrows == \A w \in Workers : count'[w] >= count[w]

\* Sent frames stay sent.
LEMMA NumberedGrows ==
  ASSUME SwitchInvariant, CountGrows, SwitchInvariant'
  PROVE  \A f : Numbered(f) => Numbered(f)'
<1>1. \A w \in Workers : count[w] \in Nat /\ count'[w] \in Nat
  BY DEF SwitchInvariant, TypeOK, WorkerTypes
<1>2. \A w \in Workers : \A n \in 1..count[w] : n \in 1..count'[w]
  BY <1>1 DEF CountGrows
<1>3. QED  BY <1>2 DEF Numbered

\* A step that lets guests know of frames F only.
Learn(F) == \A h \in Guests : Reached(h)' \subseteq Reached(h) \cup F

\* The waiting frames of g stay unknown when F are no frames of g, or the one that
\* its worker has in hand.
LEMMA OfferedKept ==
  ASSUME SwitchInvariant, SwitchInvariant', CountGrows, NEW F, Learn(F),
         NEW g \in Guests, OfferedOf(g),
         \A f \in F : f[1] # g \/ (pc[g] \in InHand /\ frame[g] = f),
         ToSet(Waiting(tx[g])') \subseteq ToSet(Waiting(tx[g])),
         memory'[g]["tx"] = memory[g]["tx"],
         pc'[g] \in InHand => pc[g] \in InHand /\ frame'[g] = frame[g]
  PROVE  OfferedOf(g)'
<1>1. \A i : TxFrame(g, i)' = TxFrame(g, i)
  BY DEF TxFrame
<1>2. \A i \in ToSet(Waiting(tx[g])) : TxFrame(g, i) \notin F
  BY DEF OfferedOf
<1>3. ToSet(Waiting(tx[g]))' \subseteq ToSet(Waiting(tx[g]))
  OBVIOUS
<1>4. QED  BY <1>1, <1>2, <1>3, NumberedGrows DEF OfferedOf, Learn

\* Another worker's frame stays where it is.
LEMMA CarriesKept ==
  ASSUME SwitchInvariant, SwitchInvariant', CountGrows, NEW F, Learn(F),
         NEW w \in Workers, Carries(w), pc[w] = "lock" => frame[w] \notin F,
         pc'[w] = pc[w], frame'[w] = frame[w], observer'[w] = observer[w],
         holder' # w => holder # w
  PROVE  Carries(w)'
BY NumberedGrows DEF Carries, Learn

\* A worker that hands its frame round is not disturbed by the others.
LEMMA HandsKept ==
  ASSUME NEW w \in Workers, Hands(w), SameReceived, UNCHANGED missed,
         holder' = w => holder = w,
         holder = w => pc'[w] = pc[w] /\ frame'[w] = frame[w] /\ observer'[w] = observer[w]
                         /\ buffer'[w] = buffer[w],
         holder = w /\ pc[w] = "free" =>
           memory'[Receiver(w)]["rx"] = memory[Receiver(w)]["rx"]
  PROVE  Hands(w)'
<1> SUFFICES ASSUME holder' = w  PROVE Hands(w)'
  BY DEF Hands
<1>1. /\ holder = w /\ pc'[w] = pc[w] /\ frame'[w] = frame[w] /\ observer'[w] = observer[w]
      /\ buffer'[w] = buffer[w] /\ Receiver(w)' = Receiver(w)
  BY DEF Receiver
<1>2. \A i \in 1..Len(Observers) :
        /\ Served(w, i)' <=> Served(w, i)
        /\ Reached(Observers[i])' = Reached(Observers[i])
        /\ LastReceived(Observers[i], frame[w])' <=> LastReceived(Observers[i], frame[w])
  BY <1>1, ListFacts DEF Served, Reached, LastReceived, SameReceived
<1>3. QED  BY <1>1, <1>2 DEF Hands

\* What nobody receives or hands round leaves the order alone.
LEMMA OrderKept ==
  ASSUME SameOrder, SameReceived, UNCHANGED <<missed, forwarded>>
  PROVE  SameOrder'
BY DEF SameOrder, SameReceived

\* Steps that receive and miss nothing.
LEMMA NothingLearnt ==
  ASSUME FramesInv, SwitchInvariant, SwitchInvariant', CountGrows, SameReceived,
         UNCHANGED missed
  PROVE  Learn({}) /\ \A h \in Guests : \A f \in Reached(h)' : Numbered(f)'
<1>1. \A h \in Guests : Reached(h)' = Reached(h)
  BY DEF SameReceived, Reached
<1>2. QED  BY <1>1, NumberedGrows DEF Learn, FramesInv


\* The steps of a guest and of its device that touch no frame.
LEMMA FramesGuest ==
  ASSUME SwitchInvariant, SwitchInvariant', BuffersInv, FrameTypes, FramesInv,
         NEW g \in Guests,
         Notify(g) \/ HandlerStep(g) \/ P(g) \/ TxFree(g) \/ TxSet(g) \/ TxRaise(g)
  PROVE  FramesInv'
<1> USE DEF guest, worker, history, Goto, Handler
<1>1. /\ UNCHANGED <<memory, frame, buffer, observer, holder, count, missed, forwarded>>
      /\ \/ pc' = pc
         \/ pc[g] \notin InHand /\ \E l \in {"test", "txset", "txraise"} :
                                     pc' = [pc EXCEPT ![g] = l]
  BY DEF Notify, HandlerStep, Claim, ReadStatus, Acknowledge, Collect, P, TxFree, TxSet,
         TxRaise, InHand
<1>2. SameReceived
  BY ReceivedKept DEF DeviceStep
<1>3. CountGrows
  BY <1>1 DEF CountGrows, SwitchInvariant, TypeOK, WorkerTypes
<1>4. Learn({}) /\ \A h \in Guests : \A f \in Reached(h)' : Numbered(f)'
  BY <1>1, <1>2, <1>3, NothingLearnt
<1>5. \A h \in Guests : Waiting(tx[h])' = Waiting(tx[h])
  <2>1. CASE TxFree(g)
    BY <2>1, BuffersTx
  <2>2. CASE ~TxFree(g)
    BY <2>2 DEF Notify, HandlerStep, Claim, ReadStatus, Acknowledge, Collect, P, TxSet, TxRaise
  <2>3. QED  BY <2>1, <2>2
<1>6. /\ pc \in [Workers -> {"wait", "test", "lock", "update", "free", "set", "raise",
                             "return", "txset", "txraise"}]
      /\ g \in Workers /\ (pc[g] \in InHand \ {"lock"} <=> holder = g)
  BY Walkers DEF SwitchInvariant, TypeOK, WorkerTypes, InHand, Workers
<1>7. /\ \A w \in Workers : pc'[w] \in InHand => pc[w] \in InHand
      /\ \A w \in Workers : pc[w] \in InHand => pc'[w] = pc[w]
      /\ \A w \in Workers : w # g => pc'[w] = pc[w]
  BY <1>1, <1>6 DEF InHand
<1>8. ASSUME NEW h \in Guests  PROVE OfferedOf(h)'
  <2>1. h \in Workers /\ OfferedOf(h)
    BY DEF FramesInv, Workers
  <2>2. QED  BY <1>1, <1>3, <1>4, <1>5, <1>7, <2>1, OfferedKept
<1>9. ASSUME NEW w \in Workers  PROVE Carries(w)'
  <2>1. Carries(w)
    BY DEF FramesInv
  <2>2. CASE pc'[w] = pc[w]
    BY <1>1, <1>3, <1>4, <2>1, <2>2, CarriesKept
  <2>3. CASE pc'[w] # pc[w]
    <3>1. pc'[w] \notin InHand
      BY <1>7, <2>3
    <3>2. QED  BY <1>1, <2>1, <3>1 DEF Carries, InHand
  <2>4. QED  BY <2>2, <2>3
<1>10. ASSUME NEW w \in Workers  PROVE Hands(w)'
  <2>1. Hands(w) /\ (holder = w => pc'[w] = pc[w])
    BY <1>6, <1>7, Walkers DEF FramesInv, InHand
  <2>2. QED  BY <1>1, <1>2, <2>1, HandsKept
<1>11. SameOrder'
  BY <1>1, <1>2, OrderKept DEF FramesInv
<1>12. QED  BY <1>4, <1>8, <1>9, <1>10, <1>11 DEF FramesInv

\* The steps of a worker that announce the RX buffer to its guest.
LEMMA FramesRaise ==
  ASSUME SwitchInvariant, SwitchInvariant', BuffersInv, FrameTypes, FramesInv,
         NEW w \in Workers, RxSet(w) \/ RxRaise(w)
  PROVE  FramesInv'
<1> USE DEF guest, worker, history, Goto
<1>1. /\ UNCHANGED <<memory, frame, tx, holder, count, missed, forwarded>>
      /\ holder = w /\ pc[w] \in {"set", "raise"}
      /\ \/ pc[w] = "set" /\ pc' = [pc EXCEPT ![w] = "raise"] /\ observer' = observer
         \/ pc[w] = "raise" /\ pc' = [pc EXCEPT ![w] = "update"]
              /\ observer' = [observer EXCEPT ![w] = @ + 1]
  BY Walkers DEF RxSet, RxRaise
<1>2. SameReceived
  BY ReceivedKept
<1>3. CountGrows
  BY <1>1 DEF CountGrows, SwitchInvariant, TypeOK, WorkerTypes
<1>4. Learn({}) /\ \A h \in Guests : \A f \in Reached(h)' : Numbered(f)'
  BY <1>1, <1>2, <1>3, NothingLearnt
<1>5. /\ pc \in [Workers -> {"wait", "test", "lock", "update", "free", "set", "raise",
                             "return", "txset", "txraise"}]
      /\ observer \in [Workers -> 1..(Len(Observers) + 1)] /\ observer[w] \in Int
  BY ListFacts DEF SwitchInvariant, TypeOK, WorkerTypes
<1>6. /\ \A v \in Workers : v # w => pc'[v] = pc[v] /\ observer'[v] = observer[v]
      /\ pc'[w] \in {"update", "raise"}
  BY <1>1, <1>5
<1>7. ASSUME NEW h \in Guests  PROVE OfferedOf(h)'
  <2>1. h \in Workers /\ OfferedOf(h)
    BY DEF FramesInv, Workers
  <2>2. pc'[h] \in InHand => pc[h] \in InHand
    BY <1>1, <1>6, <2>1 DEF InHand
  <2>3. QED  BY <1>1, <1>3, <1>4, <2>1, <2>2, OfferedKept
<1>8. ASSUME NEW v \in Workers  PROVE Carries(v)'
  <2>1. Carries(v)
    BY DEF FramesInv
  <2>2. CASE v # w
    BY <1>1, <1>3, <1>4, <1>6, <2>1, <2>2, CarriesKept
  <2>3. CASE v = w
    <3>1. frame[w][1] = w /\ Numbered(frame[w])'
      BY <1>1, <1>3, <2>1, <2>3, NumberedGrows DEF Carries, InHand
    <3>2. QED  BY <1>1, <1>6, <2>3, <3>1 DEF Carries
  <2>4. QED  BY <2>2, <2>3
<1>9. ASSUME NEW v \in Workers  PROVE Hands(v)'
  <2>1. CASE v # w
    BY <1>1, <2>1 DEF Hands
  <2>2. CASE v = w
    <3>1. \A i \in 1..Len(Observers) : Served(w, i)' <=> Served(w, i)
      BY <1>1, <1>5, ListFacts DEF Served
    <3>2. \A i \in 1..Len(Observers) :
            /\ Reached(Observers[i])' = Reached(Observers[i])
            /\ LastReceived(Observers[i], frame[w])' <=> LastReceived(Observers[i], frame[w])
      BY <1>1, <1>2, ListFacts DEF Reached, LastReceived, SameReceived
    <3>3. Hands(w)
      BY DEF FramesInv
    <3>4. QED  BY <1>1, <1>6, <2>2, <3>1, <3>2, <3>3 DEF Hands
  <2>3. QED  BY <2>1, <2>2
<1>10. SameOrder'
  BY <1>1, <1>2, OrderKept DEF FramesInv
<1>11. QED  BY <1>4, <1>7, <1>8, <1>9, <1>10 DEF FramesInv

\* A frame that is offered is new.
LEMMA FramesPost ==
  ASSUME SwitchInvariant, SwitchInvariant', BuffersInv, FrameTypes, FramesInv,
         NEW g \in Guests, Post(g)
  PROVE  FramesInv'
<1> USE DEF guest, worker, history
<1> DEFINE W == Waiting(tx[g])
<1> PICK n \in Nat : n = count[g] + 1
  BY DEF SwitchInvariant, TypeOK, WorkerTypes, Workers
<1>1. /\ UNCHANGED <<frame, pc, buffer, observer, holder, missed, forwarded>>
      /\ count' = [count EXCEPT ![g] = n]
  BY DEF Post
<1>2. PICK id \in spare[g] : /\ memory' = [memory EXCEPT ![g].tx[id] = <<g, n>>]
                             /\ Waiting(tx[g])' = W \o <<id>>
                             /\ \A h \in Guests : h # g => tx'[h] = tx[h]
  BY BuffersPost
<1>3. /\ id \in Ids /\ W \in Seq(Ids) /\ g \in Workers /\ spare[g] \in SUBSET Ids
      /\ count \in [Workers -> Nat]
  BY GuestRings DEF SwitchInvariant, TypeOK, WorkerTypes, Workers
<1>4. SameReceived
  BY ReceivedKept
<1>5. CountGrows
  BY <1>1, <1>3 DEF CountGrows
<1>6. Learn({}) /\ \A h \in Guests : \A f \in Reached(h)' : Numbered(f)'
  BY <1>1, <1>4, <1>5, NothingLearnt
<1>7. \A h \in Guests : Reached(h)' = Reached(h)
  BY <1>1, <1>4 DEF Reached, SameReceived
<1>8. ~Numbered(<<g, n>>) /\ Numbered(<<g, n>>)'
  BY <1>1, <1>3 DEF Numbered
<1>9. \A h \in Guests : memory'[h]["rx"] = memory[h]["rx"]
  BY <1>2 DEF FrameTypes
<1>10. OfferedOf(g)'
  <2>1. OfferedOf(g)
    BY DEF FramesInv
  <2>2. TxFrame(g, id)' = <<g, n>> /\ \A i \in Ids : i # id => TxFrame(g, i)' = TxFrame(g, i)
    BY <1>2, <1>3 DEF FrameTypes, TxFrame
  <2>3. ToSet(W \o <<id>>) = ToSet(W) \cup {id} /\ ToSet(W) \subseteq Ids
    <3>1. W \o <<id>> = Append(W, id)
      BY <1>3, AppendIsConcat
    <3>2. ToSet(Append(W, id)) = ToSet(W) \cup {id}
      BY <1>3, AppendElements
    <3>3. QED  BY <1>3, <3>1, <3>2, Elements
  <2>4. id \notin ToSet(W)
    <3>1. TxOnce(g)
      BY DEF BuffersInv
    <3>2. QED  BY <3>1 DEF TxOnce, Once
  <2>5. pc[g] \in InHand => Numbered(frame[g])
    BY <1>3 DEF FramesInv, Carries
  <2>6. \A i \in ToSet(W) : /\ TxFrame(g, i)' = TxFrame(g, i) /\ Numbered(TxFrame(g, i))
                            /\ TxFrame(g, i)[1] = g
                            /\ pc[g] \in InHand => frame[g] # TxFrame(g, i)
                            /\ \A h \in Guests : TxFrame(g, i) \notin Reached(h)
    BY <2>1, <2>2, <2>3, <2>4 DEF OfferedOf
  <2>7. \A h \in Guests : <<g, n>> \notin Reached(h)
    BY <1>8 DEF FramesInv
  <2>8. \A i \in ToSet(W) : TxFrame(g, i) # <<g, n>>
    BY <1>8, <2>6
  <2>9. pc[g] \in InHand => frame[g] # <<g, n>>
    BY <1>8, <2>5
  <2>10. \A f : Numbered(f) => Numbered(f)'
    BY <1>5, NumberedGrows
  <2>11. \A i, j \in ToSet(W) : TxFrame(g, i) = TxFrame(g, j) => i = j
    BY <2>1 DEF OfferedOf
  <2>12. ToSet(Waiting(tx[g]))' = ToSet(W) \cup {id}
    BY <1>2, <2>3
  <2> DEFINE V == ToSet(Waiting(tx[g]))
  <2>13. <<g, n>>[1] = g
    OBVIOUS
  <2> HIDE DEF W
  <2>14. \A i \in V' : /\ TxFrame(g, i)'[1] = g /\ Numbered(TxFrame(g, i))'
                       /\ pc[g] \in InHand => frame[g] # TxFrame(g, i)'
                       /\ \A h \in Guests : TxFrame(g, i)' \notin Reached(h)
    <3> SUFFICES ASSUME NEW i \in ToSet(W) \cup {id}
                 PROVE  /\ TxFrame(g, i)'[1] = g /\ Numbered(TxFrame(g, i))'
                        /\ pc[g] \in InHand => frame[g] # TxFrame(g, i)'
                        /\ \A h \in Guests : TxFrame(g, i)' \notin Reached(h)
      BY <2>12
    <3>1. CASE i = id
      BY <1>8, <2>2, <2>7, <2>9, <2>13, <3>1
    <3>2. CASE i \in ToSet(W)
      BY <2>6, <2>10, <3>2
    <3>3. QED  BY <3>1, <3>2
  <2>15. \A i, j \in V' : TxFrame(g, i)' = TxFrame(g, j)' => i = j
    BY <2>2, <2>6, <2>8, <2>11, <2>12
  <2>16. QED  BY <1>1, <1>7, <2>14, <2>15 DEF OfferedOf
<1>11. ASSUME NEW h \in Guests, h # g  PROVE OfferedOf(h)'
  <2>1. h \in Workers /\ OfferedOf(h)
    BY DEF FramesInv, Workers
  <2>2. memory'[h] = memory[h]
    BY <1>2, <1>11 DEF FrameTypes
  <2>3. Waiting(tx[h])' = Waiting(tx[h])
    BY <1>2, <1>11
  <2>4. QED  BY <1>1, <1>5, <1>6, <2>1, <2>2, <2>3, OfferedKept
<1>12. ASSUME NEW w \in Workers  PROVE Carries(w)' /\ Hands(w)'
  <2>1. Carries(w) /\ Hands(w)
    BY DEF FramesInv
  <2>2. holder = w /\ pc[w] = "free" => Receiver(w) \in Guests
    BY Walkers DEF Walking
  <2>3. QED  BY <1>1, <1>4, <1>5, <1>6, <1>9, <2>1, <2>2, CarriesKept, HandsKept
<1>13. SameOrder'
  BY <1>1, <1>4, OrderKept DEF FramesInv
<1>14. QED  BY <1>6, <1>10, <1>11, <1>12, <1>13 DEF FramesInv

\* A worker takes a frame that waits, and nobody has received it.
LEMMA FramesTest ==
  ASSUME SwitchInvariant, SwitchInvariant', BuffersInv, FrameTypes, FramesInv,
         NEW g \in Guests, Test(g)
  PROVE  FramesInv'
<1> USE DEF guest, worker, history, Goto
<1> DEFINE W == Waiting(tx[g])
<1>1. /\ UNCHANGED <<memory, buffer, observer, holder, count, missed, forwarded>>
      /\ pc[g] = "test" /\ pc \in [Workers -> {"wait", "test", "lock", "update", "free",
                             "set", "raise", "return", "txset", "txraise"}]
      /\ frame \in [Workers -> FrameSet] /\ g \in Workers /\ holder # g
      /\ tx \in [Guests -> QueueType]
  BY Walkers DEF Test, SwitchInvariant, TypeOK, RingTypes, WorkerTypes, FrameTypes, Workers
<1>2. SameReceived
  BY ReceivedKept DEF DeviceStep
<1>3. CountGrows
  BY <1>1 DEF CountGrows, SwitchInvariant, TypeOK, WorkerTypes
<1>4. Learn({}) /\ \A h \in Guests : \A f \in Reached(h)' : Numbered(f)'
  BY <1>1, <1>2, <1>3, NothingLearnt
<1>5. \A h \in Guests : Reached(h)' = Reached(h)
  BY <1>1, <1>2 DEF Reached, SameReceived
<1>6. /\ \A w \in Workers : w # g => pc'[w] = pc[w] /\ frame'[w] = frame[w]
      /\ pc'[g] \in {"wait", "lock"}
  BY <1>1 DEF Test
<1>7. \A h \in Guests : h # g => tx'[h] = tx[h]
  BY BuffersTx
<1>8. \A f : Numbered(f)' <=> Numbered(f)
  BY <1>1 DEF Numbered
<1>9. OfferedOf(g)
  BY DEF FramesInv
<1>10. OfferedOf(g)' /\ Carries(g)'
  <2>1. CASE ~Available(tx[g])
    <3>1. UNCHANGED <<tx, frame>> /\ pc'[g] = "wait"
      BY <1>1, <2>1 DEF Test
    <3>2. OfferedOf(g)'
      BY <1>1, <1>3, <1>4, <1>9, <3>1, OfferedKept DEF InHand
    <3>3. Carries(g)'
      BY <1>1, <3>1 DEF Carries, InHand, FramesInv
    <3>4. QED  BY <3>2, <3>3
  <2>2. CASE Available(tx[g])
    <3> DEFINE id == Alloc(tx[g]).id
    <3>1. /\ tx' = [tx EXCEPT ![g] = Alloc(tx[g]).queue]
          /\ frame' = [frame EXCEPT ![g] = memory[g].tx[id]]
          /\ pc' = [pc EXCEPT ![g] = "lock"]
      BY <2>2 DEF Test
    <3>2. tx'[g] = Alloc(tx[g]).queue /\ frame'[g] = TxFrame(g, id) /\ pc'[g] = "lock"
      BY <1>1, <3>1 DEF TxFrame
    <3>3. W \in Seq(Ids) /\ Len(W) > 0 /\ id = Head(W) /\ Waiting(tx[g])' = Tail(W)
      BY <2>2, <3>2, GuestRings, AllocRing
    <3>4. IsInjective(W)
      BY DEF BuffersInv, TxOnce, Once
    <3>5. id \in ToSet(W) /\ ToSet(Tail(W)) = ToSet(W) \ {id}
      BY <3>3, <3>4, TailElements
    <3>6. ToSet(Waiting(tx[g]))' = ToSet(W) \ {id}
      BY <3>3, <3>5
    <3>7. \A i : TxFrame(g, i)' = TxFrame(g, i)
      BY <1>1 DEF TxFrame
    <3> HIDE DEF id, W
    <3>8. \A i \in ToSet(W) \ {id} : TxFrame(g, i) # TxFrame(g, id)
      BY <1>9, <3>5 DEF OfferedOf, W
    <3>9. OfferedOf(g)'
      BY <1>5, <1>8, <1>9, <3>2, <3>6, <3>7, <3>8 DEF OfferedOf, W
    <3>10. /\ frame'[g][1] = g /\ Numbered(frame[g])'
           /\ \A h \in Guests : frame'[g] \notin Reached(h)'
      BY <1>5, <1>8, <1>9, <3>2, <3>5 DEF OfferedOf, W
    <3>11. observer'[g] = 1
      BY <1>1 DEF FramesInv, Carries
    <3>12. QED  BY <3>9, <3>10, <3>11 DEF Carries
  <2>3. QED  BY <2>1, <2>2
<1>11. ASSUME NEW h \in Guests, h # g  PROVE OfferedOf(h)'
  <2>1. h \in Workers /\ OfferedOf(h) /\ Waiting(tx[h])' = Waiting(tx[h])
    BY <1>7, <1>11 DEF FramesInv, Workers
  <2>2. QED  BY <1>1, <1>3, <1>4, <1>6, <1>11, <2>1, OfferedKept
<1>12. ASSUME NEW w \in Workers, w # g  PROVE Carries(w)'
  <2>1. Carries(w)
    BY DEF FramesInv
  <2>2. QED  BY <1>1, <1>3, <1>4, <1>6, <1>12, <2>1, CarriesKept
<1>13. ASSUME NEW w \in Workers  PROVE Hands(w)'
  <2>1. Hands(w)
    BY DEF FramesInv
  <2>2. QED  BY <1>1, <1>2, <1>6, <2>1, HandsKept
<1>14. SameOrder'
  BY <1>1, <1>2, OrderKept DEF FramesInv
<1>15. QED  BY <1>4, <1>10, <1>11, <1>12, <1>13, <1>14 DEF FramesInv

\* A frame that arrives is new.
LEMMA FramesArrive ==
  ASSUME SwitchInvariant, SwitchInvariant', BuffersInv, FrameTypes, FramesInv, Arrive
  PROVE  FramesInv'
<1> USE DEF guest, worker, history, Goto
<1> PICK n \in Nat : n = count[Wire] + 1
  BY DEF SwitchInvariant, TypeOK, WorkerTypes, Workers
<1>1. /\ UNCHANGED <<memory, tx, buffer, observer, holder, missed, forwarded>>
      /\ pc[Wire] = "wait" /\ pc' = [pc EXCEPT ![Wire] = "lock"]
      /\ frame' = [frame EXCEPT ![Wire] = <<Wire, n>>]
      /\ count' = [count EXCEPT ![Wire] = n]
  BY DEF Arrive
<1>2. /\ pc \in [Workers -> {"wait", "test", "lock", "update", "free",
                             "set", "raise", "return", "txset", "txraise"}]
      /\ frame \in [Workers -> FrameSet] /\ Wire \in Workers /\ holder # Wire
      /\ count \in [Workers -> Nat] /\ Wire \notin Guests
  BY <1>1, Walkers, ListFacts DEF SwitchInvariant, TypeOK, WorkerTypes, FrameTypes, Workers
<1>3. SameReceived
  BY ReceivedKept
<1>4. CountGrows
  BY <1>1, <1>2 DEF CountGrows
<1>5. Learn({}) /\ \A h \in Guests : \A f \in Reached(h)' : Numbered(f)'
  BY <1>1, <1>3, <1>4, NothingLearnt
<1>6. \A w \in Workers : w # Wire => pc'[w] = pc[w] /\ frame'[w] = frame[w]
  BY <1>1, <1>2
<1>7. ASSUME NEW h \in Guests  PROVE OfferedOf(h)'
  <2>1. h \in Workers /\ h # Wire /\ OfferedOf(h)
    BY <1>2 DEF FramesInv, Workers
  <2>2. QED  BY <1>1, <1>4, <1>5, <1>6, <2>1, OfferedKept
<1>8. ASSUME NEW w \in Workers, w # Wire  PROVE Carries(w)'
  <2>1. Carries(w)
    BY DEF FramesInv
  <2>2. QED  BY <1>1, <1>4, <1>5, <1>6, <1>8, <2>1, CarriesKept
<1>9. Carries(Wire)'
  <2>1. ~Numbered(<<Wire, n>>) /\ Numbered(<<Wire, n>>)'
    BY <1>1, <1>2 DEF Numbered
  <2>2. \A h \in Guests : <<Wire, n>> \notin Reached(h)
    BY <2>1 DEF FramesInv
  <2>3. \A h \in Guests : Reached(h)' = Reached(h)
    BY <1>1, <1>3 DEF Reached, SameReceived
  <2>4. observer[Wire] = 1
    BY <1>2 DEF FramesInv, Carries
  <2>5. frame'[Wire] = <<Wire, n>> /\ pc'[Wire] = "lock" /\ <<Wire, n>>[1] = Wire
    BY <1>1, <1>2
  <2>6. QED  BY <1>1, <2>1, <2>2, <2>3, <2>4, <2>5 DEF Carries
<1>10. ASSUME NEW w \in Workers  PROVE Hands(w)'
  <2>1. Hands(w)
    BY DEF FramesInv
  <2>2. QED  BY <1>1, <1>2, <1>3, <1>6, <2>1, HandsKept
<1>11. SameOrder'
  BY <1>1, <1>3, OrderKept DEF FramesInv
<1>12. QED  BY <1>5, <1>7, <1>8, <1>9, <1>10, <1>11 DEF FramesInv

\* A worker takes lock_: no observer has its frame yet.
LEMMA FramesLock ==
  ASSUME SwitchInvariant, SwitchInvariant', BuffersInv, FrameTypes, FramesInv,
         NEW w \in Workers, Lock(w)
  PROVE  FramesInv'
<1> USE DEF guest, worker, history, Goto
<1>1. /\ UNCHANGED <<memory, tx, frame, buffer, observer, count, missed, forwarded>>
      /\ pc[w] = "lock" /\ pc' = [pc EXCEPT ![w] = "update"]
      /\ holder = NoOne /\ holder' = w
  BY DEF Lock
<1>2. /\ pc \in [Workers -> {"wait", "test", "lock", "update", "free",
                             "set", "raise", "return", "txset", "txraise"}]
      /\ observer[w] = 1 /\ w # NoOne
  BY <1>1, Walkers DEF SwitchInvariant, TypeOK, WorkerTypes, FramesInv, Carries
<1>3. SameReceived
  BY ReceivedKept
<1>4. CountGrows
  BY <1>1 DEF CountGrows, SwitchInvariant, TypeOK, WorkerTypes
<1>5. Learn({}) /\ \A h \in Guests : \A f \in Reached(h)' : Numbered(f)'
  BY <1>1, <1>3, <1>4, NothingLearnt
<1>6. (\A v \in Workers : v # w => pc'[v] = pc[v]) /\ pc'[w] = "update"
  BY <1>1, <1>2
<1>7. ASSUME NEW h \in Guests  PROVE OfferedOf(h)'
  <2>1. h \in Workers /\ OfferedOf(h)
    BY DEF FramesInv, Workers
  <2>2. pc'[h] \in InHand => pc[h] \in InHand
    BY <1>1, <1>6, <2>1 DEF InHand
  <2>3. QED  BY <1>1, <1>4, <1>5, <2>1, <2>2, OfferedKept
<1>8. ASSUME NEW v \in Workers  PROVE Carries(v)'
  <2>1. Carries(v)
    BY DEF FramesInv
  <2>2. CASE v # w
    <3>1. holder' # v => holder # v
      BY <1>1, Walkers
    <3>2. QED  BY <1>1, <1>4, <1>5, <1>6, <2>1, <2>2, <3>1, CarriesKept
  <2>3. CASE v = w
    <3>1. frame[w][1] = w /\ Numbered(frame[w])'
      BY <1>1, <1>4, <2>1, <2>3, NumberedGrows DEF Carries, InHand
    <3>2. QED  BY <1>1, <1>6, <2>3, <3>1 DEF Carries
  <2>4. QED  BY <2>2, <2>3
<1>9. ASSUME NEW v \in Workers  PROVE Hands(v)'
  <2>1. CASE v # w
    BY <1>1, <2>1 DEF Hands
  <2>2. CASE v = w
    <3>1. \A i \in 1..Len(Observers) : ~Served(w, i)'
      BY <1>1, <1>2, <1>6, ListFacts DEF Served
    <3>2. \A i \in 1..Len(Observers) : frame'[w] \notin Reached(Observers[i])'
      <4>1. \A h \in Guests : frame[w] \notin Reached(h)
        BY <1>1 DEF FramesInv, Carries
      <4>2. QED  BY <1>1, <1>3, <4>1, ListFacts DEF Reached, SameReceived
    <3>3. QED  BY <1>6, <2>2, <3>1, <3>2 DEF Hands
  <2>3. QED  BY <2>1, <2>2
<1>10. SameOrder'
  BY <1>1, <1>3, OrderKept DEF FramesInv
<1>11. QED  BY <1>5, <1>7, <1>8, <1>9, <1>10 DEF FramesInv

\* The walk ends: every guest has received the frame or missed it.
LEMMA FramesUnlock ==
  ASSUME SwitchInvariant, SwitchInvariant', BuffersInv, FrameTypes, FramesInv,
         NEW w \in Workers, Unlock(w)
  PROVE  FramesInv'
<1> USE DEF guest, worker, history, Goto
<1>1. /\ UNCHANGED <<memory, tx, count, missed>>
      /\ pc[w] = "update" /\ observer[w] > Len(Observers) /\ holder' = NoOne
      /\ forwarded' = forwarded \cup {frame[w]}
      /\ frame' = [frame EXCEPT ![w] = NoFrame] /\ observer' = [observer EXCEPT ![w] = 1]
      /\ pc' = [pc EXCEPT ![w] = IF w = Wire THEN "wait" ELSE "return"]
  BY DEF Unlock
<1>2. /\ pc \in [Workers -> {"wait", "test", "lock", "update", "free",
                             "set", "raise", "return", "txset", "txraise"}]
      /\ observer \in [Workers -> 1..(Len(Observers) + 1)]
      /\ frame \in [Workers -> FrameSet] /\ holder = w /\ w # NoOne
      /\ \A v \in Workers : v # NoOne
  BY <1>1, Walkers DEF SwitchInvariant, TypeOK, WorkerTypes, FrameTypes
<1>3. SameReceived
  BY ReceivedKept
<1>4. CountGrows
  BY <1>1 DEF CountGrows, SwitchInvariant, TypeOK, WorkerTypes
<1>5. Learn({}) /\ \A h \in Guests : \A f \in Reached(h)' : Numbered(f)'
  BY <1>1, <1>3, <1>4, NothingLearnt
<1>6. /\ \A v \in Workers : v # w =>
           pc'[v] = pc[v] /\ frame'[v] = frame[v] /\ observer'[v] = observer[v]
      /\ pc'[w] \notin InHand /\ observer'[w] = 1
  BY <1>1, <1>2 DEF InHand
<1>7. ASSUME NEW h \in Guests  PROVE OfferedOf(h)'
  <2>1. h \in Workers /\ OfferedOf(h)
    BY DEF FramesInv, Workers
  <2>2. pc'[h] \in InHand => pc[h] \in InHand /\ frame'[h] = frame[h]
    BY <1>6, <2>1
  <2>3. QED  BY <1>1, <1>4, <1>5, <2>1, <2>2, OfferedKept
<1>8. ASSUME NEW v \in Workers  PROVE Carries(v)'
  <2>1. Carries(v)
    BY DEF FramesInv
  <2>2. CASE v # w
    <3>1. holder # v
      BY <1>2, <2>2
    <3>2. QED  BY <1>4, <1>5, <1>6, <2>1, <2>2, <3>1, CarriesKept
  <2>3. CASE v = w
    BY <1>6, <2>3 DEF Carries, InHand
  <2>4. QED  BY <2>2, <2>3
<1>9. ASSUME NEW v \in Workers  PROVE Hands(v)'
  BY <1>1, <1>2 DEF Hands
<1>10. \A h \in Guests : frame[w] \in ToSet(Received(h)) \cup missed[h]
  <2> TAKE h \in Guests
  <2>1. PICK i \in 1..Len(Observers) : Observers[i] = h
    BY SwitchAssumption
  <2>2. Served(w, i)
    BY <1>1, <1>2, ListFacts DEF Served
  <2>3. frame[w] \in missed[h] \/ LastReceived(h, frame[w])
    BY <1>2, <2>1, <2>2 DEF FramesInv, Hands
  <2>4. CASE LastReceived(h, frame[w])
    <3> DEFINE t == Received(h)
    <3>1. t \in Seq(FrameSet) /\ t # <<>> /\ t[Len(t)] = frame[w]
      BY <2>4, ReceivedType DEF LastReceived
    <3> HIDE DEF t
    <3>2. Len(t) \in 1..Len(t)
      BY <3>1
    <3>3. frame[w] \in ToSet(t)
      BY <3>1, <3>2, Elements
    <3>4. QED  BY <3>3 DEF t
  <2>5. QED  BY <2>3, <2>4
<1>11. SameOrder'
  <2>1. \A h \in Guests : Received(h)' = Received(h) /\ missed'[h] = missed[h]
    BY <1>1, <1>3 DEF SameReceived
  <2>2. SameOrder
    BY DEF FramesInv
  <2>3. QED  BY <1>1, <1>10, <2>1, <2>2 DEF SameOrder
<1>12. QED  BY <1>5, <1>7, <1>8, <1>9, <1>11 DEF FramesInv

\* A sequence without repetition agrees with itself.
LEMMA AgreeSelf ==
  ASSUME NEW s \in Seq(FrameSet), IsInjective(s)
  PROVE  Agree(s, s)
<1>1. DOMAIN s = 1..Len(s) /\ Len(s) \in Nat
  OBVIOUS
<1>2. \A i, j \in 1..Len(s) : s[i] = s[j] => i = j
  BY <1>1 DEF IsInjective
<1>3. QED  BY <1>1, <1>2 DEF Agree

\* A frame that is new in one sequence, and last in the other if it is there.
LEMMA AgreeAppend ==
  ASSUME NEW s \in Seq(FrameSet), NEW t \in Seq(FrameSet), NEW f \in FrameSet,
         Agree(s, t), Agree(t, s), IsInjective(t), f \notin ToSet(s),
         f \in ToSet(t) => t[Len(t)] = f
  PROVE  Agree(Append(s, f), t) /\ Agree(t, Append(s, f))
<1> DEFINE r == Append(s, f)
           m == Len(s)
           n == Len(t)
<1>1. /\ m \in Nat /\ n \in Nat /\ Len(r) = m + 1 /\ DOMAIN r = 1..(m + 1)
      /\ DOMAIN t = 1..n /\ DOMAIN s = 1..m
  OBVIOUS
<1>2. r[m + 1] = f /\ \A i \in 1..m : r[i] = s[i]
  OBVIOUS
<1>3. \A i \in 1..m : s[i] # f
  BY Elements
<1>4. \A k \in 1..n : t[k] = f => k = n
  <2> SUFFICES ASSUME NEW k \in 1..n, t[k] = f  PROVE k = n
    OBVIOUS
  <2>1. f \in ToSet(t)
    BY Elements
  <2>2. n \in 1..n
    BY <1>1
  <2>3. t[n] = t[k]
    BY <2>1
  <2>4. QED  BY <1>1, <2>2, <2>3 DEF IsInjective
<1>5. \A k, l \in 1..n : t[k] = t[l] => k = l
  BY <1>1 DEF IsInjective
<1> HIDE DEF r, m, n
<1>6. Agree(r, t)
  <2> SUFFICES ASSUME NEW i \in 1..(m + 1), NEW j \in 1..(m + 1), NEW k \in 1..n,
                      NEW l \in 1..n, i < j, r[i] = t[k], r[j] = t[l]
               PROVE  k < l
    BY <1>1 DEF Agree
  <2>1. i \in 1..m
    BY <1>1
  <2>2. CASE j = m + 1
    <3>1. l = n /\ k # n
      BY <1>2, <1>3, <1>4, <1>5, <2>1, <2>2
    <3>2. QED  BY <1>1, <3>1
  <2>3. CASE j # m + 1
    <3>1. j \in 1..m
      BY <1>1, <2>3
    <3>2. QED  BY <1>1, <1>2, <2>1, <3>1 DEF Agree
  <2>4. QED  BY <2>2, <2>3
<1>7. Agree(t, r)
  <2> SUFFICES ASSUME NEW k \in 1..n, NEW l \in 1..n, NEW i \in 1..(m + 1),
                      NEW j \in 1..(m + 1), k < l, t[k] = r[i], t[l] = r[j]
               PROVE  i < j
    BY <1>1 DEF Agree
  <2>1. i # m + 1
    <3>1. t[k] # f
      BY <1>1, <1>4
    <3>2. QED  BY <1>2, <3>1
  <2>2. i \in 1..m
    BY <1>1, <2>1
  <2>3. CASE j = m + 1
    BY <1>1, <2>2, <2>3
  <2>4. CASE j # m + 1
    <3>1. j \in 1..m
      BY <1>1, <2>4
    <3>2. QED  BY <1>1, <1>2, <2>2, <3>1 DEF Agree
  <2>5. QED  BY <2>3, <2>4
<1>8. QED  BY <1>6, <1>7 DEF r

\* What stays true of the others, and of the worker's frame, when the worker that
\* has the lock lets guests know of its frame.
LEMMA FramesOthers ==
  ASSUME SwitchInvariant, SwitchInvariant', FramesInv, NEW w \in Workers, holder = w,
         Learn({frame[w]}), UNCHANGED <<tx, frame, holder, count>>,
         \A h \in Guests : memory'[h]["tx"] = memory[h]["tx"],
         \A v \in Workers : v # w => pc'[v] = pc[v] /\ observer'[v] = observer[v],
         pc'[w] \in InHand \ {"lock"}
  PROVE  /\ \A h \in Guests : OfferedOf(h)'
         /\ \A h \in Guests : \A f \in Reached(h)' : Numbered(f)'
         /\ \A v \in Workers : Carries(v)' /\ (v # w => Hands(v)')
<1>1. pc[w] \in InHand /\ frame[w][1] = w /\ Numbered(frame[w])
  BY Walkers DEF FramesInv, Carries, InHand
<1>2. CountGrows
  BY DEF CountGrows, SwitchInvariant, TypeOK, WorkerTypes
<1>3. \A f : Numbered(f) => Numbered(f)'
  BY <1>2, NumberedGrows
<1>4. ASSUME NEW h \in Guests  PROVE OfferedOf(h)'
  <2>1. h \in Workers /\ OfferedOf(h)
    BY DEF FramesInv, Workers
  <2>2. pc'[h] \in InHand => pc[h] \in InHand
    BY <1>1, <2>1
  <2>3. \A f \in {frame[w]} : f[1] # h \/ (pc[h] \in InHand /\ frame[h] = f)
    BY <1>1
  <2>4. QED  BY <1>2, <2>1, <2>2, <2>3, OfferedKept
<1>5. ASSUME NEW v \in Workers, v # w  PROVE Carries(v)' /\ Hands(v)'
  <2>1. Carries(v)
    BY DEF FramesInv
  <2>2. pc[v] = "lock" => frame[v] \notin {frame[w]}
    BY <1>1, <1>5, <2>1 DEF Carries, InHand
  <2>3. Carries(v)'
    BY <1>2, <1>5, <2>1, <2>2, CarriesKept
  <2>4. QED  BY <1>5, <2>3 DEF Hands
<1>6. Carries(w)'
  BY <1>1, <1>3 DEF Carries
<1>7. ASSUME NEW h \in Guests, NEW f \in Reached(h)'  PROVE Numbered(f)'
  BY <1>1, <1>3 DEF FramesInv, Learn
<1>8. QED  BY <1>4, <1>5, <1>6, <1>7

\* The observer that a worker has come to does not know the frame.
LEMMA NextObserver ==
  ASSUME SwitchInvariant, FramesInv, NEW w \in Workers,
         \/ Update(w) /\ observer[w] <= Len(Observers)
         \/ RxFree(w)
  PROVE  /\ holder = w /\ observer[w] \in 1..Len(Observers) /\ Receiver(w) \in Guests
         /\ Receiver(w) = Observers[observer[w]] /\ frame[w] \notin Reached(Receiver(w))
         /\ \A i \in 1..Len(Observers) :
              /\ i # observer[w] => Observers[i] # Receiver(w)
              /\ i < observer[w] =>
                   frame[w] \in missed[Observers[i]] \/ LastReceived(Observers[i], frame[w])
              /\ i > observer[w] => frame[w] \notin Reached(Observers[i])
<1>1. holder = w /\ pc[w] \in {"update", "free"}
  BY Walkers DEF Update, RxFree
<1>2. observer[w] \in 1..Len(Observers) /\ observer[w] \in Int
  BY ListFacts DEF SwitchInvariant, TypeOK, WorkerTypes, HasReceiver, Walking, RxFree
<1>3. Receiver(w) = Observers[observer[w]] /\ Receiver(w) \in Guests
  BY <1>2, ListFacts DEF Receiver
<1>4. \A i \in 1..Len(Observers) : Served(w, i) <=> i < observer[w]
  BY <1>1 DEF Served
<1>5. Hands(w)
  BY DEF FramesInv
<1>6. \A i \in 1..Len(Observers) : i # observer[w] => Observers[i] # Receiver(w)
  BY <1>2, <1>3, SwitchAssumption
<1>7. ~(observer[w] < observer[w])
  BY <1>2
<1>8. frame[w] \notin Reached(Receiver(w))
  BY <1>1, <1>2, <1>3, <1>4, <1>5, <1>7 DEF Hands
<1>9. \A i \in 1..Len(Observers) : i > observer[w] => ~(i < observer[w])
  BY <1>2, ListFacts
<1>10. QED  BY <1>1, <1>2, <1>3, <1>4, <1>5, <1>6, <1>8, <1>9 DEF Hands

\* An observer misses the frame, or the frame is copied into its RX buffer.
LEMMA FramesUpdate ==
  ASSUME SwitchInvariant, SwitchInvariant', BuffersInv, FrameTypes, FramesInv,
         NEW w \in Workers, Update(w)
  PROVE  FramesInv'
<1> USE DEF guest, worker, history, Goto
<1> DEFINE o == observer[w]
           g == Receiver(w)
           f == frame[w]
           id == Alloc(rx[g]).id
<1>1. /\ UNCHANGED <<tx, frame, holder, count, forwarded>>
      /\ pc[w] = "update" /\ o <= Len(Observers)
  BY DEF Update
<1>2. /\ pc \in [Workers -> {"wait", "test", "lock", "update", "free",
                             "set", "raise", "return", "txset", "txraise"}]
      /\ observer \in [Workers -> 1..(Len(Observers) + 1)]
      /\ buffer \in [Workers -> Ids] /\ missed \in [Guests -> SUBSET FrameSet]
      /\ memory \in [Guests -> [{"rx", "tx"} -> [Ids -> FrameSet]]]
  BY DEF SwitchInvariant, TypeOK, WorkerTypes, FrameTypes
<1>3. /\ holder = w /\ o \in 1..Len(Observers) /\ g \in Guests /\ g = Observers[o]
      /\ f \notin Reached(g)
      /\ \A i \in 1..Len(Observers) :
           /\ i # o => Observers[i] # g
           /\ i < o => f \in missed[Observers[i]] \/ LastReceived(Observers[i], f)
           /\ i > o => f \notin Reached(Observers[i])
  BY <1>1, NextObserver
<1>4. SameReceived
  BY ReceivedKept
<1>5. id \in Ids
  BY <1>3, AllocType, GuestRings
<1> HIDE DEF id, f, o, g
<1>6. o \in Nat /\ Len(Observers) \in Nat
  BY <1>3, ListFacts
<1>7. \A i \in 1..Len(Observers) :
         Observers[i] \in Guests
           /\ (LastReceived(Observers[i], f) => LastReceived(Observers[i], frame[w])')
  <2>1. \A h \in Guests : Received(h)' = Received(h)
    BY <1>4 DEF SameReceived
  <2>2. frame'[w] = f
    BY <1>1 DEF f
  <2>3. QED  BY <2>1, <2>2, ListFacts DEF LastReceived
<1>8. CASE ~Available(rx[g])
  <2>1. /\ missed' = [missed EXCEPT ![g] = @ \cup {f}]
        /\ observer' = [observer EXCEPT ![w] = o + 1]
        /\ UNCHANGED <<memory, buffer, pc>>
    BY <1>8 DEF Update, f, o, g
  <2>2. /\ \A h \in Guests : h # g => Reached(h)' = Reached(h) /\ missed'[h] = missed[h]
        /\ Reached(g) \cup {f} = ToSet(Received(g)) \cup missed'[g]
        /\ missed'[g] = missed[g] \cup {f}
    BY <1>2, <1>3, <1>4, <2>1 DEF Reached, SameReceived
  <2>3. \A h \in Guests : h = g => Reached(h)' = Reached(h) \cup {f}
    BY <1>4, <2>2 DEF Reached, SameReceived
  <2>4. Learn({frame[w]})
    BY <2>2, <2>3 DEF Learn, f
  <2>5. observer'[w] = o + 1 /\ pc'[w] = "update"
    BY <1>1, <1>2, <2>1
  <2>6. /\ \A h \in Guests : OfferedOf(h)'
        /\ \A h \in Guests : \A e \in Reached(h)' : Numbered(e)'
        /\ \A v \in Workers : Carries(v)' /\ (v # w => Hands(v)')
    BY <1>1, <1>2, <1>3, <2>1, <2>4, <2>5, FramesOthers DEF InHand
  <2>7. Hands(w)'
    <3>1. \A i \in 1..Len(Observers) : Served(w, i)' <=> i < o \/ i = o
      BY <1>6, <2>5 DEF Served
    <3>2. ASSUME NEW i \in 1..Len(Observers), i < o \/ i = o
          PROVE  f \in missed'[Observers[i]] \/ LastReceived(Observers[i], frame[w])'
      <4>1. CASE i = o
        BY <1>3, <2>2, <4>1
      <4>2. CASE i < o
        <5>1. i # o /\ Observers[i] \in Guests
          BY <1>6, <1>7, <4>2
        <5>2. QED  BY <1>3, <1>7, <2>2, <4>2, <5>1
      <4>3. QED  BY <3>2, <4>1, <4>2
    <3>3. ASSUME NEW i \in 1..Len(Observers), ~(i < o \/ i = o)
          PROVE  f \notin Reached(Observers[i])'
      <4>1. i > o /\ i # o
        BY <1>6, <3>3
      <4>2. QED  BY <1>3, <1>7, <2>2, <4>1
    <3>4. frame'[w] = f
      BY <1>1 DEF f
    <3>5. QED  BY <2>5, <3>1, <3>2, <3>3, <3>4 DEF Hands
  <2>8. SameOrder'
    <3>1. SameOrder
      BY DEF FramesInv
    <3>2. \A h \in Guests : Received(h)' = Received(h) /\ missed[h] \subseteq missed'[h]
      BY <1>4, <2>2 DEF SameReceived
    <3>3. \A h \in Guests : missed'[h] \cap ToSet(Received(h)) = {}
      <4> TAKE h \in Guests
      <4>1. missed[h] \cap ToSet(Received(h)) = {}
        BY <3>1 DEF SameOrder
      <4>2. CASE h = g
        BY <1>3, <2>2, <4>1, <4>2 DEF Reached
      <4>3. CASE h # g
        BY <2>2, <4>1, <4>3
      <4>4. QED  BY <4>2, <4>3
    <3>4. QED  BY <1>1, <3>1, <3>2, <3>3 DEF SameOrder
  <2>9. QED  BY <2>6, <2>7, <2>8 DEF FramesInv
<1>9. CASE Available(rx[g])
  <2>1. /\ memory' = [memory EXCEPT ![g].rx[id] = f]
        /\ buffer' = [buffer EXCEPT ![w] = id] /\ pc' = [pc EXCEPT ![w] = "free"]
        /\ UNCHANGED <<missed, observer>>
    BY <1>9 DEF Update, f, o, g, id
  <2>2. \A h \in Guests : Reached(h)' = Reached(h)
    BY <1>4, <2>1 DEF Reached, SameReceived
  <2>3. /\ Learn({frame[w]}) /\ pc'[w] = "free" /\ buffer'[w] = id
        /\ \A h \in Guests : memory'[h]["tx"] = memory[h]["tx"]
        /\ memory'[g]["rx"][id] = f
    BY <1>2, <1>3, <1>5, <2>1, <2>2 DEF Learn
  <2>4. /\ \A h \in Guests : OfferedOf(h)'
        /\ \A h \in Guests : \A e \in Reached(h)' : Numbered(e)'
        /\ \A v \in Workers : Carries(v)' /\ (v # w => Hands(v)')
    BY <1>1, <1>2, <1>3, <2>1, <2>3, FramesOthers DEF InHand
  <2>5. Hands(w)'
    <3>1. \A i \in 1..Len(Observers) : Served(w, i)' <=> i < o
      BY <2>1, <2>3 DEF Served, o
    <3>2. \A i \in 1..Len(Observers) : ~(i < o) => f \notin Reached(Observers[i])
      <4> TAKE i \in 1..Len(Observers)
      <4>1. CASE i = o
        BY <1>3, <4>1
      <4>2. CASE i > o
        BY <1>3, <4>2
      <4>3. QED  BY <1>6, <4>1, <4>2
    <3>3. frame'[w] = f /\ Receiver(w)' = g
      BY <1>1, <2>1 DEF f, g, Receiver
    <3>4. QED  BY <1>3, <1>7, <2>1, <2>2, <2>3, <3>1, <3>2, <3>3 DEF Hands
  <2>6. SameOrder'
    BY <1>1, <1>4, <2>1, OrderKept DEF FramesInv
  <2>7. QED  BY <2>4, <2>5, <2>6 DEF FramesInv
<1>10. QED  BY <1>8, <1>9

\* The buffer that a worker gives back holds its frame.
LEMMA FrameReceived ==
  ASSUME SwitchInvariant, BuffersInv, FrameTypes, FramesInv, NEW w \in Workers, RxFree(w)
  PROVE  \A h \in Guests :
           Received(h)' = IF h = Receiver(w) THEN Append(Received(h), frame[w]) ELSE Received(h)
<1> USE DEF guest, worker, history
<1> SUFFICES ASSUME NEW h \in Guests
             PROVE  Received(h)' = IF h = Receiver(w) THEN Append(Received(h), frame[w])
                                   ELSE Received(h)
  OBVIOUS
<1> DEFINE R == Returned(rx[h], seen[h].rx)
           f == frame[w]
           b == buffer[w]
           x == FramesIn(h, "rx", R)
<1>1. UNCHANGED <<memory, got, seen>>
  BY DEF RxFree
<1>2. /\ R \in Seq(Ids) /\ b \in Ids /\ f \in FrameSet /\ got[h] \in Seq(FrameSet)
      /\ x \in Seq(FrameSet) /\ Len(x) = Len(R)
      /\ \A i \in 1..Len(R) : x[i] = memory[h]["rx"][R[i]]
  <2>1. R \in Seq(Ids) /\ b \in Ids
    BY GuestRings DEF SwitchInvariant, TypeOK, WorkerTypes
  <2>2. f \in FrameSet /\ got[h] \in Seq(FrameSet)
    BY DEF FrameTypes
  <2>3. QED  BY <2>1, <2>2, FramesInType
<1>3. R' = IF h = Receiver(w) THEN Append(R, b) ELSE R
  BY BuffersRxFree
<1>4. CASE h # Receiver(w)
  BY <1>1, <1>3, <1>4 DEF Received, FramesIn
<1>5. CASE h = Receiver(w)
  <2>1. memory[h]["rx"][b] = f
    <3>1. holder = w /\ pc[w] = "free"
      BY Walkers DEF RxFree
    <3>2. QED  BY <1>5, <3>1 DEF FramesInv, Hands
  <2>2. R' = Append(R, b)
    BY <1>3, <1>5
  <2>3. FramesIn(h, "rx", R)' = [i \in 1..Len(Append(R, b)) |-> memory[h]["rx"][Append(R, b)[i]]]
    BY <1>1, <2>2 DEF FramesIn
  <2> DEFINE S == Append(R, b)
             y == [i \in 1..Len(S) |-> memory[h]["rx"][S[i]]]
  <2>4. Len(S) = Len(R) + 1 /\ S[Len(R) + 1] = b /\ \A i \in 1..Len(R) : S[i] = R[i]
    BY <1>2
  <2>5. Received(h) = got[h] \o x /\ Received(h)' = got[h] \o FramesIn(h, "rx", R)'
    BY <1>1 DEF Received
  <2> HIDE DEF R, S, x, f, b
  <2>6. y = Append(x, f)
    <3>1. DOMAIN y = 1..(Len(x) + 1) /\ Len(x) \in Nat /\ Len(x) = Len(R)
      BY <1>2, <2>4
    <3>2. \A i \in 1..Len(x) : y[i] = x[i]
      BY <1>2, <2>4, <3>1
    <3>3. y[Len(x) + 1] = f
      BY <2>1, <2>4, <3>1
    <3>4. /\ Append(x, f) \in Seq(FrameSet) /\ DOMAIN Append(x, f) = 1..(Len(x) + 1)
          /\ \A i \in 1..Len(x) : Append(x, f)[i] = x[i]
          /\ Append(x, f)[Len(x) + 1] = f
      BY <1>2
    <3> HIDE DEF y
    <3>5. \A i \in 1..(Len(x) + 1) : y[i] = Append(x, f)[i]
      <4> TAKE i \in 1..(Len(x) + 1)
      <4>1. CASE i = Len(x) + 1
        BY <3>3, <3>4, <4>1
      <4>2. CASE i # Len(x) + 1
        <5>1. i \in 1..Len(x)
          BY <3>1, <4>2
        <5>2. QED  BY <3>2, <3>4, <5>1
      <4>3. QED  BY <4>1, <4>2
    <3>6. y \in Seq(FrameSet) /\ Len(y) = Len(x) + 1
      <4>1. \A i \in 1..(Len(x) + 1) : y[i] \in FrameSet
        BY <1>2, <3>1, <3>2, <3>3
      <4>2. y = [i \in 1..(Len(x) + 1) |-> y[i]]
        BY <3>1 DEF y
      <4>3. QED  BY <3>1, <4>1, <4>2
    <3>7. Len(Append(x, f)) = Len(x) + 1
      BY <3>1, <3>4
    <3>8. QED  BY <3>4, <3>5, <3>6, <3>7, SeqEqual
  <2>7. Received(h)' = got[h] \o Append(x, f)
    BY <2>3, <2>5, <2>6 DEF S
  <2>8. got[h] \o Append(x, f) = Append(got[h] \o x, f)
    <3>1. PICK p \in Seq(FrameSet), l \in Seq(FrameSet) : p = got[h] /\ l = <<f>>
      <4>1. f \in FrameSet /\ got[h] \in Seq(FrameSet)
        BY <1>2
      <4>2. <<f>> \in Seq(FrameSet)
        BY <4>1
      <4>3. QED  BY <4>1, <4>2
    <3>2. Append(x, f) = x \o l /\ p \o x \in Seq(FrameSet)
      BY <1>2, <3>1, AppendIsConcat
    <3>3. Append(p \o x, f) = (p \o x) \o l
      BY <1>2, <3>1, <3>2, AppendIsConcat
    <3>4. (p \o x) \o l = p \o (x \o l)
      <4>1. x \in Seq(FrameSet)
        BY <1>2
      <4>2. QED  BY <4>1, ConcatAssociative
    <3>5. QED  BY <3>1, <3>2, <3>3, <3>4
  <2>9. QED  BY <1>5, <2>5, <2>7, <2>8 DEF f
<1>6. QED  BY <1>4, <1>5

\* The observer has received the frame.
LEMMA FramesRxFree ==
  ASSUME SwitchInvariant, SwitchInvariant', BuffersInv, FrameTypes, FramesInv,
         NEW w \in Workers, RxFree(w)
  PROVE  FramesInv'
<1> USE DEF guest, worker, history, Goto
<1> DEFINE o == observer[w]
           g == Receiver(w)
           f == frame[w]
<1>1. /\ UNCHANGED <<memory, tx, frame, holder, count, forwarded, missed, observer, buffer>>
      /\ pc' = [pc EXCEPT ![w] = "set"]
  BY DEF RxFree
<1>2. /\ pc \in [Workers -> {"wait", "test", "lock", "update", "free",
                             "set", "raise", "return", "txset", "txraise"}]
      /\ f \in FrameSet
  BY DEF SwitchInvariant, TypeOK, WorkerTypes, FrameTypes
<1>3. /\ holder = w /\ o \in 1..Len(Observers) /\ g \in Guests /\ g = Observers[o]
      /\ f \notin Reached(g)
      /\ \A i \in 1..Len(Observers) :
           /\ i # o => Observers[i] # g
           /\ i < o => f \in missed[Observers[i]] \/ LastReceived(Observers[i], f)
           /\ i > o => f \notin Reached(Observers[i])
  BY NextObserver
<1>4. \A h \in Guests : Received(h)' = IF h = g THEN Append(Received(h), f) ELSE Received(h)
  BY FrameReceived
<1>5. \A h \in Guests : Received(h) \in Seq(FrameSet)
  BY ReceivedType
<1>6. \A h \in Guests : ToSet(Append(Received(h), f)) = ToSet(Received(h)) \cup {f}
  BY <1>2, <1>5, AppendElements
<1>7. /\ \A h \in Guests : h # g => Reached(h)' = Reached(h)
      /\ \A h \in Guests : h = g => Reached(h)' = Reached(h) \cup {f}
  BY <1>1, <1>4, <1>6 DEF Reached
<1>8. (\A v \in Workers : v # w => pc'[v] = pc[v]) /\ pc'[w] = "set"
  BY <1>1, <1>2
<1>9. frame'[w] = f /\ observer'[w] = o /\ Observers[o] = g
  BY <1>1, <1>3
<1> HIDE DEF f, o, g
<1>10. o \in Nat /\ Len(Observers) \in Nat
  BY <1>3, ListFacts
<1>11. /\ \A h \in Guests : OfferedOf(h)'
       /\ \A h \in Guests : \A e \in Reached(h)' : Numbered(e)'
       /\ \A v \in Workers : Carries(v)' /\ (v # w => Hands(v)')
  <2>1. Learn({frame[w]})
    BY <1>7 DEF Learn, f
  <2>2. QED  BY <1>1, <1>3, <1>8, <2>1, FramesOthers DEF InHand
<1>12. \A h \in Guests : h = g => LastReceived(h, frame[w])'
  <2> SUFFICES ASSUME NEW h \in Guests, h = g  PROVE LastReceived(h, frame[w])'
    OBVIOUS
  <2> DEFINE s == Received(h)
  <2>1. Received(h)' = Append(s, f) /\ s \in Seq(FrameSet)
    BY <1>4, <1>5
  <2> HIDE DEF s
  <2>2. Append(s, f) # <<>> /\ Append(s, f)[Len(Append(s, f))] = f
    BY <1>2, <2>1
  <2>3. QED  BY <1>9, <2>1, <2>2 DEF LastReceived
<1>13. Hands(w)'
  <2>1. \A i \in 1..Len(Observers) : Served(w, i)' <=> i < o \/ i = o
    BY <1>8, <1>9 DEF Served
  <2>2. ASSUME NEW i \in 1..Len(Observers), i < o \/ i = o
        PROVE  frame'[w] \in missed'[Observers[i]] \/ LastReceived(Observers[i], frame[w])'
    <3>1. CASE i = o
      BY <1>3, <1>12, <3>1
    <3>2. CASE i < o
      <4>1. i # o
        BY <1>10, <3>2
      <4>2. Observers[i] \in Guests /\ Observers[i] # g
        BY <1>3, <4>1, ListFacts
      <4>3. Received(Observers[i])' = Received(Observers[i])
        BY <1>4, <4>2
      <4>4. f \in missed[Observers[i]] \/ LastReceived(Observers[i], f)
        BY <1>3, <3>2
      <4>5. QED  BY <1>1, <1>9, <4>3, <4>4 DEF LastReceived
    <3>3. QED  BY <2>2, <3>1, <3>2
  <2>3. ASSUME NEW i \in 1..Len(Observers), ~(i < o \/ i = o)
        PROVE  frame'[w] \notin Reached(Observers[i])'
    <3>1. i > o /\ i # o
      BY <1>10, <2>3
    <3>2. Observers[i] \in Guests /\ Observers[i] # g /\ f \notin Reached(Observers[i])
      BY <1>3, <3>1, ListFacts
    <3>3. QED  BY <1>7, <1>9, <3>2
  <2>4. QED  BY <1>8, <2>1, <2>2, <2>3 DEF Hands
<1>14. ASSUME NEW h \in Guests
       PROVE  /\ IsInjective(Received(h)') /\ missed'[h] \cap ToSet(Received(h)') = {}
              /\ \A e \in forwarded' : e \in ToSet(Received(h)') \cup missed'[h]
  <2>1. /\ IsInjective(Received(h)) /\ missed[h] \cap ToSet(Received(h)) = {}
        /\ \A e \in forwarded : e \in ToSet(Received(h)) \cup missed[h]
    BY DEF FramesInv, SameOrder
  <2>2. CASE h # g
    <3>1. Received(h)' = Received(h)
      BY <1>4, <2>2
    <3>2. QED  BY <1>1, <2>1, <3>1
  <2>3. CASE h = g
    <3>1. Received(h)' = Append(Received(h), f)
      BY <1>4, <2>3
    <3>2. f \notin ToSet(Received(h)) /\ f \notin missed[h]
      BY <1>3, <2>3 DEF Reached
    <3>3. IsInjective(Append(Received(h), f))
      BY <1>2, <1>5, <2>1, <3>2, AppendElements
    <3>4. ToSet(Received(h)') = ToSet(Received(h)) \cup {f}
      BY <1>6, <3>1
    <3>5. QED  BY <1>1, <2>1, <3>1, <3>2, <3>3, <3>4
  <2>4. QED  BY <2>2, <2>3
<1>15. ASSUME NEW h \in Guests, h # g
       PROVE  /\ Agree(Append(Received(g), f), Received(h))
              /\ Agree(Received(h), Append(Received(g), f))
  <2> DEFINE s == Received(g)
             t == Received(h)
  <2>1. s \in Seq(FrameSet) /\ t \in Seq(FrameSet)
    BY <1>3, <1>5
  <2>2. Agree(s, t) /\ Agree(t, s) /\ IsInjective(t)
    BY <1>3 DEF FramesInv, SameOrder
  <2>3. f \notin ToSet(s)
    BY <1>3 DEF Reached
  <2>4. f \in ToSet(t) => t[Len(t)] = f
    <3> SUFFICES ASSUME f \in ToSet(t)  PROVE t[Len(t)] = f
      OBVIOUS
    <3>1. PICK i \in 1..Len(Observers) : Observers[i] = h
      BY SwitchAssumption
    <3>2. f \in Reached(h) /\ f \notin missed[h]
      BY DEF Reached, FramesInv, SameOrder
    <3>3. i # o /\ ~(i > o)
      BY <1>3, <1>15, <3>1, <3>2
    <3>4. i < o
      BY <1>10, <3>3
    <3>5. LastReceived(h, f)
      BY <1>3, <3>1, <3>2, <3>4
    <3>6. QED  BY <3>5 DEF LastReceived
  <2> HIDE DEF s, t
  <2>5. Agree(Append(s, f), t) /\ Agree(t, Append(s, f))
    BY <1>2, <2>1, <2>2, <2>3, <2>4, AgreeAppend
  <2>6. QED  BY <2>5 DEF s, t
<1>16. ASSUME NEW h \in Guests, NEW k \in Guests  PROVE Agree(Received(h)', Received(k)')
  <2>1. CASE h = g /\ k = g
    <3> DEFINE s == Append(Received(g), f)
    <3>1. s \in Seq(FrameSet) /\ Received(h)' = s /\ Received(k)' = s
      BY <1>2, <1>4, <1>5, <2>1
    <3>2. IsInjective(s)
      BY <1>14, <3>1
    <3> HIDE DEF s
    <3>3. QED  BY <3>1, <3>2, AgreeSelf
  <2>2. CASE h = g /\ k # g
    BY <1>4, <1>15, <2>2
  <2>3. CASE h # g /\ k = g
    BY <1>4, <1>15, <2>3
  <2>4. CASE h # g /\ k # g
    <3>1. Received(h)' = Received(h) /\ Received(k)' = Received(k)
      BY <1>4, <2>4
    <3>2. Agree(Received(h), Received(k))
      BY DEF FramesInv, SameOrder
    <3>3. QED  BY <3>1, <3>2
  <2>5. QED  BY <2>1, <2>2, <2>3, <2>4
<1>17. SameOrder'
  BY <1>14, <1>16 DEF SameOrder
<1>18. QED  BY <1>11, <1>13, <1>17 DEF FramesInv

\* At first no frame has been sent.
LEMMA FramesInit ==
  ASSUME SwitchInvariant, BuffersInv, Init  PROVE FrameTypes /\ FramesInv
<1>1. FrameTypes
  <2>1. NoFrame \in FrameSet
    BY DEF NoFrame, FrameSet
  <2>2. QED  BY <2>1 DEF Init, FrameTypes
<1>2. /\ forwarded = {} /\ holder = NoOne /\ \A g \in Guests : got[g] = <<>> /\ missed[g] = {}
      /\ \A w \in Workers : pc[w] = "wait" /\ observer[w] = 1 /\ w # NoOne
  BY Walkers DEF Init
<1>3. \A g \in Guests : Received(g) = <<>>
  <2> TAKE g \in Guests
  <2>1. rx[g].used = seen[g].rx
    BY DEF Init, EmptyQueue
  <2>2. Returned(rx[g], seen[g].rx) = <<>>
    BY <2>1, AllSeen, GuestRings
  <2>3. FramesIn(g, "rx", <<>>) = <<>>
    BY DEF FramesIn
  <2>4. QED  BY <1>2, <2>2, <2>3 DEF Received
<1>4. ToSet(<<>>) = {} /\ IsInjective(<<>>) /\ Agree(<<>>, <<>>)
  BY DEF ToSet, IsInjective, Agree
<1>5. \A h \in Guests : Reached(h) = {}
  BY <1>2, <1>3, <1>4 DEF Reached
<1>6. \A g \in Guests : ToSet(Waiting(tx[g])) = {}
  <2> TAKE g \in Guests
  <2>1. TxOnce(g) /\ spare[g] = Ids
    BY DEF BuffersInv, Init
  <2>2. QED  BY <2>1 DEF TxOnce, Once
<1>7. \A g \in Guests : OfferedOf(g)
  BY <1>6 DEF OfferedOf
<1>8. \A w \in Workers : Carries(w) /\ Hands(w)
  BY <1>2 DEF Carries, Hands, InHand
<1>9. SameOrder
  BY <1>2, <1>3, <1>4 DEF SameOrder
<1>10. QED  BY <1>1, <1>5, <1>7, <1>8, <1>9 DEF FramesInv

\* Every step keeps the frames in order.
LEMMA FramesNext ==
  ASSUME SwitchInvariant, SwitchInvariant', BuffersInv, FrameTypes, FramesInv, [Next]_vars
  PROVE  FramesInv'
<1>1. ASSUME NEW g \in Guests, Post(g) \/ Notify(g) \/ HandlerStep(g) \/ DeviceStep(g)
      PROVE  FramesInv'
  BY <1>1, FramesPost, FramesTest, FramesGuest DEF DeviceStep
<1>2. CASE Arrive
  BY <1>2, FramesArrive
<1>3. ASSUME NEW w \in Workers, Lock(w) \/ Forward(w)  PROVE FramesInv'
  BY <1>3, FramesLock, FramesUpdate, FramesRxFree, FramesRaise, FramesUnlock DEF Forward
<1>4. CASE UNCHANGED vars
  <2>1. UNCHANGED <<tx, memory, pc, frame, observer, buffer, holder, count, missed, forwarded>>
    BY <1>4 DEF vars, worker, history
  <2>2. SameReceived
    BY <1>4, ReceivedKept
  <2>3. CountGrows
    BY <2>1 DEF CountGrows, SwitchInvariant, TypeOK, WorkerTypes
  <2>4. Learn({}) /\ \A h \in Guests : \A f \in Reached(h)' : Numbered(f)'
    BY <2>1, <2>2, <2>3, NothingLearnt
  <2>5. ASSUME NEW h \in Guests  PROVE OfferedOf(h)'
    BY <2>1, <2>3, <2>4, OfferedKept DEF FramesInv
  <2>6. ASSUME NEW w \in Workers  PROVE Carries(w)' /\ Hands(w)'
    BY <2>1, <2>2, <2>3, <2>4, CarriesKept, HandsKept DEF FramesInv
  <2>7. SameOrder'
    BY <2>1, <2>2, OrderKept DEF FramesInv
  <2>8. QED  BY <2>4, <2>5, <2>6, <2>7 DEF FramesInv
<1>5. QED  BY <1>1, <1>2, <1>3, <1>4 DEF Next

\* SameOrder: guests that receive the same frames receive them in the same order,
\* each once (VirtualSwitch.hpp:21-34, Network.hpp:41-62).
THEOREM FramesInOneOrder == Spec => []SameOrder
<1>1. Init /\ SwitchInvariant /\ BuffersInv => FrameTypes /\ FramesInv
  BY FramesInit
<1>2. SwitchInvariant /\ SwitchInvariant' /\ BuffersInv /\ FrameTypes /\ FramesInv
        /\ [Next]_vars => FrameTypes' /\ FramesInv'
  BY FrameTypesNext, FramesNext
<1>3. FramesInv => SameOrder
  BY DEF FramesInv
<1>4. QED  BY <1>1, <1>2, <1>3, SwitchInvariantHolds, BuffersHold, PTL DEF Spec
=============================================================================
