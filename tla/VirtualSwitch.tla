--------------------------- MODULE VirtualSwitch ---------------------------
(***************************************************************************)
(* Guests whose virtio network devices (hypervisor/virtio/Network.hpp) are *)
(* attached to one VirtualSwitch over a network device.  A guest shares    *)
(* two split rings (Queue.hpp) with its device: TX, which a host thread of *)
(* the device empties, and RX, which whoever forwards a frame fills.  The  *)
(* interrupt controller is a pending bit here; VirtualInterrupts has what  *)
(* happens between it and the guest.  The driver is not part of the        *)
(* repository: it offers buffers, notifies, and takes the used buffers     *)
(* back in its interrupt handler, after it has acknowledged.               *)
(***************************************************************************)
EXTENDS Integers, FiniteSets, Sequences, SequencesExt

CONSTANTS
  Guests,
  Wire,       \* the worker of the network device (NetworkDevice::worker)
  Observers,  \* the list of attached devices, a sequence of all guests
  Size,       \* m_size
  Modulus,    \* 2^16: ring indices are uint16_t
  Start,      \* buffers that each ring has already carried (bound)
  Frames,     \* bound: [Guests \cup {Wire} -> Nat] frames that each sends
  NoOne

Workers == Guests \cup {Wire}

ASSUME SwitchAssumption ==
  /\ IsFiniteSet(Guests) /\ Wire \notin Guests /\ NoOne \notin Workers
  /\ Observers \in Seq(Guests)
  /\ \A g \in Guests : \E i \in 1..Len(Observers) : Observers[i] = g
  /\ \A i, j \in 1..Len(Observers) : Observers[i] = Observers[j] => i = j
  /\ Size \in Nat \ {0} /\ Modulus \in Nat \ {0}
  /\ Size < Modulus /\ Modulus % Size = 0
  /\ Start \in Nat
  /\ Frames \in [Workers -> Nat]

Ids == 0..(Size - 1)
NoFrame == <<NoOne, 0>>

VARIABLES
  tx, rx,     \* [Guests] the rings: available and used index, last_available
  memory,     \* [Guests] what the RX buffers and the TX buffers hold
  seen,       \* [Guests] the driver's own used index of either ring
  driver,     \* [Guests] "run", or control point of its interrupt handler
  spare,      \* [Guests] TX buffers that the driver may fill
  unnotified, \* [Guests] has the driver offered a frame and not notified yet
  status,     \* [Guests] interrupt_status, bit 0; no other bit is ever set
  irq,        \* [Guests] interrupt pending at the virtual PLIC
  permits,    \* [Guests] value of semaphore_
  pc,         \* [Workers] control point
  frame,      \* [Workers] the frame in hand
  observer,   \* [Workers] position in Observers
  buffer,     \* [Workers] RX buffer that update has taken
  holder,     \* lock_
  count,      \* [Workers] frames sent so far (bound)
  got,        \* [Guests] frames that the driver has received (history)
  forwarded,  \* frames that notify has handed round (history)
  missed      \* [Guests] frames that found no RX buffer (history)

guest == <<seen, driver, spare, unnotified>>
worker == <<pc, frame, observer, buffer>>
history == <<got, forwarded, missed>>
vars == <<tx, rx, memory, guest, status, irq, permits, worker, holder, count, history>>

-----------------------------------------------------------------------------
(* Queue.                                                                  *)

Next16(i) == (i + 1) % Modulus

Available(q) == q.last # q.available

\* Mutant: the device counts in more than 16 bits.
AllocWide(q) ==
  [id |-> q.ring[q.last % Size], queue |-> [q EXCEPT !.last = @ + 1]]

Alloc(q) ==
  [id |-> q.ring[q.last % Size], queue |-> [q EXCEPT !.last = Next16(@)]]

\* Mutant: the index is counted up before the entry is written.
FreeAfter(q, id) ==
  [q EXCEPT !.used = Next16(@), !.done[Next16(q.used) % Size] = id]

Free(q, id) ==
  [q EXCEPT !.done[q.used % Size] = id, !.used = Next16(@)]

\* The driver puts buffers into the ring, from the available index on.
Offer(q, ids) ==
  LET position(p) == ((p - q.available) % Size) + 1
  IN [q EXCEPT !.available = (@ + Len(ids)) % Modulus,
               !.ring = [p \in Ids |-> IF position(p) <= Len(ids) THEN ids[position(p)]
                                                                ELSE q.ring[p]]]

\* The used buffers that a driver that has seen those below s takes back.
Returned(q, s) ==
  [i \in 1..((q.used - s) % Modulus) |-> q.done[(s + i - 1) % Size]]

\* The buffers in the available ring that the device has not taken.
Waiting(q) ==
  [i \in 1..((q.available - q.last) % Modulus) |-> q.ring[(q.last + i - 1) % Size]]

-----------------------------------------------------------------------------
EmptyQueue ==
  LET index == Start % Modulus
  IN [available |-> index, last |-> index, used |-> index,
      ring |-> [i \in Ids |-> i], done |-> [i \in Ids |-> i]]

\* The driver has set up both rings and offered every RX buffer; nothing is
\* under way after the first Start buffers.
Init ==
  /\ tx = [g \in Guests |-> EmptyQueue]
  /\ rx = [g \in Guests |-> [EmptyQueue EXCEPT !.available = (@ + Size) % Modulus]]
  /\ memory = [g \in Guests |-> [queue \in {"rx", "tx"} |-> [i \in Ids |-> NoFrame]]]
  /\ seen = [g \in Guests |-> [rx |-> Start % Modulus, tx |-> Start % Modulus]]
  /\ driver = [g \in Guests |-> "run"]
  /\ spare = [g \in Guests |-> Ids]
  /\ unnotified = [g \in Guests |-> FALSE]
  /\ status = [g \in Guests |-> 0]
  /\ irq = [g \in Guests |-> FALSE]
  /\ permits = [g \in Guests |-> 0]
  /\ pc = [w \in Workers |-> "wait"]
  /\ frame = [w \in Workers |-> NoFrame]
  /\ observer = [w \in Workers |-> 1]
  /\ buffer = [w \in Workers |-> 0]
  /\ holder = NoOne
  /\ count = [w \in Workers |-> 0]
  /\ got = [g \in Guests |-> <<>>]
  /\ forwarded = {}
  /\ missed = [g \in Guests |-> {}]

-----------------------------------------------------------------------------
(* The guest.                                                              *)

FramesIn(g, queue, ids) == [i \in 1..Len(ids) |-> memory[g][queue][ids[i]]]

\* The driver offers a frame in its first spare buffer.
Post(g) ==
  /\ driver[g] = "run" /\ count[g] < Frames[g]
  /\ \E id \in spare[g] :
       /\ \A i \in spare[g] : id <= i
       /\ spare' = [spare EXCEPT ![g] = @ \ {id}]
       /\ memory' = [memory EXCEPT ![g].tx[id] = <<g, count[g] + 1>>]
       /\ tx' = [tx EXCEPT ![g] = Offer(@, <<id>>)]
  /\ count' = [count EXCEPT ![g] = @ + 1]
  /\ unnotified' = [unnotified EXCEPT ![g] = TRUE]
  /\ UNCHANGED <<rx, seen, driver, status, irq, permits, worker, holder, history>>

\* The driver writes QueueNotify: Network::notify.
Notify(g) ==
  /\ driver[g] = "run" /\ unnotified[g]
  /\ unnotified' = [unnotified EXCEPT ![g] = FALSE]
  /\ permits' = [permits EXCEPT ![g] = @ + 1]
  /\ UNCHANGED <<tx, rx, memory, seen, driver, spare, status, irq, worker, holder,
                 count, history>>

Handler(g, from, to) ==
  /\ driver[g] = from
  /\ driver' = [driver EXCEPT ![g] = to]

\* The guest takes the interrupt: VirtualPLIC::claim.
Claim(g) ==
  /\ Handler(g, "run", "status")
  /\ irq[g]
  /\ irq' = [irq EXCEPT ![g] = FALSE]
  /\ UNCHANGED <<tx, rx, memory, seen, spare, unnotified, status, permits, worker,
                 holder, count, history>>

\* It reads InterruptStatus, and leaves the handler when nothing is set.
ReadStatus(g) ==
  /\ Handler(g, "status", IF status[g] = 1 THEN "ack" ELSE "run")
  /\ UNCHANGED <<tx, rx, memory, seen, spare, unnotified, status, irq, permits,
                 worker, holder, count, history>>

\* It writes InterruptAck: of interrupt() &= ~value only the store matters,
\* since the result is 0 whatever has been loaded.
Acknowledge(g) ==
  /\ Handler(g, "ack", "collect")
  /\ status' = [status EXCEPT ![g] = 0]
  /\ UNCHANGED <<tx, rx, memory, seen, spare, unnotified, irq, permits, worker,
                 holder, count, history>>

\* It takes the used buffers of both rings and offers the RX buffers again.
Collect(g) ==
  LET sentBack == Returned(tx[g], seen[g].tx)
      received == Returned(rx[g], seen[g].rx)
  IN /\ Handler(g, "collect", "run")
     /\ spare' = [spare EXCEPT ![g] = @ \cup ToSet(sentBack)]
     /\ got' = [got EXCEPT ![g] = @ \o FramesIn(g, "rx", received)]
     /\ rx' = [rx EXCEPT ![g] = Offer(@, received)]
     /\ seen' = [seen EXCEPT ![g] = [rx |-> rx[g].used, tx |-> tx[g].used]]
     /\ UNCHANGED <<tx, memory, unnotified, status, irq, permits, worker, holder,
                    count, forwarded, missed>>

-----------------------------------------------------------------------------
(* Network::worker of the guest's device, and NetworkDevice::worker.       *)

Goto(w, l) == pc' = [pc EXCEPT ![w] = l]

\* semaphore_.p()
P(g) ==
  /\ pc[g] = "wait" /\ permits[g] > 0
  /\ permits' = [permits EXCEPT ![g] = @ - 1]
  /\ Goto(g, "test")
  /\ UNCHANGED <<tx, rx, memory, guest, status, irq, frame, observer, buffer, holder,
                 count, history>>

\* while (queue.available()) alloc, and process up to VirtualSwitch::send.
Test(g) ==
  /\ pc[g] = "test"
  /\ \/ /\ ~Available(tx[g])
        /\ Goto(g, "wait")
        /\ UNCHANGED <<tx, frame>>
     \/ /\ Available(tx[g])
        /\ LET taken == Alloc(tx[g])
           IN /\ tx' = [tx EXCEPT ![g] = taken.queue]
              /\ frame' = [frame EXCEPT ![g] = memory[g].tx[taken.id]]
        /\ Goto(g, "lock")
  /\ UNCHANGED <<rx, memory, guest, status, irq, permits, observer, buffer, holder,
                 count, history>>

\* A frame arrives from outside: VirtualSwitch::update.
Arrive ==
  /\ pc[Wire] = "wait" /\ count[Wire] < Frames[Wire]
  /\ count' = [count EXCEPT ![Wire] = @ + 1]
  /\ frame' = [frame EXCEPT ![Wire] = <<Wire, count[Wire] + 1>>]
  /\ Goto(Wire, "lock")
  /\ UNCHANGED <<tx, rx, memory, guest, status, irq, permits, observer, buffer, holder,
                 history>>

\* Mutant: lock_ is not taken.
LockNothing(w) ==
  /\ pc[w] = "lock"
  /\ Goto(w, "update")
  /\ UNCHANGED <<tx, rx, memory, guest, status, irq, permits, frame, observer, buffer,
                 holder, count, history>>

\* lock_.acquire().
Lock(w) ==
  /\ pc[w] = "lock" /\ holder = NoOne
  /\ holder' = w
  /\ Goto(w, "update")
  /\ UNCHANGED <<tx, rx, memory, guest, status, irq, permits, frame, observer, buffer,
                 count, history>>

Receiver(w) == Observers[observer[w]]

\* Network::update up to memcpy.
Update(w) ==
  /\ pc[w] = "update" /\ observer[w] <= Len(Observers)
  /\ LET g == Receiver(w)
         taken == Alloc(rx[g])
     IN \/ /\ ~Available(rx[g])
           /\ missed' = [missed EXCEPT ![g] = @ \cup {frame[w]}]
           /\ observer' = [observer EXCEPT ![w] = @ + 1]
           /\ UNCHANGED <<rx, memory, buffer, pc>>
        \/ /\ Available(rx[g])
           /\ rx' = [rx EXCEPT ![g] = taken.queue]
           /\ memory' = [memory EXCEPT ![g].rx[taken.id] = frame[w]]
           /\ buffer' = [buffer EXCEPT ![w] = taken.id]
           /\ Goto(w, "free")
           /\ UNCHANGED <<missed, observer>>
  /\ UNCHANGED <<tx, guest, status, irq, permits, frame, holder, count, got, forwarded>>

RxFree(w) ==
  /\ pc[w] = "free"
  /\ rx' = [rx EXCEPT ![Receiver(w)] = Free(@, buffer[w])]
  /\ Goto(w, "set")
  /\ UNCHANGED <<tx, memory, guest, status, irq, permits, frame, observer, buffer, holder,
                 count, history>>

\* Mutant: the interrupt is raised first.
RxSetLast(w) ==
  /\ pc[w] \in {"set", "raise"}
  /\ \/ /\ pc[w] = "set"
        /\ irq' = [irq EXCEPT ![Receiver(w)] = TRUE]
        /\ Goto(w, "raise")
        /\ UNCHANGED <<status, observer>>
     \/ /\ pc[w] = "raise"
        /\ status' = [status EXCEPT ![Receiver(w)] = 1]
        /\ observer' = [observer EXCEPT ![w] = @ + 1]
        /\ Goto(w, "update")
        /\ UNCHANGED irq
  /\ UNCHANGED <<tx, rx, memory, guest, permits, frame, buffer, holder, count, history>>

\* interrupt() |= 1: again only the store matters.
RxSet(w) ==
  /\ pc[w] = "set"
  /\ status' = [status EXCEPT ![Receiver(w)] = 1]
  /\ Goto(w, "raise")
  /\ UNCHANGED <<tx, rx, memory, guest, irq, permits, frame, observer, buffer, holder,
                 count, history>>

\* owner_.interrupt(IRQ), and the next observer.
RxRaise(w) ==
  /\ pc[w] = "raise"
  /\ irq' = [irq EXCEPT ![Receiver(w)] = TRUE]
  /\ observer' = [observer EXCEPT ![w] = @ + 1]
  /\ Goto(w, "update")
  /\ UNCHANGED <<tx, rx, memory, guest, status, permits, frame, buffer, holder, count,
                 history>>

\* lock_.release(), and for a frame from outside the end of VirtualSwitch::update.
Unlock(w) ==
  /\ pc[w] = "update" /\ observer[w] > Len(Observers)
  /\ holder' = NoOne
  /\ forwarded' = forwarded \cup {frame[w]}
  /\ frame' = [frame EXCEPT ![w] = NoFrame]
  /\ observer' = [observer EXCEPT ![w] = 1]
  /\ buffer' = [buffer EXCEPT ![w] = 0]
  /\ Goto(w, IF w = Wire THEN "wait" ELSE "return")
  /\ UNCHANGED <<tx, rx, memory, guest, status, irq, permits, count, got, missed>>

\* device_->send, and queue.free in the worker of the guest's device.
TxFree(g) ==
  /\ pc[g] = "return"
  /\ tx' = [tx EXCEPT ![g] = Free(@, @.ring[(@.last - 1) % Size])]
  /\ Goto(g, "txset")
  /\ UNCHANGED <<rx, memory, guest, status, irq, permits, frame, observer, buffer, holder,
                 count, history>>

\* interrupt() |= 1.
TxSet(g) ==
  /\ pc[g] = "txset"
  /\ status' = [status EXCEPT ![g] = 1]
  /\ Goto(g, "txraise")
  /\ UNCHANGED <<tx, rx, memory, guest, irq, permits, frame, observer, buffer, holder,
                 count, history>>

\* Mutant: one frame for each notification.
TxRaiseOnce(g) ==
  /\ pc[g] = "txraise"
  /\ irq' = [irq EXCEPT ![g] = TRUE]
  /\ Goto(g, "wait")
  /\ UNCHANGED <<tx, rx, memory, guest, status, permits, frame, observer, buffer, holder,
                 count, history>>

\* owner_.interrupt(IRQ).
TxRaise(g) ==
  /\ pc[g] = "txraise"
  /\ irq' = [irq EXCEPT ![g] = TRUE]
  /\ Goto(g, "test")
  /\ UNCHANGED <<tx, rx, memory, guest, status, permits, frame, observer, buffer, holder,
                 count, history>>

-----------------------------------------------------------------------------
HandlerStep(g) == Claim(g) \/ ReadStatus(g) \/ Acknowledge(g) \/ Collect(g)

Forward(w) ==
  Update(w) \/ RxFree(w) \/ RxSet(w) \/ RxRaise(w) \/ Unlock(w)

DeviceStep(g) == P(g) \/ Test(g) \/ TxFree(g) \/ TxSet(g) \/ TxRaise(g)

Next ==
  \/ \E g \in Guests : Post(g) \/ Notify(g) \/ HandlerStep(g) \/ DeviceStep(g)
  \/ Arrive
  \/ \E w \in Workers : Lock(w) \/ Forward(w)

Spec == Init /\ [][Next]_vars

-----------------------------------------------------------------------------
QueueType ==
  [available : 0..(Modulus - 1), last : 0..(Modulus - 1), used : 0..(Modulus - 1),
   ring : [Ids -> Ids], done : [Ids -> Ids]]

RingTypes ==
  /\ tx \in [Guests -> QueueType] /\ rx \in [Guests -> QueueType]
  /\ seen \in [Guests -> [rx : 0..(Modulus - 1), tx : 0..(Modulus - 1)]]

DriverTypes ==
  /\ driver \in [Guests -> {"run", "status", "ack", "collect"}]
  /\ spare \in [Guests -> SUBSET Ids]
  /\ unnotified \in [Guests -> BOOLEAN]
  /\ status \in [Guests -> {0, 1}]
  /\ irq \in [Guests -> BOOLEAN]
  /\ permits \in [Guests -> Nat]

WorkerTypes ==
  /\ pc \in [Workers -> {"wait", "test", "lock", "update", "free", "set", "raise",
                         "return", "txset", "txraise"}]
  /\ observer \in [Workers -> 1..(Len(Observers) + 1)]
  /\ buffer \in [Workers -> Ids]
  /\ count \in [Workers -> Nat]
  /\ holder \in Workers \cup {NoOne}
  /\ \A w \in Workers :
       pc[w] \in {"update", "free", "set", "raise"} <=> holder = w

\* Every variable keeps its type, and lock_ is held by whoever walks the list.
TypeOK == RingTypes /\ DriverTypes /\ WorkerTypes

\* The buffers that RX and TX lend to the device and get back: each is in one
\* place only, whatever the ring indices have wrapped around to, and no buffer
\* is lost (Queue.hpp:57, 64-70).
Lent(g) ==
  Waiting(rx[g]) \o Returned(rx[g], seen[g].rx)
    \o (IF holder # NoOne /\ pc[holder] = "free" /\ Receiver(holder) = g
        THEN <<buffer[holder]>> ELSE <<>>)

Sent(g) ==
  Waiting(tx[g]) \o Returned(tx[g], seen[g].tx)
    \o (IF pc[g] \in {"wait", "test", "txset", "txraise"} THEN <<>>
        ELSE <<tx[g].ring[(tx[g].last - 1) % Size]>>)

EachBufferOnce ==
  \A g \in Guests :
    /\ Len(Lent(g)) = Size /\ ToSet(Lent(g)) = Ids
    /\ Len(Sent(g)) + Cardinality(spare[g]) = Size
    /\ ToSet(Sent(g)) = Ids \ spare[g]

\* What guest g has received, with what lies in its used ring.
Received(g) == got[g] \o FramesIn(g, "rx", Returned(rx[g], seen[g].rx))

\* What is in both sequences is in the same order in both.
Agree(s, t) ==
  \A i, j \in DOMAIN s, k, l \in DOMAIN t :
    i < j /\ s[i] = t[k] /\ s[j] = t[l] => k < l

\* A frame that the switch has handed round is received once by every guest
\* that had a buffer for it, the sender included, and two guests that receive
\* the same frames receive them in the same order (VirtualSwitch.hpp:21-34,
\* Network.hpp:41-62).
SameOrder ==
  /\ \A g \in Guests :
       /\ IsInjective(Received(g))
       /\ \A f \in forwarded : f \in ToSet(Received(g)) \cup missed[g]
       /\ missed[g] \cap ToSet(Received(g)) = {}
  /\ \A g, h \in Guests : Agree(Received(g), Received(h))

\* Someone has put a buffer into a used ring of g and has not yet raised the
\* interrupt for it.
Raising(g) ==
  \/ pc[g] \in {"txset", "txraise"}
  \/ holder # NoOne /\ pc[holder] \in {"set", "raise"} /\ Receiver(holder) = g

\* No completion is lost, although the setting of interrupt_status by two
\* threads and its acknowledgement by the guest are neither atomic nor ordered:
\* a guest that is not in its handler, with no interrupt pending and nobody
\* about to raise one, has taken back every buffer of its used rings
\* (Network.hpp:59-61, 78-80, Handler.hpp:74).
NoLostCompletion ==
  \A g \in Guests :
    driver[g] = "run" /\ ~irq[g] /\ ~Raising(g) =>
      tx[g].used = seen[g].tx /\ rx[g].used = seen[g].rx

\* No notification is lost: a worker that sleeps without a permit has left no
\* frame in the ring that its guest has notified of (Network.hpp:36-39, 67-84).
NoLostNotification ==
  \A g \in Guests :
    pc[g] = "wait" /\ permits[g] = 0 /\ ~unnotified[g] => ~Available(tx[g])
=============================================================================
