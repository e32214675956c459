------------------------------ MODULE DMARing ------------------------------
(***************************************************************************)
(* The descriptor rings of drivers/ethernet/DWC_Ether_QoS.hpp: threads     *)
(* send, the device transmits and receives, onTrap counts its interrupts   *)
(* in semaphore_, and the worker (NetworkDevice.cpp) takes what has been   *)
(* received.  The device is not part of the repository: it goes through a  *)
(* ring as long as it owns the next descriptor, and looks again when the   *)
(* tail pointer is written; of a frame that it has no descriptor for it    *)
(* says that the buffer was unavailable.                                   *)
(***************************************************************************)
EXTENDS Integers, FiniteSets, Sequences, SequencesExt

CONSTANTS
  Senders,    \* threads that send
  Frames,     \* bound: [Senders -> Nat] frames that each sends
  SendBufferCount, ReceiveBufferCount,
  Arrivals    \* bound: frames that the device receives

ASSUME DMAAssumption ==
  /\ IsFiniteSet(Senders) /\ Frames \in [Senders -> Nat] /\ Arrivals \in Nat
  /\ SendBufferCount \in Nat \ {0} /\ ReceiveBufferCount \in Nat \ {0}

VARIABLES
  list,        \* sx_list_
  memory,      \* [buffers -> frame] what the send buffers hold
  sxRing,      \* sx_descriptors_: buffer and OWN
  sxHead,      \* sx_head_
  pc,          \* [Senders] control point in alloc, or in send
  buffer,      \* [Senders] the buffer that the thread holds
  index,       \* [Senders] i of DMA::send
  sxPosition,  \* the device's position in the ring
  active,      \* is the device at work (it stops at a descriptor not its own)
  count,       \* [Senders] frames sent so far (bound)
  claimed,     \* frames in the order of their descriptors (history)
  sent,        \* what the device has transmitted (history)
  reused,      \* a buffer was given out that the device had yet to read (history)
  rxRing,      \* rx_descriptors_: buffer and OWN
  rxMemory,    \* [buffers -> frame] what the receive buffers hold
  rxHead, rxTail, \* rx_head_, rx_tail_
  rxPosition,  \* the device's position in the ring
  ri, rbu,     \* INTERRUPT_STATUS_RI and _RBU
  trap,        \* control point of onTrap
  permits,     \* value of semaphore_
  worker,      \* control point of the worker
  rxBuffer,    \* the buffer that the worker has received
  arrivals,    \* frames that have arrived (bound)
  accepted,    \* frames that the device has stored (history)
  handed,      \* frames that the worker has handed to the observers (history)
  fresh,       \* frames stored since onTrap last counted (history)
  uncounted    \* frames for which nothing was counted (history)

sender == <<pc, buffer, index, count>>
transmitter == <<sxRing, sxPosition, active, sent>>
transmit == <<list, memory, sxHead, sender, transmitter, claimed, reused>>
interrupt == <<ri, rbu, trap, permits>>
receiver == <<rxHead, rxTail, worker, rxBuffer, handed>>
device == <<rxRing, rxMemory, rxPosition, arrivals, accepted, fresh, uncounted>>
receive == <<interrupt, receiver, device>>
vars == <<transmit, receive>>

SxSlots == 0..(SendBufferCount - 1)
RxSlots == 0..(ReceiveBufferCount - 1)
NoFrame == <<"none", 0>>

\* sx_descriptors_ are clear and every send buffer is in the list; the device
\* owns every receive buffer.
Init ==
  /\ list = [i \in 1..SendBufferCount |-> i - 1]
  /\ memory = [b \in SxSlots |-> NoFrame]
  /\ sxRing = [d \in SxSlots |-> [buffer |-> 0, own |-> FALSE]]
  /\ sxHead = 0
  /\ pc = [s \in Senders |-> "out"]
  /\ buffer = [s \in Senders |-> 0]
  /\ index = [s \in Senders |-> 0]
  /\ sxPosition = 0
  /\ active = FALSE
  /\ count = [s \in Senders |-> 0]
  /\ claimed = <<>>
  /\ sent = <<>>
  /\ reused = FALSE
  /\ rxRing = [d \in RxSlots |-> [buffer |-> d, own |-> TRUE]]
  /\ rxMemory = [b \in RxSlots |-> 0]
  /\ rxHead = 0
  /\ rxTail = ReceiveBufferCount
  /\ rxPosition = 0
  /\ ri = FALSE
  /\ rbu = FALSE
  /\ trap = "out"
  /\ permits = 0
  /\ worker = "p"
  /\ rxBuffer = 0
  /\ arrivals = 0
  /\ accepted = <<>>
  /\ handed = <<>>
  /\ fresh = 0
  /\ uncounted = 0

-----------------------------------------------------------------------------
(* Sending.                                                                *)

Goto(s, from, to) ==
  /\ pc[s] = from
  /\ pc' = [pc EXCEPT ![s] = to]

\* DMA::alloc: the thread yields until there is a buffer.
Alloc(s) ==
  /\ Goto(s, "out", "fill")
  /\ count[s] < Frames[s] /\ list # <<>>
  /\ count' = [count EXCEPT ![s] = @ + 1]
  /\ buffer' = [buffer EXCEPT ![s] = Head(list)]
  /\ list' = Tail(list)
  /\ reused' = (reused \/ \E d \in SxSlots : sxRing[d] = [buffer |-> Head(list), own |-> TRUE])
  /\ UNCHANGED <<memory, sxHead, index, transmitter, claimed, receive>>

\* The thread writes its frame.
Fill(s) ==
  /\ Goto(s, "fill", "claim")
  /\ memory' = [memory EXCEPT ![buffer[s]] = <<s, count[s]>>]
  /\ UNCHANGED <<list, sxHead, buffer, index, count, transmitter, claimed, reused, receive>>

\* DMA::send: sx_head_.finc()
Claim(s) ==
  /\ Goto(s, "claim", "wait")
  /\ index' = [index EXCEPT ![s] = sxHead % SendBufferCount]
  /\ sxHead' = sxHead + 1
  /\ claimed' = Append(claimed, <<s, count[s]>>)
  /\ UNCHANGED <<list, memory, buffer, count, transmitter, reused, receive>>

\* The loop: sx_tail_ decides only how often the thread yields.
Wait(s) ==
  /\ Goto(s, "wait", "write")
  /\ ~sxRing[index[s]].own
  /\ UNCHANGED <<list, memory, sxHead, buffer, index, count, transmitter, claimed, reused,
                 receive>>

\* The descriptor is handed to the device.
Write(s) ==
  /\ Goto(s, "write", "kick")
  /\ sxRing' = [sxRing EXCEPT ![index[s]] = [buffer |-> buffer[s], own |-> TRUE]]
  /\ UNCHANGED <<list, memory, sxHead, buffer, index, count, sxPosition, active, sent,
                 claimed, reused, receive>>

\* Mutant: only the thread with the last descriptor writes the tail pointer.
KickLast(s) ==
  /\ Goto(s, "kick", "free")
  /\ active' = (active \/ (index[s] + 1) % SendBufferCount = sxHead % SendBufferCount)
  /\ UNCHANGED <<list, memory, sxHead, buffer, index, count, sxRing, sxPosition, sent,
                 claimed, reused, receive>>

\* CH0_TX_TAIL_POINTER.  Its value comes from sx_head_, which other threads
\* may have moved on; the device looks for OWN.
Kick(s) ==
  /\ Goto(s, "kick", "free")
  /\ active' = TRUE
  /\ UNCHANGED <<list, memory, sxHead, buffer, index, count, sxRing, sxPosition, sent,
                 claimed, reused, receive>>

\* DMA::free, at once.
Free(s) ==
  /\ Goto(s, "free", "out")
  /\ list' = Append(list, buffer[s])
  /\ UNCHANGED <<memory, sxHead, buffer, index, count, transmitter, claimed, reused, receive>>

Transmit ==
  /\ active /\ sxRing[sxPosition].own
  /\ sent' = Append(sent, memory[sxRing[sxPosition].buffer])
  /\ sxRing' = [sxRing EXCEPT ![sxPosition].own = FALSE]
  /\ sxPosition' = (sxPosition + 1) % SendBufferCount
  /\ UNCHANGED <<list, memory, sxHead, sender, active, claimed, reused, receive>>

Suspend ==
  /\ active /\ ~sxRing[sxPosition].own
  /\ active' = FALSE
  /\ UNCHANGED <<list, memory, sxHead, sender, sxRing, sxPosition, sent, claimed, reused,
                 receive>>

-----------------------------------------------------------------------------
(* Receiving.                                                              *)

\* A frame arrives: the device stores it, or has no descriptor for it.
Arrive ==
  /\ arrivals < Arrivals
  /\ arrivals' = arrivals + 1
  /\ LET d == rxRing[rxPosition]
     IN \/ /\ d.own
           /\ rxMemory' = [rxMemory EXCEPT ![d.buffer] = arrivals + 1]
           /\ rxRing' = [rxRing EXCEPT ![rxPosition].own = FALSE]
           /\ rxPosition' = (rxPosition + 1) % ReceiveBufferCount
           /\ ri' = TRUE
           /\ accepted' = Append(accepted, arrivals + 1)
           /\ fresh' = fresh + 1
           /\ UNCHANGED rbu
        \/ /\ ~d.own
           /\ rbu' = TRUE
           /\ UNCHANGED <<rxMemory, rxRing, rxPosition, ri, accepted, fresh>>
  /\ UNCHANGED <<transmit, trap, permits, receiver, uncounted>>

TrapTo(from, to) == trap = from /\ trap' = to

\* onTrap: status & RI.
Trap ==
  /\ ri \/ rbu
  /\ TrapTo("out", IF ri THEN "ri" ELSE "rbu")
  /\ UNCHANGED <<transmit, ri, rbu, permits, receiver, device>>

\* NetworkDevice::notify for all frames since the last one.
NotifyRi ==
  /\ TrapTo("ri", "clear_ri")
  /\ permits' = permits + 1
  /\ uncounted' = uncounted + (IF fresh > 0 THEN fresh - 1 ELSE 0)
  /\ fresh' = 0
  /\ UNCHANGED <<transmit, ri, rbu, receiver, rxRing, rxMemory, rxPosition, arrivals, accepted>>

\* status = RI: also for a frame that has come in between.
ClearRi ==
  /\ TrapTo("clear_ri", IF rbu THEN "rbu" ELSE "out")
  /\ ri' = FALSE
  /\ uncounted' = uncounted + fresh
  /\ fresh' = 0
  /\ UNCHANGED <<transmit, rbu, permits, receiver, rxRing, rxMemory, rxPosition, arrivals, accepted>>

NotifyRbu ==
  /\ TrapTo("rbu", "clear_rbu")
  /\ permits' = permits + 1
  /\ UNCHANGED <<transmit, ri, rbu, receiver, device>>

ClearRbu ==
  /\ TrapTo("clear_rbu", "out")
  /\ rbu' = FALSE
  /\ UNCHANGED <<transmit, ri, permits, receiver, device>>

WorkerTo(from, to) == worker = from /\ worker' = to

\* Mutant: the semaphore is taken for an event.
PDrains ==
  /\ WorkerTo("p", "receive")
  /\ permits > 0
  /\ permits' = 0
  /\ UNCHANGED <<transmit, ri, rbu, trap, rxHead, rxTail, rxBuffer, handed, device>>

\* semaphore_.p()
P ==
  /\ WorkerTo("p", "receive")
  /\ permits > 0
  /\ permits' = permits - 1
  /\ UNCHANGED <<transmit, ri, rbu, trap, rxHead, rxTail, rxBuffer, handed, device>>

\* DMA::receive: the worker yields until the device gives the descriptor up.
Receive ==
  LET d == rxRing[rxHead % ReceiveBufferCount]
  IN /\ WorkerTo("receive", "notify")
     /\ ~d.own
     /\ rxBuffer' = d.buffer
     /\ rxHead' = rxHead + 1
     /\ UNCHANGED <<transmit, interrupt, rxTail, handed, device>>

\* NetworkDevice::notify(buffer): the observers read it.
Notify ==
  /\ WorkerTo("notify", "release")
  /\ handed' = Append(handed, rxMemory[rxBuffer])
  /\ UNCHANGED <<transmit, interrupt, rxHead, rxTail, rxBuffer, device>>

\* Mutant: the descriptor is that at rx_head_.
ReleaseAtHead ==
  /\ WorkerTo("release", "p")
  /\ rxRing' = [rxRing EXCEPT ![rxHead % ReceiveBufferCount] =
                                [buffer |-> rxBuffer, own |-> TRUE]]
  /\ rxTail' = rxTail + 1
  /\ UNCHANGED <<transmit, interrupt, rxHead, rxBuffer, handed, rxMemory, rxPosition,
                 arrivals, accepted, fresh, uncounted>>

\* DMA::release: the buffer goes to the descriptor at rx_tail_.
Release ==
  /\ WorkerTo("release", "p")
  /\ rxRing' = [rxRing EXCEPT ![rxTail % ReceiveBufferCount] =
                                [buffer |-> rxBuffer, own |-> TRUE]]
  /\ rxTail' = rxTail + 1
  /\ UNCHANGED <<transmit, interrupt, rxHead, rxBuffer, handed, rxMemory, rxPosition,
                 arrivals, accepted, fresh, uncounted>>

-----------------------------------------------------------------------------
Send(s) ==
  Alloc(s) \/ Fill(s) \/ Claim(s) \/ Wait(s) \/ Write(s) \/ Kick(s) \/ Free(s)

OnTrap == Trap \/ NotifyRi \/ ClearRi \/ NotifyRbu \/ ClearRbu

Worker == P \/ Receive \/ Notify \/ Release

Next ==
  \/ \E s \in Senders : Send(s)
  \/ Transmit \/ Suspend \/ Arrive
  \/ OnTrap
  \/ Worker

Spec == Init /\ [][Next]_vars

-----------------------------------------------------------------------------
\* What the device transmits is what the threads have sent, in the order of
\* their claims, however they overtake each other between the claim, the
\* descriptor and the tail pointer; and when everyone is done and the device
\* has stopped, nothing is left behind.  It holds until alloc gives out a
\* buffer that the device still has to read, since send frees the buffer
\* before it is transmitted (DWC_Ether_QoS.hpp:357-399, 541-545).
SendsInOrder ==
  ~reused =>
    /\ IsPrefix(sent, claimed)
    /\ ~active /\ (\A s \in Senders : pc[s] = "out") => sent = claimed

\* The buffers in the descriptors that have not been received yet, and the one
\* that the worker holds.
RxBuffers ==
  [i \in 1..(rxTail - rxHead) |-> rxRing[(rxHead + i - 1) % ReceiveBufferCount].buffer]
    \o (IF worker \in {"notify", "release"} THEN <<rxBuffer>> ELSE <<>>)

\* The worker hands every frame that the device has stored to the observers
\* once and in order, no frame is overwritten before, and no receive buffer is
\* lost or in two descriptors, whether or not the ring has been full and its
\* indices have gone round (DWC_Ether_QoS.hpp:401-438).
ReceivesInOrder ==
  /\ IsPrefix(handed, accepted)
  /\ Len(RxBuffers) = ReceiveBufferCount
  /\ ToSet(RxBuffers) = RxSlots

\* A stored frame stays in the ring without a permit that would wake the
\* worker for it only when it was stored while the status of an earlier one
\* was still set: onTrap counts one for all of them, and clears those that
\* come between notify and the acknowledgement (DWC_Ether_QoS.hpp:555-568).
BacklogOnlyByCoalescing ==
  /\ Len(accepted) - rxHead
       <= permits + (IF worker = "receive" THEN 1 ELSE 0) + fresh + uncounted
  /\ fresh > 0 => ri
=============================================================================
