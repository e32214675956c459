------------------------- MODULE CountingSemaphore -------------------------
(***************************************************************************)
(* The abstract counting semaphores that include/Semaphore.hpp promises:   *)
(* p() takes a permit or blocks the caller, v() hands its permit to the    *)
(* longest blocked thread or keeps it.                                     *)
(***************************************************************************)
EXTENDS Integers, Sequences

CONSTANTS Semaphores, Threads, InitialValue

VARIABLES
  permits,   \* [Semaphores] permits nobody has taken
  blocked    \* [Semaphores] threads in p(), in order of arrival

vars == <<permits, blocked>>

Init ==
  /\ permits = InitialValue
  /\ blocked = [s \in Semaphores |-> <<>>]

TakePermit(s) ==
  /\ permits[s] > 0
  /\ permits' = [permits EXCEPT ![s] = @ - 1]
  /\ UNCHANGED blocked

Block(s, t) ==
  /\ permits[s] = 0
  /\ blocked' = [blocked EXCEPT ![s] = Append(@, t)]
  /\ UNCHANGED permits

GivePermit(s) ==
  /\ blocked[s] = <<>>
  /\ permits' = [permits EXCEPT ![s] = @ + 1]
  /\ UNCHANGED blocked

Unblock(s) ==
  /\ blocked[s] # <<>>
  /\ blocked' = [blocked EXCEPT ![s] = Tail(@)]
  /\ UNCHANGED permits

Next ==
  \E s \in Semaphores :
    \/ TakePermit(s) \/ GivePermit(s) \/ Unblock(s)
    \/ \E t \in Threads : Block(s, t)

Spec == Init /\ [][Next]_vars
=============================================================================
