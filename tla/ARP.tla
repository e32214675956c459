-------------------------------- MODULE ARP --------------------------------
(***************************************************************************)
(* Address resolution (network/protocols/ARP.hpp): threads call resolve,   *)
(* which asks the network and waits on a ConditionalVariable in a table    *)
(* entry; the worker of the network device enters the replies and wakes    *)
(* the waiters.  The worker resolves addresses too, when a packet that it  *)
(* hands up is answered (TFTP::ack).  The network may lose, delay and      *)
(* reorder requests and replies; the hosts on it are not in the repository.*)
(* The Mutex of an entry is its holder here: Semaphore has its p and v.    *)
(***************************************************************************)
EXTENDS Integers, FiniteSets, Sequences, SequencesExt

CONSTANTS
  Threads,
  Worker,     \* the thread of the network device
  Addresses,
  Slots,
  Slot,       \* [Addresses -> Slots] the entry that Hasher leads to
  Calls,      \* bound: [Callers -> Nat] calls of resolve that each makes
  Losses,     \* bound: requests and replies that are lost
  None

Callers == Threads \cup {Worker}

ASSUME ARPAssumption ==
  /\ IsFiniteSet(Threads) /\ IsFiniteSet(Addresses)
  /\ Worker \notin Threads /\ None \notin Callers \cup Addresses
  /\ Slot \in [Addresses -> Slots]
  /\ Calls \in [Callers -> Nat] /\ Losses \in Nat

VARIABLES
  entry,     \* [Slots] pa, ha and valid of each entry; the ha of a host is its pa
  mutex,     \* [Slots] holder of the entry's mutex
  lock,      \* [Slots] holder of lock_ of the ConditionalVariable
  waiters,   \* [Slots] waiters_, in the order in which they are woken
  pc,        \* [Callers] control point in resolve, or in the worker's loop
  target,    \* [Callers] pa that the caller resolves
  found,     \* [Callers] what the last call of resolve returned
  reply,     \* pa of the reply that the worker enters
  woken,     \* waiter that send has taken out of the list
  requests, replies, \* [Addresses -> Nat] frames under way
  entered,   \* addresses that a reply has been entered for (history)
  calls,     \* [Callers] calls of resolve so far (bound)
  lost       \* [Slots] frames that were lost (history, bound)

table == <<entry, mutex, lock, waiters>>
callers == <<pc, target, found>>
worker == <<reply, woken>>
network == <<requests, replies, lost>>
vars == <<table, callers, worker, network, entered, calls>>

Init ==
  /\ entry = [s \in Slots |-> [pa |-> None, ha |-> None, valid |-> FALSE]]
  /\ mutex = [s \in Slots |-> None]
  /\ lock = [s \in Slots |-> None]
  /\ waiters = [s \in Slots |-> <<>>]
  /\ pc = [t \in Callers |-> "out"]
  /\ target = [t \in Callers |-> None]
  /\ found = [t \in Callers |-> None]
  /\ reply = None
  /\ woken = None
  /\ requests = [a \in Addresses |-> 0]
  /\ replies = [a \in Addresses |-> 0]
  /\ entered = {}
  /\ calls = [t \in Callers |-> 0]
  /\ lost = [s \in Slots |-> 0]

Goto(t, from, to) ==
  /\ pc[t] = from
  /\ pc' = [pc EXCEPT ![t] = to]

At(t) == Slot[target[t]]

-----------------------------------------------------------------------------
(* ARP::resolve.                                                           *)

\* A thread sends to some host.  The worker answers a packet, whoever sent it,
\* to the host that the transfer was started with (TFTP::_server), which the
\* caller of the transfer may not have resolved yet.
Call(t, a) ==
  /\ Goto(t, "out", "acquire")
  /\ calls[t] < Calls[t]
  /\ calls' = [calls EXCEPT ![t] = @ + 1]
  /\ target' = [target EXCEPT ![t] = a]
  /\ found' = [found EXCEPT ![t] = None]
  /\ UNCHANGED <<table, worker, network, entered>>

\* entry.mutex.acquire()
Acquire(t) ==
  /\ Goto(t, "acquire", "check")
  /\ mutex[At(t)] = None
  /\ mutex' = [mutex EXCEPT ![At(t)] = t]
  /\ UNCHANGED <<entry, lock, waiters, target, found, worker, network, entered, calls>>

\* Mutant: the address that the entry is of is not compared.
CheckValid(t) ==
  /\ pc[t] = "check"
  /\ \/ /\ entry[At(t)].valid
        /\ Goto(t, "check", "out")
        /\ found' = [found EXCEPT ![t] = entry[At(t)].ha]
        /\ mutex' = [mutex EXCEPT ![At(t)] = None]
     \/ /\ ~entry[At(t)].valid
        /\ Goto(t, "check", "request")
        /\ UNCHANGED <<found, mutex>>
  /\ UNCHANGED <<entry, lock, waiters, target, worker, network, entered, calls>>

\* Mutant: a request is sent only while the entry belongs to nobody.
CheckWaits(t) ==
  /\ pc[t] = "check"
  /\ LET e == entry[At(t)]
     IN \/ /\ e.valid /\ e.pa = target[t]
           /\ Goto(t, "check", "out")
           /\ found' = [found EXCEPT ![t] = e.ha]
           /\ mutex' = [mutex EXCEPT ![At(t)] = None]
        \/ /\ ~(e.valid /\ e.pa = target[t])
           /\ Goto(t, "check", IF e.valid THEN "cvlock" ELSE "request")
           /\ UNCHANGED <<found, mutex>>
  /\ UNCHANGED <<entry, lock, waiters, target, worker, network, entered, calls>>

\* Mutant: an entry serves one call only.
CheckOnce(t) ==
  /\ pc[t] = "check"
  /\ LET e == entry[At(t)]
     IN \/ /\ e.valid /\ e.pa = target[t]
           /\ Goto(t, "check", "out")
           /\ found' = [found EXCEPT ![t] = e.ha]
           /\ mutex' = [mutex EXCEPT ![At(t)] = None]
           /\ entry' = [entry EXCEPT ![At(t)].valid = FALSE]
        \/ /\ ~(e.valid /\ e.pa = target[t])
           /\ Goto(t, "check", "request")
           /\ UNCHANGED <<entry, found, mutex>>
  /\ UNCHANGED <<lock, waiters, target, worker, network, entered, calls>>

\* A valid entry of this address ends the call.
Check(t) ==
  /\ pc[t] = "check"
  /\ LET e == entry[At(t)]
     IN \/ /\ e.valid /\ e.pa = target[t]
           /\ Goto(t, "check", "out")
           /\ found' = [found EXCEPT ![t] = e.ha]
           /\ mutex' = [mutex EXCEPT ![At(t)] = None]
        \/ /\ ~(e.valid /\ e.pa = target[t])
           /\ Goto(t, "check", "request")
           /\ UNCHANGED <<found, mutex>>
  /\ UNCHANGED <<entry, lock, waiters, target, worker, network, entered, calls>>

\* ARP::request
Request(t) ==
  /\ Goto(t, "request", "cvlock")
  /\ requests' = [requests EXCEPT ![target[t]] = @ + 1]
  /\ UNCHANGED <<table, target, found, worker, replies, lost, entered, calls>>

\* Mutant: lock_ is not taken.
WaitLockNothing(t) ==
  /\ Goto(t, "cvlock", "cvrelease")
  /\ UNCHANGED <<table, target, found, worker, network, entered, calls>>

\* ConditionalVariable::wait: lock_.acquire(), ...
WaitLock(t) ==
  /\ Goto(t, "cvlock", "cvrelease")
  /\ lock[At(t)] = None
  /\ lock' = [lock EXCEPT ![At(t)] = t]
  /\ UNCHANGED <<entry, mutex, waiters, target, found, worker, network, entered, calls>>

\* ... external.release(), ...
WaitRelease(t) ==
  /\ Goto(t, "cvrelease", "sleep")
  /\ mutex' = [mutex EXCEPT ![At(t)] = None]
  /\ UNCHANGED <<entry, lock, waiters, target, found, worker, network, entered, calls>>

\* ... waiters_.insert, and Thread::sleep, after which lock_ is released.
Sleep(t) ==
  /\ Goto(t, "sleep", "asleep")
  /\ waiters' = [waiters EXCEPT ![At(t)] = Append(@, t)]
  /\ lock' = [lock EXCEPT ![At(t)] = None]
  /\ UNCHANGED <<entry, mutex, target, found, worker, network, entered, calls>>

-----------------------------------------------------------------------------
(* ARP::onReply, in the worker.                                            *)

TakeReply(a) ==
  /\ Goto(Worker, "out", "racquire")
  /\ replies[a] > 0
  /\ replies' = [replies EXCEPT ![a] = @ - 1]
  /\ reply' = a
  /\ UNCHANGED <<table, target, found, woken, requests, lost, entered, calls>>

\* entry.mutex.acquire()
ReplyAcquire ==
  /\ Goto(Worker, "racquire", "pa")
  /\ mutex[Slot[reply]] = None
  /\ mutex' = [mutex EXCEPT ![Slot[reply]] = Worker]
  /\ UNCHANGED <<entry, lock, waiters, target, found, worker, network, entered, calls>>

StorePa ==
  /\ Goto(Worker, "pa", "ha")
  /\ entry' = [entry EXCEPT ![Slot[reply]].pa = reply]
  /\ UNCHANGED <<mutex, lock, waiters, target, found, worker, network, entered, calls>>

\* entry.ha and entry.valid
StoreHa ==
  /\ Goto(Worker, "ha", "send")
  /\ entry' = [entry EXCEPT ![Slot[reply]].ha = reply, ![Slot[reply]].valid = TRUE]
  /\ entered' = entered \cup {reply}
  /\ UNCHANGED <<mutex, lock, waiters, target, found, worker, network, calls>>

\* ConditionalVariable::send up to lock_.release(): one waiter, if there is one.
Send ==
  LET s == Slot[reply]
  IN /\ Goto(Worker, "send", "wakeup")
     /\ lock[s] = None
     /\ \/ /\ waiters[s] # <<>>
           /\ woken' = Head(waiters[s])
           /\ waiters' = [waiters EXCEPT ![s] = Tail(@)]
        \/ /\ waiters[s] = <<>>
           /\ UNCHANGED <<woken, waiters>>
     /\ UNCHANGED <<entry, mutex, lock, target, found, reply, network, entered, calls>>

\* Thread::wakeup: the waiter goes on at the head of resolve's loop.
Wakeup ==
  /\ pc[Worker] = "wakeup"
  /\ pc' = [t \in Callers |-> IF t = Worker THEN "rrelease"
                              ELSE IF t = woken THEN "acquire" ELSE pc[t]]
  /\ woken' = None
  /\ UNCHANGED <<table, target, found, reply, network, entered, calls>>

\* entry.mutex.release()
ReplyRelease ==
  /\ Goto(Worker, "rrelease", "out")
  /\ mutex' = [mutex EXCEPT ![Slot[reply]] = None]
  /\ reply' = None
  /\ UNCHANGED <<entry, lock, waiters, target, found, woken, network, entered, calls>>

-----------------------------------------------------------------------------
(* The network.                                                            *)

Answer(a) ==
  /\ requests[a] > 0
  /\ requests' = [requests EXCEPT ![a] = @ - 1]
  /\ replies' = [replies EXCEPT ![a] = @ + 1]
  /\ UNCHANGED <<table, callers, worker, lost, entered, calls>>

Lose(a) ==
  /\ SumFunction(lost) < Losses
  /\ lost' = [lost EXCEPT ![Slot[a]] = @ + 1]
  /\ \/ /\ requests[a] > 0
        /\ requests' = [requests EXCEPT ![a] = @ - 1]
        /\ UNCHANGED replies
     \/ /\ replies[a] > 0
        /\ replies' = [replies EXCEPT ![a] = @ - 1]
        /\ UNCHANGED requests
  /\ UNCHANGED <<table, callers, worker, entered, calls>>

-----------------------------------------------------------------------------
Resolve(t) ==
  \/ Acquire(t) \/ Check(t) \/ Request(t) \/ WaitLock(t) \/ WaitRelease(t) \/ Sleep(t)

OnReply ==
  \/ \E a \in Addresses : TakeReply(a)
  \/ ReplyAcquire \/ StorePa \/ StoreHa \/ Send \/ Wakeup \/ ReplyRelease

Next ==
  \/ \E t \in Callers : Resolve(t) \/ \E a \in Addresses : Call(t, a)
  \/ OnReply
  \/ \E a \in Addresses : Answer(a) \/ Lose(a)

Spec == Init /\ [][Next]_vars

\* The threads run, a Mutex is handed to the first who waits, and the hosts
\* answer requests that are not lost.
Fairness ==
  /\ \A t \in Callers : SF_vars(Acquire(t)) /\ WF_vars(Resolve(t))
  /\ SF_vars(ReplyAcquire) /\ WF_vars(OnReply)
  /\ \A a \in Addresses : WF_vars(Answer(a)) /\ SF_vars(TakeReply(a))

FairSpec == Spec /\ Fairness

-----------------------------------------------------------------------------
\* A call returns the hardware address of the host that it asked for, also
\* when the entry belongs to several hosts in turn (ARP.hpp:61-75, 107-115).
RightAddress ==
  \A t \in Callers : pc[t] = "out" /\ found[t] # None => found[t] = target[t]

\* The threads that wait for a reply in entry s, or are about to.
Awaiting(s) ==
  {t \in Callers : pc[t] \in {"cvlock", "cvrelease", "sleep"} /\ At(t) = s}
    \cup ToSet(waiters[s])

\* The frames under way that will wake one of them.
UnderWay(s) ==
  LET hosts == {a \in Addresses : Slot[a] = s}
  IN SumFunctionOnSet(requests, hosts) + SumFunctionOnSet(replies, hosts)
     + (IF reply # None /\ Slot[reply] = s /\ pc[Worker] \in {"racquire", "pa", "ha", "send"}
        THEN 1 ELSE 0)

\* No reply is missed between the test of the entry and the sleep, whatever
\* the thread and the worker interleave: for every thread that waits in an
\* entry, or is about to, a frame is under way that will wake it or another,
\* unless frames were lost (ARP.hpp:71-72, ConditionalVariable.hpp:31-38).
WaiterHasReply ==
  \A s \in Slots : Cardinality(Awaiting(s)) <= UnderWay(s) + lost[s]

\* The worker, which alone could wake it again, sleeps in resolve only for a
\* host that has never replied (it answers a packet before the transfer's own
\* resolve has returned), or whose entry has been taken over by a host with
\* the same last byte (ARP.hpp:47, 61-75, 107-115, TFTP.hpp:35, 80-82, 106).
WorkerSleepsOnlyUnknown ==
  pc[Worker] \in {"request", "cvlock", "cvrelease", "sleep", "asleep"} =>
    \/ target[Worker] \notin entered
    \/ entry[At(Worker)].valid /\ entry[At(Worker)].pa # target[Worker]

\* Somebody resolves another address in the same entry.
Contended(t) ==
  \E u \in Callers \ {t} :
    /\ pc[u] \in {"acquire", "check", "request", "cvlock", "cvrelease", "sleep", "asleep"}
    /\ target[u] # target[t] /\ At(u) = At(t)

\* Every call returns, although a reply wakes one waiter only and another
\* thread may have taken the reply that it waits for, unless a frame of the
\* entry was lost, the worker sleeps, or another address is resolved in the
\* same entry at the same time: then replies can wake the wrong waiters for
\* ever (ARP.hpp:61-75, 107-115, ConditionalVariable.hpp:45-72).
ResolveReturns ==
  \A t \in Threads :
    pc[t] = "acquire" ~> \/ pc[t] = "out"
                         \/ target[t] # None /\ (lost[At(t)] > 0 \/ Contended(t))
                         \/ pc[Worker] = "asleep"
=============================================================================
