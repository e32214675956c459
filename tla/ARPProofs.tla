----------------------------- MODULE ARPProofs ------------------------------
(***************************************************************************)
(* Address resolution for any threads, addresses and table: a call returns *)
(* the address of the host that it asked for, the worker sleeps in resolve *)
(* only for a host that has never replied or has lost its entry, and every *)
(* caller that waits has a reply under way, or the network lost it.  The   *)
(* last counts frames: sums over finite sets of addresses and threads.     *)
(***************************************************************************)
EXTENDS ARP, Functions, FiniteSetTheorems, SequenceTheorems, WellFoundedInduction, TLAPS

-----------------------------------------------------------------------------
(* A smallest counterexample takes the place of induction.                 *)

\* A non-empty set of numbers has a smallest element.
LEMMA LeastNumber ==
  ASSUME NEW T, T \subseteq Nat, T # {}
  PROVE  \E x \in T : \A y \in T : x <= y
<1> DEFINE R == {ss \in Nat \X Nat : ss[1] < ss[2]}
<1>1. IsWellFoundedOn(R, Nat)
  <2>1. R = OpToRel(<, Nat)
    BY Zenon DEF OpToRel
  <2> QED
    BY <2>1, NatLessThanWellFounded, Zenon
<1> HIDE DEF R
<1>2. PICK x \in T : \A y \in T : ~(<<y, x>> \in R)
  BY <1>1, WFMin, Zenon
<1>3. ASSUME NEW y \in T PROVE x <= y
  <2>1. x \in Nat /\ y \in Nat
    OBVIOUS
  <2>2. y < x => <<y, x>> \in R
    BY <2>1 DEF R
  <2>3. ~(<<y, x>> \in R)
    BY <1>2, Zenon
  <2> QED BY <2>1, <2>2, <2>3
<1> QED BY <1>3, Zenon

-----------------------------------------------------------------------------
Maybe(S) == S \cup {None}

\* In the loop of resolve with the entry's mutex.
HoldLocations == {"check", "request", "cvlock", "cvrelease"}
\* In resolve.
CallLocations == HoldLocations \cup {"acquire", "sleep", "asleep"}
\* In onReply with the entry's mutex.
EnterLocations == {"pa", "ha", "send", "wakeup", "rrelease"}
\* In onReply.
ReplyLocations == EnterLocations \cup {"racquire"}

Entry == [pa : Maybe(Addresses), ha : Maybe(Addresses), valid : BOOLEAN]

Types ==
  /\ entry \in [Slots -> Entry]
  /\ mutex \in [Slots -> Maybe(Callers)]
  /\ waiters \in [Slots -> Seq(Callers)]
  /\ pc \in [Callers -> CallLocations \cup ReplyLocations \cup {"out"}]
  /\ target \in [Callers -> Maybe(Addresses)]
  /\ found \in [Callers -> Maybe(Addresses)]
  /\ reply \in Maybe(Addresses)
  /\ woken \in Maybe(Callers)
  /\ entered \in SUBSET Addresses

\* What the control points say about the local variables.
Shape ==
  /\ \A t \in Callers : pc[t] \in CallLocations => target[t] \in Addresses
  /\ \A t \in Callers : pc[t] \in ReplyLocations => t = Worker
  /\ pc[Worker] \in ReplyLocations => reply \in Addresses
  /\ woken # None => pc[Worker] = "wakeup"

\* Who is in a list, or has just been taken out of it, is asleep, and in one
\* place only.
WaitersAsleep ==
  /\ \A s \in Slots : \A i \in 1..Len(waiters[s]) :
       /\ pc[waiters[s][i]] = "asleep" /\ Slot[target[waiters[s][i]]] = s
       /\ waiters[s][i] # woken
       /\ \A j \in 1..Len(waiters[s]) : waiters[s][i] = waiters[s][j] => i = j
  /\ woken # None => pc[woken] = "asleep"

\* The entry is read and written under its mutex.
MutexHeld ==
  /\ \A t \in Callers : pc[t] \in HoldLocations => mutex[At(t)] = t
  /\ pc[Worker] \in EnterLocations => mutex[Slot[reply]] = Worker

\* A valid entry holds one host's addresses, except between the two stores.
EntryAgrees ==
  /\ \A s \in Slots :
       entry[s].valid /\ entry[s].ha # entry[s].pa =>
         pc[Worker] = "ha" /\ Slot[reply] = s
  /\ pc[Worker] = "ha" => entry[Slot[reply]].pa = reply

FoundTarget == \A t \in Callers : found[t] # None => found[t] = target[t]

\* An entry that has been valid stays so, whoever it belongs to.
EnteredValid == \A a \in entered : entry[Slot[a]].valid

\* The worker goes past the test of the entry only if the entry is another's.
WorkerUnknown ==
  pc[Worker] \in {"request", "cvlock", "cvrelease", "sleep", "asleep"} =>
    target[Worker] \notin entered \/ entry[At(Worker)].pa # target[Worker]

ResolveInvariant ==
  /\ Types /\ Shape /\ WaitersAsleep /\ MutexHeld /\ EntryAgrees
  /\ FoundTarget /\ EnteredValid /\ WorkerUnknown

-----------------------------------------------------------------------------
\* A caller begins with the address.
LEMMA CallStep ==
  ASSUME ResolveInvariant, NEW t \in Callers, NEW a \in Addresses, Call(t, a)
  PROVE  ResolveInvariant'
<1> USE ARPAssumption
        DEF ResolveInvariant, Types, At, Callers, Maybe, HoldLocations, CallLocations,
            EnterLocations, ReplyLocations, table, callers, worker, network
<1>1. Types'
  BY DEF Entry, Call, Goto
<1>2. Shape'
  BY DEF Shape, Call, Goto
<1>3. WaitersAsleep'
  BY DEF Shape, WaitersAsleep, Call, Goto
<1>4. MutexHeld'
  BY DEF Shape, MutexHeld, WaitersAsleep, Call, Goto
<1>5. EntryAgrees'
  BY DEF Entry, Shape, MutexHeld, EntryAgrees, Call, Goto
<1>6. FoundTarget'
  BY DEF FoundTarget, EntryAgrees, MutexHeld, Shape, Entry, Call, Goto
<1>7. EnteredValid'
  BY DEF EnteredValid, Shape, Entry, Call, Goto
<1>8. WorkerUnknown'
  BY DEF WorkerUnknown, EnteredValid, Shape, Entry, Call, Goto
<1> QED
  BY <1>1, <1>2, <1>3, <1>4, <1>5, <1>6, <1>7, <1>8 DEF ResolveInvariant

\* The caller takes a free mutex.
LEMMA AcquireStep ==
  ASSUME ResolveInvariant, NEW t \in Callers, Acquire(t)
  PROVE  ResolveInvariant'
<1> USE ARPAssumption
        DEF ResolveInvariant, Types, At, Callers, Maybe, HoldLocations, CallLocations,
            EnterLocations, ReplyLocations, table, callers, worker, network
<1>1. Types'
  BY DEF Entry, Acquire, Goto
<1>2. Shape'
  BY DEF Shape, Acquire, Goto
<1>3. WaitersAsleep'
  BY DEF Shape, WaitersAsleep, Acquire, Goto
<1>4. MutexHeld'
  BY DEF Shape, MutexHeld, WaitersAsleep, Acquire, Goto
<1>5. EntryAgrees'
  BY DEF Entry, Shape, MutexHeld, EntryAgrees, Acquire, Goto
<1>6. FoundTarget'
  BY DEF FoundTarget, EntryAgrees, MutexHeld, Shape, Entry, Acquire, Goto
<1>7. EnteredValid'
  BY DEF EnteredValid, Shape, Entry, Acquire, Goto
<1>8. WorkerUnknown'
  BY DEF WorkerUnknown, EnteredValid, Shape, Entry, Acquire, Goto
<1> QED
  BY <1>1, <1>2, <1>3, <1>4, <1>5, <1>6, <1>7, <1>8 DEF ResolveInvariant

\* What a caller returns comes from an entry that agrees; a worker that goes
\* on has found another host in it, or the host has never replied.
LEMMA CheckStep ==
  ASSUME ResolveInvariant, NEW t \in Callers, Check(t)
  PROVE  ResolveInvariant'
<1> USE ARPAssumption
        DEF ResolveInvariant, Types, At, Callers, Maybe, HoldLocations, CallLocations,
            EnterLocations, ReplyLocations, table, callers, worker, network
<1>1. Types'
  <2>1. target[t] \in Addresses /\ Slot[target[t]] \in Slots
    BY DEF Shape, Check
  <2>2. entry[Slot[target[t]]].ha \in Addresses \cup {None}
    BY <2>1 DEF Entry
  <2>3. found' \in [Callers -> Maybe(Addresses)]
    BY <2>2 DEF Check
  <2>4. mutex' \in [Slots -> Maybe(Callers)]
    BY DEF Check
  <2>5. pc' \in [Callers -> CallLocations \cup ReplyLocations \cup {"out"}]
    BY DEF Check, Goto
  <2> QED BY <2>3, <2>4, <2>5 DEF Check
<1>2. Shape'
  BY DEF Shape, Check, Goto
<1>3. WaitersAsleep'
  BY DEF Shape, WaitersAsleep, Check, Goto
<1>4. MutexHeld'
  BY DEF Shape, MutexHeld, WaitersAsleep, Check, Goto
<1>5. EntryAgrees'
  BY DEF Entry, Shape, MutexHeld, EntryAgrees, Check, Goto
<1>6. FoundTarget'
  BY DEF FoundTarget, EntryAgrees, MutexHeld, Shape, Entry, Check, Goto
<1>7. EnteredValid'
  BY DEF EnteredValid, Shape, Entry, Check, Goto
<1>8. WorkerUnknown'
  BY DEF WorkerUnknown, EnteredValid, Shape, Entry, Check, Goto
<1> QED
  BY <1>1, <1>2, <1>3, <1>4, <1>5, <1>6, <1>7, <1>8 DEF ResolveInvariant

\* The mutex stays with the caller.
LEMMA RequestStep ==
  ASSUME ResolveInvariant, NEW t \in Callers, Request(t)
  PROVE  ResolveInvariant'
<1> USE ARPAssumption
        DEF ResolveInvariant, Types, At, Callers, Maybe, HoldLocations, CallLocations,
            EnterLocations, ReplyLocations, table, callers, worker, network
<1>1. Types'
  BY DEF Entry, Request, Goto
<1>2. Shape'
  BY DEF Shape, Request, Goto
<1>3. WaitersAsleep'
  BY DEF Shape, WaitersAsleep, Request, Goto
<1>4. MutexHeld'
  BY DEF Shape, MutexHeld, WaitersAsleep, Request, Goto
<1>5. EntryAgrees'
  BY DEF Entry, Shape, MutexHeld, EntryAgrees, Request, Goto
<1>6. FoundTarget'
  BY DEF FoundTarget, EntryAgrees, MutexHeld, Shape, Entry, Request, Goto
<1>7. EnteredValid'
  BY DEF EnteredValid, Shape, Entry, Request, Goto
<1>8. WorkerUnknown'
  BY DEF WorkerUnknown, EnteredValid, Shape, Entry, Request, Goto
<1> QED
  BY <1>1, <1>2, <1>3, <1>4, <1>5, <1>6, <1>7, <1>8 DEF ResolveInvariant

\* The mutex stays with the caller.
LEMMA WaitLockStep ==
  ASSUME ResolveInvariant, NEW t \in Callers, WaitLock(t)
  PROVE  ResolveInvariant'
<1> USE ARPAssumption
        DEF ResolveInvariant, Types, At, Callers, Maybe, HoldLocations, CallLocations,
            EnterLocations, ReplyLocations, table, callers, worker, network
<1>1. Types'
  BY DEF Entry, WaitLock, Goto
<1>2. Shape'
  BY DEF Shape, WaitLock, Goto
<1>3. WaitersAsleep'
  BY DEF Shape, WaitersAsleep, WaitLock, Goto
<1>4. MutexHeld'
  BY DEF Shape, MutexHeld, WaitersAsleep, WaitLock, Goto
<1>5. EntryAgrees'
  BY DEF Entry, Shape, MutexHeld, EntryAgrees, WaitLock, Goto
<1>6. FoundTarget'
  BY DEF FoundTarget, EntryAgrees, MutexHeld, Shape, Entry, WaitLock, Goto
<1>7. EnteredValid'
  BY DEF EnteredValid, Shape, Entry, WaitLock, Goto
<1>8. WorkerUnknown'
  BY DEF WorkerUnknown, EnteredValid, Shape, Entry, WaitLock, Goto
<1> QED
  BY <1>1, <1>2, <1>3, <1>4, <1>5, <1>6, <1>7, <1>8 DEF ResolveInvariant

\* The mutex given back is the caller's.
LEMMA WaitReleaseStep ==
  ASSUME ResolveInvariant, NEW t \in Callers, WaitRelease(t)
  PROVE  ResolveInvariant'
<1> USE ARPAssumption
        DEF ResolveInvariant, Types, At, Callers, Maybe, HoldLocations, CallLocations,
            EnterLocations, ReplyLocations, table, callers, worker, network
<1>1. Types'
  BY DEF Entry, WaitRelease, Goto
<1>2. Shape'
  BY DEF Shape, WaitRelease, Goto
<1>3. WaitersAsleep'
  BY DEF Shape, WaitersAsleep, WaitRelease, Goto
<1>4. MutexHeld'
  BY DEF Shape, MutexHeld, WaitersAsleep, WaitRelease, Goto
<1>5. EntryAgrees'
  BY DEF Entry, Shape, MutexHeld, EntryAgrees, WaitRelease, Goto
<1>6. FoundTarget'
  BY DEF FoundTarget, EntryAgrees, MutexHeld, Shape, Entry, WaitRelease, Goto
<1>7. EnteredValid'
  BY DEF EnteredValid, Shape, Entry, WaitRelease, Goto
<1>8. WorkerUnknown'
  BY DEF WorkerUnknown, EnteredValid, Shape, Entry, WaitRelease, Goto
<1> QED
  BY <1>1, <1>2, <1>3, <1>4, <1>5, <1>6, <1>7, <1>8 DEF ResolveInvariant

\* The caller is in no list yet, since it is not asleep.
LEMMA SleepStep ==
  ASSUME ResolveInvariant, NEW t \in Callers, Sleep(t)
  PROVE  ResolveInvariant'
<1> USE ARPAssumption
        DEF ResolveInvariant, Types, At, Callers, Maybe, HoldLocations, CallLocations,
            EnterLocations, ReplyLocations, table, callers, worker, network
<1>1. Types'
  <2>1. target[t] \in Addresses /\ Slot[target[t]] \in Slots
    BY DEF Shape, Sleep, Goto
  <2>2. Append(waiters[Slot[target[t]]], t) \in Seq(Callers)
    BY <2>1, AppendProperties
  <2>3. waiters' \in [Slots -> Seq(Callers)]
    BY <2>2 DEF Sleep
  <2> QED BY <2>3 DEF Sleep, Goto
<1>2. Shape'
  BY DEF Shape, Sleep, Goto
<1>3. WaitersAsleep'
  BY DEF Shape, WaitersAsleep, Sleep, Goto
<1>4. MutexHeld'
  BY DEF Shape, MutexHeld, WaitersAsleep, Sleep, Goto
<1>5. EntryAgrees'
  BY DEF Entry, Shape, MutexHeld, EntryAgrees, Sleep, Goto
<1>6. FoundTarget'
  BY DEF FoundTarget, EntryAgrees, MutexHeld, Shape, Entry, Sleep, Goto
<1>7. EnteredValid'
  BY DEF EnteredValid, Shape, Entry, Sleep, Goto
<1>8. WorkerUnknown'
  BY DEF WorkerUnknown, EnteredValid, Shape, Entry, Sleep, Goto
<1> QED
  BY <1>1, <1>2, <1>3, <1>4, <1>5, <1>6, <1>7, <1>8 DEF ResolveInvariant

\* The worker is not in resolve any more.
LEMMA TakeReplyStep ==
  ASSUME ResolveInvariant, NEW a \in Addresses, TakeReply(a)
  PROVE  ResolveInvariant'
<1> USE ARPAssumption
        DEF ResolveInvariant, Types, At, Callers, Maybe, HoldLocations, CallLocations,
            EnterLocations, ReplyLocations, table, callers, worker, network
<1>1. Types'
  BY DEF Entry, TakeReply, Goto
<1>2. Shape'
  BY DEF Shape, TakeReply, Goto
<1>3. WaitersAsleep'
  BY DEF Shape, WaitersAsleep, TakeReply, Goto
<1>4. MutexHeld'
  BY DEF Shape, MutexHeld, WaitersAsleep, TakeReply, Goto
<1>5. EntryAgrees'
  BY DEF Entry, Shape, MutexHeld, EntryAgrees, TakeReply, Goto
<1>6. FoundTarget'
  BY DEF FoundTarget, EntryAgrees, MutexHeld, Shape, Entry, TakeReply, Goto
<1>7. EnteredValid'
  BY DEF EnteredValid, Shape, Entry, TakeReply, Goto
<1>8. WorkerUnknown'
  BY DEF WorkerUnknown, EnteredValid, Shape, Entry, TakeReply, Goto
<1> QED
  BY <1>1, <1>2, <1>3, <1>4, <1>5, <1>6, <1>7, <1>8 DEF ResolveInvariant

\* The worker takes a free mutex.
LEMMA ReplyAcquireStep ==
  ASSUME ResolveInvariant, ReplyAcquire
  PROVE  ResolveInvariant'
<1> USE ARPAssumption
        DEF ResolveInvariant, Types, At, Callers, Maybe, HoldLocations, CallLocations,
            EnterLocations, ReplyLocations, table, callers, worker, network
<1>1. Types'
  BY DEF Entry, ReplyAcquire, Goto
<1>2. Shape'
  BY DEF Shape, ReplyAcquire, Goto
<1>3. WaitersAsleep'
  BY DEF Shape, WaitersAsleep, ReplyAcquire, Goto
<1>4. MutexHeld'
  BY DEF Shape, MutexHeld, WaitersAsleep, ReplyAcquire, Goto
<1>5. EntryAgrees'
  BY DEF Entry, Shape, MutexHeld, EntryAgrees, ReplyAcquire, Goto
<1>6. FoundTarget'
  BY DEF FoundTarget, EntryAgrees, MutexHeld, Shape, Entry, ReplyAcquire, Goto
<1>7. EnteredValid'
  BY DEF EnteredValid, Shape, Entry, ReplyAcquire, Goto
<1>8. WorkerUnknown'
  BY DEF WorkerUnknown, EnteredValid, Shape, Entry, ReplyAcquire, Goto
<1> QED
  BY <1>1, <1>2, <1>3, <1>4, <1>5, <1>6, <1>7, <1>8 DEF ResolveInvariant

\* The entry may disagree from here ...
LEMMA StorePaStep ==
  ASSUME ResolveInvariant, StorePa
  PROVE  ResolveInvariant'
<1> USE ARPAssumption
        DEF ResolveInvariant, Types, At, Callers, Maybe, HoldLocations, CallLocations,
            EnterLocations, ReplyLocations, table, callers, worker, network
<1>1. Types'
  BY DEF Entry, StorePa, Goto
<1>2. Shape'
  BY DEF Shape, StorePa, Goto
<1>3. WaitersAsleep'
  BY DEF Shape, WaitersAsleep, StorePa, Goto
<1>4. MutexHeld'
  BY DEF Shape, MutexHeld, WaitersAsleep, StorePa, Goto
<1>5. EntryAgrees'
  BY DEF Entry, Shape, MutexHeld, EntryAgrees, StorePa, Goto
<1>6. FoundTarget'
  BY DEF FoundTarget, EntryAgrees, MutexHeld, Shape, Entry, StorePa, Goto
<1>7. EnteredValid'
  BY DEF EnteredValid, Shape, Entry, StorePa, Goto
<1>8. WorkerUnknown'
  BY DEF WorkerUnknown, EnteredValid, Shape, Entry, StorePa, Goto
<1> QED
  BY <1>1, <1>2, <1>3, <1>4, <1>5, <1>6, <1>7, <1>8 DEF ResolveInvariant

\* ... to here.
LEMMA StoreHaStep ==
  ASSUME ResolveInvariant, StoreHa
  PROVE  ResolveInvariant'
<1> USE ARPAssumption
        DEF ResolveInvariant, Types, At, Callers, Maybe, HoldLocations, CallLocations,
            EnterLocations, ReplyLocations, table, callers, worker, network
<1>1. Types'
  <2>1. reply \in Addresses /\ Slot[reply] \in Slots
    BY DEF Shape, StoreHa, Goto
  <2> DEFINE s == Slot[reply]
             stored == [entry EXCEPT ![s].ha = reply]
  <2>c. entry \in [Slots -> Entry]
    OBVIOUS
  <2>a. stored \in [Slots -> Entry]
    <3>1. entry[s] \in Entry
      BY <2>1, <2>c
    <3>2. [entry[s] EXCEPT !.ha = reply] \in Entry
      BY <2>1, <3>1 DEF Entry
    <3> HIDE DEF s
    <3> QED BY <2>c, <3>2
  <2>b. entry' = [stored EXCEPT ![s].valid = TRUE]
    BY <2>1 DEF StoreHa
  <2> HIDE DEF stored
  <2>2. entry' \in [Slots -> Entry]
    BY <2>1, <2>a, <2>b DEF Entry
  <2>3. entered' \in SUBSET Addresses
    BY <2>1 DEF StoreHa
  <2> QED BY <2>2, <2>3 DEF StoreHa, Goto
<1>2. Shape'
  BY DEF Shape, StoreHa, Goto
<1>3. WaitersAsleep'
  BY DEF Shape, WaitersAsleep, StoreHa, Goto
<1>4. MutexHeld'
  BY DEF Shape, MutexHeld, WaitersAsleep, StoreHa, Goto
<1>5. EntryAgrees'
  <2>1. reply \in Addresses /\ Slot[reply] \in Slots /\ entry[Slot[reply]].pa = reply
    BY DEF Shape, StoreHa, Goto, EntryAgrees
  <2>2. entry'[Slot[reply]].ha = entry'[Slot[reply]].pa
    BY <2>1 DEF Entry, StoreHa
  <2>3. \A s \in Slots : s # Slot[reply] => entry'[s] = entry[s]
    BY <2>1 DEF StoreHa
  <2>4. pc'[Worker] = "send" /\ reply' = reply
    BY DEF StoreHa, Goto
  <2> QED BY <2>1, <2>2, <2>3, <2>4 DEF EntryAgrees
<1>6. FoundTarget'
  BY DEF FoundTarget, EntryAgrees, MutexHeld, Shape, Entry, StoreHa, Goto
<1>7. EnteredValid'
  BY DEF EnteredValid, Shape, Entry, StoreHa, Goto
<1>8. WorkerUnknown'
  BY DEF WorkerUnknown, EnteredValid, Shape, Entry, StoreHa, Goto
<1> QED
  BY <1>1, <1>2, <1>3, <1>4, <1>5, <1>6, <1>7, <1>8 DEF ResolveInvariant

\* The first of the list is taken out: it is in no other place.
LEMMA SendStep ==
  ASSUME ResolveInvariant, Send
  PROVE  ResolveInvariant'
<1> USE ARPAssumption
        DEF ResolveInvariant, Types, At, Callers, Maybe, HoldLocations, CallLocations,
            EnterLocations, ReplyLocations, table, callers, worker, network
<1>a. reply \in Addresses /\ Slot[reply] \in Slots
  BY DEF Shape, Send, Goto
<1>b. waiters[Slot[reply]] # <<>> =>
        /\ Head(waiters[Slot[reply]]) = waiters[Slot[reply]][1]
        /\ Head(waiters[Slot[reply]]) \in Callers
        /\ Tail(waiters[Slot[reply]]) \in Seq(Callers)
        /\ Len(Tail(waiters[Slot[reply]])) = Len(waiters[Slot[reply]]) - 1
        /\ \A i \in 1..(Len(waiters[Slot[reply]]) - 1) :
             Tail(waiters[Slot[reply]])[i] = waiters[Slot[reply]][i + 1]
        /\ Len(waiters[Slot[reply]]) \in Nat \ {0}
  BY <1>a, HeadTailProperties
<1>1. Types'
  <2>1. waiters' \in [Slots -> Seq(Callers)]
    BY <1>a, <1>b DEF Send
  <2>2. woken' \in Maybe(Callers)
    BY <1>a, <1>b DEF Send
  <2>3. pc' \in [Callers -> CallLocations \cup ReplyLocations \cup {"out"}]
    BY DEF Send, Goto
  <2> QED BY <2>1, <2>2, <2>3 DEF Send
<1>2. Shape'
  BY DEF Shape, Send, Goto
<1>3. WaitersAsleep'
  <2>0. woken = None
    BY DEF Shape, Send, Goto
  <2>1. CASE waiters[Slot[reply]] = <<>>
    <3>1. waiters' = waiters /\ woken' = None
      BY <2>0, <2>1 DEF Send
    <3>2. \A t \in Callers : pc[t] = "asleep" => pc'[t] = "asleep"
      BY DEF Send, Goto
    <3> QED BY <2>0, <3>1, <3>2 DEF WaitersAsleep, Send
  <2>2. CASE waiters[Slot[reply]] # <<>>
    <3> DEFINE s == Slot[reply]
    <3>1. /\ woken' = waiters[s][1] /\ pc[woken'] = "asleep"
          /\ waiters'[s] = Tail(waiters[s])
          /\ \A r \in Slots : r # s => waiters'[r] = waiters[r]
      BY <1>a, <1>b, <2>2 DEF Send, WaitersAsleep
    <3>2. \A t \in Callers : pc[t] = "asleep" => pc'[t] = "asleep"
      BY DEF Send, Goto
    <3>3. \A i \in 1..Len(waiters'[s]) :
            /\ i + 1 \in 1..Len(waiters[s]) /\ i + 1 # 1
            /\ waiters'[s][i] = waiters[s][i + 1]
      BY <1>a, <1>b, <2>2, <3>1
    <3>4. \A r \in Slots : \A i \in 1..Len(waiters'[r]) :
            /\ pc'[waiters'[r][i]] = "asleep" /\ Slot[target[waiters'[r][i]]] = r
            /\ waiters'[r][i] # woken'
            /\ \A j \in 1..Len(waiters'[r]) : waiters'[r][i] = waiters'[r][j] => i = j
      <4> SUFFICES ASSUME NEW r \in Slots, NEW i \in 1..Len(waiters'[r])
                   PROVE  /\ pc'[waiters'[r][i]] = "asleep"
                          /\ Slot[target[waiters'[r][i]]] = r
                          /\ waiters'[r][i] # woken'
                          /\ \A j \in 1..Len(waiters'[r]) :
                               waiters'[r][i] = waiters'[r][j] => i = j
        OBVIOUS
      <4>1. CASE r = s
        BY <4>1, <1>a, <1>b, <2>2, <3>1, <3>2, <3>3 DEF WaitersAsleep
      <4>2. CASE r # s
        BY <4>2, <1>a, <1>b, <2>2, <3>1, <3>2 DEF WaitersAsleep
      <4> QED BY <4>1, <4>2
    <3>5. pc'[woken'] = "asleep" /\ target' = target
      BY <1>a, <1>b, <2>2, <3>1, <3>2 DEF Send
    <3> QED BY <3>4, <3>5 DEF WaitersAsleep
  <2> QED BY <2>1, <2>2
<1>4. MutexHeld'
  BY DEF Shape, MutexHeld, WaitersAsleep, Send, Goto
<1>5. EntryAgrees'
  BY DEF Entry, Shape, MutexHeld, EntryAgrees, Send, Goto
<1>6. FoundTarget'
  BY DEF FoundTarget, EntryAgrees, MutexHeld, Shape, Entry, Send, Goto
<1>7. EnteredValid'
  BY DEF EnteredValid, Shape, Entry, Send, Goto
<1>8. WorkerUnknown'
  BY DEF WorkerUnknown, EnteredValid, Shape, Entry, Send, Goto
<1> QED
  BY <1>1, <1>2, <1>3, <1>4, <1>5, <1>6, <1>7, <1>8 DEF ResolveInvariant

\* Only a sleeping thread is woken.
LEMMA WakeupStep ==
  ASSUME ResolveInvariant, Wakeup
  PROVE  ResolveInvariant'
<1> USE ARPAssumption
        DEF ResolveInvariant, Types, At, Callers, Maybe, HoldLocations, CallLocations,
            EnterLocations, ReplyLocations, table, callers, worker, network
<1>1. Types'
  BY DEF Entry, Wakeup
<1>2. Shape'
  BY DEF Shape, WaitersAsleep, Wakeup
<1>3. WaitersAsleep'
  BY DEF Shape, WaitersAsleep, Wakeup
<1>4. MutexHeld'
  BY DEF Shape, MutexHeld, WaitersAsleep, Wakeup
<1>5. EntryAgrees'
  BY DEF Entry, Shape, MutexHeld, EntryAgrees, Wakeup
<1>6. FoundTarget'
  BY DEF FoundTarget, EntryAgrees, MutexHeld, Shape, Entry, Wakeup
<1>7. EnteredValid'
  BY DEF EnteredValid, Shape, Entry, Wakeup
<1>8. WorkerUnknown'
  BY DEF WorkerUnknown, EnteredValid, Shape, Entry, Wakeup
<1> QED
  BY <1>1, <1>2, <1>3, <1>4, <1>5, <1>6, <1>7, <1>8 DEF ResolveInvariant

\* The mutex given back is the worker's.
LEMMA ReplyReleaseStep ==
  ASSUME ResolveInvariant, ReplyRelease
  PROVE  ResolveInvariant'
<1> USE ARPAssumption
        DEF ResolveInvariant, Types, At, Callers, Maybe, HoldLocations, CallLocations,
            EnterLocations, ReplyLocations, table, callers, worker, network
<1>1. Types'
  BY DEF Entry, ReplyRelease, Goto
<1>2. Shape'
  BY DEF Shape, ReplyRelease, Goto
<1>3. WaitersAsleep'
  BY DEF Shape, WaitersAsleep, ReplyRelease, Goto
<1>4. MutexHeld'
  BY DEF Shape, MutexHeld, WaitersAsleep, ReplyRelease, Goto
<1>5. EntryAgrees'
  BY DEF Entry, Shape, MutexHeld, EntryAgrees, ReplyRelease, Goto
<1>6. FoundTarget'
  BY DEF FoundTarget, EntryAgrees, MutexHeld, Shape, Entry, ReplyRelease, Goto
<1>7. EnteredValid'
  BY DEF EnteredValid, Shape, Entry, ReplyRelease, Goto
<1>8. WorkerUnknown'
  BY DEF WorkerUnknown, EnteredValid, Shape, Entry, ReplyRelease, Goto
<1> QED
  BY <1>1, <1>2, <1>3, <1>4, <1>5, <1>6, <1>7, <1>8 DEF ResolveInvariant
-----------------------------------------------------------------------------
\* Nobody waits, and no entry is valid.
LEMMA ResolveInit == Init => ResolveInvariant
  BY ARPAssumption
     DEF Init, ResolveInvariant, Types, Entry, Shape, WaitersAsleep, MutexHeld,
         EntryAgrees, FoundTarget, EnteredValid, WorkerUnknown, Callers, Maybe,
         HoldLocations, CallLocations, EnterLocations, ReplyLocations

\* The network touches nothing that the invariant speaks of.
LEMMA NetworkStep ==
  ASSUME ResolveInvariant, NEW a \in Addresses, Answer(a) \/ Lose(a)
  PROVE  ResolveInvariant'
<1>1. UNCHANGED <<table, callers, worker, entered>>
  BY DEF Answer, Lose
<1>2. Types' /\ Shape'
  BY <1>1 DEF table, callers, worker, ResolveInvariant, Types, Shape
<1>3. WaitersAsleep' /\ MutexHeld' /\ EntryAgrees'
  BY <1>1 DEF table, callers, worker, ResolveInvariant, WaitersAsleep, MutexHeld,
              EntryAgrees, At
<1>4. FoundTarget' /\ EnteredValid' /\ WorkerUnknown'
  BY <1>1 DEF table, callers, worker, ResolveInvariant, FoundTarget, EnteredValid,
              WorkerUnknown, At
<1> QED BY <1>2, <1>3, <1>4 DEF ResolveInvariant

\* Every step keeps the invariant.
LEMMA ResolveStep == ResolveInvariant /\ [Next]_vars => ResolveInvariant'
<1> SUFFICES ASSUME ResolveInvariant, [Next]_vars PROVE ResolveInvariant'
  OBVIOUS
<1>1. ASSUME NEW t \in Callers, Resolve(t) PROVE ResolveInvariant'
  BY <1>1, AcquireStep, CheckStep, RequestStep, WaitLockStep, WaitReleaseStep, SleepStep
     DEF Resolve
<1>2. ASSUME NEW t \in Callers, NEW a \in Addresses, Call(t, a) PROVE ResolveInvariant'
  BY <1>2, CallStep
<1>3. CASE OnReply
  BY <1>3, TakeReplyStep, ReplyAcquireStep, StorePaStep, StoreHaStep, SendStep,
     WakeupStep, ReplyReleaseStep DEF OnReply
<1>4. ASSUME NEW a \in Addresses, Answer(a) \/ Lose(a) PROVE ResolveInvariant'
  BY <1>4, NetworkStep
<1>5. CASE UNCHANGED vars
  BY <1>5 DEF vars, table, callers, worker, ResolveInvariant, Types, Shape,
              WaitersAsleep, MutexHeld, EntryAgrees, FoundTarget, EnteredValid,
              WorkerUnknown, At
<1> QED BY <1>1, <1>2, <1>3, <1>4, <1>5 DEF Next

\* The invariant that makes the two properties inductive.
THEOREM ResolveInvariantHolds == Spec => []ResolveInvariant
<1> QED BY ResolveInit, ResolveStep, PTL DEF Spec

\* resolve returns the address of the host that it was asked for, however many
\* hosts take turns in the entry (ARP.hpp:61-75, 107-115).
THEOREM ResolveReturnsRightAddress == Spec => []RightAddress
<1>1. ResolveInvariant => RightAddress
  BY DEF ResolveInvariant, FoundTarget, RightAddress
<1> QED BY <1>1, ResolveInvariantHolds, PTL

\* The worker waits for a reply, which only it could enter, only of a host that
\* has never replied or after another host has taken over the entry of the host
\* that it answers (ARP.hpp:61-75, TFTP.hpp:35, 80-82, 106).
THEOREM WorkerSleepsOnlyForUnknown == Spec => []WorkerSleepsOnlyUnknown
<1>1. ResolveInvariant => WorkerSleepsOnlyUnknown
  BY DEF ResolveInvariant, EnteredValid, WorkerUnknown, WorkerSleepsOnlyUnknown, At,
         CallLocations, HoldLocations
<1> QED BY <1>1, ResolveInvariantHolds, PTL

-----------------------------------------------------------------------------
(* Sums over finite sets.                                                  *)

\* The function that the sum of f over S is read from: sums over subsets.
Sums(f, S, g) ==
  g = [s \in SUBSET S |->
         IF s = {} THEN 0
         ELSE f[CHOOSE x \in s : TRUE] + g[s \ {CHOOSE x \in s : TRUE}]]

\* It exists: the sums over subsets of n + 1 elements come from those of n.
LEMMA SumsExist ==
  ASSUME NEW S, IsFiniteSet(S), NEW f, \A x \in S : f[x] \in Nat
  PROVE  \E g \in [SUBSET S -> Nat] : Sums(f, S, g)
<1> DEFINE Part(n) == {s \in SUBSET S : Cardinality(s) <= n}
           SumAt(g, s) == IF s = {} THEN 0
                          ELSE f[CHOOSE x \in s : TRUE] + g[s \ {CHOOSE x \in s : TRUE}]
           Partial(n, g) == g \in [Part(n) -> Nat] /\ \A s \in Part(n) : g[s] = SumAt(g, s)
           Bad == {n \in Nat : ~ \E g : Partial(n, g)}
<1>0. ASSUME NEW s \in SUBSET S
      PROVE  /\ IsFiniteSet(s) /\ Cardinality(s) \in Nat /\ Cardinality(s) <= Cardinality(S)
             /\ Cardinality(s) = 0 <=> s = {}
             /\ s # {} => /\ (CHOOSE x \in s : TRUE) \in s
                          /\ s \ {CHOOSE x \in s : TRUE} \in SUBSET S
                          /\ Cardinality(s \ {CHOOSE x \in s : TRUE}) = Cardinality(s) - 1
  <2>1. IsFiniteSet(s) /\ Cardinality(s) \in Nat /\ Cardinality(s) <= Cardinality(S)
    BY FS_Subset, FS_CardinalityType
  <2>2. Cardinality(s) = 0 <=> s = {}
    BY <2>1, FS_EmptySet
  <2>3. s # {} => (CHOOSE x \in s : TRUE) \in s
    OBVIOUS
  <2> DEFINE e == CHOOSE x \in s : TRUE
  <2>4. s # {} => Cardinality(s \ {e}) = Cardinality(s) - 1
    <3> HIDE DEF e
    <3>1. Cardinality(s \ {e}) = IF e \in s THEN Cardinality(s)-1 ELSE Cardinality(s)
      BY <2>1, FS_RemoveElement, Zenon
    <3> QED BY <2>3, <3>1 DEF e
  <2> QED BY <2>1, <2>2, <2>3, <2>4
<1>1. \E g : Partial(0, g)
  <2>1. ASSUME NEW s \in Part(0) PROVE s = {}
    <3>1. Cardinality(s) \in Nat /\ (Cardinality(s) = 0 <=> s = {})
      BY <1>0, Zenon
    <3>2. Cardinality(s) <= 0
      BY Zenon
    <3>3. Cardinality(s) = 0
      BY <3>1, <3>2
    <3> QED BY <3>1, <3>3
  <2> DEFINE z == [s \in Part(0) |-> 0]
  <2>2. Partial(0, z)
    BY <2>1
  <2> QED BY <2>2
<1>2. ASSUME NEW n \in Nat, NEW g, Partial(n, g)
      PROVE  \E h : Partial(n + 1, h)
  <2> DEFINE h == [s \in Part(n + 1) |-> SumAt(g, s)]
  <2>1. ASSUME NEW s \in Part(n + 1), s # {}
        PROVE  /\ f[CHOOSE x \in s : TRUE] \in Nat
               /\ s \ {CHOOSE x \in s : TRUE} \in Part(n)
    BY <1>0, <2>1
  <2>2. ASSUME NEW s \in Part(n) PROVE s \in Part(n + 1) /\ h[s] = g[s]
    <3>1. s \in SUBSET S /\ Cardinality(s) <= n
      BY Zenon
    <3>2. Cardinality(s) \in Nat
      BY <1>0, <3>1, Zenon
    <3>3. Cardinality(s) <= n + 1
      BY <3>1, <3>2
    <3>4. s \in Part(n + 1)
      BY <3>1, <3>3, Zenon
    <3>5. h[s] = SumAt(g, s)
      BY <3>4, Zenon
    <3>6. g[s] = SumAt(g, s)
      BY <1>2, Zenon
    <3> QED BY <3>4, <3>5, <3>6, Zenon
  <2>3. h \in [Part(n + 1) -> Nat]
    <3> SUFFICES ASSUME NEW s \in Part(n + 1) PROVE SumAt(g, s) \in Nat
      BY Zenon
    <3>1. CASE s = {}
      BY <3>1
    <3>2. CASE s # {}
      <4>1. g[s \ {CHOOSE x \in s : TRUE}] \in Nat
        BY <2>1, <1>2, <3>2
      <4> QED BY <4>1, <2>1, <3>2
    <3> QED BY <3>1, <3>2
  <2>4. ASSUME NEW s \in Part(n + 1) PROVE h[s] = SumAt(h, s)
    <3>1. CASE s = {}
      BY <3>1
    <3>2. CASE s # {}
      <4>1. h[s \ {CHOOSE x \in s : TRUE}] = g[s \ {CHOOSE x \in s : TRUE}]
        BY <2>1, <2>2, <3>2, Zenon
      <4>2. h[s] = SumAt(g, s)
        BY Zenon
      <4> QED BY <4>1, <4>2, <3>2, Zenon
    <3> QED BY <3>1, <3>2
  <2> HIDE DEF h
  <2> QED BY <2>3, <2>4
<1>3. Bad = {}
  <2> SUFFICES ASSUME Bad # {} PROVE FALSE
    OBVIOUS
  <2> HIDE DEF Partial
  <2>1. Bad \subseteq Nat
    OBVIOUS
  <2>2. PICK n \in Bad : \A m \in Bad : n <= m
    <3> HIDE DEF Bad
    <3> QED BY <2>1, LeastNumber, Zenon
  <2>3. n # 0
    BY <1>1
  <2>4. n - 1 \in Nat /\ n - 1 \notin Bad
    BY <2>2, <2>3
  <2>5. PICK g : Partial(n - 1, g)
    BY <2>4
  <2>6. \E h : Partial((n - 1) + 1, h)
    BY <1>2, <2>4, <2>5
  <2>7. (n - 1) + 1 = n
    OBVIOUS
  <2> QED BY <2>6, <2>7
<1>4. Cardinality(S) \in Nat
  BY FS_CardinalityType
<1>5. PICK g : Partial(Cardinality(S), g)
  <2> HIDE DEF Partial
  <2> QED BY <1>3, <1>4
<1>6. Part(Cardinality(S)) = SUBSET S
  BY <1>0
<1>7. g \in [SUBSET S -> Nat] /\ \A s \in SUBSET S : g[s] = SumAt(g, s)
  BY <1>5, <1>6, Zenon
<1>8. g = [s \in SUBSET S |-> SumAt(g, s)]
  BY <1>7, Zenon
<1> QED BY <1>7, <1>8 DEF Sums

\* What holds of every subset.
LEMMA SumOfSums ==
  ASSUME NEW S, IsFiniteSet(S), NEW f, \A x \in S : f[x] \in Nat
  PROVE  \E g : Sums(f, S, g) /\ SumFunctionOnSet(f, S) = g[S]
<1> DEFINE g == CHOOSE h : Sums(f, S, h)
<1>1. Sums(f, S, g)
  BY SumsExist, Zenon
<1>2. SumFunctionOnSet(f, S) = g[S]
  BY Zenon DEF SumFunctionOnSet, FoldFunctionOnSet, MapThenFoldSet, Sums
<1> QED BY <1>1, <1>2, Zenon

\* Induction over the subsets of a finite set.
LEMMA LeastSubset ==
  ASSUME NEW S, IsFiniteSet(S), NEW T, T \subseteq SUBSET S, T # {}
  PROVE  \E s \in T : \A r \in T : r \subseteq s => r = s
<1> DEFINE Sizes == {Cardinality(s) : s \in T}
<1>1. ASSUME NEW s \in T
      PROVE  IsFiniteSet(s) /\ Cardinality(s) \in Nat
  BY FS_Subset, FS_CardinalityType
<1>2. Sizes \subseteq Nat /\ Sizes # {}
  BY <1>1
<1>3. PICK n \in Sizes : \A m \in Sizes : n <= m
  <2> HIDE DEF Sizes
  <2> QED BY <1>2, LeastNumber, Zenon
<1>4. PICK s \in T : n = Cardinality(s)
  BY <1>3
<1>5. ASSUME NEW r \in T, r \subseteq s PROVE r = s
  <2>1. Cardinality(s) <= Cardinality(r)
    BY <1>3, <1>4
  <2>2. Cardinality(r) <= Cardinality(s) /\ (Cardinality(s) = Cardinality(r) => s = r)
    BY <1>1, <1>5, FS_Subset
  <2>3. Cardinality(s) = Cardinality(r)
    BY <2>1, <2>2, <1>1
  <2> QED BY <2>2, <2>3, Zenon
<1> QED BY <1>4, <1>5

\* Two functions that differ at most at a have sums that differ as they do
\* there, or not at all.
LEMMA SumChange ==
  ASSUME NEW S, IsFiniteSet(S), NEW f, NEW h, NEW a,
         \A x \in S : f[x] \in Nat, \A x \in S : h[x] \in Nat,
         \A x \in S : x # a => h[x] = f[x]
  PROVE  /\ a \in S => SumFunctionOnSet(h, S) = SumFunctionOnSet(f, S) + (h[a] - f[a])
         /\ a \notin S => SumFunctionOnSet(h, S) = SumFunctionOnSet(f, S)
<1>1. PICK g : Sums(f, S, g) /\ SumFunctionOnSet(f, S) = g[S]
  BY SumOfSums
<1>2. PICK k : Sums(h, S, k) /\ SumFunctionOnSet(h, S) = k[S]
  BY SumOfSums
<1> DEFINE Good(s) == /\ g[s] \in Nat
                      /\ k[s] = g[s] + (IF a \in s THEN h[a] - f[a] ELSE 0)
           Bad == {s \in SUBSET S : ~Good(s)}
<1>3. Bad = {}
  <2> SUFFICES ASSUME Bad # {} PROVE FALSE
    OBVIOUS
  <2>1. PICK s \in Bad : \A r \in Bad : r \subseteq s => r = s
    <3>1. Bad \subseteq SUBSET S
      OBVIOUS
    <3>2. Bad # {}
      OBVIOUS
    <3> HIDE DEF Bad
    <3> QED BY <3>1, <3>2, LeastSubset
  <2> DEFINE e == CHOOSE x \in s : TRUE
  <2>2. g[s] = (IF s = {} THEN 0 ELSE f[e] + g[s \ {e}])
    BY <1>1, <2>1 DEF Sums
  <2>3. k[s] = (IF s = {} THEN 0 ELSE h[e] + k[s \ {e}])
    BY <1>2, <2>1 DEF Sums
  <2>4. s # {}
    BY <2>1, <2>2, <2>3
  <2>5. e \in s /\ e \in S
    BY <2>4, <2>1
  <2> HIDE DEF e
  <2>6. s \ {e} \in SUBSET S /\ s \ {e} \notin Bad
    BY <2>5, <2>1
  <2>7. Good(s \ {e})
    BY <2>6
  <2>8. f[e] \in Nat /\ h[e] \in Nat
    BY <2>5
  <2>9. Good(s)
    <3>1. g[s] = f[e] + g[s \ {e}] /\ k[s] = h[e] + k[s \ {e}]
      BY <2>2, <2>3, <2>4
    <3>2. CASE e = a
      BY <2>5, <2>7, <2>8, <3>1, <3>2
    <3>3. CASE e # a
      <4>1. h[e] = f[e]
        BY <2>5, <3>3
      <4>2. CASE a \in s
        <5>1. h[a] \in Nat /\ f[a] \in Nat
          BY <2>1, <4>2
        <5> QED BY <2>7, <2>8, <3>1, <3>3, <4>1, <4>2, <5>1
      <4>3. CASE a \notin s
        BY <2>7, <2>8, <3>1, <3>3, <4>1, <4>3
      <4> QED BY <4>2, <4>3
    <3> QED BY <3>2, <3>3
  <2> QED BY <2>1, <2>9
<1>4. Good(S)
  BY <1>3
<1> QED BY <1>1, <1>2, <1>4

\* A sum of numbers is a number.
LEMMA SumType ==
  ASSUME NEW S, IsFiniteSet(S), NEW f, \A x \in S : f[x] \in Nat
  PROVE  SumFunctionOnSet(f, S) \in Nat
<1>1. PICK g : g \in [SUBSET S -> Nat] /\ Sums(f, S, g)
  BY SumsExist
<1>2. PICK k : Sums(f, S, k) /\ SumFunctionOnSet(f, S) = k[S]
  BY SumOfSums
<1> DEFINE Bad == {s \in SUBSET S : k[s] # g[s]}
<1>3. Bad = {}
  <2> SUFFICES ASSUME Bad # {} PROVE FALSE
    OBVIOUS
  <2>1. PICK s \in Bad : \A r \in Bad : r \subseteq s => r = s
    <3>1. Bad \subseteq SUBSET S
      OBVIOUS
    <3>2. Bad # {}
      OBVIOUS
    <3> HIDE DEF Bad
    <3> QED BY <3>1, <3>2, LeastSubset
  <2> DEFINE e == CHOOSE x \in s : TRUE
  <2>2. g[s] = (IF s = {} THEN 0 ELSE f[e] + g[s \ {e}])
    BY <1>1, <2>1 DEF Sums
  <2>3. k[s] = (IF s = {} THEN 0 ELSE f[e] + k[s \ {e}])
    BY <1>2, <2>1 DEF Sums
  <2>4. e \in s /\ s \ {e} \in SUBSET S /\ s \ {e} # s
    BY <2>1, <2>2, <2>3
  <2>5. s \ {e} \notin Bad
    <3> HIDE DEF e, Bad
    <3> QED BY <2>1, <2>4
  <2>6. k[s \ {e}] = g[s \ {e}]
    BY <2>4, <2>5
  <2>7. k[s] = g[s]
    BY <2>2, <2>3, <2>6, Zenon
  <2> QED BY <2>1, <2>7
<1> QED BY <1>1, <1>2, <1>3

-----------------------------------------------------------------------------
(* The replies that waiting callers depend on.                             *)

\* A caller that waits for a reply, or is about to.
Waiting == {"cvlock", "cvrelease", "sleep"}

Hosts(s) == {a \in Addresses : Slot[a] = s}

\* The reply that the worker has taken and will wake a waiter with.
Entering(s) ==
  IF reply # None /\ Slot[reply] = s /\ pc[Worker] \in {"racquire", "pa", "ha", "send"}
  THEN 1 ELSE 0

FrameTypes ==
  /\ lock \in [Slots -> Maybe(Callers)]
  /\ requests \in [Addresses -> Nat]
  /\ replies \in [Addresses -> Nat]
  /\ lost \in [Slots -> Nat]

\* From lock_.acquire to the end of sleep.
LockHeld ==
  \A t \in Callers : pc[t] \in {"cvrelease", "sleep"} => lock[At(t)] = t

RepliesInvariant ==
  /\ ResolveInvariant
  /\ FrameTypes
  /\ LockHeld
  /\ WaiterHasReply

-----------------------------------------------------------------------------
\* The frames under way are finitely many sums.
LEMMA UnderWaySum ==
  ASSUME NEW s \in Slots, FrameTypes
  PROVE  /\ IsFiniteSet(Hosts(s))
         /\ SumFunctionOnSet(requests, Hosts(s)) \in Nat
         /\ SumFunctionOnSet(replies, Hosts(s)) \in Nat
         /\ Entering(s) \in {0, 1}
         /\ UnderWay(s) = SumFunctionOnSet(requests, Hosts(s))
                          + SumFunctionOnSet(replies, Hosts(s)) + Entering(s)
<1>1. IsFiniteSet(Hosts(s))
  BY ARPAssumption, FS_Subset DEF Hosts
<1>2. \A a \in Hosts(s) : requests[a] \in Nat /\ replies[a] \in Nat
  BY DEF FrameTypes, Hosts
<1>3. SumFunctionOnSet(requests, Hosts(s)) \in Nat
  BY <1>1, <1>2, SumType
<1>4. SumFunctionOnSet(replies, Hosts(s)) \in Nat
  BY <1>1, <1>2, SumType
<1>5. UnderWay(s) = SumFunctionOnSet(requests, Hosts(s))
                          + SumFunctionOnSet(replies, Hosts(s)) + Entering(s)
  BY Zenon DEF UnderWay, Hosts, Entering
<1>6. Entering(s) \in {0, 1}
  BY DEF Entering
<1> QED BY <1>1, <1>3, <1>4, <1>5, <1>6

\* There are finitely many callers.
LEMMA AwaitingFinite ==
  ASSUME ResolveInvariant, NEW s \in Slots
  PROVE  /\ Awaiting(s) \subseteq Callers
         /\ IsFiniteSet(Awaiting(s)) /\ Cardinality(Awaiting(s)) \in Nat
<1>1. waiters[s] \in Seq(Callers)
  BY DEF ResolveInvariant, Types
<1>2. ToSet(waiters[s]) \subseteq Callers
  BY <1>1 DEF ToSet
<1>3. IsFiniteSet(Callers)
  <2>1. IsFiniteSet(Threads \cup {Worker})
    BY ARPAssumption, FS_AddElement
  <2> QED BY <2>1 DEF Callers
<1>4. Awaiting(s) \subseteq Callers
  BY <1>2 DEF Awaiting
<1>5. IsFiniteSet(Awaiting(s))
  BY <1>3, <1>4, FS_Subset
<1> QED BY <1>4, <1>5, FS_CardinalityType

\* The frames of an entry are a number.
LEMMA FramesCount ==
  ASSUME NEW f \in [Addresses -> Nat], NEW s \in Slots
  PROVE  SumFunctionOnSet(f, Hosts(s)) \in Nat
<1>1. IsFiniteSet(Hosts(s))
  BY ARPAssumption, FS_Subset DEF Hosts
<1>2. \A x \in Hosts(s) : f[x] \in Nat
  BY DEF Hosts
<1> QED BY <1>1, <1>2, SumType

\* One frame more or less counts at its own entry.
LEMMA FrameMoves ==
  ASSUME NEW f \in [Addresses -> Nat], NEW h \in [Addresses -> Nat], NEW a \in Addresses,
         \A x \in Addresses : x # a => h[x] = f[x], NEW s \in Slots
  PROVE  /\ Slot[a] = s => SumFunctionOnSet(h, Hosts(s)) =
                             SumFunctionOnSet(f, Hosts(s)) + (h[a] - f[a])
         /\ Slot[a] # s => SumFunctionOnSet(h, Hosts(s)) = SumFunctionOnSet(f, Hosts(s))
<1>1. IsFiniteSet(Hosts(s))
  BY ARPAssumption, FS_Subset DEF Hosts
<1>2. \A x \in Hosts(s) : f[x] \in Nat
  BY DEF Hosts
<1>3. \A x \in Hosts(s) : h[x] \in Nat
  BY DEF Hosts
<1>4. \A x \in Hosts(s) : x # a => h[x] = f[x]
  BY DEF Hosts
<1>5. a \in Hosts(s) <=> Slot[a] = s
  BY DEF Hosts
<1>6. CASE a \in Hosts(s)
  <2>1. SumFunctionOnSet(h, Hosts(s)) = SumFunctionOnSet(f, Hosts(s)) + (h[a] - f[a])
    BY <1>1, <1>2, <1>3, <1>4, <1>6, SumChange
  <2> QED BY <1>1, <1>2, <1>3, <1>5, <1>6, <2>1
<1>7. CASE a \notin Hosts(s)
  <2>1. SumFunctionOnSet(h, Hosts(s)) = SumFunctionOnSet(f, Hosts(s))
    BY <1>1, <1>2, <1>3, <1>4, <1>7, SumChange
  <2> QED BY <1>1, <1>2, <1>3, <1>5, <1>7, <2>1
<1> QED BY <1>6, <1>7

\* A step that moves no waiter and no frame.
LEMMA NothingMoves ==
  ASSUME WaiterHasReply, UNCHANGED <<waiters, requests, replies, lost>>,
         \A t \in Callers : pc'[t] \in Waiting <=> pc[t] \in Waiting,
         \A t \in Callers : pc[t] \in Waiting => target'[t] = target[t],
         \A s \in Slots : Entering(s)' = Entering(s)
  PROVE  WaiterHasReply'
<1> SUFFICES ASSUME NEW s \in Slots
             PROVE  Cardinality(Awaiting(s)') <= UnderWay(s)' + lost'[s]
  BY Zenon DEF WaiterHasReply
<1>1. Awaiting(s)' = Awaiting(s)
  BY DEF Awaiting, At, Waiting
<1>2. UnderWay(s)' = UnderWay(s)
  <2>1. UnderWay(s) = SumFunctionOnSet(requests, Hosts(s))
                        + SumFunctionOnSet(replies, Hosts(s)) + Entering(s)
    BY Zenon DEF UnderWay, Hosts, Entering
  <2>2. UnderWay(s)' = SumFunctionOnSet(requests', Hosts(s))
                        + SumFunctionOnSet(replies', Hosts(s)) + Entering(s)'
    BY Zenon DEF UnderWay, Hosts, Entering
  <2> QED BY <2>1, <2>2, Zenon
<1>3. Cardinality(Awaiting(s)) <= UnderWay(s) + lost[s]
  BY DEF WaiterHasReply
<1> QED BY <1>1, <1>2, <1>3, Zenon

\* Calls, the test of the entry, and the worker's way through onReply but for
\* its ends and send leave waiters and frames alone.
LEMMA QuietSteps ==
  ASSUME RepliesInvariant, ResolveInvariant',
         \/ \E t \in Callers : Acquire(t) \/ Check(t) \/ WaitLock(t) \/ WaitRelease(t)
         \/ \E t \in Callers, a \in Addresses : Call(t, a)
         \/ ReplyAcquire \/ StorePa \/ StoreHa \/ Wakeup \/ ReplyRelease
  PROVE  RepliesInvariant'
<1> USE ARPAssumption
        DEF RepliesInvariant, ResolveInvariant, Types, At, Callers, Maybe,
            HoldLocations, CallLocations, EnterLocations, ReplyLocations,
            table, callers, worker, network
<1>1. FrameTypes'
  <2>1. lock' \in [Slots -> Maybe(Callers)]
    <3>1. ASSUME NEW t \in Callers, WaitLock(t) PROVE lock' \in [Slots -> Maybe(Callers)]
      BY <3>1 DEF FrameTypes, WaitLock
    <3>2. lock' = lock \/ \E t \in Callers : WaitLock(t)
      BY DEF Acquire, Check, WaitRelease, Call, ReplyAcquire, StorePa, StoreHa, Wakeup,
             ReplyRelease
    <3> QED BY <3>1, <3>2 DEF FrameTypes
  <2>2. UNCHANGED <<requests, replies, lost>>
    BY DEF Acquire, Check, WaitLock, WaitRelease, Call, ReplyAcquire, StorePa, StoreHa,
           Wakeup, ReplyRelease
  <2> QED BY <2>1, <2>2 DEF FrameTypes
<1>2. LockHeld'
  <2>1. ASSUME NEW t \in Callers, Acquire(t) \/ Check(t) PROVE LockHeld'
    BY <2>1 DEF LockHeld, Acquire, Check, Goto
  <2>2. ASSUME NEW t \in Callers, WaitLock(t) PROVE LockHeld'
    BY <2>2 DEF LockHeld, WaitLock, Goto, Shape, FrameTypes
  <2>3. ASSUME NEW t \in Callers, WaitRelease(t) PROVE LockHeld'
    BY <2>3 DEF LockHeld, WaitRelease, Goto
  <2>4. ASSUME NEW t \in Callers, NEW a \in Addresses, Call(t, a) PROVE LockHeld'
    BY <2>4 DEF LockHeld, Call, Goto
  <2>5. ASSUME ReplyAcquire \/ StorePa \/ StoreHa \/ Wakeup \/ ReplyRelease PROVE LockHeld'
    BY <2>5 DEF LockHeld, ReplyAcquire, StorePa, StoreHa, Wakeup, ReplyRelease, Goto
  <2> QED BY <2>1, <2>2, <2>3, <2>4, <2>5
<1>3. UNCHANGED <<waiters, requests, replies, lost>>
  BY DEF Acquire, Check, WaitLock, WaitRelease, Call, ReplyAcquire, StorePa,
         StoreHa, Wakeup, ReplyRelease
<1>4. \A t \in Callers : pc'[t] \in Waiting <=> pc[t] \in Waiting
  BY DEF Acquire, Check, WaitLock, WaitRelease, Call, ReplyAcquire, StorePa,
         StoreHa, Wakeup, ReplyRelease, Goto, Waiting, WaitersAsleep
<1>5. \A t \in Callers : pc[t] \in Waiting => target'[t] = target[t]
  BY DEF Acquire, Check, WaitLock, WaitRelease, Call, ReplyAcquire, StorePa,
         StoreHa, Wakeup, ReplyRelease, Goto, Waiting
<1>6. \A s \in Slots : Entering(s)' = Entering(s)
  <2>1. ASSUME NEW t \in Callers,
               Acquire(t) \/ Check(t) \/ WaitLock(t) \/ WaitRelease(t)
        PROVE  \A s \in Slots : Entering(s)' = Entering(s)
    BY <2>1 DEF Entering, Acquire, Check, WaitLock, WaitRelease, Goto
  <2>2. ASSUME NEW t \in Callers, NEW a \in Addresses, Call(t, a)
        PROVE  \A s \in Slots : Entering(s)' = Entering(s)
    BY <2>2 DEF Entering, Call, Goto
  <2>3. ASSUME ReplyAcquire \/ StorePa \/ StoreHa \/ Wakeup \/ ReplyRelease
        PROVE  \A s \in Slots : Entering(s)' = Entering(s)
    BY <2>3 DEF Entering, ReplyAcquire, StorePa, StoreHa, Wakeup, ReplyRelease, Goto
  <2> QED BY <2>1, <2>2, <2>3
<1>7. WaiterHasReply'
  BY <1>3, <1>4, <1>5, <1>6, NothingMoves
<1> QED BY <1>1, <1>2, <1>7

\* A request is under way before its sender waits.
LEMMA RequestSent ==
  ASSUME RepliesInvariant, ResolveInvariant', NEW t \in Callers, Request(t)
  PROVE  RepliesInvariant'
<1> USE ARPAssumption DEF RepliesInvariant
<1>a. target[t] \in Addresses /\ pc[t] = "request" /\ At(t) \in Slots
  BY DEF Request, Goto, ResolveInvariant, Shape, CallLocations, HoldLocations, At
<1>b. requests' = [requests EXCEPT ![target[t]] = requests[target[t]] + 1]
  BY DEF Request
<1>1. FrameTypes'
  BY <1>a, <1>b DEF FrameTypes, Request, table
<1>2. LockHeld'
  BY DEF LockHeld, Request, Goto, At, table, ResolveInvariant, Types
<1>3. WaiterHasReply'
  <2> SUFFICES ASSUME NEW s \in Slots
               PROVE  Cardinality(Awaiting(s)') <= UnderWay(s)' + lost'[s]
    BY Zenon DEF WaiterHasReply
  <2>1. /\ SumFunctionOnSet(requests', Hosts(s)) =
             SumFunctionOnSet(requests, Hosts(s)) + (IF At(t) = s THEN 1 ELSE 0)
        /\ replies' = replies /\ lost' = lost
    <3>1. requests' \in [Addresses -> Nat] /\ requests \in [Addresses -> Nat] /\ 1 \in Int
      BY <1>1 DEF FrameTypes
    <3>2. /\ Slot[target[t]] = s => SumFunctionOnSet(requests', Hosts(s)) =
                                     SumFunctionOnSet(requests, Hosts(s)) + 1
          /\ Slot[target[t]] # s => SumFunctionOnSet(requests', Hosts(s)) =
                                     SumFunctionOnSet(requests, Hosts(s))
      <4>1. /\ requests'[target[t]] = requests[target[t]] + 1
            /\ requests[target[t]] \in Nat
            /\ \A x \in Addresses : x # target[t] => requests'[x] = requests[x]
        BY <1>a, <1>b, <3>1
      <4> QED BY <1>a, <3>1, <4>1, FrameMoves
    <3>3. SumFunctionOnSet(requests, Hosts(s)) \in Nat
      BY UnderWaySum
    <3> QED BY <3>2, <3>3 DEF Request, At
  <2>2. Entering(s)' = Entering(s)
    BY <1>a DEF Request, Goto, Entering, worker, ResolveInvariant, Types
  <2>3. UnderWay(s)' = UnderWay(s) + (IF At(t) = s THEN 1 ELSE 0)
    <3>1. UnderWay(s)' = SumFunctionOnSet(requests', Hosts(s))
                          + SumFunctionOnSet(replies', Hosts(s)) + Entering(s)'
      BY Zenon DEF UnderWay, Hosts, Entering
    <3> QED BY <2>1, <2>2, <3>1, UnderWaySum
  <2>4. Cardinality(Awaiting(s)) <= UnderWay(s) + lost[s]
    BY DEF WaiterHasReply
  <2>5. Awaiting(s)' = IF At(t) = s THEN Awaiting(s) \cup {t} ELSE Awaiting(s)
    BY <1>a DEF Awaiting, Request, Goto, At, table, ResolveInvariant, Types
  <2>6. /\ IsFiniteSet(Awaiting(s))
        /\ Cardinality(Awaiting(s)) \in Nat
        /\ UnderWay(s) \in Nat /\ lost[s] \in Nat
    BY AwaitingFinite, UnderWaySum DEF FrameTypes
  <2>7. Cardinality(Awaiting(s) \cup {t}) <= Cardinality(Awaiting(s)) + 1
    <3>1. Cardinality(Awaiting(s) \cup {t}) =
            IF t \in Awaiting(s) THEN Cardinality(Awaiting(s))
            ELSE Cardinality(Awaiting(s)) + 1
      BY <2>6, FS_AddElement, Zenon
    <3> QED BY <2>6, <3>1
  <2>8. CASE At(t) = s
    <3>1. Cardinality(Awaiting(s)') <= Cardinality(Awaiting(s)) + 1
      BY <2>5, <2>7, <2>8, Zenon
    <3>2. Cardinality(Awaiting(s)') \in Nat
      <4>1. Awaiting(s)' = Awaiting(s) \cup {t}
        BY <2>5, <2>8, Zenon
      <4>2. Cardinality(Awaiting(s) \cup {t}) \in Nat
        BY <2>6, FS_AddElement, FS_CardinalityType
      <4> QED BY <4>1, <4>2, Zenon
    <3> QED BY <2>1, <2>3, <2>4, <2>6, <2>8, <3>1, <3>2
  <2>9. CASE At(t) # s
    <3>1. Cardinality(Awaiting(s)') = Cardinality(Awaiting(s))
      BY <2>5, <2>9, Zenon
    <3> QED BY <2>1, <2>3, <2>4, <2>6, <2>9, <3>1
  <2> QED BY <2>8, <2>9
<1> QED BY <1>1, <1>2, <1>3

\* Who sleeps goes from those about to wait to the list.
LEMMA WaiterSleeps ==
  ASSUME RepliesInvariant, ResolveInvariant', NEW t \in Callers, Sleep(t)
  PROVE  RepliesInvariant'
<1> USE ARPAssumption DEF RepliesInvariant
<1>a. target[t] \in Addresses /\ pc[t] = "sleep" /\ At(t) \in Slots
  BY DEF Sleep, Goto, ResolveInvariant, Shape, CallLocations, HoldLocations, At
<1>1. FrameTypes'
  BY <1>a DEF FrameTypes, Sleep, network, Maybe
<1>2. LockHeld'
  BY <1>a DEF LockHeld, Sleep, Goto, At, ResolveInvariant, Types, FrameTypes
<1>3. WaiterHasReply'
  <2> SUFFICES ASSUME NEW s \in Slots
               PROVE  Cardinality(Awaiting(s)') <= UnderWay(s)' + lost'[s]
    BY Zenon DEF WaiterHasReply
  <2>1. UNCHANGED <<requests, replies, lost>>
    BY DEF Sleep, network
  <2>2. Entering(s)' = Entering(s)
    BY <1>a DEF Sleep, Goto, Entering, worker, ResolveInvariant, Types
  <2>3. UnderWay(s)' = UnderWay(s)
    <3>1. UnderWay(s)' = SumFunctionOnSet(requests', Hosts(s))
                          + SumFunctionOnSet(replies', Hosts(s)) + Entering(s)'
      BY Zenon DEF UnderWay, Hosts, Entering
    <3> QED BY <2>1, <2>2, <3>1, UnderWaySum
  <2>4. Cardinality(Awaiting(s)) <= UnderWay(s) + lost[s]
    BY DEF WaiterHasReply
  <2>5. ToSet(waiters'[s]) = IF At(t) = s THEN ToSet(waiters[s]) \cup {t}
                             ELSE ToSet(waiters[s])
    <3>1. CASE At(t) = s
      <4>1. waiters[s] \in Seq(Callers) /\ waiters'[s] = Append(waiters[s], t)
        BY <3>1 DEF Sleep, ResolveInvariant, Types
      <4>2. /\ Len(waiters'[s]) = Len(waiters[s]) + 1
            /\ waiters'[s][Len(waiters[s]) + 1] = t
            /\ \A i \in 1..Len(waiters[s]) : waiters'[s][i] = waiters[s][i]
            /\ waiters'[s] \in Seq(Callers) /\ Len(waiters[s]) \in Nat
        BY <4>1, AppendProperties
      <4> DEFINE v == waiters[s]
                 w == waiters'[s]
                 n == Len(v)
      <4>3. DOMAIN v = 1..n /\ DOMAIN w = 1..(n + 1)
        BY <4>1, <4>2
      <4> HIDE DEF v, w, n
      <4>a. n \in Nat /\ w[n + 1] = t /\ \A i \in 1..n : w[i] = v[i]
        BY <4>2 DEF v, w, n
      <4>b. ASSUME NEW i \in 1..(n + 1) PROVE i = n + 1 \/ i \in 1..n
        BY <4>a
      <4>c. ASSUME NEW i \in 1..n PROVE i \in 1..(n + 1)
        BY <4>a
      <4>d. n + 1 \in 1..(n + 1)
        BY <4>a
      <4>4. {w[i] : i \in 1..(n + 1)} = {v[i] : i \in 1..n} \cup {t}
        BY <4>a, <4>b, <4>c, <4>d, Zenon
      <4>5. ToSet(w) = ToSet(v) \cup {t}
        BY <4>3, <4>4, Zenon DEF ToSet
      <4> QED BY <3>1, <4>5 DEF v, w
    <3>2. CASE At(t) # s
      BY <3>2, <1>a DEF Sleep, ResolveInvariant, Types
    <3> QED BY <3>1, <3>2
  <2>6. Awaiting(s)' = Awaiting(s)
    BY <1>a, <2>5 DEF Awaiting, Sleep, Goto, At, ResolveInvariant, Types
  <2> QED BY <2>1, <2>3, <2>4, <2>6, Zenon
<1> QED BY <1>1, <1>2, <1>3

\* The worker takes a reply over from the network.
LEMMA ReplyTaken ==
  ASSUME RepliesInvariant, ResolveInvariant', NEW a \in Addresses, TakeReply(a)
  PROVE  RepliesInvariant'
<1> USE ARPAssumption DEF RepliesInvariant
<1>a. /\ pc[Worker] = "out" /\ reply' = a /\ a # None /\ Worker \in Callers
      /\ pc' = [pc EXCEPT ![Worker] = "racquire"]
      /\ UNCHANGED <<target, waiters, lock, requests, lost>>
  BY DEF TakeReply, Goto, Callers, table
<1>b. /\ replies \in [Addresses -> Nat] /\ replies[a] > 0
      /\ replies' = [replies EXCEPT ![a] = replies[a] - 1]
  BY DEF TakeReply, FrameTypes
<1>c. replies' \in [Addresses -> Nat]
  BY <1>b
<1>1. FrameTypes'
  BY <1>a, <1>c DEF FrameTypes
<1>2. LockHeld'
  BY <1>a DEF LockHeld, At, ResolveInvariant, Types
<1>3. WaiterHasReply'
  <2> SUFFICES ASSUME NEW s \in Slots
               PROVE  Cardinality(Awaiting(s)') <= UnderWay(s)' + lost'[s]
    BY Zenon DEF WaiterHasReply
  <2>1. /\ Slot[a] = s => SumFunctionOnSet(replies', Hosts(s)) =
                            SumFunctionOnSet(replies, Hosts(s)) - 1
        /\ Slot[a] # s => SumFunctionOnSet(replies', Hosts(s)) =
                            SumFunctionOnSet(replies, Hosts(s))
        /\ SumFunctionOnSet(replies', Hosts(s)) \in Nat
    <3>1. /\ replies'[a] = replies[a] - 1 /\ replies[a] \in Nat
          /\ \A x \in Addresses : x # a => replies'[x] = replies[x]
      BY <1>b
    <3>5. replies \in [Addresses -> Nat] /\ replies' \in [Addresses -> Nat]
      BY <1>b, <1>c
    <3>2. ASSUME Slot[a] = s
          PROVE  SumFunctionOnSet(replies', Hosts(s)) =
                   SumFunctionOnSet(replies, Hosts(s)) + (replies'[a] - replies[a])
      BY <3>1, <3>2, <3>5, FrameMoves
    <3>4. ASSUME Slot[a] # s
          PROVE  SumFunctionOnSet(replies', Hosts(s)) = SumFunctionOnSet(replies, Hosts(s))
      BY <3>1, <3>4, <3>5, FrameMoves
    <3>3. /\ SumFunctionOnSet(replies, Hosts(s)) \in Nat
          /\ SumFunctionOnSet(replies', Hosts(s)) \in Nat
      BY <1>b, <1>c, FramesCount
    <3> QED BY <3>1, <3>2, <3>3, <3>4
  <2>2. /\ Entering(s) = 0 /\ Slot[a] = s => Entering(s)' = 1
        /\ Slot[a] # s => Entering(s)' = 0
    BY <1>a DEF Entering, ResolveInvariant, Types
  <2>a. Entering(s) = 0
    BY <1>a DEF Entering
  <2>3. UnderWay(s)' = UnderWay(s)
    <3>1. UnderWay(s)' = SumFunctionOnSet(requests', Hosts(s))
                          + SumFunctionOnSet(replies', Hosts(s)) + Entering(s)'
      BY Zenon DEF UnderWay, Hosts, Entering
    <3>2. CASE Slot[a] = s
      BY <1>a, <2>1, <2>2, <2>a, <3>1, <3>2, UnderWaySum
    <3>3. CASE Slot[a] # s
      BY <1>a, <2>1, <2>2, <2>a, <3>1, <3>3, UnderWaySum
    <3> QED BY <3>2, <3>3
  <2>4. Cardinality(Awaiting(s)) <= UnderWay(s) + lost[s]
    BY DEF WaiterHasReply
  <2>5. Awaiting(s)' = Awaiting(s)
    BY <1>a DEF Awaiting, At, ResolveInvariant, Types
  <2> QED BY <1>a, <2>3, <2>4, <2>5, Zenon
<1> QED BY <1>1, <1>2, <1>3

\* The reply wakes a waiter, or nobody waits or is about to: whoever goes to
\* sleep holds the mutex or lock_ until it is in the list.
LEMMA WaiterSent ==
  ASSUME RepliesInvariant, ResolveInvariant', Send
  PROVE  RepliesInvariant'
<1> USE ARPAssumption DEF RepliesInvariant
<1> DEFINE r == Slot[reply]
<1>a. /\ pc[Worker] = "send" /\ Worker \in Callers /\ reply \in Addresses /\ reply # None
      /\ pc' = [pc EXCEPT ![Worker] = "wakeup"]
      /\ pc'[Worker] = "wakeup" /\ \A t \in Callers : t # Worker => pc'[t] = pc[t]
      /\ UNCHANGED <<target, lock, mutex, reply, requests, replies, lost>>
      /\ r \in Slots /\ lock[r] = None
  <2>1. pc[Worker] = "send" /\ pc' = [pc EXCEPT ![Worker] = "wakeup"]
    BY DEF Send, Goto
  <2>2. reply \in Addresses
    BY <2>1 DEF ResolveInvariant, Shape, ReplyLocations, EnterLocations
  <2>3. pc'[Worker] = "wakeup" /\ \A t \in Callers : t # Worker => pc'[t] = pc[t]
    BY <2>1 DEF ResolveInvariant, Types, Callers
  <2>4. UNCHANGED <<target, lock, mutex, reply, requests, replies, lost>> /\ lock[r] = None
    BY DEF Send, network
  <2> QED BY <2>1, <2>2, <2>3, <2>4 DEF Callers
<1>1. FrameTypes'
  BY <1>a DEF FrameTypes
<1>2. LockHeld'
  BY <1>a DEF LockHeld, At
<1>3. WaiterHasReply'
  <2> SUFFICES ASSUME NEW s \in Slots
               PROVE  Cardinality(Awaiting(s)') <= UnderWay(s)' + lost'[s]
    BY Zenon DEF WaiterHasReply
  <2>1. UnderWay(s) = SumFunctionOnSet(requests, Hosts(s))
                        + SumFunctionOnSet(replies, Hosts(s)) + Entering(s)
    BY UnderWaySum
  <2>2. UnderWay(s)' = SumFunctionOnSet(requests', Hosts(s))
                        + SumFunctionOnSet(replies', Hosts(s)) + Entering(s)'
    BY Zenon DEF UnderWay, Hosts, Entering
  <2>3. /\ SumFunctionOnSet(requests, Hosts(s)) \in Nat
        /\ SumFunctionOnSet(replies, Hosts(s)) \in Nat /\ lost[s] \in Nat
    BY UnderWaySum DEF FrameTypes
  <2>4. Cardinality(Awaiting(s)) <= UnderWay(s) + lost[s]
    BY DEF WaiterHasReply
  <2>5. CASE s # r
    <3>1. Entering(s)' = Entering(s)
      BY <1>a, <2>5 DEF Entering
    <3>2. waiters'[s] = waiters[s]
      BY <1>a, <2>5 DEF Send, ResolveInvariant, Types
    <3>3. Awaiting(s)' = Awaiting(s)
      BY <1>a, <3>2 DEF Awaiting, At
    <3> QED BY <1>a, <2>1, <2>2, <2>4, <3>1, <3>3, Zenon
  <2>6. CASE s = r
    <3>1. Entering(s) = 1 /\ Entering(s)' = 0
      BY <1>a, <2>6 DEF Entering
    <3>2. {t \in Callers : pc[t] \in {"cvlock", "cvrelease", "sleep"} /\ At(t) = s} = {}
      <4> SUFFICES ASSUME NEW t \in Callers, pc[t] \in {"cvlock", "cvrelease", "sleep"},
                          At(t) = s
                   PROVE  FALSE
        OBVIOUS
      <4>1. mutex[r] = Worker
        BY <1>a DEF ResolveInvariant, MutexHeld, EnterLocations
      <4>2. CASE pc[t] \in {"cvlock", "cvrelease"}
        <5>1. mutex[At(t)] = t
          BY <4>2 DEF ResolveInvariant, MutexHeld, HoldLocations
        <5> QED BY <1>a, <2>6, <4>1, <4>2, <5>1
      <4>3. CASE pc[t] = "sleep"
        <5>1. lock[At(t)] = t
          BY <4>3 DEF LockHeld
        <5> QED BY <1>a, <2>6, <5>1 DEF Callers
      <4> QED BY <4>2, <4>3
    <3>3. {t \in Callers : pc'[t] \in {"cvlock", "cvrelease", "sleep"} /\ At(t)' = s} = {}
      BY <1>a, <3>2 DEF At
    <3>4. Awaiting(s) = ToSet(waiters[s]) /\ Awaiting(s)' = ToSet(waiters'[s])
      <4>1. Awaiting(s) = ToSet(waiters[s])
        BY <3>2, Zenon DEF Awaiting
      <4>2. Awaiting(s)' = ToSet(waiters'[s])
        BY <3>3, Zenon DEF Awaiting
      <4> QED BY <4>1, <4>2
    <3>5. CASE waiters[s] = <<>>
      <4>1. waiters'[s] = <<>>
        BY <2>6, <3>5 DEF Send
      <4>2. ToSet(<<>>) = {}
        BY DEF ToSet
      <4>3. Cardinality(Awaiting(s)') = 0
        BY <3>4, <4>1, <4>2, FS_EmptySet, Zenon
      <4> QED BY <1>a, <2>2, <2>3, <3>1, <4>3
    <3>6. CASE waiters[s] # <<>>
      <4> DEFINE v == waiters[s]
                 w == waiters'[s]
      <4>1. v \in Seq(Callers) /\ w = Tail(v)
        BY <1>a, <2>6, <3>6 DEF Send, ResolveInvariant, Types
      <4>2. \A i, j \in 1..Len(v) : v[i] = v[j] => i = j
        BY DEF ResolveInvariant, WaitersAsleep
      <4>3. v # <<>>
        BY <3>6
      <4> HIDE DEF v, w
      <4>4. /\ Len(v) \in Nat \ {0} /\ DOMAIN v = 1..Len(v) /\ DOMAIN w = 1..(Len(v) - 1)
            /\ \A i \in 1..(Len(v) - 1) : w[i] = v[i + 1] /\ i + 1 \in 1..Len(v) /\ i + 1 # 1
            /\ \A i \in 1..Len(v) : i # 1 => i - 1 \in 1..(Len(v) - 1) /\ (i - 1) + 1 = i
            /\ 1 \in 1..Len(v)
        BY <4>1, <4>3, HeadTailProperties
      <4>5. ToSet(w) = ToSet(v) \ {v[1]} /\ v[1] \in ToSet(v)
        <5>1. ASSUME NEW x \in ToSet(w) PROVE x \in ToSet(v) /\ x # v[1]
          <6>1. PICK i \in 1..(Len(v) - 1) : x = w[i]
            BY <4>4 DEF ToSet
          <6> QED BY <4>2, <4>4, <6>1 DEF ToSet
        <5>2. ASSUME NEW x \in ToSet(v), x # v[1] PROVE x \in ToSet(w)
          <6>1. PICK i \in 1..Len(v) : x = v[i]
            BY <4>4 DEF ToSet
          <6>2. i # 1
            BY <5>2, <6>1
          <6>3. i - 1 \in DOMAIN w /\ w[i - 1] = x
            BY <4>4, <6>1, <6>2
          <6> QED BY <6>3 DEF ToSet
        <5>3. v[1] \in ToSet(v)
          BY <4>4 DEF ToSet
        <5> QED BY <5>1, <5>2, <5>3
      <4>6. IsFiniteSet(ToSet(v)) /\ Cardinality(ToSet(v)) \in Nat
        BY <3>4, AwaitingFinite DEF v
      <4>7. Cardinality(ToSet(w)) = Cardinality(ToSet(v)) - 1
        <5>1. Cardinality(ToSet(v) \ {v[1]}) = Cardinality(ToSet(v)) - 1
          BY <4>5, <4>6, FS_RemoveElement
        <5> QED BY <4>5, <5>1, Zenon
      <4>8. Cardinality(Awaiting(s)') = Cardinality(Awaiting(s)) - 1
        BY <3>4, <4>7, Zenon DEF v, w
      <4>9. Cardinality(Awaiting(s)) \in Nat
        BY AwaitingFinite
      <4> QED BY <1>a, <2>1, <2>2, <2>3, <2>4, <3>1, <4>8, <4>9
    <3> QED BY <3>5, <3>6
  <2> QED BY <2>5, <2>6
<1> QED BY <1>1, <1>2, <1>3

\* An answer makes a reply of a request; what is lost is counted.
LEMMA NetworkKeeps ==
  ASSUME RepliesInvariant, ResolveInvariant', NEW a \in Addresses, Answer(a) \/ Lose(a)
  PROVE  RepliesInvariant'
<1> USE ARPAssumption DEF RepliesInvariant
<1>a. UNCHANGED <<waiters, lock, pc, target, reply>> /\ Slot[a] \in Slots
  BY DEF Answer, Lose, table, callers, worker
<1>b. /\ requests \in [Addresses -> Nat] /\ replies \in [Addresses -> Nat]
      /\ lost \in [Slots -> Nat]
  BY DEF FrameTypes
<1>c. \/ /\ requests' = [requests EXCEPT ![a] = @ - 1] /\ requests[a] > 0
         /\ replies' = [replies EXCEPT ![a] = @ + 1] /\ lost' = lost
      \/ /\ requests' = [requests EXCEPT ![a] = @ - 1] /\ requests[a] > 0
         /\ replies' = replies /\ lost' = [lost EXCEPT ![Slot[a]] = @ + 1]
      \/ /\ requests' = requests
         /\ replies' = [replies EXCEPT ![a] = @ - 1] /\ replies[a] > 0
         /\ lost' = [lost EXCEPT ![Slot[a]] = @ + 1]
  BY DEF Answer, Lose
<1>d. /\ requests' \in [Addresses -> Nat] /\ replies' \in [Addresses -> Nat]
      /\ lost' \in [Slots -> Nat]
      /\ \A x \in Addresses : x # a => requests'[x] = requests[x]
      /\ \A x \in Addresses : x # a => replies'[x] = replies[x]
      /\ \A s \in Slots : s # Slot[a] => lost'[s] = lost[s]
      /\ requests[a] \in Nat /\ replies[a] \in Nat /\ lost[Slot[a]] \in Nat
      /\ (requests'[a] - requests[a]) + (replies'[a] - replies[a])
           + (lost'[Slot[a]] - lost[Slot[a]]) = 0
      /\ requests'[a] \in Nat /\ replies'[a] \in Nat /\ lost'[Slot[a]] \in Nat
  <2>1. CASE /\ requests' = [requests EXCEPT ![a] = @ - 1] /\ requests[a] > 0
             /\ replies' = [replies EXCEPT ![a] = @ + 1] /\ lost' = lost
    BY <1>a, <1>b, <2>1
  <2>2. CASE /\ requests' = [requests EXCEPT ![a] = @ - 1] /\ requests[a] > 0
             /\ replies' = replies /\ lost' = [lost EXCEPT ![Slot[a]] = @ + 1]
    BY <1>a, <1>b, <2>2
  <2>3. CASE /\ requests' = requests
             /\ replies' = [replies EXCEPT ![a] = @ - 1] /\ replies[a] > 0
             /\ lost' = [lost EXCEPT ![Slot[a]] = @ + 1]
    BY <1>a, <1>b, <2>3
  <2> QED BY <1>c, <2>1, <2>2, <2>3
<1>1. FrameTypes'
  BY <1>a, <1>d DEF FrameTypes
<1>2. LockHeld'
  BY <1>a DEF LockHeld, At
<1>3. WaiterHasReply'
  <2> SUFFICES ASSUME NEW s \in Slots
               PROVE  Cardinality(Awaiting(s)') <= UnderWay(s)' + lost'[s]
    BY Zenon DEF WaiterHasReply
  <2>1. Entering(s)' = Entering(s)
    BY <1>a DEF Entering
  <2>2. UnderWay(s)' = SumFunctionOnSet(requests', Hosts(s))
                        + SumFunctionOnSet(replies', Hosts(s)) + Entering(s)'
    BY Zenon DEF UnderWay, Hosts, Entering
  <2>7. /\ requests \in [Addresses -> Nat] /\ requests' \in [Addresses -> Nat]
        /\ \A x \in Addresses : x # a => requests'[x] = requests[x]
    BY <1>b, <1>d
  <2>8. /\ replies \in [Addresses -> Nat] /\ replies' \in [Addresses -> Nat]
        /\ \A x \in Addresses : x # a => replies'[x] = replies[x]
    BY <1>b, <1>d
  <2>3. ASSUME Slot[a] = s
        PROVE  SumFunctionOnSet(requests', Hosts(s)) =
                 SumFunctionOnSet(requests, Hosts(s)) + (requests'[a] - requests[a])
    BY <2>7, <2>3, FrameMoves
  <2>3a. ASSUME Slot[a] # s
         PROVE  SumFunctionOnSet(requests', Hosts(s)) = SumFunctionOnSet(requests, Hosts(s))
    BY <2>7, <2>3a, FrameMoves
  <2>4. ASSUME Slot[a] = s
        PROVE  SumFunctionOnSet(replies', Hosts(s)) =
                 SumFunctionOnSet(replies, Hosts(s)) + (replies'[a] - replies[a])
    BY <2>8, <2>4, FrameMoves
  <2>4a. ASSUME Slot[a] # s
         PROVE  SumFunctionOnSet(replies', Hosts(s)) = SumFunctionOnSet(replies, Hosts(s))
    BY <2>8, <2>4a, FrameMoves
  <2>5. /\ lost[s] \in Nat /\ lost'[s] \in Nat
        /\ SumFunctionOnSet(requests, Hosts(s)) \in Nat
        /\ SumFunctionOnSet(requests', Hosts(s)) \in Nat
        /\ SumFunctionOnSet(replies, Hosts(s)) \in Nat
        /\ SumFunctionOnSet(replies', Hosts(s)) \in Nat
    BY <1>b, <1>d, FramesCount
  <2>6. UnderWay(s)' + lost'[s] = UnderWay(s) + lost[s]
    <3>1. CASE Slot[a] = s
      <4>1. (requests'[a] - requests[a]) + (replies'[a] - replies[a])
              + (lost'[s] - lost[s]) = 0
        BY <1>d, <3>1
      <4>2. /\ requests[a] \in Nat /\ replies[a] \in Nat
            /\ requests'[a] \in Nat /\ replies'[a] \in Nat
        BY <1>d
      <4>3. /\ SumFunctionOnSet(requests', Hosts(s)) =
                 SumFunctionOnSet(requests, Hosts(s)) + (requests'[a] - requests[a])
            /\ SumFunctionOnSet(replies', Hosts(s)) =
                 SumFunctionOnSet(replies, Hosts(s)) + (replies'[a] - replies[a])
        BY <2>3, <2>4, <3>1
      <4>4. /\ Entering(s) \in {0, 1}
            /\ UnderWay(s) = SumFunctionOnSet(requests, Hosts(s))
                              + SumFunctionOnSet(replies, Hosts(s)) + Entering(s)
        BY UnderWaySum
      <4> DEFINE d == requests'[a] - requests[a]
                 e == replies'[a] - replies[a]
                 l == lost'[s] - lost[s]
                 p == SumFunctionOnSet(requests, Hosts(s))
                 q == SumFunctionOnSet(replies, Hosts(s))
      <4>5. /\ d \in Int /\ e \in Int /\ l \in Int /\ d + e + l = 0
            /\ p \in Nat /\ q \in Nat
        BY <2>5, <4>1, <4>2
      <4>6. UnderWay(s)' = (p + d) + (q + e) + Entering(s)
        BY <2>1, <2>2, <4>3
      <4>7. lost'[s] = lost[s] + l
        BY <2>5
      <4>8. UnderWay(s) = p + q + Entering(s)
        BY <4>4
      <4> HIDE DEF d, e, l, p, q
      <4> QED BY <2>5, <4>4, <4>5, <4>6, <4>7, <4>8
    <3>2. CASE Slot[a] # s
      BY <1>d, <2>1, <2>2, <2>3a, <2>4a, <2>5, <3>2, UnderWaySum
    <3> QED BY <3>1, <3>2
  <2>9. Cardinality(Awaiting(s)) <= UnderWay(s) + lost[s]
    BY DEF WaiterHasReply
  <2>10. Awaiting(s)' = Awaiting(s)
    BY <1>a DEF Awaiting, At
  <2> QED BY <2>6, <2>9, <2>10, Zenon
<1> QED BY <1>1, <1>2, <1>3

\* Nobody waits at first.
LEMMA RepliesInit == Init => RepliesInvariant
<1> SUFFICES ASSUME Init PROVE RepliesInvariant
  OBVIOUS
<1>1. ResolveInvariant
  BY ResolveInit
<1>2. FrameTypes /\ LockHeld
  BY ARPAssumption DEF Init, FrameTypes, LockHeld, Maybe, Callers
<1>3. ASSUME NEW s \in Slots PROVE Cardinality(Awaiting(s)) <= UnderWay(s) + lost[s]
  <2>1. waiters[s] = <<>> /\ \A t \in Callers : pc[t] = "out"
    BY DEF Init
  <2>2. ToSet(waiters[s]) = {}
    BY <2>1 DEF ToSet
  <2>3. Awaiting(s) = {}
    BY <2>1, <2>2 DEF Awaiting
  <2>4. Cardinality(Awaiting(s)) = 0
    BY <2>3, FS_EmptySet, Zenon
  <2>5. lost[s] \in Nat
    BY <1>2 DEF FrameTypes
  <2> QED BY <1>2, <2>4, <2>5, UnderWaySum
<1> QED BY <1>1, <1>2, <1>3 DEF RepliesInvariant, WaiterHasReply

\* Every step keeps it.
LEMMA RepliesStep == RepliesInvariant /\ [Next]_vars => RepliesInvariant'
<1> SUFFICES ASSUME RepliesInvariant, [Next]_vars PROVE RepliesInvariant'
  OBVIOUS
<1>0. ResolveInvariant'
  BY ResolveStep DEF RepliesInvariant
<1>1. ASSUME NEW t \in Callers, Resolve(t) PROVE RepliesInvariant'
  BY <1>0, <1>1, QuietSteps, RequestSent, WaiterSleeps DEF Resolve
<1>2. ASSUME NEW t \in Callers, NEW a \in Addresses, Call(t, a) PROVE RepliesInvariant'
  BY <1>0, <1>2, QuietSteps
<1>3. CASE OnReply
  BY <1>0, <1>3, QuietSteps, ReplyTaken, WaiterSent DEF OnReply
<1>4. ASSUME NEW a \in Addresses, Answer(a) \/ Lose(a) PROVE RepliesInvariant'
  BY <1>0, <1>4, NetworkKeeps
<1>5. CASE UNCHANGED vars
  <2>1. UNCHANGED <<pc, target, lock, waiters, reply, requests, replies, lost>>
    BY <1>5 DEF vars, table, callers, worker, network
  <2>2. FrameTypes' /\ LockHeld'
    BY <2>1 DEF RepliesInvariant, FrameTypes, LockHeld, At
  <2>3. WaiterHasReply'
    BY <2>1, NothingMoves DEF RepliesInvariant, Entering
  <2> QED BY <1>0, <2>2, <2>3 DEF RepliesInvariant
<1> QED BY <1>1, <1>2, <1>3, <1>4, <1>5 DEF Next

\* No reply is missed between the test of the entry and the sleep: each waiter
\* has a frame under way that wakes it or another, but for those that were lost
\* (ARP.hpp:71-72, ConditionalVariable.hpp:31-38).
THEOREM EveryWaiterHasReply == Spec => []WaiterHasReply
<1>1. RepliesInvariant => WaiterHasReply
  BY DEF RepliesInvariant
<1> QED BY <1>1, RepliesInit, RepliesStep, PTL DEF Spec
=============================================================================
