---------------------- MODULE VirtualInterruptsProofs ----------------------
(***************************************************************************)
(* Theorems of VirtualInterrupts for any number of harts, virtual machines,*)
(* workers and interrupts: every variable keeps its type, a hart shows the *)
(* bits of the virtual CPU it executes and of no other, and the notice of  *)
(* an interrupt is lost in the four windows of the code only.              *)
(*                                                                         *)
(* The queues are per core (the criteria of the hypervisor's threads), so  *)
(* a virtual CPU only ever has the hart of its own queue: that is what     *)
(* makes the accesses to external_, which no lock guards, go well, and the *)
(* inductive invariant says it part by part.                               *)
(***************************************************************************)
EXTENDS VirtualInterrupts, TLAPS

\* A thread has only the hart of its own queue.
ThreadsAtHome ==
  \A c \in Cores :
    /\ running[c] # None => Home[running[c]] = c
    /\ following[c] # None => Home[following[c]] = c

\* The context of a thread restores its own virtual CPU; a hart and its
\* virtual CPU name each other but for the middle of a switch, where the
\* virtual CPU is already saved.
VcpusAtHome ==
  /\ \A v \in VCPUs :
       /\ cpu[v] \in {v, None}
       /\ core[v] # None => core[v] = Home[v] /\ current[Home[v]] = v
  /\ \A c \in Cores :
       /\ current[c] # None =>
            /\ Home[current[c]] = c
            /\ pc[c] = "next" => core[current[c]] = None
            /\ pc[c] # "next" => running[c] = current[c] /\ core[current[c]] = c
       /\ pc[c] = "external" => current[c] # None

\* What the bits of a virtual CPU stand for.
Caused(bits, v) ==
  /\ "TI" \in bits => Due(v)
  /\ "EI" \in bits => external[v]

\* The bits in mip have their cause in the virtual CPU of the hart, and those
\* in sip_ in their own, from the save to the restore.
BitsAreCaused ==
  /\ \A c \in Cores : pc[c] \notin {"next", "external"} =>
       /\ current[c] = None => mip[c] = {}
       /\ current[c] # None => Caused(mip[c], current[c])
  /\ \A v \in VCPUs : core[v] = None \/ pc[Home[v]] = "external" =>
       Caused(sip[v], v)

\* An actor at work has a machine and an interrupt; a trap handler keeps its
\* hart; only the hart of a guest handles the guest's accesses; and the core
\* that an actor has read is the one of its machine's queue.
ActorsAtWork ==
  \A a \in Actors :
    /\ step[a] # "out" => target[a] # None
    /\ a \in Cores => (step[a] = "out" <=> pc[a] # "trap")
    /\ step[a] \in {"or", "or_cas"} => irq[a] \in Irqs
    /\ step[a] \in {"and", "and_cas", "pending", "clear"} =>
         a \in Cores /\ current[a] = target[a]
    /\ step[a] \in {"external", "kick"} /\ hart[a] # None =>
         /\ hart[a] = Home[target[a]]
         /\ a \in Cores /\ hart[a] = a => current[a] = target[a]
    /\ step[a] = "kick" /\ a \in Cores /\ current[a] = target[a] =>
         external[target[a]]


\* The types, group by group.
HartTypes ==
  /\ pc \in [Cores -> {"run", "save", "next", "external", "ipi", "trap"}]
  /\ running \in [Cores -> Threads \cup {None}]
  /\ following \in [Cores -> Threads \cup {None}]
  /\ cpu \in [VCPUs -> VCPUs \cup {None}]
  /\ current \in [Cores -> VCPUs \cup {None}]
  /\ mip \in [Cores -> SUBSET {"TI", "EI"}]
  /\ msip \in [Cores -> BOOLEAN]
  /\ mtime \in 0..MaxTime

MachineTypes ==
  /\ core \in [VCPUs -> Cores \cup {None}]
  /\ external \in [VCPUs -> BOOLEAN]
  /\ sip \in [VCPUs -> SUBSET {"TI", "EI"}]
  /\ mtimecmp \in [VCPUs -> Times]

PlicTypes ==
  /\ pending \in [VCPUs -> SUBSET Irqs]
  /\ enabled \in [VCPUs -> [Contexts -> SUBSET Irqs]]
  /\ priority \in [VCPUs -> [Irqs -> Levels]]
  /\ threshold \in [VCPUs -> [Contexts -> Levels]]

ActorTypes ==
  /\ step \in [Actors -> {"out", "or", "or_cas", "core", "external", "kick",
                          "and", "and_cas", "pending", "clear"}]
  /\ target \in [Actors -> VCPUs \cup {None}]
  /\ irq \in [Actors -> Irqs \cup {0}]
  /\ seen \in [Actors -> SUBSET Irqs]
  /\ hart \in [Actors -> Cores \cup {None}]

Inv ==
  /\ HartTypes /\ MachineTypes /\ PlicTypes /\ ActorTypes
  /\ ThreadsAtHome /\ VcpusAtHome /\ BitsAreCaused /\ ActorsAtWork

USE VirtualInterruptsAssumption
USE DEF Threads, Actors, harts, machines, plic, actors

\* Tick preserves the invariant.
LEMMA TickInv ==
  ASSUME Inv, NEW c \in Cores, Tick(c)
  PROVE  Inv'
<1>1. HartTypes'
  BY DEF Inv, HartTypes, Tick, Ready
<1>2. MachineTypes'
  BY DEF Inv, MachineTypes, Tick
<1>3. PlicTypes'
  BY DEF Inv, PlicTypes, Tick
<1>4. ActorTypes'
  BY DEF Inv, ActorTypes, Tick
<1>5. ThreadsAtHome'
  BY DEF Inv, HartTypes, ThreadsAtHome, Tick, Ready
<1>6. VcpusAtHome'
  BY DEF Inv, HartTypes, VcpusAtHome, Tick
<1>7. BitsAreCaused'
  BY DEF Inv, HartTypes, BitsAreCaused, Caused, Due, Tick
<1>8. ActorsAtWork'
  BY DEF Inv, HartTypes, ActorsAtWork, Tick
<1>9. QED  BY <1>1, <1>2, <1>3, <1>4, <1>5, <1>6, <1>7, <1>8 DEF Inv

\* Yield preserves the invariant.
LEMMA YieldInv ==
  ASSUME Inv, NEW c \in Cores, NEW t \in Threads \cup {None}, Yield(c, t)
  PROVE  Inv'
<1>1. HartTypes'
  BY DEF Inv, HartTypes, Yield
<1>2. MachineTypes'
  BY DEF Inv, MachineTypes, Yield
<1>3. PlicTypes'
  BY DEF Inv, PlicTypes, Yield
<1>4. ActorTypes'
  BY DEF Inv, ActorTypes, Yield
<1>5. ThreadsAtHome'
  BY DEF Inv, ThreadsAtHome, Yield, Ready
<1>6. VcpusAtHome'
  BY DEF Inv, VcpusAtHome, Yield
<1>7. BitsAreCaused'
  BY DEF Inv, BitsAreCaused, Caused, Due, Yield
<1>8. ActorsAtWork'
  BY DEF Inv, ActorsAtWork, Yield
<1>9. QED  BY <1>1, <1>2, <1>3, <1>4, <1>5, <1>6, <1>7, <1>8 DEF Inv

\* Save preserves the invariant.
LEMMA SaveInv ==
  ASSUME Inv, NEW c \in Cores, Save(c)
  PROVE  Inv'
<1>1. HartTypes'
  BY DEF Inv, HartTypes, Save
<1>2. MachineTypes'
  BY DEF Inv, HartTypes, MachineTypes, Save
<1>3. PlicTypes'
  BY DEF Inv, PlicTypes, Save
<1>4. ActorTypes'
  BY DEF Inv, ActorTypes, Save
<1>5. ThreadsAtHome'
  BY DEF Inv, ThreadsAtHome, Save
<1>6. VcpusAtHome'
  BY DEF Inv, HartTypes, MachineTypes, VcpusAtHome, Save
<1>7. BitsAreCaused'
  <2>1. ASSUME NEW d \in Cores, pc'[d] \notin {"next", "external"}
        PROVE  /\ current'[d] = None => mip'[d] = {}
               /\ current'[d] # None => Caused(mip[d], current[d])
    BY <2>1 DEF Inv, BitsAreCaused, Save
  <2>2. ASSUME NEW v \in VCPUs, core'[v] = None \/ pc'[Home[v]] = "external"
        PROVE  Caused(sip'[v], v)
    <3>1. CASE v = current[c]
      BY <3>1 DEF Inv, MachineTypes, BitsAreCaused, Save
    <3>2. CASE v # current[c]
      BY <2>2, <3>2 DEF Inv, MachineTypes, BitsAreCaused, Save
    <3>3. QED  BY <3>1, <3>2
  <2>3. QED  BY <2>1, <2>2 DEF BitsAreCaused, Caused, Due, Save
<1>8. ActorsAtWork'
  BY DEF Inv, ActorsAtWork, Save
<1>9. QED  BY <1>1, <1>2, <1>3, <1>4, <1>5, <1>6, <1>7, <1>8 DEF Inv

\* SwitchIn preserves the invariant.
LEMMA SwitchInInv ==
  ASSUME Inv, NEW c \in Cores, SwitchIn(c)
  PROVE  Inv'
<1>1. HartTypes'
  BY DEF Inv, HartTypes, SwitchIn, Activate
<1>2. MachineTypes'
  BY DEF Inv, MachineTypes, SwitchIn, Activate
<1>3. PlicTypes'
  BY DEF Inv, PlicTypes, SwitchIn
<1>4. ActorTypes'
  BY DEF Inv, ActorTypes, SwitchIn
<1>5. ThreadsAtHome'
  BY DEF Inv, ThreadsAtHome, SwitchIn
<1>6. VcpusAtHome'
  BY DEF Inv, HartTypes, MachineTypes, ThreadsAtHome, VcpusAtHome, SwitchIn, Activate
<1>7. BitsAreCaused'
  <2> DEFINE t == running[c]
             v == IF t \in VCPUs THEN cpu[t] ELSE None
  <2>1. CASE v # None /\ Activate(c, v) /\ UNCHANGED mip
    <3>1. v \in VCPUs /\ Home[v] = c
      BY <2>1 DEF Inv, ThreadsAtHome, VcpusAtHome
    <3>2. core[v] = None
      BY <3>1 DEF Inv, VcpusAtHome, SwitchIn
    <3>3. ASSUME NEW u \in VCPUs, core'[u] = None \/ pc'[Home[u]] = "external"
          PROVE  Caused(sip'[u], u)
      <4>1. CASE u = v
        BY <4>1, <2>1, <3>1, <3>2 DEF Inv, MachineTypes, BitsAreCaused, Activate, Caused
      <4>2. CASE u # v
        <5>1. core[u] = None \/ pc[Home[u]] = "external"
          BY <4>2, <3>3, <3>1, <2>1 DEF Inv, HartTypes, MachineTypes, VcpusAtHome,
                                        Activate, SwitchIn
        <5>2. QED  BY <5>1, <4>2, <2>1 DEF Inv, MachineTypes, BitsAreCaused, Activate
      <4>3. QED  BY <4>1, <4>2
    <3>4. QED
      BY <2>1, <3>3 DEF Inv, BitsAreCaused, Activate, SwitchIn, Caused, Due
  <2>2. CASE v = None /\ mip' = [mip EXCEPT ![c] = {}]
               /\ current' = [current EXCEPT ![c] = None]
               /\ pc' = [pc EXCEPT ![c] = "run"] /\ UNCHANGED <<core, sip>>
    BY <2>2 DEF Inv, HartTypes, BitsAreCaused, SwitchIn, Caused, Due
  <2>3. QED  BY <2>1, <2>2 DEF SwitchIn
<1>8. ActorsAtWork'
  BY DEF Inv, HartTypes, ActorsAtWork, SwitchIn, Activate
<1>9. QED  BY <1>1, <1>2, <1>3, <1>4, <1>5, <1>6, <1>7, <1>8 DEF Inv

\* Boot preserves the invariant.
LEMMA BootInv ==
  ASSUME Inv, NEW c \in Cores, Boot(c)
  PROVE  Inv'
<1>1. HartTypes'
  BY DEF Inv, HartTypes, Boot, Activate
<1>2. MachineTypes'
  BY DEF Inv, MachineTypes, Boot, Activate
<1>3. PlicTypes'
  BY DEF Inv, PlicTypes, Boot
<1>4. ActorTypes'
  BY DEF Inv, ActorTypes, Boot
<1>5. ThreadsAtHome'
  BY DEF Inv, ThreadsAtHome, Boot
<1>6. VcpusAtHome'
  BY DEF Inv, HartTypes, MachineTypes, ThreadsAtHome, VcpusAtHome, Boot, Activate
<1>7. BitsAreCaused'
  BY DEF Inv, VcpusAtHome, BitsAreCaused, Caused, Due, Boot, Activate
<1>8. ActorsAtWork'
  BY DEF Inv, ActorsAtWork, Boot, Activate
<1>9. QED  BY <1>1, <1>2, <1>3, <1>4, <1>5, <1>6, <1>7, <1>8 DEF Inv

\* External preserves the invariant.
LEMMA ExternalInv ==
  ASSUME Inv, NEW c \in Cores, External(c)
  PROVE  Inv'
<1>1. HartTypes'
  BY DEF Inv, HartTypes, MachineTypes, VcpusAtHome, External
<1>2. MachineTypes'
  BY DEF Inv, MachineTypes, External
<1>3. PlicTypes'
  BY DEF Inv, PlicTypes, External
<1>4. ActorTypes'
  BY DEF Inv, ActorTypes, External
<1>5. ThreadsAtHome'
  BY DEF Inv, ThreadsAtHome, External
<1>6. VcpusAtHome'
  BY DEF Inv, VcpusAtHome, External
<1>7. BitsAreCaused'
  BY DEF Inv, HartTypes, VcpusAtHome, BitsAreCaused, Caused, Due, External
<1>8. ActorsAtWork'
  BY DEF Inv, ActorsAtWork, External
<1>9. QED  BY <1>1, <1>2, <1>3, <1>4, <1>5, <1>6, <1>7, <1>8 DEF Inv

\* Ipi preserves the invariant.
LEMMA IpiInv ==
  ASSUME Inv, NEW c \in Cores, Ipi(c)
  PROVE  Inv'
<1>1. HartTypes'
  BY DEF Inv, HartTypes, Ipi
<1>2. MachineTypes'
  BY DEF Inv, MachineTypes, Ipi
<1>3. PlicTypes'
  BY DEF Inv, PlicTypes, Ipi
<1>4. ActorTypes'
  BY DEF Inv, ActorTypes, Ipi
<1>5. ThreadsAtHome'
  BY DEF Inv, ThreadsAtHome, Ipi
<1>6. VcpusAtHome'
  BY DEF Inv, VcpusAtHome, Ipi
<1>7. BitsAreCaused'
  BY DEF Inv, BitsAreCaused, Caused, Due, Ipi
<1>8. ActorsAtWork'
  BY DEF Inv, ActorsAtWork, Ipi
<1>9. QED  BY <1>1, <1>2, <1>3, <1>4, <1>5, <1>6, <1>7, <1>8 DEF Inv

\* IpiAck preserves the invariant.
LEMMA IpiAckInv ==
  ASSUME Inv, NEW c \in Cores, IpiAck(c)
  PROVE  Inv'
<1>1. HartTypes'
  BY DEF Inv, HartTypes, IpiAck
<1>2. MachineTypes'
  BY DEF Inv, MachineTypes, IpiAck
<1>3. PlicTypes'
  BY DEF Inv, PlicTypes, IpiAck
<1>4. ActorTypes'
  BY DEF Inv, ActorTypes, IpiAck
<1>5. ThreadsAtHome'
  BY DEF Inv, ThreadsAtHome, IpiAck
<1>6. VcpusAtHome'
  BY DEF Inv, VcpusAtHome, IpiAck
<1>7. BitsAreCaused'
  BY DEF Inv, BitsAreCaused, Caused, Due, IpiAck
<1>8. ActorsAtWork'
  BY DEF Inv, ActorsAtWork, IpiAck
<1>9. QED  BY <1>1, <1>2, <1>3, <1>4, <1>5, <1>6, <1>7, <1>8 DEF Inv

\* Clock preserves the invariant.
LEMMA ClockInv ==
  ASSUME Inv, Clock
  PROVE  Inv'
<1>1. HartTypes'
  BY DEF Inv, HartTypes, Clock
<1>2. MachineTypes'
  BY DEF Inv, MachineTypes, Clock
<1>3. PlicTypes'
  BY DEF Inv, PlicTypes, Clock
<1>4. ActorTypes'
  BY DEF Inv, ActorTypes, Clock
<1>5. ThreadsAtHome'
  BY DEF Inv, ThreadsAtHome, Clock
<1>6. VcpusAtHome'
  BY DEF Inv, VcpusAtHome, Clock
<1>7. BitsAreCaused'
  BY DEF Inv, HartTypes, MachineTypes, BitsAreCaused, Caused, Due, Times, Clock
<1>8. ActorsAtWork'
  BY DEF Inv, ActorsAtWork, Clock
<1>9. QED  BY <1>1, <1>2, <1>3, <1>4, <1>5, <1>6, <1>7, <1>8 DEF Inv

\* LoadPending preserves the invariant.
LEMMA LoadPendingInv ==
  ASSUME Inv, NEW a \in Actors, LoadPending(a)
  PROVE  Inv'
<1>1. HartTypes'
  BY DEF Inv, HartTypes, LoadPending
<1>2. MachineTypes'
  BY DEF Inv, MachineTypes, LoadPending
<1>3. PlicTypes'
  BY DEF Inv, PlicTypes, LoadPending
<1>4. ActorTypes'
  BY DEF Inv, PlicTypes, ActorTypes, ActorsAtWork, LoadPending, Goto
<1>5. ThreadsAtHome'
  BY DEF Inv, ThreadsAtHome, LoadPending
<1>6. VcpusAtHome'
  BY DEF Inv, VcpusAtHome, LoadPending
<1>7. BitsAreCaused'
  BY DEF Inv, BitsAreCaused, Caused, Due, LoadPending
<1>8. ActorsAtWork'
  BY DEF Inv, ActorsAtWork, LoadPending, Goto
<1>9. QED  BY <1>1, <1>2, <1>3, <1>4, <1>5, <1>6, <1>7, <1>8 DEF Inv

\* CasPending preserves the invariant.
LEMMA CasPendingInv ==
  ASSUME Inv, NEW a \in Actors, CasPending(a)
  PROVE  Inv'
<1>1. HartTypes'
  BY DEF Inv, HartTypes, CasPending
<1>2. MachineTypes'
  BY DEF Inv, MachineTypes, CasPending
<1>3. PlicTypes'
  BY DEF Inv, PlicTypes, ActorTypes, ActorsAtWork, CasPending
<1>4. ActorTypes'
  BY DEF Inv, ActorTypes, CasPending, Goto
<1>5. ThreadsAtHome'
  BY DEF Inv, ThreadsAtHome, CasPending
<1>6. VcpusAtHome'
  BY DEF Inv, VcpusAtHome, CasPending
<1>7. BitsAreCaused'
  BY DEF Inv, BitsAreCaused, Caused, Due, CasPending
<1>8. ActorsAtWork'
  BY DEF Inv, ActorsAtWork, CasPending, Goto
<1>9. QED  BY <1>1, <1>2, <1>3, <1>4, <1>5, <1>6, <1>7, <1>8 DEF Inv

\* ReadCore preserves the invariant.
LEMMA ReadCoreInv ==
  ASSUME Inv, NEW a \in Actors, ReadCore(a)
  PROVE  Inv'
<1>1. HartTypes'
  BY DEF Inv, HartTypes, ReadCore
<1>2. MachineTypes'
  BY DEF Inv, MachineTypes, ReadCore
<1>3. PlicTypes'
  BY DEF Inv, PlicTypes, ReadCore
<1>4. ActorTypes'
  BY DEF Inv, MachineTypes, ActorTypes, ActorsAtWork, ReadCore, Goto
<1>5. ThreadsAtHome'
  BY DEF Inv, ThreadsAtHome, ReadCore
<1>6. VcpusAtHome'
  BY DEF Inv, VcpusAtHome, ReadCore
<1>7. BitsAreCaused'
  BY DEF Inv, BitsAreCaused, Caused, Due, ReadCore
<1>8. ActorsAtWork'
  BY DEF Inv, ActorTypes, VcpusAtHome, ActorsAtWork, ReadCore, Goto
<1>9. QED  BY <1>1, <1>2, <1>3, <1>4, <1>5, <1>6, <1>7, <1>8 DEF Inv

\* SetExternal preserves the invariant.
LEMMA SetExternalInv ==
  ASSUME Inv, NEW a \in Actors, SetExternal(a)
  PROVE  Inv'
<1>1. HartTypes'
  BY DEF Inv, HartTypes, SetExternal
<1>2. MachineTypes'
  BY DEF Inv, MachineTypes, SetExternal
<1>3. PlicTypes'
  BY DEF Inv, PlicTypes, SetExternal
<1>4. ActorTypes'
  BY DEF Inv, ActorTypes, SetExternal, Goto
<1>5. ThreadsAtHome'
  BY DEF Inv, ThreadsAtHome, SetExternal
<1>6. VcpusAtHome'
  BY DEF Inv, VcpusAtHome, SetExternal
<1>7. BitsAreCaused'
  BY DEF Inv, BitsAreCaused, Caused, Due, SetExternal
<1>8. ActorsAtWork'
  BY DEF Inv, MachineTypes, ActorTypes, ActorsAtWork, SetExternal, Goto
<1>9. QED  BY <1>1, <1>2, <1>3, <1>4, <1>5, <1>6, <1>7, <1>8 DEF Inv

\* Kick preserves the invariant.
LEMMA KickInv ==
  ASSUME Inv, NEW a \in Actors, Kick(a)
  PROVE  Inv'
<1>1. HartTypes'
  <2>1. mip' \in [Cores -> SUBSET {"TI", "EI"}] /\ msip' \in [Cores -> BOOLEAN]
    <3>1. CoreOf(a) \in Cores
      BY DEF CoreOf
    <3>2. hart[a] # None => [msip EXCEPT ![hart[a]] = hart[a] # CoreOf(a)]
                              \in [Cores -> BOOLEAN]
      BY DEF Inv, HartTypes
    <3>3. [mip EXCEPT ![CoreOf(a)] = @ \cup {"EI"}] \in [Cores -> SUBSET {"TI", "EI"}]
      BY <3>1 DEF Inv, HartTypes
    <3>4. QED  BY <3>2, <3>3 DEF Inv, HartTypes, Kick
  <2>2. pc' \in [Cores -> {"run", "save", "next", "external", "ipi", "trap"}]
    BY DEF Inv, HartTypes, Kick, Return
  <2>3. QED  BY <2>1, <2>2 DEF Inv, HartTypes, Kick
<1>2. MachineTypes'
  BY DEF Inv, MachineTypes, Kick
<1>3. PlicTypes'
  BY DEF Inv, PlicTypes, Kick
<1>4. ActorTypes'
  BY DEF Inv, ActorTypes, Kick, Return
<1>5. ThreadsAtHome'
  BY DEF Inv, ThreadsAtHome, Kick
<1>6. VcpusAtHome'
  BY DEF Inv, VcpusAtHome, Kick, Runs, Return
<1>7. BitsAreCaused'
  BY DEF Inv, HartTypes, VcpusAtHome, BitsAreCaused, ActorsAtWork, Caused, Due, Kick,
         Runs, Return, CoreOf
<1>8. ActorsAtWork'
  BY DEF Inv, HartTypes, ActorTypes, ActorsAtWork, Kick, Return
<1>9. QED  BY <1>1, <1>2, <1>3, <1>4, <1>5, <1>6, <1>7, <1>8 DEF Inv

\* TestPending preserves the invariant.
LEMMA TestPendingInv ==
  ASSUME Inv, NEW c \in Cores, TestPending(c)
  PROVE  Inv'
<1>1. HartTypes'
  BY DEF Inv, HartTypes, TestPending, Return
<1>2. MachineTypes'
  BY DEF Inv, MachineTypes, TestPending
<1>3. PlicTypes'
  BY DEF Inv, PlicTypes, TestPending
<1>4. ActorTypes'
  <2>1. CASE Return(c)
    BY <2>1 DEF Inv, ActorTypes, Return
  <2>2. CASE Goto(c, "clear") /\ UNCHANGED <<target, irq, seen, hart>>
    BY <2>2 DEF Inv, ActorTypes, Goto
  <2>3. QED  BY <2>1, <2>2 DEF TestPending
<1>5. ThreadsAtHome'
  BY DEF Inv, ThreadsAtHome, TestPending
<1>6. VcpusAtHome'
  BY DEF Inv, HartTypes, VcpusAtHome, TestPending, Runs, Return
<1>7. BitsAreCaused'
  BY DEF Inv, HartTypes, BitsAreCaused, Caused, Due, TestPending, Runs, Return
<1>8. ActorsAtWork'
  BY DEF Inv, HartTypes, ActorTypes, ActorsAtWork, TestPending, Return, Goto
<1>9. QED  BY <1>1, <1>2, <1>3, <1>4, <1>5, <1>6, <1>7, <1>8 DEF Inv

\* Clear preserves the invariant.
LEMMA ClearInv ==
  ASSUME Inv, NEW c \in Cores, Clear(c)
  PROVE  Inv'
<1>1. HartTypes'
  BY DEF Inv, HartTypes, Clear, Return
<1>2. MachineTypes'
  BY DEF Inv, MachineTypes, Clear
<1>3. PlicTypes'
  BY DEF Inv, PlicTypes, Clear
<1>4. ActorTypes'
  BY DEF Inv, ActorTypes, Clear, Return
<1>5. ThreadsAtHome'
  BY DEF Inv, ThreadsAtHome, Clear
<1>6. VcpusAtHome'
  BY DEF Inv, VcpusAtHome, Clear, Runs, Return
<1>7. BitsAreCaused'
  BY DEF Inv, HartTypes, VcpusAtHome, BitsAreCaused, ActorsAtWork, Caused, Due, Clear,
         Return
<1>8. ActorsAtWork'
  BY DEF Inv, HartTypes, ActorTypes, VcpusAtHome, ActorsAtWork, Clear, Return
<1>9. QED  BY <1>1, <1>2, <1>3, <1>4, <1>5, <1>6, <1>7, <1>8 DEF Inv

\* Claim preserves the invariant.
LEMMA ClaimInv ==
  ASSUME Inv, NEW c \in Cores, NEW x \in Contexts, Claim(c, x)
  PROVE  Inv'
<1>1. HartTypes'
  BY DEF Inv, HartTypes, Claim, Begin
<1>2. MachineTypes'
  BY DEF Inv, MachineTypes, Claim, Begin
<1>3. PlicTypes'
  BY DEF Inv, PlicTypes, Claim, Begin
<1>4. ActorTypes'
  <2>1. Guest(c) \in VCPUs
    BY DEF Inv, HartTypes, Claim, Guest
  <2>2. PICK i \in Irqs \cup {0}, l \in {"and", "pending"} : Begin(c, Guest(c), i, l)
    BY <2>1 DEF Inv, PlicTypes, Claim
  <2>3. QED  BY <2>1, <2>2 DEF Inv, ActorTypes, Begin
<1>5. ThreadsAtHome'
  BY DEF Inv, ThreadsAtHome, Claim, Begin
<1>6. VcpusAtHome'
  BY DEF Inv, HartTypes, VcpusAtHome, Claim, Begin
<1>7. BitsAreCaused'
  BY DEF Inv, HartTypes, BitsAreCaused, Caused, Due, Claim, Begin
<1>8. ActorsAtWork'
  BY DEF Inv, HartTypes, ActorTypes, ActorsAtWork, Claim, Begin, Guest
<1>9. QED  BY <1>1, <1>2, <1>3, <1>4, <1>5, <1>6, <1>7, <1>8 DEF Inv

\* SetTimer preserves the invariant.
LEMMA SetTimerInv ==
  ASSUME Inv, NEW c \in Cores, NEW t \in Times, SetTimer(c, t)
  PROVE  Inv'
<1>1. HartTypes'
  BY DEF Inv, HartTypes, SetTimer
<1>2. MachineTypes'
  BY DEF Inv, MachineTypes, SetTimer
<1>3. PlicTypes'
  BY DEF Inv, PlicTypes, SetTimer
<1>4. ActorTypes'
  BY DEF Inv, ActorTypes, SetTimer
<1>5. ThreadsAtHome'
  BY DEF Inv, ThreadsAtHome, SetTimer
<1>6. VcpusAtHome'
  BY DEF Inv, VcpusAtHome, SetTimer
<1>7. BitsAreCaused'
  BY DEF Inv, HartTypes, MachineTypes, VcpusAtHome, BitsAreCaused, Caused, Due, SetTimer,
         Guest
<1>8. ActorsAtWork'
  BY DEF Inv, ActorsAtWork, SetTimer
<1>9. QED  BY <1>1, <1>2, <1>3, <1>4, <1>5, <1>6, <1>7, <1>8 DEF Inv

\* WriteEnabled preserves the invariant.
LEMMA WriteEnabledInv ==
  ASSUME Inv, NEW c \in Cores, NEW x \in Contexts, NEW s \in SUBSET Irqs, WriteEnabled(c,
         x, s)
  PROVE  Inv'
<1>1. HartTypes'
  BY DEF Inv, HartTypes, WriteEnabled
<1>2. MachineTypes'
  BY DEF Inv, MachineTypes, WriteEnabled
<1>3. PlicTypes'
  BY DEF Inv, HartTypes, PlicTypes, WriteEnabled
<1>4. ActorTypes'
  BY DEF Inv, ActorTypes, WriteEnabled
<1>5. ThreadsAtHome'
  BY DEF Inv, ThreadsAtHome, WriteEnabled
<1>6. VcpusAtHome'
  BY DEF Inv, VcpusAtHome, WriteEnabled
<1>7. BitsAreCaused'
  BY DEF Inv, BitsAreCaused, Caused, Due, WriteEnabled
<1>8. ActorsAtWork'
  BY DEF Inv, ActorsAtWork, WriteEnabled
<1>9. QED  BY <1>1, <1>2, <1>3, <1>4, <1>5, <1>6, <1>7, <1>8 DEF Inv

\* WritePriority preserves the invariant.
LEMMA WritePriorityInv ==
  ASSUME Inv, NEW c \in Cores, NEW i \in Irqs, NEW l \in Levels, WritePriority(c, i, l)
  PROVE  Inv'
<1>1. HartTypes'
  BY DEF Inv, HartTypes, WritePriority
<1>2. MachineTypes'
  BY DEF Inv, MachineTypes, WritePriority
<1>3. PlicTypes'
  BY DEF Inv, PlicTypes, WritePriority
<1>4. ActorTypes'
  BY DEF Inv, ActorTypes, WritePriority
<1>5. ThreadsAtHome'
  BY DEF Inv, ThreadsAtHome, WritePriority
<1>6. VcpusAtHome'
  BY DEF Inv, VcpusAtHome, WritePriority
<1>7. BitsAreCaused'
  BY DEF Inv, BitsAreCaused, Caused, Due, WritePriority
<1>8. ActorsAtWork'
  BY DEF Inv, ActorsAtWork, WritePriority
<1>9. QED  BY <1>1, <1>2, <1>3, <1>4, <1>5, <1>6, <1>7, <1>8 DEF Inv

\* WriteThreshold preserves the invariant.
LEMMA WriteThresholdInv ==
  ASSUME Inv, NEW c \in Cores, NEW x \in Contexts, NEW l \in Levels, WriteThreshold(c, x,
         l)
  PROVE  Inv'
<1>1. HartTypes'
  BY DEF Inv, HartTypes, WriteThreshold
<1>2. MachineTypes'
  BY DEF Inv, MachineTypes, WriteThreshold
<1>3. PlicTypes'
  BY DEF Inv, PlicTypes, WriteThreshold
<1>4. ActorTypes'
  BY DEF Inv, ActorTypes, WriteThreshold
<1>5. ThreadsAtHome'
  BY DEF Inv, ThreadsAtHome, WriteThreshold
<1>6. VcpusAtHome'
  BY DEF Inv, VcpusAtHome, WriteThreshold
<1>7. BitsAreCaused'
  BY DEF Inv, BitsAreCaused, Caused, Due, WriteThreshold
<1>8. ActorsAtWork'
  BY DEF Inv, ActorsAtWork, WriteThreshold
<1>9. QED  BY <1>1, <1>2, <1>3, <1>4, <1>5, <1>6, <1>7, <1>8 DEF Inv

\* Interrupt preserves the invariant.
LEMMA InterruptInv ==
  ASSUME Inv, NEW a \in Sources, NEW v \in VCPUs, NEW i \in Irqs, Interrupt(a, v, i)
  PROVE  Inv'
<1>1. HartTypes'
  BY DEF Inv, HartTypes, Interrupt, Begin
<1>2. MachineTypes'
  BY DEF Inv, MachineTypes, Interrupt, Begin
<1>3. PlicTypes'
  BY DEF Inv, PlicTypes, Interrupt, Begin
<1>4. ActorTypes'
  BY DEF Inv, ActorTypes, Interrupt, Begin
<1>5. ThreadsAtHome'
  BY DEF Inv, ThreadsAtHome, Interrupt, Begin
<1>6. VcpusAtHome'
  BY DEF Inv, HartTypes, VcpusAtHome, Interrupt, Begin
<1>7. BitsAreCaused'
  BY DEF Inv, HartTypes, BitsAreCaused, Caused, Due, Interrupt, Begin
<1>8. ActorsAtWork'
  BY DEF Inv, HartTypes, ActorTypes, ActorsAtWork, Interrupt, Begin, Runs
<1>9. QED  BY <1>1, <1>2, <1>3, <1>4, <1>5, <1>6, <1>7, <1>8 DEF Inv


\* The initial states satisfy the invariant.
LEMMA InitInv == Init => Inv
<1> SUFFICES ASSUME Init  PROVE Inv
  OBVIOUS
<1>1. HartTypes /\ MachineTypes
  BY DEF Init, HartTypes, MachineTypes, Times
<1>2. PlicTypes /\ ActorTypes
  BY DEF Init, PlicTypes, ActorTypes
<1>3. ThreadsAtHome /\ VcpusAtHome
  BY DEF Init, ThreadsAtHome, VcpusAtHome
<1>4. BitsAreCaused /\ ActorsAtWork
  BY DEF Init, BitsAreCaused, Caused, ActorsAtWork
<1>5. QED  BY <1>1, <1>2, <1>3, <1>4 DEF Inv

\* Every step preserves the invariant.
LEMMA NextInv == Inv /\ [Next]_vars => Inv'
<1> SUFFICES ASSUME Inv, [Next]_vars  PROVE Inv'
  OBVIOUS
<1>1. ASSUME NEW c \in Cores, Tick(c) \/ HartStep(c) \/ TrapStep(c)  PROVE Inv'
  BY <1>1, TickInv, SaveInv, SwitchInInv, BootInv, ExternalInv, IpiInv, IpiAckInv,
     TestPendingInv, ClearInv DEF HartStep, TrapStep
<1>2. ASSUME NEW a \in Actors, ActorStep(a)  PROVE Inv'
  BY <1>2, LoadPendingInv, CasPendingInv, ReadCoreInv, SetExternalInv, KickInv
     DEF ActorStep
<1>3. CASE Demand
  <2>1. ASSUME NEW c \in Cores, Configure(c)  PROVE Inv'
    BY <2>1, WriteEnabledInv, WritePriorityInv, WriteThresholdInv DEF Configure
  <2>2. QED  BY <1>3, <2>1, YieldInv, ClaimInv, SetTimerInv, InterruptInv DEF Demand
<1>4. CASE Clock
  BY <1>4, ClockInv
<1>5. CASE UNCHANGED vars
  BY <1>5 DEF vars, Inv, HartTypes, MachineTypes, PlicTypes, ActorTypes,
     ThreadsAtHome, VcpusAtHome, BitsAreCaused, Caused, Due, ActorsAtWork
<1>6. QED  BY <1>1, <1>2, <1>3, <1>4, <1>5 DEF Next

\* The invariant holds in every reachable state.
LEMMA InvHolds == Spec => []Inv
<1>1. QED  BY InitInv, NextInv, PTL DEF Spec

\* Every variable keeps its type: the harts with their bits, the virtual CPUs,
\* the virtual PLICs and the actors inside them.
THEOREM TypesHold == Spec => []TypeOK
<1>1. Inv => TypeOK
  BY DEF Inv, HartTypes, MachineTypes, PlicTypes, ActorTypes, TypeOK
<1>2. QED  BY <1>1, InvHolds, PTL

\* A hart that executes shows the bits of its own virtual CPU, each with its
\* cause, and a virtual CPU is current on one hart at most.
THEOREM HartShowsOwnBits == Spec => []HartShowsItsVcpu
<1>1. Inv => HartShowsItsVcpu
  <2> SUFFICES ASSUME Inv  PROVE HartShowsItsVcpu
    OBVIOUS
  <2>1. ASSUME NEW c \in Cores, pc[c] \in {"run", "ipi", "trap"}
        PROVE  /\ current[c] = None => mip[c] = {}
               /\ current[c] # None =>
                    /\ current[c] = running[c] /\ core[current[c]] = c
                    /\ "TI" \in mip[c] => Due(current[c])
                    /\ "EI" \in mip[c] => external[current[c]]
    BY <2>1 DEF Inv, VcpusAtHome, BitsAreCaused, Caused
  <2>2. ASSUME NEW c \in Cores, NEW d \in Cores, current[c] = current[d]
        PROVE  c = d \/ current[c] = None
    BY <2>2 DEF Inv, VcpusAtHome
  <2>3. QED  BY <2>1, <2>2 DEF HartShowsItsVcpu
<1>2. QED  BY <1>1, InvHolds, PTL

-----------------------------------------------------------------------------
(* The notice of an interrupt.                                             *)

\* An actor on its way to set external_ of v.
Telling(a, v) == target[a] = v /\ step[a] \in {"core", "external"}

\* An actor about to send v's hart its notice.
Kicking(a, v, c) ==
  target[a] = v /\ step[a] = "kick" /\ (hart[a] = c \/ CoreOf(a) = c)

\* A hart that executes v and does not show external_.
Unseen(v, c) ==
  /\ current[c] = v /\ pc[c] \in {"run", "ipi", "trap"}
  /\ external[v] /\ "EI" \notin mip[c] /\ ~msip[c]

\* What a step may do to the interrupts of v.
ForgottenOnlyBy(v) ==
  ~Forgotten(v) /\ Forgotten(v)' =>
    \E c \in Cores : \/ Clear(c) /\ target[c] = v
                     \/ Configure(c) /\ current[c] = v

SleptOnlyBy(v) ==
  ~Slept(v) /\ Slept(v)' =>
    \/ \E a \in Actors : SetExternal(a) /\ target[a] = v /\ hart[a] = None
    \/ \E c \in Cores : IpiAck(c) /\ current[c] = v

\* An actor stays on its way until external_ is set.
LEMMA TellingKept ==
  ASSUME Next, NEW v \in VCPUs, NEW b \in Actors, Telling(b, v), Inv
  PROVE  Telling(b, v)' \/ external'[v]
<1> USE DEF Telling, Inv, ActorTypes
<1>1. CASE UNCHANGED actors
  BY <1>1
<1>2. ASSUME NEW a \in Actors, LoadPending(a) \/ CasPending(a) \/ ReadCore(a)
      PROVE  Telling(b, v)'
  BY <1>2 DEF LoadPending, CasPending, ReadCore, Goto
<1>3. ASSUME NEW a \in Actors, SetExternal(a)
      PROVE  Telling(b, v)' \/ external'[v]
  BY <1>3 DEF SetExternal, Goto, MachineTypes
<1>4. ASSUME NEW a \in Actors, Kick(a) \/ TestPending(a) \/ Clear(a)
      PROVE  Telling(b, v)'
  BY <1>4 DEF Kick, TestPending, Clear, Return, Goto
<1>5. ASSUME NEW a \in Actors, NEW u, NEW i, NEW l, Begin(a, u, i, l)
      PROVE  Telling(b, v)'
  BY <1>5 DEF Begin
<1>6. QED
  BY <1>1, <1>2, <1>3, <1>4, <1>5
     DEF Next, Tick, HartStep, TrapStep, ActorStep, Demand, Save, SwitchIn, Boot,
         External, Ipi, IpiAck, Yield, Claim, SetTimer, Configure, WriteEnabled, WritePriority,
         WriteThreshold, Interrupt, Clock

\* A virtual PLIC becomes active by an actor that goes on to tell, or by an
\* access of its own guest.
LEMMA ActiveKept ==
  ASSUME Next, NEW v \in VCPUs, Active(v)', Inv
  PROVE  \/ Active(v)
         \/ \E a \in Actors : Telling(a, v)'
         \/ \E c \in Cores : Configure(c) /\ current[c] = v
<1>1. CASE UNCHANGED plic
  BY <1>1 DEF Active
<1>2. ASSUME NEW a \in Actors, CasPending(a)
      PROVE  Active(v) \/ Telling(a, v)'
  <2>1. CASE target[a] = v /\ step[a] = "or_cas"
    BY <2>1, <1>2 DEF CasPending, Goto, Telling, Inv, ActorTypes
  <2>2. CASE target[a] # v \/ step[a] # "or_cas"
    <3>1. pending'[v] \subseteq pending[v]
      BY <2>2, <1>2 DEF CasPending, Inv, PlicTypes
    <3>2. QED  BY <3>1, <1>2 DEF Active, CasPending
  <2>3. QED  BY <2>1, <2>2
<1>3. ASSUME NEW c \in Cores, Configure(c)
      PROVE  Active(v) \/ current[c] = v
  <2>1. CASE current[c] # v
    <3>1. /\ enabled'[v] = enabled[v] /\ priority'[v] = priority[v]
          /\ threshold'[v] = threshold[v] /\ pending' = pending
      BY <2>1, <1>3 DEF Configure, WriteEnabled, WritePriority, WriteThreshold, Guest,
                        Inv, PlicTypes
    <3>2. QED  BY <3>1 DEF Active
  <2>2. QED  BY <2>1
<1>4. QED
  BY <1>1, <1>2, <1>3
     DEF Next, Tick, HartStep, TrapStep, ActorStep, Demand, Save, SwitchIn, Boot,
         External, Ipi, IpiAck, Yield, Claim, SetTimer, Interrupt, Begin, Clock, LoadPending,
         ReadCore,
         SetExternal, Kick, TestPending, Clear

\* external_ is cleared only by the clear of its own guest's hart.
LEMMA ExternalKept ==
  ASSUME Next, NEW v \in VCPUs, external[v], Inv
  PROVE  external'[v] \/ \E c \in Cores : Clear(c) /\ target[c] = v
<1>1. CASE UNCHANGED external
  BY <1>1
<1>2. ASSUME NEW a \in Actors, SetExternal(a)  PROVE external'[v]
  BY <1>2 DEF SetExternal, Inv, MachineTypes
<1>3. ASSUME NEW c \in Cores, Clear(c)  PROVE external'[v] \/ target[c] = v
  BY <1>3 DEF Clear, Inv, MachineTypes
<1>4. QED
  BY <1>1, <1>2, <1>3
     DEF Next, Tick, HartStep, TrapStep, ActorStep, Demand, Save, SwitchIn, Boot,
         External, Ipi, IpiAck, Yield, Claim, SetTimer, Interrupt, Begin, Clock, LoadPending,
         CasPending,
         ReadCore, Kick, TestPending, Configure, WriteEnabled, WritePriority,
         WriteThreshold

\* What forgets an interrupt.
LEMMA ForgottenBy ==
  ASSUME Inv, [Next]_vars, NEW v \in VCPUs
  PROVE  ForgottenOnlyBy(v)
<1>1. CASE UNCHANGED vars
  BY <1>1 DEF vars, ForgottenOnlyBy, Forgotten, Active
<1>2. CASE Next
  <2> SUFFICES ASSUME ~Forgotten(v), Forgotten(v)',
                      \A c \in Cores : ~(Clear(c) /\ target[c] = v),
                      \A c \in Cores : ~(Configure(c) /\ current[c] = v)
               PROVE  FALSE
    BY DEF ForgottenOnlyBy
  <2>1. Active(v)' /\ ~external'[v] /\ \A a \in Actors : ~Telling(a, v)'
    BY DEF Forgotten, Telling
  <2>2. Active(v)
    BY <1>2, <2>1, ActiveKept
  <2>3. ~external[v]
    BY <1>2, <2>1, ExternalKept
  <2>4. PICK a \in Actors : Telling(a, v)
    BY <2>2, <2>3 DEF Forgotten, Telling
  <2>5. QED  BY <1>2, <2>1, <2>4, TellingKept
<1>3. QED  BY <1>1, <1>2

\* What makes external_ unseen by the guest that executes: that it is set, or
\* that the handler of the inter-processor interrupt clears msip.
LEMMA UnseenKept ==
  ASSUME Next, NEW v \in VCPUs, NEW c \in Cores, Unseen(v, c)', Inv
  PROVE  \/ Unseen(v, c)
         \/ \E a \in Actors : SetExternal(a) /\ target[a] = v
         \/ IpiAck(c) /\ current[c] = v
<1> USE DEF Unseen, Inv, HartTypes
<1>1. ASSUME NEW d \in Cores, Tick(d) \/ Save(d) \/ Ipi(d)  PROVE Unseen(v, c)
  BY <1>1 DEF Tick, Save, Ipi, machines
<1>2. ASSUME NEW d \in Cores, SwitchIn(d) \/ Boot(d) \/ External(d)  PROVE Unseen(v, c)
  BY <1>2 DEF SwitchIn, Boot, External, Activate, MachineTypes
<1>3. ASSUME NEW d \in Cores, IpiAck(d)
      PROVE  Unseen(v, c) \/ (IpiAck(c) /\ current[c] = v)
  BY <1>3 DEF IpiAck
<1>4. ASSUME NEW d \in Cores, NEW t, Yield(d, t) \/ SetTimer(d, t)  PROVE Unseen(v, c)
  BY <1>4 DEF Yield, SetTimer, Guest
<1>5. ASSUME NEW d \in Cores, TestPending(d)  PROVE Unseen(v, c)
  BY <1>5 DEF TestPending, Return, Runs
<1>6. ASSUME NEW d \in Cores, Clear(d)  PROVE Unseen(v, c)
  BY <1>6 DEF Clear, Return, Runs, MachineTypes, ActorsAtWork
<1>7. ASSUME NEW a \in Actors, Kick(a)  PROVE Unseen(v, c)
  <2>1. ~msip[c]
    BY <1>7 DEF Kick, Runs, CoreOf, ActorTypes, ActorsAtWork, VcpusAtHome
  <2>2. QED  BY <1>7, <2>1 DEF Kick, Return, Runs
<1>8. ASSUME NEW a \in Actors, LoadPending(a) \/ CasPending(a) \/ ReadCore(a)
      PROVE  Unseen(v, c)
  BY <1>8 DEF LoadPending, CasPending, ReadCore
<1>9. ASSUME NEW a \in Actors, SetExternal(a)  PROVE Unseen(v, c) \/ target[a] = v
  BY <1>9 DEF SetExternal, MachineTypes
<1>10. ASSUME NEW a \in Actors, NEW u, NEW i, NEW l, Begin(a, u, i, l)
       PROVE  Unseen(v, c)
  BY <1>10 DEF Begin
<1>11. CASE Clock \/ \E d \in Cores : Configure(d)
  BY <1>11 DEF Clock, Configure, WriteEnabled, WritePriority, WriteThreshold
<1>12. QED
  BY <1>1, <1>2, <1>3, <1>4, <1>5, <1>6, <1>7, <1>8, <1>9, <1>10, <1>11
     DEF Next, HartStep, TrapStep, ActorStep, Demand, Claim, Interrupt

\* An actor about to send the notice sends it to the hart, or shows it.
LEMMA KickingKept ==
  ASSUME Next, NEW v \in VCPUs, NEW c \in Cores, NEW b \in Actors,
         Kicking(b, v, c), Unseen(v, c)', Unseen(v, c), Inv
  PROVE  Kicking(b, v, c)'
<1> USE DEF Kicking, CoreOf, Inv, ActorTypes
<1>1. CASE UNCHANGED actors
  BY <1>1
<1>2. ASSUME NEW a \in Actors,
             LoadPending(a) \/ CasPending(a) \/ ReadCore(a) \/ SetExternal(a)
      PROVE  Kicking(b, v, c)'
  BY <1>2 DEF LoadPending, CasPending, ReadCore, SetExternal, Goto
<1>3. ASSUME NEW a \in Actors, TestPending(a) \/ Clear(a)  PROVE Kicking(b, v, c)'
  BY <1>3 DEF TestPending, Clear, Return, Goto
<1>4. ASSUME NEW a \in Actors, NEW u, NEW i, NEW l, Begin(a, u, i, l)
      PROVE  Kicking(b, v, c)'
  BY <1>4 DEF Begin
<1>5. ASSUME NEW a \in Actors, Kick(a), a # b  PROVE Kicking(b, v, c)'
  BY <1>5 DEF Kick, Return
<1>6. ASSUME Kick(b)  PROVE FALSE
  <2>1. Home[v] = c /\ CoreOf(b) \in Cores
    BY DEF Unseen, VcpusAtHome, HartTypes
  <2>2. CASE CoreOf(b) = c
    BY <1>6, <2>1, <2>2 DEF Kick, Unseen, HartTypes
  <2>3. CASE CoreOf(b) # c
    <3>1. hart[b] = c /\ current[CoreOf(b)] # v
      BY <2>1, <2>3 DEF VcpusAtHome, HartTypes
    <3>2. msip'[c]
      BY <1>6, <2>3, <3>1 DEF Kick, HartTypes
    <3>3. QED  BY <3>2 DEF Unseen
  <2>4. QED  BY <2>2, <2>3
<1>7. QED
  BY <1>1, <1>2, <1>3, <1>4, <1>5, <1>6
     DEF Next, Tick, HartStep, TrapStep, ActorStep, Demand, Save, SwitchIn, Boot,
         External, Ipi, IpiAck, Yield, Claim, SetTimer, Configure, WriteEnabled, WritePriority,
         WriteThreshold, Interrupt, Clock

\* What makes a guest execute without seeing external_.
LEMMA SleptBy ==
  ASSUME Inv, [Next]_vars, NEW v \in VCPUs
  PROVE  SleptOnlyBy(v)
<1>1. CASE UNCHANGED vars
  BY <1>1 DEF vars, SleptOnlyBy, Slept, CoreOf
<1>2. CASE Next
  <2> SUFFICES ASSUME ~Slept(v), Slept(v)',
                      \A a \in Actors :
                        ~(SetExternal(a) /\ target[a] = v /\ hart[a] = None),
                      \A c \in Cores : ~(IpiAck(c) /\ current[c] = v)
               PROVE  FALSE
    BY DEF SleptOnlyBy
  <2>1. PICK c \in Cores : Unseen(v, c)' /\ \A a \in Actors : ~Kicking(a, v, c)'
    BY DEF Slept, Unseen, Kicking, CoreOf
  <2>2. CASE Unseen(v, c)
    <3>1. PICK a \in Actors : Kicking(a, v, c)
      BY <2>2 DEF Slept, Unseen, Kicking
    <3>2. QED  BY <1>2, <2>1, <2>2, <3>1, KickingKept
  <2>3. CASE ~Unseen(v, c)
    <3>1. PICK a \in Actors : SetExternal(a) /\ target[a] = v
      BY <1>2, <2>1, <2>3, UnseenKept
    <3>2. hart[a] = Home[v]
      BY <3>1 DEF SetExternal, Inv, ActorsAtWork
    <3>3. current[c] = v /\ Home[v] = c
      BY <2>1, <3>1 DEF Unseen, SetExternal, Inv, HartTypes, VcpusAtHome
    <3>4. Kicking(a, v, c)'
      BY <3>1, <3>2, <3>3 DEF SetExternal, Goto, Kicking, Inv, ActorTypes
    <3>5. QED  BY <2>1, <3>4
  <2>4. QED  BY <2>2, <2>3
<1>3. QED  BY <1>1, <1>2

\* The notice of an interrupt is lost in four places only: the clear after an
\* older test, a write that enables what is pending, a core read before the
\* store, and the acknowledgement after the test.
THEOREM NoticeLostOnlyInWindows == Spec => LossOnlyInWindows
<1>1. Inv /\ [Next]_vars =>
        [\A v \in VCPUs :
           /\ ~Forgotten(v) /\ Forgotten(v)' =>
                \E c \in Cores : \/ Clear(c) /\ target[c] = v
                                 \/ Configure(c) /\ current[c] = v
           /\ ~Slept(v) /\ Slept(v)' =>
                \/ \E a \in Actors : SetExternal(a) /\ target[a] = v /\ hart[a] = None
                \/ \E c \in Cores : IpiAck(c) /\ current[c] = v]_vars
  BY ForgottenBy, SleptBy DEF ForgottenOnlyBy, SleptOnlyBy
<1>2. QED  BY <1>1, InvHolds, PTL DEF Spec, LossOnlyInWindows
=============================================================================
