----------------------------- MODULE MCKernel ----------------------------
(* Two cores, their idle threads, and the threads of a small program, under *)
(* each of the scheduling criteria.                                         *)
EXTENDS KernelInv, TLC

CONSTANTS c0, c1, i0, i1, main, t1, t2, s1, stack0, None0

MCCores == {c0, c1}
MCIdle == {i0, i1}
MCSpins == {s1}
MCInitialValue == [s \in Spins |-> 0]

\* FixedCore: queue = core.  Criteria that name no core go to the BSP, c0.
FixedHome ==
  [t \in Normal \cup MCIdle |-> IF t \in {i1, t1} THEN c1 ELSE c0]
FixedSource == [c \in MCCores |-> c]
FixedBoot ==
  [l \in Lists |->
     CASE l = <<"NORMAL", c0>> -> <<main>>
       [] l = <<"IDLE", c0>> -> <<i0>>
       [] l = <<"IDLE", c1>> -> <<i1>>
       [] OTHER -> <<>>]

\* RR: one queue for all cores.
RRQueues == {"rr"}
RRHome == [t \in Normal \cup MCIdle |-> "rr"]
RRSource == [c \in MCCores |-> "rr"]
RRBoot ==
  [l \in Lists |->
     CASE l = <<"NORMAL", "rr">> -> <<main>>
       [] l = <<"IDLE", "rr">> -> <<i0, i1>>
       [] OTHER -> <<>>]

\* Under RR the cores are interchangeable.
RRSymmetry == Permutations(MCCores)
=============================================================================
