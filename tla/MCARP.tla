------------------------------- MODULE MCARP -------------------------------
(* Two threads, two hosts that share an entry and one that does not.         *)
EXTENDS ARP

CONSTANTS t1, t2, a, b, c

MCCalls == [t \in Callers |-> 1]
MCSlot == (a :> 1) @@ (b :> 1) @@ (c :> 2)
=============================================================================
