----------------------- MODULE MCVirtualInterrupts -----------------------
(* Guests and host threads on c0; c1 runs nothing but its trap handlers. *)
EXTENDS VirtualInterrupts, TLC

CONSTANTS c0, c1, v0, v1, w

HomeOf == [t \in VCPUs \cup Workers |-> c0]
VCPUSymmetry == Permutations(VCPUs)
=============================================================================
