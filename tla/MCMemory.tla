------------------------------ MODULE MCMemory ------------------------------
(* 32 bytes of RAM in pages of 4, blocks of 2 to 16 bytes, a kernel that    *)
(* ends within the first page and a payload that covers another.            *)
EXTENDS Memory

MCReserved == {[start |-> 0, size |-> 3], [start |-> 8, size |-> 4]}
=============================================================================
