-------------------------- MODULE MCVirtualSwitch --------------------------
(* Two guests with rings of two buffers, and the wire.  One guest sends two  *)
(* frames, so that it can offer one while its worker is at work.             *)
EXTENDS VirtualSwitch

CONSTANTS g1, g2

MCObservers == <<g1, g2>>
MCFrames == [w \in Workers |-> IF w = g1 THEN 2 ELSE IF w = g2 THEN 0 ELSE 1]
=============================================================================
