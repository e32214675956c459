----------------------------- MODULE MCDMARing -----------------------------
(* Two senders with three buffers, so that one is used again, and two        *)
(* receive buffers for three frames.                                         *)
EXTENDS DMARing

CONSTANTS s1, s2

MCFrames == (s1 :> 2) @@ (s2 :> 2)
=============================================================================
