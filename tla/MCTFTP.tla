------------------------------ MODULE MCTFTP ------------------------------
(* Two calls: files of two and of three full blocks, and so with an empty    *)
(* last block each, whose numbers wrap around.  The buffers are so tight     *)
(* that a repeated block need not fit.                                       *)
EXTENDS TFTP

MCSize == <<4, 6>>
MCBufferSize == <<5, 7>>
=============================================================================
