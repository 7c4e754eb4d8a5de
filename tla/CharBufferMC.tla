---------------------------- MODULE CharBufferMC ----------------------------
(* Constants of the TLC runs of CharBuffer. *)
EXTENDS CharBuffer

CONSTANTS t1, t2, a, b

MCInitial  == <<a, b>>

\* A short text, an empty one, and one that write() truncates.
MCPayloads == {<<>>, <<b>>, <<b, a, b>>}
=============================================================================
