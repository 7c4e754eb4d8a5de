--------------------------- MODULE MessageDeviceMC ---------------------------
(* Constants of the TLC runs of MessageDevice. *)
EXTENDS MessageDevice

CONSTANTS r1, r2, w1, p1, a, b

\* A message that write() truncates to BUFFER_SIZE - 1 bytes, and an empty write.
MCPayloads == {<<b, a, b>>, <<>>}
=============================================================================
