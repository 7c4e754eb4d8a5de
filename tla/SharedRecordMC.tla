--------------------------- MODULE SharedRecordMC ---------------------------
(* Constants of the TLC run of SharedRecord. *)
EXTENDS SharedRecord

CONSTANTS t1, t2, a, b

MCHello == <<a, b>>

\* A newline alone, a short line, a line that fills the array, and one whose
\* newline falls victim to the truncation.
MCTexts == {<<Newline>>, <<b>>, <<b, Newline>>, <<a, b, Newline>>}

\* An empty string, a short one with rubbish behind it, and one without a Nul.
MCArrays == {<<Nul, a, b>>, <<b, Nul, a>>, <<b, a, b>>}
=============================================================================
