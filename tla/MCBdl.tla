------------------------------- MODULE MCBdl -------------------------------
(* Bdl with pages of 4 bytes, 6-bit integers and a list of 5 entries.      *)
EXTENDS Bdl

\* Every unsigned size but 0; every period from none to beyond the list, and
\* one that is negative as int.
AllBuffers == 1..(2 * IntMax + 1)
SomePeriods == 0..23 \cup {40}
=============================================================================
