---------------------------- MODULE MCStreamPool ----------------------------
(* StreamPool for every value of the two four-bit fields of GCAP.          *)
EXTENDS StreamPool

Nibble == 0..15
=============================================================================
