---------------------------- MODULE MC_Chunker ----------------------------
(* Model values for the chunker: two plaintext chunk values. *)
EXTENDS Chunker

CONSTANTS a, b

=============================================================================
