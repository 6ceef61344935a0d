------------------------- MODULE MC_BlockTransfer -------------------------
(* Model values and tier assignments for the chunk exchange. *)
EXTENDS BlockTransfer, TLC

CONSTANTS w, r1, r2, d, c1, c2

\* A seeding writer and two ReadOnly peers.
ReadersTier == (w :> ReadWrite) @@ (r1 :> ReadOnly) @@ (r2 :> ReadOnly)
\* A seeding writer, a ReadOnly peer and a Download-only peer.
MixedTier == (w :> ReadWrite) @@ (r1 :> ReadOnly) @@ (d :> Download)

=============================================================================
