--------------------------- MODULE MC_FolderSync ---------------------------
(* Instances of FolderSync for TLC. *)
EXTENDS FolderSync, TLC

CONSTANTS w1, w2, r1, r2, p1, d1, d2, j1, j2

\* One ReadWrite peer and one ReadOnly peer.
PairTier == (w1 :> ReadWrite) @@ (r1 :> ReadOnly)

\* Two ReadWrite peers and one ReadOnly peer.
TwoWriterTier == (w1 :> ReadWrite) @@ (w2 :> ReadWrite) @@ (r1 :> ReadOnly)
=============================================================================
