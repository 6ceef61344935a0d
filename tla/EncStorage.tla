----------------------------- MODULE EncStorage -----------------------------
(***************************************************************************)
(* The encrypted block store (src/directory/fs/EncStorage.cpp): one file  *)
(* per encrypted block under the block directory, named by the Base32 of  *)
(* the block's hash.  Base32 is injective, so a file is identified here   *)
(* by the hash itself.                                                     *)
(*                                                                         *)
(* A block's contents are its ciphertext, a sequence of BlockLen bytes    *)
(* determined by its hash.  put_encblock opens the file with trunc, which *)
(* empties it at once, then writes the data, which reaches the disk when  *)
(* the stream is closed.  The process may die at any step; the bytes of a *)
(* write in progress are then on disk up to some prefix.  The store is    *)
(* called from one thread, so at most one put is in progress.             *)
(***************************************************************************)
EXTENDS Naturals, Sequences

CONSTANTS
    Hash,       \* encrypted_data_hash values
    BlockLen,   \* bytes of a block's ciphertext
    Absent,     \* no file at the block's path
    None

ASSUME BlockLen \in Nat \ {0}

\* The ciphertext whose hash is h.
Blob(h) == [i \in 1..BlockLen |-> h]

\* The prefixes of a blob: what a cut-off write can leave on disk.
Prefixes(b) == {SubSeq(b, 1, n) : n \in 0..Len(b)}

VARIABLES
    files,    \* files[h]: the bytes at make_encblock_path(h), or Absent
    writing   \* the hash whose put_encblock is between trunc and close

vars == <<files, writing>>

TypeOK ==
    /\ \A h \in Hash : files[h] = Absent \/ files[h] \in Prefixes(Blob(h))
    /\ writing \in Hash \cup {None}

\* have_encblock: fs::exists of the block's path.
Have(h) == files[h] # Absent

\* get_encblock: the file_size bytes of the file, or no_such_block.
GetEncblock(h) == IF Have(h) THEN files[h] ELSE "no_such_block"

\* The constructor creates the block directory: no blocks yet.
Init ==
    /\ files = [h \in Hash |-> Absent]
    /\ writing = None

\* put_encblock, up to the ofstream opened with trunc: the file exists and
\* is empty.
PutOpen(h) ==
    /\ writing = None
    /\ files' = [files EXCEPT ![h] = <<>>]
    /\ writing' = h

\* The write of the data, and the close as the stream goes out of scope.
PutWrite ==
    /\ writing # None
    /\ files' = [files EXCEPT ![writing] = Blob(writing)]
    /\ writing' = None

\* remove_encblock: fs::remove of the block's path.
Remove(h) ==
    /\ writing = None
    /\ files' = [files EXCEPT ![h] = Absent]
    /\ UNCHANGED writing

\* The process dies and restarts: a put in progress leaves what of its
\* bytes reached the disk; the other files stay.
Crash ==
    /\ writing # None
    /\ \E b \in Prefixes(Blob(writing)) : files' = [files EXCEPT ![writing] = b]
    /\ writing' = None

Next ==
    \/ \E h \in Hash : PutOpen(h) \/ Remove(h)
    \/ PutWrite
    \/ Crash

Spec == Init /\ [][Next]_vars

-----------------------------------------------------------------------------
\* When no put is in progress, every block have_encblock reports present is
\* whole: get_encblock returns the ciphertext of its hash.  The spec makes
\* the encrypted store authoritative for Download peers, and make_bitfield
\* announces a chunk on have_encblock alone; a truncated file, once
\* announced, is never fetched again.
BlocksWhole ==
    writing = None =>
        \A h \in Hash : Have(h) => GetEncblock(h) = Blob(h)

=============================================================================
