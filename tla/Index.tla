------------------------------- MODULE Index -------------------------------
(***************************************************************************)
(* The per-folder metadata index (daemon/folder/meta/Index.cpp).           *)
(*                                                                         *)
(* The SQLite table "meta" is a function from path_id to one row; an       *)
(* absent row is Nil.  A row holds the parts of a SignedMeta the sync      *)
(* protocol tells apart (revision, type, content, mtime) and the           *)
(* "assembled" flag.  The "chunk" and "openfs" tables are written by the   *)
(* same put_meta transaction from the row's chunk list; the chunk-level    *)
(* modules derive them from "data" (see README).                           *)
(*                                                                         *)
(* These are operators over an index value; FolderSync applies them to    *)
(* each peer's index.                                                      *)
(***************************************************************************)
EXTENDS Naturals

CONSTANT Nil

\* Index::put_meta: "INSERT OR REPLACE INTO meta" keyed by path_id.  The
\* row is replaced whatever revision it held: the function does no
\* revision check of its own.
PutMeta(db, path, meta, fully_assembled) ==
    [db EXCEPT ![path] = [meta EXCEPT !.assembled = fully_assembled]]

\* Index::get_meta(path_revision) succeeds (and have_meta is true) only
\* when the stored row has exactly this revision; otherwise no_such_meta.
HaveMeta(db, path, rev) ==
    db[path] # Nil /\ db[path].rev = rev

PutAllowed(db, path, rev) ==
    db[path] = Nil \/ db[path].rev < rev

\* Index::wipe: all rows of meta, chunk and openfs deleted.
Wipe(db) == [path \in DOMAIN db |-> Nil]

=============================================================================
