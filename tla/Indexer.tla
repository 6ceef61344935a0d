------------------------------ MODULE Indexer ------------------------------
(***************************************************************************)
(* What one IndexerWorker::run does with one path (daemon/folder/meta/     *)
(* IndexerWorker.cpp), read by read.  The worker looks at the file system  *)
(* several times: the mtime compare and get_type, then the content         *)
(* (update_chunks or read_symlink), then last_write_time in                *)
(* update_fsattrib, and last the clock for the revision.  Each read sees   *)
(* the file as it is at that moment.  The chunk list of a FILE is          *)
(* abstracted to its content value; the chunking and IV reuse are          *)
(* modelled in their own module.                                           *)
(***************************************************************************)
EXTENDS Naturals

CONSTANT Nil

\* Meta::Type.  A path that does not exist is seen by get_type() as
\* file_not_found and indexed as DELETED.
FILE == "FILE"
DIRECTORY == "DIRECTORY"
SYMLINK == "SYMLINK"
DELETED == "DELETED"
MetaTypes == {FILE, DIRECTORY, SYMLINK, DELETED}

\* run(): an existing Meta whose mtime equals last_write_time(abspath)
\* aborts "Modification time is not changed".  For a missing path
\* last_write_time throws filesystem_error, which is swallowed, so no abort.
MtimeUnchanged(entry, old) ==
    old # Nil /\ entry.type # DELETED /\ entry.mtime = old.mtime

\* make_Meta(): the three early aborts after the type is known.  With no
\* Meta in the index old_meta_ is default-constructed, whose type is
\* neither DIRECTORY nor DELETED.
TypeAborts(entry, old) ==
    \/ old = Nil /\ entry.type = DELETED
    \/ old # Nil /\ old.type = DIRECTORY /\ entry.type = DIRECTORY
    \/ old # Nil /\ old.type = DELETED /\ entry.type = DELETED

\* The reads make_Meta still has to do after get_type, in order: the
\* content of a FILE (update_chunks) or SYMLINK (read_symlink), then the
\* mtime (update_fsattrib, skipped for DELETED, a no-op for a SYMLINK),
\* then the revision.
StepsAfterType(type) ==
    CASE type = FILE      -> <<"content", "attrib", "stamp">>
      [] type = SYMLINK   -> <<"content", "stamp">>
      [] type = DIRECTORY -> <<"attrib", "stamp">>
      [] type = DELETED   -> <<"stamp">>

\* update_chunks opens the file with QFile and read_symlink reads the link:
\* both fail, and run() emits metaFailed, unless the path still has the
\* type get_type saw.  Otherwise they read what is there now.
ContentReadable(entry, type) == entry.type = type

\* last_write_time in update_fsattrib throws for a missing path; run()
\* catches it as a runtime_error and emits metaFailed.
AttribReadable(entry) == entry.type # DELETED

\* Mutant: the revision taken from the file's mtime instead of the clock.
MakeMetaRevFromMtime(w, now) ==
    [rev |-> w.mtime, type |-> w.type, data |-> w.data, mtime |-> w.mtime,
     assembled |-> FALSE]

\* make_Meta's last step: revision = std::time(nullptr), taken after all
\* reads; w holds what the reads found (data Nil unless FILE or SYMLINK,
\* mtime 0 unless update_fsattrib set it).
MakeMeta(w, now) ==
    [rev |-> now, type |-> w.type, data |-> w.data, mtime |-> w.mtime,
     assembled |-> FALSE]

=============================================================================
