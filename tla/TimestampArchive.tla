-------------------------- MODULE TimestampArchive --------------------------
(***************************************************************************)
(* TimestampArchive::archive (daemon/folder/chunk/archive/                  *)
(* TimestampArchive.cpp): before the assembler replaces a file it renames *)
(* the old one with a "~yyyyMMdd-HHmmss" suffix of its mtime, then scans   *)
(* for the file's archived copies and removes one when there are more than *)
(* archive_timestamp_count of them.                                         *)
(*                                                                         *)
(* A path is (directory, file, stamp): the directory a name lives in, the  *)
(* file (its baseName and completeSuffix, a model value), and the stamp    *)
(* of its suffix (NoStamp for the file itself).  A generic path string     *)
(* carries its directory, so a regex matched against the whole string only *)
(* matches a path whose directory part is empty (Here).                    *)
(***************************************************************************)
EXTENDS Naturals, FiniteSets

CONSTANTS
    File,                     \* files of the folder
    MaxTime,                  \* last second of the clock
    archive_timestamp_count,  \* FolderParams::archive_timestamp_count
    NoStamp

Folder == "folder"    \* the synced folder: denormpath's parent_path()
Here == "."           \* the process's working directory; no directory part
Stamp == 1..MaxTime

VARIABLES
    now,      \* the wall clock in seconds
    disk,     \* every path on disk
    mtime     \* mtime[f]: last_write_time of the folder's copy of f

vars == <<now, disk, mtime>>

Path(dir, f, s) == [dir |-> dir, file |-> f, stamp |-> s]
Live(f) == Path(Folder, f, NoStamp)

TypeOK ==
    /\ now \in Stamp
    /\ disk \subseteq [dir: {Folder, Here}, file: File, stamp: Stamp \cup {NoStamp}]
    /\ mtime \in [File -> Stamp]

Init ==
    /\ now = 1
    /\ disk = {Live(f) : f \in File}
    /\ mtime = [f \in File |-> 1]

\* timestamped_path is baseName + suffix + completeSuffix with no
\* directory: QFile::rename resolves it against the working directory.
TimestampedPath(f) == Path(Here, f, mtime[f])

\* QFile::rename does not overwrite: it fails if the target exists.
Rename(d, from, to) == IF to \in d THEN d ELSE (d \ {from}) \cup {to}

\* std::regex_match of timestamp_regex against an entry's generic_string.
TimestampMatch(p, f) == p.dir = Here /\ p.file = f /\ p.stamp # NoStamp

\* The directory_iterator over denormpath's parent: the stamps matched,
\* each mapped to denormpath_fs itself.
Matched(d, f) == {p.stamp : p \in {q \in d : q.dir = Folder /\ TimestampMatch(q, f)}}

\* The removal step: paths.begin()->second is denormpath_fs.
Prune(d, f) ==
    IF Cardinality(Matched(d, f)) > archive_timestamp_count
       /\ archive_timestamp_count # 0
    THEN d \ {Live(f)}
    ELSE d

\* archive(denormpath): rename, then scan and prune.
Archive(d, f) == Prune(Rename(d, Live(f), TimestampedPath(f)), f)

\* The assembler replaces f: the old copy is archived, then the new
\* content is written with the current time as its mtime.
Replace(f) ==
    /\ Live(f) \in disk
    /\ disk' = Archive(disk, f) \cup {Live(f)}
    /\ mtime' = [mtime EXCEPT ![f] = now]
    /\ UNCHANGED now

Tick ==
    /\ now < MaxTime
    /\ now' = now + 1
    /\ UNCHANGED <<disk, mtime>>

Next == Tick \/ \E f \in File : Replace(f)

Spec == Init /\ [][Next]_vars

-----------------------------------------------------------------------------
\* No file ever has more than archive_timestamp_count timestamped copies:
\* archive() keeps at most that many (spec 4.8, TIMESTAMP_ARCHIVE "keep at
\* most N").
RetentionBound ==
    \A f \in File :
        Cardinality({p \in disk : p.file = f /\ p.stamp # NoStamp})
            <= archive_timestamp_count

=============================================================================
