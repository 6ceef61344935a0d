----------------------------- MODULE IndexStore -----------------------------
(***************************************************************************)
(* The folder's Index (daemon/folder/meta/Index.cpp) at the level of its    *)
(* SQL statements, over the SQLite wrapper (src/daemon/util/               *)
(* SQLiteWrapper.cpp).                                                     *)
(*                                                                         *)
(* The connection is a record: db is what the connection reads, disk what  *)
(* is committed, stack the open savepoints, each with the db it restores.  *)
(* A statement run while no savepoint is open commits at once.  SAVEPOINT, *)
(* RELEASE and ROLLBACK TO have SQLite's meaning; a RELEASE or ROLLBACK TO *)
(* of a name not on the stack is an error, and SQLiteDB::exec ignores     *)
(* every error.                                                            *)
(*                                                                         *)
(* A Meta is its path_id, its type and its chunk list (empty unless the   *)
(* Meta is a FILE); every chunk has size 1, so a chunk's openfs offset is *)
(* its position in the list minus one.  When IoFaults holds, a statement   *)
(* of put_meta may fail for a reason of the disk (SQLITE_FULL, IOERR): the *)
(* statement is undone, or SQLite rolls back the whole transaction.  The  *)
(* process may crash at any step; it then restarts, reopens the database  *)
(* and runs the Index constructor again.                                   *)
(***************************************************************************)
EXTENDS Naturals, FiniteSets, Sequences, SequencesExt

CONSTANTS
    Path,       \* path_ids
    Chunk,      \* ct_hashes
    Caller,     \* threads calling put_meta, naming its savepoint
    MaxChunks,  \* longest chunk list of a Meta
    IoFaults,   \* whether a statement may fail for a reason of the disk
    Nil

ASSUME IoFaults \in BOOLEAN

MetaType == {0, 1, 2, 255}   \* Meta::FILE, DIRECTORY, SYMLINK, DELETED
Meta == [path: Path, type: {0}, chunks: BoundedSeq(Chunk, MaxChunks)]
            \cup [path: Path, type: MetaType \ {0}, chunks: {<<>>}]
Row == [m: Meta, asm: BOOLEAN]                  \* a meta row
OpenfsRow == [chunk: Chunk, path: Path, off: Nat, asm: BOOLEAN]
Store == [meta: [Path -> Row \cup {Nil}], chunk: SUBSET Chunk,
          openfs: SUBSET OpenfsRow]
Empty == [meta |-> [p \in Path |-> Nil], chunk |-> {}, openfs |-> {}]

VARIABLES
    conn,     \* [db, disk, stack] of the SQLiteDB connection
    hashTxt,  \* hash.txt: "none" (absent), "ok" (the secret's hash), "empty"
    phase,    \* "open", "trunc", "write" (in the constructor), "ready"
    pc,       \* pc[t]: the statement put_meta of thread t runs next
    arg,      \* arg[t]: the Row thread t is putting
    k,        \* k[t]: the position in the chunk list
    emitted,  \* emitted[p]: the last Row metaAdded announced, or Nil
    indexState \* the "index" entry notify_state gave the StateCollector, or Nil

vars == <<conn, hashTxt, phase, pc, arg, k, emitted, indexState>>

-----------------------------------------------------------------------------
(* SQLiteDB::exec of one statement that turns the tables into new.        *)
Exec(c, new) ==
    [c EXCEPT !.db = new, !.disk = IF c.stack = <<>> THEN new ELSE @]

(* A statement that fails: SQLite undoes the statement, or, for a full    *)
(* disk or an I/O error, may roll back the whole transaction, leaving no   *)
(* savepoint open.  exec steps the statement once and never reads the    *)
(* result code, so the caller goes on either way.                         *)
Abort(c) == [db |-> c.disk, disk |-> c.disk, stack |-> <<>>]

StmtResults(c, done) ==
    {done} \cup (IF IoFaults THEN {c, Abort(c)} ELSE {})

Innermost(c, n) == SelectLastInSeq(c.stack, LAMBDA s : s.name = n)

(* SQLiteSavepoint's constructor: SAVEPOINT name.                          *)
Savepoint(c, n) == [c EXCEPT !.stack = Append(@, [name |-> n, snap |-> c.db])]

(* commit(): RELEASE name.  Releasing the outermost savepoint commits.     *)
Release(c, n) ==
    LET i == Innermost(c, n) IN
    IF i = 0 THEN c
    ELSE [c EXCEPT !.stack = SubSeq(@, 1, i - 1),
                   !.disk = IF i = 1 THEN c.db ELSE @]

(* The destructor: ROLLBACK TO name, which keeps the savepoint open.       *)
RollbackTo(c, n) ==
    LET i == Innermost(c, n) IN
    IF i = 0 THEN c
    ELSE [c EXCEPT !.db = c.stack[i].snap, !.stack = SubSeq(@, 1, i)]

-----------------------------------------------------------------------------
(* The statements of put_meta and wipe on the tables.  openfs references   *)
(* meta and chunk ON DELETE CASCADE, and PRAGMA foreign_keys is ON: the    *)
(* row INSERT OR REPLACE deletes takes its openfs rows with it.           *)
\* Mutant: the REPLACE takes the old row without its openfs rows.
ReplaceMetaKeepsOpenfs(s, r) == [s EXCEPT !.meta[r.m.path] = r]

ReplaceMeta(s, r) ==
    [s EXCEPT !.meta[r.m.path] = r,
              !.openfs = {o \in @ : o.path # r.m.path}]

InsertChunk(s, ch) == [s EXCEPT !.chunk = @ \cup {ch}]

(* openfs has no key, so OR REPLACE never replaces; a row whose foreign    *)
(* keys are missing fails, and the error is ignored.                       *)
InsertOpenfs(s, o) ==
    IF o.chunk \in s.chunk /\ s.meta[o.path] # Nil
    THEN [s EXCEPT !.openfs = @ \cup {o}] ELSE s

DeleteMeta(s) == [s EXCEPT !.meta = [p \in Path |-> Nil], !.openfs = {}]
DeleteChunk(s) == [s EXCEPT !.chunk = {}, !.openfs = {}]
DeleteOpenfs(s) == [s EXCEPT !.openfs = {}]

(* Index::wipe: SQLiteSavepoint's statements name the savepoint           *)
(* Index::wipe, which SQLite rejects as a syntax error, and exec ignores   *)
(* the error.  So SAVEPOINT, RELEASE and ROLLBACK TO do nothing, and each  *)
(* DELETE commits on its own; VACUUM does not change the rows.            *)
Wipe(c) ==
    LET d1 == Exec(c, DeleteMeta(c.db))
        d2 == Exec(d1, DeleteChunk(d1.db))
    IN  Exec(d2, DeleteOpenfs(d2.db))

(* get_status: the number of meta rows of each type.                     *)
GetStatus(s) ==
    [ty \in MetaType |-> Cardinality({p \in Path : s.meta[p] # Nil /\ s.meta[p].m.type = ty})]

(* notify_state: get_status through the connection, into the collector.   *)
NotifyState == indexState' = GetStatus(conn.db)

-----------------------------------------------------------------------------
Init ==
    /\ conn = [db |-> Empty, disk |-> Empty, stack |-> <<>>]
    /\ hashTxt = "none"
    /\ phase = "open"
    /\ pc = [t \in Caller |-> "idle"]
    /\ arg = [t \in Caller |-> Nil]
    /\ k = [t \in Caller |-> 1]
    /\ emitted = [p \in Path |-> Nil]
    /\ indexState = Nil

(* The constructor up to hash.txt: open the database and create the        *)
(* tables (no change to the rows), read hash.txt, and wipe if it exists    *)
(* and does not hold the secret's hash.                                    *)
Open ==
    /\ phase = "open"
    /\ conn' = IF hashTxt \in {"none", "ok"} THEN conn ELSE Wipe(conn)
    /\ phase' = "trunc"
    /\ UNCHANGED <<hashTxt, pc, arg, k, emitted, indexState>>

(* file_wrapper(hash_txt, "w") truncates the file, then the hash is        *)
(* written, the file closed, and notify_state reports the index.          *)
TruncateHash ==
    /\ phase = "trunc" /\ hashTxt' = "empty" /\ phase' = "write"
    /\ UNCHANGED <<conn, pc, arg, k, emitted, indexState>>

WriteHash ==
    /\ phase = "write" /\ hashTxt' = "ok" /\ phase' = "ready"
    /\ NotifyState
    /\ UNCHANGED <<conn, pc, arg, k, emitted>>

(* put_meta(signed_meta, fully_assembled): the savepoint named after the   *)
(* calling thread.                                                         *)
Begin(t, r) ==
    /\ phase = "ready" /\ pc[t] = "idle"
    /\ conn' = Savepoint(conn, t)
    /\ pc' = [pc EXCEPT ![t] = "meta"]
    /\ arg' = [arg EXCEPT ![t] = r]
    /\ k' = [k EXCEPT ![t] = 1]
    /\ UNCHANGED <<hashTxt, phase, emitted, indexState>>

(* Goes on to the next chunk's rows, or to the commit after the last.      *)
NextChunk(t, i) ==
    /\ k' = [k EXCEPT ![t] = IF i <= Len(arg[t].m.chunks) THEN i ELSE 1]
    /\ pc' = [pc EXCEPT ![t] = IF i <= Len(arg[t].m.chunks) THEN "chunk" ELSE "release"]

PutMetaRow(t) ==
    /\ pc[t] = "meta"
    /\ conn' \in StmtResults(conn, Exec(conn, ReplaceMeta(conn.db, arg[t])))
    /\ NextChunk(t, 1)
    /\ UNCHANGED <<hashTxt, phase, arg, emitted, indexState>>

PutChunkRow(t) ==
    /\ pc[t] = "chunk"
    /\ conn' \in StmtResults(conn, Exec(conn, InsertChunk(conn.db, arg[t].m.chunks[k[t]])))
    /\ pc' = [pc EXCEPT ![t] = "openfs"]
    /\ UNCHANGED <<hashTxt, phase, arg, k, emitted, indexState>>

PutOpenfsRow(t) ==
    /\ pc[t] = "openfs"
    /\ conn' \in StmtResults(conn, Exec(conn, InsertOpenfs(conn.db,
                 [chunk |-> arg[t].m.chunks[k[t]], path |-> arg[t].m.path,
                  off |-> k[t] - 1, asm |-> arg[t].asm])))
    /\ NextChunk(t, k[t] + 1)
    /\ UNCHANGED <<hashTxt, phase, arg, emitted, indexState>>

\* Mutant: put_meta without raii_transaction.commit().
CommitSkipped(t) ==
    /\ pc[t] = "release"
    /\ pc' = [pc EXCEPT ![t] = "emit"]
    /\ UNCHANGED <<conn, hashTxt, phase, arg, k, emitted, indexState>>

Commit(t) ==
    /\ pc[t] = "release"
    /\ conn' \in StmtResults(conn, Release(conn, t))
    /\ pc' = [pc EXCEPT ![t] = "emit"]
    /\ UNCHANGED <<hashTxt, phase, arg, k, emitted, indexState>>

\* Mutant: put_meta without its closing notify_state.
EmitNoNotify(t) ==
    /\ pc[t] = "emit"
    /\ emitted' = [emitted EXCEPT ![arg[t].m.path] = arg[t]]
    /\ pc' = [pc EXCEPT ![t] = "rollback"]
    /\ UNCHANGED <<conn, hashTxt, phase, arg, k, indexState>>

(* emit metaAdded, assemble_meta_signal when not fully assembled, and      *)
(* notify_state.                                                           *)
Emit(t) ==
    /\ pc[t] = "emit"
    /\ emitted' = [emitted EXCEPT ![arg[t].m.path] = arg[t]]
    /\ pc' = [pc EXCEPT ![t] = "rollback"]
    /\ NotifyState
    /\ UNCHANGED <<conn, hashTxt, phase, arg, k>>

(* The savepoint goes out of scope.                                        *)
Destruct(t) ==
    /\ pc[t] = "rollback"
    /\ conn' = RollbackTo(conn, t)
    /\ pc' = [pc EXCEPT ![t] = "idle"]
    /\ arg' = [arg EXCEPT ![t] = Nil]
    /\ UNCHANGED <<hashTxt, phase, k, emitted, indexState>>

(* The process dies and starts again: the open transaction is lost, the    *)
(* signals' receivers are gone, and the constructor runs anew.             *)
Crash ==
    /\ conn' = [db |-> conn.disk, disk |-> conn.disk, stack |-> <<>>]
    /\ phase' = "open"
    /\ pc' = [t \in Caller |-> "idle"]
    /\ arg' = [t \in Caller |-> Nil]
    /\ k' = [t \in Caller |-> 1]
    /\ emitted' = [p \in Path |-> Nil]
    /\ indexState' = Nil
    /\ UNCHANGED hashTxt

Next ==
    \/ Open \/ TruncateHash \/ WriteHash \/ Crash
    \/ \E t \in Caller :
        \/ \E r \in Row : Begin(t, r)
        \/ PutMetaRow(t) \/ PutChunkRow(t) \/ PutOpenfsRow(t)
        \/ Commit(t) \/ Emit(t) \/ Destruct(t)

Spec == Init /\ [][Next]_vars

-----------------------------------------------------------------------------
(* The openfs rows put_meta writes for a meta row.                         *)
OpenfsOf(r) ==
    {[chunk |-> r.m.chunks[i], path |-> r.m.path, off |-> i - 1, asm |-> r.asm] :
        i \in DOMAIN r.m.chunks}

Stored(s) == {p \in Path : s.meta[p] # Nil}

\* What a restart reads back is whole: the committed openfs table holds
\* exactly the rows of the committed Metas, at their offsets, and the
\* chunk catalog every chunk they list.  It is what containing_chunk and
\* the assembler rely on, across REPLACE's cascade, the savepoint of
\* put_meta and a crash at any statement.
CommittedIndexWhole ==
    LET s == conn.disk IN
    /\ s.openfs = UNION {OpenfsOf(s.meta[p]) : p \in Stored(s)}
    /\ \A p \in Stored(s) : ToSet(s.meta[p].m.chunks) \subseteq s.chunk

(* get_meta(path_id): SELECT meta ... WHERE path_id LIMIT 1, collected    *)
(* into a list; no_such_meta when the list is empty.                       *)
GetMeta(s, p) == IF s.meta[p] = Nil THEN "no_such_meta" ELSE s.meta[p].m

\* Once the constructor and every put_meta have returned, the counts the
\* StateCollector shows for the index are those of what is committed:
\* notify_state runs after each commit and after the constructor's wipe,
\* and a restart reports afresh.
IndexStateCurrent ==
    (phase = "ready" /\ \A t \in Caller : pc[t] = "idle") =>
        indexState = GetStatus(conn.disk)

\* Once put_meta has returned, no transaction is left open, and for every
\* Meta metaAdded announced since the process started, get_meta(path_id)
\* over what is committed returns that Meta with its assembled flag,
\* unless a later put of its path replaced it: a listener never acts on a
\* Meta a crash would take back.
AnnouncedDurable ==
    (phase = "ready" /\ \A t \in Caller : pc[t] = "idle") =>
        /\ conn.stack = <<>>
        /\ \A p \in Path : emitted[p] # Nil =>
               /\ GetMeta(conn.disk, p) = emitted[p].m
               /\ conn.disk.meta[p].asm = emitted[p].asm

=============================================================================
