----------------------------- MODULE FolderSync -----------------------------
(***************************************************************************)
(* Metadata replication of one folder between peers.                      *)
(*                                                                         *)
(* Each peer has a file tree (fs), an Index (Index.cpp) and, if it holds   *)
(* the ReadWrite secret, an indexer (IndexerWorker.cpp) whose results      *)
(* come back to the folder actor through a mailbox, as every worker-pool  *)
(* result does; runs of one path may overlap.  Peers exchange HaveMeta / MetaRequest /       *)
(* MetaReply over one FIFO connection per ordered pair.  The handlers of   *)
(* the folder group and the assembler are not in the source tree; they    *)
(* are modelled from the spec (sections 4.8, 4.9, 4.10) and call the       *)
(* Index operations exactly as Index.cpp defines them.                     *)
(***************************************************************************)
EXTENDS Indexer, Sequences

CONSTANTS
    Peer,               \* peers holding this folder
    Tier,               \* Peer -> Secret type held by the peer
    Path,               \* path_ids
    Data,               \* file / symlink contents
    MaxTime,            \* bound on the wall clock (seconds)
    MaxEdits,           \* bound on user edits
    IndexEventTimeout,  \* FolderParams::index_event_timeout, in seconds
    FullRescan,         \* whether the periodic full rescan is modelled
    EditTypes,          \* the kinds of entry users create
    Worker              \* threads of the indexer's worker pool

ASSUME IndexEventTimeout \in Nat /\ MaxTime \in 1..600 /\ MaxEdits \in Nat
ASSUME FullRescan \in BOOLEAN
ASSUME EditTypes \subseteq MetaTypes

DB == INSTANCE Index

ReadWrite == "ReadWrite"
ReadOnly == "ReadOnly"
Download == "Download"
ASSUME Tier \in [Peer -> {ReadWrite, ReadOnly, Download}]

\* Only a ReadWrite secret can sign, so only those peers run the indexer;
\* ChunkStorage creates the assembler only for ReadOnly or better.
Writer == {p \in Peer : Tier[p] = ReadWrite}
\* Mutant: the assembler created for ReadWrite only.
AssemblerRWOnly == {p \in Peer : Tier[p] = ReadWrite}
Assembler == {p \in Peer : Tier[p] \in {ReadWrite, ReadOnly}}

Links == {l \in Peer \X Peer : l[1] # l[2]}

VARIABLES
    now,      \* std::time(nullptr), a positive Unix time
    fs,       \* fs[p][path]: what the file system holds at path
    index,    \* index[p][path]: the meta row, or Nil
    dirty,    \* dirty[p][path]: time of the last file-system event, or Nil
    worker,   \* worker[j]: the IndexerWorker pool thread j is running, or Idle
    mailbox,  \* mailbox[p]: metaCreated results queued for p's folder actor
    chan,     \* chan[<<p, q>>]: messages from p to q, in order
    edits,    \* number of user edits so far
    rescanned \* rescanned[p][path]: the full rescan has reached path

vars == <<now, fs, index, dirty, worker, mailbox, chan, edits, rescanned>>

FsEntry == [type: {FILE, SYMLINK}, data: Data, mtime: 0..MaxTime]
           \cup [type: {DIRECTORY}, data: {Nil}, mtime: 0..MaxTime]
           \cup [type: {DELETED}, data: {Nil}, mtime: {0}]
Absent == [type |-> DELETED, data |-> Nil, mtime |-> 0]

MetaRow == [rev: 1..MaxTime, type: MetaTypes, data: Data \cup {Nil},
            mtime: 0..MaxTime, assembled: BOOLEAN]

\* A worker between reads: its peer and path, the type get_type saw, what
\* the later reads found so far, and the reads still to do.
Running == [peer: Peer, path: Path, type: MetaTypes, data: Data \cup {Nil},
            mtime: 0..MaxTime, todo: Seq({"content", "attrib", "stamp"})]
Idle == [todo |-> <<>>]

Msg == [kind: {"HaveMeta", "MetaRequest"}, path: Path, rev: 1..MaxTime, meta: {Nil}]
       \cup [kind: {"MetaReply"}, path: Path, rev: 1..MaxTime, meta: MetaRow]

HaveMetaMsg(path, rev) == [kind |-> "HaveMeta", path |-> path, rev |-> rev, meta |-> Nil]
MetaRequestMsg(path, rev) == [kind |-> "MetaRequest", path |-> path, rev |-> rev, meta |-> Nil]
MetaReplyMsg(m, path) == [kind |-> "MetaReply", path |-> path, rev |-> m.rev, meta |-> m]

\* The signed part of a row: what a MetaReply carries.
Signed(m) == IF m = Nil THEN Nil ELSE [m EXCEPT !.assembled = FALSE]

\* FolderGroup: send msg to every other attached peer.
Broadcast(c, p, msg) == [l \in Links |-> IF l[1] = p THEN Append(c[l], msg) ELSE c[l]]

TypeOK ==
    /\ now \in 1..MaxTime
    /\ fs \in [Peer -> [Path -> FsEntry]]
    /\ index \in [Peer -> [Path -> MetaRow \cup {Nil}]]
    /\ dirty \in [Peer -> [Path -> (1..MaxTime) \cup {Nil}]]
    /\ worker \in [Worker -> Running \cup {Idle}]
    /\ mailbox \in [Peer -> Seq([path: Path, meta: MetaRow])]
    /\ chan \in [Links -> Seq(Msg)]
    /\ edits \in 0..MaxEdits
    /\ rescanned \in [Peer -> [Path -> BOOLEAN]]

Init ==
    /\ now = 1
    /\ fs = [p \in Peer |-> [x \in Path |-> Absent]]
    /\ index = [p \in Peer |-> [x \in Path |-> Nil]]
    /\ dirty = [p \in Peer |-> [x \in Path |-> Nil]]
    /\ worker = [j \in Worker |-> Idle]
    /\ mailbox = [p \in Peer |-> <<>>]
    /\ chan = [l \in Links |-> <<>>]
    /\ edits = 0
    /\ rescanned = [p \in Peer |-> [x \in Path |-> FALSE]]

-----------------------------------------------------------------------------
\* The clock advances one second.
Tick ==
    /\ now < MaxTime
    /\ now' = now + 1
    /\ UNCHANGED <<fs, index, dirty, worker, mailbox, chan, edits, rescanned>>

\* A user of a ReadWrite peer writes a file or symlink, makes a directory
\* or deletes the path; the file-system watcher records the event.  An
\* edit is only made while its debounced event can still fire.
Edit(p, path, e) ==
    /\ p \in Writer
    /\ edits < MaxEdits
    /\ now + IndexEventTimeout <= MaxTime
    /\ e # fs[p][path]
    /\ fs' = [fs EXCEPT ![p][path] = e]
    /\ dirty' = [dirty EXCEPT ![p][path] = now]
    /\ edits' = edits + 1
    /\ UNCHANGED <<now, index, worker, mailbox, chan, rescanned>>

EditEntries(t) ==
    {e \in {[type |-> ty, data |-> d, mtime |-> t] : ty \in {FILE, SYMLINK}, d \in Data}
            \cup {[type |-> DIRECTORY, data |-> Nil, mtime |-> t], Absent} :
        e.type \in EditTypes}

\* Pool thread j starts IndexerWorker::run on path: getMeta, the mtime
\* compare, get_type and the type aborts, all before any content is read.
\* An abort ends the run with metaFailed, which changes nothing.
StartRun(j, p, path) ==
    LET e == fs[p][path]
        old == index[p][path]
    IN  worker' = [worker EXCEPT ![j] =
            IF MtimeUnchanged(e, old) \/ TypeAborts(e, old) THEN Idle
            ELSE [peer |-> p, path |-> path, type |-> e.type, data |-> Nil,
                  mtime |-> 0, todo |-> StepsAfterType(e.type)]]

\* A file-system event is handed to the indexer once it is
\* index_event_timeout old, whatever runs on the path meanwhile.
EventDue(p, path) ==
    dirty[p][path] # Nil /\ now >= dirty[p][path] + IndexEventTimeout

IndexEvent(j, p, path) ==
    /\ p \in Writer
    /\ worker[j] = Idle
    /\ EventDue(p, path)
    /\ StartRun(j, p, path)
    /\ dirty' = [dirty EXCEPT ![p][path] = Nil]
    /\ UNCHANGED <<now, fs, index, mailbox, chan, edits, rescanned>>

\* The periodic full rescan indexes a path whether or not an event is
\* waiting or a run on it is under way.  Its timer is not tied to the
\* edits, so it may fall in any second; full_rescan_interval (600 s) is
\* longer than MaxTime, so it reaches a path at most once.
Rescan(j, p, path) ==
    /\ FullRescan
    /\ p \in Writer
    /\ worker[j] = Idle
    /\ ~rescanned[p][path]
    /\ StartRun(j, p, path)
    /\ rescanned' = [rescanned EXCEPT ![p][path] = TRUE]
    /\ UNCHANGED <<now, fs, index, dirty, mailbox, chan, edits>>

\* The next read of a running worker, as the file is now.
\* content: update_chunks / read_symlink.  attrib: update_fsattrib's
\* last_write_time.  stamp: revision = std::time(nullptr), SignedMeta and
\* emit metaCreated, queued to the folder actor.
WorkerStep(j) ==
    LET w == worker[j]
        e == fs[w.peer][w.path]
        step == Head(w.todo)
        rest == [w EXCEPT !.todo = Tail(w.todo)]
    IN
    /\ w # Idle
    /\ \/ /\ step = "content"
          /\ worker' = [worker EXCEPT ![j] =
                IF ContentReadable(e, w.type) THEN [rest EXCEPT !.data = e.data] ELSE Idle]
          /\ UNCHANGED mailbox
       \/ /\ step = "attrib"
          /\ worker' = [worker EXCEPT ![j] =
                IF AttribReadable(e) THEN [rest EXCEPT !.mtime = e.mtime] ELSE Idle]
          /\ UNCHANGED mailbox
       \/ /\ step = "stamp"
          /\ worker' = [worker EXCEPT ![j] = Idle]
          /\ mailbox' = [mailbox EXCEPT ![w.peer] = Append(@, [path |-> w.path, meta |-> MakeMeta(w, now)])]
    /\ UNCHANGED <<now, fs, index, dirty, chan, edits, rescanned>>

\* The folder actor takes the oldest queued result: put_meta(meta, true),
\* whose metaAdded makes the folder group announce it to every peer.
ApplyIndexed(p) ==
    LET r == Head(mailbox[p]) IN
    /\ mailbox[p] # <<>>
    /\ index' = [index EXCEPT ![p] = DB!PutMeta(@, r.path, r.meta, TRUE)]
    /\ chan' = Broadcast(chan, p, HaveMetaMsg(r.path, r.meta.rev))
    /\ mailbox' = [mailbox EXCEPT ![p] = Tail(@)]
    /\ UNCHANGED <<now, fs, dirty, worker, edits, rescanned>>

-----------------------------------------------------------------------------
\* Receiving on the connection from p to q.
Recv(p, q) == [chan EXCEPT ![<<p, q>>] = Tail(@)]

\* HaveMeta: request the Meta if put_allowed says it is newer.
HandleHaveMeta(p, q) ==
    LET m == Head(chan[<<p, q>>]) IN
    /\ chan[<<p, q>>] # <<>>
    /\ m.kind = "HaveMeta"
    /\ chan' = IF DB!PutAllowed(index[q], m.path, m.rev)
               THEN [Recv(p, q) EXCEPT ![<<q, p>>] = Append(@, MetaRequestMsg(m.path, m.rev))]
               ELSE Recv(p, q)
    /\ UNCHANGED <<now, fs, index, dirty, worker, mailbox, edits, rescanned>>

\* MetaRequest: reply with the Meta if get_meta(path_revision) finds it;
\* no_such_meta drops the request.
HandleMetaRequest(p, q) ==
    LET m == Head(chan[<<p, q>>]) IN
    /\ chan[<<p, q>>] # <<>>
    /\ m.kind = "MetaRequest"
    /\ chan' = IF DB!HaveMeta(index[q], m.path, m.rev)
               THEN [Recv(p, q) EXCEPT ![<<q, p>>] = Append(@, MetaReplyMsg(Signed(index[q][m.path]), m.path))]
               ELSE Recv(p, q)
    /\ UNCHANGED <<now, fs, index, dirty, worker, mailbox, edits, rescanned>>

\* MetaReply: fed to the index iff put_allowed, as put_meta(meta, false);
\* metaAdded makes the folder group announce it onwards.
HandleMetaReply(p, q) ==
    LET m == Head(chan[<<p, q>>]) IN
    /\ chan[<<p, q>>] # <<>>
    /\ m.kind = "MetaReply"
    /\ IF DB!PutAllowed(index[q], m.path, m.rev)
       THEN /\ index' = [index EXCEPT ![q] = DB!PutMeta(@, m.path, m.meta, FALSE)]
            /\ chan' = Broadcast(Recv(p, q), q, HaveMetaMsg(m.path, m.rev))
       ELSE /\ chan' = Recv(p, q)
            /\ UNCHANGED index
    /\ UNCHANGED <<now, fs, dirty, worker, mailbox, edits, rescanned>>

\* The assembler materialises a Meta put with assembled = false: it writes
\* the file (mtime from the Meta; a symlink gets the current time), makes
\* the directory or removes the path, and marks the row assembled.  On a
\* peer that indexes, the write is a file-system event like any other.
FsOf(m) == [type |-> m.type, data |-> m.data,
            mtime |-> IF m.type = SYMLINK THEN now ELSE m.mtime]

Assemble(p, path) ==
    /\ p \in Assembler
    /\ index[p][path] # Nil
    /\ ~index[p][path].assembled
    /\ fs' = [fs EXCEPT ![p][path] = FsOf(index[p][path])]
    /\ index' = [index EXCEPT ![p][path].assembled = TRUE]
    /\ dirty' = IF p \in Writer THEN [dirty EXCEPT ![p][path] = now] ELSE dirty
    /\ UNCHANGED <<now, worker, mailbox, chan, edits, rescanned>>

-----------------------------------------------------------------------------
Next ==
    \/ Tick
    \/ \E p \in Peer, path \in Path, e \in EditEntries(now) : Edit(p, path, e)
    \/ \E j \in Worker, p \in Peer, path \in Path : IndexEvent(j, p, path) \/ Rescan(j, p, path)
    \/ \E j \in Worker : WorkerStep(j)
    \/ \E p \in Peer : ApplyIndexed(p)
    \/ \E p \in Peer, path \in Path : Assemble(p, path)
    \/ \E l \in Links :
          \/ HandleHaveMeta(l[1], l[2])
          \/ HandleMetaRequest(l[1], l[2])
          \/ HandleMetaReply(l[1], l[2])

\* Every step of the daemon is eventually taken once enabled: the event
\* loop, the worker pool and the sockets are not starved, and the clock
\* runs.  User edits carry no fairness.
Fairness ==
    /\ WF_vars(Tick)
    /\ \A p \in Peer, path \in Path :
          /\ WF_vars(\E j \in Worker : IndexEvent(j, p, path))
          /\ WF_vars(Assemble(p, path))
    /\ \A j \in Worker : WF_vars(WorkerStep(j))
    /\ \A p \in Peer : WF_vars(ApplyIndexed(p))
    /\ \A l \in Links :
          /\ WF_vars(HandleHaveMeta(l[1], l[2]))
          /\ WF_vars(HandleMetaRequest(l[1], l[2]))
          /\ WF_vars(HandleMetaReply(l[1], l[2]))

Spec == Init /\ [][Next]_vars /\ Fairness

-----------------------------------------------------------------------------
Materialised(p, path) ==
    IF index[p][path] = Nil
    THEN fs[p][path].type = DELETED
    ELSE /\ index[p][path].assembled
         /\ fs[p][path].type = index[p][path].type
         /\ fs[p][path].data = index[p][path].data

\* Eventually all indexes agree and every peer holding a ReadOnly or
\* ReadWrite secret has on disk what its index stores: the writers' last
\* edits are indexed, announced, fetched and assembled everywhere.
Converged ==
    /\ \A p, q \in Peer, path \in Path : Signed(index[p][path]) = Signed(index[q][path])
    /\ \A p \in Peer, path \in Path : Tier[p] # Download => Materialised(p, path)

Convergence == <>[]Converged

\* The refinement mapping to Replication: a peer holds the signed part of
\* its index row; the origin is the folder's one ReadWrite peer.
Held == [p \in Peer |-> [path \in Path |-> Signed(index[p][path])]]
Abstract == INSTANCE Replication
    WITH held <- Held, Origin <- CHOOSE w \in Writer : TRUE

\* With one writer, the folder group's handlers, put_allowed and the
\* indexer together implement Replication: every index step either
\* publishes a Meta of a higher revision on the writer or adopts on a
\* reader a Meta no newer than the writer's, the writer's own at its
\* revision, and every reader catches up.  The revisions come from the
\* clock at the end of each indexer run (IndexerWorker.cpp:129).
ReplicationRefined == Abstract!Spec

=============================================================================
