------------------------------ MODULE MC_Units ------------------------------
(* Self-contained parts checked side by side: one state per Uploader      *)
(* block request (GetBlock), one per packed endpoint list (Endpoint), the *)
(* reads of a query through SQLiteResult (ResultCursor), and the control  *)
(* server with its clients (ControlServer), the chunk lists of one path   *)
(* as it is rewritten and re-indexed (Chunker), and the peer pools of the *)
(* client's folders (PeerLifecycle).  Each part's initial                *)
(* states hold the other parts at a fixed value; part names the one that  *)
(* moves.                                                                  *)
EXTENDS Naturals

CONSTANTS Width, MaxLen, Base, MaxList, Row, MaxRows, MaxFaults, MaxYields,
          Garbage, r1, r2,
          Conn, Origin, LocalOrigin, Folder, Globals, MaxCommands, None,
          c1, c2, oNone, oLocal, oRemote, f1, g1, g2,
          Plain, MaxChunks, MaxIv, a, b,
          Node, Addr, MaxPools, MaxPeers, Nil, n1, n2, e1, e2

VARIABLES req, input,
          q, endNull, stmt, last, pos, rescode, result, idx, out, faults, pc,
          conn, assigned, posted, timer, globals, folders, seen, commands, running,
          content, chunks, nextIv, issued,
          groups, registry, poolOf, members, ready, endpoints, digests, peer, listening,
          part

cursor == <<q, endNull, stmt, last, pos, rescode, result, idx, out, faults, pc>>

GB == INSTANCE GetBlock
EP == INSTANCE Endpoint
RC == INSTANCE ResultCursor
CS == INSTANCE ControlServer
CH == INSTANCE Chunker
PL == INSTANCE PeerLifecycle WITH Endpoint <- Addr

server == <<conn, assigned, posted, timer, globals, folders, seen, commands, running>>
file == <<content, chunks, nextIv, issued>>
pools == <<groups, registry, poolOf, members, ready, endpoints, digests, peer, listening>>

NoRequest == [offset |-> 0, size |-> 0, len |-> 0]
NoList == [kind |-> 4, eps |-> <<>>]

\* No read in progress: a finished read of an empty result.
NoRead ==
    /\ q = <<>> /\ endNull = FALSE /\ stmt = "null" /\ last = "none"
    /\ pos = 0 /\ rescode = "none" /\ result = RC!None /\ idx = 0
    /\ out = <<>> /\ faults = 0 /\ pc = "done"

\* No server: one destroyed before any client connected.
NoServer ==
    /\ conn = [c \in Conn |-> "idle"] /\ assigned = {} /\ posted = 0
    /\ timer = FALSE /\ globals = (CHOOSE g \in Globals : TRUE) /\ folders = {}
    /\ seen = [c \in Conn |-> None] /\ commands = 0 /\ running = FALSE

\* No file: a path never written nor indexed.
NoFile == content = <<>> /\ chunks = <<>> /\ nextIv = 0 /\ issued = {}

\* No pools: a client with no folder, whose server could not listen.
NoPools == PL!Init /\ ~listening

Init ==
    \/ GB!Init /\ input = NoList /\ NoRead /\ NoServer /\ NoFile /\ NoPools /\ part = "GB"
    \/ EP!Init /\ req = NoRequest /\ NoRead /\ NoServer /\ NoFile /\ NoPools /\ part = "EP"
    \/ RC!Init /\ req = NoRequest /\ input = NoList /\ NoServer /\ NoFile /\ NoPools /\ part = "RC"
    \/ CS!Init /\ req = NoRequest /\ input = NoList /\ NoRead /\ NoFile /\ NoPools /\ part = "CS"
    \/ CH!Init /\ req = NoRequest /\ input = NoList /\ NoRead /\ NoServer /\ NoPools /\ part = "CH"
    \/ PL!Init /\ req = NoRequest /\ input = NoList /\ NoRead /\ NoServer /\ NoFile /\ part = "PL"

Next ==
    /\ UNCHANGED <<req, input, part>>
    /\ \/ RC!Next /\ UNCHANGED <<server, file, pools>>
       \/ CS!Next /\ UNCHANGED <<cursor, file, pools>>
       \/ part = "CH" /\ CH!Next /\ UNCHANGED <<cursor, server, pools>>
       \/ part = "PL" /\ PL!Next /\ UNCHANGED <<cursor, server, file>>

all == <<req, input, cursor, server, file, pools, part>>

\* The control server's heartbeat, as the rest of the state stays.
Heartbeat == CS!SendHeartbeat /\ UNCHANGED <<req, input, cursor, file, pools, part>>

\* The fairness of ControlServer's Spec.
Spec == Init /\ [][Next]_all /\ WF_all(Heartbeat)

\* Uploader::get_block serves exactly the in-range requests (GetBlock).
AcceptsExactlyInside == GB!AcceptsExactlyInside

\* Endpoint's packed lists decode to the endpoints packed (Endpoint).
PackedListRoundTrip == EP!PackedListRoundTrip

\* A read with no failing step returns the selected rows (ResultCursor).
FaultFreeReadExact == RC!FaultFreeReadExact

\* A read ending on SQLITE_DONE ends with a whole pass (ResultCursor).
ReadEndsWithWholeQuery == RC!ReadEndsWithWholeQuery

\* Every open control connection is eventually sent the current
\* configuration (ControlServer).
ClientsCatchUp == CS!ClientsCatchUp

\* The chunk lists stay within their types (Chunker).
ChunkerTypeOK == CH!TypeOK

\* No IV is ever given to two plaintexts of one path (Chunker).
IvBindsPlaintext == CH!IvBindsPlaintext

\* Re-indexing keeps the ct_hash of every chunk whose plaintext recurs
\* (Chunker).
RecurringChunkKeepsCiphertext == CH!RecurringChunkKeepsCiphertext

\* A pool's endpoint and digest sets are those of its peers
\* (PeerLifecycle).
PoolTracksMembers == PL!PoolTracksMembers

\* No pool holds two sessions with one node or from one endpoint
\* (PeerLifecycle).
OneSessionPerNode == PL!OneSessionPerNode
=============================================================================
