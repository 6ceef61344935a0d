---------------------------- MODULE BlockTransfer ----------------------------
(***************************************************************************)
(* Chunk exchange for one FILE Meta whose metadata every peer already      *)
(* holds: ChunkStorage (daemon/folder/chunk/ChunkStorage.cpp) on each      *)
(* peer, the Uploader (daemon/folder/transfer/Uploader.cpp) answering      *)
(* Interested / NotInterested / BlockRequest, and the requesting side.     *)
(*                                                                         *)
(* The Downloader, the peer session and the assembler are not in the      *)
(* source tree; they follow spec 4.8, 4.10 and 4.11: a peer is interested  *)
(* in a remote that has a chunk it lacks, requests a chunk only from a     *)
(* remote that unchoked it, and re-requests after a timeout.  A remote's   *)
(* bitfield is read directly (the HaveChunk messages are abstracted).      *)
(* The memory cache is left out: it only ever holds chunks that one of the *)
(* other two layers had.                                                   *)
(***************************************************************************)
EXTENDS Naturals, Sequences

CONSTANTS
    Peer,         \* peers of the folder
    Tier,         \* Peer -> secret type
    Chunk,        \* ct_hashes of the Meta's chunks
    Seeder,       \* the peer whose file is on disk at the start
    MaxTimeouts,  \* bound on request timeouts
    Nil

ReadWrite == "ReadWrite"
ReadOnly == "ReadOnly"
Download == "Download"
ASSUME Tier \in [Peer -> {ReadWrite, ReadOnly, Download}]
ASSUME Seeder \in Peer /\ Tier[Seeder] # Download

\* ChunkStorage's constructor: OpenStorage, Archive and AssemblerQueue
\* exist only when secret.getType() <= ReadOnly.
WithOpenStorage == {p \in Peer : Tier[p] \in {ReadWrite, ReadOnly}}

Links == {l \in Peer \X Peer : l[1] # l[2]}

VARIABLES
    enc,             \* enc[p]: chunks in p's encrypted blob store
    assembled,       \* assembled[p]: the file is on disk (openfs assembled)
    crashed,         \* crashed[p]: the daemon of p has died
    choking,         \* choking[q][p]: q's am_choking towards p
    peerInterested,  \* peerInterested[q][p]: q's peer_interested for p
    amInterested,    \* amInterested[p][q]: p told q it is interested
    unchoked,        \* unchoked[p][q]: p has seen Unchoke from q
    inflight,        \* inflight[p]: <<q, c>> requests p awaits
    chan,            \* chan[<<p, q>>]: messages from p to q
    timeouts         \* request timeouts so far

vars == <<enc, assembled, crashed, choking, peerInterested, amInterested,
          unchoked, inflight, chan, timeouts>>

Msg(kind, c) == [kind |-> kind, chunk |-> c]

\* ChunkStorage::have_chunk: the encrypted store, or the open storage of
\* an assembled file.
HaveChunk(p, c) == c \in enc[p] \/ (p \in WithOpenStorage /\ assembled[p])

Missing(p) == {c \in Chunk : ~HaveChunk(p, c)}
Offers(q, p) == {c \in Missing(p) : HaveChunk(q, c)}

Send(c, p, q, m) == [c EXCEPT ![<<p, q>>] = Append(@, m)]
Recv(c, p, q) == [c EXCEPT ![<<p, q>>] = Tail(@)]
Head2(p, q) == Head(chan[<<p, q>>])
Arrived(p, q, kind) == chan[<<p, q>>] # <<>> /\ Head2(p, q).kind = kind

Init ==
    /\ enc = [p \in Peer |-> {}]
    /\ assembled = [p \in Peer |-> p = Seeder]
    /\ crashed = [p \in Peer |-> FALSE]
    /\ choking = [q \in Peer |-> [p \in Peer |-> TRUE]]
    /\ peerInterested = [q \in Peer |-> [p \in Peer |-> FALSE]]
    /\ amInterested = [p \in Peer |-> [q \in Peer |-> FALSE]]
    /\ unchoked = [p \in Peer |-> [q \in Peer |-> FALSE]]
    /\ inflight = [p \in Peer |-> {}]
    /\ chan = [l \in Links |-> <<>>]
    /\ timeouts = 0

-----------------------------------------------------------------------------
(* The requesting side (spec 4.11). *)

BecomeInterested(p, q) ==
    /\ ~crashed[p] /\ ~amInterested[p][q] /\ Offers(q, p) # {}
    /\ amInterested' = [amInterested EXCEPT ![p][q] = TRUE]
    /\ chan' = Send(chan, p, q, Msg("Interested", Nil))
    /\ UNCHANGED <<enc, assembled, crashed, choking, peerInterested, unchoked, inflight, timeouts>>

LoseInterest(p, q) ==
    /\ ~crashed[p] /\ amInterested[p][q] /\ Offers(q, p) = {}
    /\ amInterested' = [amInterested EXCEPT ![p][q] = FALSE]
    /\ chan' = Send(chan, p, q, Msg("NotInterested", Nil))
    /\ UNCHANGED <<enc, assembled, crashed, choking, peerInterested, unchoked, inflight, timeouts>>

RequestBlock(p, q, c) ==
    /\ ~crashed[p] /\ amInterested[p][q] /\ unchoked[p][q]
    /\ c \in Offers(q, p)
    /\ \A r \in Peer : <<r, c>> \notin inflight[p]
    /\ inflight' = [inflight EXCEPT ![p] = @ \cup {<<q, c>>}]
    /\ chan' = Send(chan, p, q, Msg("BlockRequest", c))
    /\ UNCHANGED <<enc, assembled, crashed, choking, peerInterested, amInterested, unchoked, timeouts>>

\* The request timer fires: the request is cancelled and may be re-sent.
Timeout(p, q, c) ==
    /\ ~crashed[p] /\ <<q, c>> \in inflight[p]
    /\ timeouts < MaxTimeouts
    /\ inflight' = [inflight EXCEPT ![p] = @ \ {<<q, c>>}]
    /\ timeouts' = timeouts + 1
    /\ UNCHANGED <<enc, assembled, crashed, choking, peerInterested, amInterested, unchoked, chan>>

-----------------------------------------------------------------------------
(* The serving side: Uploader handlers, run by q on a message from p. *)

\* Uploader::handle_interested: remote->unchoke().
HandleInterested(q, p) ==
    /\ peerInterested' = [peerInterested EXCEPT ![q][p] = TRUE]
    /\ choking' = [choking EXCEPT ![q][p] = FALSE]
    /\ chan' = Send(Recv(chan, p, q), q, p, Msg("Unchoke", Nil))

\* Uploader::handle_not_interested: remote->choke().
HandleNotInterested(q, p) ==
    /\ peerInterested' = [peerInterested EXCEPT ![q][p] = FALSE]
    /\ choking' = [choking EXCEPT ![q][p] = TRUE]
    /\ chan' = Send(Recv(chan, p, q), q, p, Msg("Choke", Nil))

\* Mutant: the block served to a remote that q is choking.
ServesChoking(q, p) == choking[q][p] /\ peerInterested[q][p]

\* handle_block_request's condition: !am_choking() && peer_interested().
Serves(q, p) == ~choking[q][p] /\ peerInterested[q][p]

\* Uploader::handle_block_request: reply with get_block if q serves p and
\* has the chunk; otherwise (no_such_chunk included) drop without answer.
HandleBlockRequest(q, p, c) ==
    chan' = IF Serves(q, p) /\ HaveChunk(q, c)
            THEN Send(Recv(chan, p, q), q, p, Msg("BlockReply", c))
            ELSE Recv(chan, p, q)

UploaderStep(p, q) ==
    /\ ~crashed[q]
    /\ \/ Arrived(p, q, "Interested") /\ HandleInterested(q, p)
       \/ Arrived(p, q, "NotInterested") /\ HandleNotInterested(q, p)
       \/ Arrived(p, q, "BlockRequest") /\ HandleBlockRequest(q, p, Head2(p, q).chunk)
          /\ UNCHANGED <<choking, peerInterested>>
    /\ UNCHANGED <<enc, assembled, crashed, amInterested, unchoked, inflight, timeouts>>

-----------------------------------------------------------------------------
(* The requesting side receives. *)

RecvChoke(p, q) ==
    /\ ~crashed[p]
    /\ \/ Arrived(q, p, "Choke") /\ unchoked' = [unchoked EXCEPT ![p][q] = FALSE]
       \/ Arrived(q, p, "Unchoke") /\ unchoked' = [unchoked EXCEPT ![p][q] = TRUE]
    /\ chan' = Recv(chan, q, p)
    /\ UNCHANGED <<enc, assembled, crashed, choking, peerInterested, amInterested, inflight, timeouts>>

\* A BlockReply is fed to ChunkStorage::put_chunk: the blob is stored,
\* then file_assembler->addAssemble is called for every Meta containing
\* it.  Without open storage file_assembler is a null pointer: the call is
\* undefined behaviour, and the build either crashes or carries on.
PutChunk(p, c) ==
    /\ enc' = [enc EXCEPT ![p] = @ \cup {c}]
    /\ \/ p \in WithOpenStorage /\ UNCHANGED crashed
       \/ p \notin WithOpenStorage /\ crashed' = [crashed EXCEPT ![p] = TRUE]
       \/ p \notin WithOpenStorage /\ UNCHANGED crashed

RecvBlock(p, q) ==
    /\ ~crashed[p]
    /\ Arrived(q, p, "BlockReply")
    /\ inflight' = [inflight EXCEPT ![p] = @ \ {<<q, Head2(q, p).chunk>>}]
    /\ PutChunk(p, Head2(q, p).chunk)
    /\ chan' = Recv(chan, q, p)
    /\ UNCHANGED <<assembled, choking, peerInterested, amInterested, unchoked, timeouts>>

\* The assembler writes the file once every chunk is stored (spec 4.8).
Assemble(p) ==
    /\ ~crashed[p] /\ p \in WithOpenStorage /\ ~assembled[p]
    /\ Chunk \subseteq enc[p]
    /\ assembled' = [assembled EXCEPT ![p] = TRUE]
    /\ UNCHANGED <<enc, crashed, choking, peerInterested, amInterested, unchoked, inflight, chan, timeouts>>

\* ChunkStorage::cleanup(meta): every blob that open storage has is
\* removed from the encrypted store.
Cleanup(p) ==
    /\ ~crashed[p] /\ p \in WithOpenStorage
    /\ enc' = [enc EXCEPT ![p] = {c \in @ : ~assembled[p]}]
    /\ enc' # enc
    /\ UNCHANGED <<assembled, crashed, choking, peerInterested, amInterested, unchoked, inflight, chan, timeouts>>

Next ==
    \/ \E l \in Links :
          \/ BecomeInterested(l[1], l[2])
          \/ LoseInterest(l[1], l[2])
          \/ UploaderStep(l[1], l[2])
          \/ RecvChoke(l[1], l[2])
          \/ RecvBlock(l[1], l[2])
          \/ \E c \in Chunk : RequestBlock(l[1], l[2], c) \/ Timeout(l[1], l[2], c)
    \/ \E p \in Peer : Assemble(p) \/ Cleanup(p)

\* Every handler and the downloader's steps are taken when enabled; the
\* request timer eventually fires for a request that stays unanswered.
Fairness ==
    /\ \A l \in Links :
          /\ WF_vars(BecomeInterested(l[1], l[2]))
          /\ WF_vars(LoseInterest(l[1], l[2]))
          /\ WF_vars(UploaderStep(l[1], l[2]))
          /\ WF_vars(RecvChoke(l[1], l[2]))
          /\ WF_vars(RecvBlock(l[1], l[2]))
          /\ \A c \in Chunk : WF_vars(RequestBlock(l[1], l[2], c)) /\ WF_vars(Timeout(l[1], l[2], c))
    /\ \A p \in Peer : WF_vars(Assemble(p))

Spec == Init /\ [][Next]_vars /\ Fairness

-----------------------------------------------------------------------------
\* Every peer ends up with the file: assembled on disk where the secret
\* allows it, every chunk in the encrypted store otherwise (spec 8, item 4).
Converged ==
    \A p \in Peer :
        IF p \in WithOpenStorage THEN assembled[p] ELSE Chunk \subseteq enc[p]

Convergence == <>[]Converged

=============================================================================
