------------------------------ MODULE Chunker ------------------------------
(***************************************************************************)
(* How IndexerWorker::update_chunks and populate_chunk turn a file's       *)
(* content into the chunk list of a FILE Meta, reusing the IVs of the      *)
(* previous Meta of the path.                                              *)
(*                                                                         *)
(* The Rabin chunker's boundaries are abstracted: a file's content is      *)
(* already the sequence of its chunks' plaintexts.  pt_hmac is injective   *)
(* on plaintexts, so a chunk's pt_hmac is its plaintext value.  ct_hash    *)
(* is the pair <<plaintext, iv>>: the ciphertext under the folder key is   *)
(* determined by exactly these two.  generateRandomIV returns an IV never  *)
(* returned before; the n-th one issued is the number n.                   *)
(***************************************************************************)
EXTENDS Naturals, Sequences, SequencesExt, TLC

CONSTANTS
    Plain,      \* plaintext chunk values
    MaxChunks,  \* most chunks in one file
    MaxIv       \* bound on the IVs generateRandomIV hands out

ASSUME MaxChunks \in Nat /\ MaxIv \in Nat

VARIABLES
    content,  \* the file on disk: plaintexts of its chunks, in order
    chunks,   \* chunk list of the Meta in the index (<<>> before indexing)
    nextIv,   \* IVs generated so far
    issued    \* every chunk ever put in a Meta of the path

vars == <<content, chunks, nextIv, issued>>

\* Meta::Chunk as populate_chunk fills it.
MakeChunk(pt, iv) == [pt |-> pt, iv |-> iv, ct |-> <<pt, iv>>]

\* Mutant: the map left empty (the IV-reuse loop dropped).
IvMapNone(old) == <<>>

\* The pt_hmac__iv map: QMap::insert over the old chunks in order, so of
\* two old chunks with one pt_hmac the later one's IV is kept.
RECURSIVE IvMapOf(_)
IvMapOf(old) ==
    IF old = <<>> THEN <<>>
    ELSE LET c == Last(old) IN (c.pt :> c.iv) @@ IvMapOf(Front(old))

\* populate_chunk: pt_hmac__iv.value(pt_hmac, generateRandomIV()).  The map
\* is a copy; an IV generated here is not added to it.
PopulateChunk(pt, ivmap, fresh) ==
    MakeChunk(pt, IF pt \in DOMAIN ivmap THEN ivmap[pt] ELSE fresh)

\* Mutant: IVs reused by position in the old list instead of by pt_hmac.
UpdateChunksPositional(data, old, base) ==
    [i \in 1..Len(data) |->
        MakeChunk(data[i], IF i <= Len(old) THEN old[i].iv ELSE base + i)]

\* Mutant: the fresh IVs numbered from the last one already issued.
UpdateChunksFromLast(data, old, base) ==
    LET ivmap == IvMapOf(old) IN
    [i \in 1..Len(data) |-> PopulateChunk(data[i], ivmap, base + i - 1)]

\* update_chunks: the map from the old Meta's chunks, then one
\* populate_chunk per chunk, each with its own freshly generated IV.
UpdateChunks(data, old, base) ==
    LET ivmap == IvMapOf(old) IN
    [i \in 1..Len(data) |-> PopulateChunk(data[i], ivmap, base + i)]

Contents == SeqOf(Plain, MaxChunks)

ChunkType == [pt: Plain, iv: 1..MaxIv, ct: Plain \X (1..MaxIv)]

TypeOK ==
    /\ content \in Seq(Plain) /\ Len(content) <= MaxChunks
    /\ chunks \in Seq(ChunkType) /\ Len(chunks) <= MaxChunks
    /\ nextIv \in 0..MaxIv
    /\ issued \subseteq ChunkType

Init ==
    /\ content \in Contents
    /\ chunks = <<>>
    /\ nextIv = 0
    /\ issued = {}

\* The user rewrites the file.
Write(data) ==
    /\ data # content
    /\ content' = data
    /\ UNCHANGED <<chunks, nextIv, issued>>

\* The indexer runs on the file (an event, a rescan, or a touch that
\* changed only the mtime) and the new Meta replaces the old one.
Index ==
    /\ nextIv + Len(content) <= MaxIv
    /\ chunks' = UpdateChunks(content, chunks, nextIv)
    /\ nextIv' = nextIv + Len(content)
    /\ issued' = issued \cup ToSet(chunks')
    /\ UNCHANGED content

Next ==
    \/ \E data \in Contents : Write(data)
    \/ Index

Spec == Init /\ [][Next]_vars

-----------------------------------------------------------------------------
\* One IV is never used for two different plaintexts over the whole
\* history of the path: reusing the IV of a plaintext for another would
\* let equal ciphertext prefixes leak plaintext equality.
IvBindsPlaintext ==
    \A x, y \in issued : x.iv = y.iv => x.pt = y.pt

\* A chunk whose plaintext was in the previous Meta gets a ct_hash that the
\* previous Meta already had, so no peer has to download it again (the
\* point of reusing IVs, spec section 3 "Chunk").
RecurringChunkKeepsCiphertext ==
    [][\A c \in ToSet(chunks') :
          (\E o \in ToSet(chunks) : o.pt = c.pt)
          => \E o \in ToSet(chunks) : o.ct = c.ct]_vars

\* The index describes the file as it is on disk.
Indexed == [i \in DOMAIN chunks |-> chunks[i].pt] = content

\* Indexing a file twice with no content change produces the same chunk
\* list (spec 8, item 2; scenario S1).
ChunkReuse ==
    [][Indexed /\ content' = content => chunks' = chunks]_vars

=============================================================================
