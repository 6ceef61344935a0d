------------------------------ MODULE GetBlock ------------------------------
(***************************************************************************)
(* Uploader::get_block's bounds check (daemon/folder/transfer/Uploader.cpp)*)
(* in the integer widths of the code: offset and size are uint32_t from    *)
(* the wire, chunk.size() is a non-negative int, and every mixed           *)
(* comparison and subtraction is done in unsigned 32-bit arithmetic.  The  *)
(* width is a constant so that TLC can cover every value of a narrower     *)
(* word; the check only relies on wrap-around, not on the width.           *)
(***************************************************************************)
EXTENDS Naturals

CONSTANTS
    Width,    \* bits of the unsigned word (32 in the code)
    MaxLen    \* largest chunk size considered

ASSUME Width \in Nat \ {0} /\ MaxLen \in Nat /\ MaxLen < 2^Width

Word == 0..(2^Width - 1)

\* Unsigned arithmetic: the result of an operation taken modulo 2^Width.
Unsigned(x) == x % 2^Width

\* Mutant: the end of the block computed first, as offset + size <= size().
AcceptsBySum(offset, size, len) == Unsigned(offset + size) <= len

\* get_block's test: offset < chunk.size() && size <= chunk.size()-offset.
Accepts(offset, size, len) == offset < len /\ size <= Unsigned(len - offset)

\* The block the request names lies inside the chunk and starts in it.
InsideChunk(offset, size, len) == offset < len /\ offset + size <= len

VARIABLE req

Init == req \in [offset: Word, size: Word, len: 0..MaxLen]

\* Each request is judged once; the state does not change.
Next == UNCHANGED req

Spec == Init /\ [][Next]_req

\* get_block returns a slice exactly when the requested range lies inside
\* the chunk, for every offset and size a remote can send: no request
\* reads past the chunk through wrap-around, and none inside is refused.
AcceptsExactlyInside ==
    Accepts(req.offset, req.size, req.len) <=> InsideChunk(req.offset, req.size, req.len)

=============================================================================
