------------------------------ MODULE Endpoint ------------------------------
(***************************************************************************)
(* Endpoint's compact packings (src/common/util/Endpoint.cpp): an IPv4     *)
(* endpoint is 4 address bytes and 2 port bytes, an IPv6 endpoint 16       *)
(* address bytes and 2 port bytes, both big-endian, and a list is the      *)
(* records one after another, as in the DHT's compact node and peer        *)
(* format.  A byte is a digit of base Base (256 in the code) so that TLC   *)
(* can cover every value of a narrower byte without overflowing.           *)
(***************************************************************************)
EXTENDS Naturals, Sequences, SequencesExt

CONSTANTS
    Base,     \* values of a byte
    MaxList   \* longest endpoint list considered

ASSUME Base \in Nat \ {0, 1} /\ MaxList \in Nat

Byte == 0..(Base - 1)
Port == 0..(Base^2 - 1)

\* The IPv6 addresses considered: all zeros, and a single 1 in the first
\* or in the last byte, which tell a byte-order mistake apart.
Addr6 == {[i \in 1..16 |-> IF i = j THEN 1 ELSE 0] : j \in {0, 1, 16}}

Endpoint4 == [proto: {4}, addr: 0..(Base^4 - 1), port: Port]
Endpoint6 == [proto: {6}, addr: Addr6, port: Port]

\* qFromBigEndian of a run of bytes.
BigEndian(bs) == FoldLeft(LAMBDA acc, b : acc * Base + b, 0, bs)

\* The n big-endian bytes of x: the reference packing.
Digits(x, n) == [i \in 1..n |-> (x \div Base^(n - i)) % Base]

Pack(e) ==
    (IF e.proto = 4 THEN Digits(e.addr, 4) ELSE e.addr) \o Digits(e.port, 2)

PackList(l) == FoldLeft(LAMBDA acc, e : acc \o Pack(e), <<>>, l)

\* QByteArray::mid(i, n): at most n bytes from position i.
Mid(bs, i, n) == SubSeq(bs, i + 1, IF i + n < Len(bs) THEN i + n ELSE Len(bs))

\* QByteArray::leftJustified(n, 0, true): pad with zero bytes, or truncate.
LeftJustified(bs, n) ==
    IF Len(bs) >= n THEN SubSeq(bs, 1, n)
    ELSE bs \o [i \in 1..(n - Len(bs)) |-> 0]

\* Mutant: the port read one byte early, from mid(3, 2).
FromPacked4PortEarly(packed) ==
    LET p == LeftJustified(packed, 6) IN
    [proto |-> 4, addr |-> BigEndian(Mid(p, 0, 4)), port |-> BigEndian(Mid(p, 3, 2))]

FromPacked4(packed) ==
    LET p == LeftJustified(packed, 6) IN
    [proto |-> 4, addr |-> BigEndian(Mid(p, 0, 4)), port |-> BigEndian(Mid(p, 4, 2))]

\* QHostAddress(quint8*) keeps the 16 bytes in order.
FromPacked6(packed) ==
    LET p == LeftJustified(packed, 18) IN
    [proto |-> 6, addr |-> Mid(p, 0, 16), port |-> BigEndian(Mid(p, 16, 2))]

\* The loop for (i = 0; i < packed.size(); i += 6) over mid(i, 6).
FromPackedList4(packed) ==
    [j \in 1..((Len(packed) + 5) \div 6) |-> FromPacked4(Mid(packed, (j - 1) * 6, 6))]

FromPackedList6(packed) ==
    [j \in 1..((Len(packed) + 17) \div 18) |-> FromPacked6(Mid(packed, (j - 1) * 18, 18))]

\* A list of endpoints of one family, as a peer or the DHT sends it.
Input ==
    [kind: {4}, eps: BoundedSeq(Endpoint4, MaxList)]
        \cup [kind: {6}, eps: BoundedSeq(Endpoint6, MaxList)]

VARIABLE input

Init == input \in Input

\* Each list is decoded once; the state does not change.
Next == UNCHANGED input

Spec == Init /\ [][Next]_input

\* fromPackedList4 and fromPackedList6 give back every list of whole
\* records exactly: no endpoint lost, added, reordered or altered in its
\* address or port bytes.
PackedListRoundTrip ==
    LET decoded == IF input.kind = 4 THEN FromPackedList4(PackList(input.eps))
                   ELSE FromPackedList6(PackList(input.eps))
    IN decoded = input.eps

=============================================================================
