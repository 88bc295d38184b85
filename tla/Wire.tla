-------------------------------- MODULE Wire --------------------------------
(***************************************************************************)
(* The bounds-checked cursor of tlsfp-core's parser.rs and the two framing *)
(* functions built directly on indices.                                    *)
(*                                                                         *)
(* A `Reader` over a slice of the captured bytes is a window of the        *)
(* capture: `pos` bytes lie before the cursor and `end` bytes before the   *)
(* end of the slice, so the unread bytes are d[pos + 1], ..., d[end].      *)
(* Positions are absolute, which lets a property compare the slice of an   *)
(* inner reader with the slice it was taken from.                          *)
(***************************************************************************)
EXTENDS Integers, Sequences

Byte == 0 .. 255

Word == 0 .. 65535    \* u16

\* Length of the `random` field of both hellos.
RandomLen == 32

Window == [pos : Nat, end : Nat]

Whole(d) == [pos |-> 0, end |-> Len(d)]

Remaining(w) == IF w.pos <= w.end THEN w.end - w.pos ELSE 0

Has(w, n) == n <= Remaining(w)

\* Mutant: an excessive length counts as none.
Clamp_Empty(n, w) == IF Has(w, n) THEN n ELSE 0

Clamp(n, w) == IF Has(w, n) THEN n ELSE Remaining(w)

\* Reading and skipping.  A read of n bytes succeeds only when Has(w, n).
Advance(w, n) == [w EXCEPT !.pos = @ + n]

Slice(w, n) == [pos |-> w.pos, end |-> w.pos + n]

\* Big-endian integers at the cursor of w.
U8(d, w) == d[w.pos + 1]

U16(d, w) == 256 * d[w.pos + 1] + d[w.pos + 2]

U24(d, w) == 65536 * d[w.pos + 1] + 256 * d[w.pos + 2] + d[w.pos + 3]

\* A vector that must fit: skip_u8_vec, and the cipher suite list.
HasVec8(d, w) == Has(w, 1) /\ Has(Advance(w, 1), U8(d, w))

HasVec16(d, w) == Has(w, 2) /\ Has(Advance(w, 2), U16(d, w))

\* A vector whose declared length is clamped to what is left; empty when even
\* the length prefix is missing.
Clamped8(d, w) ==
    IF Has(w, 1)
    THEN Slice(Advance(w, 1), Clamp(U8(d, w), Advance(w, 1)))
    ELSE Slice(w, 0)

Clamped16(d, w) ==
    IF Has(w, 2)
    THEN Slice(Advance(w, 2), Clamp(U16(d, w), Advance(w, 2)))
    ELSE Slice(w, 0)

\* Mutant: a list of bytes read as a list of 16-bit values.
Bytes_Wide(d, w) ==
    [i \in 1 .. (Remaining(w) \div 2) |->
        256 * d[w.pos + 2 * i - 1] + d[w.pos + 2 * i]]

\* The unread bytes of a window, as bytes and as big-endian 16-bit values
\* (an odd last byte is dropped).
Bytes(d, w) == [i \in 1 .. Remaining(w) |-> d[w.pos + i]]

U16s(d, w) ==
    [i \in 1 .. (Remaining(w) \div 2) |->
        256 * d[w.pos + 2 * i - 1] + d[w.pos + 2 * i]]

-----------------------------------------------------------------------------
\* Framing.  A record header is removed only for content type 0x16 and major
\* version 0x03; a declared length beyond the capture is clamped.
StripRecordHeader(d) ==
    IF Len(d) >= 5 /\ d[1] = 22 /\ d[2] = 3
    THEN LET payload == [pos |-> 5, end |-> Len(d)]
         IN Slice(payload, Clamp(256 * d[4] + d[5], payload))
    ELSE Whole(d)

\* Mutant: no minimum for the declared length.
IsTlsHandshake_AnyLength(d) ==
    LET hs == StripRecordHeader(d)
    IN /\ Has(hs, 5)
       /\ U8(d, hs) \in {1, 2}
       /\ Has(Advance(hs, 4), U24(d, Advance(hs, 1)))
       /\ U8(d, Advance(hs, 4)) = 3

\* The guard scalar: a hello whose declared length fits in the payload.
IsTlsHandshake(d) ==
    LET hs == StripRecordHeader(d)
    IN /\ Has(hs, 4)
       /\ U8(d, hs) \in {1, 2}
       /\ LET len == U24(d, Advance(hs, 1))
          IN /\ Has(Advance(hs, 4), len)
             /\ len >= 2 + RandomLen
             /\ U8(d, Advance(hs, 4)) = 3
=============================================================================
