-------------------------------- MODULE Utf8 --------------------------------
(***************************************************************************)
(* String::from_utf8_lossy of the Rust standard library, through which     *)
(* parser.rs turns the bytes of a host name or an ALPN protocol into a     *)
(* String.  Strings are their UTF-8 bytes.                                 *)
(***************************************************************************)
EXTENDS Integers, Sequences, SequencesExt

\* U+FFFD REPLACEMENT CHARACTER
Replacement == <<239, 191, 189>>

\* The bytes that may follow lead byte b, position by position; undefined for
\* a byte that leads nothing.
Continuation(b) ==
    LET any == 128 .. 191
    IN CASE b \in 194 .. 223 -> <<any>>
         [] b = 224 -> <<160 .. 191, any>>
         [] b \in (225 .. 239) \ {237} -> <<any, any>>
         [] b = 237 -> <<128 .. 159, any>>
         [] b = 240 -> <<144 .. 191, any, any>>
         [] b \in 241 .. 243 -> <<any, any, any>>
         [] b = 244 -> <<128 .. 143, any, any>>
         [] OTHER -> <<>>

Leads(b) == b < 128 \/ Continuation(b) # <<>>

\* How many continuation bytes after s[1] are well formed.
Matched(s) ==
    LET c == Continuation(s[1])
        ok(k) == /\ k < Len(s)
                 /\ \A i \in 1 .. k : s[i + 1] \in c[i]
    IN CHOOSE k \in 0 .. Len(c) : ok(k) /\ (k = Len(c) \/ ~ok(k + 1))

\* A character is copied; a maximal ill-formed prefix becomes one replacement.
FromUtf8LossyOf[s \in Seq(0 .. 255)] ==
    IF s = <<>> THEN <<>>
    ELSE LET k == Matched(s)
             whole == Leads(s[1]) /\ k = Len(Continuation(s[1]))
         IN (IF whole THEN SubSeq(s, 1, k + 1) ELSE Replacement)
                \o FromUtf8LossyOf[SubSeq(s, k + 2, Len(s))]

FromUtf8Lossy(s) == FromUtf8LossyOf[s]
=============================================================================
