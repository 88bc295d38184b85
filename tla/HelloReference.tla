--------------------------- MODULE HelloReference ---------------------------
(***************************************************************************)
(* What parsing a capture means, as functions from bytes to a decoded      *)
(* hello: no cursors, no locations, no order of reads.  This is the        *)
(* reference HelloParser is checked against, and the parser the modules    *)
(* above it call.  An Option is a sequence of at most one element.         *)
(***************************************************************************)
EXTENDS Integers, Sequences, SequencesExt, Utf8

Drop(s, n) == SubSeq(s, n + 1, Len(s))

\* The big-endian number in the first k bytes of s, at most three.
Number(s, k) ==
    CASE k = 1 -> s[1]
      [] k = 2 -> 256 * s[1] + s[2]
      [] k = 3 -> 65536 * s[1] + 256 * s[2] + s[3]

\* A vector with a k-byte length prefix at the start of s: does it fit, what
\* follows it, and its content when an excessive length is clamped.
Fits(s, k) == Len(s) >= k /\ Len(s) >= k + Number(s, k)

After(s, k) == Drop(s, k + Number(s, k))

Content(s, k) ==
    IF Len(s) < k THEN <<>>
    ELSE SubSeq(Drop(s, k), 1,
                IF Number(s, k) < Len(s) - k THEN Number(s, k) ELSE Len(s) - k)

Numbers16(s) ==
    [i \in 1 .. (Len(s) \div 2) |-> Number(Drop(s, 2 * i - 2), 2)]

Payload(d) ==
    IF Len(d) >= 5 /\ SubSeq(d, 1, 2) = <<22, 3>>
    THEN Content(Drop(d, 3), 2)
    ELSE d

\* The extension block as a list of extensions.
Extensions[s \in Seq(0 .. 255)] ==
    IF Len(s) < 4 THEN <<>>
    ELSE <<[type |-> Number(s, 2), body |-> Content(Drop(s, 2), 2)]>>
            \o Extensions[Drop(s, 4 + Len(Content(Drop(s, 2), 2)))]

\* The last extension of a type decides its field; the decoders give an empty
\* body the value of an absent extension.
BodyOf(exts, type) ==
    LET of == {i \in DOMAIN exts : exts[i].type = type}
    IN IF of = {} THEN <<>> ELSE exts[Max(of)].body

HostName[list \in Seq(0 .. 255)] ==
    IF Len(list) < 3 \/ ~Fits(Drop(list, 1), 2) THEN <<>>
    ELSE IF list[1] = 0 THEN <<FromUtf8Lossy(Content(Drop(list, 1), 2))>>
    ELSE HostName[After(Drop(list, 1), 2)]

Protocols[list \in Seq(0 .. 255)] ==
    IF ~Fits(list, 1) THEN <<>>
    ELSE <<FromUtf8Lossy(Content(list, 1))>> \o Protocols[After(list, 1)]

-----------------------------------------------------------------------------
\* The message of a hello of the given type after its handshake header.
IsHello(hs, type) == Len(hs) >= 4 /\ hs[1] = type

\* A body up to the end of the session id, and what follows it.
HasSession(body) == Len(body) >= 35 /\ Fits(Drop(body, 34), 1)

AfterSession(body) == After(Drop(body, 34), 1)

ClientFields(body, suites, exts) ==
    [legacy_version |-> Number(body, 2),
     ciphers |-> Numbers16(Content(suites, 2)),
     extensions |-> [i \in DOMAIN exts |-> exts[i].type],
     curves |-> Numbers16(Content(BodyOf(exts, 10), 2)),
     point_formats |-> Content(BodyOf(exts, 11), 1),
     sig_algs |-> Numbers16(Content(BodyOf(exts, 13), 2)),
     supported_versions |-> Numbers16(Content(BodyOf(exts, 43), 1)),
     sni |-> HostName[Content(BodyOf(exts, 0), 2)],
     alpn |-> Protocols[Content(BodyOf(exts, 16), 2)]]

\* The fields of a client body: both vectors before the extensions must fit.
ClientBody[body \in Seq(0 .. 255)] ==
    LET suites == AfterSession(body)
        methods == After(suites, 2)
    IN IF HasSession(body) /\ Fits(suites, 2) /\ Fits(methods, 1)
       THEN <<ClientFields(body, suites,
                           Extensions[Content(After(methods, 1), 2)])>>
       ELSE <<>>

ServerBody[body \in Seq(0 .. 255)] ==
    LET rest == AfterSession(body)
        exts == Extensions[Content(Drop(rest, 3), 2)]
    IN IF HasSession(body) /\ Len(rest) >= 3
       THEN <<[legacy_version |-> Number(body, 2),
               cipher |-> Number(rest, 2),
               extensions |-> [i \in DOMAIN exts |-> exts[i].type]]>>
       ELSE <<>>

ParseClientHello(d) ==
    IF IsHello(Payload(d), 1)
    THEN ClientBody[Content(Drop(Payload(d), 1), 3)]
    ELSE <<>>

ParseServerHello(d) ==
    IF IsHello(Payload(d), 2)
    THEN ServerBody[Content(Drop(Payload(d), 1), 3)]
    ELSE <<>>
=============================================================================
