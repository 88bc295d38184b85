--------------------------- MODULE ParserRefinement ---------------------------
(***************************************************************************)
(* The step-by-step parser implements the function from captures to        *)
(* answers: Inputs and data are shared, the abstract call returns when the *)
(* parser reaches one of its two results.                                  *)
(***************************************************************************)
EXTENDS HelloParser, HelloReference

Text(w) == FromUtf8Lossy(Bytes(data, w))

Texts(ws) == [i \in DOMAIN ws |-> Text(ws[i])]

ClientAnswer ==
    [legacy_version |-> hello.legacy_version, ciphers |-> hello.ciphers,
     extensions |-> hello.extensions, curves |-> hello.curves,
     point_formats |-> hello.point_formats, sig_algs |-> hello.sig_algs,
     supported_versions |-> hello.supported_versions,
     sni |-> Texts(hello.sni), alpn |-> Texts(hello.alpn)]

ServerAnswer ==
    [legacy_version |-> hello.legacy_version, cipher |-> hello.cipher,
     extensions |-> hello.extensions]

\* What the caller receives: nothing of a struct that a `?` dropped.
Answer ==
    IF pc # "some" THEN <<>>
    ELSE IF side = "client" THEN <<ClientAnswer>> ELSE <<ServerAnswer>>

\* What the abstract call answers: the two reference functions.
Parse(d, s) == IF s = "client" THEN ParseClientHello(d) ELSE ParseServerHello(d)

Abstract == INSTANCE HelloSpec WITH returned <- pc \in Returned, answer <- Answer

\* parse_client_hello and parse_server_hello answer exactly what the capture
\* means: the reads in their order, the overwritten fields, the clamps and the
\* early returns add up to the reference function.  (That they always answer
\* is Terminates.)
ImplementsReference == Abstract!Spec
=============================================================================
