------------------------------- MODULE Capture -------------------------------
(***************************************************************************)
(* From the sender to the parser: a hello is encoded, framed, and captured *)
(* whole, with bytes of the next message behind it, cut short, or split    *)
(* over two records.  The parser of HelloParser then runs on the capture.  *)
(***************************************************************************)
EXTENDS ParserRefinement, Fixtures

CONSTANTS Hellos,    \* the hellos that are sent, in the form of Fixtures
          Trailer    \* the bytes that follow a hello on the wire

ASSUME HellosAssumption == \A h \in Hellos : WellFormed(h)

ASSUME TrailerAssumption == Trailer \in Seq(Byte)

VARIABLES sent, delivery

allvars == <<vars, sent, delivery>>

\* How a handshake message m reaches the parser.  Only a record can be split.
Deliveries(m) ==
    [framing : {"bare", "record"}, damage : {"none", "trailing"}, at : {Len(m)}]
        \union [framing : {"bare", "record"}, damage : {"cut"}, at : 0 .. Len(m) - 1]
        \union [framing : {"record"}, damage : {"split"}, at : 1 .. Len(m) - 1]

Received(m, d) ==
    LET frame == IF d.framing = "bare" THEN m ELSE wrap_record(m)
        header == Len(frame) - Len(m)
    IN CASE d.damage = "none" -> frame
         [] d.damage = "trailing" -> frame \o Trailer
         [] d.damage = "cut" -> SubSeq(frame, 1, header + d.at)
         [] d.damage = "split" -> wrap_record(SubSeq(m, 1, d.at))
                                     \o wrap_record(SubSeq(m, d.at + 1, Len(m)))

CaptureInit ==
    /\ sent \in Hellos
    /\ \E m \in {Handshake(sent)} :
          /\ delivery \in Deliveries(m)
          /\ data = Received(m, delivery)
    /\ Call

CaptureNext == Next /\ UNCHANGED <<sent, delivery>>

CaptureSpec == CaptureInit /\ [][CaptureNext]_allvars /\ WF_allvars(Step)

\* The captures of the parser's specification.
Captures ==
    UNION {{Received(Handshake(h), d) : d \in Deliveries(Handshake(h))} : h \in Hellos}

ASSUME DeliveryAssumption == Captures \subseteq Inputs

-----------------------------------------------------------------------------
RightSide == HandshakeType[side] = sent.type

Intact == delivery.damage \in {"none", "trailing"}

Sent(etype) == LastValue(sent.extensions, etype)

SentTypes == [i \in DOMAIN sent.extensions |-> sent.extensions[i].type]

Expected ==
    IF sent.type = 1
    THEN [legacy_version |-> sent.legacy_version, ciphers |-> sent.ciphers,
          extensions |-> SentTypes, curves |-> Sent(10),
          point_formats |-> Sent(11), sig_algs |-> Sent(13),
          supported_versions |-> Sent(43),
          sni |-> IF \E i \in DOMAIN SentTypes : SentTypes[i] = 0
                  THEN <<Sent(0)>> ELSE <<>>,
          alpn |-> Sent(16)]
    ELSE [legacy_version |-> sent.legacy_version, cipher |-> sent.ciphers[1],
          extensions |-> SentTypes]

\* A hello that arrives whole is decoded to what was sent, bare or in a record,
\* with or without bytes behind it (parser.rs "Accepted framing").
RoundTrip ==
    RightSide /\ Intact =>
        /\ pc # "none"
        /\ pc = "some" => Answer = <<Expected>>

\* A ClientHello is never a ServerHello, nor the reverse, however it is damaged.
SidesAreDisjoint == ~RightSide => pc # "some"

\* The length of the message up to its extension block.
HeadLen == Len(Handshake(sent)) - Len(Vec16(Exts(sent.extensions)))

\* Exactly the hellos that lose a byte before the extension block are rejected.
\* A loss inside the block (and a record boundary inside it) is accepted.
CutBeforeExtensionsIsNull ==
    RightSide /\ ~Intact =>
        /\ pc = "none" => delivery.at < HeadLen
        /\ pc = "some" => delivery.at >= HeadLen

\* f is a prefix of what some extension of the type was sent with.
Survives(f, etype) ==
    f = <<>> \/ \E i \in DOMAIN sent.extensions :
                    /\ sent.extensions[i].type = etype
                    /\ IsPrefix(f, AsParsed(sent.extensions[i]))

\* What is decoded from a damaged capture was sent: the version and the whole
\* cipher list, a prefix of the extensions, a prefix of each list, and no name
\* that is cut short.
DamageInventsNothing ==
    RightSide /\ pc = "some" =>
        LET got == Answer[1]
        IN /\ got.legacy_version = sent.legacy_version
           /\ IsPrefix(got.extensions, SentTypes)
           /\ side = "server" => got.cipher = sent.ciphers[1]
           /\ side = "client" =>
                 /\ got.ciphers = sent.ciphers
                 /\ Survives(got.curves, 10) /\ Survives(got.point_formats, 11)
                 /\ Survives(got.sig_algs, 13) /\ Survives(got.supported_versions, 43)
                 /\ Survives(got.alpn, 16)
                 /\ got.sni # <<>> =>
                       \E i \in DOMAIN sent.extensions :
                          /\ sent.extensions[i].type = 0
                          /\ got.sni = <<AsParsed(sent.extensions[i])>>

\* parser.rs:148: "Returns `None` on any truncation or type mismatch".
TruncatedIsNull == side = "client" /\ delivery.damage = "cut" => pc # "some"
=============================================================================
