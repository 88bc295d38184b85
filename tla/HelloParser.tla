----------------------------- MODULE HelloParser -----------------------------
(***************************************************************************)
(* parse_client_hello and parse_server_hello of tlsfp-core, one action per *)
(* read of the source.  `r` is the outer reader (the handshake message,    *)
(* then its body), `sub` the reader of the cipher suite list or of the     *)
(* extension block, `item` the reader inside a server_name or ALPN list.   *)
(* A `?` that fires is the action Reject.                                  *)
(*                                                                         *)
(* Names keep their window of the capture; the (total) conversion of a     *)
(* name to a String is applied where the result leaves the parser, in      *)
(* HelloReference.                                                         *)
(***************************************************************************)
EXTENDS Wire

CONSTANT Inputs    \* the captures handed to the parser

ASSUME InputsAssumption == Inputs \subseteq Seq(Byte)

VARIABLES data, side, pc, r, sub, item, hello

vars == <<data, side, pc, r, sub, item, hello>>

\* Extension type codes.
SERVER_NAME == 0
SUPPORTED_GROUPS == 10
EC_POINT_FORMATS == 11
SIGNATURE_ALGORITHMS == 13
ALPN == 16
SUPPORTED_VERSIONS == 43

Side == {"client", "server"}

\* Program points: the reads of the header, the loops, the two results.
Returned == {"none", "some"}

Location ==
    {"type", "length", "version", "random", "session", "suites", "cipher",
     "compression", "selected", "extensions", "extension", "names",
     "protocols"} \union Returned

HandshakeType == [client |-> 1, server |-> 2]

\* ClientHello and ServerHello in one record; `cipher` is the server's.
\* `sni` is an Option, a sequence of at most one window.
Default ==
    [legacy_version |-> 0, cipher |-> 0, ciphers |-> <<>>, extensions |-> <<>>,
     curves |-> <<>>, point_formats |-> <<>>, sig_algs |-> <<>>,
     supported_versions |-> <<>>, sni |-> <<>>, alpn |-> <<>>]

\* The call of one of the two parsers on the capture.
Call ==
    /\ side \in Side
    /\ pc = "type"
    /\ r = StripRecordHeader(data)
    /\ sub = Slice(r, 0)
    /\ item = Slice(r, 0)
    /\ hello = Default

Init == data \in Inputs /\ Call

-----------------------------------------------------------------------------
\* Whether the read at the current location succeeds; the locations that are
\* not named cannot fail.
Readable ==
    CASE pc = "type" -> Has(r, 1) /\ U8(data, r) = HandshakeType[side]
      [] pc = "length" -> Has(r, 3)
      [] pc = "version" -> Has(r, 2)
      [] pc = "random" -> Has(r, RandomLen)
      [] pc \in {"session", "compression"} -> HasVec8(data, r)
      [] pc = "suites" -> HasVec16(data, r)
      [] pc = "selected" -> Has(r, 3)
      [] OTHER -> TRUE

\* A `?` or the explicit type check returns None.
Reject ==
    /\ ~Readable
    /\ pc' = "none"
    /\ UNCHANGED <<data, side, r, sub, item, hello>>

\* Mutant: the type byte is not compared.
CheckType_AnyType ==
    /\ pc = "type" /\ Has(r, 1)
    /\ r' = Advance(r, 1)
    /\ pc' = "length"
    /\ UNCHANGED <<data, side, sub, item, hello>>

CheckType ==
    /\ pc = "type" /\ Readable
    /\ r' = Advance(r, 1)
    /\ pc' = "length"
    /\ UNCHANGED <<data, side, sub, item, hello>>

\* Mutant: the declared length is believed.
TakeBody_Unclamped ==
    /\ pc = "length" /\ Readable
    /\ r' = Slice(Advance(r, 3), U24(data, r))
    /\ pc' = "version"
    /\ UNCHANGED <<data, side, sub, item, hello>>

\* The declared body length, clamped, becomes the window of all later reads.
TakeBody ==
    /\ pc = "length" /\ Readable
    /\ LET rest == Advance(r, 3)
       IN r' = Slice(rest, Clamp(U24(data, r), rest))
    /\ pc' = "version"
    /\ UNCHANGED <<data, side, sub, item, hello>>

ReadVersion ==
    /\ pc = "version" /\ Readable
    /\ r' = Advance(r, 2)
    /\ hello' = [hello EXCEPT !.legacy_version = U16(data, r)]
    /\ pc' = "random"
    /\ UNCHANGED <<data, side, sub, item>>

SkipRandom ==
    /\ pc = "random" /\ Readable
    /\ r' = Advance(r, RandomLen)
    /\ pc' = "session"
    /\ UNCHANGED <<data, side, sub, item, hello>>

\* Mutant: the session id is taken to be empty.
SkipSessionId_Empty ==
    /\ pc = "session" /\ Readable
    /\ r' = Advance(r, 1)
    /\ pc' = IF side = "client" THEN "suites" ELSE "selected"
    /\ UNCHANGED <<data, side, sub, item, hello>>

SkipSessionId ==
    /\ pc = "session" /\ Readable
    /\ r' = Advance(r, 1 + U8(data, r))
    /\ pc' = IF side = "client" THEN "suites" ELSE "selected"
    /\ UNCHANGED <<data, side, sub, item, hello>>

TakeCipherSuites ==
    /\ pc = "suites" /\ Readable
    /\ sub' = Slice(Advance(r, 2), U16(data, r))
    /\ r' = Advance(r, 2 + U16(data, r))
    /\ pc' = "cipher"
    /\ UNCHANGED <<data, side, item, hello>>

\* Mutant: the list is read without moving the cursor.
PushCipher_Stuck ==
    /\ pc = "cipher" /\ Has(sub, 2)
    /\ hello' = [hello EXCEPT !.ciphers = Append(@, U16(data, sub))]
    /\ UNCHANGED <<data, side, pc, r, sub, item>>

PushCipher ==
    /\ pc = "cipher" /\ Has(sub, 2)
    /\ hello' = [hello EXCEPT !.ciphers = Append(@, U16(data, sub))]
    /\ sub' = Advance(sub, 2)
    /\ UNCHANGED <<data, side, pc, r, item>>

EndCiphers ==
    /\ pc = "cipher" /\ ~Has(sub, 2)
    /\ pc' = "compression"
    /\ UNCHANGED <<data, side, r, sub, item, hello>>

SkipCompressionMethods ==
    /\ pc = "compression" /\ Readable
    /\ r' = Advance(r, 1 + U8(data, r))
    /\ pc' = "extensions"
    /\ UNCHANGED <<data, side, sub, item, hello>>

\* The server's selected cipher suite and its one compression byte.
ReadSelected ==
    /\ pc = "selected" /\ Readable
    /\ r' = Advance(r, 3)
    /\ hello' = [hello EXCEPT !.cipher = U16(data, r)]
    /\ pc' = "extensions"
    /\ UNCHANGED <<data, side, sub, item>>

\* Mutant: an extension block that does not fit is a truncation.
NoExtensions_Strict ==
    /\ pc = "extensions" /\ ~HasVec16(data, r)
    /\ pc' = "none"
    /\ UNCHANGED <<data, side, r, sub, item, hello>>

NoExtensions ==
    /\ pc = "extensions" /\ ~Has(r, 2)
    /\ pc' = "some"
    /\ UNCHANGED <<data, side, r, sub, item, hello>>

OpenExtensions ==
    /\ pc = "extensions" /\ Has(r, 2)
    /\ sub' = Clamped16(data, r)
    /\ r' = [r EXCEPT !.pos = sub'.end]
    /\ pc' = "extension"
    /\ UNCHANGED <<data, side, item, hello>>

-----------------------------------------------------------------------------
\* One turn of the extension loop.  The field of a known extension is
\* overwritten, whatever an earlier extension of the same type left in it.
Decode(h, etype, body) ==
    CASE etype = SERVER_NAME -> [h EXCEPT !.sni = <<>>]
      [] etype = SUPPORTED_GROUPS ->
            [h EXCEPT !.curves = U16s(data, Clamped16(data, body))]
      [] etype = EC_POINT_FORMATS ->
            [h EXCEPT !.point_formats = Bytes(data, Clamped8(data, body))]
      [] etype = SIGNATURE_ALGORITHMS ->
            [h EXCEPT !.sig_algs = U16s(data, Clamped16(data, body))]
      [] etype = SUPPORTED_VERSIONS ->
            [h EXCEPT !.supported_versions = U16s(data, Clamped8(data, body))]
      [] etype = ALPN -> [h EXCEPT !.alpn = <<>>]
      [] OTHER -> h

\* Mutant: a known extension is decoded but not listed.
Record_UnknownOnly(h, etype) ==
    IF etype = SERVER_NAME THEN h
    ELSE [h EXCEPT !.extensions = Append(@, etype)]

Record(h, etype) == [h EXCEPT !.extensions = Append(@, etype)]

\* The body of the extension at the cursor of sub, its length clamped.
ExtensionBody == Clamped16(data, Advance(sub, 2))

\* server_name and ALPN bodies are lists of names: NextName and NextProtocol
\* walk them.
AfterExtension(etype) ==
    CASE side = "client" /\ etype = SERVER_NAME -> "names"
      [] side = "client" /\ etype = ALPN -> "protocols"
      [] OTHER -> "extension"

NextExtension ==
    /\ pc = "extension" /\ Has(sub, 4)
    /\ LET etype == U16(data, sub)
           body == ExtensionBody
       IN /\ hello' = IF side = "client"
                      THEN Decode(Record(hello, etype), etype, body)
                      ELSE Record(hello, etype)
          /\ sub' = [sub EXCEPT !.pos = body.end]
          /\ pc' = AfterExtension(etype)
          /\ item' = IF pc' = "extension" THEN item ELSE Clamped16(data, body)
    /\ UNCHANGED <<data, side, r>>

EndExtensions ==
    /\ pc = "extension" /\ ~Has(sub, 4)
    /\ pc' = "some"
    /\ UNCHANGED <<data, side, r, sub, item, hello>>

\* Mutant: a name of another type is not consumed.
NextName_Stuck ==
    /\ pc = "names" /\ Has(item, 1) /\ HasVec16(data, Advance(item, 1))
    /\ LET name == Slice(Advance(item, 3), U16(data, Advance(item, 1)))
       IN IF U8(data, item) = 0
          THEN /\ hello' = [hello EXCEPT !.sni = <<name>>]
               /\ pc' = "extension"
               /\ item' = [item EXCEPT !.pos = name.end]
          ELSE UNCHANGED <<item, pc, hello>>
    /\ UNCHANGED <<data, side, r, sub>>

\* A name must fit in the list: one that does not ends the list with no name.
NextName ==
    /\ pc = "names" /\ Has(item, 1) /\ HasVec16(data, Advance(item, 1))
    /\ LET name == Slice(Advance(item, 3), U16(data, Advance(item, 1)))
       IN IF U8(data, item) = 0
          THEN /\ hello' = [hello EXCEPT !.sni = <<name>>]
               /\ pc' = "extension"
               /\ item' = [item EXCEPT !.pos = name.end]
          ELSE /\ item' = [item EXCEPT !.pos = name.end]
               /\ UNCHANGED <<pc, hello>>
    /\ UNCHANGED <<data, side, r, sub>>

EndNames ==
    /\ pc = "names"
    /\ ~(Has(item, 1) /\ HasVec16(data, Advance(item, 1)))
    /\ pc' = "extension"
    /\ UNCHANGED <<data, side, r, sub, item, hello>>

\* Mutants: the cursor stays on the name; a name that does not fit is cut.
NextProtocol_Stuck ==
    /\ pc = "protocols" /\ HasVec8(data, item)
    /\ LET name == Slice(Advance(item, 1), U8(data, item))
       IN hello' = [hello EXCEPT !.alpn = Append(@, name)]
    /\ UNCHANGED <<data, side, pc, r, sub, item>>

NextProtocol_Clamped ==
    /\ pc = "protocols" /\ Has(item, 1)
    /\ LET name == Clamped8(data, item)
       IN /\ hello' = [hello EXCEPT !.alpn = Append(@, name)]
          /\ item' = [item EXCEPT !.pos = name.end]
    /\ UNCHANGED <<data, side, pc, r, sub>>

NextProtocol ==
    /\ pc = "protocols" /\ HasVec8(data, item)
    /\ LET name == Slice(Advance(item, 1), U8(data, item))
       IN /\ hello' = [hello EXCEPT !.alpn = Append(@, name)]
          /\ item' = [item EXCEPT !.pos = name.end]
    /\ UNCHANGED <<data, side, pc, r, sub>>

EndProtocols ==
    /\ pc = "protocols" /\ ~HasVec8(data, item)
    /\ pc' = "extension"
    /\ UNCHANGED <<data, side, r, sub, item, hello>>

Done ==
    /\ pc \in Returned
    /\ UNCHANGED vars

Step ==
    \/ Reject \/ CheckType \/ TakeBody \/ ReadVersion \/ SkipRandom
    \/ SkipSessionId \/ TakeCipherSuites \/ PushCipher \/ EndCiphers
    \/ SkipCompressionMethods \/ ReadSelected \/ NoExtensions
    \/ OpenExtensions \/ NextExtension \/ EndExtensions \/ NextName
    \/ EndNames \/ NextProtocol \/ EndProtocols

Next == Step \/ Done

\* The parser is a straight-line call on one thread: nothing blocks it.
Spec == Init /\ [][Next]_vars /\ WF_vars(Step)
-----------------------------------------------------------------------------
Hello ==
    [legacy_version : Word, cipher : Word, ciphers : Seq(Word),
     extensions : Seq(Word), curves : Seq(Word), point_formats : Seq(Byte),
     sig_algs : Seq(Word), supported_versions : Seq(Word),
     sni : Seq(Window), alpn : Seq(Window)]

\* The decoded struct and the readers have the types of parser.rs: 16-bit code
\* points, bytes, at most one host name.
TypeOK ==
    /\ data \in Seq(Byte) /\ side \in Side /\ pc \in Location
    /\ r \in Window /\ sub \in Window /\ item \in Window
    /\ hello \in Hello /\ Len(hello.sni) <= 1

Message == StripRecordHeader(data)

\* Every reader stays inside the slice it was opened on: the payload lies in the
\* capture, the body in the payload, the cipher list or extension block in the
\* part of the body already passed, a name list in the part of the block
\* already passed.
ReadersNested ==
    /\ Message.pos <= r.pos /\ r.pos <= r.end
    /\ r.end <= Message.end /\ Message.end <= Len(data)
    /\ sub.pos <= sub.end /\ sub.end <= r.pos
    /\ item.pos <= item.end /\ item.end <= sub.pos

\* The name w lies in the part of the capture before position p.
Behind(w, p) == w.pos <= w.end /\ w.end <= p

NamesNested ==
    /\ \A i \in DOMAIN hello.sni : Behind(hello.sni[i], sub.pos)
    /\ \A i \in DOMAIN hello.alpn : Behind(hello.alpn[i], sub.pos)

\* No read and no name that is returned reaches outside the structure it belongs
\* to (parser.rs:158, "a bogus extension length can never read past the
\* message"), whatever lengths the capture declares.
WindowsNested == ReadersNested /\ NamesNested

\* Wire bytes that the vectors of the struct stand for.
Size(h) ==
    2 * Len(h.ciphers) + 4 * Len(h.extensions) + 2 * Len(h.curves)
        + Len(h.point_formats) + 2 * Len(h.sig_algs)
        + 2 * Len(h.supported_versions) + 3 * Len(h.sni) + Len(h.alpn)

\* Nested and repeated lists are never counted twice: what the struct holds was
\* paid for by bytes the cursor has passed, so no capture makes the parser
\* allocate more elements than it has bytes.
AllocationBound == Size(hello) <= sub.pos

\* is_tls_handshake and the parsers read the same header: a hello the guard
\* accepts is taken whole (its declared length is not clamped) and its parser
\* cannot reject it before the session id.
GuardAdmits ==
    IsTlsHandshake(data) /\ U8(data, Message) = HandshakeType[side] =>
        /\ pc = "none" => r.pos >= Message.pos + 4 + 2 + RandomLen
        /\ pc \notin {"type", "length"} =>
              r.end = Message.pos + 4 + U24(data, Advance(Message, 1))

Listed(etype) == \E i \in DOMAIN hello.extensions : hello.extensions[i] = etype

\* A decoded field is never without its type code in the extension list: the
\* SNI flag of JA4 reads the list, the decoder's sni column the field.
FieldsHaveExtensions ==
    /\ hello.sni # <<>> => Listed(SERVER_NAME)
    /\ hello.alpn # <<>> => Listed(ALPN)
    /\ hello.curves # <<>> => Listed(SUPPORTED_GROUPS)
    /\ hello.point_formats # <<>> => Listed(EC_POINT_FORMATS)
    /\ hello.sig_algs # <<>> => Listed(SIGNATURE_ALGORITHMS)
    /\ hello.supported_versions # <<>> => Listed(SUPPORTED_VERSIONS)

\* A bound on the steps left: bytes unread, and the loop exits that read none.
Measure ==
    3 * (Remaining(r) + Remaining(sub) + Remaining(item))
        + CASE pc \in Returned -> 0
            [] pc \in {"cipher", "names", "protocols"} -> 2
            [] OTHER -> 1

\* Every step of the parser uses up part of a bound that is linear in the
\* capture, whatever lengths and counts the capture declares.
Progress == [][Measure' < Measure]_vars

\* The call returns ("total over arbitrary bytes").
Terminates == <>(pc \in Returned)
=============================================================================
