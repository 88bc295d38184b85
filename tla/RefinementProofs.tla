--------------------------- MODULE RefinementProofs ---------------------------
(***************************************************************************)
(* The parser implements the reference, for every set of captures: at each *)
(* read, the unread bytes are the part of the capture that the reference   *)
(* still has to interpret, and the struct holds what it says of the part   *)
(* before them.                                                            *)
(***************************************************************************)
EXTENDS ParserRefinement, HelloParserProofs

\* What the reference computes on the way: the handshake message, its body,
\* the parts of the body, and the struct before its extensions.
Hs == Payload(data)

Kind == HandshakeType[side]

Body == Content(Drop(Hs, 1), 3)

Suites == AfterSession(Body)

Methods == After(Suites, 2)

Offered == Numbers16(Content(Suites, 2))

Start == [Default EXCEPT !.legacy_version = Number(Body, 2)]

Filled ==
    IF side = "client" THEN [Start EXCEPT !.ciphers = Offered]
    ELSE [Start EXCEPT !.cipher = Number(Suites, 2)]

Remainder == IF side = "client" THEN After(Methods, 1) ELSE Drop(Suites, 3)

Block == Extensions[Content(Remainder, 2)]

Parsed == IF side = "client" THEN ParseClientHello(data) ELSE ParseServerHello(data)

Result == IF side = "client" THEN <<ClientAnswer>> ELSE <<ServerAnswer>>

\* The captures the reference accepts, up to the body and as a whole.
Opened == IsHello(Hs, Kind) /\ Body \in Seq(Byte)

Accepted ==
    /\ Opened /\ HasSession(Body)
    /\ side = "client" => Fits(Suites, 2) /\ Fits(Methods, 1)
    /\ side = "server" => Len(Suites) >= 3

-----------------------------------------------------------------------------
\* What the outer reader has left and what the struct holds, at each of the
\* reads before the extension block.
Left == Bytes(data, r)

AtType == Left = Hs /\ hello = Default

AtLength ==
    Len(Hs) >= 1 /\ Hs[1] = Kind /\ Left = Drop(Hs, 1) /\ hello = Default

AtVersion == Opened /\ Left = Body /\ hello = Default

AtRandom == Opened /\ Len(Body) >= 2 /\ Left = Drop(Body, 2) /\ hello = Start

AtSession == Opened /\ Len(Body) >= 34 /\ Left = Drop(Body, 34) /\ hello = Start

AtSuites == Opened /\ HasSession(Body) /\ Left = Suites /\ hello = Start

AtCipher ==
    /\ Opened /\ HasSession(Body) /\ Fits(Suites, 2) /\ Left = Methods
    /\ hello = [Start EXCEPT !.ciphers = hello.ciphers]
    /\ hello.ciphers \o U16s(data, sub) = Offered

AtCompression ==
    /\ Opened /\ HasSession(Body) /\ Fits(Suites, 2) /\ Left = Methods
    /\ hello = [Start EXCEPT !.ciphers = Offered]

AtExtensions == Accepted /\ Left = Remainder /\ hello = Filled

\* The fields that stand for the extensions read so far.
Scalars(done) ==
    /\ hello.legacy_version = Filled.legacy_version
    /\ hello.cipher = Filled.cipher /\ hello.ciphers = Filled.ciphers
    /\ hello.extensions = [i \in DOMAIN done |-> done[i].type]

Vectors(done) ==
    side = "client" =>
        /\ hello.curves = Numbers16(Content(BodyOf(done, 10), 2))
        /\ hello.point_formats = Content(BodyOf(done, 11), 1)
        /\ hello.sig_algs = Numbers16(Content(BodyOf(done, 13), 2))
        /\ hello.supported_versions = Numbers16(Content(BodyOf(done, 43), 1))

HostNameRead(done) ==
    side = "client" => Texts(hello.sni) = HostName[Content(BodyOf(done, 0), 2)]

ProtocolsRead(done) ==
    side = "client" => Texts(hello.alpn) = Protocols[Content(BodyOf(done, 16), 2)]

Scanned(done) ==
    /\ Block = done \o Extensions[Bytes(data, sub)]
    /\ Scalars(done) /\ Vectors(done)

AtExtension ==
    /\ Accepted
    /\ \E done \in Seq(Extension) :
          Scanned(done) /\ HostNameRead(done) /\ ProtocolsRead(done)

\* Inside a list of names: what is found in the rest of the list completes the
\* field.
AtNames ==
    /\ Accepted /\ hello.sni = <<>>
    /\ \E done \in Seq(Extension) :
          /\ Scanned(done) /\ ProtocolsRead(done)
          /\ HostName[Bytes(data, item)] = HostName[Content(BodyOf(done, 0), 2)]

AtProtocols ==
    /\ Accepted
    /\ \E done \in Seq(Extension) :
          /\ Scanned(done) /\ HostNameRead(done)
          /\ Texts(hello.alpn) \o Protocols[Bytes(data, item)] =
                 Protocols[Content(BodyOf(done, 16), 2)]

Meaning ==
    /\ pc = "type" => AtType
    /\ pc = "length" => AtLength
    /\ pc = "version" => AtVersion
    /\ pc = "random" => AtRandom
    /\ pc = "session" => AtSession
    /\ pc \in {"suites", "selected"} => AtSuites
    /\ pc = "cipher" => AtCipher
    /\ pc = "compression" => AtCompression
    /\ pc = "extensions" => AtExtensions
    /\ pc = "extension" => AtExtension
    /\ pc = "names" => AtNames
    /\ pc = "protocols" => AtProtocols
    /\ pc \in {"suites", "cipher", "compression", "names", "protocols"} => side = "client"
    /\ pc = "selected" => side = "server"
    /\ pc = "some" => Result = Parsed
    /\ pc = "none" => Parsed = <<>>
-----------------------------------------------------------------------------
\* Sequences: what is skipped twice, and what is appended.
LEMMA NoMore ==
    ASSUME NEW S, NEW s \in Seq(S)
    PROVE  s \o <<>> = s /\ <<>> \o s = s
OBVIOUS

\* A list of 16-bit values is its first value and the rest.
LEMMA U16sSplit ==
    ASSUME NEW d \in Seq(Byte), NEW w, Within(d, w), Has(w, 2)
    PROVE  U16s(d, w) = <<U16(d, w)>> \o U16s(d, Advance(w, 2))
<1> DEFINE v == Advance(w, 2)
           n == Remaining(w) \div 2
           a == U16s(d, w)
           b == U16s(d, v)
           c == <<U16(d, w)>> \o b
<1>1. Within(d, v) /\ v.pos = w.pos + 2 /\ v.end = w.end
  BY AdvanceWithin
<1>2. /\ Remaining(w) = w.end - w.pos /\ Remaining(v) = v.end - v.pos
      /\ w.pos \in Nat /\ w.end \in Nat /\ Remaining(w) \in Nat /\ Remaining(w) >= 2
  BY <1>1, RemainingIs DEF Within, Window, Has
<1>3. Remaining(v) = Remaining(w) - 2
  BY <1>1, <1>2
<1>4. n \in Nat /\ n >= 1 /\ Remaining(v) \div 2 = n - 1
  <2>1. \A m \in Nat : m >= 2 => m \div 2 \in Nat /\ m \div 2 >= 1 /\ (m - 2) \div 2 = (m \div 2) - 1
    OBVIOUS
  <2> QED
    BY <1>2, <1>3, <2>1
<1>5. a = [i \in 1 .. n |-> 256 * d[w.pos + 2 * i - 1] + d[w.pos + 2 * i]]
  BY DEF U16s
<1>6. b = [i \in 1 .. n - 1 |-> 256 * d[v.pos + 2 * i - 1] + d[v.pos + 2 * i]]
  BY <1>4 DEF U16s
<1>7. a \in Seq(Word) /\ b \in Seq(Word) /\ U16(d, w) \in Word
  BY <1>1, U16sType, ReadU16
<1> HIDE DEF v, n
<1>8. Len(a) = n /\ Len(b) = n - 1
  BY <1>4, <1>5, <1>6
<1> HIDE DEF a, b
<1>9. /\ c \in Seq(Word) /\ Len(c) = n /\ c[1] = U16(d, w)
      /\ \A i \in 2 .. n : c[i] = b[i - 1]
  BY <1>4, <1>7, <1>8
<1>10. a[1] = U16(d, w)
  <2>1. a[1] = 256 * d[w.pos + 2 * 1 - 1] + d[w.pos + 2 * 1]
    BY <1>4, <1>5
  <2>2. w.pos + 2 * 1 - 1 = w.pos + 1 /\ w.pos + 2 * 1 = w.pos + 2
    BY <1>2
  <2> QED
    BY <2>1, <2>2 DEF U16
<1>11. ASSUME NEW i \in 2 .. n
       PROVE  a[i] = b[i - 1]
  <2>1. a[i] = 256 * d[w.pos + 2 * i - 1] + d[w.pos + 2 * i]
    BY <1>5
  <2>2. b[i - 1] = 256 * d[v.pos + 2 * (i - 1) - 1] + d[v.pos + 2 * (i - 1)]
    BY <1>4, <1>6
  <2>3. /\ w.pos + 2 * i - 1 = v.pos + 2 * (i - 1) - 1
        /\ w.pos + 2 * i = v.pos + 2 * (i - 1)
    BY <1>1, <1>2
  <2> QED
    BY <2>1, <2>2, <2>3
<1> HIDE DEF c
<1>12. \A i \in 1 .. n : a[i] = c[i]
  BY <1>4, <1>9, <1>10, <1>11
<1> QED
  BY <1>7, <1>8, <1>9, <1>12, SeqEqual DEF a, b, c, v

\* One more extension: it decides the field of its type, and only that one.
LEMMA OneMore ==
    ASSUME NEW done \in Seq(Extension), NEW e \in Extension, NEW t
    PROVE  BodyOf(Append(done, e), t) = IF e.type = t THEN e.body ELSE BodyOf(done, t)
<1> DEFINE more == Append(done, e)
           n == Len(done)
           old == {i \in DOMAIN done : done[i].type = t}
           new == {i \in DOMAIN more : more[i].type = t}
<1>1. /\ n \in Nat /\ DOMAIN done = 1 .. n /\ DOMAIN more = 1 .. n + 1
      /\ more[n + 1] = e /\ \A i \in 1 .. n : more[i] = done[i]
  OBVIOUS
<1> HIDE DEF more, n
<1>2. CASE e.type = t
  <2>1. n + 1 \in new /\ \A i \in new : i \in Int /\ i <= n + 1
    BY <1>1, <1>2
  <2>2. Max(new) = n + 1
    BY <1>1, <2>1 DEF Max
  <2> QED
    BY <1>1, <1>2, <2>1, <2>2 DEF BodyOf, more
<1>3. CASE e.type # t
  <2>1. new = old
    BY <1>1, <1>3
  <2>2. CASE old = {}
    BY <1>3, <2>1, <2>2 DEF BodyOf, more
  <2>3. CASE old # {}
    <3>1. old \subseteq 1 .. n
      BY <1>1
    <3>5. Max(old) \in old
      <4> HIDE DEF old
      <4> QED
        BY <1>1, <2>3, <3>1, MaxOf
    <3>6. more[Max(old)] = done[Max(old)]
      BY <1>1, <3>5
    <3> HIDE DEF old, new
    <3>7. BodyOf(more, t) = more[Max(new)].body /\ BodyOf(done, t) = done[Max(old)].body
      BY <2>1, <2>3 DEF BodyOf, old, new
    <3> QED
      BY <1>3, <2>1, <3>6, <3>7 DEF more
  <2> QED
    BY <2>2, <2>3
<1> QED
  BY <1>2, <1>3

LEMMA TypesMore ==
    ASSUME NEW done \in Seq(Extension), NEW e \in Extension
    PROVE  [i \in DOMAIN Append(done, e) |-> Append(done, e)[i].type] =
               Append([i \in DOMAIN done |-> done[i].type], e.type)
<1> DEFINE n == Len(done)
           a == [i \in DOMAIN Append(done, e) |-> Append(done, e)[i].type]
           b == [i \in DOMAIN done |-> done[i].type]
<1>1. /\ n \in Nat /\ DOMAIN done = 1 .. n /\ DOMAIN Append(done, e) = 1 .. n + 1
      /\ Append(done, e)[n + 1] = e /\ \A i \in 1 .. n : Append(done, e)[i] = done[i]
  OBVIOUS
<1>2. e.type \in Word /\ \A i \in 1 .. n : done[i].type \in Word
  <2>1. \A i \in 1 .. n : done[i] \in Extension
    OBVIOUS
  <2> QED
    BY <2>1 DEF Extension
<1> HIDE DEF n
<1>3. b \in Seq(Word) /\ Len(b) = n
  BY <1>1, <1>2
<1>4. a \in Seq(Word) /\ Len(a) = n + 1 /\ a[n + 1] = e.type /\ \A i \in 1 .. n : a[i] = b[i]
  BY <1>1, <1>2
<1> HIDE DEF a, b
<1>5. /\ Append(b, e.type) \in Seq(Word) /\ Len(Append(b, e.type)) = n + 1
      /\ Append(b, e.type)[n + 1] = e.type
      /\ \A i \in 1 .. n : Append(b, e.type)[i] = b[i]
  BY <1>2, <1>3
<1>6. \A i \in 1 .. n + 1 : a[i] = Append(b, e.type)[i]
  BY <1>1, <1>4, <1>5
<1>7. a = Append(b, e.type)
  <2> DEFINE c == Append(b, e.type)
  <2> HIDE DEF c
  <2>1. c \in Seq(Word) /\ Len(c) = n + 1 /\ \A i \in 1 .. n + 1 : a[i] = c[i]
    BY <1>5, <1>6 DEF c
  <2> QED
    BY <1>4, <2>1, SeqEqual DEF c
<1> QED
  BY <1>7 DEF a, b

\* The texts of names that are windows of the capture.
LEMMA TextIs ==
    ASSUME NEW d \in Seq(Byte), NEW w, Within(d, w)
    PROVE  FromUtf8Lossy(Bytes(d, w)) \in Texts8
BY BytesType DEF Texts8

LEMMA TextsMore ==
    ASSUME Safe, NEW w, Within(data, w)
    PROVE  /\ Text(w) \in Texts8 /\ Texts(hello.alpn) \in Seq(Texts8)
           /\ Texts(Append(hello.alpn, w)) = Append(Texts(hello.alpn), Text(w))
<1> DEFINE s == hello.alpn
           n == Len(s)
           a == Texts(Append(s, w))
           b == Texts(s)
<1>1. /\ data \in Seq(Byte) /\ s \in Seq(Window) /\ w \in Window /\ Within(data, sub)
      /\ NamesNested
  BY ReadersWithin DEF Safe, TypeOK, Hello, Within, WindowsNested
<1>2. /\ n \in Nat /\ DOMAIN s = 1 .. n /\ DOMAIN Append(s, w) = 1 .. n + 1
      /\ Append(s, w)[n + 1] = w /\ \A i \in 1 .. n : Append(s, w)[i] = s[i]
  BY <1>1
<1>3. ASSUME NEW i \in 1 .. n
      PROVE  Text(s[i]) \in Texts8
  <2>1. s[i] \in Window /\ Behind(s[i], sub.pos)
    BY <1>1, <1>2 DEF NamesNested
  <2>2. Within(data, s[i])
    <3> DEFINE v == s[i]
    <3>1. v \in Window /\ Behind(v, sub.pos)
      BY <2>1
    <3> HIDE DEF v, s
    <3>2. Within(data, v)
      BY <1>1, <3>1 DEF Within, Window, Behind
    <3> QED
      BY <3>2 DEF v
  <2> QED
    BY <1>1, <2>2, TextIs DEF Text
<1>4. Text(w) \in Texts8
  BY <1>1, TextIs DEF Text
<1> HIDE DEF n
<1>5. b \in Seq(Texts8) /\ Len(b) = n /\ \A i \in 1 .. n : b[i] = Text(s[i])
  BY <1>2, <1>3 DEF Texts
<1>6. /\ a \in Seq(Texts8) /\ Len(a) = n + 1 /\ a[n + 1] = Text(w)
      /\ \A i \in 1 .. n : a[i] = Text(s[i])
  <2>1. a = [i \in 1 .. n + 1 |-> Text(Append(s, w)[i])]
    BY <1>2 DEF Texts
  <2>2. \A i \in 1 .. n + 1 : Text(Append(s, w)[i]) \in Texts8
    BY <1>2, <1>3, <1>4
  <2> HIDE DEF a
  <2>3. a[n + 1] = Text(w) /\ \A i \in 1 .. n : a[i] = Text(s[i])
    BY <1>2, <2>1
  <2> QED
    BY <1>2, <2>1, <2>2, <2>3
<1> HIDE DEF a, b
<1> DEFINE c == Append(b, Text(w))
<1>7. /\ c \in Seq(Texts8) /\ Len(c) = n + 1 /\ c[n + 1] = Text(w)
      /\ \A i \in 1 .. n : c[i] = b[i]
  BY <1>2, <1>4, <1>5
<1> HIDE DEF c
<1>8. a = c
  BY <1>2, <1>5, <1>6, <1>7, SeqEqual
<1> QED
  BY <1>4, <1>5, <1>8 DEF a, b, c

-----------------------------------------------------------------------------
\* The reference does not change with the state of the parser.
LEMMA Fixed ==
    ASSUME UNCHANGED <<data, side>>
    PROVE  /\ Hs' = Hs /\ Kind' = Kind /\ Body' = Body /\ Suites' = Suites
           /\ Methods' = Methods /\ Offered' = Offered /\ Start' = Start
           /\ Filled' = Filled /\ Remainder' = Remainder /\ Block' = Block
           /\ Parsed' = Parsed /\ Opened' = Opened /\ Accepted' = Accepted
<1>1. Hs' = Hs /\ Kind' = Kind
  BY DEF Hs, Kind
<1>2. Body' = Body
  BY <1>1 DEF Body
<1>3. Suites' = Suites
  BY <1>2 DEF Suites
<1>4. Methods' = Methods /\ Offered' = Offered /\ Start' = Start
  BY <1>2, <1>3 DEF Methods, Offered, Start
<1>5. Filled' = Filled /\ Remainder' = Remainder
  BY <1>3, <1>4 DEF Filled, Remainder
<1>6. Block' = Block /\ Parsed' = Parsed /\ Opened' = Opened
  BY <1>1, <1>2, <1>5 DEF Block, Parsed, Opened
<1>7. Accepted' = Accepted
  BY <1>2, <1>3, <1>4, <1>6 DEF Accepted
<1> QED
  BY <1>1, <1>2, <1>3, <1>4, <1>5, <1>6, <1>7

\* The body of a hello is a byte string.
LEMMA BodyType ==
    ASSUME data \in Seq(Byte), IsHello(Hs, Kind)
    PROVE  Body \in Seq(Byte)
<1> DEFINE w == Message
           v == Advance(w, 1)
           rest == Advance(v, 3)
           n == U24(data, v)
<1>1. Within(data, w) /\ Hs = Bytes(data, w) /\ Len(Hs) >= 4
  BY StripWithin, PayloadIs DEF Message, Hs, IsHello
<1> HIDE DEF w
<1>2. Remaining(w) = w.end - w.pos /\ Remaining(w) >= 4 /\ w.pos \in Nat /\ w.end \in Nat
  BY <1>1, UnreadIs DEF Within, Window
<1>3. Has(w, 1)
  BY <1>2 DEF Has
<1>4. Within(data, v) /\ v.pos = w.pos + 1 /\ v.end = w.end /\ Drop(Hs, 1) = Bytes(data, v)
  BY <1>1, <1>3, AdvanceWithin, UnreadAfter
<1> HIDE DEF v
<1>5. Remaining(v) >= 3
  BY <1>2, <1>4 DEF Remaining
<1>6. Has(v, 3)
  BY <1>5 DEF Has
<1>7. Content(Bytes(data, v), 3) = Bytes(data, Slice(rest, Clamp(n, rest)))
  BY <1>4, <1>6, Vec24Is
<1>8. Within(data, rest) /\ n \in Nat
  BY <1>4, <1>6, AdvanceWithin, ReadU24
<1> HIDE DEF n, rest
<1>9. Within(data, Slice(rest, Clamp(n, rest)))
  BY <1>8, ClampedSlice
<1> QED
  BY <1>4, <1>7, <1>9, BytesType DEF Body

\* What the reference answers, in these terms.
LEMMA Answers ==
    ASSUME data \in Seq(Byte), side \in Side, IsHello(Hs, Kind)
    PROVE  Parsed = IF side = "client" THEN ClientBody[Body] ELSE ServerBody[Body]
<1>1. side = "client" \/ side = "server"
  BY DEF Side
<1>2. HandshakeType["client"] = 1 /\ HandshakeType["server"] = 2
  BY DEF HandshakeType
<1>3. CASE side = "client"
  BY <1>2, <1>3 DEF Parsed, ParseClientHello, Hs, Kind, Body
<1>4. CASE side = "server"
  BY <1>2, <1>4 DEF Parsed, ParseServerHello, Hs, Kind, Body
<1> QED
  BY <1>1, <1>3, <1>4

LEMMA ClientAnswers ==
    ASSUME Body \in Seq(Byte), side = "client"
    PROVE  ClientBody[Body] =
               IF HasSession(Body) /\ Fits(Suites, 2) /\ Fits(Methods, 1)
               THEN <<ClientFields(Body, Suites, Block)>> ELSE <<>>
BY DEF ClientBody, Byte, Suites, Methods, Block, Remainder

LEMMA ServerAnswers ==
    ASSUME Body \in Seq(Byte), side # "client"
    PROVE  ServerBody[Body] =
               IF HasSession(Body) /\ Len(Suites) >= 3
               THEN <<[legacy_version |-> Number(Body, 2),
                       cipher |-> Number(Suites, 2),
                       extensions |-> [i \in DOMAIN Block |-> Block[i].type]]>>
               ELSE <<>>
BY DEF ServerBody, Byte, Suites, Block, Remainder

LEMMA Refused ==
    ASSUME data \in Seq(Byte), side \in Side,
           \/ ~IsHello(Hs, Kind) \/ ~HasSession(Body)
           \/ side = "client" /\ ~(Fits(Suites, 2) /\ Fits(Methods, 1))
           \/ side = "server" /\ ~(Len(Suites) >= 3)
    PROVE  Parsed = <<>>
<1>1. side = "client" \/ side = "server"
  BY DEF Side
<1>2. CASE IsHello(Hs, Kind)
  BY <1>1, <1>2, BodyType, Answers, ClientAnswers, ServerAnswers
<1>3. CASE ~IsHello(Hs, Kind)
  <2>1. HandshakeType["client"] = 1 /\ HandshakeType["server"] = 2
    BY DEF HandshakeType
  <2> QED
    BY <1>1, <1>3, <2>1 DEF Parsed, ParseClientHello, ParseServerHello, Hs, Kind
<1> QED
  BY <1>2, <1>3

LEMMA Answered ==
    ASSUME data \in Seq(Byte), side \in Side, Accepted
    PROVE  Parsed =
              IF side = "client" THEN <<ClientFields(Body, Suites, Block)>>
              ELSE <<[legacy_version |-> Number(Body, 2),
                      cipher |-> Number(Suites, 2),
                      extensions |-> [i \in DOMAIN Block |-> Block[i].type]]>>
<1>1. side = "client" \/ side = "server"
  BY DEF Side
<1>2. IsHello(Hs, Kind) /\ Body \in Seq(Byte)
  BY DEF Accepted, Opened
<1> QED
  BY <1>1, <1>2, Answers, ClientAnswers, ServerAnswers DEF Accepted

-----------------------------------------------------------------------------
\* What the outer reader sees, in the terms of the reference.
LEMMA LeftIs ==
    ASSUME Safe
    PROVE  /\ data \in Seq(Byte) /\ side \in Side /\ Within(data, r)
           /\ Left \in Seq(Byte) /\ Len(Left) \in Nat
           /\ \A n \in Nat : Has(r, n) <=> Len(Left) >= n
           /\ Has(r, 1) => U8(data, r) = Left[1]
           /\ Has(r, 2) => U16(data, r) = Number(Left, 2)
           /\ HasVec8(data, r) <=> Fits(Left, 1)
           /\ HasVec16(data, r) <=> Fits(Left, 2)
<1>1. data \in Seq(Byte) /\ side \in Side /\ Within(data, r)
  BY ReadersWithin DEF Safe, TypeOK
<1>2. Left \in Seq(Byte) /\ Len(Left) = Remaining(r) /\ Remaining(r) \in Nat
  BY <1>1, UnreadIs DEF Left
<1>3. \A n \in Nat : Has(r, n) <=> Len(Left) >= n
  BY <1>2 DEF Has
<1>4. /\ Has(r, 1) => U8(data, r) = Number(Left, 1)
      /\ Has(r, 2) => U16(data, r) = Number(Left, 2)
  BY <1>1, NumberIs DEF Left
<1>5. Number(Left, 1) = Left[1]
  BY DEF Number
<1>6. (HasVec8(data, r) <=> Fits(Left, 1)) /\ (HasVec16(data, r) <=> Fits(Left, 2))
  BY <1>1, Vec8Is, Vec16Is DEF Left
<1> QED
  BY <1>1, <1>2, <1>3, <1>4, <1>5, <1>6

LEMMA LeftAfter ==
    ASSUME Safe, data' = data, NEW n \in Nat, Has(r, n), r' = Advance(r, n)
    PROVE  Left' = Drop(Left, n)
<1>1. Drop(Bytes(data, r), n) = Bytes(data, Advance(r, n))
  BY LeftIs, UnreadAfter
<1> QED
  BY <1>1 DEF Left

LEMMA LeftAfterVector ==
    ASSUME Safe, data' = data
    PROVE  /\ HasVec8(data, r) /\ r' = Advance(r, 1 + U8(data, r)) => Left' = After(Left, 1)
           /\ HasVec16(data, r) /\ r' = Advance(r, 2 + U16(data, r)) => Left' = After(Left, 2)
<1>1. /\ HasVec8(data, r) =>
            After(Bytes(data, r), 1) = Bytes(data, Advance(r, 1 + U8(data, r)))
      /\ HasVec16(data, r) =>
            After(Bytes(data, r), 2) = Bytes(data, Advance(r, 2 + U16(data, r)))
  BY LeftIs, Vec8Is, Vec16Is
<1> QED
  BY <1>1 DEF Left

-----------------------------------------------------------------------------
\* The reads of the header.
LEMMA CheckTypeMeans ==
    ASSUME Safe, Meaning, CheckType
    PROVE  Meaning'
<1>1. /\ pc = "type" /\ pc' = "length" /\ r' = Advance(r, 1)
      /\ UNCHANGED <<data, side, sub, item, hello>>
      /\ Has(r, 1) /\ U8(data, r) = HandshakeType[side]
  BY DEF CheckType, Readable
<1>2. Left = Hs /\ hello = Default
  BY <1>1 DEF Meaning, AtType
<1>3. Left' = Drop(Left, 1)
  BY <1>1, LeftAfter
<1>4. Len(Left) >= 1 /\ Left[1] = Kind
  BY <1>1, LeftIs DEF Kind
<1>5. AtLength'
  BY <1>1, <1>2, <1>3, <1>4, Fixed DEF AtLength
<1> QED
  BY <1>1, <1>5 DEF Meaning

LEMMA TakeBodyMeans ==
    ASSUME Safe, Meaning, TakeBody
    PROVE  Meaning'
<1> DEFINE rest == Advance(r, 3)
<1>1. /\ pc = "length" /\ pc' = "version" /\ Has(r, 3)
      /\ r' = Slice(rest, Clamp(U24(data, r), rest))
      /\ UNCHANGED <<data, side, sub, item, hello>>
  BY DEF TakeBody, Readable
<1>2. Len(Hs) >= 1 /\ Hs[1] = Kind /\ Left = Drop(Hs, 1) /\ hello = Default
  BY <1>1 DEF Meaning, AtLength
<1>3. Content(Left, 3) = Left'
  <2>1. Content(Bytes(data, r), 3) = Bytes(data, Slice(rest, Clamp(U24(data, r), rest)))
    BY <1>1, LeftIs, Vec24Is
  <2> QED
    BY <1>1, <2>1 DEF Left
<1>4. Len(Hs) >= 4
  <2>1. Hs \in Seq(Byte)
    <3>1. Within(data, Message) /\ Hs = Bytes(data, Message)
      BY LeftIs, StripWithin, PayloadIs DEF Hs, Message
    <3> QED
      BY <3>1, LeftIs, BytesType
  <2>2. Len(Left) = Len(Hs) - 1 /\ Len(Hs) \in Nat
    BY <1>2, <2>1, DropIs
  <2>3. Len(Left) >= 3
    BY <1>1, LeftIs
  <2> QED
    BY <2>2, <2>3
<1>5. IsHello(Hs, Kind)
  BY <1>2, <1>4 DEF IsHello
<1>6. Opened /\ Left' = Body
  BY <1>2, <1>3, <1>5, LeftIs, BodyType DEF Opened, Body
<1>7. AtVersion'
  BY <1>1, <1>2, <1>6, Fixed DEF AtVersion
<1> QED
  BY <1>1, <1>7 DEF Meaning

LEMMA ReadVersionMeans ==
    ASSUME Safe, Meaning, ReadVersion
    PROVE  Meaning'
<1>1. /\ pc = "version" /\ pc' = "random" /\ r' = Advance(r, 2) /\ Has(r, 2)
      /\ UNCHANGED <<data, side, sub, item>>
      /\ hello' = [hello EXCEPT !.legacy_version = U16(data, r)]
  BY DEF ReadVersion, Readable
<1>2. Opened /\ Left = Body /\ hello = Default
  BY <1>1 DEF Meaning, AtVersion
<1>3. Left' = Drop(Body, 2) /\ Len(Body) >= 2 /\ U16(data, r) = Number(Body, 2)
  BY <1>1, <1>2, LeftAfter, LeftIs
<1>4. hello' = Start
  BY <1>1, <1>2, <1>3 DEF Start
<1>5. AtRandom'
  BY <1>1, <1>2, <1>3, <1>4, Fixed DEF AtRandom
<1> QED
  BY <1>1, <1>5 DEF Meaning

LEMMA SkipRandomMeans ==
    ASSUME Safe, Meaning, SkipRandom
    PROVE  Meaning'
<1>1. /\ pc = "random" /\ pc' = "session" /\ r' = Advance(r, 32) /\ Has(r, 32)
      /\ UNCHANGED <<data, side, sub, item, hello>>
  BY DEF SkipRandom, Readable, RandomLen
<1>2. Opened /\ Len(Body) >= 2 /\ Left = Drop(Body, 2) /\ hello = Start
  BY <1>1 DEF Meaning, AtRandom
<1>3. Body \in Seq(Byte) /\ Len(Body) \in Nat
  BY <1>2, SeqIs DEF Opened
<1>4. Len(Body) >= 34
  <2>1. Len(Left) = Len(Body) - 2 /\ Len(Left) >= 32
    BY <1>1, <1>2, <1>3, LeftIs, DropIs
  <2> QED
    BY <1>3, <2>1
<1>5. Left' = Drop(Body, 34)
  <2>1. Left' = Drop(Drop(Body, 2), 32)
    BY <1>1, <1>2, LeftAfter
  <2>2. 2 + 32 = 34
    OBVIOUS
  <2> QED
    BY <1>3, <1>4, <2>1, <2>2, DropDrop
<1>6. AtSession'
  BY <1>1, <1>2, <1>4, <1>5, Fixed DEF AtSession
<1> QED
  BY <1>1, <1>6 DEF Meaning

LEMMA SkipSessionIdMeans ==
    ASSUME Safe, Meaning, SkipSessionId
    PROVE  Meaning'
<1>1. /\ pc = "session" /\ pc' = IF side = "client" THEN "suites" ELSE "selected"
      /\ HasVec8(data, r) /\ r' = Advance(r, 1 + U8(data, r))
      /\ UNCHANGED <<data, side, sub, item, hello>>
  BY DEF SkipSessionId, Readable
<1>2. Opened /\ Len(Body) >= 34 /\ Left = Drop(Body, 34) /\ hello = Start
  BY <1>1 DEF Meaning, AtSession
<1>3. HasSession(Body)
  <2>1. Fits(Left, 1) /\ Len(Left) >= 1
    BY <1>1, LeftIs DEF Fits
  <2>2. Len(Left) = Len(Body) - 34 /\ Len(Body) \in Nat
    BY <1>2, DropIs, SeqIs DEF Opened
  <2> QED
    BY <1>2, <2>1, <2>2 DEF HasSession
<1>4. Left' = Suites
  <2>1. Left' = After(Left, 1)
    BY <1>1, LeftAfterVector
  <2> QED
    BY <1>2, <2>1 DEF Suites, AfterSession
<1>5. AtSuites'
  BY <1>1, <1>2, <1>3, <1>4, Fixed DEF AtSuites
<1>6. /\ side = "client" => pc' = "suites"
      /\ side # "client" => pc' = "selected" /\ side = "server"
  BY <1>1, LeftIs DEF Side
<1>7. CASE side = "client"
  BY <1>1, <1>5, <1>6, <1>7 DEF Meaning
<1>8. CASE side # "client"
  BY <1>1, <1>5, <1>6, <1>8 DEF Meaning
<1> QED
  BY <1>7, <1>8

LEMMA TakeCipherSuitesMeans ==
    ASSUME Safe, Meaning, TakeCipherSuites
    PROVE  Meaning'
<1> DEFINE rest == Advance(r, 2)
           n == U16(data, r)
<1>1. /\ pc = "suites" /\ pc' = "cipher" /\ HasVec16(data, r)
      /\ sub' = Slice(rest, n) /\ r' = Advance(r, 2 + n)
      /\ UNCHANGED <<data, side, item, hello>>
  BY DEF TakeCipherSuites, Readable
<1>2. Opened /\ HasSession(Body) /\ Left = Suites /\ hello = Start /\ side = "client"
  BY <1>1 DEF Meaning, AtSuites
<1>3. Fits(Suites, 2) /\ Left' = Methods
  BY <1>1, <1>2, LeftIs, LeftAfterVector DEF Methods
<1>4. Clamped16(data, r) = sub'
  BY <1>1 DEF HasVec16, Clamped16, Clamp
<1>5. U16s(data, sub') = Offered
  <2>1. Within(data, sub')
    BY <1>4, LeftIs, Clamped16Within
  <2>2. Content(Bytes(data, r), 2) = Bytes(data, sub')
    BY <1>4, LeftIs, Vec16Is
  <2>3. Numbers16(Bytes(data, sub')) = U16s(data, sub')
    BY <2>1, LeftIs, Numbers16Is
  <2> QED
    BY <1>2, <2>2, <2>3 DEF Offered, Left
<1>6. hello'.ciphers = <<>> /\ hello' = [Start EXCEPT !.ciphers = hello'.ciphers]
  BY <1>1, <1>2 DEF Start, Default
<1>7. hello'.ciphers \o U16s(data, sub') = Offered
  <2>1. U16s(data, sub') \in Seq(Word)
    BY <1>4, LeftIs, Clamped16Within, U16sType
  <2> QED
    BY <1>5, <1>6, <2>1, NoMore
<1>8. AtCipher'
  BY <1>1, <1>2, <1>3, <1>6, <1>7, Fixed DEF AtCipher
<1> QED
  BY <1>1, <1>2, <1>8 DEF Meaning

LEMMA PushCipherMeans ==
    ASSUME Safe, Meaning, PushCipher
    PROVE  Meaning'
<1>1. /\ pc = "cipher" /\ pc' = "cipher" /\ Has(sub, 2) /\ sub' = Advance(sub, 2)
      /\ hello' = [hello EXCEPT !.ciphers = Append(@, U16(data, sub))]
      /\ UNCHANGED <<data, side, r, item>>
  BY DEF PushCipher
<1>2. AtCipher /\ side = "client"
  BY <1>1 DEF Meaning
<1>3. /\ Within(data, sub) /\ data \in Seq(Byte) /\ hello \in Hello
      /\ hello.ciphers \in Seq(Word)
  BY ReadersWithin DEF Safe, TypeOK, Hello
<1>4. Within(data, sub')
  BY <1>1, <1>3, AdvanceWithin
<1>5. /\ U16(data, sub) \in Word /\ U16s(data, sub') \in Seq(Word)
      /\ U16s(data, sub) = <<U16(data, sub)>> \o U16s(data, sub')
  BY <1>1, <1>3, <1>4, ReadU16, U16sType, U16sSplit
<1>6. hello'.ciphers = Append(hello.ciphers, U16(data, sub))
  BY <1>1, <1>3 DEF Hello
<1>7. hello'.ciphers \o U16s(data, sub') = Offered
  <2> DEFINE c == hello.ciphers
             x == U16(data, sub)
             u == U16s(data, sub')
  <2>1. c \o U16s(data, sub) = Offered
    BY <1>2 DEF AtCipher
  <2>2. c \in Seq(Word) /\ x \in Word /\ u \in Seq(Word)
    BY <1>3, <1>5
  <2>3. U16s(data, sub) = <<x>> \o u /\ hello'.ciphers = Append(c, x)
    BY <1>5, <1>6
  <2> HIDE DEF c, x, u
  <2>4. Append(c, x) \o u = c \o (<<x>> \o u)
    BY <2>2, Shift
  <2> QED
    BY <2>1, <2>3, <2>4 DEF u
<1>8. hello' = [Start EXCEPT !.ciphers = hello'.ciphers]
  <2>1. hello = [Start EXCEPT !.ciphers = hello.ciphers]
    BY <1>2 DEF AtCipher
  <2> DEFINE c == hello.ciphers
             e == Append(c, U16(data, sub))
  <2>2. hello' = [hello EXCEPT !.ciphers = e]
    BY <1>1
  <2>3. hello = [Start EXCEPT !.ciphers = c]
    BY <2>1
  <2> HIDE DEF c, e
  <2>4. hello' = [Start EXCEPT !.ciphers = e]
    BY <2>2, <2>3 DEF Start, Default
  <2> QED
    BY <1>6, <2>4 DEF e, c
<1>9. Left' = Left
  BY <1>1 DEF Left
<1>10. AtCipher'
  BY <1>1, <1>2, <1>7, <1>8, <1>9, Fixed DEF AtCipher
<1> QED
  BY <1>1, <1>2, <1>10 DEF Meaning

LEMMA EndCiphersMeans ==
    ASSUME Safe, Meaning, EndCiphers
    PROVE  Meaning'
<1>1. /\ pc = "cipher" /\ pc' = "compression" /\ ~Has(sub, 2)
      /\ UNCHANGED <<data, side, r, sub, item, hello>>
  BY DEF EndCiphers
<1>2. AtCipher /\ side = "client"
  BY <1>1 DEF Meaning
<1>3. Within(data, sub) /\ hello.ciphers \in Seq(Word)
  BY ReadersWithin DEF Safe, TypeOK, Hello
<1>4. U16s(data, sub) = <<>>
  <2>1. Remaining(sub) \in Nat /\ Remaining(sub) < 2
    BY <1>1, <1>3, RemainingIs DEF Has, Within
  <2>2. Remaining(sub) \div 2 = 0
    BY <2>1
  <2> QED
    BY <2>2 DEF U16s
<1>5. hello.ciphers = Offered
  BY <1>2, <1>3, <1>4, NoMore DEF AtCipher
<1>6. Left' = Left
  BY <1>1 DEF Left
<1>7. AtCompression'
  BY <1>1, <1>2, <1>5, <1>6, Fixed DEF AtCipher, AtCompression
<1> QED
  BY <1>1, <1>2, <1>7 DEF Meaning

LEMMA SkipCompressionMethodsMeans ==
    ASSUME Safe, Meaning, SkipCompressionMethods
    PROVE  Meaning'
<1>1. /\ pc = "compression" /\ pc' = "extensions" /\ HasVec8(data, r)
      /\ r' = Advance(r, 1 + U8(data, r))
      /\ UNCHANGED <<data, side, sub, item, hello>>
  BY DEF SkipCompressionMethods, Readable
<1>2. AtCompression /\ side = "client"
  BY <1>1 DEF Meaning
<1>3. Fits(Methods, 1) /\ Left' = After(Methods, 1)
  BY <1>1, <1>2, LeftIs, LeftAfterVector DEF AtCompression
<1>4. Accepted /\ Left' = Remainder /\ hello' = Filled
  BY <1>1, <1>2, <1>3 DEF AtCompression, Accepted, Remainder, Filled
<1>5. AtExtensions'
  BY <1>1, <1>4, Fixed DEF AtExtensions
<1> QED
  BY <1>1, <1>5 DEF Meaning

LEMMA ReadSelectedMeans ==
    ASSUME Safe, Meaning, ReadSelected
    PROVE  Meaning'
<1>1. /\ pc = "selected" /\ pc' = "extensions" /\ Has(r, 3) /\ r' = Advance(r, 3)
      /\ hello' = [hello EXCEPT !.cipher = U16(data, r)]
      /\ UNCHANGED <<data, side, sub, item>>
  BY DEF ReadSelected, Readable
<1>2. AtSuites /\ side = "server"
  BY <1>1 DEF Meaning
<1>3. Len(Suites) >= 3 /\ Left' = Drop(Suites, 3) /\ U16(data, r) = Number(Suites, 2)
  <2>1. Left = Suites
    BY <1>2 DEF AtSuites
  <2>2. Len(Left) >= 3 /\ Len(Left) >= 2
    BY <1>1, LeftIs
  <2>3. U16(data, r) = Number(Left, 2)
    BY <2>2, LeftIs
  <2>4. Left' = Drop(Left, 3)
    BY <1>1, LeftAfter
  <2> QED
    BY <2>1, <2>2, <2>3, <2>4
<1>4. Accepted /\ Left' = Remainder /\ hello' = Filled
  BY <1>1, <1>2, <1>3 DEF AtSuites, Accepted, Remainder, Filled
<1>5. AtExtensions'
  BY <1>1, <1>4, Fixed DEF AtExtensions
<1> QED
  BY <1>1, <1>5 DEF Meaning

-----------------------------------------------------------------------------
\* Nothing decoded yet: an absent extension leaves the field it would give.
LEMMA NothingRead ==
    ASSUME hello = Filled
    PROVE  Scalars(<<>>) /\ Vectors(<<>>) /\ HostNameRead(<<>>) /\ ProtocolsRead(<<>>)
<1>1. \A t : BodyOf(<<>>, t) = <<>>
  BY DEF BodyOf
<1>2. Content(<<>>, 1) = <<>> /\ Content(<<>>, 2) = <<>>
  BY DEF Content
<1>3. Numbers16(<<>>) = <<>>
  <2>1. Len(<<>>) \div 2 = 0
    OBVIOUS
  <2> QED
    BY <2>1 DEF Numbers16
<1>4. <<>> \in Seq(Byte) /\ ~Fits(<<>>, 1) /\ Len(<<>>) < 3
  BY DEF Fits
<1>5. HostName[<<>>] = <<>> /\ Protocols[<<>>] = <<>>
  BY <1>4, HostNameIs, ProtocolsIs
<1>6. /\ hello.curves = <<>> /\ hello.point_formats = <<>> /\ hello.sig_algs = <<>>
      /\ hello.supported_versions = <<>> /\ hello.sni = <<>> /\ hello.alpn = <<>>
      /\ hello.extensions = <<>>
  BY DEF Filled, Start, Default
<1>7. Texts(<<>>) = <<>>
  BY DEF Texts
<1>8. Scalars(<<>>)
  BY <1>6 DEF Scalars
<1>9. Vectors(<<>>)
  BY <1>1, <1>2, <1>3, <1>6 DEF Vectors
<1>10. HostNameRead(<<>>) /\ ProtocolsRead(<<>>)
  BY <1>1, <1>2, <1>5, <1>6, <1>7 DEF HostNameRead, ProtocolsRead
<1> QED
  BY <1>8, <1>9, <1>10

\* Everything decoded: the struct is the answer.
LEMMA AllRead ==
    ASSUME Safe, Accepted, Scalars(Block), Vectors(Block), HostNameRead(Block),
           ProtocolsRead(Block)
    PROVE  Result = Parsed
<1>1. data \in Seq(Byte) /\ (side = "client" \/ side = "server") /\ side \in Side
  BY LeftIs DEF Side
<1>2. /\ hello.legacy_version = Filled.legacy_version
      /\ hello.cipher = Filled.cipher /\ hello.ciphers = Filled.ciphers
      /\ hello.extensions = [i \in DOMAIN Block |-> Block[i].type]
  BY DEF Scalars
<1>3. Filled.legacy_version = Number(Body, 2)
  BY DEF Filled, Start, Default
<1>4. CASE side = "client"
  <2>1. hello.ciphers = Offered
    BY <1>2, <1>4 DEF Filled, Start, Default
  <2>2. Parsed = <<ClientFields(Body, Suites, Block)>> /\ Result = <<ClientAnswer>>
    BY <1>1, <1>4, Answered DEF Result
  <2>3. ClientFields(Body, Suites, Block) = ClientAnswer
    BY <1>2, <1>3, <1>4, <2>1
    DEF ClientFields, ClientAnswer, Vectors, HostNameRead, ProtocolsRead, Offered
  <2> QED
    BY <2>2, <2>3
<1>5. CASE side = "server"
  <2>1. hello.cipher = Number(Suites, 2)
    BY <1>2, <1>5 DEF Filled, Start, Default
  <2> QED
    BY <1>1, <1>2, <1>3, <1>5, <2>1, Answered DEF Result, ServerAnswer
<1> QED
  BY <1>1, <1>4, <1>5

LEMMA SameResult ==
    ASSUME UNCHANGED <<data, side, hello>>
    PROVE  Result' = Result
BY DEF Result, ClientAnswer, ServerAnswer, Texts, Text

LEMMA NoExtensionsMeans ==
    ASSUME Safe, Meaning, NoExtensions
    PROVE  Meaning'
<1>1. /\ pc = "extensions" /\ pc' = "some" /\ ~Has(r, 2)
      /\ UNCHANGED <<data, side, r, sub, item, hello>>
  BY DEF NoExtensions
<1>2. Accepted /\ Left = Remainder /\ hello = Filled
  BY <1>1 DEF Meaning, AtExtensions
<1>3. Content(Remainder, 2) = <<>>
  <2>1. Len(Left) < 2
    BY <1>1, LeftIs
  <2> QED
    BY <1>2, <2>1 DEF Content
<1>4. Block = <<>>
  <2>1. <<>> \in Seq(Byte) /\ Len(<<>>) < 4
    OBVIOUS
  <2>2. Extensions[<<>>] = <<>>
    BY <2>1, ExtensionsIs
  <2> QED
    BY <1>3, <2>2 DEF Block
<1>5. Result = Parsed
  BY <1>2, <1>4, NothingRead, AllRead
<1>6. Result' = Parsed'
  BY <1>1, <1>5, Fixed, SameResult
<1> QED
  BY <1>1, <1>6 DEF Meaning

LEMMA OpenExtensionsMeans ==
    ASSUME Safe, Meaning, OpenExtensions
    PROVE  Meaning'
<1>1. /\ pc = "extensions" /\ pc' = "extension" /\ sub' = Clamped16(data, r)
      /\ UNCHANGED <<data, side, item, hello>>
  BY DEF OpenExtensions
<1>2. Accepted /\ Left = Remainder /\ hello = Filled
  BY <1>1 DEF Meaning, AtExtensions
<1>3. Block = Extensions[Bytes(data, sub')] /\ Bytes(data, sub') \in Seq(Byte)
  <2>1. Within(data, Clamped16(data, r)) /\ data \in Seq(Byte)
    BY LeftIs, Clamped16Within
  <2>2. Content(Bytes(data, r), 2) = Bytes(data, Clamped16(data, r))
    BY LeftIs, Vec16Is
  <2> QED
    BY <1>1, <1>2, <2>1, <2>2, BytesType DEF Block, Left
<1>4. Block = <<>> \o Extensions[Bytes(data, sub')]
  BY <1>3, ExtensionsIs, NoMore
<1>5. Scalars(<<>>) /\ Vectors(<<>>) /\ HostNameRead(<<>>) /\ ProtocolsRead(<<>>)
  BY <1>2, NothingRead
<1>6. /\ Scalars(<<>>)' /\ Vectors(<<>>)' /\ HostNameRead(<<>>)' /\ ProtocolsRead(<<>>)'
  BY <1>1, <1>5, Fixed DEF Scalars, Vectors, HostNameRead, ProtocolsRead, Texts, Text
<1>7. Scanned(<<>>)'
  BY <1>1, <1>4, <1>6, Fixed DEF Scanned
<1>8. <<>> \in Seq(Extension)
  OBVIOUS
<1>9. AtExtension'
  BY <1>1, <1>2, <1>6, <1>7, <1>8, Fixed DEF AtExtension
<1> QED
  BY <1>1, <1>9 DEF Meaning

LEMMA EndExtensionsMeans ==
    ASSUME Safe, Meaning, EndExtensions
    PROVE  Meaning'
<1>1. /\ pc = "extension" /\ pc' = "some" /\ ~Has(sub, 4)
      /\ UNCHANGED <<data, side, r, sub, item, hello>>
  BY DEF EndExtensions
<1>2. AtExtension
  BY <1>1 DEF Meaning
<1>3. PICK done \in Seq(Extension) :
          Scanned(done) /\ HostNameRead(done) /\ ProtocolsRead(done)
  BY <1>2 DEF AtExtension
<1>4. Block = done
  <2>1. data \in Seq(Byte) /\ Within(data, sub)
    BY ReadersWithin DEF Safe, TypeOK
  <2>2. /\ Bytes(data, sub) \in Seq(Byte) /\ Len(Bytes(data, sub)) = Remaining(sub)
        /\ Remaining(sub) \in Nat
    BY <2>1, UnreadIs
  <2>3. Len(Bytes(data, sub)) < 4
    BY <1>1, <2>2 DEF Has
  <2>4. Extensions[Bytes(data, sub)] = <<>>
    BY <2>2, <2>3, ExtensionsIs
  <2> QED
    BY <1>3, <2>4, NoMore DEF Scanned
<1>5. Result = Parsed
  BY <1>2, <1>3, <1>4, AllRead DEF AtExtension, Scanned
<1>6. Result' = Parsed'
  BY <1>1, <1>5, Fixed, SameResult
<1> QED
  BY <1>1, <1>6 DEF Meaning

-----------------------------------------------------------------------------
\* One extension.
LEMMA ExtensionRead ==
    ASSUME Safe, Has(sub, 4), NEW v, v = [sub EXCEPT !.pos = ExtensionBody.end],
           NEW e, e = [type |-> U16(data, sub), body |-> Bytes(data, ExtensionBody)]
    PROVE  /\ e \in Extension /\ Within(data, ExtensionBody)
           /\ Extensions[Bytes(data, v)] \in Seq(Extension)
           /\ Extensions[Bytes(data, sub)] = <<e>> \o Extensions[Bytes(data, v)]
<1> DEFINE s == Bytes(data, sub)
           u == Advance(sub, 2)
           b == ExtensionBody
           c == Bytes(data, b)
           n == 4 + Len(c)
<1>1. data \in Seq(Byte) /\ Within(data, sub) /\ sub.pos \in Nat /\ sub.end \in Nat
  BY ReadersWithin DEF Safe, TypeOK, Within, Window
<1>2. /\ s \in Seq(Byte) /\ Len(s) = Remaining(sub) /\ Remaining(sub) \in Nat
      /\ Remaining(sub) = sub.end - sub.pos
  BY <1>1, UnreadIs
<1>3. Remaining(sub) >= 4 /\ Has(sub, 2)
  BY <1>2 DEF Has
<1>4. Within(data, u) /\ u.pos = sub.pos + 2 /\ u.end = sub.end /\ Drop(s, 2) = Bytes(data, u)
  BY <1>1, <1>3, AdvanceWithin, UnreadAfter
<1>5. b = Clamped16(data, u)
  BY DEF ExtensionBody
<1> HIDE DEF u, b, s
<1>6. Has(u, 2)
  BY <1>1, <1>2, <1>3, <1>4 DEF Has, Remaining
<1>7. /\ Within(data, b) /\ b.end <= u.end /\ b.pos = u.pos + 2
      /\ Content(Bytes(data, u), 2) = c
  BY <1>1, <1>4, <1>5, <1>6, Clamped16Within, Vec16Is
<1>8. c \in Seq(Byte) /\ Len(c) = b.end - b.pos
  BY <1>1, <1>7, BytesType
<1>9. Number(s, 2) = U16(data, sub) /\ U16(data, sub) \in Word
  BY <1>1, <1>3, NumberIs, ReadU16 DEF s
<1> HIDE DEF c
<1>10. e \in Extension
  BY <1>8, <1>9 DEF Extension, c, b
<1>11. n \in Nat /\ sub.pos + n = b.end /\ n <= Remaining(sub) /\ b.end \in Nat
  <2>1. b.end \in Nat /\ b.pos \in Nat /\ b.pos <= b.end
    BY <1>7 DEF Within, Window
  <2>2. Len(c) \in Nat
    BY <1>8
  <2>3. b.pos = sub.pos + 4 /\ b.end <= sub.end
    BY <1>1, <1>4, <1>7
  <2>4. n = b.end - sub.pos
    BY <1>1, <1>8, <2>1, <2>2, <2>3
  <2>5. n \in Nat
    BY <2>2
  <2>6. sub.pos + n = b.end
    BY <1>1, <2>1, <2>4
  <2>7. n <= Remaining(sub)
    BY <1>1, <1>2, <2>1, <2>3, <2>4
  <2> QED
    BY <2>1, <2>5, <2>6, <2>7
<1> HIDE DEF n
<1>12. Has(sub, n)
  BY <1>11 DEF Has
<1>13. Advance(sub, n) = v
  <2>1. v = [sub EXCEPT !.pos = b.end]
    BY DEF b
  <2>2. Advance(sub, n) = [sub EXCEPT !.pos = sub.pos + n]
    BY DEF Advance
  <2> QED
    BY <1>11, <2>1, <2>2
<1>14. Drop(s, n) = Bytes(data, v)
  BY <1>1, <1>11, <1>12, <1>13, UnreadAfter DEF s
<1>15. Within(data, v)
  BY <1>1, <1>11, <1>12, <1>13, AdvanceWithin
<1>16. Bytes(data, v) \in Seq(Byte)
  BY <1>1, <1>15, BytesType
<1>17. ~(Len(s) < 4)
  BY <1>2, <1>3
<1>18. Extensions[s] =
           <<[type |-> Number(s, 2), body |-> Content(Drop(s, 2), 2)]>>
              \o Extensions[Drop(s, 4 + Len(Content(Drop(s, 2), 2)))]
  BY <1>2, <1>17, ExtensionsIs
<1>19. Content(Drop(s, 2), 2) = c
  BY <1>4, <1>7
<1>20. Extensions[s] = <<e>> \o Extensions[Bytes(data, v)]
  BY <1>9, <1>14, <1>18, <1>19 DEF n, c, b
<1> QED
  BY <1>7, <1>10, <1>16, <1>20, ExtensionsIs DEF s, b

\* The fields of the struct after an extension of type t with body b.
LEMMA DecodeGives ==
    ASSUME NEW h \in Hello, NEW t, NEW b
    PROVE  LET g == Decode(h, t, b)
           IN /\ g.legacy_version = h.legacy_version /\ g.cipher = h.cipher
              /\ g.ciphers = h.ciphers /\ g.extensions = h.extensions
              /\ g.curves = IF t = 10 THEN U16s(data, Clamped16(data, b)) ELSE h.curves
              /\ g.point_formats =
                    IF t = 11 THEN Bytes(data, Clamped8(data, b)) ELSE h.point_formats
              /\ g.sig_algs = IF t = 13 THEN U16s(data, Clamped16(data, b)) ELSE h.sig_algs
              /\ g.supported_versions =
                    IF t = 43 THEN U16s(data, Clamped8(data, b)) ELSE h.supported_versions
              /\ g.sni = IF t = 0 THEN <<>> ELSE h.sni
              /\ g.alpn = IF t = 16 THEN <<>> ELSE h.alpn
<1> USE DEF SERVER_NAME, SUPPORTED_GROUPS, EC_POINT_FORMATS, SIGNATURE_ALGORITHMS,
            ALPN, SUPPORTED_VERSIONS
<1> DEFINE g == Decode(h, t, b)
<1>1. CASE t = 0
  <2>1. g = [h EXCEPT !.sni = <<>>]
    BY <1>1 DEF Decode
  <2> QED
    BY <1>1, <2>1 DEF Hello
<1>2. CASE t = 10
  <2>1. g = [h EXCEPT !.curves = U16s(data, Clamped16(data, b))]
    BY <1>2 DEF Decode
  <2> QED
    BY <1>2, <2>1 DEF Hello
<1>3. CASE t = 11
  <2>1. g = [h EXCEPT !.point_formats = Bytes(data, Clamped8(data, b))]
    BY <1>3 DEF Decode
  <2> QED
    BY <1>3, <2>1 DEF Hello
<1>4. CASE t = 13
  <2>1. g = [h EXCEPT !.sig_algs = U16s(data, Clamped16(data, b))]
    BY <1>4 DEF Decode
  <2> QED
    BY <1>4, <2>1 DEF Hello
<1>5. CASE t = 43
  <2>1. g = [h EXCEPT !.supported_versions = U16s(data, Clamped8(data, b))]
    BY <1>5 DEF Decode
  <2> QED
    BY <1>5, <2>1 DEF Hello
<1>6. CASE t = 16
  <2>1. g = [h EXCEPT !.alpn = <<>>]
    BY <1>6 DEF Decode
  <2> QED
    BY <1>6, <2>1 DEF Hello
<1>7. CASE t \notin {0, 10, 11, 13, 16, 43}
  <2>1. g = h
    BY <1>7 DEF Decode
  <2> QED
    BY <1>7, <2>1
<1> QED
  BY <1>1, <1>2, <1>3, <1>4, <1>5, <1>6, <1>7

\* What the decoders read is what the reference reads in the body.
LEMMA BodyGives ==
    ASSUME data \in Seq(Byte), NEW b, Within(data, b)
    PROVE  /\ Numbers16(Content(Bytes(data, b), 2)) = U16s(data, Clamped16(data, b))
           /\ Content(Bytes(data, b), 1) = Bytes(data, Clamped8(data, b))
           /\ Numbers16(Content(Bytes(data, b), 1)) = U16s(data, Clamped8(data, b))
           /\ Content(Bytes(data, b), 2) = Bytes(data, Clamped16(data, b))
<1>1. Within(data, Clamped16(data, b)) /\ Within(data, Clamped8(data, b))
  BY Clamped16Within, Clamped8Within
<1>2. /\ Content(Bytes(data, b), 2) = Bytes(data, Clamped16(data, b))
      /\ Content(Bytes(data, b), 1) = Bytes(data, Clamped8(data, b))
  BY Vec8Is, Vec16Is
<1>3. /\ Numbers16(Bytes(data, Clamped16(data, b))) = U16s(data, Clamped16(data, b))
      /\ Numbers16(Bytes(data, Clamped8(data, b))) = U16s(data, Clamped8(data, b))
  BY <1>1, Numbers16Is
<1> QED
  BY <1>2, <1>3

LEMMA NextExtensionMeans ==
    ASSUME Safe, Meaning, NextExtension
    PROVE  Meaning'
<1> DEFINE etype == U16(data, sub)
           body == ExtensionBody
           h == Record(hello, etype)
<1>1. /\ pc = "extension" /\ Has(sub, 4) /\ sub' = [sub EXCEPT !.pos = body.end]
      /\ hello' = IF side = "client" THEN Decode(h, etype, body) ELSE h
      /\ pc' = AfterExtension(etype)
      /\ item' = IF pc' = "extension" THEN item ELSE Clamped16(data, body)
      /\ UNCHANGED <<data, side, r>>
  BY DEF NextExtension
<1>2. data \in Seq(Byte) /\ side \in Side /\ hello \in Hello
  BY DEF Safe, TypeOK
<1>3. PICK done \in Seq(Extension) :
          Scanned(done) /\ HostNameRead(done) /\ ProtocolsRead(done)
  BY <1>1 DEF Meaning, AtExtension
<1>4. PICK e : e = [type |-> etype, body |-> Bytes(data, body)]
  OBVIOUS
<1>5. /\ e \in Extension /\ Within(data, body)
      /\ Extensions[Bytes(data, sub')] \in Seq(Extension)
      /\ Extensions[Bytes(data, sub)] = <<e>> \o Extensions[Bytes(data, sub')]
  BY <1>1, <1>4, ExtensionRead
<1>6. PICK more \in Seq(Extension) : more = Append(done, e)
  <2>1. e \in Extension
    BY <1>5
  <2>2. Append(done, e) \in Seq(Extension)
    BY <2>1
  <2> QED
    BY <2>2, Zenon
<1>7. Block = more \o Extensions[Bytes(data, sub')]
  <2> DEFINE u == Extensions[Bytes(data, sub')]
  <2>1. u \in Seq(Extension) /\ Block = done \o (<<e>> \o u)
    BY <1>3, <1>5 DEF Scanned
  <2> HIDE DEF u
  <2>2. Append(done, e) \o u = done \o (<<e>> \o u)
    BY <1>5, <2>1, Shift
  <2> QED
    BY <1>6, <2>1, <2>2 DEF u
<1>8. e.type = etype /\ e.body = Bytes(data, body)
  BY <1>4
<1>9. \A t : BodyOf(more, t) = IF etype = t THEN Bytes(data, body) ELSE BodyOf(done, t)
  BY <1>5, <1>6, <1>8, OneMore
<1>10. etype \in Word
  BY <1>5, <1>8 DEF Extension
<1>11. h \in Hello
  BY <1>2, <1>10, HelloFields DEF Record
<1>12. /\ h.extensions = Append(hello.extensions, etype)
       /\ h.legacy_version = hello.legacy_version /\ h.cipher = hello.cipher
       /\ h.ciphers = hello.ciphers /\ h.curves = hello.curves
       /\ h.point_formats = hello.point_formats /\ h.sig_algs = hello.sig_algs
       /\ h.supported_versions = hello.supported_versions
       /\ h.sni = hello.sni /\ h.alpn = hello.alpn
  BY <1>2 DEF Record, Hello
<1> HIDE DEF h, body, etype
<1>13. side = "client" =>
         /\ hello'.legacy_version = h.legacy_version /\ hello'.cipher = h.cipher
         /\ hello'.ciphers = h.ciphers /\ hello'.extensions = h.extensions
         /\ hello'.curves =
               IF etype = 10 THEN U16s(data, Clamped16(data, body)) ELSE h.curves
         /\ hello'.point_formats =
               IF etype = 11 THEN Bytes(data, Clamped8(data, body)) ELSE h.point_formats
         /\ hello'.sig_algs =
               IF etype = 13 THEN U16s(data, Clamped16(data, body)) ELSE h.sig_algs
         /\ hello'.supported_versions =
               IF etype = 43 THEN U16s(data, Clamped8(data, body))
               ELSE h.supported_versions
         /\ hello'.sni = IF etype = 0 THEN <<>> ELSE h.sni
         /\ hello'.alpn = IF etype = 16 THEN <<>> ELSE h.alpn
  <2> SUFFICES ASSUME side = "client"
               PROVE  <1>13!2
    OBVIOUS
  <2>1. hello' = Decode(h, etype, body)
    BY <1>1
  <2> QED
    BY <1>11, <2>1, DecodeGives
<1>14. side # "client" => hello' = h
  BY <1>1
<1>15. /\ Numbers16(Content(Bytes(data, body), 2)) = U16s(data, Clamped16(data, body))
       /\ Content(Bytes(data, body), 1) = Bytes(data, Clamped8(data, body))
       /\ Numbers16(Content(Bytes(data, body), 1)) = U16s(data, Clamped8(data, body))
       /\ Content(Bytes(data, body), 2) = Bytes(data, Clamped16(data, body))
  BY <1>2, <1>5, BodyGives
<1>16. Scalars(more)'
  <2>1. [i \in DOMAIN more |-> more[i].type] =
            Append([i \in DOMAIN done |-> done[i].type], e.type)
    BY <1>5, <1>6, TypesMore
  <2>2. Scalars(done)
    BY <1>3 DEF Scanned
  <2>3. Filled' = Filled
    BY <1>1, Fixed
  <2>4. /\ hello'.legacy_version = h.legacy_version /\ hello'.cipher = h.cipher
        /\ hello'.ciphers = h.ciphers /\ hello'.extensions = h.extensions
    BY <1>13, <1>14
  <2> QED
    BY <1>8, <1>12, <2>1, <2>2, <2>3, <2>4 DEF Scalars
<1>17. Vectors(more)'
  <2> SUFFICES ASSUME side = "client"
               PROVE  /\ hello'.curves = Numbers16(Content(BodyOf(more, 10), 2))
                      /\ hello'.point_formats = Content(BodyOf(more, 11), 1)
                      /\ hello'.sig_algs = Numbers16(Content(BodyOf(more, 13), 2))
                      /\ hello'.supported_versions =
                            Numbers16(Content(BodyOf(more, 43), 1))
    BY <1>1 DEF Vectors
  <2>1. Vectors(done)
    BY <1>3 DEF Scanned
  <2>2. hello'.curves = Numbers16(Content(BodyOf(more, 10), 2))
    BY <1>9, <1>12, <1>13, <1>15, <2>1 DEF Vectors
  <2>3. hello'.point_formats = Content(BodyOf(more, 11), 1)
    BY <1>9, <1>12, <1>13, <1>15, <2>1 DEF Vectors
  <2>4. hello'.sig_algs = Numbers16(Content(BodyOf(more, 13), 2))
    BY <1>9, <1>12, <1>13, <1>15, <2>1 DEF Vectors
  <2>5. hello'.supported_versions = Numbers16(Content(BodyOf(more, 43), 1))
    BY <1>9, <1>12, <1>13, <1>15, <2>1 DEF Vectors
  <2> QED
    BY <2>2, <2>3, <2>4, <2>5
<1>18. Scanned(more)'
  BY <1>1, <1>7, <1>16, <1>17, Fixed DEF Scanned
<1>19. etype # 0 => HostNameRead(more)'
  <2> SUFFICES ASSUME etype # 0, side = "client"
               PROVE  Texts(hello.sni)' = HostName[Content(BodyOf(more, 0), 2)]
    BY <1>1 DEF HostNameRead
  <2>1. hello'.sni = hello.sni /\ BodyOf(more, 0) = BodyOf(done, 0)
    BY <1>9, <1>12, <1>13
  <2>2. Texts(hello.sni)' = Texts(hello.sni)
    BY <1>1, <2>1 DEF Texts, Text
  <2> QED
    BY <1>3, <2>1, <2>2 DEF HostNameRead
<1>20. etype # 16 => ProtocolsRead(more)'
  <2> SUFFICES ASSUME etype # 16, side = "client"
               PROVE  Texts(hello.alpn)' = Protocols[Content(BodyOf(more, 16), 2)]
    BY <1>1 DEF ProtocolsRead
  <2>1. hello'.alpn = hello.alpn /\ BodyOf(more, 16) = BodyOf(done, 16)
    BY <1>9, <1>12, <1>13
  <2>2. Texts(hello.alpn)' = Texts(hello.alpn)
    BY <1>1, <2>1 DEF Texts, Text
  <2> QED
    BY <1>3, <2>1, <2>2 DEF ProtocolsRead
<1>21. Accepted'
  BY <1>1, Fixed DEF Meaning, AtExtension
<1>22. CASE side = "client" /\ etype = 0
  <2>1. pc' = "names" /\ item' = Clamped16(data, body) /\ hello'.sni = <<>>
    <3>1. AfterExtension(etype) = "names"
      BY <1>22 DEF AfterExtension, SERVER_NAME, ALPN
    <3>2. pc' = "names"
      BY <1>1, <3>1
    <3>3. item' = Clamped16(data, body)
      BY <1>1, <3>2
    <3>4. hello'.sni = <<>>
      BY <1>13, <1>22
    <3> QED
      BY <3>2, <3>3, <3>4
  <2>2. HostName[Bytes(data, item')] = HostName[Content(BodyOf(more, 0), 2)]
    BY <1>9, <1>15, <1>22, <2>1
  <2>3. AtNames'
    BY <1>1, <1>18, <1>20, <1>21, <1>22, <2>1, <2>2 DEF AtNames
  <2> QED
    BY <1>1, <1>22, <2>1, <2>3 DEF Meaning
<1>23. CASE side = "client" /\ etype = 16
  <2>1. pc' = "protocols" /\ item' = Clamped16(data, body) /\ hello'.alpn = <<>>
    BY <1>1, <1>13, <1>23 DEF AfterExtension, SERVER_NAME, ALPN
  <2>2. Texts(hello.alpn)' = <<>>
    BY <2>1 DEF Texts
  <2>3. Bytes(data, item') \in Seq(Byte)
    BY <1>2, <1>5, <2>1, Clamped16Within, BytesType
  <2>4. <<>> \o Protocols[Bytes(data, item')] = Protocols[Bytes(data, item')]
    BY <2>3, ProtocolsIs, NoMore
  <2>5. Protocols[Bytes(data, item')] = Protocols[Content(BodyOf(more, 16), 2)]
    BY <1>9, <1>15, <1>23, <2>1
  <2>6. HostNameRead(more)'
    BY <1>19, <1>23
  <2>7. (Texts(hello.alpn) \o Protocols[Bytes(data, item)] =
             Protocols[Content(BodyOf(more, 16), 2)])'
    BY <1>1, <2>2, <2>4, <2>5
  <2>8. AtProtocols'
    BY <1>18, <1>21, <2>6, <2>7 DEF AtProtocols
  <2> QED
    BY <1>1, <1>23, <2>1, <2>8 DEF Meaning
<1>24. CASE ~(side = "client" /\ etype \in {0, 16})
  <2>1. pc' = "extension"
    BY <1>1, <1>24 DEF AfterExtension, SERVER_NAME, ALPN
  <2>2. HostNameRead(more)' /\ ProtocolsRead(more)'
    <3>1. CASE side = "client"
      BY <1>19, <1>20, <1>24, <3>1
    <3>2. CASE side # "client"
      BY <1>1, <3>2 DEF HostNameRead, ProtocolsRead
    <3> QED
      BY <3>1, <3>2
  <2>3. AtExtension'
    BY <1>18, <1>21, <2>2 DEF AtExtension
  <2> QED
    BY <2>1, <2>3 DEF Meaning
<1> QED
  BY <1>22, <1>23, <1>24

-----------------------------------------------------------------------------
\* One name of a name list.
LEMMA NameRead ==
    ASSUME Safe
    PROVE  /\ Bytes(data, item) \in Seq(Byte)
           /\ (Has(item, 1) /\ HasVec16(data, Advance(item, 1))) <=>
                 ~(Len(Bytes(data, item)) < 3 \/ ~Fits(Drop(Bytes(data, item), 1), 2))
           /\ Has(item, 1) /\ HasVec16(data, Advance(item, 1)) =>
                 LET name == Slice(Advance(item, 3), U16(data, Advance(item, 1)))
                 IN /\ U8(data, item) = Bytes(data, item)[1]
                    /\ Content(Drop(Bytes(data, item), 1), 2) = Bytes(data, name)
                    /\ After(Drop(Bytes(data, item), 1), 2) =
                          Bytes(data, [item EXCEPT !.pos = name.end])
<1> DEFINE s == Bytes(data, item)
           v == Advance(item, 1)
           n == U16(data, v)
           name == Slice(Advance(item, 3), n)
<1>1. data \in Seq(Byte) /\ Within(data, item) /\ item.pos \in Nat /\ item.end \in Nat
      /\ item = [pos |-> item.pos, end |-> item.end]
  BY ReadersWithin DEF Safe, TypeOK, Within, Window
<1>2. s \in Seq(Byte) /\ Len(s) = Remaining(item) /\ Remaining(item) \in Nat
  BY <1>1, UnreadIs
<1>3. /\ Has(item, 1) <=> Len(s) >= 1
      /\ Has(item, 1) => U8(data, item) = s[1]
  <2>1. Has(item, 1) => U8(data, item) = Number(s, 1)
    BY <1>1, NumberIs
  <2>2. Number(s, 1) = s[1]
    BY DEF Number
  <2> QED
    BY <1>2, <2>1, <2>2 DEF Has
<1> HIDE DEF s
<1>4. ASSUME Has(item, 1)
      PROVE  /\ Within(data, v) /\ v.pos = item.pos + 1 /\ v.end = item.end
             /\ Drop(s, 1) = Bytes(data, v)
             /\ Fits(Drop(s, 1), 2) <=> HasVec16(data, v)
             /\ Len(Drop(s, 1)) = Len(s) - 1
  <2>1. /\ Within(data, v) /\ v.pos = item.pos + 1 /\ v.end = item.end
        /\ Drop(s, 1) = Bytes(data, v)
    BY <1>1, <1>4, AdvanceWithin, UnreadAfter DEF s
  <2>2. Len(Drop(s, 1)) = Len(s) - 1
    BY <1>2, <1>3, <1>4, DropIs
  <2> HIDE DEF v
  <2>3. Fits(Bytes(data, v), 2) <=> HasVec16(data, v)
    BY <1>1, <2>1, Vec16Is
  <2> QED
    BY <2>1, <2>2, <2>3
<1>5. (Has(item, 1) /\ HasVec16(data, v)) <=> ~(Len(s) < 3 \/ ~Fits(Drop(s, 1), 2))
  <2>1. Has(item, 1) /\ Fits(Drop(s, 1), 2) => ~(Len(s) < 3)
    BY <1>2, <1>4 DEF Fits
  <2>2. ~(Len(s) < 3) => Has(item, 1)
    BY <1>2, <1>3
  <2> QED
    BY <1>4, <2>1, <2>2
<1>6. ASSUME Has(item, 1), HasVec16(data, v)
      PROVE  /\ Content(Drop(s, 1), 2) = Bytes(data, name)
             /\ After(Drop(s, 1), 2) = Bytes(data, [item EXCEPT !.pos = name.end])
  <2>1. Within(data, v) /\ v.pos = item.pos + 1 /\ v.end = item.end
        /\ Drop(s, 1) = Bytes(data, v)
    BY <1>4, <1>6
  <2>2. Has(v, 2) /\ Has(Advance(v, 2), n)
    BY <1>6 DEF HasVec16
  <2>3. n \in Nat
    <3> HIDE DEF v
    <3>1. U16(data, v) \in Word
      BY <1>1, <2>1, <2>2, ReadU16
    <3> QED
      BY <3>1, Widths
  <2> HIDE DEF n
  <2>4. Advance(v, 2) = Advance(item, 3)
    <3>1. v = [pos |-> item.pos + 1, end |-> item.end]
      BY <1>1 DEF Advance
    <3>2. Advance(item, 3) = [pos |-> item.pos + 3, end |-> item.end]
      BY <1>1 DEF Advance
    <3>3. Advance(v, 2) = [pos |-> item.pos + 1 + 2, end |-> item.end]
      <4> HIDE DEF v
      <4> QED
        BY <3>1 DEF Advance
    <3> QED
      BY <1>1, <3>2, <3>3
  <2>5. Clamped16(data, v) = name
    BY <2>2, <2>4 DEF Clamped16, Clamp, n
  <2>6. Advance(v, 2 + n) = [item EXCEPT !.pos = name.end]
    <3>1. v = [pos |-> item.pos + 1, end |-> item.end]
      BY <1>1 DEF Advance
    <3>2. Advance(item, 3) = [pos |-> item.pos + 3, end |-> item.end]
      BY <1>1 DEF Advance
    <3>3. name.end = item.pos + 3 + n
      BY <3>2 DEF Slice
    <3>4. Advance(v, 2 + n) = [pos |-> item.pos + 1 + (2 + n), end |-> item.end]
      <4> HIDE DEF v
      <4> QED
        BY <3>1 DEF Advance
    <3>5. [item EXCEPT !.pos = name.end] = [pos |-> name.end, end |-> item.end]
      <4> HIDE DEF name
      <4> QED
        BY <1>1
    <3>6. item.pos + 1 + (2 + n) = item.pos + 3 + n
      BY <1>1, <2>3
    <3> QED
      BY <3>3, <3>4, <3>5, <3>6
  <2> HIDE DEF v, name
  <2>7. /\ Content(Bytes(data, v), 2) = Bytes(data, Clamped16(data, v))
        /\ After(Bytes(data, v), 2) = Bytes(data, Advance(v, 2 + n))
    BY <1>1, <1>6, <2>1, Vec16Is DEF n
  <2> QED
    BY <2>1, <2>5, <2>6, <2>7
<1> QED
  BY <1>2, <1>3, <1>5, <1>6 DEF s

LEMMA NextNameMeans ==
    ASSUME Safe, Meaning, NextName
    PROVE  Meaning'
<1> DEFINE s == Bytes(data, item)
           name == Slice(Advance(item, 3), U16(data, Advance(item, 1)))
<1>1. /\ pc = "names" /\ Has(item, 1) /\ HasVec16(data, Advance(item, 1))
      /\ item' = [item EXCEPT !.pos = name.end]
      /\ U8(data, item) = 0 =>
            hello' = [hello EXCEPT !.sni = <<name>>] /\ pc' = "extension"
      /\ U8(data, item) # 0 => UNCHANGED <<pc, hello>>
      /\ UNCHANGED <<data, side, r, sub>>
  BY DEF NextName
<1>2. AtNames /\ side = "client"
  BY <1>1 DEF Meaning
<1>3. PICK done \in Seq(Extension) :
          /\ Scanned(done) /\ ProtocolsRead(done)
          /\ HostName[s] = HostName[Content(BodyOf(done, 0), 2)]
  BY <1>2 DEF AtNames
<1>4. /\ s \in Seq(Byte) /\ ~(Len(s) < 3 \/ ~Fits(Drop(s, 1), 2))
      /\ U8(data, item) = s[1] /\ Content(Drop(s, 1), 2) = Bytes(data, name)
      /\ After(Drop(s, 1), 2) = Bytes(data, item')
  BY <1>1, NameRead
<1> HIDE DEF s
<1>5. HostName[s] = IF s[1] = 0 THEN <<FromUtf8Lossy(Bytes(data, name))>>
                    ELSE HostName[Bytes(data, item')]
  BY <1>4, HostNameIs
<1>6. Accepted'
  BY <1>1, <1>2, Fixed DEF AtNames
<1>7. hello \in Hello
  BY DEF Safe, TypeOK
<1> HIDE DEF name
<1>8. CASE s[1] = 0
  <2>1. hello' = [hello EXCEPT !.sni = <<name>>] /\ pc' = "extension"
    BY <1>1, <1>4, <1>8
  <2>2. hello'.sni = <<name>>
    BY <1>7, <2>1 DEF Hello
  <2>3. Scanned(done)'
    <3>1. Scalars(done)' /\ Vectors(done)'
      BY <1>1, <1>3, <1>7, <2>1, Fixed DEF Scanned, Scalars, Vectors, Hello
    <3> QED
      BY <1>1, <1>3, <3>1, Fixed DEF Scanned
  <2>4. ProtocolsRead(done)'
    <3>1. hello'.alpn = hello.alpn
      BY <1>7, <2>1 DEF Hello
    <3> QED
      BY <1>1, <1>3, <3>1 DEF ProtocolsRead, Texts, Text
  <2>5. HostNameRead(done)'
    <3>1. Texts(hello.sni)' = <<FromUtf8Lossy(Bytes(data, name))>>
      BY <1>1, <2>2 DEF Texts, Text
    <3> QED
      BY <1>1, <1>3, <1>5, <1>8, <3>1 DEF HostNameRead
  <2>6. AtExtension'
    BY <1>6, <2>3, <2>4, <2>5 DEF AtExtension
  <2> QED
    BY <2>1, <2>6 DEF Meaning
<1>9. CASE s[1] # 0
  <2>1. hello' = hello /\ pc' = "names"
    BY <1>1, <1>4, <1>9
  <2>2. Scanned(done)' /\ ProtocolsRead(done)'
    BY <1>1, <1>3, <2>1, Fixed
    DEF Scanned, Scalars, Vectors, ProtocolsRead, Texts, Text
  <2>3. HostName[Bytes(data, item')] = HostName[Content(BodyOf(done, 0), 2)]
    BY <1>3, <1>5, <1>9 DEF s
  <2>4. hello'.sni = <<>>
    BY <1>2, <2>1 DEF AtNames
  <2>5. AtNames'
    BY <1>1, <1>6, <2>2, <2>3, <2>4 DEF AtNames
  <2> QED
    BY <1>1, <1>2, <2>1, <2>5 DEF Meaning
<1> QED
  BY <1>8, <1>9

LEMMA EndNamesMeans ==
    ASSUME Safe, Meaning, EndNames
    PROVE  Meaning'
<1> DEFINE s == Bytes(data, item)
<1>1. /\ pc = "names" /\ pc' = "extension"
      /\ ~(Has(item, 1) /\ HasVec16(data, Advance(item, 1)))
      /\ UNCHANGED <<data, side, r, sub, item, hello>>
  BY DEF EndNames
<1>2. AtNames
  BY <1>1 DEF Meaning
<1>3. PICK done \in Seq(Extension) :
          /\ Scanned(done) /\ ProtocolsRead(done)
          /\ HostName[s] = HostName[Content(BodyOf(done, 0), 2)]
  BY <1>2 DEF AtNames
<1>4. s \in Seq(Byte) /\ (Len(s) < 3 \/ ~Fits(Drop(s, 1), 2))
  BY <1>1, NameRead
<1> HIDE DEF s
<1>5. HostName[s] = <<>>
  BY <1>4, HostNameIs
<1>6. Texts(hello.sni)' = <<>>
  BY <1>1, <1>2 DEF AtNames, Texts
<1>7. Scanned(done)' /\ ProtocolsRead(done)'
  BY <1>1, <1>3, Fixed DEF Scanned, Scalars, Vectors, ProtocolsRead, Texts, Text
<1>8. HostNameRead(done)'
  BY <1>1, <1>3, <1>5, <1>6 DEF HostNameRead
<1>9. AtExtension'
  BY <1>1, <1>2, <1>7, <1>8, Fixed DEF AtNames, AtExtension
<1> QED
  BY <1>1, <1>9 DEF Meaning

LEMMA ProtocolRead ==
    ASSUME Safe
    PROVE  /\ Bytes(data, item) \in Seq(Byte)
           /\ HasVec8(data, item) <=> Fits(Bytes(data, item), 1)
           /\ HasVec8(data, item) =>
                 LET name == Slice(Advance(item, 1), U8(data, item))
                 IN /\ Within(data, name)
                    /\ Content(Bytes(data, item), 1) = Bytes(data, name)
                    /\ After(Bytes(data, item), 1) =
                          Bytes(data, [item EXCEPT !.pos = name.end])
<1> DEFINE s == Bytes(data, item)
           n == U8(data, item)
           name == Slice(Advance(item, 1), n)
<1>1. data \in Seq(Byte) /\ Within(data, item) /\ item.pos \in Nat /\ item.end \in Nat
      /\ item = [pos |-> item.pos, end |-> item.end]
  BY ReadersWithin DEF Safe, TypeOK, Within, Window
<1>2. /\ s \in Seq(Byte) /\ (Fits(s, 1) <=> HasVec8(data, item))
      /\ HasVec8(data, item) => After(s, 1) = Bytes(data, Advance(item, 1 + n))
      /\ Content(s, 1) = Bytes(data, Clamped8(data, item))
      /\ Within(data, Clamped8(data, item))
  BY <1>1, UnreadIs, Vec8Is, Clamped8Within
<1> HIDE DEF s
<1>3. ASSUME HasVec8(data, item)
      PROVE  Clamped8(data, item) = name /\ Advance(item, 1 + n) = [item EXCEPT !.pos = name.end]
  <2>1. Has(item, 1) /\ Has(Advance(item, 1), n)
    BY <1>3 DEF HasVec8
  <2>2. Clamped8(data, item) = name
    BY <2>1 DEF Clamped8, Clamp
  <2>3. n \in Nat
    <3>1. U8(data, item) \in Byte
      BY <1>1, <2>1, ReadU8
    <3> QED
      BY <3>1, Widths
  <2> HIDE DEF n
  <2>4. Advance(item, 1) = [pos |-> item.pos + 1, end |-> item.end]
    BY <1>1 DEF Advance
  <2>5. name.end = item.pos + 1 + n
    BY <2>4 DEF Slice
  <2>6. Advance(item, 1 + n) = [pos |-> item.pos + (1 + n), end |-> item.end]
    BY <1>1 DEF Advance
  <2>7. [item EXCEPT !.pos = name.end] = [pos |-> name.end, end |-> item.end]
    <3> HIDE DEF name
    <3> QED
      BY <1>1
  <2>8. item.pos + (1 + n) = item.pos + 1 + n
    BY <1>1, <2>3
  <2> QED
    BY <2>2, <2>5, <2>6, <2>7, <2>8
<1> QED
  BY <1>2, <1>3 DEF s

LEMMA NextProtocolMeans ==
    ASSUME Safe, Meaning, NextProtocol
    PROVE  Meaning'
<1> DEFINE s == Bytes(data, item)
           name == Slice(Advance(item, 1), U8(data, item))
<1>1. /\ pc = "protocols" /\ pc' = "protocols" /\ HasVec8(data, item)
      /\ hello' = [hello EXCEPT !.alpn = Append(@, name)]
      /\ item' = [item EXCEPT !.pos = name.end]
      /\ UNCHANGED <<data, side, r, sub>>
  BY DEF NextProtocol
<1>2. AtProtocols /\ side = "client"
  BY <1>1 DEF Meaning
<1>3. PICK done \in Seq(Extension) :
          /\ Scanned(done) /\ HostNameRead(done)
          /\ Texts(hello.alpn) \o Protocols[s] = Protocols[Content(BodyOf(done, 16), 2)]
  BY <1>2 DEF AtProtocols
<1>4. /\ s \in Seq(Byte) /\ Fits(s, 1) /\ Within(data, name)
      /\ Content(s, 1) = Bytes(data, name) /\ After(s, 1) = Bytes(data, item')
  BY <1>1, ProtocolRead
<1> HIDE DEF s, name
<1>5. hello \in Hello /\ hello.alpn \in Seq(Window) /\ name \in Window
  BY <1>4 DEF Safe, TypeOK, Hello, Within
<1>6. hello'.alpn = Append(hello.alpn, name)
  BY <1>1, <1>5 DEF Hello
<1>7. Bytes(data, item') \in Seq(Byte)
  BY <1>4, VectorPieces
<1>8. /\ Protocols[s] = <<Text(name)>> \o Protocols[Bytes(data, item')]
      /\ Protocols[Bytes(data, item')] \in Seq(Texts8)
  BY <1>4, <1>7, ProtocolsIs DEF Text
<1>9. /\ Text(name) \in Texts8 /\ Texts(hello.alpn) \in Seq(Texts8)
      /\ Texts(Append(hello.alpn, name)) = Append(Texts(hello.alpn), Text(name))
  BY <1>4, TextsMore
<1>10. Texts(hello.alpn)' = Append(Texts(hello.alpn), Text(name))
  <2>1. Texts(hello.alpn)' = Texts(Append(hello.alpn, name))
    BY <1>1, <1>6 DEF Texts, Text
  <2> QED
    BY <1>9, <2>1
<1>11. Append(Texts(hello.alpn), Text(name)) \o Protocols[Bytes(data, item')] =
           Texts(hello.alpn) \o Protocols[s]
  <2> DEFINE a == Texts(hello.alpn)
             x == Text(name)
             u == Protocols[Bytes(data, item')]
  <2>1. a \in Seq(Texts8) /\ x \in Texts8 /\ u \in Seq(Texts8)
    BY <1>8, <1>9
  <2>2. Protocols[s] = <<x>> \o u
    BY <1>8
  <2> HIDE DEF a, x, u
  <2>3. \A l \in Seq(Texts8), e \in Texts8, m \in Seq(Texts8) :
            Append(l, e) \o m = l \o (<<e>> \o m)
    BY ONLY Shift
  <2>4. Append(a, x) \o u = a \o (<<x>> \o u)
    BY <2>1, <2>3, Zenon
  <2> QED
    BY <2>2, <2>4 DEF a, x, u
<1>12. (Texts(hello.alpn) \o Protocols[Bytes(data, item)] =
            Protocols[Content(BodyOf(done, 16), 2)])'
  BY <1>1, <1>3, <1>10, <1>11
<1>13. Scanned(done)'
  <2>1. Scalars(done)' /\ Vectors(done)'
    BY <1>1, <1>3, <1>5, Fixed DEF Scanned, Scalars, Vectors, Hello
  <2> QED
    BY <1>1, <1>3, <2>1, Fixed DEF Scanned
<1>14. HostNameRead(done)'
  <2>1. hello'.sni = hello.sni
    BY <1>1, <1>5 DEF Hello
  <2> QED
    BY <1>1, <1>3, <2>1 DEF HostNameRead, Texts, Text
<1>15. AtProtocols'
  BY <1>1, <1>2, <1>12, <1>13, <1>14, Fixed DEF AtProtocols
<1> QED
  BY <1>1, <1>2, <1>15 DEF Meaning

LEMMA EndProtocolsMeans ==
    ASSUME Safe, Meaning, EndProtocols
    PROVE  Meaning'
<1> DEFINE s == Bytes(data, item)
<1>1. /\ pc = "protocols" /\ pc' = "extension" /\ ~HasVec8(data, item)
      /\ UNCHANGED <<data, side, r, sub, item, hello>>
  BY DEF EndProtocols
<1>2. AtProtocols
  BY <1>1 DEF Meaning
<1>3. PICK done \in Seq(Extension) :
          /\ Scanned(done) /\ HostNameRead(done)
          /\ Texts(hello.alpn) \o Protocols[s] = Protocols[Content(BodyOf(done, 16), 2)]
  BY <1>2 DEF AtProtocols
<1>4. s \in Seq(Byte) /\ ~Fits(s, 1)
  BY <1>1, ProtocolRead
<1> HIDE DEF s
<1>5. Protocols[s] = <<>>
  BY <1>4, ProtocolsIs
<1>6. Texts(hello.alpn) = Protocols[Content(BodyOf(done, 16), 2)]
  <2>1. Texts(hello.alpn) \in Seq(Texts8)
    BY ReadersWithin, TextsMore
  <2>2. Texts(hello.alpn) \o <<>> = Texts(hello.alpn)
    BY <2>1, NoMore
  <2> QED
    BY <1>3, <1>5, <2>2
<1>7. Scanned(done)' /\ HostNameRead(done)'
  BY <1>1, <1>3, Fixed DEF Scanned, Scalars, Vectors, HostNameRead, Texts, Text
<1>8. ProtocolsRead(done)'
  BY <1>1, <1>6 DEF ProtocolsRead, Texts, Text
<1>9. AtExtension'
  BY <1>1, <1>2, <1>7, <1>8, Fixed DEF AtProtocols, AtExtension
<1> QED
  BY <1>1, <1>9 DEF Meaning

-----------------------------------------------------------------------------
\* A read that fails is one the reference refuses too.
LEMMA RejectMeans ==
    ASSUME Safe, Meaning, Reject
    PROVE  Meaning'
<1>1. /\ ~Readable /\ pc' = "none" /\ UNCHANGED <<data, side, r, sub, item, hello>>
      /\ side \in Side /\ pc \in Location /\ data \in Seq(Byte)
  BY DEF Reject, Safe, TypeOK
<1>2. pc \in {"type", "length", "version", "random", "session", "compression",
              "suites", "selected"}
  BY <1>1 DEF Readable, Location, Returned
<1>3. Hs \in Seq(Byte) /\ Len(Hs) \in Nat
  <2>1. Within(data, Message) /\ Hs = Bytes(data, Message)
    BY <1>1, StripWithin, PayloadIs DEF Hs, Message
  <2>2. Hs \in Seq(Byte)
    BY <1>1, <2>1, BytesType
  <2> QED
    BY <2>2, SeqIs
<1>4. /\ Opened => Body \in Seq(Byte) /\ Len(Body) \in Nat
      /\ HasSession(Body) => Len(Body) >= 35 /\ Fits(Drop(Body, 34), 1)
      /\ IsHello(Hs, Kind) => Len(Hs) >= 4 /\ Hs[1] = Kind
  BY SeqIs DEF Opened, HasSession, IsHello
<1> SUFFICES Parsed = <<>>
  <2>1. Parsed = <<>> => Parsed' = <<>>
    BY <1>1, Fixed
  <2> QED
    BY <1>1, <2>1 DEF Meaning
<1>5. CASE pc = "type"
  <2>1. ~(Has(r, 1) /\ U8(data, r) = Kind) /\ Left = Hs
    BY <1>1, <1>5 DEF Readable, Kind, Meaning, AtType
  <2>2. ~IsHello(Hs, Kind)
    BY <1>3, <1>4, <2>1, LeftIs
  <2> QED
    BY <1>1, <2>2, Refused
<1>6. CASE pc = "length"
  <2>1. ~Has(r, 3) /\ Len(Hs) >= 1 /\ Left = Drop(Hs, 1)
    BY <1>1, <1>6 DEF Readable, Meaning, AtLength
  <2>2. Len(Left) = Len(Hs) - 1 /\ ~(Len(Left) >= 3)
    BY <1>3, <2>1, LeftIs, DropIs
  <2>3. ~IsHello(Hs, Kind)
    BY <1>3, <1>4, <2>2
  <2> QED
    BY <1>1, <2>3, Refused
<1>7. CASE pc = "version"
  <2>1. ~Has(r, 2) /\ Opened /\ Left = Body
    BY <1>1, <1>7 DEF Readable, Meaning, AtVersion
  <2>2. ~(Len(Body) >= 2)
    BY <2>1, LeftIs
  <2>3. ~HasSession(Body)
    BY <1>4, <2>1, <2>2
  <2> QED
    BY <1>1, <2>3, Refused
<1>8. CASE pc = "random"
  <2>1. ~Has(r, 32) /\ Opened /\ Len(Body) >= 2 /\ Left = Drop(Body, 2)
    BY <1>1, <1>8 DEF Readable, RandomLen, Meaning, AtRandom
  <2>2. Len(Left) = Len(Body) - 2 /\ ~(Len(Left) >= 32)
    BY <1>4, <2>1, LeftIs, DropIs
  <2>3. ~HasSession(Body)
    BY <1>4, <2>1, <2>2
  <2> QED
    BY <1>1, <2>3, Refused
<1>9. CASE pc = "session"
  <2>1. ~HasVec8(data, r) /\ Left = Drop(Body, 34)
    BY <1>1, <1>9 DEF Readable, Meaning, AtSession
  <2>2. ~HasSession(Body)
    BY <1>4, <2>1, LeftIs
  <2> QED
    BY <1>1, <2>2, Refused
<1>10. CASE pc = "suites"
  <2>1. ~HasVec16(data, r) /\ Left = Suites /\ side = "client"
    BY <1>1, <1>10 DEF Readable, Meaning, AtSuites
  <2>2. ~Fits(Suites, 2)
    BY <2>1, LeftIs
  <2> QED
    BY <1>1, <2>1, <2>2, Refused
<1>11. CASE pc = "compression"
  <2>1. ~HasVec8(data, r) /\ Left = Methods /\ side = "client"
    BY <1>1, <1>11 DEF Readable, Meaning, AtCompression
  <2>2. ~Fits(Methods, 1)
    BY <2>1, LeftIs
  <2> QED
    BY <1>1, <2>1, <2>2, Refused
<1>12. CASE pc = "selected"
  <2>1. ~Has(r, 3) /\ Left = Suites /\ side = "server"
    BY <1>1, <1>12 DEF Readable, Meaning, AtSuites
  <2>2. ~(Len(Suites) >= 3)
    BY <2>1, LeftIs
  <2> QED
    BY <1>1, <2>1, <2>2, Refused
<1> QED
  BY <1>2, <1>5, <1>6, <1>7, <1>8, <1>9, <1>10, <1>11, <1>12

LEMMA RestMeans ==
    ASSUME Meaning, UNCHANGED vars
    PROVE  Meaning'
<1>1. UNCHANGED <<data, side, pc, r, sub, item, hello>>
  BY DEF vars
<1>2. Left' = Left /\ Result' = Result
  BY <1>1, SameResult DEF Left
<1>3. /\ AtType' = AtType /\ AtLength' = AtLength /\ AtVersion' = AtVersion
      /\ AtRandom' = AtRandom /\ AtSession' = AtSession /\ AtSuites' = AtSuites
      /\ AtCipher' = AtCipher /\ AtCompression' = AtCompression
      /\ AtExtensions' = AtExtensions
  BY <1>1, <1>2, Fixed DEF AtType, AtLength, AtVersion, AtRandom, AtSession,
     AtSuites, AtCipher, AtCompression, AtExtensions
<1>4. ASSUME NEW done
      PROVE  /\ Scanned(done)' = Scanned(done)
             /\ HostNameRead(done)' = HostNameRead(done)
             /\ ProtocolsRead(done)' = ProtocolsRead(done)
  BY <1>1, Fixed DEF Scanned, Scalars, Vectors, HostNameRead, ProtocolsRead,
     Texts, Text
<1>5. AtExtension' = AtExtension
  BY <1>4, <1>1, Fixed DEF AtExtension
<1>6. AtNames' = AtNames
  BY <1>4, <1>1, Fixed DEF AtNames
<1>7. Texts(hello.alpn)' = Texts(hello.alpn)
  BY <1>1 DEF Texts, Text
<1>8. ASSUME AtProtocols PROVE AtProtocols'
  <2>1. PICK done \in Seq(Extension) :
            /\ Scanned(done) /\ HostNameRead(done)
            /\ Texts(hello.alpn) \o Protocols[Bytes(data, item)] =
                   Protocols[Content(BodyOf(done, 16), 2)]
    BY <1>8 DEF AtProtocols
  <2>2. Scanned(done)' /\ HostNameRead(done)'
    BY <1>4, <2>1
  <2>3. (Texts(hello.alpn) \o Protocols[Bytes(data, item)] =
            Protocols[Content(BodyOf(done, 16), 2)])'
    BY <1>1, <1>7, <2>1
  <2>4. Accepted'
    BY <1>1, <1>8, Fixed DEF AtProtocols
  <2> QED
    BY <2>2, <2>3, <2>4 DEF AtProtocols
<1> QED
  BY <1>1, <1>2, <1>3, <1>5, <1>6, <1>8, Fixed DEF Meaning

LEMMA InitMeans == Init => Meaning
<1> SUFFICES ASSUME Init PROVE Meaning
  OBVIOUS
<1>1. pc = "type" /\ r = StripRecordHeader(data) /\ hello = Default /\ data \in Seq(Byte)
  BY InputsAssumption DEF Init, Call
<1>2. Left = Hs
  BY <1>1, PayloadIs DEF Left, Hs
<1> QED
  BY <1>1, <1>2 DEF Meaning, AtType

LEMMA NextMeans == Safe /\ Meaning /\ [Next]_vars => Meaning'
<1> SUFFICES ASSUME Safe, Meaning, [Next]_vars PROVE Meaning'
  OBVIOUS
<1>1. CASE Reject
  BY <1>1, RejectMeans
<1>2. CASE CheckType \/ TakeBody \/ ReadVersion \/ SkipRandom \/ SkipSessionId
  BY <1>2, CheckTypeMeans, TakeBodyMeans, ReadVersionMeans, SkipRandomMeans,
     SkipSessionIdMeans
<1>3. CASE TakeCipherSuites \/ PushCipher \/ EndCiphers \/ SkipCompressionMethods
             \/ ReadSelected
  BY <1>3, TakeCipherSuitesMeans, PushCipherMeans, EndCiphersMeans,
     SkipCompressionMethodsMeans, ReadSelectedMeans
<1>4. CASE NoExtensions \/ OpenExtensions \/ NextExtension \/ EndExtensions
  BY <1>4, NoExtensionsMeans, OpenExtensionsMeans, NextExtensionMeans,
     EndExtensionsMeans
<1>5. CASE NextName \/ EndNames \/ NextProtocol \/ EndProtocols
  BY <1>5, NextNameMeans, EndNamesMeans, NextProtocolMeans, EndProtocolsMeans
<1>6. CASE Done \/ UNCHANGED vars
  BY <1>6, RestMeans DEF Done
<1> QED
  BY <1>1, <1>2, <1>3, <1>4, <1>5, <1>6 DEF Next, Step

-----------------------------------------------------------------------------
\* The refinement: a call that returns, returns what the reference computes.
LEMMA InitRefines == Init => Abstract!Init
<1> SUFFICES ASSUME Init PROVE Abstract!Init
  OBVIOUS
<1>1. data \in Seq(Byte) /\ side \in Side /\ pc = "type"
  BY InputsAssumption DEF Init, Call
<1> QED
  BY <1>1 DEF Abstract!Init, Byte, Side, Returned, Answer

LEMMA StepRefines ==
    ASSUME Safe, Meaning, Meaning', [Next]_vars
    PROVE  [Abstract!Return]_<<data, side, pc \in Returned, Answer>>
<1>1. UNCHANGED <<data, side>>
  BY DEF Next, Step, Done, vars, Reject, CheckType, TakeBody, ReadVersion, SkipRandom,
     SkipSessionId, TakeCipherSuites, PushCipher, EndCiphers, SkipCompressionMethods,
     ReadSelected, NoExtensions, OpenExtensions, NextExtension, EndExtensions,
     NextName, EndNames, NextProtocol, EndProtocols
<1>2. CASE UNCHANGED vars
  <2>1. Answer' = Answer /\ (pc \in Returned)' = (pc \in Returned)
    BY <1>2 DEF vars, Answer, ClientAnswer, ServerAnswer, Texts, Text
  <2> QED
    BY <1>1, <2>1
<1>3. CASE pc \in Returned
  <2>1. UNCHANGED vars
    BY <1>3 DEF Next, Step, Done, vars, Reject, Readable, Returned, CheckType, TakeBody,
       ReadVersion, SkipRandom, SkipSessionId, TakeCipherSuites, PushCipher, EndCiphers,
       SkipCompressionMethods, ReadSelected, NoExtensions, OpenExtensions,
       NextExtension, EndExtensions, NextName, EndNames, NextProtocol, EndProtocols
  <2> QED
    BY <1>2, <2>1
<1>4. CASE pc \notin Returned /\ pc' \notin Returned
  <2>1. Answer = <<>> /\ Answer' = <<>>
    BY <1>4 DEF Answer, Returned
  <2> QED
    BY <1>1, <1>4, <2>1
<1>5. CASE pc \notin Returned /\ pc' \in Returned
  <2>1. Answer' = Parsed'
    <3>1. CASE pc' = "some"
      BY <3>1 DEF Meaning, Answer, Result
    <3>2. CASE pc' = "none"
      BY <3>2 DEF Meaning, Answer
    <3> QED
      BY <1>5, <3>1, <3>2 DEF Returned
  <2>2. Parsed = Parse(data, side)
    BY DEF Parsed, Parse
  <2>3. Abstract!Return
    BY <1>1, <1>5, <2>1, <2>2, Fixed DEF Abstract!Return
  <2> QED
    BY <2>3
<1> QED
  BY <1>2, <1>3, <1>4, <1>5

\* parse_client_hello and parse_server_hello return, for every capture, what the
\* reference functions say the capture means: the struct of a well-formed hello,
\* clamped lists and overwritten fields of a damaged one, and None exactly when
\* the header, the session id, the cipher suites or the compression methods are
\* cut.
THEOREM Refines == Spec => ImplementsReference
<1>1. Init => Meaning
  BY InitMeans
<1>2. Safe /\ Meaning /\ [Next]_vars => Meaning'
  BY NextMeans
<1>3. Spec => []Meaning
  BY <1>1, <1>2, SafeAlways, PTL DEF Spec
<1>4. Init => Abstract!Init
  BY InitRefines
<1>5. Safe /\ Meaning /\ Meaning' /\ [Next]_vars =>
          [Abstract!Return]_<<data, side, pc \in Returned, Answer>>
  BY StepRefines
<1> QED
  BY <1>3, <1>4, <1>5, SafeAlways, PTL DEF Spec, ImplementsReference, Abstract!Spec
=============================================================================
