--------------------------- MODULE HelloParserProofs ---------------------------
(***************************************************************************)
(* Proofs about HelloParser for every set of captures.  The inductive      *)
(* invariant is TypeOK /\ WindowsNested: a read returns a byte of the      *)
(* capture only because its window lies within the capture, and the        *)
(* windows stay nested only because the lengths read are numbers.  The     *)
(* bounds on the struct and on the steps left, and the agreement with the  *)
(* guard, each add a part of their own to it.                              *)
(***************************************************************************)
EXTENDS HelloParser, WireTheorems

Safe == TypeOK /\ WindowsNested

\* The three readers are windows of the capture.
LEMMA ReadersWithin ==
    ASSUME Safe
    PROVE  Within(data, r) /\ Within(data, sub) /\ Within(data, item)
<1>1. /\ r \in Window /\ sub \in Window /\ item \in Window
      /\ Len(data) \in Nat /\ Message.end \in Nat
  <2>1. Within(data, Message)
    BY StripWithin DEF Safe, TypeOK, Message
  <2>2. QED
    BY <2>1 DEF Safe, TypeOK, Within, Window
<1>2. QED
  BY <1>1 DEF Safe, WindowsNested, ReadersNested, Within, Window

\* Assigning a field of the struct keeps its type.
LEMMA HelloFields ==
    ASSUME NEW h \in Hello
    PROVE  /\ \A v \in Word : [h EXCEPT !.legacy_version = v] \in Hello
           /\ \A v \in Word : [h EXCEPT !.cipher = v] \in Hello
           /\ \A v \in Word : [h EXCEPT !.ciphers = Append(h.ciphers, v)] \in Hello
           /\ \A v \in Word : [h EXCEPT !.extensions = Append(h.extensions, v)] \in Hello
           /\ \A v \in Seq(Word) : [h EXCEPT !.curves = v] \in Hello
           /\ \A v \in Seq(Byte) : [h EXCEPT !.point_formats = v] \in Hello
           /\ \A v \in Seq(Word) : [h EXCEPT !.sig_algs = v] \in Hello
           /\ \A v \in Seq(Word) : [h EXCEPT !.supported_versions = v] \in Hello
           /\ \A v \in Seq(Window) : [h EXCEPT !.sni = v] \in Hello
           /\ \A v \in Seq(Window) : [h EXCEPT !.alpn = v] \in Hello
<1>1. /\ h.ciphers \in Seq(Word) /\ h.extensions \in Seq(Word)
  BY DEF Hello
<1>2. /\ \A v \in Word : Append(h.ciphers, v) \in Seq(Word)
      /\ \A v \in Word : Append(h.extensions, v) \in Seq(Word)
  BY <1>1
<1>3. QED
  BY <1>2 DEF Hello

\* Names that are behind a position stay behind a later one.
LEMMA NamesStay ==
    ASSUME TypeOK, NamesNested, NEW p \in Nat, sub.pos <= p
    PROVE  /\ \A i \in DOMAIN hello.sni : Behind(hello.sni[i], p)
           /\ \A i \in DOMAIN hello.alpn : Behind(hello.alpn[i], p)
<1>1. /\ \A i \in DOMAIN hello.sni : hello.sni[i] \in Window
      /\ \A i \in DOMAIN hello.alpn : hello.alpn[i] \in Window
      /\ sub.pos \in Nat
  <2>1. hello.sni \in Seq(Window) /\ hello.alpn \in Seq(Window)
    BY DEF TypeOK, Hello
  <2>2. sub.pos \in Nat
    BY DEF TypeOK, Window
  <2>3. QED
    BY <2>1, <2>2
<1>2. QED
  BY <1>1 DEF NamesNested, Behind, Window

LEMMA InitSafe == Init => Safe
<1> SUFFICES ASSUME Init PROVE Safe
  OBVIOUS
<1>1. data \in Seq(Byte)
  BY InputsAssumption DEF Init
<1>2. Within(data, Message)
  BY <1>1, StripWithin DEF Message
<1>3. /\ r = Message /\ sub = Slice(r, 0) /\ item = Slice(r, 0)
      /\ side \in Side /\ pc = "type" /\ hello = Default
  BY DEF Init, Call, Message
<1>4. r \in Window /\ r.pos <= r.end /\ Message.end <= Len(data)
  BY <1>2, <1>3 DEF Within
<1>5. /\ sub \in Window /\ sub.pos = r.pos /\ sub.end = r.pos
      /\ item \in Window /\ item.pos = r.pos /\ item.end = r.pos
  BY <1>3, <1>4 DEF Slice, Window
<1>6. hello \in Hello /\ hello.sni = <<>> /\ hello.alpn = <<>>
  <2>1. 0 \in Word
    BY DEF Word
  <2>2. QED
    BY <1>3, <2>1 DEF Default, Hello
<1>7. TypeOK
  BY <1>1, <1>3, <1>4, <1>5, <1>6 DEF TypeOK, Location
<1>8. ReadersNested
  BY <1>3, <1>4, <1>5 DEF ReadersNested, Window
<1>9. NamesNested
  BY <1>6 DEF NamesNested
<1>10. QED
  BY <1>7, <1>8, <1>9 DEF Safe, WindowsNested

\* What a step must give for the next state to be safe; the capture and the
\* side never change.
LEMMA SafeNext ==
    ASSUME Safe, data' = data, side' = side, pc' \in Location,
           Within(data, r'), Within(data, sub'), Within(data, item'),
           Message.pos <= r'.pos, r'.end <= Message.end,
           sub'.end <= r'.pos, item'.end <= sub'.pos,
           hello' \in Hello, Len(hello'.sni) <= 1,
           \A i \in DOMAIN hello'.sni : Behind(hello'.sni[i], sub'.pos),
           \A i \in DOMAIN hello'.alpn : Behind(hello'.alpn[i], sub'.pos)
    PROVE  Safe'
<1>1. Message' = Message
  BY DEF Message
<1>2. TypeOK'
  BY DEF Safe, TypeOK, Within
<1>3. ReadersNested'
  BY <1>1 DEF Safe, WindowsNested, ReadersNested, Within
<1>4. NamesNested'
  BY DEF NamesNested
<1>5. QED
  BY <1>2, <1>3, <1>4 DEF Safe, WindowsNested

\* A step that moves only the outer reader, forwards and within its slice.
LEMMA OuterStep ==
    ASSUME Safe, UNCHANGED <<data, side, sub, item>>, pc' \in Location,
           Within(data, r'), r.pos <= r'.pos, r'.end <= r.end,
           hello' \in Hello, hello'.sni = hello.sni, hello'.alpn = hello.alpn
    PROVE  Safe'
<1>1. Within(data, sub) /\ Within(data, item) /\ Within(data, r)
  BY ReadersWithin
<1>2. /\ Message.pos <= r.pos /\ r.end <= Message.end
      /\ sub.end <= r.pos /\ item.end <= sub.pos
  BY DEF Safe, WindowsNested, ReadersNested
<1>3. /\ Message.pos \in Nat /\ Message.end \in Nat
  <2>1. Within(data, Message)
    BY StripWithin DEF Safe, TypeOK, Message
  <2>2. QED
    BY <2>1 DEF Within, Window
<1>4. /\ Message.pos <= r'.pos /\ r'.end <= Message.end /\ sub.end <= r'.pos
  BY <1>1, <1>2, <1>3 DEF Within, Window
<1>5. /\ \A i \in DOMAIN hello.sni : Behind(hello.sni[i], sub.pos)
      /\ \A i \in DOMAIN hello.alpn : Behind(hello.alpn[i], sub.pos)
      /\ Len(hello.sni) <= 1
  BY DEF Safe, TypeOK, WindowsNested, NamesNested
<1>6. QED
  BY <1>1, <1>2, <1>4, <1>5, SafeNext

\* A step of an inner loop: the outer reader rests.
LEMMA InnerStep ==
    ASSUME Safe, UNCHANGED <<data, side, r>>, pc' \in Location,
           Within(data, sub'), sub.pos <= sub'.pos, sub'.end <= r.pos,
           Within(data, item'), item'.end <= sub'.pos,
           hello' \in Hello, Len(hello'.sni) <= 1,
           \A i \in DOMAIN hello'.sni : Behind(hello'.sni[i], sub'.pos),
           \A i \in DOMAIN hello'.alpn : Behind(hello'.alpn[i], sub'.pos)
    PROVE  Safe'
<1>1. Within(data, r)
  BY ReadersWithin
<1>2. Message.pos <= r.pos /\ r.end <= Message.end
  BY DEF Safe, WindowsNested, ReadersNested
<1>3. QED
  BY <1>1, <1>2, SafeNext

\* A step that only moves between locations.
LEMMA IdleStep ==
    ASSUME Safe, UNCHANGED <<data, side, r, sub, item, hello>>, pc' \in Location
    PROVE  Safe'
<1>1. Within(data, r) /\ r.pos \in Nat /\ r.end \in Nat
  <2>1. Within(data, r)
    BY ReadersWithin
  <2>2. QED
    BY <2>1 DEF Within, Window
<1>2. hello \in Hello
  BY DEF Safe, TypeOK
<1>3. QED
  BY <1>1, <1>2, OuterStep

-----------------------------------------------------------------------------
\* The reads of the outer reader.
LEMMA HeaderSteps ==
    ASSUME Safe,
           CheckType \/ ReadVersion \/ SkipRandom \/ SkipSessionId
             \/ SkipCompressionMethods \/ ReadSelected
    PROVE  Safe'
<1>1. Within(data, r) /\ data \in Seq(Byte) /\ hello \in Hello
  BY ReadersWithin DEF Safe, TypeOK
<1>2. ASSUME NEW n \in Nat, Has(r, n)
      PROVE  /\ Within(data, Advance(r, n))
             /\ r.pos <= Advance(r, n).pos
             /\ Advance(r, n).end <= r.end
  <2>1. r.pos \in Nat /\ r.end \in Nat
    BY <1>1 DEF Within, Window
  <2>2. /\ Within(data, Advance(r, n))
        /\ Advance(r, n).pos = r.pos + n
        /\ Advance(r, n).end = r.end
    BY <1>1, <1>2, AdvanceWithin
  <2>3. QED
    BY <2>1, <2>2
<1>3. ASSUME HasVec8(data, r)
      PROVE  1 + U8(data, r) \in Nat /\ Has(r, 1 + U8(data, r))
  <2>1. U8(data, r) \in Nat
    <3>1. U8(data, r) \in Byte
      BY <1>1, <1>3, ReadU8 DEF HasVec8
    <3>2. QED
      BY <3>1, Widths
  <2>2. QED
    BY <1>1, <1>3, <2>1 DEF HasVec8, Has, Remaining, Advance, Within, Window
<1>4. CASE CheckType
  <2>1. Has(r, 1) /\ r' = Advance(r, 1) /\ pc' \in Location
    BY <1>4 DEF CheckType, Readable, Location
  <2>2. UNCHANGED <<data, side, sub, item, hello>>
    BY <1>4 DEF CheckType
  <2>3. QED
    BY <1>1, <1>2, <2>1, <2>2, OuterStep
<1>5. CASE ReadVersion
  <2>1. Has(r, 2) /\ r' = Advance(r, 2) /\ pc' \in Location
    BY <1>5 DEF ReadVersion, Readable, Location
  <2>2. /\ UNCHANGED <<data, side, sub, item>>
        /\ hello' = [hello EXCEPT !.legacy_version = U16(data, r)]
    BY <1>5 DEF ReadVersion
  <2>3. hello' \in Hello
    BY <1>1, <2>1, <2>2, ReadU16, HelloFields
  <2>4. hello'.sni = hello.sni /\ hello'.alpn = hello.alpn
    BY <1>1, <2>2 DEF Hello
  <2>5. QED
    BY <1>2, <2>1, <2>2, <2>3, <2>4, OuterStep
<1>6. CASE SkipRandom
  <2>1. Has(r, RandomLen) /\ r' = Advance(r, RandomLen) /\ pc' \in Location
    BY <1>6 DEF SkipRandom, Readable, Location
  <2>2. UNCHANGED <<data, side, sub, item, hello>>
    BY <1>6 DEF SkipRandom
  <2>3. RandomLen \in Nat
    BY DEF RandomLen
  <2>4. QED
    BY <1>1, <1>2, <2>1, <2>2, <2>3, OuterStep
<1>7. CASE SkipSessionId
  <2>1. HasVec8(data, r) /\ r' = Advance(r, 1 + U8(data, r)) /\ pc' \in Location
    BY <1>7 DEF SkipSessionId, Readable, Location
  <2>2. UNCHANGED <<data, side, sub, item, hello>>
    BY <1>7 DEF SkipSessionId
  <2>3. QED
    BY <1>1, <1>2, <1>3, <2>1, <2>2, OuterStep
<1>8. CASE SkipCompressionMethods
  <2>1. HasVec8(data, r) /\ r' = Advance(r, 1 + U8(data, r)) /\ pc' \in Location
    BY <1>8 DEF SkipCompressionMethods, Readable, Location
  <2>2. UNCHANGED <<data, side, sub, item, hello>>
    BY <1>8 DEF SkipCompressionMethods
  <2>3. QED
    BY <1>1, <1>2, <1>3, <2>1, <2>2, OuterStep
<1>9. CASE ReadSelected
  <2>1. Has(r, 3) /\ r' = Advance(r, 3) /\ pc' \in Location
    BY <1>9 DEF ReadSelected, Readable, Location
  <2>2. /\ UNCHANGED <<data, side, sub, item>>
        /\ hello' = [hello EXCEPT !.cipher = U16(data, r)]
    BY <1>9 DEF ReadSelected
  <2>3. hello' \in Hello
    <3>1. Has(r, 2)
      BY <1>1, <2>1 DEF Has, Remaining, Within, Window
    <3>2. QED
      BY <1>1, <3>1, <2>2, ReadU16, HelloFields
  <2>4. hello'.sni = hello.sni /\ hello'.alpn = hello.alpn
    BY <1>1, <2>2 DEF Hello
  <2>5. QED
    BY <1>2, <2>1, <2>2, <2>3, <2>4, OuterStep
<1>10. QED
  BY <1>4, <1>5, <1>6, <1>7, <1>8, <1>9

\* The declared body length is clamped, so the new reader is inside the old.
LEMMA TakeBodyStep ==
    ASSUME Safe, TakeBody
    PROVE  Safe'
<1> DEFINE rest == Advance(r, 3)
<1>1. Within(data, r) /\ data \in Seq(Byte) /\ hello \in Hello
  BY ReadersWithin DEF Safe, TypeOK
<1>2. Has(r, 3) /\ pc' \in Location
  BY DEF TakeBody, Readable, Location
<1>3. /\ r' = Slice(rest, Clamp(U24(data, r), rest))
      /\ UNCHANGED <<data, side, sub, item, hello>>
  BY DEF TakeBody
<1>4. Within(data, rest) /\ rest.pos = r.pos + 3 /\ rest.end = r.end
  BY <1>1, <1>2, AdvanceWithin
<1>5. U24(data, r) \in Nat
  BY <1>1, <1>2, ReadU24
<1> HIDE DEF rest
<1>6. Within(data, r') /\ r'.pos = rest.pos /\ r'.end <= rest.end
  BY <1>1, <1>3, <1>4, <1>5, ClampedSlice
<1>7. r.pos <= r'.pos /\ r'.end <= r.end
  BY <1>1, <1>4, <1>6 DEF Within, Window
<1>8. QED
  BY <1>1, <1>2, <1>3, <1>6, <1>7, OuterStep

\* Opening an inner reader on a vector [from, to] of the outer reader, which
\* moves behind it.
LEMMA OpenStep ==
    ASSUME Safe, UNCHANGED <<data, side, item, hello>>, pc' \in Location,
           Within(data, sub'), r.pos <= sub'.pos,
           Within(data, r'), r'.pos = sub'.end, r'.end = r.end
    PROVE  Safe'
<1>1. Within(data, r) /\ Within(data, sub) /\ Within(data, item)
  BY ReadersWithin
<1>2. /\ Message.pos <= r.pos /\ r.end <= Message.end
      /\ sub.pos <= sub.end /\ sub.end <= r.pos /\ item.end <= sub.pos
  BY DEF Safe, WindowsNested, ReadersNested
<1>3. /\ Message.pos \in Nat /\ Message.end \in Nat
  <2>1. Within(data, Message)
    BY StripWithin DEF Safe, TypeOK, Message
  <2>2. QED
    BY <2>1 DEF Within, Window
<1>4. /\ Message.pos <= r'.pos /\ r'.end <= Message.end
      /\ sub'.end <= r'.pos /\ item'.end <= sub'.pos
      /\ sub.pos <= sub'.pos /\ sub'.pos \in Nat
  BY <1>1, <1>2, <1>3 DEF Within, Window
<1>5. /\ \A i \in DOMAIN hello.sni : Behind(hello.sni[i], sub'.pos)
      /\ \A i \in DOMAIN hello.alpn : Behind(hello.alpn[i], sub'.pos)
  BY <1>4, NamesStay DEF Safe, WindowsNested
<1>6. hello \in Hello /\ Len(hello.sni) <= 1
  BY DEF Safe, TypeOK
<1>7. QED
  BY <1>1, <1>4, <1>5, <1>6, SafeNext

LEMMA TakeCipherSuitesStep ==
    ASSUME Safe, TakeCipherSuites
    PROVE  Safe'
<1> DEFINE rest == Advance(r, 2)
           n == U16(data, r)
<1>1. Within(data, r) /\ data \in Seq(Byte)
  BY ReadersWithin DEF Safe, TypeOK
<1>2. Has(r, 2) /\ Has(rest, n) /\ pc' \in Location
  BY DEF TakeCipherSuites, Readable, HasVec16, Location
<1>3. /\ sub' = Slice(rest, n) /\ r' = Advance(r, 2 + n)
      /\ UNCHANGED <<data, side, item, hello>>
  BY DEF TakeCipherSuites
<1>4. Within(data, rest) /\ rest.pos = r.pos + 2 /\ rest.end = r.end
  BY <1>1, <1>2, AdvanceWithin
<1>5. n \in Nat
  <2>1. n \in Word
    BY <1>1, <1>2, ReadU16
  <2>2. QED
    BY <2>1, Widths
<1> HIDE DEF rest, n
<1>6. /\ Within(data, sub') /\ sub'.pos = rest.pos /\ sub'.end = rest.pos + n
  BY <1>1, <1>2, <1>3, <1>4, <1>5, SliceWithin
<1>7. Has(r, 2 + n) /\ r.pos \in Nat
  BY <1>1, <1>2, <1>4, <1>5 DEF Has, Remaining, Within, Window
<1>8. Within(data, r') /\ r'.pos = r.pos + (2 + n) /\ r'.end = r.end
  BY <1>1, <1>3, <1>5, <1>7, AdvanceWithin
<1>9. r.pos <= sub'.pos /\ r'.pos = sub'.end
  BY <1>4, <1>5, <1>6, <1>7, <1>8
<1>10. QED
  BY <1>2, <1>3, <1>6, <1>8, <1>9, OpenStep

LEMMA OpenExtensionsStep ==
    ASSUME Safe, OpenExtensions
    PROVE  Safe'
<1>1. Within(data, r) /\ data \in Seq(Byte)
  BY ReadersWithin DEF Safe, TypeOK
<1>2. pc' \in Location
  BY DEF OpenExtensions, Location
<1>3. /\ sub' = Clamped16(data, r) /\ r' = [r EXCEPT !.pos = sub'.end]
      /\ UNCHANGED <<data, side, item, hello>>
  BY DEF OpenExtensions
<1>4. Within(data, sub') /\ r.pos <= sub'.pos /\ sub'.end <= r.end
  BY <1>1, <1>3, Clamped16Within
<1>5. Within(data, r') /\ r'.pos = sub'.end /\ r'.end = r.end
  BY <1>1, <1>3, <1>4 DEF Within, Window
<1>6. QED
  BY <1>2, <1>3, <1>4, <1>5, OpenStep

LEMMA PushCipherStep ==
    ASSUME Safe, PushCipher
    PROVE  Safe'
<1>1. /\ Within(data, sub) /\ Within(data, item)
      /\ data \in Seq(Byte) /\ hello \in Hello /\ pc' \in Location
  BY ReadersWithin DEF Safe, TypeOK, PushCipher
<1>2. /\ Has(sub, 2) /\ sub' = Advance(sub, 2)
      /\ hello' = [hello EXCEPT !.ciphers = Append(@, U16(data, sub))]
      /\ UNCHANGED <<data, side, r, item>>
  BY DEF PushCipher
<1>3. hello' \in Hello
  <2>1. U16(data, sub) \in Word
    BY <1>1, <1>2, ReadU16
  <2>2. QED
    BY <1>1, <1>2, <2>1, HelloFields
<1>4. hello'.sni = hello.sni /\ hello'.alpn = hello.alpn
  BY <1>1, <1>2 DEF Hello
<1>5. Within(data, sub') /\ sub'.pos = sub.pos + 2 /\ sub'.end = sub.end
  BY <1>1, <1>2, AdvanceWithin
<1>6. /\ sub.pos <= sub'.pos /\ sub'.end <= r.pos
      /\ item'.end <= sub'.pos /\ sub'.pos \in Nat
  BY <1>1, <1>2, <1>5
  DEF Safe, WindowsNested, ReadersNested, Within, Window
<1>7. /\ \A i \in DOMAIN hello.sni : Behind(hello.sni[i], sub'.pos)
      /\ \A i \in DOMAIN hello.alpn : Behind(hello.alpn[i], sub'.pos)
      /\ Len(hello.sni) <= 1
  BY <1>6, NamesStay DEF Safe, TypeOK, WindowsNested
<1>8. QED
  BY <1>1, <1>2, <1>3, <1>4, <1>5, <1>6, <1>7, InnerStep

-----------------------------------------------------------------------------
\* Decoding an extension body gives a well-typed struct; it forgets names but
\* finds none.
LEMMA DecodeType ==
    ASSUME data \in Seq(Byte), NEW h \in Hello, NEW etype,
           NEW body, Within(data, body)
    PROVE  /\ Decode(h, etype, body) \in Hello
           /\ Decode(h, etype, body).sni \in {h.sni, <<>>}
           /\ Decode(h, etype, body).alpn \in {h.alpn, <<>>}
<1>1. /\ U16s(data, Clamped16(data, body)) \in Seq(Word)
      /\ U16s(data, Clamped8(data, body)) \in Seq(Word)
      /\ Bytes(data, Clamped8(data, body)) \in Seq(Byte)
  <2>1. Within(data, Clamped16(data, body)) /\ Within(data, Clamped8(data, body))
    BY Clamped16Within, Clamped8Within
  <2>2. QED
    BY <2>1, U16sType, BytesType
<1>2. <<>> \in Seq(Window)
  OBVIOUS
<1>3. CASE etype = SERVER_NAME
  <2>1. Decode(h, etype, body) = [h EXCEPT !.sni = <<>>]
    BY <1>3 DEF Decode, SERVER_NAME, SUPPORTED_GROUPS, EC_POINT_FORMATS,
     SIGNATURE_ALGORITHMS, ALPN, SUPPORTED_VERSIONS
  <2>2. Decode(h, etype, body) \in Hello
    BY <1>1, <1>2, <2>1, HelloFields
  <2>3. QED
    BY <2>1, <2>2 DEF Hello
<1>4. CASE etype = SUPPORTED_GROUPS
  <2>1. Decode(h, etype, body) = [h EXCEPT !.curves = U16s(data, Clamped16(data, body))]
    BY <1>4 DEF Decode, SERVER_NAME, SUPPORTED_GROUPS, EC_POINT_FORMATS,
     SIGNATURE_ALGORITHMS, ALPN, SUPPORTED_VERSIONS
  <2>2. Decode(h, etype, body) \in Hello
    BY <1>1, <1>2, <2>1, HelloFields
  <2>3. QED
    BY <2>1, <2>2 DEF Hello
<1>5. CASE etype = EC_POINT_FORMATS
  <2>1. Decode(h, etype, body) = [h EXCEPT !.point_formats = Bytes(data, Clamped8(data, body))]
    BY <1>5 DEF Decode, SERVER_NAME, SUPPORTED_GROUPS, EC_POINT_FORMATS,
     SIGNATURE_ALGORITHMS, ALPN, SUPPORTED_VERSIONS
  <2>2. Decode(h, etype, body) \in Hello
    BY <1>1, <1>2, <2>1, HelloFields
  <2>3. QED
    BY <2>1, <2>2 DEF Hello
<1>6. CASE etype = SIGNATURE_ALGORITHMS
  <2>1. Decode(h, etype, body) = [h EXCEPT !.sig_algs = U16s(data, Clamped16(data, body))]
    BY <1>6 DEF Decode, SERVER_NAME, SUPPORTED_GROUPS, EC_POINT_FORMATS,
     SIGNATURE_ALGORITHMS, ALPN, SUPPORTED_VERSIONS
  <2>2. Decode(h, etype, body) \in Hello
    BY <1>1, <1>2, <2>1, HelloFields
  <2>3. QED
    BY <2>1, <2>2 DEF Hello
<1>7. CASE etype = SUPPORTED_VERSIONS
  <2>1. Decode(h, etype, body) = [h EXCEPT !.supported_versions = U16s(data, Clamped8(data, body))]
    BY <1>7 DEF Decode, SERVER_NAME, SUPPORTED_GROUPS, EC_POINT_FORMATS,
     SIGNATURE_ALGORITHMS, ALPN, SUPPORTED_VERSIONS
  <2>2. Decode(h, etype, body) \in Hello
    BY <1>1, <1>2, <2>1, HelloFields
  <2>3. QED
    BY <2>1, <2>2 DEF Hello
<1>8. CASE etype = ALPN
  <2>1. Decode(h, etype, body) = [h EXCEPT !.alpn = <<>>]
    BY <1>8 DEF Decode, SERVER_NAME, SUPPORTED_GROUPS, EC_POINT_FORMATS,
     SIGNATURE_ALGORITHMS, ALPN, SUPPORTED_VERSIONS
  <2>2. Decode(h, etype, body) \in Hello
    BY <1>1, <1>2, <2>1, HelloFields
  <2>3. QED
    BY <2>1, <2>2 DEF Hello
<1>9. CASE etype \notin {SERVER_NAME, SUPPORTED_GROUPS, EC_POINT_FORMATS,
     SIGNATURE_ALGORITHMS, ALPN, SUPPORTED_VERSIONS}
  BY <1>9 DEF Decode
<1>10. QED
  BY <1>3, <1>4, <1>5, <1>6, <1>7, <1>8, <1>9

LEMMA NextExtensionStep ==
    ASSUME Safe, NextExtension
    PROVE  Safe'
<1> DEFINE etype == U16(data, sub)
           body == ExtensionBody
           h == Record(hello, etype)
<1>1. /\ Within(data, sub) /\ Within(data, item) /\ Within(data, r)
      /\ data \in Seq(Byte) /\ hello \in Hello
  BY ReadersWithin DEF Safe, TypeOK
<1>2. /\ Has(sub, 4) /\ sub' = [sub EXCEPT !.pos = body.end]
      /\ hello' \in {Decode(h, etype, body), h}
      /\ item' \in {item, Clamped16(data, body)}
      /\ pc' = AfterExtension(etype)
      /\ UNCHANGED <<data, side, r>>
  BY DEF NextExtension
<1>3. pc' \in Location
  BY <1>2 DEF AfterExtension, Location
<1>4. etype \in Word
  <2>1. Has(sub, 2)
    BY <1>1, <1>2 DEF Has, Remaining, Within, Window
  <2>2. QED
    BY <1>1, <2>1, ReadU16
<1>5. Within(data, body) /\ sub.pos <= body.pos /\ body.end <= sub.end
  <2> DEFINE len == Advance(sub, 2)
  <2>1. Has(sub, 2)
    BY <1>1, <1>2 DEF Has, Remaining, Within, Window
  <2>2. Within(data, len) /\ len.pos = sub.pos + 2 /\ len.end = sub.end
    BY <1>1, <2>1, AdvanceWithin
  <2> HIDE DEF len
  <2>3. /\ Within(data, Clamped16(data, len))
        /\ len.pos <= Clamped16(data, len).pos
        /\ Clamped16(data, len).end <= len.end
    BY <1>1, <2>2, Clamped16Within
  <2>4. body = Clamped16(data, len)
    BY DEF ExtensionBody, len
  <2> HIDE DEF body
  <2>5. QED
    BY <1>1, <2>2, <2>3, <2>4 DEF Within, Window
<1> HIDE DEF body, etype
<1>6. h \in Hello /\ h.sni = hello.sni /\ h.alpn = hello.alpn
  BY <1>1, <1>4, HelloFields DEF Record, Hello
<1> HIDE DEF h
<1>7. /\ hello' \in Hello
      /\ hello'.sni \in {hello.sni, <<>>}
      /\ hello'.alpn \in {hello.alpn, <<>>}
  BY <1>1, <1>2, <1>5, <1>6, DecodeType
<1>8. /\ sub' \in Window /\ sub'.pos = body.end /\ sub'.end = sub.end
  BY <1>1, <1>2, <1>5 DEF Within, Window
<1>9. Within(data, sub') /\ sub.pos <= sub'.pos /\ sub'.pos \in Nat
  BY <1>1, <1>5, <1>8 DEF Within, Window
<1>10. sub'.end <= r.pos
  BY <1>8 DEF Safe, WindowsNested, ReadersNested
<1>11. Within(data, item') /\ item'.end <= sub'.pos
  <2>1. CASE item' = item
    <3>1. item.end <= sub.pos
      BY DEF Safe, WindowsNested, ReadersNested
    <3>2. QED
      BY <1>1, <1>9, <2>1, <3>1 DEF Within, Window
  <2>2. CASE item' = Clamped16(data, body)
    BY <1>1, <1>5, <1>8, <2>2, Clamped16Within
  <2>3. QED
    BY <1>2, <2>1, <2>2
<1>12. /\ \A i \in DOMAIN hello.sni : Behind(hello.sni[i], sub'.pos)
       /\ \A i \in DOMAIN hello.alpn : Behind(hello.alpn[i], sub'.pos)
       /\ Len(hello.sni) <= 1
  BY <1>9, NamesStay DEF Safe, TypeOK, WindowsNested
<1>13. /\ \A i \in DOMAIN hello'.sni : Behind(hello'.sni[i], sub'.pos)
       /\ \A i \in DOMAIN hello'.alpn : Behind(hello'.alpn[i], sub'.pos)
       /\ Len(hello'.sni) <= 1
  <2>1. DOMAIN <<>> = {} /\ Len(<<>>) = 0
    OBVIOUS
  <2>2. QED
    BY <1>7, <1>12, <2>1
<1>14. QED
  BY <1>2, <1>3, <1>7, <1>9, <1>10, <1>11, <1>13, InnerStep

\* A step inside a name list: sub rests, and the fields keep what is behind it.
LEMMA ListStep ==
    ASSUME Safe, UNCHANGED <<data, side, r, sub>>, pc' \in Location,
           Within(data, item'), item'.end <= item.end,
           hello' \in Hello, Len(hello'.sni) <= 1,
           \A i \in DOMAIN hello'.sni : Behind(hello'.sni[i], sub.pos),
           \A i \in DOMAIN hello'.alpn : Behind(hello'.alpn[i], sub.pos)
    PROVE  Safe'
<1>1. Within(data, sub) /\ Within(data, item)
  BY ReadersWithin
<1>2. sub.end <= r.pos /\ item.end <= sub.pos
  BY DEF Safe, WindowsNested, ReadersNested
<1>3. sub.pos <= sub'.pos /\ item'.end <= sub'.pos
  BY <1>1, <1>2 DEF Within, Window
<1>4. QED
  BY <1>1, <1>2, <1>3, InnerStep

LEMMA NextNameStep ==
    ASSUME Safe, NextName
    PROVE  Safe'
<1> DEFINE len == Advance(item, 1)
           rest == Advance(item, 3)
           n == U16(data, len)
           name == Slice(rest, n)
<1>1. /\ Within(data, item) /\ data \in Seq(Byte)
      /\ hello \in Hello /\ Len(hello.sni) <= 1
  BY ReadersWithin DEF Safe, TypeOK
<1>2. /\ Has(item, 1) /\ HasVec16(data, len) /\ UNCHANGED <<data, side, r, sub>>
      /\ \/ /\ hello' = [hello EXCEPT !.sni = <<name>>]
            /\ pc' = "extension" /\ item' = [item EXCEPT !.pos = name.end]
         \/ item' = [item EXCEPT !.pos = name.end] /\ UNCHANGED <<pc, hello>>
  BY DEF NextName
<1>3. Within(data, len) /\ len.pos = item.pos + 1 /\ len.end = item.end
  BY <1>1, <1>2, AdvanceWithin
<1>4. n \in Nat
  <2> HIDE DEF len
  <2>1. U16(data, len) \in Word
    BY <1>1, <1>2, <1>3, ReadU16 DEF HasVec16
  <2>2. QED
    BY <2>1, Widths
<1>5. Has(item, 3) /\ Has(Advance(len, 2), n)
  BY <1>1, <1>2, <1>3 DEF HasVec16, Has, Remaining, Within, Window
<1>6. Within(data, rest) /\ rest.pos = item.pos + 3 /\ rest.end = item.end
  BY <1>1, <1>5, AdvanceWithin
<1>7. Has(rest, n)
  <2>1. Has(len, 2)
    BY <1>2 DEF HasVec16
  <2>2. /\ Within(data, Advance(len, 2)) /\ Advance(len, 2).pos = len.pos + 2
        /\ Advance(len, 2).end = len.end
    BY <1>1, <1>3, <2>1, AdvanceWithin
  <2> HIDE DEF len, rest, n
  <2>3. QED
    BY <1>1, <1>3, <1>5, <1>6, <2>2 DEF Has, Remaining, Within, Window
<1> HIDE DEF len, rest, n
<1>8. Within(data, name) /\ name.end <= item.end
  BY <1>1, <1>4, <1>6, <1>7, SliceWithin
<1> HIDE DEF name
<1>9. Within(data, item') /\ item'.end <= item.end
  BY <1>1, <1>2, <1>8 DEF Within, Window
<1>10. Behind(name, sub.pos)
  <2>1. item.end <= sub.pos /\ sub.pos \in Nat
    BY DEF Safe, TypeOK, WindowsNested, ReadersNested, Window
  <2>2. QED
    BY <1>1, <1>8, <2>1 DEF Behind, Within, Window
<1>11. /\ \A i \in DOMAIN hello.sni : Behind(hello.sni[i], sub.pos)
       /\ \A i \in DOMAIN hello.alpn : Behind(hello.alpn[i], sub.pos)
  BY DEF Safe, WindowsNested, NamesNested
<1>12. CASE hello' = hello /\ pc' = pc
  <2>1. pc' \in Location
    BY <1>12 DEF Safe, TypeOK
  <2>2. QED
    BY <1>1, <1>2, <1>9, <1>11, <1>12, <2>1, ListStep
<1>13. CASE hello' = [hello EXCEPT !.sni = <<name>>] /\ pc' = "extension"
  <2>1. <<name>> \in Seq(Window)
    BY <1>8 DEF Within
  <2>2. /\ hello' \in Hello /\ hello'.sni = <<name>> /\ hello'.alpn = hello.alpn
    BY <1>1, <1>13, <2>1, HelloFields DEF Hello
  <2>3. /\ Len(hello'.sni) <= 1
        /\ \A i \in DOMAIN hello'.sni : Behind(hello'.sni[i], sub.pos)
    BY <1>10, <2>2
  <2>4. pc' \in Location
    BY <1>13 DEF Location
  <2>5. QED
    BY <1>2, <1>9, <1>11, <2>2, <2>3, <2>4, ListStep
<1>14. QED
  BY <1>2, <1>12, <1>13

LEMMA NextProtocolStep ==
    ASSUME Safe, NextProtocol
    PROVE  Safe'
<1> DEFINE rest == Advance(item, 1)
           n == U8(data, item)
           name == Slice(rest, n)
<1>1. /\ Within(data, item) /\ data \in Seq(Byte)
      /\ hello \in Hello /\ Len(hello.sni) <= 1 /\ pc \in Location
  BY ReadersWithin DEF Safe, TypeOK
<1>2. /\ Has(item, 1) /\ Has(rest, n)
      /\ hello' = [hello EXCEPT !.alpn = Append(@, name)]
      /\ item' = [item EXCEPT !.pos = name.end]
      /\ UNCHANGED <<data, side, pc, r, sub>>
  BY DEF NextProtocol, HasVec8
<1>3. n \in Nat
  <2>1. n \in Byte
    BY <1>1, <1>2, ReadU8
  <2>2. QED
    BY <2>1, Widths
<1>4. Within(data, rest) /\ rest.end = item.end
  BY <1>1, <1>2, AdvanceWithin
<1> HIDE DEF rest, n
<1>5. Within(data, name) /\ name.end <= item.end
  BY <1>1, <1>2, <1>3, <1>4, SliceWithin
<1> HIDE DEF name
<1>6. Within(data, item') /\ item'.end <= item.end
  BY <1>1, <1>2, <1>5 DEF Within, Window
<1>7. Behind(name, sub.pos)
  <2>1. item.end <= sub.pos /\ sub.pos \in Nat
    BY DEF Safe, TypeOK, WindowsNested, ReadersNested, Window
  <2>2. QED
    BY <1>1, <1>5, <2>1 DEF Behind, Within, Window
<1>8. hello.alpn \in Seq(Window) /\ name \in Window
  BY <1>1, <1>5 DEF Hello, Within
<1>9. /\ hello' \in Hello /\ hello'.sni = hello.sni
      /\ hello'.alpn = Append(hello.alpn, name)
  <2>1. Append(hello.alpn, name) \in Seq(Window)
    BY <1>8
  <2>2. QED
    BY <1>1, <1>2, <2>1, HelloFields DEF Hello
<1>10. /\ \A i \in DOMAIN hello.sni : Behind(hello.sni[i], sub.pos)
       /\ \A i \in DOMAIN hello.alpn : Behind(hello.alpn[i], sub.pos)
  BY DEF Safe, WindowsNested, NamesNested
<1>11. \A i \in DOMAIN hello'.alpn : Behind(hello'.alpn[i], sub.pos)
  BY <1>7, <1>8, <1>9, <1>10
<1>12. QED
  BY <1>1, <1>2, <1>6, <1>9, <1>10, <1>11, ListStep

LEMMA IdleSteps ==
    ASSUME Safe,
           Reject \/ EndCiphers \/ NoExtensions \/ EndExtensions \/ EndNames
             \/ EndProtocols \/ Done \/ UNCHANGED vars
    PROVE  Safe'
<1>1. UNCHANGED <<data, side, r, sub, item, hello>>
  BY DEF Reject, EndCiphers, NoExtensions, EndExtensions, EndNames,
         EndProtocols, Done, vars
<1>2. pc' \in Location
  BY DEF Reject, EndCiphers, NoExtensions, EndExtensions, EndNames,
         EndProtocols, Done, vars, Location, Returned, Safe, TypeOK
<1>3. QED
  BY <1>1, <1>2, IdleStep

LEMMA NextSafe == Safe /\ [Next]_vars => Safe'
<1> SUFFICES ASSUME Safe, [Next]_vars PROVE Safe'
  OBVIOUS
<1>1. CASE CheckType \/ ReadVersion \/ SkipRandom \/ SkipSessionId
             \/ SkipCompressionMethods \/ ReadSelected
  BY <1>1, HeaderSteps
<1>2. CASE TakeBody
  BY <1>2, TakeBodyStep
<1>3. CASE TakeCipherSuites
  BY <1>3, TakeCipherSuitesStep
<1>4. CASE OpenExtensions
  BY <1>4, OpenExtensionsStep
<1>5. CASE PushCipher
  BY <1>5, PushCipherStep
<1>6. CASE NextExtension
  BY <1>6, NextExtensionStep
<1>7. CASE NextName
  BY <1>7, NextNameStep
<1>8. CASE NextProtocol
  BY <1>8, NextProtocolStep
<1>9. CASE Reject \/ EndCiphers \/ NoExtensions \/ EndExtensions \/ EndNames
             \/ EndProtocols \/ Done \/ UNCHANGED vars
  BY <1>9, IdleSteps
<1>10. QED
  BY <1>1, <1>2, <1>3, <1>4, <1>5, <1>6, <1>7, <1>8, <1>9 DEF Next, Step

THEOREM SafeAlways == Spec => []Safe
<1>1. Init => Safe
  BY InitSafe
<1>2. Safe /\ [Next]_vars => Safe'
  BY NextSafe
<1>3. QED
  BY <1>1, <1>2, PTL DEF Spec

\* The decoded struct and the readers have their types, for every capture.
THEOREM TypeCorrect == Spec => []TypeOK
<1>1. Safe => TypeOK
  BY DEF Safe
<1>2. QED
  BY <1>1, SafeAlways, PTL

\* parser.rs:158 for every capture: no declared length moves a read or a name
\* out of the structure that encloses it.
THEOREM Nesting == Spec => []WindowsNested
<1>1. Safe => WindowsNested
  BY DEF Safe
<1>2. QED
  BY <1>1, SafeAlways, PTL

-----------------------------------------------------------------------------
\* What the struct may hold: no more than the bytes passed, no field without its
\* extension code, and all of the hello that the guard accepts; and the bound on
\* the steps left.

\* A name list is paid for in advance: the part of it that is left is taken off.
Owed == IF pc \in {"names", "protocols"} THEN item.end - item.pos ELSE 0

Paid == Size(hello) + Owed <= sub.pos

\* The names come after the code of their extension.
ListsListed ==
    /\ pc = "names" => Listed(SERVER_NAME)
    /\ pc = "protocols" => Listed(ALPN)

\* What the guard has read, and where the cursor is, one read after the other.
Declared == U24(data, Advance(Message, 1))

Admitted == IsTlsHandshake(data) /\ U8(data, Message) = HandshakeType[side]

Reached ==
    /\ pc = "type" => r = Message
    /\ pc = "length" => r.pos = Message.pos + 1 /\ r.end = Message.end
    /\ pc = "version" => r.pos = Message.pos + 4
    /\ pc = "random" => r.pos = Message.pos + 6
    /\ pc \notin {"type", "length"} => r.end = Message.pos + 4 + Declared
    /\ pc \notin {"type", "length", "version", "random"} =>
          r.pos >= Message.pos + 4 + 2 + RandomLen

Guarded == Admitted => Reached

-----------------------------------------------------------------------------
\* How far the readers move.  A read of the header passes at least a byte.
HeaderRead == CheckType \/ ReadVersion \/ SkipRandom \/ SkipSessionId
                \/ SkipCompressionMethods \/ ReadSelected

VectorsOf(h) == <<h.ciphers, h.extensions, h.curves, h.point_formats, h.sig_algs,
                h.supported_versions, h.sni, h.alpn>>

LEMMA HeaderMoves ==
    ASSUME Safe, HeaderRead
    PROVE  /\ UNCHANGED <<data, side, sub, item>> /\ VectorsOf(hello') = VectorsOf(hello)
           /\ r' \in Window /\ r'.end = r.end /\ r.pos < r'.pos /\ r'.pos <= r'.end
           /\ pc \in {"type", "version", "random", "session", "compression", "selected"}
           /\ pc' \in {"length", "random", "session", "suites", "selected", "extensions"}
<1> USE DEF HeaderRead
<1>1. Within(data, r) /\ data \in Seq(Byte) /\ hello \in Hello
  BY ReadersWithin DEF Safe, TypeOK
<1>2. \E n \in Nat \ {0} : Has(r, n) /\ r' = Advance(r, n)
  <2>1. CASE CheckType
    <3>1. Has(r, 1) /\ r' = Advance(r, 1)
      BY <2>1 DEF CheckType, Readable
    <3> QED
      BY <3>1
  <2>2. CASE ReadVersion
    <3>1. Has(r, 2) /\ r' = Advance(r, 2)
      BY <2>2 DEF ReadVersion, Readable
    <3> QED
      BY <3>1
  <2>3. CASE SkipRandom
    <3>1. Has(r, 32) /\ r' = Advance(r, 32)
      BY <2>3 DEF SkipRandom, Readable, RandomLen
    <3> QED
      BY <3>1
  <2>4. CASE ReadSelected
    <3>1. Has(r, 3) /\ r' = Advance(r, 3)
      BY <2>4 DEF ReadSelected, Readable
    <3> QED
      BY <3>1
  <2>5. CASE SkipSessionId \/ SkipCompressionMethods
    <3>1. HasVec8(data, r) /\ r' = Advance(r, 1 + U8(data, r))
      BY <2>5 DEF SkipSessionId, SkipCompressionMethods, Readable
    <3>2. U8(data, r) \in Nat
      BY <1>1, <3>1, ReadU8, Widths DEF HasVec8
    <3>3. Has(r, 1 + U8(data, r))
      BY <1>1, <3>1, <3>2 DEF HasVec8, Has, Remaining, Advance, Within, Window
    <3> QED
      BY <3>1, <3>2, <3>3
  <2> QED
    BY <2>1, <2>2, <2>3, <2>4, <2>5
<1>3. PICK n \in Nat \ {0} : Has(r, n) /\ r' = Advance(r, n)
  BY <1>2
<1>4. Within(data, r') /\ r'.pos = r.pos + n /\ r'.end = r.end
  BY <1>1, <1>3, AdvanceWithin
<1>5. UNCHANGED <<data, side, sub, item>> /\ VectorsOf(hello') = VectorsOf(hello)
  BY <1>1 DEF CheckType, ReadVersion, SkipRandom, SkipSessionId, SkipCompressionMethods,
              ReadSelected, VectorsOf, Hello
<1>6. /\ pc \in {"type", "version", "random", "session", "compression", "selected"}
      /\ pc' \in {"length", "random", "session", "suites", "selected", "extensions"}
  BY DEF CheckType, ReadVersion, SkipRandom, SkipSessionId, SkipCompressionMethods,
         ReadSelected
<1> QED
  BY <1>1, <1>4, <1>5, <1>6 DEF Within, Window

LEMMA TakeBodyMoves ==
    ASSUME Safe, TakeBody
    PROVE  /\ r' \in Window /\ r'.pos = r.pos + 3 /\ r'.end <= r.end /\ r'.pos <= r'.end
           /\ Has(Advance(r, 3), U24(data, r)) => r'.end = r.pos + 3 + U24(data, r)
<1> DEFINE rest == Advance(r, 3)
<1>1. Within(data, r) /\ data \in Seq(Byte) /\ Has(r, 3)
  BY ReadersWithin DEF Safe, TypeOK, TakeBody, Readable
<1>2. r' = Slice(rest, Clamp(U24(data, r), rest))
  BY DEF TakeBody
<1>3. Within(data, rest) /\ rest.pos = r.pos + 3 /\ rest.end = r.end
  BY <1>1, AdvanceWithin
<1>4. U24(data, r) \in Nat
  BY <1>1, ReadU24
<1> HIDE DEF rest
<1>5. /\ Within(data, r') /\ r'.pos = rest.pos /\ r'.end <= rest.end
      /\ Has(rest, U24(data, r)) => r'.end = rest.pos + U24(data, r)
  BY <1>1, <1>2, <1>3, <1>4, ClampedSlice
<1> QED
  BY <1>3, <1>5 DEF rest, Within

\* A list is opened where its length ends, and the outer reader moves behind it.
LEMMA OpenMoves ==
    ASSUME Safe, TakeCipherSuites \/ OpenExtensions
    PROVE  /\ r' \in Window /\ r'.end = r.end /\ r'.pos = sub'.end /\ r'.pos <= r'.end
           /\ sub' \in Window /\ sub'.pos = r.pos + 2 /\ sub'.pos <= sub'.end
<1>1. Within(data, r) /\ data \in Seq(Byte)
  BY ReadersWithin DEF Safe, TypeOK
<1>2. CASE TakeCipherSuites
  <2> DEFINE rest == Advance(r, 2)
             n == U16(data, r)
  <2>1. /\ Has(r, 2) /\ Has(rest, n)
        /\ sub' = Slice(rest, n) /\ r' = Advance(r, 2 + n)
    BY <1>2 DEF TakeCipherSuites, Readable, HasVec16
  <2>2. Within(data, rest) /\ rest.pos = r.pos + 2 /\ rest.end = r.end
    BY <1>1, <2>1, AdvanceWithin
  <2>3. n \in Nat
    BY <1>1, <2>1, ReadU16, Widths
  <2> HIDE DEF rest, n
  <2>4. Within(data, sub') /\ sub'.pos = rest.pos /\ sub'.end = rest.pos + n
    BY <1>1, <2>1, <2>2, <2>3, SliceWithin
  <2>5. Has(r, 2 + n) /\ r.pos \in Nat
    BY <1>1, <2>1, <2>2, <2>3 DEF Has, Remaining, Within, Window
  <2>6. Within(data, r') /\ r'.pos = r.pos + (2 + n) /\ r'.end = r.end
    BY <1>1, <2>1, <2>3, <2>5, AdvanceWithin
  <2> QED
    BY <2>2, <2>3, <2>4, <2>5, <2>6 DEF Within
<1>3. CASE OpenExtensions
  <2>1. Has(r, 2) /\ sub' = Clamped16(data, r) /\ r' = [r EXCEPT !.pos = sub'.end]
    BY <1>3 DEF OpenExtensions
  <2>2. Within(data, sub') /\ sub'.pos = r.pos + 2 /\ sub'.end <= r.end
    BY <1>1, <2>1, Clamped16Within
  <2> QED
    BY <1>1, <2>1, <2>2 DEF Within, Window
<1> QED
  BY <1>2, <1>3

LEMMA PushMoves ==
    ASSUME Safe, PushCipher
    PROVE  sub' \in Window /\ sub'.pos = sub.pos + 2 /\ sub'.end = sub.end /\ sub'.pos <= sub'.end
<1>1. Within(data, sub) /\ data \in Seq(Byte) /\ Has(sub, 2) /\ sub' = Advance(sub, 2)
  BY ReadersWithin DEF Safe, TypeOK, PushCipher
<1> QED
  BY <1>1, AdvanceWithin DEF Within

\* An extension has four bytes before its body, and a name list lies in it.
LEMMA ExtensionMoves ==
    ASSUME Safe, NextExtension
    PROVE  /\ U16(data, sub) \in Word
           /\ Within(data, ExtensionBody)
           /\ ExtensionBody.pos = sub.pos + 4 /\ ExtensionBody.end <= sub.end
           /\ sub' \in Window /\ sub'.pos = ExtensionBody.end /\ sub'.end = sub.end
           /\ pc' # "extension" =>
                 /\ item' \in Window /\ item'.pos <= item'.end
                 /\ ExtensionBody.pos <= item'.pos /\ item'.end <= ExtensionBody.end
<1> DEFINE body == ExtensionBody
           len == Advance(sub, 2)
<1>1. Within(data, sub) /\ data \in Seq(Byte)
  BY ReadersWithin DEF Safe, TypeOK
<1>2. /\ Has(sub, 4) /\ sub' = [sub EXCEPT !.pos = body.end]
      /\ pc' # "extension" => item' = Clamped16(data, body)
  BY DEF NextExtension
<1>3. Has(sub, 2)
  BY <1>1, <1>2 DEF Has, Remaining, Within, Window
<1>4. Within(data, len) /\ len.pos = sub.pos + 2 /\ len.end = sub.end
  BY <1>1, <1>3, AdvanceWithin
<1>5. body = Clamped16(data, len)
  BY DEF ExtensionBody
<1> HIDE DEF len, body
<1>6. Has(len, 2)
  BY <1>1, <1>2, <1>4 DEF Has, Remaining, Within, Window
<1>7. Within(data, body) /\ body.pos = len.pos + 2 /\ body.end <= len.end
  BY <1>1, <1>4, <1>5, <1>6, Clamped16Within
<1>8. body.pos = sub.pos + 4 /\ body.end <= sub.end
  BY <1>1, <1>4, <1>7 DEF Within, Window
<1>9. sub' \in Window /\ sub'.pos = body.end /\ sub'.end = sub.end
  BY <1>1, <1>2, <1>7 DEF Within, Window
<1>10. ASSUME pc' # "extension"
       PROVE  /\ item' \in Window /\ item'.pos <= item'.end
              /\ body.pos <= item'.pos /\ item'.end <= body.end
  BY <1>1, <1>2, <1>7, <1>10, Clamped16Within DEF Within
<1>11. U16(data, sub) \in Word
  BY <1>1, <1>3, ReadU16
<1> QED
  BY <1>7, <1>8, <1>9, <1>10, <1>11 DEF body

LEMMA NameMoves ==
    ASSUME Safe, NextName
    PROVE  /\ item' \in Window /\ item'.end = item.end
           /\ item.pos + 3 <= item'.pos /\ item'.pos <= item'.end
<1> DEFINE len == Advance(item, 1)
           n == U16(data, len)
<1>1. Within(data, item) /\ data \in Seq(Byte)
  BY ReadersWithin DEF Safe, TypeOK
<1>2. /\ Has(item, 1) /\ Has(len, 2) /\ Has(Advance(len, 2), n)
      /\ item' = [item EXCEPT !.pos = Slice(Advance(item, 3), n).end]
  BY DEF NextName, HasVec16
<1>3. Within(data, len) /\ len.pos = item.pos + 1 /\ len.end = item.end
  BY <1>1, <1>2, AdvanceWithin
<1>4. n \in Nat
  <2> HIDE DEF len
  <2> QED
    BY <1>1, <1>2, <1>3, ReadU16, Widths
<1>5. /\ Within(data, Advance(len, 2)) /\ Advance(len, 2).pos = item.pos + 3
      /\ Advance(len, 2).end = item.end
  <2> HIDE DEF len
  <2>1. /\ Within(data, Advance(len, 2)) /\ Advance(len, 2).pos = len.pos + 2
        /\ Advance(len, 2).end = len.end
    BY <1>1, <1>2, <1>3, AdvanceWithin
  <2> QED
    BY <1>1, <1>3, <2>1 DEF Within, Window
<1> HIDE DEF n, len
<1>6. item.pos + 3 + n <= item.end
  BY <1>1, <1>2, <1>4, <1>5 DEF Has, Remaining, Within, Window
<1>7. Slice(Advance(item, 3), n).end = item.pos + 3 + n
  BY <1>1 DEF Slice, Advance, Within, Window
<1> QED
  BY <1>1, <1>2, <1>4, <1>6, <1>7 DEF Within, Window

LEMMA ProtocolMoves ==
    ASSUME Safe, NextProtocol
    PROVE  /\ item' \in Window /\ item'.end = item.end
           /\ item.pos + 1 <= item'.pos /\ item'.pos <= item'.end
<1> DEFINE rest == Advance(item, 1)
           n == U8(data, item)
<1>1. Within(data, item) /\ data \in Seq(Byte)
  BY ReadersWithin DEF Safe, TypeOK
<1>2. /\ Has(item, 1) /\ Has(rest, n)
      /\ item' = [item EXCEPT !.pos = Slice(rest, n).end]
  BY DEF NextProtocol, HasVec8
<1>3. n \in Nat
  BY <1>1, <1>2, ReadU8, Widths
<1>4. Within(data, rest) /\ rest.pos = item.pos + 1 /\ rest.end = item.end
  BY <1>1, <1>2, AdvanceWithin
<1> HIDE DEF rest, n
<1>5. Within(data, Slice(rest, n)) /\ Slice(rest, n).end = rest.pos + n /\ Slice(rest, n).end <= rest.end
  BY <1>1, <1>2, <1>3, <1>4, SliceWithin
<1> QED
  BY <1>1, <1>2, <1>3, <1>4, <1>5 DEF Within, Window

\* The steps that only change the location, with the locations they join.
Idle == Reject \/ EndCiphers \/ NoExtensions \/ EndExtensions \/ EndNames \/ EndProtocols

LEMMA IdleMoves ==
    ASSUME Safe, Idle
    PROVE  /\ UNCHANGED <<data, side, r, sub, item, hello>>
           /\ \/ pc \notin Returned \union {"cipher", "names", "protocols"} /\ pc' \in Returned
              \/ pc = "cipher" /\ pc' = "compression"
              \/ pc \in {"names", "protocols"} /\ pc' = "extension"
<1>1. CASE Reject
  <2>1. pc \in {"type", "length", "version", "random", "session", "compression", "suites", "selected"}
    BY <1>1 DEF Reject, Readable
  <2> QED
    BY <1>1, <2>1 DEF Reject, Returned
<1>2. CASE EndCiphers \/ NoExtensions \/ EndExtensions \/ EndNames \/ EndProtocols
  BY <1>2 DEF EndCiphers, NoExtensions, EndExtensions, EndNames, EndProtocols, Returned
<1> QED
  BY <1>1, <1>2 DEF Idle

LEMMA Cases ==
    ASSUME Next
    PROVE  \/ HeaderRead \/ TakeBody \/ TakeCipherSuites \/ OpenExtensions \/ PushCipher
           \/ NextExtension \/ NextName \/ NextProtocol \/ Idle \/ Done
BY DEF Next, Step, HeaderRead, Idle

-----------------------------------------------------------------------------
Exits(p) == CASE p \in Returned -> 0
              [] p \in {"cipher", "names", "protocols"} -> 2
              [] OTHER -> 1

LEMMA ExitsIs ==
    ASSUME NEW p
    PROVE  /\ Exits(p) \in {0, 1, 2} /\ (Exits(p) = 0 <=> p \in Returned)
           /\ p \in {"cipher", "names", "protocols"} => Exits(p) = 2
           /\ p \notin {"cipher", "names", "protocols"} => Exits(p) <= 1
BY DEF Exits, Returned

\* The measure as arithmetic on positions, which the nesting allows.
Positions ==
    /\ r \in Window /\ r.pos \in Nat /\ r.end \in Nat /\ r.pos <= r.end
    /\ sub \in Window /\ sub.pos \in Nat /\ sub.end \in Nat /\ sub.pos <= sub.end
    /\ item \in Window /\ item.pos \in Nat /\ item.end \in Nat /\ item.pos <= item.end
    /\ sub.end <= r.pos /\ item.end <= sub.pos
    /\ Measure = 3 * ((r.end - r.pos) + (sub.end - sub.pos) + (item.end - item.pos)) + Exits(pc)

LEMMA Unread == Safe => Positions
<1> SUFFICES ASSUME Safe PROVE Positions
  OBVIOUS
<1>1. /\ r \in Window /\ r.pos \in Nat /\ r.end \in Nat /\ r.pos <= r.end
      /\ sub \in Window /\ sub.pos \in Nat /\ sub.end \in Nat /\ sub.pos <= sub.end
      /\ item \in Window /\ item.pos \in Nat /\ item.end \in Nat /\ item.pos <= item.end
      /\ sub.end <= r.pos /\ item.end <= sub.pos
  BY DEF Safe, TypeOK, WindowsNested, ReadersNested, Window
<1>2. /\ Remaining(r) = r.end - r.pos /\ Remaining(sub) = sub.end - sub.pos
      /\ Remaining(item) = item.end - item.pos
  BY <1>1 DEF Remaining
<1>3. Measure = 3 * ((r.end - r.pos) + (sub.end - sub.pos) + (item.end - item.pos)) + Exits(pc)
  BY <1>2 DEF Measure, Exits
<1> QED
  BY <1>1, <1>3 DEF Positions

\* A step that reads leaves fewer bytes unread, which weighs more than any exit
\* it may add; a step that reads nothing leaves a loop or the parser.
LEMMA MeasureFalls ==
    ASSUME Safe, Next, vars' # vars
    PROVE  Measure' < Measure
<1> DEFINE left == (r.end - r.pos) + (sub.end - sub.pos) + (item.end - item.pos)
<1>1. Safe'
  BY NextSafe
<1>2. left \in Nat /\ Measure = 3 * left + Exits(pc)
  BY Unread DEF Positions
<1>3. left' \in Nat /\ Measure' = 3 * left' + Exits(pc')
  <2>1. Positions'
    BY <1>1, Unread, PTL
  <2> QED
    BY <2>1 DEF Positions, Exits
<1>4. Exits(pc) \in {0, 1, 2} /\ Exits(pc') \in {0, 1, 2}
  BY ExitsIs
<1>5. CASE left' < left
  <2> HIDE DEF left
  <2> QED
    BY <1>2, <1>3, <1>4, <1>5
<1>6. CASE left' = left /\ Exits(pc') < Exits(pc)
  <2> HIDE DEF left
  <2> QED
    BY <1>2, <1>3, <1>4, <1>6
<1>7. CASE HeaderRead
  BY <1>5, <1>7, HeaderMoves, Unread DEF Positions, Window
<1>8. CASE TakeBody
  <2>1. UNCHANGED <<sub, item>>
    BY <1>8 DEF TakeBody
  <2> QED
    BY <1>5, <1>8, <2>1, TakeBodyMoves, Unread DEF Positions, Window
<1>9. CASE TakeCipherSuites \/ OpenExtensions
  <2>1. UNCHANGED item
    BY <1>9 DEF TakeCipherSuites, OpenExtensions
  <2> QED
    BY <1>5, <1>9, <2>1, OpenMoves, Unread DEF Positions, Window
<1>10. CASE PushCipher
  <2>1. UNCHANGED <<r, item>>
    BY <1>10 DEF PushCipher
  <2> QED
    BY <1>5, <1>10, <2>1, PushMoves, Unread DEF Positions, Window
<1>11. CASE NextExtension
  <2>1. UNCHANGED r /\ (pc' = "extension" => item' = item)
    BY <1>11 DEF NextExtension
  <2>2. ExtensionBody.pos \in Nat /\ ExtensionBody.end \in Nat /\ ExtensionBody.pos <= ExtensionBody.end
    BY <1>11, ExtensionMoves DEF Within, Window
  <2>3. CASE pc' = "extension"
    BY <1>5, <1>11, <2>1, <2>2, <2>3, ExtensionMoves, Unread DEF Positions, Window
  <2>4. CASE pc' # "extension"
    BY <1>5, <1>11, <2>1, <2>2, <2>4, ExtensionMoves, Unread DEF Positions, Window
  <2> QED
    BY <2>3, <2>4
<1>12. CASE NextName
  <2>1. UNCHANGED <<r, sub>>
    BY <1>12 DEF NextName
  <2> QED
    BY <1>5, <1>12, <2>1, NameMoves, Unread DEF Positions, Window
<1>13. CASE NextProtocol
  <2>1. UNCHANGED <<r, sub>>
    BY <1>13 DEF NextProtocol
  <2> QED
    BY <1>5, <1>13, <2>1, ProtocolMoves, Unread DEF Positions, Window
<1>14. CASE Idle
  <2>1. left' = left
    BY <1>14, IdleMoves
  <2>2. Exits(pc') < Exits(pc)
    <3>1. CASE pc \notin Returned \union {"cipher", "names", "protocols"} /\ pc' \in Returned
      BY <3>1, <1>4, ExitsIs
    <3>2. CASE pc = "cipher" /\ pc' = "compression"
      BY <3>2 DEF Exits, Returned
    <3>3. CASE pc \in {"names", "protocols"} /\ pc' = "extension"
      BY <3>3 DEF Exits, Returned
    <3> QED
      BY <1>14, <3>1, <3>2, <3>3, IdleMoves
  <2> QED
    BY <1>6, <2>1, <2>2
<1>15. ~Done
  BY DEF Done
<1> QED
  BY <1>7, <1>8, <1>9, <1>10, <1>11, <1>12, <1>13, <1>14, <1>15, Cases

\* Every step of the parser lowers a bound that is linear in the capture,
\* whatever lengths the capture declares: no loop of parser.rs can spin.
THEOREM AlwaysProgress == Spec => Progress
<1>1. Safe /\ [Next]_vars => [Measure' < Measure]_vars
  BY MeasureFalls
<1> QED
  BY <1>1, SafeAlways, PTL DEF Spec, Progress

-----------------------------------------------------------------------------
LEMMA Lengths ==
    ASSUME NEW h \in Hello
    PROVE  /\ Len(h.ciphers) \in Nat /\ Len(h.extensions) \in Nat /\ Len(h.curves) \in Nat
           /\ Len(h.point_formats) \in Nat /\ Len(h.sig_algs) \in Nat
           /\ Len(h.supported_versions) \in Nat /\ Len(h.sni) \in Nat /\ Len(h.alpn) \in Nat
           /\ Size(h) \in Nat
<1>1. /\ Len(h.ciphers) \in Nat /\ Len(h.extensions) \in Nat /\ Len(h.curves) \in Nat
      /\ Len(h.point_formats) \in Nat /\ Len(h.sig_algs) \in Nat
      /\ Len(h.supported_versions) \in Nat /\ Len(h.sni) \in Nat /\ Len(h.alpn) \in Nat
  <2>1. /\ h.ciphers \in Seq(Word) /\ h.extensions \in Seq(Word) /\ h.curves \in Seq(Word)
        /\ h.point_formats \in Seq(Byte) /\ h.sig_algs \in Seq(Word)
        /\ h.supported_versions \in Seq(Word) /\ h.sni \in Seq(Window) /\ h.alpn \in Seq(Window)
    BY DEF Hello
  <2>2. \A S : \A l \in Seq(S) : Len(l) \in Nat
    OBVIOUS
  <2> QED
    BY ONLY <2>1, <2>2
<1> DEFINE c == Len(h.ciphers)
           x == Len(h.extensions)
           k == Len(h.curves)
           p == Len(h.point_formats)
           s == Len(h.sig_algs)
           v == Len(h.supported_versions)
           n == Len(h.sni)
           a == Len(h.alpn)
<1>2. /\ c \in Nat /\ x \in Nat /\ k \in Nat /\ p \in Nat
      /\ s \in Nat /\ v \in Nat /\ n \in Nat /\ a \in Nat
  BY <1>1
<1>3. Size(h) = 2 * c + 4 * x + 2 * k + p + 2 * s + 2 * v + 3 * n + a
  BY DEF Size
<1> HIDE DEF c, x, k, p, s, v, n, a
<1>4. Size(h) \in Nat
  BY <1>2, <1>3
<1> QED
  BY <1>1, <1>4

\* Replacing a vector of the struct changes its size by what the two differ.
LEMMA SizeOfField ==
    ASSUME NEW h \in Hello
    PROVE  /\ \A w \in Seq(Word) : Size([h EXCEPT !.ciphers = w]) = Size(h) - 2 * Len(h.ciphers) + 2 * Len(w)
           /\ \A w \in Seq(Word) : Size([h EXCEPT !.extensions = w]) = Size(h) - 4 * Len(h.extensions) + 4 * Len(w)
           /\ \A w \in Seq(Word) : Size([h EXCEPT !.curves = w]) = Size(h) - 2 * Len(h.curves) + 2 * Len(w)
           /\ \A w \in Seq(Byte) : Size([h EXCEPT !.point_formats = w]) = Size(h) - Len(h.point_formats) + Len(w)
           /\ \A w \in Seq(Word) : Size([h EXCEPT !.sig_algs = w]) = Size(h) - 2 * Len(h.sig_algs) + 2 * Len(w)
           /\ \A w \in Seq(Word) : Size([h EXCEPT !.supported_versions = w]) = Size(h) - 2 * Len(h.supported_versions) + 2 * Len(w)
           /\ \A w \in Seq(Window) : Size([h EXCEPT !.sni = w]) = Size(h) - 3 * Len(h.sni) + 3 * Len(w)
           /\ \A w \in Seq(Window) : Size([h EXCEPT !.alpn = w]) = Size(h) - Len(h.alpn) + Len(w)
<1> DEFINE c == Len(h.ciphers)
           x == Len(h.extensions)
           k == Len(h.curves)
           p == Len(h.point_formats)
           s == Len(h.sig_algs)
           v == Len(h.supported_versions)
           n == Len(h.sni)
           a == Len(h.alpn)
<1>1. Size(h) = 2 * c + 4 * x + 2 * k + p + 2 * s + 2 * v + 3 * n + a
  BY DEF Size
<1>2. /\ c \in Nat /\ x \in Nat /\ k \in Nat /\ p \in Nat
      /\ s \in Nat /\ v \in Nat /\ n \in Nat /\ a \in Nat
  BY Lengths
<1>3. ASSUME NEW w \in Seq(Word)
      PROVE  Size([h EXCEPT !.ciphers = w]) = Size(h) - 2 * c + 2 * Len(w)
  <2> DEFINE m == Len(w)
             g == [h EXCEPT !.ciphers = w]
  <2>1. /\ g.ciphers = w /\ g.extensions = h.extensions /\ g.curves = h.curves /\ g.point_formats = h.point_formats
        /\ g.sig_algs = h.sig_algs /\ g.supported_versions = h.supported_versions /\ g.sni = h.sni /\ g.alpn = h.alpn
    BY DEF Hello
  <2> HIDE DEF g
  <2>2. Size(g) = 2 * m + 4 * x + 2 * k + p + 2 * s + 2 * v + 3 * n + a
    BY <2>1 DEF Size
  <2>3. m \in Nat
    OBVIOUS
  <2> HIDE DEF m, c, x, k, p, s, v, n, a
  <2>4. Size(g) = Size(h) - 2 * c + 2 * m
    BY <1>1, <1>2, <2>2, <2>3
  <2> QED
    BY <2>4 DEF m, g
<1>4. ASSUME NEW w \in Seq(Word)
      PROVE  Size([h EXCEPT !.extensions = w]) = Size(h) - 4 * x + 4 * Len(w)
  <2> DEFINE m == Len(w)
             g == [h EXCEPT !.extensions = w]
  <2>1. /\ g.ciphers = h.ciphers /\ g.extensions = w /\ g.curves = h.curves /\ g.point_formats = h.point_formats
        /\ g.sig_algs = h.sig_algs /\ g.supported_versions = h.supported_versions /\ g.sni = h.sni /\ g.alpn = h.alpn
    BY DEF Hello
  <2> HIDE DEF g
  <2>2. Size(g) = 2 * c + 4 * m + 2 * k + p + 2 * s + 2 * v + 3 * n + a
    BY <2>1 DEF Size
  <2>3. m \in Nat
    OBVIOUS
  <2> HIDE DEF m, c, x, k, p, s, v, n, a
  <2>4. Size(g) = Size(h) - 4 * x + 4 * m
    BY <1>1, <1>2, <2>2, <2>3
  <2> QED
    BY <2>4 DEF m, g
<1>5. ASSUME NEW w \in Seq(Word)
      PROVE  Size([h EXCEPT !.curves = w]) = Size(h) - 2 * k + 2 * Len(w)
  <2> DEFINE m == Len(w)
             g == [h EXCEPT !.curves = w]
  <2>1. /\ g.ciphers = h.ciphers /\ g.extensions = h.extensions /\ g.curves = w /\ g.point_formats = h.point_formats
        /\ g.sig_algs = h.sig_algs /\ g.supported_versions = h.supported_versions /\ g.sni = h.sni /\ g.alpn = h.alpn
    BY DEF Hello
  <2> HIDE DEF g
  <2>2. Size(g) = 2 * c + 4 * x + 2 * m + p + 2 * s + 2 * v + 3 * n + a
    BY <2>1 DEF Size
  <2>3. m \in Nat
    OBVIOUS
  <2> HIDE DEF m, c, x, k, p, s, v, n, a
  <2>4. Size(g) = Size(h) - 2 * k + 2 * m
    BY <1>1, <1>2, <2>2, <2>3
  <2> QED
    BY <2>4 DEF m, g
<1>6. ASSUME NEW w \in Seq(Byte)
      PROVE  Size([h EXCEPT !.point_formats = w]) = Size(h) - p + Len(w)
  <2> DEFINE m == Len(w)
             g == [h EXCEPT !.point_formats = w]
  <2>1. /\ g.ciphers = h.ciphers /\ g.extensions = h.extensions /\ g.curves = h.curves /\ g.point_formats = w
        /\ g.sig_algs = h.sig_algs /\ g.supported_versions = h.supported_versions /\ g.sni = h.sni /\ g.alpn = h.alpn
    BY DEF Hello
  <2> HIDE DEF g
  <2>2. Size(g) = 2 * c + 4 * x + 2 * k + m + 2 * s + 2 * v + 3 * n + a
    BY <2>1 DEF Size
  <2>3. m \in Nat
    OBVIOUS
  <2> HIDE DEF m, c, x, k, p, s, v, n, a
  <2>4. Size(g) = Size(h) - p + m
    BY <1>1, <1>2, <2>2, <2>3
  <2> QED
    BY <2>4 DEF m, g
<1>7. ASSUME NEW w \in Seq(Word)
      PROVE  Size([h EXCEPT !.sig_algs = w]) = Size(h) - 2 * s + 2 * Len(w)
  <2> DEFINE m == Len(w)
             g == [h EXCEPT !.sig_algs = w]
  <2>1. /\ g.ciphers = h.ciphers /\ g.extensions = h.extensions /\ g.curves = h.curves /\ g.point_formats = h.point_formats
        /\ g.sig_algs = w /\ g.supported_versions = h.supported_versions /\ g.sni = h.sni /\ g.alpn = h.alpn
    BY DEF Hello
  <2> HIDE DEF g
  <2>2. Size(g) = 2 * c + 4 * x + 2 * k + p + 2 * m + 2 * v + 3 * n + a
    BY <2>1 DEF Size
  <2>3. m \in Nat
    OBVIOUS
  <2> HIDE DEF m, c, x, k, p, s, v, n, a
  <2>4. Size(g) = Size(h) - 2 * s + 2 * m
    BY <1>1, <1>2, <2>2, <2>3
  <2> QED
    BY <2>4 DEF m, g
<1>8. ASSUME NEW w \in Seq(Word)
      PROVE  Size([h EXCEPT !.supported_versions = w]) = Size(h) - 2 * v + 2 * Len(w)
  <2> DEFINE m == Len(w)
             g == [h EXCEPT !.supported_versions = w]
  <2>1. /\ g.ciphers = h.ciphers /\ g.extensions = h.extensions /\ g.curves = h.curves /\ g.point_formats = h.point_formats
        /\ g.sig_algs = h.sig_algs /\ g.supported_versions = w /\ g.sni = h.sni /\ g.alpn = h.alpn
    BY DEF Hello
  <2> HIDE DEF g
  <2>2. Size(g) = 2 * c + 4 * x + 2 * k + p + 2 * s + 2 * m + 3 * n + a
    BY <2>1 DEF Size
  <2>3. m \in Nat
    OBVIOUS
  <2> HIDE DEF m, c, x, k, p, s, v, n, a
  <2>4. Size(g) = Size(h) - 2 * v + 2 * m
    BY <1>1, <1>2, <2>2, <2>3
  <2> QED
    BY <2>4 DEF m, g
<1>9. ASSUME NEW w \in Seq(Window)
      PROVE  Size([h EXCEPT !.sni = w]) = Size(h) - 3 * n + 3 * Len(w)
  <2> DEFINE m == Len(w)
             g == [h EXCEPT !.sni = w]
  <2>1. /\ g.ciphers = h.ciphers /\ g.extensions = h.extensions /\ g.curves = h.curves /\ g.point_formats = h.point_formats
        /\ g.sig_algs = h.sig_algs /\ g.supported_versions = h.supported_versions /\ g.sni = w /\ g.alpn = h.alpn
    BY DEF Hello
  <2> HIDE DEF g
  <2>2. Size(g) = 2 * c + 4 * x + 2 * k + p + 2 * s + 2 * v + 3 * m + a
    BY <2>1 DEF Size
  <2>3. m \in Nat
    OBVIOUS
  <2> HIDE DEF m, c, x, k, p, s, v, n, a
  <2>4. Size(g) = Size(h) - 3 * n + 3 * m
    BY <1>1, <1>2, <2>2, <2>3
  <2> QED
    BY <2>4 DEF m, g
<1>10. ASSUME NEW w \in Seq(Window)
      PROVE  Size([h EXCEPT !.alpn = w]) = Size(h) - a + Len(w)
  <2> DEFINE m == Len(w)
             g == [h EXCEPT !.alpn = w]
  <2>1. /\ g.ciphers = h.ciphers /\ g.extensions = h.extensions /\ g.curves = h.curves /\ g.point_formats = h.point_formats
        /\ g.sig_algs = h.sig_algs /\ g.supported_versions = h.supported_versions /\ g.sni = h.sni /\ g.alpn = w
    BY DEF Hello
  <2> HIDE DEF g
  <2>2. Size(g) = 2 * c + 4 * x + 2 * k + p + 2 * s + 2 * v + 3 * n + m
    BY <2>1 DEF Size
  <2>3. m \in Nat
    OBVIOUS
  <2> HIDE DEF m, c, x, k, p, s, v, n, a
  <2>4. Size(g) = Size(h) - a + m
    BY <1>1, <1>2, <2>2, <2>3
  <2> QED
    BY <2>4 DEF m, g
<1> QED
  BY <1>3, <1>4, <1>5, <1>6, <1>7, <1>8, <1>9, <1>10

LEMMA SizeOfVectors ==
    ASSUME NEW g, NEW h, VectorsOf(g) = VectorsOf(h)
    PROVE  Size(g) = Size(h) /\ g.extensions = h.extensions
BY DEF VectorsOf, Size

\* A decoded extension adds no more than its body has bytes, a name list nothing
\* yet; the one field it fills is that of its type.
DecodedTo(g, h, etype, body) ==
    /\ g.extensions = h.extensions
    /\ Size(g) <= Size(h) + (body.end - body.pos)
    /\ etype \in {SERVER_NAME, ALPN} => Size(g) <= Size(h)
    /\ g.sni \in {h.sni, <<>>} /\ g.alpn \in {h.alpn, <<>>}
    /\ g.curves = h.curves \/ etype = SUPPORTED_GROUPS
    /\ g.point_formats = h.point_formats \/ etype = EC_POINT_FORMATS
    /\ g.sig_algs = h.sig_algs \/ etype = SIGNATURE_ALGORITHMS
    /\ g.supported_versions = h.supported_versions \/ etype = SUPPORTED_VERSIONS

LEMMA DecodePays ==
    ASSUME data \in Seq(Byte), NEW h \in Hello, NEW etype, NEW body, Within(data, body)
    PROVE  DecodedTo(Decode(h, etype, body), h, etype, body)
<1> USE DEF SERVER_NAME, SUPPORTED_GROUPS, EC_POINT_FORMATS, SIGNATURE_ALGORITHMS, ALPN,
            SUPPORTED_VERSIONS
<1> DEFINE wide == U16s(data, Clamped16(data, body))
           versions == U16s(data, Clamped8(data, body))
           formats == Bytes(data, Clamped8(data, body))
           room == body.end - body.pos
           none == <<>>
<1>1. /\ wide \in Seq(Word) /\ Len(wide) \in Nat /\ 2 * Len(wide) <= room
      /\ versions \in Seq(Word) /\ Len(versions) \in Nat /\ 2 * Len(versions) <= room
      /\ formats \in Seq(Byte) /\ Len(formats) \in Nat /\ Len(formats) <= room
      /\ room \in Nat
  <2> DEFINE w == Clamped16(data, body)
             v == Clamped8(data, body)
  <2>1. /\ Within(data, w) /\ body.pos <= w.pos /\ w.end <= body.end
        /\ Within(data, v) /\ body.pos <= v.pos /\ v.end <= body.end
    BY Clamped16Within, Clamped8Within
  <2> HIDE DEF w, v
  <2>2. /\ U16s(data, w) \in Seq(Word) /\ 2 * Len(U16s(data, w)) <= w.end - w.pos
        /\ U16s(data, v) \in Seq(Word) /\ 2 * Len(U16s(data, v)) <= v.end - v.pos
        /\ Bytes(data, v) \in Seq(Byte) /\ Len(Bytes(data, v)) = v.end - v.pos
    BY <2>1, U16sType, BytesType
  <2>3. /\ Len(U16s(data, w)) \in Nat /\ Len(U16s(data, v)) \in Nat
        /\ Len(Bytes(data, v)) \in Nat
    BY <2>2
  <2>4. /\ w.end - w.pos <= room /\ v.end - v.pos <= room /\ room \in Nat
        /\ w.end - w.pos \in Nat /\ v.end - v.pos \in Nat
    BY <2>1 DEF Within, Window
  <2>5. /\ 2 * Len(U16s(data, w)) <= room /\ 2 * Len(U16s(data, v)) <= room
        /\ Len(Bytes(data, v)) <= room
    <3> HIDE DEF room
    <3> QED
      BY <2>2, <2>3, <2>4
  <2> QED
    BY <2>2, <2>3, <2>4, <2>5 DEF w, v
<1> HIDE DEF wide, versions, formats, room
<1>2. /\ Size(h) \in Nat /\ Len(h.curves) \in Nat /\ Len(h.point_formats) \in Nat
      /\ Len(h.sig_algs) \in Nat /\ Len(h.supported_versions) \in Nat
      /\ Len(h.sni) \in Nat /\ Len(h.alpn) \in Nat
  BY Lengths
<1>3. Len(none) = 0 /\ none \in Seq(Window)
  OBVIOUS
<1> HIDE DEF none
<1>4. CASE etype = SERVER_NAME
  <2> DEFINE g == Decode(h, etype, body)
  <2>1. g = [h EXCEPT !.sni = none]
    BY <1>4 DEF Decode, none
  <2>2. /\ g.extensions = h.extensions /\ g.alpn = h.alpn /\ g.sni = none
        /\ g.curves = h.curves /\ g.point_formats = h.point_formats
        /\ g.sig_algs = h.sig_algs /\ g.supported_versions = h.supported_versions
    BY <2>1 DEF Hello
  <2>3. Size(g) = Size(h) - 3 * Len(h.sni) + 3 * Len(none)
    <3>1. \A w \in Seq(Window) :
             Size([h EXCEPT !.sni = w]) = Size(h) - 3 * Len(h.sni) + 3 * Len(w)
      BY SizeOfField
    <3>2. Size([h EXCEPT !.sni = none]) = Size(h) - 3 * Len(h.sni) + 3 * Len(none)
      BY <1>3, <3>1
    <3> QED
      BY <2>1, <3>2
  <2> HIDE DEF g
  <2>4. Size(g) = Size(h) - 3 * Len(h.sni)
    BY <1>2, <1>3, <2>3
  <2>5. Size(g) <= Size(h) /\ Size(g) <= Size(h) + room
    <3> DEFINE a == Size(g)
               c == Size(h)
    <3>1. c \in Nat /\ room \in Nat /\ a <= c
      BY <1>1, <1>2, <2>4
    <3>2. a \in Int
      BY <1>2, <2>4
    <3> HIDE DEF a, c
    <3>3. a <= c + room
      BY ONLY <3>1, <3>2
    <3> QED
      BY <3>1, <3>3 DEF a, c
  <2> QED
    BY <1>4, <2>2, <2>5 DEF DecodedTo, room, none, g
<1>5. CASE etype = SUPPORTED_GROUPS
  <2> DEFINE g == Decode(h, etype, body)
  <2>1. g = [h EXCEPT !.curves = wide]
    BY <1>5 DEF Decode, wide
  <2>2. /\ g.extensions = h.extensions /\ g.sni = h.sni /\ g.alpn = h.alpn /\ g.curves = wide
        /\ g.point_formats = h.point_formats /\ g.sig_algs = h.sig_algs /\ g.supported_versions = h.supported_versions
    BY <2>1 DEF Hello
  <2>3. Size(g) = Size(h) - 2 * Len(h.curves) + 2 * Len(wide)
    BY <1>1, <2>1, SizeOfField
  <2> HIDE DEF g
  <2>4. Size(g) <= Size(h) + room
    BY <1>1, <1>2, <2>3
  <2> QED
    BY <1>5, <2>2, <2>4 DEF DecodedTo, room, g
<1>6. CASE etype = EC_POINT_FORMATS
  <2> DEFINE g == Decode(h, etype, body)
  <2>1. g = [h EXCEPT !.point_formats = formats]
    BY <1>6 DEF Decode, formats
  <2>2. /\ g.extensions = h.extensions /\ g.sni = h.sni /\ g.alpn = h.alpn /\ g.point_formats = formats
        /\ g.curves = h.curves /\ g.sig_algs = h.sig_algs /\ g.supported_versions = h.supported_versions
    BY <2>1 DEF Hello
  <2>3. Size(g) = Size(h) - Len(h.point_formats) + Len(formats)
    BY <1>1, <2>1, SizeOfField
  <2> HIDE DEF g
  <2>4. Size(g) <= Size(h) + room
    BY <1>1, <1>2, <2>3
  <2> QED
    BY <1>6, <2>2, <2>4 DEF DecodedTo, room, g
<1>7. CASE etype = SIGNATURE_ALGORITHMS
  <2> DEFINE g == Decode(h, etype, body)
  <2>1. g = [h EXCEPT !.sig_algs = wide]
    BY <1>7 DEF Decode, wide
  <2>2. /\ g.extensions = h.extensions /\ g.sni = h.sni /\ g.alpn = h.alpn /\ g.sig_algs = wide
        /\ g.curves = h.curves /\ g.point_formats = h.point_formats /\ g.supported_versions = h.supported_versions
    BY <2>1 DEF Hello
  <2>3. Size(g) = Size(h) - 2 * Len(h.sig_algs) + 2 * Len(wide)
    BY <1>1, <2>1, SizeOfField
  <2> HIDE DEF g
  <2>4. Size(g) <= Size(h) + room
    BY <1>1, <1>2, <2>3
  <2> QED
    BY <1>7, <2>2, <2>4 DEF DecodedTo, room, g
<1>8. CASE etype = SUPPORTED_VERSIONS
  <2> DEFINE g == Decode(h, etype, body)
  <2>1. g = [h EXCEPT !.supported_versions = versions]
    BY <1>8 DEF Decode, versions
  <2>2. /\ g.extensions = h.extensions /\ g.sni = h.sni /\ g.alpn = h.alpn /\ g.supported_versions = versions
        /\ g.curves = h.curves /\ g.point_formats = h.point_formats /\ g.sig_algs = h.sig_algs
    BY <2>1 DEF Hello
  <2>3. Size(g) = Size(h) - 2 * Len(h.supported_versions) + 2 * Len(versions)
    BY <1>1, <2>1, SizeOfField
  <2> HIDE DEF g
  <2>4. Size(g) <= Size(h) + room
    BY <1>1, <1>2, <2>3
  <2> QED
    BY <1>8, <2>2, <2>4 DEF DecodedTo, room, g
<1>9. CASE etype = ALPN
  <2> DEFINE g == Decode(h, etype, body)
  <2>1. g = [h EXCEPT !.alpn = none]
    BY <1>9 DEF Decode, none
  <2>2. /\ g.extensions = h.extensions /\ g.sni = h.sni /\ g.alpn = none
        /\ g.curves = h.curves /\ g.point_formats = h.point_formats
        /\ g.sig_algs = h.sig_algs /\ g.supported_versions = h.supported_versions
    BY <2>1 DEF Hello
  <2>3. Size(g) = Size(h) - Len(h.alpn) + Len(none)
    <3>1. \A w \in Seq(Window) :
             Size([h EXCEPT !.alpn = w]) = Size(h) - Len(h.alpn) + Len(w)
      BY SizeOfField
    <3>2. Size([h EXCEPT !.alpn = none]) = Size(h) - Len(h.alpn) + Len(none)
      BY <1>3, <3>1
    <3> QED
      BY <2>1, <3>2
  <2> HIDE DEF g
  <2>4. Size(g) = Size(h) - Len(h.alpn)
    BY <1>2, <1>3, <2>3
  <2>5. Size(g) <= Size(h) /\ Size(g) <= Size(h) + room
    <3> DEFINE a == Size(g)
               c == Size(h)
    <3>1. c \in Nat /\ room \in Nat /\ a <= c
      BY <1>1, <1>2, <2>4
    <3>2. a \in Int
      BY <1>2, <2>4
    <3> HIDE DEF a, c
    <3>3. a <= c + room
      BY ONLY <3>1, <3>2
    <3> QED
      BY <3>1, <3>3 DEF a, c
  <2> QED
    BY <1>9, <2>2, <2>5 DEF DecodedTo, room, none, g
<1>10. CASE etype \notin {SERVER_NAME, SUPPORTED_GROUPS, EC_POINT_FORMATS,
                        SIGNATURE_ALGORITHMS, ALPN, SUPPORTED_VERSIONS}
  <2>1. Decode(h, etype, body) = h
    BY <1>10 DEF Decode
  <2>2. Size(h) <= Size(h) + room
    BY <1>1, <1>2
  <2> QED
    BY <1>10, <2>1, <2>2 DEF DecodedTo, room
<1> QED
  BY <1>4, <1>5, <1>6, <1>7, <1>8, <1>9, <1>10

\* The struct after one turn of the extension loop.
LEMMA ExtensionPays ==
    ASSUME Safe, NextExtension
    PROVE  LET etype == U16(data, sub)
               h == Record(hello, etype)
           IN /\ h \in Hello /\ Size(h) = Size(hello) + 4
              /\ h.extensions = Append(hello.extensions, etype)
              /\ h.sni = hello.sni /\ h.alpn = hello.alpn /\ h.curves = hello.curves
              /\ h.point_formats = hello.point_formats /\ h.sig_algs = hello.sig_algs
              /\ h.supported_versions = hello.supported_versions
              /\ hello' = h \/ DecodedTo(hello', h, etype, ExtensionBody)
              /\ pc' \in {"names", "protocols"} => DecodedTo(hello', h, etype, ExtensionBody)
<1> DEFINE etype == U16(data, sub)
           h == Record(hello, etype)
<1>1. data \in Seq(Byte) /\ hello \in Hello /\ etype \in Word /\ Within(data, ExtensionBody)
  BY ExtensionMoves DEF Safe, TypeOK
<1>2. /\ hello' = IF side = "client" THEN Decode(h, etype, ExtensionBody) ELSE h
      /\ pc' = AfterExtension(etype)
  BY DEF NextExtension
<1>3. h = [hello EXCEPT !.extensions = Append(hello.extensions, etype)]
  BY DEF Record
<1> HIDE DEF etype, h
<1>4. h \in Hello
  BY <1>1, <1>3, HelloFields
<1>5. /\ h.extensions = Append(hello.extensions, etype)
      /\ h.sni = hello.sni /\ h.alpn = hello.alpn /\ h.curves = hello.curves
      /\ h.point_formats = hello.point_formats /\ h.sig_algs = hello.sig_algs
      /\ h.supported_versions = hello.supported_versions /\ h.ciphers = hello.ciphers
  BY <1>1, <1>3 DEF Hello
<1>6. /\ Append(hello.extensions, etype) \in Seq(Word)
      /\ Len(Append(hello.extensions, etype)) = Len(hello.extensions) + 1
  <2>1. hello.extensions \in Seq(Word)
    BY <1>1 DEF Hello
  <2> QED
    BY <1>1, <2>1
<1>7. Size(h) = Size(hello) + 4
  <2> DEFINE more == Append(hello.extensions, etype)
  <2>1. more \in Seq(Word) /\ Len(more) = Len(hello.extensions) + 1
    BY <1>6
  <2>2. h = [hello EXCEPT !.extensions = more]
    BY <1>3
  <2> HIDE DEF more
  <2>3. Size(h) = Size(hello) - 4 * Len(hello.extensions) + 4 * Len(more)
    BY <1>1, <2>1, <2>2, SizeOfField
  <2>4. Size(hello) \in Nat /\ Len(hello.extensions) \in Nat
    BY <1>1, Lengths
  <2> HIDE DEF more
  <2> QED
    BY <2>1, <2>3, <2>4
<1>8. DecodedTo(Decode(h, etype, ExtensionBody), h, etype, ExtensionBody)
  BY <1>1, <1>4, DecodePays
<1>9. pc' \in {"names", "protocols"} => side = "client"
  BY <1>2 DEF AfterExtension
<1> QED
  BY <1>2, <1>4, <1>5, <1>7, <1>8, <1>9 DEF etype, h

LEMMA PaidStep ==
    ASSUME Safe, Paid, Next
    PROVE  Paid'
<1> DEFINE InList(p) == p \in {"names", "protocols"}
<1>1. Positions /\ hello \in Hello /\ Size(hello) \in Nat
  BY Unread, Lengths DEF Safe, TypeOK
<1>2. /\ Size(hello) <= sub.pos
      /\ InList(pc) => Size(hello) + (item.end - item.pos) <= sub.pos
  BY <1>1 DEF Paid, Owed, Positions
<1>3. CASE HeaderRead
  <2>1. /\ UNCHANGED <<sub, item>> /\ Size(hello') = Size(hello)
        /\ pc' \notin {"names", "protocols"}
    BY <1>3, HeaderMoves, SizeOfVectors
  <2>2. Paid' <=> Size(hello') <= sub.pos
    BY <1>1, <2>1 DEF Paid, Owed
  <2> QED
    BY <1>2, <2>1, <2>2
<1>4. CASE TakeBody
  BY <1>1, <1>2, <1>4 DEF TakeBody, Paid, Owed
<1>5. CASE TakeCipherSuites \/ OpenExtensions
  <2>1. hello' = hello /\ pc' \notin {"names", "protocols"}
    BY <1>5 DEF TakeCipherSuites, OpenExtensions
  <2>2. sub.pos <= sub'.pos /\ sub'.pos \in Nat
    BY <1>1, <1>5, OpenMoves DEF Positions, Window
  <2> QED
    BY <1>1, <1>2, <2>1, <2>2 DEF Paid, Owed, Positions
<1>6. CASE PushCipher
  <2>1. /\ hello' = [hello EXCEPT !.ciphers = Append(hello.ciphers, U16(data, sub))]
        /\ pc' = "cipher" /\ sub'.pos = sub.pos + 2
    BY <1>6, PushMoves DEF PushCipher
  <2>2. hello.ciphers \in Seq(Word) /\ U16(data, sub) \in Word
    BY <1>1, <1>6, ReadersWithin, ReadU16 DEF PushCipher, Safe, TypeOK, Hello
  <2>3. Len(Append(hello.ciphers, U16(data, sub))) = Len(hello.ciphers) + 1
    BY <2>2
  <2>4. Size(hello') = Size(hello) + 2
    BY <1>1, <2>1, <2>3, Lengths DEF Size, Hello
  <2> QED
    BY <1>1, <1>2, <2>1, <2>4 DEF Paid, Owed, Positions
<1>7. CASE NextExtension
  <2> DEFINE body == ExtensionBody
             h == Record(hello, U16(data, sub))
  <2>1. /\ body.pos \in Nat /\ body.end \in Nat /\ body.pos <= body.end
        /\ body.pos = sub.pos + 4 /\ sub'.pos = body.end
        /\ pc' # "extension" =>
              /\ item' \in Window /\ item'.pos <= item'.end
              /\ body.pos <= item'.pos /\ item'.end <= body.end
    BY <1>7, ExtensionMoves DEF Within, Window
  <2>2. /\ Size(h) = Size(hello) + 4
        /\ hello' = h \/ Size(hello') <= Size(h) + (body.end - body.pos)
    BY <1>7, ExtensionPays DEF DecodedTo
  <2>3. pc' \in {"names", "protocols"} => Size(hello') <= Size(h)
    <3>1. pc' \in {"names", "protocols"} => U16(data, sub) \in {SERVER_NAME, ALPN}
      BY <1>7 DEF NextExtension, AfterExtension
    <3> QED
      BY <1>7, <3>1, ExtensionPays DEF DecodedTo
  <2>4. Size(hello') \in Nat
    <3>1. hello' \in Hello
      BY <1>7, NextExtensionStep DEF Safe, TypeOK
    <3> QED
      BY <3>1, Lengths
  <2> HIDE DEF body, h
  <2>5. CASE InList(pc')
    <3>1. item'.pos \in Nat /\ item'.end \in Nat
      BY <2>1, <2>5 DEF Window
    <3>2. Size(hello') + (item'.end - item'.pos) <= sub'.pos
      BY <1>1, <1>2, <2>1, <2>2, <2>3, <2>4, <2>5, <3>1 DEF Positions
    <3> QED
      BY <2>5, <3>2 DEF Paid, Owed
  <2>6. CASE ~InList(pc')
    <3>1. Size(hello') <= sub'.pos
      BY <1>1, <1>2, <2>1, <2>2, <2>4 DEF Positions
    <3> QED
      BY <2>1, <2>4, <2>6, <3>1 DEF Paid, Owed
  <2> QED
    BY <2>5, <2>6
<1>8. CASE NextName
  <2>1. /\ UNCHANGED sub /\ pc = "names"
        /\ \/ UNCHANGED <<pc, hello>>
           \/ \E name : pc' = "extension" /\ hello' = [hello EXCEPT !.sni = <<name>>]
    BY <1>8 DEF NextName
  <2>2. item'.pos \in Nat /\ item'.end = item.end /\ item.pos + 3 <= item'.pos /\ item'.pos <= item'.end
    BY <1>8, NameMoves DEF Window
  <2>3. CASE UNCHANGED <<pc, hello>>
    BY <1>1, <1>2, <2>1, <2>2, <2>3 DEF Paid, Owed, Positions
  <2>4. ASSUME NEW name, pc' = "extension", hello' = [hello EXCEPT !.sni = <<name>>]
        PROVE  Paid'
    <3>1. Len(<<name>>) = 1
      OBVIOUS
    <3>2. Size(hello') = Size(hello) - 3 * Len(hello.sni) + 3
      BY <1>1, <2>4, <3>1, Lengths DEF Size, Hello
    <3>3. Size(hello') <= Size(hello) + 3 /\ Size(hello') \in Int
      BY <1>1, <3>2, Lengths
    <3>4. Size(hello') <= sub.pos
      BY <1>1, <1>2, <2>1, <2>2, <3>3 DEF Positions
    <3> QED
      BY <1>1, <2>1, <2>4, <3>3, <3>4 DEF Paid, Owed, Positions
  <2> QED
    BY <2>1, <2>3, <2>4
<1>9. CASE NextProtocol
  <2>1. /\ UNCHANGED <<sub, pc>> /\ pc = "protocols"
        /\ \E name : hello' = [hello EXCEPT !.alpn = Append(hello.alpn, name)]
    BY <1>9 DEF NextProtocol
  <2> DEFINE old == hello.alpn
             new == hello'.alpn
  <2>2. item'.pos \in Nat /\ item'.end = item.end /\ item.pos + 1 <= item'.pos /\ item'.pos <= item'.end
    BY <1>9, ProtocolMoves DEF Window
  <2>3. PICK name : hello' = [hello EXCEPT !.alpn = Append(hello.alpn, name)]
    BY <2>1
  <2>4. /\ hello' \in Hello /\ new = Append(old, name)
        /\ old \in Seq(Window) /\ new \in Seq(Window)
    <3>1. hello' \in Hello
      BY <1>9, NextProtocolStep DEF Safe, TypeOK
    <3> QED
      BY <1>1, <2>3, <3>1 DEF Hello
  <2>5. Size(hello') = Size(hello) + 1
    <3>1. \A w \in Seq(Window) :
             Size([hello EXCEPT !.alpn = w]) = Size(hello) - Len(hello.alpn) + Len(w)
      BY <1>1, SizeOfField
    <3>2. hello' = [hello EXCEPT !.alpn = new]
      BY <2>3, <2>4
    <3> HIDE DEF new
    <3>3. Size(hello') = Size(hello) - Len(hello.alpn) + Len(new)
      BY <2>4, <3>1, <3>2
    <3>4. Len(old) \in Nat /\ Len(new) = Len(old) + 1
      <4> HIDE DEF old
      <4>1. \A l \in Seq(Window) : Len(Append(l, name)) = Len(l) + 1 /\ Len(l) \in Nat
        OBVIOUS
      <4> QED
        BY <2>4, <4>1
    <3>5. Size(hello) \in Nat
      BY <1>1, Lengths
    <3> QED
      BY ONLY <3>3, <3>4, <3>5 DEF old
  <2>6. Size(hello) + (item.end - item.pos) <= sub.pos
    BY <1>2, <2>1
  <2>7. /\ item.pos \in Nat /\ item.end \in Nat /\ sub.pos \in Nat /\ Size(hello) \in Nat
        /\ sub'.pos = sub.pos
    BY <1>1, <2>1 DEF Positions
  <2>8. Size(hello') + (item'.end - item'.pos) <= sub'.pos
    BY ONLY <2>2, <2>5, <2>6, <2>7
  <2>9. pc' \in {"names", "protocols"}
    BY <2>1
  <2> QED
    BY ONLY <2>8, <2>9 DEF Paid, Owed
<1>10. CASE Idle
  <2>1. UNCHANGED <<sub, item, hello>> /\ pc' \notin {"names", "protocols"}
    BY <1>10, IdleMoves DEF Returned
  <2> QED
    BY <1>1, <1>2, <2>1 DEF Paid, Owed, Positions
<1>11. CASE Done
  BY <1>11 DEF Done, vars, Paid, Owed
<1> QED
  BY <1>3, <1>4, <1>5, <1>6, <1>7, <1>8, <1>9, <1>10, <1>11, Cases

LEMMA InitPaid == Init => Paid
<1> SUFFICES ASSUME Init PROVE Paid
  OBVIOUS
<1>1. Positions
  BY InitSafe, Unread
<1>2. pc = "type" /\ hello = Default
  BY DEF Init, Call
<1>3. Size(Default) = 0
  <2>1. Len(<<>>) = 0
    OBVIOUS
  <2> QED
    BY <2>1 DEF Size, Default
<1> QED
  BY <1>1, <1>2, <1>3 DEF Paid, Owed, Positions

LEMMA PaidBounds ==
    ASSUME Safe, Paid
    PROVE  AllocationBound
<1>1. Positions /\ Size(hello) \in Nat
  BY Unread, Lengths DEF Safe, TypeOK
<1> QED
  BY <1>1 DEF Paid, Owed, AllocationBound, Positions

\* The vectors of a decoded hello hold no more than the bytes the cursor has
\* passed: repeated and nested lists of parser.rs are never counted twice,
\* whatever the capture.
THEOREM Bounded == Spec => []AllocationBound
<1>1. Safe /\ Paid /\ [Next]_vars => Paid'
  <2> SUFFICES ASSUME Safe, Paid, [Next]_vars PROVE Paid'
    OBVIOUS
  <2>1. CASE UNCHANGED vars
    BY <2>1 DEF vars, Paid, Owed
  <2> QED
    BY <2>1, PaidStep
<1>2. Safe /\ Paid => AllocationBound
  BY PaidBounds
<1> QED
  BY <1>1, <1>2, InitPaid, SafeAlways, PTL DEF Spec

-----------------------------------------------------------------------------
\* A field is set under its code, and a code that is listed stays listed.
SetUnder(v, w, etype) == w \in {v, <<>>} \/ Listed(etype)'

FieldsSet ==
    /\ \A etype : Listed(etype) => Listed(etype)'
    /\ SetUnder(hello.sni, hello'.sni, SERVER_NAME)
    /\ SetUnder(hello.alpn, hello'.alpn, ALPN)
    /\ SetUnder(hello.curves, hello'.curves, SUPPORTED_GROUPS)
    /\ SetUnder(hello.point_formats, hello'.point_formats, EC_POINT_FORMATS)
    /\ SetUnder(hello.sig_algs, hello'.sig_algs, SIGNATURE_ALGORITHMS)
    /\ SetUnder(hello.supported_versions, hello'.supported_versions, SUPPORTED_VERSIONS)

LEMMA FieldsKept ==
    ASSUME FieldsHaveExtensions, FieldsSet
    PROVE  FieldsHaveExtensions'
BY DEF FieldsHaveExtensions, FieldsSet, SetUnder

LEMMA SameVectors ==
    ASSUME VectorsOf(hello') = VectorsOf(hello)
    PROVE  FieldsSet
<1>1. \A etype : Listed(etype) => Listed(etype)'
  BY DEF VectorsOf, Listed
<1> QED
  BY <1>1 DEF VectorsOf, FieldsSet, SetUnder

LEMMA ListingGrows ==
    ASSUME hello.extensions \in Seq(Word), NEW code \in Word,
           hello'.extensions = Append(hello.extensions, code)
    PROVE  /\ \A etype : Listed(etype) => Listed(etype)'
           /\ Listed(code)'
<1> DEFINE s == hello.extensions
           t == hello'.extensions
<1>1. /\ DOMAIN s = 1 .. Len(s) /\ DOMAIN t = 1 .. Len(s) + 1 /\ Len(s) \in Nat
      /\ \A i \in 1 .. Len(s) : t[i] = s[i]
      /\ t[Len(s) + 1] = code
  OBVIOUS
<1> HIDE DEF s, t
<1>2. ASSUME NEW etype, \E i \in DOMAIN s : s[i] = etype
      PROVE  \E i \in DOMAIN t : t[i] = etype
  <2>1. PICK i \in DOMAIN s : s[i] = etype
    BY <1>2
  <2>2. i \in DOMAIN t /\ t[i] = etype
    BY <1>1, <2>1
  <2> QED
    BY <2>2
<1>3. \E i \in DOMAIN t : t[i] = code
  <2>1. Len(s) + 1 \in DOMAIN t
    BY <1>1
  <2> QED
    BY <1>1, <2>1
<1> QED
  BY <1>2, <1>3 DEF Listed, s, t

LEMMA FieldsStep ==
    ASSUME Safe, FieldsHaveExtensions, ListsListed, Next
    PROVE  FieldsHaveExtensions' /\ ListsListed'
<1>1. hello \in Hello /\ hello.extensions \in Seq(Word)
  BY DEF Safe, TypeOK, Hello
<1>2. CASE HeaderRead
  <2>1. VectorsOf(hello') = VectorsOf(hello) /\ pc' \notin {"names", "protocols"}
    BY <1>2, HeaderMoves
  <2> QED
    BY <2>1, SameVectors, FieldsKept DEF ListsListed
<1>3. CASE TakeBody \/ TakeCipherSuites \/ OpenExtensions \/ Idle
  <2>1. hello' = hello /\ pc' \notin {"names", "protocols"}
    BY <1>3, IdleMoves DEF TakeBody, TakeCipherSuites, OpenExtensions, Returned
  <2> QED
    BY <2>1, SameVectors, FieldsKept DEF ListsListed, VectorsOf
<1>4. CASE PushCipher
  <2>1. /\ hello' = [hello EXCEPT !.ciphers = Append(hello.ciphers, U16(data, sub))]
        /\ pc' = "cipher"
    BY <1>4 DEF PushCipher
  <2>2. /\ hello'.extensions = hello.extensions
        /\ hello'.sni = hello.sni /\ hello'.alpn = hello.alpn /\ hello'.curves = hello.curves
        /\ hello'.point_formats = hello.point_formats /\ hello'.sig_algs = hello.sig_algs
        /\ hello'.supported_versions = hello.supported_versions
    BY <1>1, <2>1 DEF Hello
  <2>3. FieldsSet
    BY <2>2 DEF FieldsSet, SetUnder, Listed
  <2> QED
    BY <2>1, <2>3, FieldsKept DEF ListsListed
<1>5. CASE NextExtension
  <2> DEFINE h == Record(hello, U16(data, sub))
  <2>1. PICK etype \in Word : etype = U16(data, sub)
    BY <1>5, ExtensionMoves
  <2>2. /\ h.extensions = Append(hello.extensions, etype)
        /\ h.sni = hello.sni /\ h.alpn = hello.alpn /\ h.curves = hello.curves
        /\ h.point_formats = hello.point_formats /\ h.sig_algs = hello.sig_algs
        /\ h.supported_versions = hello.supported_versions
        /\ hello' = h \/ DecodedTo(hello', h, etype, ExtensionBody)
    BY <1>5, <2>1, ExtensionPays
  <2>3. pc' = AfterExtension(etype)
    BY <1>5, <2>1 DEF NextExtension
  <2> HIDE DEF h
  <2>4. /\ hello'.extensions = Append(hello.extensions, etype)
        /\ hello'.sni \in {hello.sni, <<>>} /\ hello'.alpn \in {hello.alpn, <<>>}
        /\ hello'.curves = hello.curves \/ etype = SUPPORTED_GROUPS
        /\ hello'.point_formats = hello.point_formats \/ etype = EC_POINT_FORMATS
        /\ hello'.sig_algs = hello.sig_algs \/ etype = SIGNATURE_ALGORITHMS
        /\ hello'.supported_versions = hello.supported_versions \/ etype = SUPPORTED_VERSIONS
    BY <2>2 DEF DecodedTo
  <2>5. (\A code : Listed(code) => Listed(code)') /\ Listed(etype)'
    BY <1>1, <2>4, ListingGrows
  <2>6. FieldsSet
    BY <2>4, <2>5 DEF FieldsSet, SetUnder
  <2>7. ListsListed'
    <3>1. /\ pc' = "names" => etype = SERVER_NAME
          /\ pc' = "protocols" => etype = ALPN
      BY <2>3 DEF AfterExtension
    <3> QED
      BY <2>5, <3>1 DEF ListsListed
  <2> QED
    BY <2>6, <2>7, FieldsKept
<1>6. CASE NextName
  <2>1. /\ pc = "names"
        /\ \/ UNCHANGED <<pc, hello>>
           \/ \E name : pc' = "extension" /\ hello' = [hello EXCEPT !.sni = <<name>>]
    BY <1>6 DEF NextName
  <2>2. CASE UNCHANGED <<pc, hello>>
    BY <2>2, SameVectors, FieldsKept DEF VectorsOf, ListsListed, Listed
  <2>3. ASSUME NEW name, pc' = "extension", hello' = [hello EXCEPT !.sni = <<name>>]
        PROVE  FieldsHaveExtensions' /\ ListsListed'
    <3>1. /\ hello'.extensions = hello.extensions /\ hello'.alpn = hello.alpn
          /\ hello'.curves = hello.curves /\ hello'.point_formats = hello.point_formats
          /\ hello'.sig_algs = hello.sig_algs
          /\ hello'.supported_versions = hello.supported_versions
      BY <1>1, <2>3 DEF Hello
    <3>2. \A etype : Listed(etype) => Listed(etype)'
      BY <3>1 DEF Listed
    <3>3. Listed(SERVER_NAME)'
      BY <2>1, <3>2 DEF ListsListed
    <3>4. FieldsSet
      BY <3>1, <3>2, <3>3 DEF FieldsSet, SetUnder
    <3> QED
      BY <2>3, <3>4, FieldsKept DEF ListsListed
  <2> QED
    BY <2>1, <2>2, <2>3
<1>7. CASE NextProtocol
  <2>1. /\ pc = "protocols" /\ pc' = pc
        /\ \E name : hello' = [hello EXCEPT !.alpn = Append(hello.alpn, name)]
    BY <1>7 DEF NextProtocol
  <2>2. /\ hello'.extensions = hello.extensions /\ hello'.sni = hello.sni
        /\ hello'.curves = hello.curves /\ hello'.point_formats = hello.point_formats
        /\ hello'.sig_algs = hello.sig_algs
        /\ hello'.supported_versions = hello.supported_versions
    BY <1>1, <2>1 DEF Hello
  <2>3. \A etype : Listed(etype) => Listed(etype)'
    BY <2>2 DEF Listed
  <2>4. Listed(ALPN)'
    BY <2>1, <2>3 DEF ListsListed
  <2>5. FieldsSet
    BY <2>2, <2>3, <2>4 DEF FieldsSet, SetUnder
  <2> QED
    BY <2>1, <2>4, <2>5, FieldsKept DEF ListsListed
<1>8. CASE Done
  BY <1>8, SameVectors, FieldsKept DEF Done, vars, VectorsOf, ListsListed, Listed
<1> QED
  BY <1>2, <1>3, <1>4, <1>5, <1>6, <1>7, <1>8, Cases

\* The decoder's sni column and the SNI flag of JA4 cannot disagree, nor any
\* other field with the extension list, whatever the capture.
THEOREM FieldsListed == Spec => []FieldsHaveExtensions
<1>1. Init => FieldsHaveExtensions /\ ListsListed
  BY DEF Init, Call, Default, FieldsHaveExtensions, ListsListed
<1>2. Safe /\ (FieldsHaveExtensions /\ ListsListed) /\ [Next]_vars
        => (FieldsHaveExtensions /\ ListsListed)'
  <2> SUFFICES ASSUME Safe, FieldsHaveExtensions, ListsListed, [Next]_vars
               PROVE  FieldsHaveExtensions' /\ ListsListed'
    OBVIOUS
  <2>1. CASE UNCHANGED vars
    BY <2>1 DEF vars, FieldsHaveExtensions, ListsListed, Listed
  <2> QED
    BY <2>1, FieldsStep
<1> QED
  BY <1>1, <1>2, SafeAlways, PTL DEF Spec

-----------------------------------------------------------------------------
\* The header that is_tls_handshake has read.
LEMMA HeaderIs ==
    ASSUME data \in Seq(Byte), Admitted
    PROVE  /\ Message.pos \in Nat /\ Message.end \in Nat /\ Declared \in Nat
           /\ Message.pos + 4 + Declared <= Message.end
           /\ Declared >= 2 + RandomLen
<1>1. Within(data, Message)
  BY StripWithin DEF Message
<1>2. /\ Has(Message, 4) /\ Has(Advance(Message, 4), Declared) /\ Declared >= 2 + RandomLen
  BY DEF Admitted, IsTlsHandshake, Declared, Message
<1>3. /\ Message.pos \in Nat /\ Message.end \in Nat /\ Message.pos + 4 <= Message.end
      /\ Message.pos <= Message.end
  BY <1>1, <1>2 DEF Within, Window, Has, Remaining
<1>4. Within(data, Advance(Message, 1)) /\ Has(Advance(Message, 1), 3)
  <2>1. Has(Message, 1)
    BY <1>3 DEF Has, Remaining
  <2>2. /\ Within(data, Advance(Message, 1))
        /\ Advance(Message, 1).pos = Message.pos + 1 /\ Advance(Message, 1).end = Message.end
    BY <1>1, <2>1, AdvanceWithin
  <2> QED
    BY <1>3, <2>2 DEF Has, Remaining
<1>5. Declared \in Nat
  BY <1>4, ReadU24 DEF Declared
<1>6. Advance(Message, 4).pos = Message.pos + 4 /\ Advance(Message, 4).end = Message.end
  BY <1>1, <1>2, AdvanceWithin
<1>7. Message.pos + 4 + Declared <= Message.end
  BY <1>2, <1>3, <1>5, <1>6 DEF Has, Remaining
<1> QED
  BY <1>2, <1>3, <1>5, <1>7

LEMMA SameCapture ==
    ASSUME Next
    PROVE  data' = data /\ side' = side
BY DEF Next, Step, Reject, CheckType, TakeBody, ReadVersion, SkipRandom, SkipSessionId,
       TakeCipherSuites, PushCipher, EndCiphers, SkipCompressionMethods, ReadSelected,
       NoExtensions, OpenExtensions, NextExtension, EndExtensions, NextName, EndNames,
       NextProtocol, EndProtocols, Done, vars

LEMMA ReachedStep ==
    ASSUME Safe, Admitted, Reached, Next
    PROVE  Reached'
<1> DEFINE p == Message.pos
           e == Message.end
           len == Declared
<1>1. /\ p \in Nat /\ e \in Nat /\ len \in Nat /\ p + 4 + len <= e /\ len >= 34
  BY HeaderIs DEF Safe, TypeOK, RandomLen
<1>2. data' = data /\ side' = side /\ Message' = Message /\ Declared' = Declared
  BY SameCapture DEF Message, Declared
<1>3. Positions /\ data \in Seq(Byte) /\ Within(data, r)
  BY Unread, ReadersWithin DEF Safe, TypeOK
<1>4. /\ pc = "type" => r = Message
      /\ pc = "length" => r.pos = p + 1 /\ r.end = e
      /\ pc = "version" => r.pos = p + 4
      /\ pc = "random" => r.pos = p + 6
      /\ pc \notin {"type", "length"} => r.end = p + 4 + len
      /\ pc \notin {"type", "length", "version", "random"} => r.pos >= p + 38
  <2>1. p + 4 + 2 + RandomLen = p + 38
    BY <1>1 DEF RandomLen
  <2> QED
    BY <2>1 DEF Reached
<1>5. ASSUME pc' = "type" => r' = Message,
             pc' = "length" => r'.pos = p + 1 /\ r'.end = e,
             pc' = "version" => r'.pos = p + 4,
             pc' = "random" => r'.pos = p + 6,
             pc' \notin {"type", "length"} => r'.end = p + 4 + len,
             pc' \notin {"type", "length", "version", "random"} => r'.pos >= p + 38
      PROVE  Reached'
  <2>1. p + 4 + 2 + RandomLen = p + 38
    BY <1>1 DEF RandomLen
  <2> QED
    BY <1>2, <1>5, <2>1 DEF Reached
<1> HIDE DEF p, e, len
<1>6. CASE CheckType
  <2>1. pc = "type" /\ pc' = "length" /\ Has(r, 1) /\ r' = Advance(r, 1)
    BY <1>6 DEF CheckType, Readable
  <2>2. r'.pos = r.pos + 1 /\ r'.end = r.end
    BY <1>3, <2>1, AdvanceWithin
  <2>3. r.pos = p /\ r.end = e
    BY <1>4, <2>1 DEF p, e
  <2> QED
    BY <1>5, <2>1, <2>2, <2>3
<1>7. CASE TakeBody
  <2>1. pc = "length" /\ pc' = "version" /\ Has(r, 3)
    BY <1>7 DEF TakeBody, Readable
  <2>2. r.pos = p + 1 /\ r.end = e
    BY <1>4, <2>1
  <2>3. U24(data, r) = len
    <3>1. Advance(Message, 1).pos = r.pos
      <4>1. Message \in Window
        BY <1>3, StripWithin DEF Message, Within
      <4> QED
        BY <2>2, <4>1 DEF Advance, Window, p
    <3> QED
      BY <3>1 DEF U24, len, Declared
  <2>4. Has(Advance(r, 3), len)
    <3>1. Advance(r, 3).pos = r.pos + 3 /\ Advance(r, 3).end = r.end
      BY <1>3, <2>1, AdvanceWithin
    <3>2. r.pos + 3 = p + 4
      BY <1>1, <2>2
    <3> QED
      BY <1>1, <2>2, <3>1, <3>2 DEF Has, Remaining
  <2>5. r'.pos = r.pos + 3 /\ r'.end = r.pos + 3 + len
    BY <1>7, <2>3, <2>4, TakeBodyMoves
  <2>6. r'.pos = p + 4 /\ r'.end = p + 4 + len
    BY <1>1, <2>2, <2>5
  <2> QED
    BY <1>5, <2>1, <2>6
<1>8. CASE ReadVersion
  <2>1. pc = "version" /\ pc' = "random" /\ Has(r, 2) /\ r' = Advance(r, 2)
    BY <1>8 DEF ReadVersion, Readable
  <2>2. r'.pos = r.pos + 2 /\ r'.end = r.end
    BY <1>3, <2>1, AdvanceWithin
  <2>3. r'.pos = p + 6 /\ r'.end = p + 4 + len
    BY <1>1, <1>4, <2>1, <2>2
  <2> QED
    BY <1>5, <2>1, <2>3
<1>9. CASE SkipRandom
  <2>1. pc = "random" /\ pc' = "session" /\ Has(r, 32) /\ r' = Advance(r, 32)
    BY <1>9 DEF SkipRandom, Readable, RandomLen
  <2>2. r'.pos = r.pos + 32 /\ r'.end = r.end
    BY <1>3, <2>1, AdvanceWithin
  <2>3. r'.pos >= p + 38 /\ r'.end = p + 4 + len
    BY <1>1, <1>4, <2>1, <2>2
  <2> QED
    BY <1>5, <2>1, <2>3
<1>10. ASSUME pc \notin {"type", "length", "version", "random"},
              pc' \notin {"type", "length", "version", "random"},
              r'.end = r.end, r'.pos \in Nat, r'.pos >= r.pos
       PROVE  Reached'
  <2>1. r.end = p + 4 + len /\ r.pos >= p + 38
    BY <1>4, <1>10
  <2>2. r'.pos >= p + 38
    BY <1>1, <1>3, <1>10, <2>1 DEF Positions
  <2> QED
    BY <1>5, <1>10, <2>1, <2>2
<1>11. CASE SkipSessionId \/ SkipCompressionMethods \/ ReadSelected
  <2>1. /\ pc \notin {"type", "length", "version", "random"}
        /\ pc' \notin {"type", "length", "version", "random"}
    BY <1>11 DEF SkipSessionId, SkipCompressionMethods, ReadSelected
  <2>2. r'.end = r.end /\ r'.pos \in Nat /\ r'.pos >= r.pos
    <3>1. HeaderRead
      BY <1>11 DEF HeaderRead
    <3>2. /\ r' \in Window /\ r'.end = r.end /\ r.pos < r'.pos /\ r'.pos <= r'.end
      BY <1>3, <3>1, HeaderMoves
    <3> QED
      BY <1>3, <3>2 DEF Positions, Window
  <2> QED
    BY <1>10, <2>1, <2>2
<1>12. CASE TakeCipherSuites \/ OpenExtensions
  <2>1. /\ pc \notin {"type", "length", "version", "random"}
        /\ pc' \notin {"type", "length", "version", "random"}
    BY <1>12 DEF TakeCipherSuites, OpenExtensions
  <2>2. r'.end = r.end /\ r'.pos \in Nat /\ r'.pos >= r.pos
    BY <1>3, <1>12, OpenMoves DEF Positions, Window
  <2> QED
    BY <1>10, <2>1, <2>2
<1>13. CASE PushCipher \/ NextExtension \/ NextName \/ NextProtocol
  <2>1. /\ pc \notin {"type", "length", "version", "random"}
        /\ pc' \notin {"type", "length", "version", "random"}
        /\ r' = r
    BY <1>13 DEF PushCipher, NextExtension, AfterExtension, NextName, NextProtocol
  <2> QED
    BY <1>3, <1>10, <2>1 DEF Positions
<1>14. CASE Idle
  <2>1. r' = r
    BY <1>14, IdleMoves
  <2>2. pc \notin {"type", "length", "version", "random"}
    <3>1. pc = "type" => Has(r, 1) /\ U8(data, r) = HandshakeType[side]
      BY <1>1, <1>3, <1>4 DEF Has, Remaining, Admitted, p, e
    <3>2. pc = "length" => Has(r, 3)
      BY <1>1, <1>3, <1>4 DEF Has, Remaining
    <3>3. pc = "version" => Has(r, 2)
      BY <1>1, <1>3, <1>4 DEF Has, Remaining
    <3>4. pc = "random" => Has(r, RandomLen)
      BY <1>1, <1>3, <1>4 DEF Has, Remaining, RandomLen
    <3>5. pc \in {"type", "length", "version", "random"} => Readable
      BY <3>1, <3>2, <3>3, <3>4 DEF Readable
    <3>6. pc \in {"type", "length", "version", "random"} => Reject
      BY <1>14 DEF Idle, EndCiphers, NoExtensions, EndExtensions, EndNames, EndProtocols
    <3> QED
      BY <3>5, <3>6 DEF Reject
  <2>3. pc' \notin {"type", "length", "version", "random"}
    BY <1>14, IdleMoves DEF Returned
  <2> QED
    BY <1>3, <1>10, <2>1, <2>2, <2>3 DEF Positions
<1>15. CASE Done
  <2>1. pc' = pc /\ r' = r
    BY <1>15 DEF Done, vars
  <2> QED
    BY <1>4, <1>5, <2>1
<1> QED
  BY <1>6, <1>7, <1>8, <1>9, <1>11, <1>12, <1>13, <1>14, <1>15, Cases DEF HeaderRead

\* guard.rs and parser.rs agree on every capture: a hello that
\* is_tls_handshake accepts is taken whole, and its parser returns None only
\* behind the random.
THEOREM GuardSound == Spec => []GuardAdmits
<1>1. Init => Guarded
  BY DEF Init, Call, Guarded, Reached, Message
<1>2. Safe /\ Guarded /\ [Next]_vars => Guarded'
  <2> SUFFICES ASSUME Safe, Guarded, [Next]_vars, Admitted' PROVE Reached'
    BY DEF Guarded
  <2>1. CASE UNCHANGED vars
    BY <2>1 DEF vars, Guarded, Admitted, Reached, Message, Declared
  <2>2. CASE Next
    <3>1. Admitted
      BY <2>2, SameCapture DEF Admitted, Message
    <3> QED
      BY <2>2, <3>1, ReachedStep DEF Guarded
  <2> QED
    BY <2>1, <2>2
<1>3. Guarded => GuardAdmits
  BY DEF Guarded, Admitted, Reached, GuardAdmits, Declared
<1> QED
  BY <1>1, <1>2, <1>3, SafeAlways, PTL DEF Spec
=============================================================================
