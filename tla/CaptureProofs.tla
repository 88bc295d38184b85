---------------------------- MODULE CaptureProofs ----------------------------
(***************************************************************************)
(* What a captured hello is decoded to, for every hello that can be        *)
(* encoded and every delivery: RoundTrip, SidesAreDisjoint,                *)
(* CutBeforeExtensionsIsNull and DamageInventsNothing of Capture.          *)
(*                                                                         *)
(* The argument is about the reference functions of HelloReference, which  *)
(* RefinementProofs shows the parser to compute: what each of them answers *)
(* for a prefix of what Fixtures encodes, from the lists inside one        *)
(* extension up to the message, and then for the payload of a capture.     *)
(***************************************************************************)
EXTENDS Capture, RefinementProofs

\* The bodies of the extensions that the parser decodes: what a prefix of one
\* is decoded to is a prefix of what it was built from.
Beginning(f, v, whole) == \E k \in 0 .. Len(v) : f = Upto(v, k) /\ (whole => k = Len(v))

LEMMA Vec16Part ==
    ASSUME NEW w \in Seq(Byte), Len(w) \in Word, NEW k \in 0 .. Len(Vec16(w))
    PROVE  Beginning(Content(Upto(Vec16(w), k), 2), w, k = Len(Vec16(w)))
<1> DEFINE a == Vec16(w)
           s == Upto(a, k)
<1>1. /\ <<>> \in Seq(Byte) /\ Len(<<>>) = 0 /\ Len(w) \in Nat
      /\ 0 \in 0 .. 2 + Len(w) + Len(<<>>)
  BY LenProperties
<1>2. a \in Seq(Byte) /\ Len(a) = 2 + Len(w)
  BY <1>1, Vec16Cut
<1>3. a \o <<>> = a
  BY <1>2, ConcatEmptySeq
<1>4. k \in Nat /\ k <= 2 + Len(w) /\ k \in 0 .. 2 + Len(w) + Len(<<>>)
  BY <1>1, <1>2
<1>5. /\ k < 2 => Content(Upto(a \o <<>>, k), 2) = <<>>
      /\ k >= 2 => Content(Upto(a \o <<>>, k), 2) = Part(w, k - 2)
  BY <1>1, <1>4, Vec16Cut, ZenonT(60)
<1> HIDE DEF a
<1>6. CASE k < 2
  <2>1. Upto(w, 0) = <<>>
    <3>1. 0 \in 0 .. Len(w)
      BY <1>1
    <3>2. Upto(w, 0) \in Seq(Byte) /\ Len(Upto(w, 0)) = 0
      BY <3>1, UptoIs
    <3> QED
      BY <3>2, EmptySeq
  <2>2. 0 \in 0 .. Len(w) /\ k # Len(a)
    BY <1>1, <1>2, <1>6
  <2> QED
    BY <1>3, <1>5, <1>6, <2>1, <2>2 DEF Beginning, a
<1>7. CASE k >= 2
  <2> DEFINE j == IF k - 2 <= Len(w) THEN k - 2 ELSE Len(w)
  <2>1. j \in 0 .. Len(w) /\ (k = Len(a) => j = Len(w))
    BY <1>1, <1>2, <1>4, <1>7
  <2>2. Content(s, 2) = Upto(w, j)
    BY <1>3, <1>5, <1>7 DEF Part
  <2> HIDE DEF j
  <2> QED
    BY <2>1, <2>2 DEF Beginning, a
<1> QED
  BY <1>4, <1>6, <1>7

LEMMA Vec8Part ==
    ASSUME NEW w \in Seq(Byte), Len(w) \in Byte, NEW k \in 0 .. Len(Vec8(w))
    PROVE  Beginning(Content(Upto(Vec8(w), k), 1), w, k = Len(Vec8(w)))
<1> DEFINE a == Vec8(w)
           s == Upto(a, k)
<1>1. /\ <<>> \in Seq(Byte) /\ Len(<<>>) = 0 /\ Len(w) \in Nat
      /\ 0 \in 0 .. 1 + Len(w) + Len(<<>>)
  BY LenProperties
<1>2. a \in Seq(Byte) /\ Len(a) = 1 + Len(w)
  BY <1>1, Vec8Cut
<1>3. a \o <<>> = a
  BY <1>2, ConcatEmptySeq
<1>4. k \in Nat /\ k <= 1 + Len(w) /\ k \in 0 .. 1 + Len(w) + Len(<<>>)
  BY <1>1, <1>2
<1>5. /\ k < 1 => Content(Upto(a \o <<>>, k), 1) = <<>>
      /\ k >= 1 => Content(Upto(a \o <<>>, k), 1) = Part(w, k - 1)
  BY <1>1, <1>4, Vec8Cut, ZenonT(60)
<1> HIDE DEF a
<1>6. CASE k < 1
  <2>1. Upto(w, 0) = <<>>
    <3>1. 0 \in 0 .. Len(w)
      BY <1>1
    <3>2. Upto(w, 0) \in Seq(Byte) /\ Len(Upto(w, 0)) = 0
      BY <3>1, UptoIs
    <3> QED
      BY <3>2, EmptySeq
  <2>2. 0 \in 0 .. Len(w) /\ k # Len(a)
    BY <1>1, <1>2, <1>6
  <2> QED
    BY <1>3, <1>5, <1>6, <2>1, <2>2 DEF Beginning, a
<1>7. CASE k >= 1
  <2> DEFINE j == IF k - 1 <= Len(w) THEN k - 1 ELSE Len(w)
  <2>1. j \in 0 .. Len(w) /\ (k = Len(a) => j = Len(w))
    BY <1>1, <1>2, <1>4, <1>7
  <2>2. Content(s, 1) = Upto(w, j)
    BY <1>3, <1>5, <1>7 DEF Part
  <2> HIDE DEF j
  <2> QED
    BY <2>1, <2>2 DEF Beginning, a
<1> QED
  BY <1>4, <1>6, <1>7

LEMMA NumbersBeginning ==
    ASSUME NEW v \in Seq(Word), NEW s, NEW whole \in BOOLEAN, Beginning(s, Be16s(v), whole)
    PROVE  Beginning(Numbers16(s), v, whole)
<1> DEFINE a == Be16s(v)
<1>1. a \in Seq(Byte) /\ Len(a) = 2 * Len(v) /\ Len(v) \in Nat
  BY Be16sIs, LenProperties DEF InPairs
<1> HIDE DEF a
<1>2. PICK k \in 0 .. Len(a) : s = Upto(a, k) /\ (whole => k = Len(a))
  BY DEF Beginning, a
<1>3. k \div 2 \in 0 .. Len(v) /\ Numbers16(s) = Upto(v, k \div 2)
  BY <1>2, Numbers16Cut DEF a
<1>4. whole => k \div 2 = Len(v)
  <2>1. \A n \in Nat : (2 * n) \div 2 = n
    OBVIOUS
  <2> QED
    BY <1>1, <1>2, <2>1
<1> QED
  BY <1>3, <1>4 DEF Beginning

LEMMA NamesBeginning ==
    ASSUME NEW v \in Seq(Name8), NEW s, NEW whole \in BOOLEAN, Beginning(s, Vec8s(v), whole)
    PROVE  Beginning(Protocols[s], Strings(v), whole)
<1>1. PICK n \in 0 .. Len(Vec8s(v)) :
          s = Upto(Vec8s(v), n) /\ (whole => n = Len(Vec8s(v)))
  BY DEF Beginning
<1>2. PICK k \in 0 .. Len(v) : Whole8(v, n, k)
  BY ProtocolsCut
<1>3. Len(Strings(v)) = Len(v)
  <2>1. DOMAIN v = 1 .. Len(v) /\ Len(v) \in Nat
    BY LenProperties
  <2> QED
    BY <2>1 DEF Strings
<1> QED
  BY <1>1, <1>2, <1>3 DEF Whole8, Beginning

\* A host name is complete or missing.
LEMMA HostBeginning ==
    ASSUME NEW v \in Seq(Byte), Len(v) \in Word,
           NEW s, NEW whole \in BOOLEAN, Beginning(s, << 0 >> \o Vec16(v), whole)
    PROVE  /\ HostName[s] \in {<<>>, <<FromUtf8Lossy(v)>>}
           /\ whole => HostName[s] = <<FromUtf8Lossy(v)>>
<1> DEFINE a == Vec16(v)
           z == <<0>>
           w == z \o a
<1>1. /\ <<>> \in Seq(Byte) /\ Len(<<>>) = 0 /\ Len(v) \in Nat
      /\ 0 \in 0 .. 2 + Len(v) + Len(<<>>)
  BY LenProperties
<1>2. a \in Seq(Byte) /\ Len(a) = 2 + Len(v)
  BY <1>1, Vec16Cut
<1>3. a \o <<>> = a
  BY <1>2, ConcatEmptySeq
<1>4. z \in Seq(Byte) /\ Len(z) = 1 /\ z[1] = 0
  BY DEF Byte
<1> HIDE DEF z
<1>5. /\ w \in Seq(Byte) /\ Len(w) = 3 + Len(v)
      /\ w[1] = 0
  <2> HIDE DEF a
  <2>0. a \in Seq(Byte) /\ z \in Seq(Byte)
    BY <1>2, <1>4
  <2>1. /\ w \in Seq(Byte) /\ Len(w) = Len(z) + Len(a)
        /\ \A i \in 1 .. Len(z) + Len(a) : w[i] = IF i <= Len(z) THEN z[i] ELSE a[i - Len(z)]
    BY ONLY <2>0, ConcatProperties
  <2>2. 1 \in 1 .. Len(z) + Len(a) /\ 1 <= Len(z)
    BY <1>1, <1>2, <1>4
  <2> QED
    BY <1>1, <1>2, <1>4, <2>1, <2>2
<1>6. PICK k \in 0 .. Len(w) : s = Upto(w, k) /\ (whole => k = Len(w))
  BY DEF Beginning, z
<1>7. k \in Nat /\ k <= 3 + Len(v)
  BY <1>1, <1>5
<1>8. s \in Seq(Byte) /\ Len(s) = k /\ \A i \in 1 .. k : s[i] = w[i]
  <2> HIDE DEF w
  <2> QED
    BY <1>5, <1>6, UptoIs
<1>9. CASE k < 3
  <2>1. HostName[s] = <<>>
    BY <1>8, <1>9, HostNameIs
  <2>2. k # Len(w)
    BY <1>1, <1>5, <1>9
  <2> QED
    BY <1>6, <2>1, <2>2
<1>10. CASE k >= 3
  <2> DEFINE m == k - 1
             t == Upto(a, m)
  <2>1. m \in 0 .. Len(a) /\ k \in 0 .. Len(z) + Len(a) /\ k >= Len(z) /\ k - Len(z) = m
    BY <1>1, <1>2, <1>4, <1>7, <1>10
  <2>2. s = z \o t
    <3> HIDE DEF a, m
    <3> QED
      BY <1>2, <1>4, <1>6, <2>1, UptoCat
  <2>3. t \in Seq(Byte)
    BY <1>2, <2>1, UptoIs
  <2>4. Drop(s, 1) = t
    <3> HIDE DEF t
    <3>1. Drop(z \o t, Len(z)) = t
      BY <1>4, <2>3, DropCat
    <3> QED
      BY <1>4, <2>2, <3>1
  <2>5. /\ Fits(t, 2) <=> m >= 2 + Len(v)
        /\ m >= 2 + Len(v) => Content(t, 2) = v
    <3>1. m \in 0 .. 2 + Len(v) + Len(<<>>)
      BY <1>1, <1>2, <2>1
    <3> HIDE DEF m
    <3>2. /\ Fits(Upto(a \o <<>>, m), 2) <=> m >= 2 + Len(v)
          /\ m >= 2 + Len(v) => Content(Upto(a \o <<>>, m), 2) = v
      BY <1>1, <3>1, Vec16Cut
    <3> HIDE DEF a
    <3> QED
      BY <1>3, <3>2
  <2> HIDE DEF t
  <2>6. CASE m >= 2 + Len(v)
    <3>1. s[1] = 0 /\ ~(Len(s) < 3)
      BY <1>5, <1>8, <1>10
    <3>2. HostName[s] = <<FromUtf8Lossy(Content(t, 2))>>
      BY <1>8, <2>4, <2>5, <2>6, <3>1, HostNameIs
    <3> QED
      BY <2>5, <2>6, <3>2
  <2>7. CASE ~(m >= 2 + Len(v))
    <3>1. HostName[s] = <<>>
      BY <1>8, <2>4, <2>5, <2>7, HostNameIs
    <3>2. k # Len(w)
      BY <1>1, <1>5, <2>7
    <3> QED
      BY <1>6, <3>1, <3>2
  <2> QED
    BY <2>6, <2>7
<1> QED
  BY <1>7, <1>9, <1>10

\* The length of a vector does not depend on whether a length field overflows.
LEMMA VectorLengths ==
    ASSUME NEW v \in Seq(Int)
    PROVE  /\ Len(v) \in Nat
           /\ Vec16(v) \in Seq(Int) /\ Len(Vec16(v)) = 2 + Len(v)
           /\ Vec8(v) \in Seq(Int) /\ Len(Vec8(v)) = 1 + Len(v)
<1>1. Len(v) \in Nat
  BY LenProperties
<1>2. ASSUME NEW n \in Nat
      PROVE  Be16(n) \in Seq(Int) /\ Len(Be16(n)) = 2
  BY DEF Be16
<1>3. <<Len(v)>> \in Seq(Int) /\ Len(<<Len(v)>>) = 1
  BY <1>1
<1> DEFINE p == Be16(Len(v))
           q == <<Len(v)>>
<1>4. p \in Seq(Int) /\ Len(p) = 2 /\ q \in Seq(Int) /\ Len(q) = 1
  BY <1>1, <1>2, <1>3
<1> HIDE DEF p, q
<1>5. p \o v \in Seq(Int) /\ Len(p \o v) = 2 + Len(v)
  <2>1. p \in Seq(Int)
    BY <1>4
  <2>2. p \o v \in Seq(Int) /\ Len(p \o v) = Len(p) + Len(v)
    BY <2>1, ConcatProperties
  <2> QED
    BY <1>4, <2>2
<1>6. q \o v \in Seq(Int) /\ Len(q \o v) = 1 + Len(v)
  <2>1. q \in Seq(Int)
    BY <1>4
  <2>2. q \o v \in Seq(Int) /\ Len(q \o v) = Len(q) + Len(v)
    BY <2>1, ConcatProperties
  <2> QED
    BY <1>4, <2>2
<1> QED
  BY <1>1, <1>5, <1>6 DEF Vec16, Vec8, p, q

LEMMA BytesInt == Seq(Byte) \subseteq Seq(Int)
<1>1. \A b \in Byte : b \in Int
  BY DEF Byte
<1> SUFFICES ASSUME NEW s \in Seq(Byte)
             PROVE  s \in Seq(Int)
  OBVIOUS
<1>2. Len(s) \in Nat /\ DOMAIN s = 1 .. Len(s) /\ \A i \in 1 .. Len(s) : s[i] \in Byte
  BY SeqIs
<1>3. \A i \in 1 .. Len(s) : s[i] \in Int
  BY <1>1, <1>2
<1>4. s = [i \in 1 .. Len(s) |-> s[i]]
  BY <1>2
<1> QED
  BY <1>2, <1>3, <1>4

LEMMA Smaller ==
    ASSUME NEW n \in Word, NEW m \in Nat, m <= n
    PROVE  m \in Word
<1>1. n \in Int /\ n <= 65535
  BY DEF Word
<1>2. m \in Int /\ 0 <= m /\ m <= 65535
  BY <1>1
<1> QED
  BY <1>2, InWord

LEMMA Vec16Bytes ==
    ASSUME NEW v \in Seq(Byte), Len(v) \in Word
    PROVE  Vec16(v) \in Seq(Byte) /\ Len(Vec16(v)) = 2 + Len(v) /\ Len(v) \in Nat
<1>1. Be16(Len(v)) \in Seq(Byte)
  BY Be16Is
<1>2. Vec16(v) \in Seq(Byte)
  BY <1>1, ConcatProperties DEF Vec16
<1> QED
  BY <1>2, BytesInt, VectorLengths

LEMMA Vec8Bytes ==
    ASSUME NEW v \in Seq(Byte), Len(v) <= 255
    PROVE  /\ Vec8(v) \in Seq(Byte) /\ Len(Vec8(v)) = 1 + Len(v)
           /\ Len(v) \in Nat /\ Len(v) \in Byte
<1>1. Len(v) \in Nat
  BY LenProperties
<1>2. Len(v) \in Byte
  BY <1>1, InByte
<1>3. Vec8(v) \in Seq(Byte)
  <2> DEFINE q == <<Len(v)>>
  <2>1. q \in Seq(Byte)
    BY <1>2
  <2> HIDE DEF q
  <2>2. q \o v \in Seq(Byte)
    BY <2>1, ConcatProperties
  <2> QED
    BY <2>2 DEF Vec8, q
<1> QED
  BY <1>1, <1>2, <1>3, BytesInt, VectorLengths

\* The list in the body of an extension, with its length field.
LEMMA Body0 ==
    ASSUME NEW v \in Seq(Byte), Len(Vec16(<< 0 >> \o Vec16(v))) \in Word
    PROVE  /\ <<0>> \o Vec16(v) \in Seq(Byte) /\ Len(<<0>> \o Vec16(v)) \in Word
           /\ Len(v) \in Word
<1> DEFINE a == Vec16(v)
           z == <<0>>
           w == z \o a
<1>1. v \in Seq(Int) /\ Len(v) \in Nat
  BY BytesInt, LenProperties
<1>2. a \in Seq(Int) /\ Len(a) = 2 + Len(v)
  BY <1>1, VectorLengths
<1>3. z \in Seq(Int) /\ Len(z) = 1 /\ z \in Seq(Byte)
  BY DEF Byte
<1>03. Len(Vec16(w)) \in Word
  OBVIOUS
<1> HIDE DEF z, a
<1>4. w \in Seq(Int) /\ Len(w) = 3 + Len(v) /\ Len(w) \in Nat
  <2>1. w \in Seq(Int) /\ Len(w) = Len(z) + Len(a)
    BY <1>2, <1>3, ConcatProperties
  <2> QED
    BY <1>1, <1>2, <1>3, <2>1
<1> HIDE DEF w
<1>5. Len(Vec16(w)) = 2 + Len(w)
  BY <1>4, VectorLengths
<1>6. Len(v) \in Word /\ Len(w) \in Word
  <2>1. Len(v) <= Len(Vec16(w)) /\ Len(w) <= Len(Vec16(w))
    BY <1>1, <1>4, <1>5
  <2> QED
    BY <1>1, <1>03, <1>4, <2>1, Smaller
<1>7. a \in Seq(Byte)
  BY <1>6, Vec16Bytes DEF a
<1>8. w \in Seq(Byte)
  BY <1>3, <1>7, ConcatProperties DEF w
<1> QED
  BY <1>6, <1>8 DEF w, z, a

LEMMA Body16 ==
    ASSUME NEW w \in Seq(Byte), Len(Vec16(w)) \in Word
    PROVE  Len(w) \in Word
<1>1. Len(w) \in Nat /\ Len(Vec16(w)) = 2 + Len(w)
  BY BytesInt, VectorLengths
<1>2. Len(w) <= Len(Vec16(w))
  BY <1>1
<1> QED
  BY <1>1, <1>2, Smaller

LEMMA Body43 ==
    ASSUME NEW v \in Seq(Word), Len(v) <= 127
    PROVE  Be16s(v) \in Seq(Byte) /\ Len(Be16s(v)) <= 255
<1>1. Be16s(v) \in Seq(Byte) /\ Len(Be16s(v)) = 2 * Len(v) /\ Len(v) \in Nat
  BY Be16sIs, LenProperties DEF InPairs
<1> QED
  BY <1>1

\* What the cases of an extension that can be encoded are.
LEMMA EncodableIs ==
    ASSUME NEW e, Encodable(e)
    PROVE  /\ e.type \in Word /\ Len(ExtBody(e)) \in Word
           /\ e.type = 0 => /\ e.value \in Seq(Byte)
                            /\ ExtBody(e) = Vec16(<<0>> \o Vec16(e.value))
           /\ e.type \in {10, 13} => /\ e.value \in Seq(Word)
                                     /\ ExtBody(e) = Vec16(Be16s(e.value))
           /\ e.type = 11 => /\ e.value \in Seq(Byte) /\ Len(e.value) <= 255
                             /\ ExtBody(e) = Vec8(e.value)
           /\ e.type = 16 => e.value \in Seq(Name8) /\ ExtBody(e) = Vec16(Vec8s(e.value))
           /\ e.type = 43 => /\ e.value \in Seq(Word) /\ Len(e.value) <= 127
                             /\ ExtBody(e) = Vec8(Be16s(e.value))
           /\ e.type \notin {0, 10, 11, 13, 16, 43} =>
                 e.value \in Seq(Byte) /\ ExtBody(e) = e.value
<1>1. e.type \in Word /\ Len(ExtBody(e)) \in Word /\ e.value \in Values(e.type)
  BY DEF Encodable
<1>2. CASE e.type = 0
  BY <1>1, <1>2 DEF Values, ExtBody
<1>3. CASE e.type \in {10, 13}
  BY <1>1, <1>3 DEF Values, ExtBody
<1>4. CASE e.type = 11
  BY <1>1, <1>4 DEF Values, ExtBody
<1>5. CASE e.type = 16
  BY <1>1, <1>5 DEF Values, ExtBody, Name8
<1>6. CASE e.type = 43
  BY <1>1, <1>6 DEF Values, ExtBody
<1>7. CASE e.type \notin {0, 10, 11, 13, 16, 43}
  BY <1>1, <1>7 DEF Values, ExtBody
<1> QED
  BY <1>1, <1>2, <1>3, <1>4, <1>5, <1>6, <1>7

LEMMA EncodableFits ==
    ASSUME NEW S, \A e \in S : Encodable(e)
    PROVE  Fitting(S)
<1> SUFFICES ASSUME NEW e \in S
             PROVE  /\ e.type \in Word /\ ExtBody(e) \in Seq(Byte)
                    /\ Len(ExtBody(e)) \in Word
  BY DEF Fitting
<1>1. Encodable(e)
  OBVIOUS
<1>2. e.type \in Word /\ Len(ExtBody(e)) \in Word
  BY <1>1, EncodableIs
<1>3. CASE e.type = 0
  <2>1. e.value \in Seq(Byte) /\ ExtBody(e) = Vec16(<<0>> \o Vec16(e.value))
    BY <1>1, <1>3, EncodableIs
  <2> DEFINE w == <<0>> \o Vec16(e.value)
  <2>2. w \in Seq(Byte) /\ Len(w) \in Word
    BY <1>2, <2>1, Body0
  <2> HIDE DEF w
  <2>3. Vec16(w) \in Seq(Byte)
    BY <2>2, Vec16Bytes
  <2> QED
    BY <1>2, <2>1, <2>3 DEF w
<1>4. CASE e.type \in {10, 13}
  <2>1. e.value \in Seq(Word) /\ ExtBody(e) = Vec16(Be16s(e.value))
    BY <1>1, <1>4, EncodableIs
  <2>2. Be16s(e.value) \in Seq(Byte)
    BY <2>1, Be16sIs DEF InPairs
  <2>3. Vec16(Be16s(e.value)) \in Seq(Byte)
    BY <1>2, <2>1, <2>2, Body16, Vec16Bytes
  <2> QED
    BY <1>2, <2>1, <2>3
<1>5. CASE e.type = 11
  <2>1. e.value \in Seq(Byte) /\ Len(e.value) <= 255 /\ ExtBody(e) = Vec8(e.value)
    BY <1>1, <1>5, EncodableIs
  <2> QED
    BY <1>2, <2>1, Vec8Bytes
<1>6. CASE e.type = 16
  <2>1. e.value \in Seq(Name8) /\ ExtBody(e) = Vec16(Vec8s(e.value))
    BY <1>1, <1>6, EncodableIs
  <2>2. Vec8s(e.value) \in Seq(Byte)
    BY <2>1, Vec8sIs
  <2>3. Vec16(Vec8s(e.value)) \in Seq(Byte)
    BY <1>2, <2>1, <2>2, Body16, Vec16Bytes
  <2> QED
    BY <1>2, <2>1, <2>3
<1>7. CASE e.type = 43
  <2>1. /\ e.value \in Seq(Word) /\ Len(e.value) <= 127
        /\ ExtBody(e) = Vec8(Be16s(e.value))
    BY <1>1, <1>7, EncodableIs
  <2>2. Be16s(e.value) \in Seq(Byte) /\ Len(Be16s(e.value)) <= 255
    BY <2>1, Body43
  <2>3. Vec8(Be16s(e.value)) \in Seq(Byte)
    BY <2>2, Vec8Bytes
  <2> QED
    BY <1>2, <2>1, <2>3
<1>8. CASE e.type \notin {0, 10, 11, 13, 16, 43}
  BY <1>1, <1>2, <1>8, EncodableIs
<1> QED
  BY <1>3, <1>4, <1>5, <1>6, <1>7, <1>8

\* What a prefix of the body of an extension is decoded to.
Legible(e, x, whole) ==
    /\ e.type \in {10, 13} => Beginning(Numbers16(Content(x, 2)), AsParsed(e), whole)
    /\ e.type = 11 => Beginning(Content(x, 1), AsParsed(e), whole)
    /\ e.type = 43 => Beginning(Numbers16(Content(x, 1)), AsParsed(e), whole)
    /\ e.type = 16 => Beginning(Protocols[Content(x, 2)], AsParsed(e), whole)
    /\ e.type = 0 => /\ HostName[Content(x, 2)] \in {<<>>, <<AsParsed(e)>>}
                     /\ whole => HostName[Content(x, 2)] = <<AsParsed(e)>>

LEMMA Decoding ==
    ASSUME NEW e, Encodable(e), NEW k \in 0 .. Len(ExtBody(e))
    PROVE  Legible(e, Upto(ExtBody(e), k), k = Len(ExtBody(e)))
<1> DEFINE b == ExtBody(e)
           x == Upto(b, k)
           v == e.value
           whole == k = Len(b)
<1>1. Len(b) \in Word
  BY EncodableIs
<1>2. ASSUME e.type \in {10, 13}
      PROVE  Beginning(Numbers16(Content(x, 2)), AsParsed(e), whole)
  <2>1. v \in Seq(Word) /\ b = Vec16(Be16s(v)) /\ AsParsed(e) = v
    BY <1>2, EncodableIs DEF AsParsed
  <2> DEFINE w == Be16s(v)
  <2>2. w \in Seq(Byte)
    BY <2>1, Be16sIs DEF InPairs
  <2>3. Len(w) \in Word
    BY <1>1, <2>1, <2>2, Body16
  <2> HIDE DEF w, v
  <2>4. Beginning(Content(Upto(Vec16(w), k), 2), w, k = Len(Vec16(w)))
    BY <2>1, <2>2, <2>3, Vec16Part DEF w
  <2>5. whole \in BOOLEAN /\ Beginning(Content(x, 2), w, whole)
    BY <2>1, <2>4 DEF w
  <2> HIDE DEF x, whole
  <2> QED
    BY <2>1, <2>5, NumbersBeginning DEF w
<1>3. ASSUME e.type = 11
      PROVE  Beginning(Content(x, 1), AsParsed(e), whole)
  <2>1. v \in Seq(Byte) /\ Len(v) <= 255 /\ b = Vec8(v) /\ AsParsed(e) = v
    BY <1>3, EncodableIs DEF AsParsed
  <2>2. Len(v) \in Byte
    BY <2>1, Vec8Bytes
  <2> HIDE DEF v
  <2>3. Beginning(Content(Upto(Vec8(v), k), 1), v, k = Len(Vec8(v)))
    BY <2>1, <2>2, Vec8Part
  <2> QED
    BY <2>1, <2>3
<1>4. ASSUME e.type = 43
      PROVE  Beginning(Numbers16(Content(x, 1)), AsParsed(e), whole)
  <2>1. v \in Seq(Word) /\ Len(v) <= 127 /\ b = Vec8(Be16s(v)) /\ AsParsed(e) = v
    BY <1>4, EncodableIs DEF AsParsed
  <2> DEFINE w == Be16s(v)
  <2>2. w \in Seq(Byte) /\ Len(w) <= 255
    BY <2>1, Body43
  <2>3. Len(w) \in Byte
    BY <2>2, Vec8Bytes
  <2> HIDE DEF w, v
  <2>4. Beginning(Content(Upto(Vec8(w), k), 1), w, k = Len(Vec8(w)))
    BY <2>1, <2>2, <2>3, Vec8Part DEF w
  <2>5. whole \in BOOLEAN /\ Beginning(Content(x, 1), w, whole)
    BY <2>1, <2>4 DEF w
  <2> HIDE DEF x, whole
  <2> QED
    BY <2>1, <2>5, NumbersBeginning DEF w
<1>5. ASSUME e.type = 16
      PROVE  Beginning(Protocols[Content(x, 2)], AsParsed(e), whole)
  <2>1. v \in Seq(Name8) /\ b = Vec16(Vec8s(v)) /\ AsParsed(e) = Strings(v)
    BY <1>5, EncodableIs DEF AsParsed, Strings
  <2> DEFINE w == Vec8s(v)
  <2>2. w \in Seq(Byte)
    BY <2>1, Vec8sIs
  <2>3. Len(w) \in Word
    BY <1>1, <2>1, <2>2, Body16
  <2> HIDE DEF w, v
  <2>4. Beginning(Content(Upto(Vec16(w), k), 2), w, k = Len(Vec16(w)))
    BY <2>1, <2>2, <2>3, Vec16Part DEF w
  <2>5. whole \in BOOLEAN /\ Beginning(Content(x, 2), w, whole)
    BY <2>1, <2>4 DEF w
  <2> HIDE DEF x, whole
  <2> QED
    BY <2>1, <2>5, NamesBeginning DEF w
<1>6. ASSUME e.type = 0
      PROVE  /\ HostName[Content(x, 2)] \in {<<>>, <<AsParsed(e)>>}
             /\ whole => HostName[Content(x, 2)] = <<AsParsed(e)>>
  <2>1. v \in Seq(Byte) /\ b = Vec16(<<0>> \o Vec16(v)) /\ AsParsed(e) = FromUtf8Lossy(v)
    BY <1>6, EncodableIs DEF AsParsed
  <2> DEFINE w == <<0>> \o Vec16(v)
  <2>2. w \in Seq(Byte) /\ Len(w) \in Word /\ Len(v) \in Word
    BY <1>1, <2>1, Body0
  <2> HIDE DEF w, v
  <2>4. Beginning(Content(Upto(Vec16(w), k), 2), w, k = Len(Vec16(w)))
    BY <2>1, <2>2, Vec16Part DEF w
  <2>5. whole \in BOOLEAN /\ Beginning(Content(x, 2), w, whole)
    BY <2>1, <2>4 DEF w
  <2> HIDE DEF x, whole
  <2> QED
    BY <2>1, <2>2, <2>5, HostBeginning DEF w
<1> QED
  BY <1>2, <1>3, <1>4, <1>5, <1>6 DEF Legible

-----------------------------------------------------------------------------
\* The body of a hello: what is in front of the extension block, and the block.

\* A body up to the session id, cut anywhere.
LEMMA OpeningCut ==
    ASSUME NEW v \in Word, NEW ses \in Seq(Byte), Len(ses) <= 255, NEW w \in Seq(Byte),
           NEW j \in 0 .. 35 + Len(ses) + Len(w)
    PROVE  LET s == Upto((Be16(v) \o Random) \o (Vec8(ses) \o w), j)
               n == 35 + Len(ses)
           IN /\ s \in Seq(Byte) /\ Len(s) = j
              /\ HasSession(s) <=> j >= n
              /\ j >= n => Number(s, 2) = v /\ AfterSession(s) = Upto(w, j - n)
<1> DEFINE p == Be16(v)
           a == p \o Random
           e == Vec8(ses)
           c == e \o w
           s == Upto(a \o c, j)
           n == 35 + Len(ses)
<1>1. /\ p \in Seq(Byte) /\ Len(p) = 2
      /\ \A u \in Seq(Byte) : Number(p \o u, 2) = v
  BY Be16Is, Be16Read
<1>2. Random \in Seq(Byte) /\ Len(Random) = 32
  BY DEF Random, Byte
<1>3. /\ e \in Seq(Byte) /\ Len(e) = 1 + Len(ses)
      /\ Len(ses) \in Nat /\ Len(ses) \in Byte /\ Len(w) \in Nat
  BY Vec8Bytes, LenProperties
<1> HIDE DEF p, e
<1>4. a \in Seq(Byte) /\ Len(a) = 34
  <2>1. a \in Seq(Byte) /\ Len(a) = Len(p) + Len(Random)
    BY <1>1, <1>2, ConcatProperties
  <2> QED
    BY <1>1, <1>2, <2>1
<1>5. c \in Seq(Byte) /\ Len(c) = 1 + Len(ses) + Len(w)
  <2>1. c \in Seq(Byte) /\ Len(c) = Len(e) + Len(w)
    BY <1>3, ConcatProperties
  <2> QED
    BY <1>3, <2>1
<1> HIDE DEF a, c
<1>6. a \o c \in Seq(Byte) /\ Len(a \o c) = 35 + Len(ses) + Len(w)
  <2>1. a \o c \in Seq(Byte) /\ Len(a \o c) = Len(a) + Len(c)
    BY <1>4, <1>5, ConcatProperties
  <2> QED
    BY <1>3, <1>4, <1>5, <2>1
<1>7. s \in Seq(Byte) /\ Len(s) = j
  <2>1. j \in 0 .. Len(a \o c)
    BY <1>6
  <2> QED
    BY <1>6, <2>1, UptoIs
<1>8. j \in Nat /\ j <= 35 + Len(ses) + Len(w)
  BY <1>3
<1>9. CASE j < 34
  <2>1. ~(Len(s) >= 35) /\ ~(j >= n)
    BY <1>3, <1>7, <1>8, <1>9
  <2> HIDE DEF s, n
  <2>2. ~HasSession(s)
    BY <2>1 DEF HasSession
  <2> QED
    BY <1>7, <2>1, <2>2 DEF s, n, a, p, c, e
<1>10. CASE j >= 34
  <2> DEFINE m == j - 34
             u == Upto(c, m)
  <2>1. /\ m \in 0 .. 1 + Len(ses) + Len(w) /\ m \in 0 .. Len(c)
        /\ j \in 0 .. Len(a) + Len(c) /\ j >= Len(a) /\ j - Len(a) = m
    BY <1>3, <1>4, <1>5, <1>8, <1>10
  <2>2. /\ j >= n <=> m >= 1 + Len(ses)
        /\ j >= n => m - (1 + Len(ses)) = j - n
        /\ j >= n => j >= 35
    BY <1>3, <1>8, <1>10
  <2> HIDE DEF m, n
  <2>3. u \in Seq(Byte)
    BY <1>5, <2>1, UptoIs
  <2>4. s = a \o u
    <3>1. Upto(a \o c, j) = a \o Upto(c, j - Len(a))
      BY ONLY <1>4, <1>5, <2>1, UptoCat
    <3>2. j - Len(a) = m
      BY <2>1
    <3> QED
      BY <3>1, <3>2
  <2>5. /\ Fits(u, 1) <=> m >= 1 + Len(ses)
        /\ m >= 1 + Len(ses) => After(u, 1) = Upto(w, m - (1 + Len(ses)))
    <3>1. /\ Fits(Upto(Vec8(ses) \o w, m), 1) <=> m >= 1 + Len(ses)
          /\ m >= 1 + Len(ses) =>
                After(Upto(Vec8(ses) \o w, m), 1) = Upto(w, m - (1 + Len(ses)))
      BY <1>3, <2>1, Vec8Cut
    <3> QED
      BY <3>1 DEF c, e
  <2> HIDE DEF u, s
  <2>6. Drop(s, 34) = u
    <3>1. Drop(a \o u, Len(a)) = u
      BY <1>4, <2>3, DropCat
    <3> QED
      BY <1>4, <2>4, <3>1
  <2>7. Number(s, 2) = v
    <3>0. p \in Seq(Byte) /\ Random \in Seq(Byte) /\ u \in Seq(Byte)
      BY <1>1, <1>2, <2>3
    <3>1. (p \o Random) \o u = p \o (Random \o u)
      BY ONLY <3>0, AssocBytes, Zenon
    <3>2. Random \o u \in Seq(Byte)
      BY ONLY <3>0, ConcatProperties
    <3>3. s = p \o (Random \o u)
      BY <2>4, <3>1 DEF a
    <3> QED
      BY <1>1, <3>2, <3>3
  <2>8. HasSession(s) <=> j >= n
    BY <1>7, <2>2, <2>5, <2>6 DEF HasSession
  <2>9. j >= n => AfterSession(s) = Upto(w, j - n)
    BY <2>2, <2>5, <2>6 DEF AfterSession
  <2> QED
    BY <1>7, <2>7, <2>8, <2>9 DEF s, n, a, p, c, e
<1> QED
  BY <1>8, <1>9, <1>10

\* What an extension block, cut anywhere, stands for.
Remains(xs, es, whole) == Survivors(xs, es) /\ (whole => xs = Plains(es))

LEMMA BlockCut ==
    ASSUME NEW S, Fitting(S), NEW es \in Seq(S), Len(Exts(es)) \in Word,
           NEW k \in 0 .. Len(Vec16(Exts(es)))
    PROVE  Remains(Extensions[Content(Upto(Vec16(Exts(es)), k), 2)], es,
                   k = Len(Vec16(Exts(es))))
<1> DEFINE b == Exts(es)
           whole == k = Len(Vec16(b))
           s == Content(Upto(Vec16(b), k), 2)
<1>1. b \in Seq(Byte) /\ Len(b) \in Nat
  BY ExtsIs
<1>2. Beginning(s, b, whole)
  BY <1>1, Vec16Part
<1> HIDE DEF s, whole
<1>3. PICK n \in 0 .. Len(b) : s = Upto(b, n) /\ (whole => n = Len(b))
  BY <1>2 DEF Beginning
<1>4. Survivors(Extensions[s], es)
  BY <1>3, ExtsCut
<1>5. ASSUME whole
      PROVE  Extensions[s] = Plains(es)
  <2>1. s = b
    BY <1>1, <1>3, <1>5, UptoAll
  <2> QED
    BY <2>1, ExtsWhole
<1> QED
  BY <1>4, <1>5 DEF Remains, s, whole

\* The fields of a hello whose extensions are read as xs.
ClientOf(v, cs, xs) ==
    [legacy_version |-> v, ciphers |-> cs,
     extensions |-> [i \in DOMAIN xs |-> xs[i].type],
     curves |-> Numbers16(Content(BodyOf(xs, 10), 2)),
     point_formats |-> Content(BodyOf(xs, 11), 1),
     sig_algs |-> Numbers16(Content(BodyOf(xs, 13), 2)),
     supported_versions |-> Numbers16(Content(BodyOf(xs, 43), 1)),
     sni |-> HostName[Content(BodyOf(xs, 0), 2)],
     alpn |-> Protocols[Content(BodyOf(xs, 16), 2)]]

ServerOf(v, c, xs) ==
    [legacy_version |-> v, cipher |-> c,
     extensions |-> [i \in DOMAIN xs |-> xs[i].type]]

LEMMA NumbersWhole ==
    ASSUME NEW cs \in Seq(Word)
    PROVE  /\ Be16s(cs) \in Seq(Byte) /\ Len(Be16s(cs)) \in Nat
           /\ Numbers16(Be16s(cs)) = cs
<1> DEFINE b == Be16s(cs)
<1>1. b \in Seq(Byte) /\ Len(b) = 2 * Len(cs) /\ Len(cs) \in Nat /\ Len(b) \in Nat
  BY Be16sIs, LenProperties DEF InPairs
<1>2. Len(b) \in 0 .. Len(b) /\ Len(b) \div 2 = Len(cs)
  BY <1>1
<1>3. Numbers16(Upto(b, Len(b))) = Upto(cs, Len(b) \div 2)
  BY <1>2, Numbers16Cut
<1>4. Upto(b, Len(b)) = b /\ Upto(cs, Len(cs)) = cs
  BY <1>1, UptoAll
<1> QED
  BY <1>1, <1>2, <1>3, <1>4

\* The body of a hello, from its parts.
ClientShape(v, ses, cs, blk) ==
    (Be16(v) \o Random) \o (Vec8(ses) \o (Vec16(Be16s(cs)) \o (Vec8(<<0>>) \o blk)))

ServerShape(v, ses, c, blk) ==
    (Be16(v) \o Random) \o (Vec8(ses) \o (Be16(c) \o (<<0>> \o blk)))

\* What is read in j bytes of a body whose extension block starts at head.
ClientRead(v, ses, cs, blk, head, j) ==
    LET s == Upto(ClientShape(v, ses, cs, blk), j)
    IN /\ s \in Seq(Byte)
       /\ j < head => ClientBody[s] = <<>>
       /\ j >= head =>
             ClientBody[s] =
                 <<ClientOf(v, cs, Extensions[Content(Upto(blk, j - head), 2)])>>

ServerRead(v, ses, c, blk, head, j) ==
    LET s == Upto(ServerShape(v, ses, c, blk), j)
    IN /\ s \in Seq(Byte)
       /\ j < head => ServerBody[s] = <<>>
       /\ j >= head =>
             ServerBody[s] =
                 <<ServerOf(v, c, Extensions[Content(Upto(blk, j - head), 2)])>>

LEMMA ClientCut ==
    ASSUME NEW v \in Word, NEW ses \in Seq(Byte), Len(ses) <= 255,
           NEW cs \in Seq(Word), Len(Be16s(cs)) \in Word, NEW blk \in Seq(Byte),
           NEW head \in Nat, head = 39 + Len(ses) + Len(Be16s(cs)),
           NEW j \in 0 .. head + Len(blk)
    PROVE  ClientRead(v, ses, cs, blk, head, j)
<1> DEFINE cb == Be16s(cs)
           z == <<0>>
           q == Vec8(z) \o blk
           w == Vec16(cb) \o q
           s == Upto((Be16(v) \o Random) \o (Vec8(ses) \o w), j)
           n == 35 + Len(ses)
<1>1. /\ cb \in Seq(Byte) /\ Len(cb) \in Nat /\ Len(cb) \in Word
      /\ Numbers16(cb) = cs
  BY NumbersWhole
<1>2. z \in Seq(Byte) /\ Len(z) = 1 /\ Len(z) \in Byte /\ Len(z) <= 255
  BY DEF Byte
<1>3. Len(ses) \in Nat /\ Len(blk) \in Nat
  BY LenProperties
<1>03. head = 39 + Len(ses) + Len(cb)
  OBVIOUS
<1> HIDE DEF cb, z
<1>4. q \in Seq(Byte) /\ Len(q) = 2 + Len(blk)
  <2>1. Vec8(z) \in Seq(Byte) /\ Len(Vec8(z)) = 2
    <3>1. Vec8(z) \in Seq(Byte) /\ Len(Vec8(z)) = 1 + Len(z)
      BY ONLY <1>2, Vec8Bytes
    <3> QED
      BY ONLY <1>2, <3>1
  <2> DEFINE y == Vec8(z)
  <2> HIDE DEF y
  <2>2. y \o blk \in Seq(Byte) /\ Len(y \o blk) = Len(y) + Len(blk)
    BY <2>1, ConcatProperties DEF y
  <2> QED
    BY <2>1, <2>2 DEF y
<1> HIDE DEF q
<1>5. w \in Seq(Byte) /\ Len(w) = 4 + Len(cb) + Len(blk)
  <2> DEFINE y == Vec16(cb)
  <2>1. y \in Seq(Byte) /\ Len(y) = 2 + Len(cb)
    BY <1>1, Vec16Bytes
  <2> HIDE DEF y
  <2>02. y \in Seq(Byte) /\ q \in Seq(Byte)
    BY <1>4, <2>1
  <2>2. y \o q \in Seq(Byte) /\ Len(y \o q) = Len(y) + Len(q)
    BY ONLY <2>02, ConcatProperties
  <2> QED
    BY <1>1, <1>3, <1>4, <2>1, <2>2 DEF y
<1>6. j \in Nat /\ j <= head + Len(blk) /\ head = n + 4 + Len(cb) /\ n \in Nat
  BY <1>1, <1>3, <1>03
<1>7. /\ s \in Seq(Byte)
      /\ HasSession(s) <=> j >= n
      /\ j >= n => Number(s, 2) = v /\ AfterSession(s) = Upto(w, j - n)
  <2>1. j \in 0 .. 35 + Len(ses) + Len(w)
    BY <1>1, <1>3, <1>5, <1>6
  <2> HIDE DEF w
  <2> QED
    BY <1>5, <2>1, OpeningCut
<1> HIDE DEF s
<1> DEFINE suites == AfterSession(s)
           methods == After(suites, 2)
           exts == Extensions[Content(After(methods, 1), 2)]
<1>8. ClientBody[s] =
         IF HasSession(s) /\ Fits(suites, 2) /\ Fits(methods, 1)
         THEN <<ClientFields(s, suites, exts)>> ELSE <<>>
  BY <1>7 DEF ClientBody, Byte
<1>9. CASE j < n
  <2>1. j < head /\ ~(j >= head) /\ ~HasSession(s)
    BY <1>1, <1>6, <1>7, <1>9
  <2>2. ClientBody[s] = <<>>
    BY <1>8, <2>1
  <2> QED
    BY <1>7, <2>1, <2>2 DEF s, w, q, z, cb, ClientShape, ClientRead
<1>10. CASE j >= n
  <2> DEFINE m == j - n
             u == Upto(w, m)
  <2>1. m \in 0 .. 2 + Len(cb) + Len(q)
    BY <1>1, <1>3, <1>4, <1>6, <1>10
  <2>01. suites = u
    BY <1>7, <1>10
  <2> HIDE DEF m, suites
  <2>2. /\ Fits(u, 2) <=> m >= 2 + Len(cb)
        /\ m >= 2 + Len(cb) =>
              Content(u, 2) = cb /\ After(u, 2) = Upto(q, m - (2 + Len(cb)))
    BY <1>1, <1>4, <2>1, Vec16Cut
  <2> HIDE DEF u
  <2>3. CASE ~(m >= 2 + Len(cb))
    <3>1. j < head /\ ~(j >= head)
      BY <1>1, <1>3, <1>6, <2>3 DEF m
    <3>2. ClientBody[s] = <<>>
      BY <1>8, <2>01, <2>2, <2>3
    <3> QED
      BY <1>7, <3>1, <3>2 DEF s, w, q, z, cb, ClientShape, ClientRead
  <2>4. CASE m >= 2 + Len(cb)
    <3> DEFINE k == m - (2 + Len(cb))
               x == Upto(q, k)
    <3>1. /\ k \in 0 .. 1 + Len(z) + Len(blk) /\ (j >= head <=> k >= 1 + Len(z))
          /\ k >= 1 + Len(z) => k - (1 + Len(z)) = j - head
          /\ j < head <=> ~(j >= head)
      <4>1. m = j - n /\ Len(z) = 1 /\ Len(cb) \in Nat /\ Len(blk) \in Nat
        BY <1>1, <1>2, <1>3 DEF m
      <4> HIDE DEF n
      <4>2. k = j - n - 2 - Len(cb) /\ k \in Nat
        BY <1>6, <2>4, <4>1
      <4> HIDE DEF k
      <4>3. j >= head <=> k >= 2
        BY ONLY <1>6, <4>1, <4>2, head \in Nat
      <4>4. k >= 2 => k - 2 = j - head
        BY ONLY <1>6, <4>1, <4>2, head \in Nat
      <4>5. k <= 2 + Len(blk)
        BY ONLY <1>6, <4>1, <4>2, head \in Nat
      <4>6. j < head <=> ~(j >= head)
        BY ONLY <1>6, head \in Nat
      <4> QED
        BY ONLY <4>1, <4>2, <4>3, <4>4, <4>5, <4>6
    <3>01. methods = x
      BY <2>01, <2>2, <2>4
    <3> HIDE DEF k, methods
    <3>2. /\ Fits(x, 1) <=> k >= 1 + Len(z)
          /\ k >= 1 + Len(z) => After(x, 1) = Upto(blk, k - (1 + Len(z)))
      <4>1. /\ Fits(Upto(Vec8(z) \o blk, k), 1) <=> k >= 1 + Len(z)
            /\ k >= 1 + Len(z) =>
                  After(Upto(Vec8(z) \o blk, k), 1) = Upto(blk, k - (1 + Len(z)))
        BY <1>2, <3>1, Vec8Cut, ZenonT(60)
      <4> QED
        BY <4>1 DEF q
    <3> HIDE DEF x
    <3>3. CASE ~(j >= head)
      <4>1. ClientBody[s] = <<>>
        BY <1>8, <3>01, <3>1, <3>2, <3>3
      <4> QED
        BY <1>7, <3>3, <3>1, <4>1 DEF s, w, q, z, cb, ClientShape, ClientRead
    <3>4. CASE j >= head
      <4>1. HasSession(s) /\ Fits(suites, 2) /\ Fits(methods, 1)
        BY <1>7, <1>10, <2>01, <2>2, <2>4, <3>01, <3>1, <3>2, <3>4
      <4>2. exts = Extensions[Content(Upto(blk, j - head), 2)]
        BY <3>01, <3>1, <3>2, <3>4
      <4>3. Number(s, 2) = v /\ Numbers16(Content(suites, 2)) = cs
        BY <1>1, <1>7, <1>10, <2>01, <2>2, <2>4
      <4> HIDE DEF exts
      <4>4. ClientFields(s, suites, exts) = ClientOf(v, cs, exts)
        BY <4>3 DEF ClientFields, ClientOf
      <4>5. ClientBody[s] = <<ClientOf(v, cs, exts)>>
        BY <1>8, <4>1, <4>4
      <4> QED
        BY <1>7, <3>4, <3>1, <4>2, <4>5 DEF s, w, q, z, cb, ClientShape, ClientRead
    <3> QED
      BY <3>3, <3>4
  <2> QED
    BY <2>3, <2>4
<1> QED
  BY <1>6, <1>9, <1>10

LEMMA ServerCut ==
    ASSUME NEW v \in Word, NEW ses \in Seq(Byte), Len(ses) <= 255,
           NEW c \in Word, NEW blk \in Seq(Byte),
           NEW head \in Nat, head = 38 + Len(ses),
           NEW j \in 0 .. head + Len(blk)
    PROVE  ServerRead(v, ses, c, blk, head, j)
<1> DEFINE p == Be16(c)
           z == <<0>>
           w == p \o (z \o blk)
           s == Upto((Be16(v) \o Random) \o (Vec8(ses) \o w), j)
           n == 35 + Len(ses)
           a == p \o z
<1>1. /\ p \in Seq(Byte) /\ Len(p) = 2
      /\ \A u \in Seq(Byte) : Number(p \o u, 2) = c
  BY Be16Is, Be16Read
<1>2. z \in Seq(Byte) /\ Len(z) = 1
  BY DEF Byte
<1>3. Len(ses) \in Nat /\ Len(blk) \in Nat
  BY LenProperties
<1> HIDE DEF p, z
<1>4. /\ a \in Seq(Byte) /\ Len(a) = 3 /\ w = a \o blk
      /\ w \in Seq(Byte) /\ Len(w) = 3 + Len(blk)
  <2>0. p \in Seq(Byte) /\ z \in Seq(Byte)
    BY <1>1, <1>2
  <2>1. a \in Seq(Byte) /\ Len(a) = Len(p) + Len(z)
    BY ONLY <2>0, ConcatProperties
  <2>2. w = a \o blk
    BY ONLY <2>0, blk \in Seq(Byte), AssocBytes, Zenon
  <2> HIDE DEF a, w
  <2>03. a \in Seq(Byte) /\ blk \in Seq(Byte)
    BY <2>1
  <2>3. a \o blk \in Seq(Byte) /\ Len(a \o blk) = Len(a) + Len(blk)
    BY ONLY <2>03, ConcatProperties
  <2> QED
    BY <1>1, <1>2, <1>3, <2>1, <2>2, <2>3
<1> HIDE DEF a, w
<1>6. j \in Nat /\ j <= head + Len(blk) /\ head = n + 3 /\ n \in Nat
  BY <1>3
<1>7. /\ s \in Seq(Byte)
      /\ HasSession(s) <=> j >= n
      /\ j >= n => Number(s, 2) = v /\ AfterSession(s) = Upto(w, j - n)
  <2>1. j \in 0 .. 35 + Len(ses) + Len(w)
    BY <1>3, <1>4, <1>6
  <2>2. w \in Seq(Byte)
    BY <1>4
  <2> QED
    BY <2>1, <2>2, OpeningCut
<1> HIDE DEF s
<1> DEFINE rest == AfterSession(s)
           exts == Extensions[Content(Drop(rest, 3), 2)]
<1>8. ServerBody[s] =
         IF HasSession(s) /\ Len(rest) >= 3
         THEN <<[legacy_version |-> Number(s, 2), cipher |-> Number(rest, 2),
                 extensions |-> [i \in DOMAIN exts |-> exts[i].type]]>>
         ELSE <<>>
  BY <1>7 DEF ServerBody, Byte
<1>9. CASE j < n
  <2>1. j < head /\ ~(j >= head) /\ ~HasSession(s)
    BY <1>6, <1>7, <1>9
  <2>2. ServerBody[s] = <<>>
    BY <1>8, <2>1
  <2> QED
    BY <1>7, <2>1, <2>2 DEF s, w, z, p, ServerShape, ServerRead
<1>10. CASE j >= n
  <2> DEFINE m == j - n
             u == Upto(w, m)
  <2>1. m \in 0 .. Len(a) + Len(blk) /\ m \in 0 .. Len(w)
    BY <1>3, <1>4, <1>6, <1>10
  <2>2. rest = u
    BY <1>7, <1>10
  <2> HIDE DEF m, rest
  <2>3. u \in Seq(Byte) /\ Len(u) = m
    BY <1>4, <2>1, UptoIs
  <2>4. CASE ~(m >= 3)
    <3>1. j < head /\ ~(j >= head)
      BY <1>3, <1>6, <2>4 DEF m
    <3>2. ServerBody[s] = <<>>
      BY <1>8, <2>2, <2>3, <2>4
    <3> QED
      BY <1>7, <3>1, <3>2 DEF s, w, z, p, ServerShape, ServerRead
  <2>5. CASE m >= 3
    <3> DEFINE x == Upto(blk, j - head)
    <3>1. /\ j >= head /\ ~(j < head) /\ m >= Len(a) /\ m - Len(a) = j - head
          /\ j - head \in 0 .. Len(blk)
      BY <1>3, <1>4, <1>6, <2>5 DEF m
    <3>2. Upto(a \o blk, m) = a \o Upto(blk, m - Len(a))
      BY ONLY <1>4, <2>1, <3>1, UptoCat, blk \in Seq(Byte)
    <3>3. u = a \o x
      BY <1>4, <3>1, <3>2
    <3>4. x \in Seq(Byte)
      BY <3>1, UptoIs
    <3> HIDE DEF x, u
    <3>5. Drop(u, 3) = x
      <4>1. Drop(a \o x, Len(a)) = x
        BY <1>4, <3>4, DropCat
      <4> QED
        BY <1>4, <3>3, <4>1
    <3>6. Number(u, 2) = c
      <4>1. p \in Seq(Byte) /\ z \in Seq(Byte)
        BY <1>1, <1>2
      <4>2. (p \o z) \o x = p \o (z \o x)
        BY ONLY <3>4, <4>1, AssocBytes, Zenon
      <4>3. z \o x \in Seq(Byte)
        BY ONLY <3>4, <4>1, ConcatProperties
      <4>4. u = p \o (z \o x)
        BY <3>3, <4>2 DEF a
      <4> QED
        BY <1>1, <4>3, <4>4
    <3>7. HasSession(s) /\ Len(rest) >= 3
      BY <1>7, <1>10, <2>2, <2>3, <2>5
    <3>8. exts = Extensions[Content(x, 2)]
      BY <2>2, <3>5
    <3>9. Number(s, 2) = v /\ Number(rest, 2) = c
      BY <1>7, <1>10, <2>2, <3>6
    <3> HIDE DEF exts
    <3>10. ServerBody[s] = <<ServerOf(v, c, exts)>>
      BY <1>8, <3>7, <3>9 DEF ServerOf
    <3> QED
      BY <1>7, <3>1, <3>8, <3>10 DEF s, w, z, p, ServerShape, x, ServerRead
  <2> QED
    BY <2>4, <2>5
<1> QED
  BY <1>6, <1>9, <1>10

\* The parts that a hello is put together from.
Parts(S, a, e, f, g, k) ==
    a \in Seq(S) /\ e \in Seq(S) /\ f \in Seq(S) /\ g \in Seq(S) /\ k \in Seq(S)

\* Five parts in a row, and the same from the right.
Row(a, e, f, g, k) == (((a \o e) \o f) \o g) \o k

Nest(a, e, f, g, k) == a \o (e \o (f \o (g \o k)))

LEMMA Five ==
    ASSUME NEW S, NEW a, NEW e, NEW f, NEW g, NEW k, Parts(S, a, e, f, g, k)
    PROVE  LET s == Row(a, e, f, g, k)
           IN /\ s = Nest(a, e, f, g, k)
              /\ s \in Seq(S)
              /\ Len(s) = Len(a) + Len(e) + Len(f) + Len(g) + Len(k)
<1>1. a \in Seq(S) /\ e \in Seq(S)
  BY DEF Parts
<1>2. f \in Seq(S)
  BY DEF Parts
<1>3. g \in Seq(S) /\ k \in Seq(S)
  BY DEF Parts
<1>4. PICK b : b = a \o e
  OBVIOUS
<1>5. PICK c : c = b \o f
  OBVIOUS
<1>6. PICK d : d = c \o g
  OBVIOUS
<1>7. PICK y : y = g \o k
  OBVIOUS
<1>8. PICK z : z = f \o y
  OBVIOUS
<1>9. b \in Seq(S)
  BY ONLY <1>1, <1>4
<1>10. c \in Seq(S)
  BY ONLY <1>2, <1>5, <1>9
<1>11. d \in Seq(S)
  BY ONLY <1>3, <1>6, <1>10
<1>12. y \in Seq(S)
  BY ONLY <1>3, <1>7
<1>13. z \in Seq(S)
  BY ONLY <1>2, <1>8, <1>12
<1>14. d \o k \in Seq(S) /\ Len(d \o k) = Len(d) + Len(k)
  BY ONLY <1>3, <1>11
<1>15. (c \o g) \o k = c \o (g \o k)
  BY <1>3, <1>10, Assoc
<1>16. (b \o f) \o y = b \o (f \o y)
  BY <1>2, <1>9, <1>12, Assoc
<1>17. (a \o e) \o z = a \o (e \o z)
  BY <1>1, <1>13, Assoc
<1>18. Len(d \o k) = Len(a) + Len(e) + Len(f) + Len(g) + Len(k)
  <2>1. Len(b) = Len(a) + Len(e)
    BY ONLY <1>1, <1>4
  <2>2. Len(c) = Len(b) + Len(f)
    BY ONLY <1>2, <1>5, <1>9
  <2>3. Len(d) = Len(c) + Len(g)
    BY ONLY <1>3, <1>6, <1>10
  <2>4. Len(d \o k) = Len(d) + Len(k)
    BY ONLY <1>14
  <2> QED
    BY ONLY <2>1, <2>2, <2>3, <2>4
<1>19. d \o k = a \o (e \o z)
  BY ONLY <1>4, <1>5, <1>6, <1>7, <1>8, <1>15, <1>16, <1>17
<1> QED
  BY ONLY <1>4, <1>5, <1>6, <1>7, <1>8, <1>14, <1>18, <1>19 DEF Row, Nest

\* The parts of a hello that can be encoded.
LEMMA HelloParts ==
    ASSUME NEW h, WellFormed(h)
    PROVE  /\ Fitting(ToSet(h.extensions)) /\ h.extensions \in Seq(ToSet(h.extensions))
           /\ Exts(h.extensions) \in Seq(Byte) /\ Len(Exts(h.extensions)) \in Nat
           /\ h.type \in {1, 2} /\ h.legacy_version \in Word
           /\ h.session \in Seq(Byte) /\ Len(h.session) <= 255 /\ Len(h.session) \in Nat
           /\ h.ciphers \in Seq(Word)
           /\ h.type = 2 => h.ciphers[1] \in Word
           /\ Len(Handshake(h)) \in Word
<1>1. /\ h.extensions \in Seq(ToSet(h.extensions)) /\ Fitting(ToSet(h.extensions))
  BY EncodableFits DEF WellFormed
<1>2. Exts(h.extensions) \in Seq(Byte) /\ Len(Exts(h.extensions)) \in Nat
  BY <1>1, ExtsIs
<1>3. h.ciphers \in Seq(Word) /\ (h.type = 2 => h.ciphers # <<>>)
  BY DEF WellFormed
<1>4. h.type = 2 => h.ciphers[1] \in Word
  <2>1. ASSUME h.type = 2
        PROVE  1 \in 1 .. Len(h.ciphers)
    <3>1. Len(h.ciphers) \in Nat /\ Len(h.ciphers) # 0
      BY <1>3, <2>1, EmptySeq, LenProperties
    <3> QED
      BY <3>1
  <2> QED
    BY <1>3, <2>1, ElementOfSeq
<1>5. h.session \in Seq(Byte) /\ Len(h.session) <= 255 /\ Len(h.session) \in Nat
  BY LenProperties DEF WellFormed
<1> QED
  BY <1>1, <1>2, <1>3, <1>4, <1>5 DEF WellFormed

\* The bytes of a hello, from its parts.
Opening(h) == Be16(h.legacy_version) \o Random

LEMMA HelloSize ==
    ASSUME NEW h, WellFormed(h)
    PROVE  LET X == Vec16(Exts(h.extensions))
           IN /\ Len(X) = 2 + Len(Exts(h.extensions))
              /\ HelloBody(h) \in Seq(Int) /\ Len(HelloBody(h)) \in Nat
              /\ Len(Handshake(h)) = 4 + Len(HelloBody(h))
              /\ h.type = 1 => Len(HelloBody(h)) =
                    39 + Len(h.session) + Len(Be16s(h.ciphers)) + Len(X)
              /\ h.type = 2 => Len(HelloBody(h)) = 38 + Len(h.session) + Len(X)
<1> DEFINE X == Exts(h.extensions)
           k == Vec16(X)
           a == Opening(h)
           e == Vec8(h.session)
           cb == Be16s(h.ciphers)
           B == HelloBody(h)
<1>1. /\ X \in Seq(Int) /\ Len(X) \in Nat /\ h.session \in Seq(Int) /\ Len(h.session) \in Nat
      /\ h.type \in {1, 2}
  BY HelloParts, BytesInt
<1>2. k \in Seq(Int) /\ Len(k) = 2 + Len(X) /\ e \in Seq(Int) /\ Len(e) = 1 + Len(h.session)
  BY <1>1, VectorLengths
<1>3. a \in Seq(Int) /\ Len(a) = 34
  <2> DEFINE p == Be16(h.legacy_version)
  <2>1. p \in Seq(Byte) /\ Len(p) = 2
    BY HelloParts, Be16Is
  <2>2. Random \in Seq(Byte) /\ Len(Random) = 32
    BY DEF Random, Byte
  <2> HIDE DEF p
  <2>3. p \o Random \in Seq(Byte) /\ Len(p \o Random) = Len(p) + Len(Random)
    BY <2>1, <2>2, ConcatProperties
  <2> QED
    BY <2>1, <2>2, <2>3, BytesInt DEF Opening, p
<1>4. ASSUME h.type = 1
      PROVE  B \in Seq(Int) /\ Len(B) = 39 + Len(h.session) + Len(cb) + Len(k)
  <2> DEFINE f == Vec16(cb)
             g == Vec8(<<0>>)
  <2>1. f \in Seq(Int) /\ Len(f) = 2 + Len(cb) /\ Len(cb) \in Nat
    <3>1. cb \in Seq(Int)
      BY HelloParts, NumbersWhole, BytesInt
    <3> HIDE DEF cb
    <3> QED
      BY <3>1, VectorLengths
  <2>2. g \in Seq(Int) /\ Len(g) = 2
    BY DEF Vec8
  <2>3. B = Row(a, e, f, g, k)
    BY <1>4 DEF HelloBody, Opening, Row
  <2> HIDE DEF a, e, f, g, k
  <2>4. /\ a \in Seq(Int) /\ e \in Seq(Int) /\ f \in Seq(Int) /\ g \in Seq(Int)
        /\ k \in Seq(Int)
    BY <1>2, <1>3, <2>1, <2>2
  <2> HIDE DEF B
  <2>5. B \in Seq(Int) /\ Len(B) = Len(a) + Len(e) + Len(f) + Len(g) + Len(k)
    <3>1. Parts(Int, a, e, f, g, k)
      BY <2>4 DEF Parts
    <3> QED
      BY ONLY <2>3, <3>1, Five
  <2>6. Len(B) = Len(a) + Len(e) + Len(f) + Len(g) + Len(k)
    BY <2>5
  <2>7. Len(a) = 34 /\ Len(e) = 1 + Len(h.session) /\ Len(f) = 2 + Len(cb) /\ Len(g) = 2 /\ Len(cb) \in Nat
    BY <1>2, <1>3, <2>1, <2>2
  <2>8. Len(k) \in Nat /\ Len(h.session) \in Nat
    BY <1>1, <1>2
  <2> HIDE DEF cb
  <2>9. Len(B) = 39 + Len(h.session) + Len(cb) + Len(k)
    <3> DEFINE n == Len(h.session)
    <3>1. /\ Len(a) = 34 /\ Len(e) = 1 + n /\ Len(f) = 2 + Len(cb) /\ Len(g) = 2
          /\ Len(cb) \in Nat /\ n \in Nat /\ Len(k) \in Nat
      BY <2>7, <2>8
    <3> HIDE DEF n
    <3>2. Len(B) = 39 + n + Len(cb) + Len(k)
      BY ONLY <2>6, <3>1
    <3> QED
      BY <3>2 DEF n
  <2> QED
    BY <2>5, <2>9
<1>5. ASSUME h.type = 2
      PROVE  B \in Seq(Int) /\ Len(B) = 38 + Len(h.session) + Len(k)
  <2> DEFINE f == Be16(h.ciphers[1])
             g == <<0>>
  <2>1. f \in Seq(Int) /\ Len(f) = 2
    <3>1. f \in Seq(Byte) /\ Len(f) = 2
      BY <1>5, HelloParts, Be16Is
    <3> QED
      BY <3>1, BytesInt
  <2>2. g \in Seq(Int) /\ Len(g) = 1
    OBVIOUS
  <2>3. B = Row(a, e, f, g, k)
    BY <1>5 DEF HelloBody, Opening, Row
  <2> HIDE DEF a, e, f, g, k
  <2>4. /\ a \in Seq(Int) /\ e \in Seq(Int) /\ f \in Seq(Int) /\ g \in Seq(Int)
        /\ k \in Seq(Int)
    BY <1>2, <1>3, <2>1, <2>2
  <2> HIDE DEF B
  <2>5. B \in Seq(Int) /\ Len(B) = Len(a) + Len(e) + Len(f) + Len(g) + Len(k)
    <3>1. Parts(Int, a, e, f, g, k)
      BY <2>4 DEF Parts
    <3> QED
      BY ONLY <2>3, <3>1, Five
  <2>6. Len(B) = Len(a) + Len(e) + Len(f) + Len(g) + Len(k)
    BY <2>5
  <2>7. Len(a) = 34 /\ Len(e) = 1 + Len(h.session) /\ Len(f) = 2 /\ Len(g) = 1
    BY <1>2, <1>3, <2>1, <2>2
  <2>8. Len(k) \in Nat /\ Len(h.session) \in Nat
    BY <1>1, <1>2
  <2>9. Len(B) = 38 + Len(h.session) + Len(k)
    BY ONLY <2>6, <2>7, <2>8
  <2> QED
    BY <2>5, <2>9
<1>6. B \in Seq(Int)
  BY <1>1, <1>4, <1>5
<1>7. Len(Handshake(h)) = 4 + Len(B) /\ Len(B) \in Nat
  <2> DEFINE p == <<h.type, 0>>
             q == Vec16(B)
  <2>1. p \in Seq(Int) /\ Len(p) = 2
    BY <1>1
  <2>2. q \in Seq(Int) /\ Len(q) = 2 + Len(B) /\ Len(B) \in Nat
    BY <1>6, VectorLengths
  <2> HIDE DEF p, q
  <2>3. Len(p \o q) = Len(p) + Len(q)
    BY ONLY <2>1, <2>2, ConcatProperties
  <2>4. Handshake(h) = p \o q
    BY DEF Handshake, p, q
  <2> QED
    BY <2>1, <2>2, <2>3, <2>4
<1> QED
  BY <1>2, <1>4, <1>5, <1>6, <1>7

LEMMA HelloBytes ==
    ASSUME NEW h, WellFormed(h)
    PROVE  LET X == Vec16(Exts(h.extensions))
           IN /\ Len(HelloBody(h)) \in Word /\ HelloBody(h) \in Seq(Byte)
              /\ Handshake(h) \in Seq(Byte)
              /\ X \in Seq(Byte) /\ Len(Exts(h.extensions)) \in Word
              /\ h.type = 1 =>
                    /\ Len(Be16s(h.ciphers)) \in Word
                    /\ HelloBody(h) = Opening(h) \o (Vec8(h.session)
                          \o (Vec16(Be16s(h.ciphers)) \o (Vec8(<<0>>) \o X)))
              /\ h.type = 2 =>
                    HelloBody(h) = Opening(h) \o (Vec8(h.session)
                          \o (Be16(h.ciphers[1]) \o (<<0>> \o X)))
<1> DEFINE x == Exts(h.extensions)
           k == Vec16(x)
           a == Opening(h)
           e == Vec8(h.session)
           cb == Be16s(h.ciphers)
           B == HelloBody(h)
<1>1. /\ x \in Seq(Byte) /\ Len(x) \in Nat /\ h.session \in Seq(Byte) /\ Len(h.session) \in Nat
      /\ Len(h.session) <= 255 /\ h.type \in {1, 2} /\ Len(Handshake(h)) \in Word
  BY HelloParts
<1>2. cb \in Seq(Byte) /\ Len(cb) \in Nat
  BY HelloParts, NumbersWhole
<1>3. /\ Len(k) = 2 + Len(x) /\ Len(Handshake(h)) = 4 + Len(B) /\ Len(B) \in Nat
      /\ h.type = 1 => Len(B) = 39 + Len(h.session) + Len(cb) + Len(k)
      /\ h.type = 2 => Len(B) = 38 + Len(h.session) + Len(k)
  BY HelloSize
<1>02. Len(cb) \in Nat
  BY <1>2
<1>03. /\ Len(x) \in Nat /\ Len(h.session) \in Nat /\ (h.type = 1 \/ h.type = 2)
       /\ Len(k) \in Nat /\ Len(x) <= Len(k)
  BY <1>1, <1>3
<1> HIDE DEF x, B, cb, k
<1>4. Len(B) \in Word
  <2>1. Len(B) <= Len(Handshake(h))
    BY <1>3
  <2> QED
    BY <1>1, <1>3, <2>1, Smaller
<1>5. Len(x) \in Word
  <2>1. Len(x) <= Len(B)
    <3>1. Len(k) <= Len(B)
      <4>1. ASSUME h.type = 1
            PROVE  Len(k) <= Len(B)
        <5>1. Len(B) = 39 + Len(h.session) + Len(cb) + Len(k)
          BY <1>3, <4>1
        <5> QED
          BY ONLY <1>02, <1>03, <5>1
      <4>2. ASSUME h.type = 2
            PROVE  Len(k) <= Len(B)
        <5>1. Len(B) = 38 + Len(h.session) + Len(k)
          BY <1>3, <4>2
        <5> QED
          BY ONLY <1>03, <5>1
      <4> QED
        BY ONLY <1>03, <4>1, <4>2
    <3> QED
      BY ONLY <1>3, <1>03, <3>1
  <2> QED
    BY <1>1, <1>4, <2>1, Smaller
<1>6. h.type = 1 => Len(cb) \in Word
  <2>1. ASSUME h.type = 1
        PROVE  Len(cb) <= Len(B)
    <3>1. Len(B) = 39 + Len(h.session) + Len(cb) + Len(k)
      BY <1>3, <2>1
    <3> QED
      BY ONLY <1>02, <1>03, <3>1
  <2> QED
    BY <1>2, <1>4, <2>1, Smaller
<1>7. k \in Seq(Byte) /\ e \in Seq(Byte)
  BY <1>1, <1>5, Vec16Bytes, Vec8Bytes DEF k
<1>8. a \in Seq(Byte)
  <2> DEFINE p == Be16(h.legacy_version)
  <2>1. p \in Seq(Byte)
    BY HelloParts, Be16Is
  <2>2. Random \in Seq(Byte)
    BY DEF Random, Byte
  <2> HIDE DEF p
  <2>3. p \o Random \in Seq(Byte)
    BY <2>1, <2>2, ConcatProperties
  <2> QED
    BY <2>3 DEF Opening, p
<1>9. ASSUME h.type = 1
      PROVE  /\ B \in Seq(Byte)
             /\ B = a \o (e \o (Vec16(cb) \o (Vec8(<<0>>) \o k)))
  <2> DEFINE f == Vec16(cb)
             g == Vec8(<<0>>)
  <2>1. f \in Seq(Byte)
    BY <1>2, <1>6, <1>9, Vec16Bytes
  <2>2. g \in Seq(Byte)
    BY DEF Vec8, Byte
  <2>3. B = Row(a, e, f, g, k)
    BY <1>9 DEF HelloBody, Opening, Row, B, cb, x, k
  <2> HIDE DEF a, e, f, g, k
  <2>4. /\ a \in Seq(Byte) /\ e \in Seq(Byte) /\ f \in Seq(Byte) /\ g \in Seq(Byte)
        /\ k \in Seq(Byte)
    BY <1>7, <1>8, <2>1, <2>2
  <2>5. B \in Seq(Byte) /\ B = a \o (e \o (f \o (g \o k)))
    <3>1. Parts(Byte, a, e, f, g, k)
      BY <2>4 DEF Parts
    <3>2. B \in Seq(Byte) /\ B = Nest(a, e, f, g, k)
      BY ONLY <2>3, <3>1, Five
    <3> QED
      BY ONLY <3>2 DEF Nest
  <2> QED
    BY <2>5 DEF f, g
<1>10. ASSUME h.type = 2
       PROVE  /\ B \in Seq(Byte)
              /\ B = a \o (e \o (Be16(h.ciphers[1]) \o (<<0>> \o k)))
  <2> DEFINE f == Be16(h.ciphers[1])
             g == <<0>>
  <2>1. f \in Seq(Byte)
    BY <1>10, HelloParts, Be16Is
  <2>2. g \in Seq(Byte)
    BY DEF Byte
  <2>3. B = Row(a, e, f, g, k)
    BY <1>10 DEF HelloBody, Opening, Row, B, x, k
  <2> HIDE DEF a, e, f, g, k
  <2>4. /\ a \in Seq(Byte) /\ e \in Seq(Byte) /\ f \in Seq(Byte) /\ g \in Seq(Byte)
        /\ k \in Seq(Byte)
    BY <1>7, <1>8, <2>1, <2>2
  <2>5. B \in Seq(Byte) /\ B = a \o (e \o (f \o (g \o k)))
    <3>1. Parts(Byte, a, e, f, g, k)
      BY <2>4 DEF Parts
    <3>2. B \in Seq(Byte) /\ B = Nest(a, e, f, g, k)
      BY ONLY <2>3, <3>1, Five
    <3> QED
      BY ONLY <3>2 DEF Nest
  <2> QED
    BY <2>5 DEF f, g
<1>11. B \in Seq(Byte)
  BY <1>1, <1>9, <1>10
<1>12. Handshake(h) \in Seq(Byte)
  <2> DEFINE p == <<h.type, 0>>
             q == Vec16(B)
  <2>1. p \in Seq(Byte)
    BY <1>1 DEF Byte
  <2>2. q \in Seq(Byte)
    BY <1>4, <1>11, Vec16Bytes
  <2> HIDE DEF p, q
  <2>3. p \o q \in Seq(Byte)
    BY ONLY <2>1, <2>2, ConcatProperties
  <2> QED
    BY <2>3 DEF Handshake, p, q, B
<1> QED
  BY <1>4, <1>5, <1>6, <1>7, <1>9, <1>10, <1>11, <1>12 DEF x, B, cb, k

\* What the reference answers for a body of a hello of a type, and the fields of
\* the hello h when its extensions are read as xs.
BodyAnswer(type, s) == IF type = 1 THEN ClientBody[s] ELSE ServerBody[s]

Fields(h, xs) ==
    IF h.type = 1 THEN ClientOf(h.legacy_version, h.ciphers, xs)
    ELSE ServerOf(h.legacy_version, h.ciphers[1], xs)

BlockOf(h) == Vec16(Exts(h.extensions))

\* The length of the body up to its extension block.
Ahead(h) == Len(HelloBody(h)) - Len(BlockOf(h))

\* What is answered when n bytes of k arrived.
Understood(h, answer, arrived, ahead, whole) ==
    /\ arrived < ahead => answer = <<>>
    /\ arrived >= ahead =>
          \E xs : Remains(xs, h.extensions, whole) /\ answer = <<Fields(h, xs)>>

LEMMA BodyCut ==
    ASSUME NEW h, WellFormed(h), NEW j \in 0 .. Len(HelloBody(h))
    PROVE  LET s == Upto(HelloBody(h), j)
           IN /\ s \in Seq(Byte)
              /\ Understood(h, BodyAnswer(h.type, s), j, Ahead(h), j = Len(HelloBody(h)))
<1> DEFINE B == HelloBody(h)
           X == BlockOf(h)
           v == h.legacy_version
           ses == h.session
           cs == h.ciphers
           es == h.extensions
           head == Ahead(h)
           s == Upto(B, j)
           rest == Extensions[Content(Upto(X, j - head), 2)]
<1>1. /\ Fitting(ToSet(es)) /\ es \in Seq(ToSet(es)) /\ h.type \in {1, 2} /\ v \in Word
      /\ ses \in Seq(Byte) /\ Len(ses) <= 255 /\ Len(ses) \in Nat /\ cs \in Seq(Word)
      /\ h.type = 2 => cs[1] \in Word
  BY HelloParts
<1>2. /\ Len(B) \in Nat /\ Len(X) = 2 + Len(Exts(es)) /\ Len(Exts(es)) \in Nat
      /\ h.type = 1 => Len(B) = 39 + Len(ses) + Len(Be16s(cs)) + Len(X)
      /\ h.type = 2 => Len(B) = 38 + Len(ses) + Len(X)
  BY HelloSize, HelloParts DEF BlockOf
<1>3. /\ X \in Seq(Byte) /\ Len(Exts(es)) \in Word /\ B \in Seq(Byte)
      /\ h.type = 1 =>
            /\ Len(Be16s(cs)) \in Word
            /\ B = Opening(h) \o (Vec8(ses) \o (Vec16(Be16s(cs)) \o (Vec8(<<0>>) \o X)))
      /\ h.type = 2 => B = Opening(h) \o (Vec8(ses) \o (Be16(cs[1]) \o (<<0>> \o X)))
  BY HelloBytes DEF BlockOf
<1>4. Len(Be16s(cs)) \in Nat
  BY <1>1, NumbersWhole
<1> HIDE DEF v, ses, cs, B, X
<1>5. /\ j \in Nat /\ j <= Len(B) /\ Len(X) \in Nat
  BY <1>2 DEF B
<1>6. /\ head = Len(B) - Len(X)
      /\ h.type = 1 => head = 39 + Len(ses) + Len(Be16s(cs))
      /\ h.type = 2 => head = 38 + Len(ses)
  <2>1. head = Len(B) - Len(X)
    BY DEF Ahead, B, X
  <2> HIDE DEF head
  <2>2. ASSUME h.type = 1
        PROVE  head = 39 + Len(ses) + Len(Be16s(cs))
    <3>1. Len(B) = 39 + Len(ses) + Len(Be16s(cs)) + Len(X) /\ Len(ses) \in Nat
      BY <1>1, <1>2, <2>2
    <3> QED
      BY ONLY <1>4, <1>5, <2>1, <3>1
  <2>3. ASSUME h.type = 2
        PROVE  head = 38 + Len(ses)
    <3>1. Len(B) = 38 + Len(ses) + Len(X) /\ Len(ses) \in Nat
      BY <1>1, <1>2, <2>3
    <3> QED
      BY ONLY <1>5, <2>1, <3>1
  <2> QED
    BY <2>1, <2>2, <2>3
<1> HIDE DEF head, s
<1>7. head \in Nat
  <2>1. h.type = 1 \/ h.type = 2
    BY <1>1
  <2> QED
    BY <1>1, <1>4, <1>6, <2>1
<1>8. j \in 0 .. head + Len(X)
  BY ONLY <1>5, <1>6, <1>7
<1>9. /\ s \in Seq(Byte)
      /\ j < head => BodyAnswer(h.type, s) = <<>>
      /\ j >= head => BodyAnswer(h.type, s) = <<Fields(h, rest)>>
  <2> HIDE DEF rest
  <2>1. ASSUME h.type = 1
        PROVE  /\ s \in Seq(Byte)
               /\ j < head => ClientBody[s] = <<>>
               /\ j >= head => ClientBody[s] = <<ClientOf(v, cs, rest)>>
    <3>1. Len(Be16s(cs)) \in Word /\ head = 39 + Len(ses) + Len(Be16s(cs))
      BY <1>3, <1>6, <2>1
    <3>2. B = ClientShape(v, ses, cs, X)
      BY <1>3, <2>1 DEF Opening, ClientShape, v
    <3>3. v \in Word /\ ses \in Seq(Byte) /\ Len(ses) <= 255 /\ cs \in Seq(Word)
          /\ X \in Seq(Byte)
      BY <1>1, <1>3
    <3>4. ClientRead(v, ses, cs, X, head, j)
      BY <1>7, <1>8, <3>1, <3>3, ClientCut
    <3> QED
      BY ONLY <3>2, <3>4 DEF ClientRead, s, rest
  <2>2. ASSUME h.type = 2
        PROVE  /\ s \in Seq(Byte)
               /\ j < head => ServerBody[s] = <<>>
               /\ j >= head => ServerBody[s] = <<ServerOf(v, cs[1], rest)>>
    <3> PICK c : c = cs[1]
      OBVIOUS
    <3>1. c \in Word /\ head = 38 + Len(ses)
      BY <1>1, <1>6, <2>2
    <3>2. B = ServerShape(v, ses, c, X)
      BY <1>3, <2>2 DEF Opening, ServerShape, v
    <3>3. v \in Word /\ ses \in Seq(Byte) /\ Len(ses) <= 255 /\ X \in Seq(Byte)
      BY <1>1, <1>3
    <3>4. ServerRead(v, ses, c, X, head, j)
      BY ONLY <1>7, <1>8, <3>1, <3>3, ServerCut
    <3> QED
      BY ONLY c = cs[1], <3>2, <3>4 DEF ServerRead, s, rest
  <2>3. h.type = 1 \/ h.type = 2
    BY <1>1
  <2> QED
    BY <2>1, <2>2, <2>3 DEF BodyAnswer, Fields, v, cs
<1>10. ASSUME j >= head
       PROVE  Remains(rest, es, j = Len(B))
  <2> DEFINE k == j - head
  <2>1. /\ k \in 0 .. Len(X) /\ (k = Len(X) <=> j = Len(B))
    BY <1>5, <1>6, <1>7, <1>10
  <2> HIDE DEF k
  <2>2. Remains(Extensions[Content(Upto(X, k), 2)], es, k = Len(X))
    <3>1. k \in 0 .. Len(Vec16(Exts(es)))
      BY <2>1 DEF X, BlockOf
    <3>2. Remains(Extensions[Content(Upto(Vec16(Exts(es)), k), 2)], es,
                  k = Len(Vec16(Exts(es))))
      BY <1>1, <1>3, <3>1, BlockCut
    <3> QED
      BY <3>2 DEF X, BlockOf
  <2>3. (k = Len(X)) = (j = Len(B))
    BY <2>1
  <2> QED
    BY <2>2, <2>3 DEF k
<1>11. Understood(h, BodyAnswer(h.type, s), j, head, j = Len(B))
  BY <1>9, <1>10 DEF Understood
<1> QED
  BY <1>9, <1>11 DEF s, head, B

-----------------------------------------------------------------------------
\* The message, and the payload of a capture.

\* What the reference answers for a message when a hello of a type is asked for.
MessageAnswer(type, s) ==
    IF IsHello(s, type) THEN BodyAnswer(type, Content(Drop(s, 1), 3)) ELSE <<>>

LEMMA TwoBytes ==
    ASSUME NEW x \in Int, NEW y \in Int
    PROVE  <<x>> \o <<y>> = <<x, y>>
<1>1. /\ <<x>> \in Seq(Int) /\ <<y>> \in Seq(Int) /\ Len(<<x>>) = 1 /\ Len(<<y>>) = 1
  OBVIOUS
<1> DEFINE p == <<x>> \o <<y>>
           q == <<x, y>>
<1>2. p \in Seq(Int) /\ Len(p) = 2
  BY <1>1, ConcatProperties
<1>3. q \in Seq(Int) /\ Len(q) = 2 /\ q[1] = x /\ q[2] = y
  OBVIOUS
<1>4. p[1] = x /\ p[2] = y
  BY <1>1, ConcatProperties
<1> HIDE DEF p, q
<1>5. \A i \in 1 .. Len(p) : p[i] = q[i]
  BY <1>2, <1>3, <1>4
<1>6. p = q
  BY <1>2, <1>3, <1>5, SeqEqual
<1> QED
  BY <1>6 DEF p, q

LEMMA MessageIs ==
    ASSUME NEW h, WellFormed(h), NEW t \in Seq(Byte)
    PROVE  LET B == HelloBody(h)
           IN /\ Handshake(h) \o t = <<h.type>> \o (<<0>> \o (Vec16(B) \o t))
              /\ <<h.type>> \in Seq(Byte) /\ Len(<<h.type>>) = 1
              /\ <<0>> \o (Vec16(B) \o t) \in Seq(Byte)
              /\ Len(<<0>> \o (Vec16(B) \o t)) = 3 + Len(B) + Len(t)
<1> DEFINE B == HelloBody(h)
           v == Vec16(B)
           z == <<h.type>>
           o == <<0>>
<1>1. B \in Seq(Byte) /\ Len(B) \in Word /\ h.type \in {1, 2}
  BY HelloBytes, HelloParts
<1>2. v \in Seq(Byte) /\ Len(v) = 2 + Len(B) /\ Len(B) \in Nat
  BY <1>1, Vec16Bytes
<1>3. z \in Seq(Byte) /\ Len(z) = 1 /\ o \in Seq(Byte) /\ Len(o) = 1
  BY <1>1 DEF Byte
<1>4. Handshake(h) = (z \o o) \o v
  <2>1. z \o o = <<h.type, 0>>
    BY <1>1, TwoBytes
  <2> QED
    BY <2>1 DEF Handshake
<1> HIDE DEF z, o, v, B
<1>5. PICK y : y = v \o t
  OBVIOUS
<1>6. y \in Seq(Byte) /\ Len(y) = 2 + Len(B) + Len(t)
  <2>1. y \in Seq(Byte) /\ Len(y) = Len(v) + Len(t)
    BY <1>2, <1>5, ConcatProperties
  <2>2. Len(t) \in Nat
    BY LenProperties
  <2> QED
    BY <1>2, <2>1, <2>2
<1>7. PICK x : x = z \o o
  OBVIOUS
<1>8. x \in Seq(Byte)
  BY <1>3, <1>7, ConcatProperties
<1>9. (x \o v) \o t = x \o (v \o t)
  BY <1>2, <1>8, AssocBytes, Zenon
<1>10. (z \o o) \o y = z \o (o \o y)
  BY <1>3, <1>6, AssocBytes, Zenon
<1>11. Handshake(h) \o t = z \o (o \o y)
  BY ONLY <1>4, <1>5, <1>7, <1>9, <1>10
<1>12. o \o y \in Seq(Byte) /\ Len(o \o y) = Len(o) + Len(y)
  BY <1>3, <1>6, ConcatProperties
<1>13. Len(o \o y) = 3 + Len(B) + Len(t)
  <2>1. Len(t) \in Nat
    BY LenProperties
  <2> QED
    BY <1>2, <1>3, <1>6, <1>12, <2>1
<1> QED
  BY <1>3, <1>5, <1>11, <1>12, <1>13 DEF z, o, v, B

\* The extension block is the end of the body.
LEMMA AheadIs ==
    ASSUME NEW h, WellFormed(h)
    PROVE  Ahead(h) \in Nat /\ Ahead(h) <= Len(HelloBody(h))
<1> DEFINE l == Len(HelloBody(h))
<1>2. l \in Nat
  BY HelloSize
<1>3. Ahead(h) \in Nat /\ Ahead(h) <= l
  <2> DEFINE X == BlockOf(h)
             cb == Be16s(h.ciphers)
             ses == h.session
  <2>1. h.type = 1 \/ h.type = 2
    BY HelloParts
  <2>2. /\ Len(X) = 2 + Len(Exts(h.extensions)) /\ Len(Exts(h.extensions)) \in Nat
        /\ Len(ses) \in Nat /\ Len(cb) \in Nat
    BY HelloParts, HelloSize, NumbersWhole DEF BlockOf
  <2>3. /\ h.type = 1 => l = 39 + Len(ses) + Len(cb) + Len(X)
        /\ h.type = 2 => l = 38 + Len(ses) + Len(X)
    BY HelloSize DEF BlockOf
  <2>4. Ahead(h) = l - Len(X)
    BY DEF Ahead
  <2> HIDE DEF X, cb, ses, l
  <2>5. Len(X) \in Nat
    BY <2>2
  <2>6. h.type = 1 => l - Len(X) = 39 + Len(ses) + Len(cb)
    BY <2>2, <2>3, <2>5
  <2>7. h.type = 2 => l - Len(X) = 38 + Len(ses)
    BY <2>2, <2>3, <2>5
  <2>8. l - Len(X) \in Nat /\ l - Len(X) <= l
    BY <1>2, <2>1, <2>2, <2>5, <2>6, <2>7
  <2> QED
    BY <2>4, <2>8
<1> QED
  BY <1>3 DEF l

\* A message and what follows it, cut anywhere.
LEMMA MessageCut ==
    ASSUME NEW h, WellFormed(h), NEW t \in Seq(Byte),
           NEW n \in 0 .. Len(Handshake(h)) + Len(t)
    PROVE  LET s == Upto(Handshake(h) \o t, n)
               m == Len(Handshake(h))
           IN /\ s \in Seq(Byte) /\ Len(s) = n
              /\ n >= 1 => s[1] = h.type
              /\ \A type : type # h.type => MessageAnswer(type, s) = <<>>
              /\ Understood(h, MessageAnswer(h.type, s), IF n <= m THEN n ELSE m,
                            4 + Ahead(h), n >= m)
<1> DEFINE B == HelloBody(h)
           z == <<h.type>>
           y == <<0>> \o (Vec16(B) \o t)
           m == Len(Handshake(h))
           s == Upto(Handshake(h) \o t, n)
           a == 4 + Ahead(h)
           l == Len(B)
           ty == h.type
           k == IF n <= m THEN n ELSE m
<1>1. /\ Handshake(h) \o t = z \o y /\ z \in Seq(Byte) /\ Len(z) = 1 /\ y \in Seq(Byte)
      /\ Len(y) = 3 + l + Len(t)
  BY MessageIs
<1>2. m = 4 + l /\ l \in Nat /\ Len(t) \in Nat
  BY HelloSize, LenProperties
<1>3. Ahead(h) \in Nat /\ Ahead(h) <= l
  BY AheadIs
<1>4. z[1] = ty
  OBVIOUS
<1>04. n \in Nat /\ n <= 4 + l + Len(t)
  BY <1>2
<1>05. \A j \in 0 .. l : Understood(h, BodyAnswer(ty, Upto(B, j)), j, Ahead(h), j = l)
  BY BodyCut
<1> HIDE DEF B, z, y, m, s, a, l, ty
<1>5. s = Upto(z \o y, n)
  BY <1>1 DEF s
<1>6. s \in Seq(Byte) /\ Len(s) = n
  <2>1. z \o y \in Seq(Byte) /\ Len(z \o y) = Len(z) + Len(y)
    BY <1>1, ConcatProperties
  <2>2. n \in 0 .. Len(z \o y)
    BY <1>1, <1>2, <1>04, <2>1
  <2> HIDE DEF s
  <2> QED
    BY <1>5, <2>1, <2>2, UptoIs
<1>7. ASSUME n >= 1
      PROVE  /\ n - 1 \in 0 .. Len(y) /\ Upto(y, n - 1) \in Seq(Byte)
             /\ s = z \o Upto(y, n - 1) /\ s[1] = ty /\ Drop(s, 1) = Upto(y, n - 1)
  <2>1. /\ n \in 0 .. Len(z) + Len(y) /\ n >= Len(z) /\ n - Len(z) = n - 1
        /\ n - 1 \in 0 .. Len(y)
    BY <1>1, <1>2, <1>04, <1>7
  <2>2. Upto(z \o y, n) = z \o Upto(y, n - Len(z))
    BY ONLY <1>1, <2>1, UptoCat
  <2> DEFINE u == Upto(y, n - 1)
  <2>3. u \in Seq(Byte)
    BY <1>1, <2>1, UptoIs
  <2>4. s = z \o u
    BY <1>5, <2>1, <2>2
  <2> HIDE DEF u
  <2>5. Drop(z \o u, Len(z)) = u
    BY <1>1, <2>3, DropCat
  <2>6. (z \o u)[1] = z[1]
    <3>1. z \in Seq(Byte) /\ Len(z) = 1
      BY <1>1
    <3>2. 1 \in 1 .. Len(z) + Len(u) /\ 1 <= Len(z)
      BY <2>3, <3>1, LenProperties
    <3>3. \A i \in 1 .. Len(z) + Len(u) :
             (z \o u)[i] = IF i <= Len(z) THEN z[i] ELSE u[i - Len(z)]
      BY ONLY <2>3, <3>1, ConcatProperties
    <3> QED
      BY ONLY <3>2, <3>3
  <2> QED
    BY <1>1, <1>4, <2>1, <2>3, <2>4, <2>5, <2>6 DEF u
<1>8. ASSUME NEW type, type # ty
      PROVE  MessageAnswer(type, s) = <<>>
  <2>1. ~IsHello(s, type)
    BY <1>6, <1>7, <1>04, <1>8 DEF IsHello
  <2> QED
    BY <2>1 DEF MessageAnswer
<1>9. Understood(h, MessageAnswer(ty, s), k, a, n >= m)
  <2>1. CASE n < 4
    <3>1. ~IsHello(s, ty)
      BY <1>6, <2>1 DEF IsHello
    <3>2. MessageAnswer(ty, s) = <<>>
      BY <3>1 DEF MessageAnswer
    <3>3. k < a /\ ~(k >= a)
      BY <1>2, <1>3, <1>04, <2>1 DEF a
    <3> QED
      BY <3>2, <3>3 DEF Understood
  <2>2. CASE n >= 4
    <3> DEFINE j == k - 4
               c == Content(Drop(s, 1), 3)
    <3>1. /\ j \in 0 .. l /\ (j = l <=> n >= m) /\ (k < a <=> j < Ahead(h))
          /\ (k >= a <=> j >= Ahead(h))
          /\ n - 1 \in 3 .. 3 + l + Len(t) /\ n - 1 - 3 = n - 4
          /\ n - 4 <= l => j = n - 4
          /\ ~(n - 4 <= l) => j = l
      BY <1>2, <1>3, <1>04, <2>2 DEF a
    <3>2. c = Part(B, n - 4)
      <4>1. B \in Seq(Byte) /\ Len(B) \in Word
        BY HelloBytes DEF B
      <4>2. n - 1 \in 3 .. 3 + Len(B) + Len(t)
        BY <3>1 DEF l
      <4>3. Content(Upto(<<0>> \o (Vec16(B) \o t), n - 1), 3) = Part(B, n - 1 - 3)
        BY <4>1, <4>2, Vec24Cut
      <4>4. Drop(s, 1) = Upto(<<0>> \o (Vec16(B) \o t), n - 1)
        BY <1>7, <1>04, <2>2 DEF y
      <4> QED
        BY <3>1, <4>3, <4>4
    <3> HIDE DEF j, k
    <3>3. c = Upto(B, j)
      BY <3>1, <3>2 DEF Part, l
    <3>4. IsHello(s, ty)
      BY <1>6, <1>7, <1>04, <2>2 DEF IsHello
    <3>5. MessageAnswer(ty, s) = BodyAnswer(ty, Upto(B, j))
      BY <3>3, <3>4 DEF MessageAnswer
    <3>6. Understood(h, BodyAnswer(ty, Upto(B, j)), j, Ahead(h), j = l)
      BY <1>05, <3>1
    <3>7. (j = l) = (n >= m)
      BY <3>1
    <3> QED
      BY <3>1, <3>5, <3>6, <3>7 DEF Understood
  <2> QED
    BY <1>04, <2>1, <2>2
<1>10. n >= 1 => s[1] = ty
  BY <1>7
<1> QED
  BY <1>6, <1>8, <1>9, <1>10 DEF s, m, a, ty

\* A handshake message without a record header starts with its type.
LEMMA PayloadBare ==
    ASSUME NEW s \in Seq(Byte), Len(s) >= 1 => s[1] # 22
    PROVE  Payload(s) = s
<1>1. SUFFICES ASSUME Len(s) >= 5
               PROVE  SubSeq(s, 1, 2) # <<22, 3>>
  BY DEF Payload
<1>2. Len(s) \in Nat /\ 2 \in 0 .. Len(s)
  BY <1>1, LenProperties
<1>3. Len(Upto(s, 2)) = 2 /\ \A i \in 1 .. 2 : Upto(s, 2)[i] = s[i]
  BY <1>2, UptoIs
<1>4. Upto(s, 2)[1] # 22
  BY <1>1, <1>3
<1>5. <<22, 3>>[1] = 22
  OBVIOUS
<1> QED
  BY <1>4, <1>5 DEF Upto

LEMMA RecordIs ==
    ASSUME NEW m \in Seq(Byte), Len(m) \in Word
    PROVE  wrap_record(m) \in Seq(Byte) /\ Len(wrap_record(m)) = 5 + Len(m)
<1> DEFINE x == <<22, 3, 1>>
           v == Vec16(m)
<1>1. v \in Seq(Byte) /\ Len(v) = 2 + Len(m) /\ Len(m) \in Nat
  BY Vec16Bytes
<1>2. x \in Seq(Byte) /\ Len(x) = 3
  BY DEF Byte
<1>3. wrap_record(m) = x \o v
  BY DEF wrap_record
<1> HIDE DEF x, v
<1>4. x \o v \in Seq(Byte) /\ Len(x \o v) = Len(x) + Len(v)
  BY <1>1, <1>2, ConcatProperties
<1> QED
  BY <1>1, <1>2, <1>3, <1>4

\* A record and what follows it, cut behind its header.
LEMMA PayloadRecord ==
    ASSUME NEW m \in Seq(Byte), Len(m) \in Word, NEW t \in Seq(Byte),
           NEW j \in 0 .. Len(m) + Len(t)
    PROVE  LET s == Upto(wrap_record(m) \o t, 5 + j)
           IN s \in Seq(Byte) /\ Payload(s) = Part(m, j)
<1> DEFINE x == <<22, 3, 1>>
           v == Vec16(m)
           y == v \o t
           u == Upto(y, 2 + j)
           s == Upto(wrap_record(m) \o t, 5 + j)
<1>1. /\ v \in Seq(Byte) /\ Len(v) = 2 + Len(m) /\ Len(m) \in Nat /\ Len(t) \in Nat
      /\ j \in Nat /\ j <= Len(m) + Len(t)
  BY Vec16Bytes, LenProperties
<1>2. x \in Seq(Byte) /\ Len(x) = 3 /\ x[1] = 22 /\ x[2] = 3
  BY DEF Byte
<1>3. wrap_record(m) = x \o v
  BY DEF wrap_record
<1> HIDE DEF x, v
<1>4. y \in Seq(Byte) /\ Len(y) = Len(v) + Len(t)
  BY <1>1, ConcatProperties
<1>5. (x \o v) \o t = x \o y
  <2>1. x \in Seq(Byte) /\ v \in Seq(Byte) /\ t \in Seq(Byte)
    BY <1>1, <1>2
  <2>2. (x \o v) \o t = x \o (v \o t)
    BY ONLY <2>1, AssocBytes, Zenon
  <2> QED
    BY <2>2
<1>6. 2 + j \in 0 .. 2 + Len(m) + Len(t)
  BY <1>1
<1>7. u \in Seq(Byte) /\ Len(u) = 2 + j /\ Content(u, 2) = Part(m, j)
  <2>1. 2 + j >= 2 /\ 2 + j - 2 = j
    BY <1>1
  <2>2. /\ u \in Seq(Byte) /\ Len(u) = 2 + j
        /\ 2 + j >= 2 => Content(u, 2) = Part(m, 2 + j - 2)
    BY <1>6, Vec16Cut DEF v
  <2> HIDE DEF u
  <2> QED
    BY <2>1, <2>2
<1> HIDE DEF y, u
<1>8. s = x \o u
  <2> PICK n : n = 5 + j
    OBVIOUS
  <2>1. n \in 0 .. Len(x) + Len(y) /\ n >= Len(x) /\ n - Len(x) = 2 + j
    BY <1>1, <1>2, <1>4
  <2>2. Upto(x \o y, n) = x \o Upto(y, n - Len(x))
    <3>1. x \in Seq(Byte) /\ y \in Seq(Byte)
      BY <1>2, <1>4
    <3> QED
      BY ONLY <2>1, <3>1, UptoCat
  <2> QED
    BY <1>3, <1>5, <2>1, <2>2 DEF u
<1>9. /\ x \o u \in Seq(Byte) /\ Len(x \o u) = Len(x) + Len(u)
      /\ (x \o u)[1] = 22 /\ (x \o u)[2] = 3
  <2>1. /\ x \o u \in Seq(Byte) /\ Len(x \o u) = Len(x) + Len(u)
        /\ \A i \in 1 .. Len(x) + Len(u) :
             (x \o u)[i] = IF i <= Len(x) THEN x[i] ELSE u[i - Len(x)]
    BY ONLY <1>2, <1>7, ConcatProperties
  <2>2. 1 \in 1 .. Len(x) + Len(u) /\ 1 <= Len(x) /\ 2 \in 1 .. Len(x) + Len(u) /\ 2 <= Len(x)
    BY <1>1, <1>2, <1>7
  <2> QED
    BY ONLY <1>2, <2>1, <2>2
<1>10. Drop(x \o u, 3) = u
  BY <1>2, <1>7, DropCat
<1> HIDE DEF s
<1>11. s \in Seq(Byte) /\ Len(s) = 5 + j /\ Drop(s, 3) = u /\ s[1] = 22 /\ s[2] = 3
  BY <1>1, <1>2, <1>7, <1>8, <1>9, <1>10
<1>12. SubSeq(s, 1, 2) = <<22, 3>>
  <2> DEFINE p == Upto(s, 2)
             q == <<22, 3>>
  <2>1. 2 \in 0 .. Len(s)
    BY <1>1, <1>11
  <2>2. p \in Seq(Byte) /\ Len(p) = 2 /\ \A i \in 1 .. 2 : p[i] = s[i]
    BY <1>11, <2>1, UptoIs
  <2>3. q \in Seq(Byte) /\ Len(q) = 2 /\ q[1] = 22 /\ q[2] = 3
    BY DEF Byte
  <2> HIDE DEF p, q
  <2>4. \A i \in 1 .. Len(p) : p[i] = q[i]
    BY <1>11, <2>2, <2>3
  <2>5. p = q
    BY <2>2, <2>3, <2>4, SeqEqual
  <2> QED
    BY <2>5 DEF p, q, Upto
<1>13. Payload(s) = Content(u, 2)
  BY <1>1, <1>11, <1>12 DEF Payload
<1> QED
  BY <1>7, <1>11, <1>13 DEF s

\* Nothing added, nothing taken away.
LEMMA CatNone ==
    ASSUME NEW s \in Seq(Byte)
    PROVE  /\ s \o <<>> = s /\ <<>> \in Seq(Byte) /\ Len(<<>>) = 0
           /\ \A n \in 0 .. Len(s) : Upto(s \o <<>>, n) = Upto(s, n)
<1>1. s \o <<>> = s
  BY ConcatEmptySeq
<1> QED
  BY <1>1

-----------------------------------------------------------------------------
\* What is decoded of the extensions that are left.

\* A prefix that is complete is all of it.
LEMMA BeginningIs ==
    ASSUME NEW S, NEW v \in Seq(S), NEW f, NEW whole \in BOOLEAN, Beginning(f, v, whole)
    PROVE  IsPrefix(f, v) /\ (whole => f = v)
<1>1. PICK k \in 0 .. Len(v) : f = Upto(v, k) /\ (whole => k = Len(v))
  BY DEF Beginning
<1>2. f \in Seq(S) /\ Len(f) = k /\ Len(v) \in Nat
  BY <1>1, UptoIs, LenProperties
<1>3. Upto(f, k) = f
  BY <1>2, UptoAll
<1>4. Len(f) <= Len(v)
  BY <1>2
<1>5. IsPrefix(f, v)
  BY <1>1, <1>2, <1>3, <1>4 DEF IsPrefix, Upto
<1>6. Upto(v, Len(v)) = v
  BY UptoAll
<1> QED
  BY <1>1, <1>5, <1>6

\* The fields of absent extensions.
LEMMA NothingDecoded ==
    /\ Content(<<>>, 1) = <<>> /\ Content(<<>>, 2) = <<>> /\ Numbers16(<<>>) = <<>>
    /\ Protocols[<<>>] = <<>> /\ HostName[<<>>] = <<>>
<1>1. <<>> \in Seq(Byte) /\ Len(<<>>) = 0
  OBVIOUS
<1>2. Content(<<>>, 1) = <<>> /\ Content(<<>>, 2) = <<>>
  BY <1>1 DEF Content
<1>3. Numbers16(<<>>) = <<>>
  BY DEF Numbers16
<1>4. HostName[<<>>] = <<>>
  <2> PICK e : e = <<>>
    OBVIOUS
  <2>1. e \in Seq(Byte) /\ Len(e) < 3
    BY <1>1
  <2>2. HostName[e] = <<>>
    BY <2>1, HostNameIs
  <2> QED
    BY <2>2
<1> QED
  BY <1>2, <1>3, <1>4, ProtocolsNone

\* The last extension of a type that is left, and what can be read in it.
Of(es, t) == {i \in DOMAIN es : es[i].type = t}

LEMMA LegibleLess ==
    ASSUME NEW e, NEW x, NEW w, NEW v, Legible(e, x, w), v => w
    PROVE  Legible(e, x, v)
<1>1. \A f, l : Beginning(f, l, w) => Beginning(f, l, v)
  BY DEF Beginning
<1> QED
  BY <1>1 DEF Legible

LEMMA Plain_Legible ==
    ASSUME NEW e, Encodable(e), ExtBody(e) \in Seq(Byte)
    PROVE  Legible(e, ExtBody(e), TRUE)
<1> DEFINE b == ExtBody(e)
<1>1. Len(b) \in 0 .. Len(b) /\ Upto(b, Len(b)) = b
  BY UptoAll, LenProperties
<1>2. Legible(e, Upto(b, Len(b)), Len(b) = Len(b))
  BY <1>1, Decoding
<1> HIDE DEF b
<1> QED
  BY <1>1, <1>2 DEF b

LEMMA BodyRemains ==
    ASSUME NEW es, NEW S, es \in Seq(S), Fitting(S), \A e \in S : Encodable(e),
           NEW xs, NEW whole \in BOOLEAN, Remains(xs, es, whole), NEW t
    PROVE  \/ BodyOf(xs, t) = <<>> /\ (whole => Of(es, t) = {})
           \/ \E i \in Of(es, t) : /\ Legible(es[i], BodyOf(xs, t), whole)
                                   /\ whole => i = Max(Of(es, t))
<1> DEFINE left == Of(xs, t)
           m == Max(left)
<1>1. /\ Len(es) \in Nat /\ DOMAIN es = 1 .. Len(es) /\ Len(xs) \in Nat
      /\ DOMAIN xs = 1 .. Len(xs) /\ Len(xs) <= Len(es)
      /\ \A i \in 1 .. Len(es) : es[i] \in S
  BY LenProperties, ElementOfSeq DEF Remains, Survivors
<1>2. \A i \in 1 .. Len(xs) : i \in 1 .. Len(es) /\ xs[i].type = es[i].type
  BY <1>1 DEF Remains, Survivors
<1>3. left \subseteq Of(es, t)
  BY <1>1, <1>2 DEF Of
<1>4. whole => Len(xs) = Len(es) /\ left = Of(es, t)
  <2>1. SUFFICES ASSUME whole
                 PROVE  Len(xs) = Len(es) /\ left = Of(es, t)
    OBVIOUS
  <2>2. Len(xs) = Len(es)
    BY <2>1, PlainSurvivors DEF Remains
  <2> QED
    BY <1>1, <1>2, <2>2 DEF Of
<1>5. CASE left = {}
  <2>1. BodyOf(xs, t) = <<>>
    BY <1>5 DEF BodyOf, Of
  <2> QED
    BY <1>4, <1>5, <2>1
<1>6. CASE left # {}
  <2>1. m \in left
    <3>1. left \subseteq 1 .. Len(xs)
      BY <1>1 DEF Of
    <3> HIDE DEF left
    <3> QED
      BY <1>1, <1>6, <3>1, MaxOf
  <2>2. m \in 1 .. Len(xs) /\ m \in Of(es, t) /\ m \in 1 .. Len(es)
    BY <1>1, <1>2, <1>3, <2>1 DEF Of
  <2>3. BodyOf(xs, t) = xs[m].body
    BY <1>6 DEF BodyOf, Of
  <2>4. es[m] \in S /\ Encodable(es[m]) /\ ExtBody(es[m]) \in Seq(Byte)
    BY <1>1, <2>2 DEF Fitting
  <2> HIDE DEF m, left
  <2>5. PICK k \in 0 .. Len(ExtBody(es[m])) : xs[m].body = Upto(ExtBody(es[m]), k)
    BY <2>2 DEF Remains, Survivors
  <2>6. Legible(es[m], xs[m].body, k = Len(ExtBody(es[m])))
    BY <2>4, <2>5, Decoding
  <2>7. Legible(es[m], xs[m].body, FALSE)
    BY <2>6, LegibleLess
  <2>8. CASE whole
    <3>1. xs = Plains(es)
      BY <2>8 DEF Remains
    <3>2. xs[m].body = ExtBody(es[m])
      BY <1>1, <2>2, <3>1 DEF Plains, Plain
    <3>3. Legible(es[m], ExtBody(es[m]), TRUE)
      BY <2>4, Plain_Legible
    <3>4. m = Max(Of(es, t))
      BY <1>4, <2>8 DEF m
    <3> QED
      BY <2>2, <2>3, <2>8, <3>2, <3>3, <3>4
  <2>9. CASE ~whole
    BY <2>2, <2>3, <2>7, <2>9
  <2> QED
    BY <2>8, <2>9
<1> QED
  BY <1>5, <1>6

\* What is read for the extensions of type t, of what they were sent with:
\* nothing, or a prefix of the value of one of them; the last value when all of
\* the message arrived.
Kept(f, es, t, whole) ==
    /\ whole => f = LastValue(es, t)
    /\ f = <<>> \/ \E i \in DOMAIN es : es[i].type = t /\ IsPrefix(f, AsParsed(es[i]))

\* The extensions of a hello, and what is left of them.
Offers(es, xs, whole) ==
    /\ es \in Seq(ToSet(es)) /\ \A e \in ToSet(es) : Encodable(e)
    /\ whole \in BOOLEAN /\ Remains(xs, es, whole)

\* A decoded list is a sequence.
LEMMA ListOf ==
    ASSUME NEW e, Encodable(e), e.type \in {10, 11, 13, 16, 43}
    PROVE  \E S : AsParsed(e) \in Seq(S)
<1>1. CASE e.type \in {10, 13, 43}
  <2>1. e.value \in Seq(Word) /\ AsParsed(e) = e.value
    BY <1>1, EncodableIs DEF AsParsed
  <2> QED
    BY <2>1
<1>2. CASE e.type = 11
  <2>1. e.value \in Seq(Byte) /\ AsParsed(e) = e.value
    BY <1>2, EncodableIs DEF AsParsed
  <2> QED
    BY <2>1
<1>3. CASE e.type = 16
  <2>1. e.value \in Seq(Name8) /\ AsParsed(e) = Strings(e.value)
    BY <1>3, EncodableIs DEF AsParsed, Strings
  <2>2. <<>> \in Name8
    BY DEF Name8
  <2> HIDE DEF Name8
  <2>3. \A v \in Seq(Name8), n \in Name8 : Strings(v) \in Seq(Texts8)
    BY StringsMore
  <2> QED
    BY <2>1, <2>2, <2>3
<1> QED
  BY <1>1, <1>2, <1>3

\* The field f is read in the body x of an extension of type t.
Reads(f, x, t) ==
    /\ x = <<>> => f = <<>>
    /\ \A e, whole : e.type = t /\ Legible(e, x, whole) => Beginning(f, AsParsed(e), whole)

LEMMA KeptIs ==
    ASSUME NEW es, NEW xs, NEW whole, Offers(es, xs, whole), NEW t,
           t \in {10, 11, 13, 16, 43}, NEW f, Reads(f, BodyOf(xs, t), t)
    PROVE  Kept(f, es, t, whole)
<1> DEFINE S == ToSet(es)
           x == BodyOf(xs, t)
<1>1. whole \in BOOLEAN /\ es \in Seq(S) /\ Fitting(S) /\ \A e \in S : Encodable(e)
  BY EncodableFits DEF Offers
<1>2. DOMAIN es = 1 .. Len(es) /\ \A i \in DOMAIN es : es[i] \in S
  BY <1>1, LenProperties, ElementOfSeq
<1> HIDE DEF S
<1>3. \/ x = <<>> /\ (whole => Of(es, t) = {})
      \/ \E i \in Of(es, t) : /\ Legible(es[i], x, whole)
                              /\ whole => i = Max(Of(es, t))
  <2>1. Remains(xs, es, whole)
    BY DEF Offers
  <2> QED
    BY <1>1, <2>1, BodyRemains
<1>4. LastValue(es, t) = IF Of(es, t) = {} THEN <<>> ELSE AsParsed(es[Max(Of(es, t))])
  BY DEF LastValue, Of
<1> HIDE DEF x
<1>5. CASE x = <<>> /\ (whole => Of(es, t) = {})
  <2>1. f = <<>>
    BY <1>5 DEF Reads, x
  <2> QED
    BY <1>4, <1>5, <2>1 DEF Kept
<1>6. ASSUME NEW i \in Of(es, t), Legible(es[i], x, whole), whole => i = Max(Of(es, t))
      PROVE  Kept(f, es, t, whole)
  <2>1. i \in DOMAIN es /\ es[i].type = t /\ es[i] \in S /\ Encodable(es[i])
    BY <1>1, <1>2 DEF Of
  <2>2. Beginning(f, AsParsed(es[i]), whole)
    BY <1>6, <2>1 DEF Reads, x
  <2>3. PICK V : AsParsed(es[i]) \in Seq(V)
    BY <2>1, ListOf
  <2>4. IsPrefix(f, AsParsed(es[i])) /\ (whole => f = AsParsed(es[i]))
    BY <1>1, <2>2, <2>3, BeginningIs
  <2>5. whole => f = LastValue(es, t)
    BY <1>4, <1>6, <2>4
  <2> QED
    BY <2>1, <2>4, <2>5 DEF Kept
<1> QED
  BY <1>3, <1>5, <1>6

\* A host name is never cut.
LEMMA NameKept ==
    ASSUME NEW es, NEW xs, NEW whole, Offers(es, xs, whole)
    PROVE  LET f == HostName[Content(BodyOf(xs, 0), 2)]
           IN /\ whole => f = IF \E i \in DOMAIN es : es[i].type = 0
                              THEN <<LastValue(es, 0)>> ELSE <<>>
              /\ f = <<>> \/ \E i \in DOMAIN es : es[i].type = 0 /\ f = <<AsParsed(es[i])>>
<1> DEFINE S == ToSet(es)
           x == BodyOf(xs, 0)
           f == HostName[Content(x, 2)]
<1>1. whole \in BOOLEAN /\ es \in Seq(S) /\ Fitting(S) /\ \A e \in S : Encodable(e)
  BY EncodableFits DEF Offers
<1> HIDE DEF S
<1>3. \/ x = <<>> /\ (whole => Of(es, 0) = {})
      \/ \E i \in Of(es, 0) : /\ Legible(es[i], x, whole)
                              /\ whole => i = Max(Of(es, 0))
  <2>1. Remains(xs, es, whole)
    BY DEF Offers
  <2> QED
    BY <1>1, <2>1, BodyRemains
<1>4. LastValue(es, 0) = IF Of(es, 0) = {} THEN <<>> ELSE AsParsed(es[Max(Of(es, 0))])
  BY DEF LastValue, Of
<1>5. (\E i \in DOMAIN es : es[i].type = 0) <=> Of(es, 0) # {}
  BY DEF Of
<1> HIDE DEF x
<1>6. CASE x = <<>> /\ (whole => Of(es, 0) = {})
  <2>1. f = <<>>
    BY <1>6, NothingDecoded
  <2> QED
    BY <1>4, <1>5, <1>6, <2>1 DEF x
<1>7. ASSUME NEW i \in Of(es, 0), Legible(es[i], x, whole), whole => i = Max(Of(es, 0))
      PROVE  /\ whole => f = IF \E j \in DOMAIN es : es[j].type = 0
                              THEN <<LastValue(es, 0)>> ELSE <<>>
             /\ f = <<>> \/ \E j \in DOMAIN es : es[j].type = 0 /\ f = <<AsParsed(es[j])>>
  <2>1. i \in DOMAIN es /\ es[i].type = 0
    BY DEF Of
  <2>2. f \in {<<>>, <<AsParsed(es[i])>>} /\ (whole => f = <<AsParsed(es[i])>>)
    BY <1>7, <2>1 DEF Legible
  <2> HIDE DEF f
  <2> QED
    BY <1>4, <1>5, <1>7, <2>1, <2>2
<1> QED
  BY <1>3, <1>6, <1>7 DEF x

\* The types of the extensions that are left.
LEMMA TypesKept ==
    ASSUME NEW es, NEW xs, NEW whole, Offers(es, xs, whole)
    PROVE  LET got == [i \in DOMAIN xs |-> xs[i].type]
               offered == [i \in DOMAIN es |-> es[i].type]
           IN IsPrefix(got, offered) /\ (whole => got = offered)
<1> DEFINE S == ToSet(es)
           got == [i \in DOMAIN xs |-> xs[i].type]
           offered == [i \in DOMAIN es |-> es[i].type]
           m == Len(xs)
           n == Len(es)
<1>1. whole \in BOOLEAN /\ es \in Seq(S) /\ Fitting(S) /\ Remains(xs, es, whole)
      /\ \A e \in S : Encodable(e)
  BY EncodableFits DEF Offers
<1>2. /\ n \in Nat /\ DOMAIN es = 1 .. n /\ m \in Nat /\ DOMAIN xs = 1 .. m /\ m <= n
      /\ \A i \in 1 .. n : es[i] \in S
  BY <1>1, LenProperties, ElementOfSeq DEF Remains, Survivors
<1>3. \A i \in 1 .. m : i \in 1 .. n /\ xs[i].type = es[i].type
  BY <1>1, <1>2 DEF Remains, Survivors
<1>4. \A i \in 1 .. n : es[i].type \in Word
  BY <1>1, <1>2 DEF Fitting
<1>5. whole => m = n
  BY <1>1, PlainSurvivors DEF Remains
<1> HIDE DEF S, m, n
<1>6. got = [i \in 1 .. m |-> es[i].type] /\ offered = [i \in 1 .. n |-> es[i].type]
  BY <1>2, <1>3
<1>7. offered \in Seq(Word) /\ Len(offered) = n
  BY <1>2, <1>4, <1>6
<1>8. got \in Seq(Word) /\ Len(got) = m
  BY <1>2, <1>3, <1>4, <1>6
<1>9. m \in 0 .. Len(offered)
  BY <1>2, <1>7
<1>10. \A i \in 1 .. m : got[i] = offered[i]
  BY <1>3, <1>6
<1> HIDE DEF got, offered
<1>11. got = Upto(offered, m)
  <2>1. /\ Upto(offered, m) \in Seq(Word) /\ Len(Upto(offered, m)) = m
        /\ \A i \in 1 .. m : Upto(offered, m)[i] = offered[i]
    BY <1>7, <1>9, UptoIs
  <2> QED
    BY <1>8, <1>10, <2>1, SeqEqual
<1>12. Beginning(got, offered, whole)
  BY <1>5, <1>7, <1>9, <1>11 DEF Beginning
<1>13. IsPrefix(got, offered) /\ (whole => got = offered)
  BY <1>1, <1>7, <1>12, BeginningIs
<1> QED
  BY <1>13 DEF got, offered

-----------------------------------------------------------------------------
\* What is captured of a message: n bytes of the message and what follows it.
Captured(p, m, whole, at) ==
    \E t \in Seq(Byte) : \E n \in 0 .. Len(m) + Len(t) :
        /\ p = Upto(m \o t, n)
        /\ whole => n >= Len(m)
        /\ ~whole => n = at /\ n < Len(m)

\* A prefix of a message, alone.
LEMMA CapturedPart ==
    ASSUME NEW m \in Seq(Byte), NEW n \in 0 .. Len(m), NEW p, p = Upto(m, n),
           NEW whole, whole => n = Len(m), NEW at, ~whole => n = at /\ n < Len(m)
    PROVE  Captured(p, m, whole, at)
<1>1. <<>> \in Seq(Byte) /\ Len(<<>>) = 0 /\ Upto(m \o <<>>, n) = Upto(m, n)
  BY CatNone
<1>2. n \in 0 .. Len(m) + Len(<<>>) /\ (whole => n >= Len(m))
  BY <1>1, LenProperties
<1> QED
  BY <1>1, <1>2 DEF Captured

\* However a hello is framed and damaged, the payload of the capture starts with
\* the bytes of the hello that are left.
LEMMA Delivery ==
    ASSUME NEW h, WellFormed(h), NEW d, d \in Deliveries(Handshake(h))
    PROVE  /\ Received(Handshake(h), d) \in Seq(Byte)
           /\ Captured(Payload(Received(Handshake(h), d)), Handshake(h),
                       d.damage \in {"none", "trailing"}, d.at)
           /\ d.damage \notin {"none", "trailing"} => d.at \in 0 .. Len(Handshake(h)) - 1
<1> DEFINE m == Handshake(h)
           f == wrap_record(m)
           l == Len(m)
           p == Payload(Received(m, d))
           whole == d.damage \in {"none", "trailing"}
           k == IF whole THEN l ELSE d.at
           part == Received(m, d) \in Seq(Byte) /\ p = Upto(m, k)
<1>1. m \in Seq(Byte) /\ l \in Word /\ l \in Nat /\ Trailer \in Seq(Byte)
  BY HelloBytes, HelloParts, LenProperties, TrailerAssumption
<1>2. f \in Seq(Byte) /\ Len(f) = 5 + l
  BY <1>1, RecordIs
<1>3. \A t \in Seq(Byte) : \A n \in 0 .. l + Len(t) :
         LET s == Upto(m \o t, n) IN s \in Seq(Byte) /\ Payload(s) = s
  <2> TAKE t \in Seq(Byte)
  <2> TAKE n \in 0 .. l + Len(t)
  <2> DEFINE s == Upto(m \o t, n)
  <2>1. s \in Seq(Byte) /\ Len(s) = n /\ (n >= 1 => s[1] = h.type) /\ h.type \in {1, 2}
    BY MessageCut, HelloParts
  <2> HIDE DEF s
  <2>2. Len(s) >= 1 => s[1] # 22
    BY <2>1
  <2>3. Payload(s) = s
    BY <2>1, <2>2, PayloadBare
  <2> QED
    BY <2>1, <2>3 DEF s
<1>4. \A t \in Seq(Byte) : \A j \in 0 .. l + Len(t) :
         LET s == Upto(f \o t, 5 + j) IN s \in Seq(Byte) /\ Payload(s) = Part(m, j)
  BY <1>1, PayloadRecord
<1>5. \A s \in Seq(Byte) : \A n \in 0 .. Len(s) : Upto(s \o <<>>, n) = Upto(s, n)
  BY CatNone
<1>6. <<>> \in Seq(Byte) /\ Len(<<>>) = 0 /\ l + 0 = l
  BY <1>1
<1>7. Upto(m, l) = m /\ Upto(f, 5 + l) = f
  BY <1>1, <1>2, UptoAll
<1>8. Deliveries(m) =
         [framing : {"bare", "record"}, damage : {"none", "trailing"}, at : {l}]
            \union [framing : {"bare", "record"}, damage : {"cut"}, at : 0 .. l - 1]
            \union [framing : {"record"}, damage : {"split"}, at : 1 .. l - 1]
  BY DEF Deliveries
<1>9. d.at \in 0 .. l /\ l \in 0 .. l /\ (~whole => d.at \in 0 .. l - 1)
  BY <1>1, <1>8
<1>10. /\ d.framing = "bare" /\ d.damage = "none" => Received(m, d) = m
       /\ d.framing = "bare" /\ d.damage = "trailing" => Received(m, d) = m \o Trailer
       /\ d.framing = "bare" /\ d.damage = "cut" => Received(m, d) = Upto(m, d.at)
       /\ d.framing = "record" /\ d.damage = "none" => Received(m, d) = f
       /\ d.framing = "record" /\ d.damage = "trailing" => Received(m, d) = f \o Trailer
       /\ d.framing = "record" /\ d.damage = "cut" => Received(m, d) = Upto(f, 5 + d.at)
       /\ d.damage = "split" => Received(m, d) = wrap_record(Upto(m, d.at))
                                   \o wrap_record(SubSeq(m, d.at + 1, l))
  <2>1. /\ Len(m) - Len(m) + d.at = d.at /\ Len(f) - Len(m) + d.at = 5 + d.at
    BY <1>1, <1>2, <1>9
  <2> HIDE DEF f, m
  <2> QED
    BY <2>1 DEF Received, Upto, f, l
<1>11. \/ d.framing = "bare" /\ d.damage \in {"none", "trailing", "cut"}
       \/ d.framing = "record" /\ d.damage \in {"none", "trailing", "cut", "split"}
  BY <1>8
<1>011. /\ whole => k = l
        /\ ~whole => k = d.at /\ k < l
        /\ k \in 0 .. l
  BY <1>1, <1>9
<1> HIDE DEF f, m, l
<1>12. ASSUME d.framing = "bare" /\ d.damage = "none"
       PROVE  part
  <2>1. Received(m, d) = Upto(m, l) /\ Upto(m \o <<>>, l) = Upto(m, l)
    BY <1>1, <1>5, <1>7, <1>9, <1>10, <1>12 DEF l
  <2>2. Upto(m, l) \in Seq(Byte) /\ Payload(Upto(m, l)) = Upto(m, l)
    BY <1>3, <1>6, <1>9, <2>1
  <2>3. part
    BY <1>12, <2>1, <2>2
  <2> QED
    BY <2>3
<1>13. ASSUME d.framing = "bare", d.damage = "trailing"
       PROVE  Received(m, d) \in Seq(Byte) /\ Captured(p, m, whole, d.at)
  <2>1. /\ m \o Trailer \in Seq(Byte) /\ Len(m \o Trailer) = l + Len(Trailer)
        /\ Len(Trailer) \in Nat
    BY <1>1, ConcatProperties, LenProperties DEF l
  <2>2. l + Len(Trailer) \in 0 .. l + Len(Trailer) /\ l + Len(Trailer) >= l
    BY <1>1, <2>1
  <2>3. Upto(m \o Trailer, l + Len(Trailer)) = m \o Trailer
    BY <2>1, UptoAll
  <2>4. Received(m, d) = Upto(m \o Trailer, l + Len(Trailer))
    BY <1>10, <1>13, <2>3
  <2>5. Received(m, d) \in Seq(Byte) /\ p = Upto(m \o Trailer, l + Len(Trailer))
    BY <1>1, <1>3, <2>2, <2>4
  <2>6. Captured(p, m, whole, d.at)
    BY <1>1, <1>13, <2>2, <2>5 DEF Captured, l
  <2> QED
    BY <2>5, <2>6
<1>14. ASSUME d.framing = "bare" /\ d.damage = "cut"
       PROVE  part
  <2>1. Received(m, d) = Upto(m, d.at) /\ Upto(m \o <<>>, d.at) = Upto(m, d.at)
    BY <1>1, <1>5, <1>9, <1>10, <1>14 DEF l
  <2>2. Upto(m, d.at) \in Seq(Byte) /\ Payload(Upto(m, d.at)) = Upto(m, d.at)
    BY <1>3, <1>6, <1>9, <2>1
  <2>3. d.at \in 0 .. l - 1 /\ d.at < l
    BY <1>1, <1>9, <1>14
  <2>4. part
    BY <1>14, <2>1, <2>2
  <2> QED
    BY <2>4
<1>15. ASSUME d.framing = "record" /\ d.damage = "none"
       PROVE  part
  <2>1. Received(m, d) = Upto(f \o <<>>, 5 + l)
    <3>1. 5 + l \in 0 .. Len(f)
      BY <1>1, <1>2
    <3> QED
      BY <1>2, <1>5, <1>7, <1>10, <1>15, <3>1
  <2>2. Received(m, d) \in Seq(Byte) /\ p = Part(m, l)
    BY <1>4, <1>6, <1>9, <2>1
  <2>3. Part(m, l) = Upto(m, l)
    BY DEF Part, l
  <2>4. part
    BY <1>15, <2>2, <2>3
  <2> QED
    BY <2>4
<1>16. ASSUME d.framing = "record" /\ d.damage = "trailing"
       PROVE  part
  <2>1. /\ f \o Trailer \in Seq(Byte) /\ Len(f \o Trailer) = Len(f) + Len(Trailer)
        /\ Len(Trailer) \in Nat
    BY <1>1, <1>2, ConcatProperties, LenProperties
  <2>2. l + Len(Trailer) \in 0 .. l + Len(Trailer) /\ l + Len(Trailer) >= l
        /\ Len(f) + Len(Trailer) = 5 + (l + Len(Trailer))
    BY <1>1, <1>2, <2>1
  <2>3. Upto(f \o Trailer, 5 + (l + Len(Trailer))) = f \o Trailer
    BY <2>1, <2>2, UptoAll
  <2>4. Received(m, d) \in Seq(Byte) /\ p = Part(m, l + Len(Trailer))
    BY <1>1, <1>4, <1>10, <1>16, <2>2, <2>3
  <2>5. Part(m, l + Len(Trailer)) = Upto(m, l)
    BY <1>1, <2>1, <2>2 DEF Part, l
  <2>6. part
    BY <1>16, <2>4, <2>5
  <2> QED
    BY <2>6
<1>17. ASSUME d.framing = "record" /\ d.damage = "cut"
       PROVE  part
  <2>1. d.at \in 0 .. l - 1 /\ d.at < l /\ d.at \in 0 .. l
    BY <1>1, <1>9, <1>17
  <2>2. Received(m, d) = Upto(f \o <<>>, 5 + d.at)
    <3>1. 5 + d.at \in 0 .. Len(f)
      BY <1>1, <1>2, <2>1
    <3> QED
      BY <1>2, <1>5, <1>10, <1>17, <3>1
  <2>3. Received(m, d) \in Seq(Byte) /\ p = Part(m, d.at)
    BY <1>4, <1>6, <2>1, <2>2
  <2>4. Part(m, d.at) = Upto(m, d.at)
    BY <2>1 DEF Part, l
  <2>5. part
    BY <1>17, <2>3, <2>4
  <2> QED
    BY <2>5
<1>18. ASSUME d.damage = "split"
       PROVE  part
  <2> DEFINE a == Upto(m, d.at)
             b == SubSeq(m, d.at + 1, l)
             w == wrap_record(b)
             g == wrap_record(a)
  <2>1. d.at \in 0 .. l - 1 /\ d.at < l /\ d.at \in 0 .. l /\ d.at \in Nat /\ d.at <= l
    BY <1>1, <1>9, <1>18
  <2>2. a \in Seq(Byte) /\ Len(a) = d.at
    BY <1>1, <2>1, UptoIs DEF l
  <2>3. b \in Seq(Byte) /\ Len(b) = l - d.at
    BY <1>1, <2>1, PieceIs DEF l
  <2>4. Len(a) \in Word /\ Len(b) \in Word
    <3>1. l - d.at \in Nat /\ l - d.at <= l
      BY <1>1, <2>1
    <3>2. d.at \in Word
      BY ONLY <1>1, <2>1, Smaller
    <3>3. l - d.at \in Word
      BY ONLY <1>1, <3>1, Smaller
    <3> QED
      BY <2>2, <2>3, <3>2, <3>3
  <2> HIDE DEF a, b
  <2>5. w \in Seq(Byte)
    BY <2>3, <2>4, RecordIs
  <2>6. g \in Seq(Byte) /\ Len(g) = 5 + Len(a) /\ Len(a) \in Nat
    BY <2>2, <2>4, RecordIs, LenProperties
  <2> HIDE DEF w, g
  <2>7. g \o w \in Seq(Byte) /\ Len(g \o w) = Len(g) + Len(w) /\ Len(w) \in Nat
    BY <2>5, <2>6, ConcatProperties, LenProperties
  <2>8. /\ Len(g) + Len(w) = 5 + (Len(a) + Len(w))
        /\ Len(a) + Len(w) \in 0 .. Len(a) + Len(w)
    BY <2>6, <2>7
  <2>9. Upto(g \o w, 5 + (Len(a) + Len(w))) = g \o w
    BY <2>7, <2>8, UptoAll
  <2>10. Payload(g \o w) = Part(a, Len(a) + Len(w))
    BY <2>2, <2>4, <2>5, <2>8, <2>9, PayloadRecord DEF g
  <2>11. Part(a, Len(a) + Len(w)) = a
    <3>1. Upto(a, Len(a)) = a
      BY <2>2, UptoAll
    <3>2. Len(w) = 0 => Len(a) + Len(w) = Len(a)
      BY <2>6, <2>7
    <3>3. Len(w) # 0 => ~(Len(a) + Len(w) <= Len(a))
      BY <2>6, <2>7
    <3> QED
      BY <3>1, <3>2, <3>3 DEF Part
  <2>12. Received(m, d) = g \o w
    BY <1>10, <1>18 DEF g, w, a, b
  <2>13. p = Upto(m, d.at)
    BY <2>10, <2>11, <2>12 DEF a
  <2> QED
    BY <1>18, <2>7, <2>12, <2>13
<1>19. ASSUME part
       PROVE  Received(m, d) \in Seq(Byte) /\ Captured(p, m, whole, d.at)
  <2> HIDE DEF k, p, whole
  <2>1. m \in Seq(Byte) /\ k \in 0 .. Len(m) /\ (whole => k = Len(m))
        /\ (~whole => k = d.at /\ k < Len(m))
    BY <1>1, <1>011 DEF l
  <2>2. p = Upto(m, k)
    BY <1>19
  <2>3. Captured(p, m, whole, d.at)
    BY ONLY <2>1, <2>2, CapturedPart
  <2> QED
    BY <1>19, <2>3
<1>20. Received(m, d) \in Seq(Byte) /\ Captured(p, m, whole, d.at)
  <2> HIDE DEF part, p, whole, k
  <2> QED
    BY <1>11, <1>12, <1>13, <1>14, <1>15, <1>16, <1>17, <1>18, <1>19
<1> QED
  BY <1>9, <1>20 DEF m, l

\* What is answered for a delivery: nothing by the parser of the other side.
LEMMA Outcome ==
    ASSUME NEW h, WellFormed(h), NEW d, d \in Deliveries(Handshake(h))
    PROVE  LET s == Payload(Received(Handshake(h), d))
               whole == d.damage \in {"none", "trailing"}
           IN /\ \A type : type # h.type => MessageAnswer(type, s) = <<>>
              /\ Understood(h, MessageAnswer(h.type, s),
                            IF whole THEN Len(Handshake(h)) ELSE d.at,
                            4 + Ahead(h), whole)
<1> DEFINE m == Handshake(h)
           s == Payload(Received(m, d))
           whole == d.damage \in {"none", "trailing"}
           k == IF whole THEN Len(m) ELSE d.at
<1>1. Captured(s, m, whole, d.at)
  BY Delivery
<1>2. PICK t \in Seq(Byte) : \E n \in 0 .. Len(m) + Len(t) :
         s = Upto(m \o t, n) /\ (whole => n >= Len(m)) /\ (~whole => n = d.at /\ n < Len(m))
  BY <1>1 DEF Captured
<1>3. PICK n \in 0 .. Len(m) + Len(t) :
         s = Upto(m \o t, n) /\ (whole => n >= Len(m)) /\ (~whole => n = d.at /\ n < Len(m))
  BY <1>2
<1>4. Len(m) \in Nat /\ Len(t) \in Nat /\ whole \in BOOLEAN
  BY HelloBytes, LenProperties
<1>5. n \in Nat
  BY <1>4
<1>6. /\ \A type : type # h.type => MessageAnswer(type, s) = <<>>
      /\ Understood(h, MessageAnswer(h.type, s), IF n <= Len(m) THEN n ELSE Len(m),
                    4 + Ahead(h), n >= Len(m))
  BY <1>3, MessageCut
<1> HIDE DEF m, s, whole
<1>7. (n >= Len(m)) = whole /\ (IF n <= Len(m) THEN n ELSE Len(m)) = k
  BY <1>3, <1>4, <1>5
<1> HIDE DEF k
<1>8. Understood(h, MessageAnswer(h.type, s), k, 4 + Ahead(h), whole)
  BY <1>6, <1>7
<1> QED
  BY <1>6, <1>8 DEF m, s, whole, k

-----------------------------------------------------------------------------
\* What is read for an extension that is absent, and in one that is left.
LEMMA FieldsRead ==
    ASSUME NEW xs
    PROVE  /\ Reads(Numbers16(Content(BodyOf(xs, 10), 2)), BodyOf(xs, 10), 10)
           /\ Reads(Content(BodyOf(xs, 11), 1), BodyOf(xs, 11), 11)
           /\ Reads(Numbers16(Content(BodyOf(xs, 13), 2)), BodyOf(xs, 13), 13)
           /\ Reads(Numbers16(Content(BodyOf(xs, 43), 1)), BodyOf(xs, 43), 43)
           /\ Reads(Protocols[Content(BodyOf(xs, 16), 2)], BodyOf(xs, 16), 16)
<1>1. \A x : Reads(Numbers16(Content(x, 2)), x, 10)
  BY NothingDecoded DEF Reads, Legible
<1>2. \A x : Reads(Content(x, 1), x, 11)
  BY NothingDecoded DEF Reads, Legible
<1>3. \A x : Reads(Numbers16(Content(x, 2)), x, 13)
  BY NothingDecoded DEF Reads, Legible
<1>4. \A x : Reads(Numbers16(Content(x, 1)), x, 43)
  BY NothingDecoded DEF Reads, Legible
<1>5. \A x : Reads(Protocols[Content(x, 2)], x, 16)
  BY NothingDecoded DEF Reads, Legible
<1> QED
  BY <1>1, <1>2, <1>3, <1>4, <1>5

\* The struct of a hello of which the extensions xs are left.
Kinds(es) == [i \in DOMAIN es |-> es[i].type]

Preserved(got, h, whole) ==
    LET es == h.extensions
    IN /\ got.legacy_version = h.legacy_version
       /\ IsPrefix(got.extensions, Kinds(es)) /\ (whole => got.extensions = Kinds(es))
       /\ h.type = 2 => got.cipher = h.ciphers[1]
       /\ h.type = 1 =>
             /\ got.ciphers = h.ciphers
             /\ Kept(got.curves, es, 10, whole) /\ Kept(got.point_formats, es, 11, whole)
             /\ Kept(got.sig_algs, es, 13, whole)
             /\ Kept(got.supported_versions, es, 43, whole)
             /\ Kept(got.alpn, es, 16, whole)
             /\ whole => got.sni = IF \E i \in DOMAIN es : es[i].type = 0
                                   THEN <<LastValue(es, 0)>> ELSE <<>>
             /\ got.sni = <<>> \/ \E i \in DOMAIN es :
                                     es[i].type = 0 /\ got.sni = <<AsParsed(es[i])>>

LEMMA FieldsPreserved ==
    ASSUME NEW h, WellFormed(h), NEW xs, NEW whole \in BOOLEAN,
           Remains(xs, h.extensions, whole)
    PROVE  Preserved(Fields(h, xs), h, whole)
<1> DEFINE es == h.extensions
           got == Fields(h, xs)
<1>1. Offers(es, xs, whole) /\ h.type \in {1, 2}
  BY DEF WellFormed, Offers
<1>2. /\ got.legacy_version = h.legacy_version
      /\ got.extensions = Kinds(xs)
      /\ h.type = 2 => got.cipher = h.ciphers[1]
      /\ h.type = 1 =>
            /\ got.ciphers = h.ciphers
            /\ got.curves = Numbers16(Content(BodyOf(xs, 10), 2))
            /\ got.point_formats = Content(BodyOf(xs, 11), 1)
            /\ got.sig_algs = Numbers16(Content(BodyOf(xs, 13), 2))
            /\ got.supported_versions = Numbers16(Content(BodyOf(xs, 43), 1))
            /\ got.sni = HostName[Content(BodyOf(xs, 0), 2)]
            /\ got.alpn = Protocols[Content(BodyOf(xs, 16), 2)]
  BY <1>1 DEF Fields, ClientOf, ServerOf, Kinds
<1>3. IsPrefix(Kinds(xs), Kinds(es)) /\ (whole => Kinds(xs) = Kinds(es))
  BY <1>1, TypesKept DEF Kinds
<1> HIDE DEF es, got
<1>4. ASSUME NEW f, NEW t, t \in {10, 11, 13, 16, 43}, Reads(f, BodyOf(xs, t), t)
      PROVE  Kept(f, es, t, whole)
  BY <1>1, <1>4, KeptIs
<1>5. /\ Kept(Numbers16(Content(BodyOf(xs, 10), 2)), es, 10, whole)
      /\ Kept(Content(BodyOf(xs, 11), 1), es, 11, whole)
      /\ Kept(Numbers16(Content(BodyOf(xs, 13), 2)), es, 13, whole)
      /\ Kept(Numbers16(Content(BodyOf(xs, 43), 1)), es, 43, whole)
      /\ Kept(Protocols[Content(BodyOf(xs, 16), 2)], es, 16, whole)
  BY <1>4, FieldsRead
<1>6. LET f == HostName[Content(BodyOf(xs, 0), 2)]
      IN /\ whole => f = IF \E i \in DOMAIN es : es[i].type = 0
                         THEN <<LastValue(es, 0)>> ELSE <<>>
         /\ f = <<>> \/ \E i \in DOMAIN es : es[i].type = 0 /\ f = <<AsParsed(es[i])>>
  BY <1>1, NameKept
<1> QED
  BY <1>2, <1>3, <1>5, <1>6 DEF Preserved, es, got

-----------------------------------------------------------------------------
\* Along a behaviour, the capture stays what was delivered of what was sent.
Delivered ==
    /\ sent \in Hellos /\ delivery \in Deliveries(Handshake(sent))
    /\ data = Received(Handshake(sent), delivery)

LEMMA InitDelivered == CaptureInit => Init /\ Delivered
<1> SUFFICES ASSUME CaptureInit
             PROVE  Init /\ Delivered
  OBVIOUS
<1>1. Delivered
  BY DEF CaptureInit, Delivered
<1>2. data \in Captures
  BY <1>1 DEF Delivered, Captures
<1>3. data \in Inputs
  BY <1>2, DeliveryAssumption
<1> QED
  BY <1>1, <1>3 DEF CaptureInit, Init

LEMMA NextDelivered ==
    Delivered /\ [CaptureNext]_allvars => [Next]_vars /\ Delivered'
<1> SUFFICES ASSUME Delivered, [CaptureNext]_allvars
             PROVE  [Next]_vars /\ Delivered'
  OBVIOUS
<1>1. [Next]_vars /\ sent' = sent /\ delivery' = delivery
  BY DEF CaptureNext, allvars
<1>2. CASE Next
  <2>1. data' = data
    BY <1>2, SameCapture
  <2> QED
    BY <1>1, <2>1 DEF Delivered
<1>3. CASE vars' = vars
  BY <1>1, <1>3 DEF Delivered, vars
<1> QED
  BY <1>1, <1>2, <1>3

\* The parser is safe and means what the reference says, on what was delivered.
CaptureInv == Safe /\ Meaning /\ Delivered

LEMMA CaptureInvariant == CaptureSpec => []CaptureInv
<1>1. CaptureInit => CaptureInv
  BY InitDelivered, InitSafe, InitMeans DEF CaptureInv
<1>2. CaptureInv /\ [CaptureNext]_allvars => CaptureInv'
  BY NextDelivered, NextSafe, NextMeans DEF CaptureInv
<1> QED
  BY <1>1, <1>2, PTL DEF CaptureSpec

\* The bytes of the message that arrived.
Arrived == IF Intact THEN Len(Handshake(sent)) ELSE delivery.at

\* What the caller holds when the parser of the right side has returned.
Held ==
    \/ pc = "none" /\ Arrived < HeadLen
    \/ /\ pc = "some" /\ Arrived >= HeadLen /\ Answer = <<Answer[1]>>
       /\ \E xs : Remains(xs, sent.extensions, Intact) /\ Answer[1] = Fields(sent, xs)

LEMMA SizesAre ==
    ASSUME CaptureInv
    PROVE  /\ HeadLen = 4 + Ahead(sent) /\ HeadLen \in Nat /\ Arrived \in Nat
           /\ Intact => Arrived >= HeadLen
<1> DEFINE h == sent
           m == Handshake(h)
<1>1. WellFormed(h) /\ delivery \in Deliveries(m)
  BY HellosAssumption DEF CaptureInv, Delivered
<1>2. /\ Len(m) = 4 + Len(HelloBody(h)) /\ Len(HelloBody(h)) \in Nat
      /\ Len(BlockOf(h)) = 2 + Len(Exts(h.extensions)) /\ Len(Exts(h.extensions)) \in Nat
  BY <1>1, HelloSize, HelloParts DEF BlockOf
<1>3. HeadLen = Len(m) - Len(BlockOf(h))
  BY DEF HeadLen, BlockOf
<1>4. Ahead(h) = Len(HelloBody(h)) - Len(BlockOf(h))
  BY DEF Ahead
<1>5. Ahead(h) \in Nat /\ Ahead(h) <= Len(HelloBody(h))
  BY <1>1, AheadIs
<1>6. ~Intact => delivery.at \in 0 .. Len(m) - 1
  BY <1>1, Delivery DEF Intact
<1> HIDE DEF m
<1>7. HeadLen = 4 + Ahead(h) /\ HeadLen \in Nat /\ HeadLen <= Len(m) /\ Len(m) \in Nat
  BY <1>2, <1>3, <1>4, <1>5
<1>8. Arrived = IF Intact THEN Len(m) ELSE delivery.at
  BY DEF Arrived, m
<1> QED
  BY <1>6, <1>7, <1>8

LEMMA AnswerIs ==
    ASSUME CaptureInv, pc \in Returned
    PROVE  /\ ~RightSide => pc = "none"
           /\ RightSide => Held
           /\ Intact => Arrived >= HeadLen
<1> DEFINE h == sent
           d == delivery
           m == Handshake(h)
           whole == d.damage \in {"none", "trailing"}
           s == Payload(Received(m, d))
           k == IF whole THEN Len(m) ELSE d.at
           kind == HandshakeType[side]
<1>1. /\ WellFormed(h) /\ d \in Deliveries(m) /\ data = Received(m, d)
      /\ side \in Side
  BY HellosAssumption DEF CaptureInv, Delivered, Safe, TypeOK
<1>2. /\ \A type : type # h.type => MessageAnswer(type, s) = <<>>
      /\ Understood(h, MessageAnswer(h.type, s), k, 4 + Ahead(h), whole)
  BY <1>1, Outcome
<1>3. Parsed = MessageAnswer(kind, s)
  <2>1. CASE side = "client"
    BY <1>1, <2>1 DEF Parsed, ParseClientHello, MessageAnswer, BodyAnswer, HandshakeType
  <2>2. CASE side = "server"
    BY <1>1, <2>2 DEF Parsed, ParseServerHello, MessageAnswer, BodyAnswer, HandshakeType
  <2> QED
    BY <1>1, <2>1, <2>2 DEF Side
<1>4. HeadLen = 4 + Ahead(h) /\ HeadLen \in Nat
  BY SizesAre
<1>5. k \in Nat /\ (whole => k >= HeadLen)
  BY SizesAre DEF Arrived, Intact
<1>6. /\ pc = "some" => Answer = Parsed /\ Parsed = <<Parsed[1]>>
      /\ pc = "none" => Parsed = <<>>
      /\ pc = "some" \/ pc = "none"
  BY DEF CaptureInv, Meaning, Answer, Result, Returned
<1>7. (RightSide <=> kind = h.type) /\ Intact = whole /\ Arrived = k
  BY DEF RightSide, Intact, Arrived
<1> HIDE DEF m, s, k, whole, kind
<1>8. ASSUME kind # h.type
      PROVE  pc = "none"
  <2>1. Parsed = <<>>
    BY <1>2, <1>3, <1>8
  <2> QED
    BY <1>6, <2>1
<1>9. ASSUME kind = h.type
      PROVE  Held
  <2>1. k < HeadLen => Parsed = <<>>
    BY <1>2, <1>3, <1>4, <1>9 DEF Understood
  <2>2. k >= HeadLen => \E xs : Remains(xs, h.extensions, whole) /\ Parsed = <<Fields(h, xs)>>
    BY <1>2, <1>3, <1>4, <1>9 DEF Understood
  <2>3. CASE k < HeadLen
    <3>1. pc = "none"
      BY <1>6, <2>1, <2>3
    <3> QED
      BY <1>7, <2>3, <3>1 DEF Held
  <2>4. CASE k >= HeadLen
    <3>1. PICK xs : Remains(xs, h.extensions, whole) /\ Parsed = <<Fields(h, xs)>>
      BY <2>2, <2>4
    <3>2. pc = "some" /\ Answer = <<Fields(h, xs)>>
      BY <1>6, <3>1
    <3> QED
      BY <1>7, <2>4, <3>1, <3>2 DEF Held
  <2> QED
    BY <1>4, <1>5, <2>3, <2>4
<1> QED
  BY <1>5, <1>7, <1>8, <1>9

\* A parser that has returned a struct returned one that preserves what was sent.
LEMMA Heard ==
    ASSUME CaptureInv, RightSide, pc = "some"
    PROVE  /\ Answer = <<Answer[1]>> /\ Preserved(Answer[1], sent, Intact)
           /\ sent.type = 1 => side = "client"
           /\ sent.type = 2 => side = "server"
           /\ sent.type \in {1, 2} /\ \E xs : Answer[1] = Fields(sent, xs)
<1>1. Held /\ WellFormed(sent) /\ side \in Side
  BY AnswerIs, HellosAssumption DEF Returned, CaptureInv, Delivered, Safe, TypeOK
<1>2. Answer = <<Answer[1]>>
      /\ \E xs : Remains(xs, sent.extensions, Intact) /\ Answer[1] = Fields(sent, xs)
  BY <1>1 DEF Held
<1>3. Intact \in BOOLEAN
  BY DEF Intact
<1>4. Preserved(Answer[1], sent, Intact)
  BY <1>1, <1>2, <1>3, FieldsPreserved
<1>5. HandshakeType[side] = sent.type
  BY DEF RightSide
<1> QED
  BY <1>1, <1>2, <1>4, <1>5 DEF HandshakeType, Side, WellFormed

\* A struct of the fields of the hello that preserves all of it is what is
\* expected.
LEMMA ExpectedIs ==
    ASSUME NEW got, Preserved(got, sent, TRUE), sent.type \in {1, 2},
           \E xs : got = Fields(sent, xs)
    PROVE  got = Expected
<1> DEFINE es == sent.extensions
<1>1. SentTypes = Kinds(es) /\ \A t : Sent(t) = LastValue(es, t)
  BY DEF SentTypes, Kinds, Sent
<1>2. (\E i \in DOMAIN SentTypes : SentTypes[i] = 0) <=> \E i \in DOMAIN es : es[i].type = 0
  BY DEF SentTypes
<1>3. CASE sent.type = 1
  <2>1. /\ got.legacy_version = sent.legacy_version /\ got.ciphers = sent.ciphers
        /\ got.extensions = SentTypes /\ got.curves = Sent(10) /\ got.point_formats = Sent(11)
        /\ got.sig_algs = Sent(13) /\ got.supported_versions = Sent(43) /\ got.alpn = Sent(16)
    BY <1>1, <1>3 DEF Preserved, Kept
  <2>2. got.sni = IF \E i \in DOMAIN SentTypes : SentTypes[i] = 0 THEN <<Sent(0)>> ELSE <<>>
    BY <1>1, <1>2, <1>3 DEF Preserved
  <2>3. PICK xs : got = ClientOf(sent.legacy_version, sent.ciphers, xs)
    BY <1>3 DEF Fields
  <2>4. got = [legacy_version |-> got.legacy_version, ciphers |-> got.ciphers,
               extensions |-> got.extensions, curves |-> got.curves,
               point_formats |-> got.point_formats, sig_algs |-> got.sig_algs,
               supported_versions |-> got.supported_versions, sni |-> got.sni,
               alpn |-> got.alpn]
    BY <2>3 DEF ClientOf
  <2> QED
    BY <1>3, <2>1, <2>2, <2>4 DEF Expected
<1>4. CASE sent.type = 2
  <2>1. /\ got.legacy_version = sent.legacy_version /\ got.cipher = sent.ciphers[1]
        /\ got.extensions = SentTypes
    BY <1>1, <1>4 DEF Preserved
  <2>2. PICK xs : got = ServerOf(sent.legacy_version, sent.ciphers[1], xs)
    BY <1>4 DEF Fields
  <2>3. got = [legacy_version |-> got.legacy_version, cipher |-> got.cipher,
               extensions |-> got.extensions]
    BY <2>2 DEF ServerOf
  <2> QED
    BY <1>4, <2>1, <2>3 DEF Expected
<1> QED
  BY <1>3, <1>4

\* On every behaviour of every delivery, the parser of the other side never
\* returns a hello: a ClientHello is no ServerHello, nor the reverse, bare or in
\* a record, cut, split or followed by other bytes (the comparison of the
\* handshake type in parser.rs).
THEOREM NeverTheOtherSide == CaptureSpec => []SidesAreDisjoint
<1>1. CaptureInv => SidesAreDisjoint
  BY AnswerIs DEF SidesAreDisjoint, Returned
<1> QED
  BY <1>1, CaptureInvariant, PTL

\* A hello that arrives whole, bare or in a record, alone or followed by other
\* bytes, is parsed to exactly what was sent, for every hello that can be encoded
\* and every text of its names (parser.rs, "Accepted framing").
THEOREM WholeHellosRoundTrip == CaptureSpec => []RoundTrip
<1>1. ASSUME CaptureInv, RightSide, Intact
      PROVE  /\ pc # "none"
             /\ pc = "some" => Answer = <<Expected>>
  <2>1. pc # "none"
    <3>1. HeadLen \in Nat /\ Arrived \in Nat
      BY <1>1, SizesAre
    <3>2. pc = "none" => Arrived < HeadLen /\ Arrived >= HeadLen
      BY <1>1, AnswerIs DEF Held, Returned
    <3> QED
      BY <3>1, <3>2
  <2>2. ASSUME pc = "some"
        PROVE  Answer = <<Expected>>
    <3>1. Answer = <<Answer[1]>> /\ Answer[1] = Expected
      BY <1>1, <2>2, Heard, ExpectedIs
    <3> QED
      BY <3>1
  <2> QED
    BY <2>1, <2>2
<1> QED
  BY <1>1, CaptureInvariant, PTL DEF RoundTrip

\* A hello that lost bytes is rejected exactly when it lost one before its
\* extension block: the clamps of the extension block and the `?` of everything
\* in front of it meet at that byte.
THEOREM CutBeforeExtensions == CaptureSpec => []CutBeforeExtensionsIsNull
<1>1. CaptureInv => CutBeforeExtensionsIsNull
  BY AnswerIs DEF CutBeforeExtensionsIsNull, Returned, Held, Arrived
<1> QED
  BY <1>1, CaptureInvariant, PTL

\* Whatever damage a delivery did, what is returned was sent: the version and the
\* cipher suites, a prefix of the extensions and of each list, and whole names.
THEOREM NothingInvented == CaptureSpec => []DamageInventsNothing
<1>1. ASSUME CaptureInv, RightSide, pc = "some"
      PROVE  DamageInventsNothing
  <2> DEFINE got == Answer[1]
             es == sent.extensions
  <2>1. /\ Preserved(got, sent, Intact) /\ sent.type \in {1, 2}
        /\ sent.type = 1 => side = "client"
        /\ sent.type = 2 => side = "server"
    BY <1>1, Heard
  <2>2. side = "client" => sent.type = 1
    BY <1>1 DEF RightSide, HandshakeType
  <2>3. side = "server" => sent.type = 2
    BY <1>1 DEF RightSide, HandshakeType
  <2>4. \A f, t : Kept(f, es, t, Intact) => Survives(f, t)
    BY DEF Kept, Survives
  <2>5. SentTypes = Kinds(es)
    BY DEF SentTypes, Kinds
  <2> HIDE DEF got
  <2>6. /\ got.legacy_version = sent.legacy_version
        /\ IsPrefix(got.extensions, SentTypes)
        /\ side = "server" => got.cipher = sent.ciphers[1]
    BY <2>1, <2>3, <2>5 DEF Preserved
  <2>7. side = "client" =>
           /\ got.ciphers = sent.ciphers
           /\ Survives(got.curves, 10) /\ Survives(got.point_formats, 11)
           /\ Survives(got.sig_algs, 13) /\ Survives(got.supported_versions, 43)
           /\ Survives(got.alpn, 16)
           /\ got.sni # <<>> =>
                 \E i \in DOMAIN es : es[i].type = 0 /\ got.sni = <<AsParsed(es[i])>>
    BY <2>1, <2>2, <2>4 DEF Preserved
  <2> QED
    BY <2>6, <2>7 DEF DamageInventsNothing, got
<1>2. CaptureInv => DamageInventsNothing
  BY <1>1 DEF DamageInventsNothing
<1> QED
  BY <1>2, CaptureInvariant, PTL
=============================================================================
