---------------------------- MODULE WireTheorems ----------------------------
(***************************************************************************)
(* What the cursor operations of Wire return, for every capture; that they *)
(* are the operations of HelloReference on the unread bytes; that the      *)
(* recursive functions of HelloReference satisfy their equations; and what *)
(* they read back in a list that Fixtures encoded, cut anywhere.           *)
(***************************************************************************)
EXTENDS Wire, HelloReference, Fixtures, SequenceTheorems, WellFoundedInduction, TLAPS

\* A reader that lies within the capture.
Within(d, w) == w \in Window /\ w.pos <= w.end /\ w.end <= Len(d)

\* Big-endian composition keeps the width.
LEMMA Widths == Byte \subseteq Nat /\ Word \subseteq Nat
BY DEF Byte, Word

LEMMA Between ==
    ASSUME NEW n \in Int, NEW k \in Int, 0 <= n, n <= k
    PROVE  n \in 0 .. k
OBVIOUS

\* The bound is kept under a name: the provers would enumerate the numeral.
LEMMA InWord ==
    ASSUME NEW n \in Int, 0 <= n, n <= 65535
    PROVE  n \in Word
<1> PICK k \in Int : k = 65535
  OBVIOUS
<1>1. 0 .. k = Word
  BY SMT DEF Word
<1>2. n <= k
  OBVIOUS
<1>3. n \in 0 .. k
  BY ONLY <1>2, Between, n \in Int, k \in Int, 0 <= n
<1> QED
  BY ONLY <1>1, <1>3

LEMMA ByteInWord == Byte \subseteq Word
<1> SUFFICES ASSUME NEW b \in Byte
             PROVE  b \in Word
  OBVIOUS
<1>1. b \in Int /\ 0 <= b /\ b <= 65535
  BY DEF Byte
<1> QED
  BY ONLY <1>1, InWord

LEMMA Pack16 ==
    ASSUME NEW a \in Byte, NEW b \in Byte
    PROVE  256 * a + b \in Word
<1>1. a \in Int /\ b \in Int /\ 0 <= a /\ a <= 255 /\ 0 <= b /\ b <= 255
  BY DEF Byte
<1>2. 256 * a + b \in Int /\ 0 <= 256 * a + b /\ 256 * a + b <= 65535
  BY ONLY <1>1, SMT
<1> QED
  BY ONLY <1>2, InWord

LEMMA Pack24 ==
    ASSUME NEW a \in Byte, NEW b \in Byte, NEW c \in Byte
    PROVE  65536 * a + 256 * b + c \in Nat
BY DEF Byte

\* Reader::u8, u16 and u24 read bytes of the capture: a checked read is in
\* range, and its value has the width of its type.
LEMMA ReadU8 ==
    ASSUME NEW d \in Seq(Byte), NEW w, Within(d, w), Has(w, 1)
    PROVE  U8(d, w) \in Byte
<1>1. w.pos + 1 \in 1 .. Len(d)
  BY DEF Within, Window, Has, Remaining
<1>2. d[w.pos + 1] \in Byte
  BY <1>1
<1>3. QED
  BY <1>2 DEF U8

LEMMA ReadU16 ==
    ASSUME NEW d \in Seq(Byte), NEW w, Within(d, w), Has(w, 2)
    PROVE  U16(d, w) \in Word
<1>1. w.pos + 1 \in 1 .. Len(d) /\ w.pos + 2 \in 1 .. Len(d)
  BY DEF Within, Window, Has, Remaining
<1>2. d[w.pos + 1] \in Byte /\ d[w.pos + 2] \in Byte
  BY <1>1
<1>3. QED
  BY <1>2, Pack16 DEF U16

LEMMA ReadU24 ==
    ASSUME NEW d \in Seq(Byte), NEW w, Within(d, w), Has(w, 3)
    PROVE  U24(d, w) \in Nat
<1>1. /\ w.pos + 1 \in 1 .. Len(d) /\ w.pos + 2 \in 1 .. Len(d)
      /\ w.pos + 3 \in 1 .. Len(d)
  BY DEF Within, Window, Has, Remaining
<1> DEFINE a == d[w.pos + 1]
           b == d[w.pos + 2]
           c == d[w.pos + 3]
<1>2. a \in Byte /\ b \in Byte /\ c \in Byte
  BY <1>1
<1>3. U24(d, w) = 65536 * a + 256 * b + c
  BY DEF U24
<1> HIDE DEF a, b, c
<1>4. 65536 * a + 256 * b + c \in Nat
  BY <1>2, Pack24
<1>5. QED
  BY <1>3, <1>4

\* Reader::remaining on a reader within its slice.
LEMMA RemainingIs ==
    ASSUME NEW w \in Window, w.pos <= w.end
    PROVE  Remaining(w) = w.end - w.pos /\ Remaining(w) \in Nat
BY DEF Remaining, Window

\* `n.min(r.remaining())` followed by `take` cannot fail.
LEMMA ClampFits ==
    ASSUME NEW w \in Window, w.pos <= w.end, NEW n \in Nat
    PROVE  /\ Clamp(n, w) \in Nat
           /\ Clamp(n, w) <= n
           /\ w.pos + Clamp(n, w) <= w.end
BY DEF Clamp, Has, Remaining, Window

\* Skipping n bytes that are there stays within the slice.
LEMMA AdvanceWithin ==
    ASSUME NEW d \in Seq(Byte), NEW w, Within(d, w), NEW n \in Nat, Has(w, n)
    PROVE  /\ Within(d, Advance(w, n))
           /\ Advance(w, n).pos = w.pos + n
           /\ Advance(w, n).end = w.end
BY DEF Within, Advance, Has, Remaining, Window

LEMMA SliceWithin ==
    ASSUME NEW d \in Seq(Byte), NEW w, Within(d, w), NEW n \in Nat, Has(w, n)
    PROVE  /\ Within(d, Slice(w, n))
           /\ Slice(w, n).pos = w.pos
           /\ Slice(w, n).end = w.pos + n
           /\ Slice(w, n).end <= w.end
BY DEF Within, Slice, Has, Remaining, Window

\* A vector whose length is clamped lies within the reader it is read from.
LEMMA ClampedSlice ==
    ASSUME NEW d \in Seq(Byte), NEW w, Within(d, w), NEW n \in Nat
    PROVE  /\ Within(d, Slice(w, Clamp(n, w)))
           /\ Slice(w, Clamp(n, w)).pos = w.pos
           /\ Slice(w, Clamp(n, w)).end <= w.end
           /\ Has(w, n) => Slice(w, Clamp(n, w)).end = w.pos + n
<1>1. w \in Window /\ w.pos <= w.end
  BY DEF Within
<1>2. /\ Clamp(n, w) \in Nat /\ w.pos + Clamp(n, w) <= w.end
  BY <1>1, ClampFits
<1>3. Has(w, n) => Clamp(n, w) = n
  BY DEF Clamp
<1>4. QED
  BY <1>1, <1>2, <1>3 DEF Within, Slice, Window

LEMMA Clamped16Within ==
    ASSUME NEW d \in Seq(Byte), NEW w, Within(d, w)
    PROVE  /\ Within(d, Clamped16(d, w))
           /\ w.pos <= Clamped16(d, w).pos
           /\ Clamped16(d, w).end <= w.end
           /\ Has(w, 2) => Clamped16(d, w).pos = w.pos + 2
<1>1. CASE Has(w, 2)
  <2> DEFINE v == Advance(w, 2)
  <2>1. Within(d, v) /\ v.pos = w.pos + 2 /\ v.end = w.end
    BY <1>1, AdvanceWithin
  <2>2. U16(d, w) \in Nat
    <3>1. U16(d, w) \in Word
      BY <1>1, ReadU16
    <3>2. QED
      BY <3>1, Widths
  <2> HIDE DEF v
  <2>3. /\ Within(d, Slice(v, Clamp(U16(d, w), v)))
        /\ Slice(v, Clamp(U16(d, w), v)).pos = v.pos
        /\ Slice(v, Clamp(U16(d, w), v)).end <= v.end
    BY <2>1, <2>2, ClampedSlice
  <2>4. Clamped16(d, w) = Slice(v, Clamp(U16(d, w), v))
    BY <1>1 DEF Clamped16, v
  <2>5. w.pos \in Nat
    BY DEF Within, Window
  <2>6. QED
    BY <2>1, <2>3, <2>4, <2>5
<1>2. CASE ~Has(w, 2)
  <2>1. Clamped16(d, w) = Slice(w, 0)
    BY <1>2 DEF Clamped16
  <2>2. QED
    BY <1>2, <2>1 DEF Slice, Within, Window
<1>3. QED
  BY <1>1, <1>2

LEMMA Clamped8Within ==
    ASSUME NEW d \in Seq(Byte), NEW w, Within(d, w)
    PROVE  /\ Within(d, Clamped8(d, w))
           /\ w.pos <= Clamped8(d, w).pos
           /\ Clamped8(d, w).end <= w.end
<1>1. CASE Has(w, 1)
  <2> DEFINE v == Advance(w, 1)
  <2>1. Within(d, v) /\ v.pos = w.pos + 1 /\ v.end = w.end
    BY <1>1, AdvanceWithin
  <2>2. U8(d, w) \in Nat
    <3>1. U8(d, w) \in Byte
      BY <1>1, ReadU8
    <3>2. QED
      BY <3>1, Widths
  <2> HIDE DEF v
  <2>3. /\ Within(d, Slice(v, Clamp(U8(d, w), v)))
        /\ Slice(v, Clamp(U8(d, w), v)).pos = v.pos
        /\ Slice(v, Clamp(U8(d, w), v)).end <= v.end
    BY <2>1, <2>2, ClampedSlice
  <2>4. Clamped8(d, w) = Slice(v, Clamp(U8(d, w), v))
    BY <1>1 DEF Clamped8, v
  <2>5. w.pos \in Nat
    BY DEF Within, Window
  <2>6. QED
    BY <2>1, <2>3, <2>4, <2>5
<1>2. CASE ~Has(w, 1)
  <2>1. Clamped8(d, w) = Slice(w, 0)
    BY <1>2 DEF Clamped8
  <2>2. QED
    BY <2>1 DEF Slice, Within, Window
<1>3. QED
  BY <1>1, <1>2

\* The list decoders: code points of 16 bits, at most one for two bytes.
LEMMA U16sType ==
    ASSUME NEW d \in Seq(Byte), NEW w, Within(d, w)
    PROVE  /\ U16s(d, w) \in Seq(Word)
           /\ 2 * Len(U16s(d, w)) <= w.end - w.pos
<1> DEFINE n == Remaining(w) \div 2
<1>1. Remaining(w) = w.end - w.pos /\ Remaining(w) \in Nat
  BY RemainingIs DEF Within
<1>2. n \in Nat /\ 2 * n <= w.end - w.pos
  BY <1>1
<1>3. ASSUME NEW i \in 1 .. n
      PROVE  256 * d[w.pos + 2 * i - 1] + d[w.pos + 2 * i] \in Word
  <2>1. w.pos + 2 * i - 1 \in 1 .. Len(d) /\ w.pos + 2 * i \in 1 .. Len(d)
    <3>1. w.pos \in Nat /\ w.end \in Nat /\ w.end <= Len(d) /\ Len(d) \in Nat
      BY DEF Within, Window
    <3> HIDE DEF n
    <3>2. QED
      BY <1>2, <3>1
  <2>2. d[w.pos + 2 * i - 1] \in Byte /\ d[w.pos + 2 * i] \in Byte
    BY <2>1
  <2>3. QED
    BY <2>2, Pack16
<1>4. U16s(d, w) = [i \in 1 .. n |-> 256 * d[w.pos + 2 * i - 1] + d[w.pos + 2 * i]]
  BY DEF U16s
<1> HIDE DEF n
<1>5. U16s(d, w) \in Seq(Word) /\ Len(U16s(d, w)) = n
  BY <1>2, <1>3, <1>4
<1>6. QED
  BY <1>2, <1>5

LEMMA BytesType ==
    ASSUME NEW d \in Seq(Byte), NEW w, Within(d, w)
    PROVE  /\ Bytes(d, w) \in Seq(Byte)
           /\ Len(Bytes(d, w)) = w.end - w.pos
<1>1. Remaining(w) = w.end - w.pos /\ Remaining(w) \in Nat
  BY RemainingIs DEF Within
<1>2. ASSUME NEW i \in 1 .. Remaining(w)
      PROVE  d[w.pos + i] \in Byte
  <2>1. w.pos + i \in 1 .. Len(d)
    BY <1>1 DEF Within, Window
  <2>2. QED
    BY <2>1
<1>3. QED
  BY <1>1, <1>2 DEF Bytes

\* strip_record_header returns a slice of the capture.
LEMMA StripWithin ==
    ASSUME NEW d \in Seq(Byte)
    PROVE  Within(d, StripRecordHeader(d))
<1>1. CASE Len(d) >= 5 /\ d[1] = 22 /\ d[2] = 3
  <2> DEFINE p == [pos |-> 5, end |-> Len(d)]
             n == 256 * d[4] + d[5]
  <2>1. Within(d, p)
    BY <1>1 DEF Within, Window
  <2>2. n \in Nat
    <3>1. d[4] \in Byte /\ d[5] \in Byte
      BY <1>1
    <3>2. n \in Word
      BY <3>1, Pack16
    <3>3. QED
      BY <3>2, Widths
  <2> HIDE DEF p, n
  <2>3. Within(d, Slice(p, Clamp(n, p)))
    BY <2>1, <2>2, ClampedSlice
  <2>4. StripRecordHeader(d) = Slice(p, Clamp(n, p))
    BY <1>1 DEF StripRecordHeader, p, n
  <2>5. QED
    BY <2>3, <2>4
<1>2. CASE ~(Len(d) >= 5 /\ d[1] = 22 /\ d[2] = 3)
  BY <1>2 DEF StripRecordHeader, Whole, Within, Window
<1>3. QED
  BY <1>1, <1>2

-----------------------------------------------------------------------------
\* The reference sees the unread bytes of a reader.
LEMMA SeqIs ==
    ASSUME NEW s \in Seq(Byte)
    PROVE  Len(s) \in Nat /\ DOMAIN s = 1 .. Len(s) /\ \A i \in 1 .. Len(s) : s[i] \in Byte
OBVIOUS

LEMMA UnreadIs ==
    ASSUME NEW d \in Seq(Byte), NEW w, Within(d, w)
    PROVE  /\ Bytes(d, w) \in Seq(Byte) /\ Len(Bytes(d, w)) = Remaining(w)
           /\ Remaining(w) \in Nat /\ Remaining(w) = w.end - w.pos
           /\ \A i \in 1 .. Remaining(w) : Bytes(d, w)[i] = d[w.pos + i]
<1>1. Remaining(w) = w.end - w.pos /\ Remaining(w) \in Nat
  BY RemainingIs DEF Within
<1>2. Bytes(d, w) \in Seq(Byte) /\ Len(Bytes(d, w)) = w.end - w.pos
  BY BytesType
<1> QED
  BY <1>1, <1>2 DEF Bytes

LEMMA PieceIs ==
    ASSUME NEW s \in Seq(Byte), NEW m \in Nat, NEW n \in Nat, m <= n, n <= Len(s)
    PROVE  /\ SubSeq(s, m + 1, n) \in Seq(Byte) /\ Len(SubSeq(s, m + 1, n)) = n - m
           /\ \A i \in 1 .. n - m : SubSeq(s, m + 1, n)[i] = s[m + i]
<1>1. \A i \in m + 1 .. n : s[i] \in Byte
  BY SeqIs
<1>2. m + 1 \in Int /\ n \in Int
  OBVIOUS
<1> DEFINE a == m + 1
           t == SubSeq(s, a, n)
<1>3. /\ t \in Seq(Byte) /\ Len(t) = IF a <= n THEN n - a + 1 ELSE 0
      /\ \A i \in 1 .. n - a + 1 : t[i] = s[a + i - 1]
  <2>1. a \in Int /\ \A i \in a .. n : s[i] \in Byte
    BY <1>1
  <2> HIDE DEF a
  <2> QED
    BY <2>1, SubSeqProperties
<1> HIDE DEF t
<1>4. Len(t) = n - m /\ \A i \in 1 .. n - m : t[i] = s[m + i]
  BY <1>3
<1> QED
  BY <1>3, <1>4 DEF t

\* What is unread after n more bytes, and in a slice of n bytes.
LEMMA UnreadAfter ==
    ASSUME NEW d \in Seq(Byte), NEW w, Within(d, w), NEW n \in Nat, Has(w, n)
    PROVE  Drop(Bytes(d, w), n) = Bytes(d, Advance(w, n))
<1> DEFINE s == Bytes(d, w)
           v == Advance(w, n)
<1>1. /\ s \in Seq(Byte) /\ Len(s) = w.end - w.pos
      /\ \A i \in 1 .. Len(s) : s[i] = d[w.pos + i]
  BY UnreadIs
<1>2. Within(d, v) /\ v.pos = w.pos + n /\ v.end = w.end
  BY AdvanceWithin
<1>3. n <= Len(s) /\ Len(s) \in Nat
  BY <1>1 DEF Has, Remaining, Within, Window
<1>4. /\ Bytes(d, v) \in Seq(Byte) /\ Len(Bytes(d, v)) = v.end - v.pos
      /\ \A i \in 1 .. Len(Bytes(d, v)) : Bytes(d, v)[i] = d[v.pos + i]
  BY <1>2, UnreadIs
<1> HIDE DEF s, v
<1>5. /\ Drop(s, n) \in Seq(Byte) /\ Len(Drop(s, n)) = Len(s) - n
      /\ \A i \in 1 .. Len(s) - n : Drop(s, n)[i] = s[n + i]
  BY <1>1, <1>3, PieceIs DEF Drop
<1>6. Len(Drop(s, n)) = Len(Bytes(d, v))
  BY <1>1, <1>2, <1>4, <1>5 DEF Within, Window
<1>7. ASSUME NEW i \in 1 .. Len(Drop(s, n))
      PROVE  Drop(s, n)[i] = Bytes(d, v)[i]
  <2>1. n + i \in 1 .. Len(s) /\ i \in 1 .. Len(s) - n
    BY <1>3, <1>5
  <2>2. Drop(s, n)[i] = d[w.pos + (n + i)] /\ Bytes(d, v)[i] = d[v.pos + i]
    BY <1>1, <1>4, <1>5, <1>6, <2>1
  <2>3. w.pos + (n + i) = v.pos + i
    BY <1>2 DEF Within, Window
  <2> QED
    BY <2>2, <2>3
<1> QED
  BY <1>4, <1>5, <1>6, <1>7, SeqEqual DEF s, v

LEMMA UnreadSlice ==
    ASSUME NEW d \in Seq(Byte), NEW w, Within(d, w), NEW n \in Nat, Has(w, n)
    PROVE  SubSeq(Bytes(d, w), 1, n) = Bytes(d, Slice(w, n))
<1> DEFINE s == Bytes(d, w)
           v == Slice(w, n)
           t == SubSeq(s, 1, n)
<1>1. /\ s \in Seq(Byte) /\ Len(s) = w.end - w.pos
      /\ \A i \in 1 .. Len(s) : s[i] = d[w.pos + i]
  BY UnreadIs
<1>2. Within(d, v) /\ v.pos = w.pos /\ v.end = w.pos + n
  BY SliceWithin
<1>3. n <= Len(s) /\ Len(s) \in Nat
  BY <1>1 DEF Has, Remaining, Within, Window
<1>4. /\ Bytes(d, v) \in Seq(Byte) /\ Len(Bytes(d, v)) = v.end - v.pos
      /\ \A i \in 1 .. Len(Bytes(d, v)) : Bytes(d, v)[i] = d[v.pos + i]
  BY <1>2, UnreadIs
<1> HIDE DEF s, v
<1>5. t \in Seq(Byte) /\ Len(t) = n /\ \A i \in 1 .. n : t[i] = s[i]
  <2>1. 0 + 1 = 1 /\ n - 0 = n /\ \A i \in 1 .. n : 0 + i = i
    OBVIOUS
  <2> QED
    BY <1>1, <1>3, <2>1, PieceIs
<1> HIDE DEF t
<1>6. Len(t) = Len(Bytes(d, v))
  BY <1>2, <1>4, <1>5 DEF Within, Window
<1>7. ASSUME NEW i \in 1 .. Len(t)
      PROVE  t[i] = Bytes(d, v)[i]
  BY <1>1, <1>2, <1>3, <1>4, <1>5, <1>6
<1> QED
  BY <1>4, <1>5, <1>6, <1>7, SeqEqual DEF s, v, t

\* The operations of the reference are those of a reader.
LEMMA NumberIs ==
    ASSUME NEW d \in Seq(Byte), NEW w, Within(d, w)
    PROVE  /\ Has(w, 1) => Number(Bytes(d, w), 1) = U8(d, w)
           /\ Has(w, 2) => Number(Bytes(d, w), 2) = U16(d, w)
           /\ Has(w, 3) => Number(Bytes(d, w), 3) = U24(d, w)
<1> DEFINE s == Bytes(d, w)
<1>1. Remaining(w) \in Nat /\ \A i \in 1 .. Remaining(w) : s[i] = d[w.pos + i]
  BY UnreadIs
<1> HIDE DEF s
<1>2. Has(w, 1) => s[1] = d[w.pos + 1]
  BY <1>1 DEF Has
<1>3. Has(w, 2) => s[1] = d[w.pos + 1] /\ s[2] = d[w.pos + 2]
  BY <1>1 DEF Has
<1>4. Has(w, 3) => s[1] = d[w.pos + 1] /\ s[2] = d[w.pos + 2] /\ s[3] = d[w.pos + 3]
  BY <1>1 DEF Has
<1>5. /\ Number(s, 1) = s[1] /\ Number(s, 2) = 256 * s[1] + s[2]
      /\ Number(s, 3) = 65536 * s[1] + 256 * s[2] + s[3]
  BY DEF Number
<1> QED
  BY <1>2, <1>3, <1>4, <1>5 DEF s, U8, U16, U24

LEMMA HasMore ==
    ASSUME NEW d \in Seq(Byte), NEW w, Within(d, w), NEW k \in Nat, Has(w, k), NEW n \in Nat
    PROVE  Has(Advance(w, k), n) <=> k + n <= Remaining(w)
<1>1. Within(d, Advance(w, k)) /\ Advance(w, k).pos = w.pos + k /\ Advance(w, k).end = w.end
  BY AdvanceWithin
<1>2. Remaining(Advance(w, k)) = w.end - (w.pos + k) /\ Remaining(w) = w.end - w.pos
  BY <1>1, RemainingIs DEF Within
<1> QED
  BY <1>1, <1>2 DEF Has, Within, Window

\* A vector with a prefix of k bytes that hold n.
LEMMA VectorIs ==
    ASSUME NEW d \in Seq(Byte), NEW w, Within(d, w), NEW k \in {1, 2, 3},
           NEW n \in Nat, Has(w, k) => n = Number(Bytes(d, w), k)
    PROVE  /\ Fits(Bytes(d, w), k) <=> Has(w, k) /\ Has(Advance(w, k), n)
           /\ Fits(Bytes(d, w), k) => After(Bytes(d, w), k) = Bytes(d, Advance(w, k + n))
           /\ Content(Bytes(d, w), k) =
                  IF Has(w, k)
                  THEN Bytes(d, Slice(Advance(w, k), Clamp(n, Advance(w, k))))
                  ELSE <<>>
<1> DEFINE s == Bytes(d, w)
           v == Advance(w, k)
<1>1. s \in Seq(Byte) /\ Len(s) = Remaining(w) /\ Remaining(w) \in Nat /\ k \in Nat
  BY UnreadIs
<1>2. Has(w, k) <=> Len(s) >= k
  BY <1>1 DEF Has
<1>3. ASSUME Has(w, k)
      PROVE  /\ Within(d, v) /\ (Has(v, n) <=> Len(s) >= k + n)
             /\ Remaining(v) = Len(s) - k /\ Drop(s, k) = Bytes(d, v)
  <2>1. Within(d, v) /\ v.pos = w.pos + k /\ v.end = w.end
    BY <1>1, <1>3, AdvanceWithin
  <2>2. Remaining(v) = Len(s) - k
    BY <1>1, <2>1, RemainingIs DEF Within, Window
  <2>3. Drop(s, k) = Bytes(d, v)
    BY <1>1, <1>3, UnreadAfter
  <2>4. Has(v, n) <=> Len(s) >= k + n
    BY <1>1, <1>3, HasMore
  <2> QED
    BY <2>1, <2>2, <2>3, <2>4
<1> HIDE DEF s, v
<1>4. Fits(s, k) <=> Has(w, k) /\ Has(v, n)
  BY <1>2, <1>3 DEF Fits, s
<1>5. ASSUME Fits(s, k)
      PROVE  After(s, k) = Bytes(d, Advance(w, k + n))
  <2>1. Has(w, k) /\ Has(v, n) /\ n = Number(s, k) /\ k + n \in Nat /\ k + n <= Len(s)
    BY <1>1, <1>3, <1>4, <1>5 DEF s
  <2>2. Has(w, k + n)
    BY <1>1, <2>1 DEF Has
  <2> DEFINE m == k + n
  <2>3. Drop(Bytes(d, w), m) = Bytes(d, Advance(w, m))
    <3>1. m \in Nat /\ Has(w, m)
      BY <2>1, <2>2
    <3> HIDE DEF m
    <3> QED
      BY <3>1, UnreadAfter
  <2> QED
    BY <2>1, <2>3 DEF After, s
<1>6. ASSUME Has(w, k)
      PROVE  Content(s, k) = Bytes(d, Slice(v, Clamp(n, v)))
  <2>1. Within(d, v) /\ Remaining(v) = Len(s) - k /\ Drop(s, k) = Bytes(d, v)
    BY <1>3, <1>6
  <2>2. n = Number(s, k) /\ ~(Len(s) < k)
    BY <1>1, <1>2, <1>6 DEF s
  <2>3. (IF n < Len(s) - k THEN n ELSE Len(s) - k) = Clamp(n, v)
    BY <1>1, <2>1 DEF Clamp, Has
  <2>4. Clamp(n, v) \in Nat /\ Has(v, Clamp(n, v))
    <3>1. Remaining(v) \in Nat
      BY <2>1, UnreadIs
    <3> QED
      BY <3>1 DEF Clamp, Has
  <2>5. SubSeq(Bytes(d, v), 1, Clamp(n, v)) = Bytes(d, Slice(v, Clamp(n, v)))
    <3> DEFINE m == Clamp(n, v)
    <3> HIDE DEF m
    <3>1. m \in Nat /\ Has(v, m)
      BY <2>4 DEF m
    <3>2. SubSeq(Bytes(d, v), 1, m) = Bytes(d, Slice(v, m))
      BY <2>1, <3>1, UnreadSlice
    <3> QED
      BY <3>2 DEF m
  <2> QED
    BY <2>1, <2>2, <2>3, <2>5 DEF Content
<1>7. ~Has(w, k) => Content(s, k) = <<>>
  BY <1>1, <1>2 DEF Content
<1> QED
  BY <1>4, <1>5, <1>6, <1>7 DEF s, v

LEMMA EmptyUnread ==
    ASSUME NEW d, NEW w, Remaining(w) = 0
    PROVE  Bytes(d, w) = <<>>
BY DEF Bytes

LEMMA Vec8Is ==
    ASSUME NEW d \in Seq(Byte), NEW w, Within(d, w)
    PROVE  /\ Fits(Bytes(d, w), 1) <=> HasVec8(d, w)
           /\ HasVec8(d, w) =>
                 After(Bytes(d, w), 1) = Bytes(d, Advance(w, 1 + U8(d, w)))
           /\ Content(Bytes(d, w), 1) = Bytes(d, Clamped8(d, w))
<1> DEFINE n == IF Has(w, 1) THEN U8(d, w) ELSE 0
<1>1. n \in Nat /\ (Has(w, 1) => n = U8(d, w))
  BY ReadU8, Widths
<1>2. Has(w, 1) => n = Number(Bytes(d, w), 1)
  BY <1>1, NumberIs
<1> HIDE DEF n
<1>3. /\ Fits(Bytes(d, w), 1) <=> Has(w, 1) /\ Has(Advance(w, 1), n)
      /\ Fits(Bytes(d, w), 1) => After(Bytes(d, w), 1) = Bytes(d, Advance(w, 1 + n))
      /\ Content(Bytes(d, w), 1) =
             IF Has(w, 1) THEN Bytes(d, Slice(Advance(w, 1), Clamp(n, Advance(w, 1))))
             ELSE <<>>
  BY <1>1, <1>2, VectorIs
<1>4. Bytes(d, Slice(w, 0)) = <<>>
  <2>1. Remaining(Slice(w, 0)) = 0
    BY DEF Within, Window, Remaining, Slice
  <2> QED
    BY <2>1, EmptyUnread
<1> QED
  BY <1>1, <1>3, <1>4 DEF HasVec8, Clamped8

LEMMA Vec16Is ==
    ASSUME NEW d \in Seq(Byte), NEW w, Within(d, w)
    PROVE  /\ Fits(Bytes(d, w), 2) <=> HasVec16(d, w)
           /\ HasVec16(d, w) =>
                 After(Bytes(d, w), 2) = Bytes(d, Advance(w, 2 + U16(d, w)))
           /\ Content(Bytes(d, w), 2) = Bytes(d, Clamped16(d, w))
<1> DEFINE n == IF Has(w, 2) THEN U16(d, w) ELSE 0
<1>1. n \in Nat /\ (Has(w, 2) => n = U16(d, w))
  BY ReadU16, Widths
<1>2. Has(w, 2) => n = Number(Bytes(d, w), 2)
  BY <1>1, NumberIs
<1> HIDE DEF n
<1>3. /\ Fits(Bytes(d, w), 2) <=> Has(w, 2) /\ Has(Advance(w, 2), n)
      /\ Fits(Bytes(d, w), 2) => After(Bytes(d, w), 2) = Bytes(d, Advance(w, 2 + n))
      /\ Content(Bytes(d, w), 2) =
             IF Has(w, 2) THEN Bytes(d, Slice(Advance(w, 2), Clamp(n, Advance(w, 2))))
             ELSE <<>>
  BY <1>1, <1>2, VectorIs
<1>4. Bytes(d, Slice(w, 0)) = <<>>
  <2>1. Remaining(Slice(w, 0)) = 0
    BY DEF Within, Window, Remaining, Slice
  <2> QED
    BY <2>1, EmptyUnread
<1> QED
  BY <1>1, <1>3, <1>4 DEF HasVec16, Clamped16

LEMMA Vec24Is ==
    ASSUME NEW d \in Seq(Byte), NEW w, Within(d, w), Has(w, 3)
    PROVE  LET rest == Advance(w, 3)
           IN Content(Bytes(d, w), 3) = Bytes(d, Slice(rest, Clamp(U24(d, w), rest)))
<1>1. U24(d, w) \in Nat /\ U24(d, w) = Number(Bytes(d, w), 3)
  BY ReadU24, NumberIs
<1>2. PICK n \in Nat : n = U24(d, w)
  BY <1>1
<1>3. Content(Bytes(d, w), 3) =
          IF Has(w, 3) THEN Bytes(d, Slice(Advance(w, 3), Clamp(n, Advance(w, 3))))
          ELSE <<>>
  BY <1>1, <1>2, VectorIs
<1> QED
  BY <1>2, <1>3

LEMMA Numbers16Is ==
    ASSUME NEW d \in Seq(Byte), NEW w, Within(d, w)
    PROVE  Numbers16(Bytes(d, w)) = U16s(d, w)
<1> DEFINE s == Bytes(d, w)
           n == Remaining(w) \div 2
<1>1. /\ s \in Seq(Byte) /\ Len(s) = Remaining(w) /\ Remaining(w) \in Nat
      /\ \A i \in 1 .. Remaining(w) : s[i] = d[w.pos + i]
  BY UnreadIs
<1>2. w.pos \in Nat
  BY DEF Within, Window
<1> HIDE DEF s
<1>3. ASSUME NEW i \in 1 .. n
      PROVE  Number(Drop(s, 2 * i - 2), 2) =
                 256 * d[w.pos + 2 * i - 1] + d[w.pos + 2 * i]
  <2> DEFINE k == 2 * i - 2
             t == Drop(s, k)
  <2>1. k \in Nat /\ k <= Len(s) /\ 2 * i \in 1 .. Len(s) /\ 2 * i - 1 \in 1 .. Len(s)
    BY <1>1
  <2>2. \A j \in 1 .. Len(s) - k : t[j] = s[k + j]
    <3> HIDE DEF k
    <3> QED
      BY <1>1, <2>1, PieceIs DEF Drop
  <2> HIDE DEF t
  <2>3. 1 \in 1 .. Len(s) - k /\ 2 \in 1 .. Len(s) - k
    BY <1>1, <2>1
  <2>4. t[1] = s[2 * i - 1] /\ t[2] = s[2 * i]
    <3>1. k + 1 = 2 * i - 1 /\ k + 2 = 2 * i
      OBVIOUS
    <3> QED
      BY <2>2, <2>3, <3>1
  <2>5. s[2 * i - 1] = d[w.pos + 2 * i - 1] /\ s[2 * i] = d[w.pos + 2 * i]
    <3>1. /\ s[2 * i - 1] = d[w.pos + (2 * i - 1)] /\ s[2 * i] = d[w.pos + (2 * i)]
      BY <1>1, <2>1
    <3>2. w.pos + (2 * i - 1) = w.pos + 2 * i - 1
      BY <1>2
    <3> QED
      BY <3>1, <3>2
  <2>6. Number(t, 2) = 256 * t[1] + t[2]
    BY DEF Number
  <2> QED
    BY <2>4, <2>5, <2>6 DEF t
<1>4. Numbers16(s) = [i \in 1 .. n |-> Number(Drop(s, 2 * i - 2), 2)]
  BY <1>1 DEF Numbers16
<1> QED
  BY <1>3, <1>4 DEF U16s, s

LEMMA WholeIs ==
    ASSUME NEW d \in Seq(Byte)
    PROVE  Within(d, Whole(d)) /\ Bytes(d, Whole(d)) = d
<1>1. Within(d, Whole(d))
  BY DEF Within, Window, Whole
<1>2. /\ Bytes(d, Whole(d)) \in Seq(Byte) /\ Len(Bytes(d, Whole(d))) = Len(d)
      /\ \A i \in 1 .. Len(d) : Bytes(d, Whole(d))[i] = d[0 + i]
  BY <1>1, UnreadIs DEF Whole
<1>3. \A i \in 1 .. Len(d) : Bytes(d, Whole(d))[i] = d[i]
  BY <1>2
<1> QED
  BY <1>1, <1>2, <1>3, SeqEqual

\* The record header is removed as strip_record_header removes it.
LEMMA PayloadIs ==
    ASSUME NEW d \in Seq(Byte)
    PROVE  Payload(d) = Bytes(d, StripRecordHeader(d))
<1> DEFINE w == Whole(d)
           v == Advance(w, 3)
<1>1. Within(d, w) /\ Bytes(d, w) = d /\ w.pos = 0 /\ w.end = Len(d)
  BY WholeIs DEF Whole
<1>2. CASE Len(d) >= 5
  <2>1. SubSeq(d, 1, 2) = <<22, 3>> <=> d[1] = 22 /\ d[2] = 3
    <3> DEFINE t == SubSeq(d, 1, 2)
    <3>1. t \in Seq(Byte) /\ Len(t) = 2 /\ \A i \in 1 .. 2 : t[i] = d[i]
      <4>1. 0 + 1 = 1 /\ 2 - 0 = 2 /\ \A i \in 1 .. 2 : 0 + i = i
        OBVIOUS
      <4> QED
        BY <1>2, <4>1, PieceIs
    <3> HIDE DEF t
    <3>2. t = <<t[1], t[2]>>
      BY <3>1
    <3>3. t[1] = d[1] /\ t[2] = d[2]
      BY <3>1
    <3>4. <<d[1], d[2]>> = <<22, 3>> <=> d[1] = 22 /\ d[2] = 3
      OBVIOUS
    <3> QED
      BY <3>2, <3>3, <3>4 DEF t
  <2>2. Has(w, 3) /\ Has(w, 5)
    BY <1>1, <1>2 DEF Has, Remaining, Within, Window
  <2>3. Within(d, v) /\ v.pos = 3 /\ v.end = Len(d) /\ Drop(d, 3) = Bytes(d, v)
    BY <1>1, <2>2, AdvanceWithin, UnreadAfter
  <2>4. Has(v, 2)
    BY <1>2, <2>3 DEF Has, Remaining, Within, Window
  <2>5. Advance(v, 2) = [pos |-> 5, end |-> Len(d)]
    <3>1. v = [pos |-> 3, end |-> Len(d)]
      BY DEF Advance, Whole
    <3> HIDE DEF v
    <3>2. Advance(v, 2) = [v EXCEPT !.pos = 5]
      BY <3>1 DEF Advance
    <3> QED
      BY <3>1, <3>2
  <2>6. U16(d, v) = 256 * d[4] + d[5]
    BY <2>3 DEF U16
  <2>7. Content(Drop(d, 3), 2) = Bytes(d, Clamped16(d, v))
    BY <2>3, Vec16Is
  <2> HIDE DEF v
  <2>8. Clamped16(d, v) = Slice([pos |-> 5, end |-> Len(d)],
                                Clamp(256 * d[4] + d[5], [pos |-> 5, end |-> Len(d)]))
    BY <2>4, <2>5, <2>6 DEF Clamped16
  <2> QED
    BY <1>1, <1>2, <2>1, <2>7, <2>8 DEF Payload, StripRecordHeader
<1>3. CASE ~(Len(d) >= 5)
  BY <1>1, <1>3 DEF Payload, StripRecordHeader
<1> QED
  BY <1>2, <1>3

-----------------------------------------------------------------------------
\* The least-number principle, and what it gives: induction on the size of the
\* elements of a set, and a solution of every equation that recurs on smaller
\* ones.
LEMMA Least ==
    ASSUME NEW T, T \subseteq Nat, T # {}
    PROVE  \E m \in T : \A k \in T : m <= k
<1>1. IsWellFoundedOn(OpToRel(<, Nat), Nat)
  BY NatLessThanWellFounded
<1>2. PICK x \in T : \A y \in T : ~(<<y, x>> \in OpToRel(<, Nat))
  BY <1>1, WFMin
<1>3. \A y \in T : ~(y < x)
  BY <1>2 DEF OpToRel
<1> QED
  BY <1>3

LEMMA BySize ==
    ASSUME NEW D, NEW P, NEW size \in [D -> Nat],
           \A x \in D : (\A y \in D : size[y] < size[x] => y \in P) => x \in P
    PROVE  D \subseteq P
<1> DEFINE T == {size[x] : x \in {y \in D : y \notin P}}
<1> SUFFICES ASSUME T # {} PROVE FALSE
  OBVIOUS
<1>1. T \subseteq Nat
  OBVIOUS
<1>2. PICK m \in T : \A k \in T : m <= k
  BY <1>1, Least
<1>3. PICK x \in D : x \notin P /\ size[x] = m
  OBVIOUS
<1>4. ASSUME NEW y \in D, size[y] < size[x]
      PROVE  y \in P
  <2> SUFFICES ASSUME y \notin P PROVE FALSE
    OBVIOUS
  <2>1. size[y] \in T
    OBVIOUS
  <2>2. m <= size[y]
    BY <1>2, <2>1, Zenon
  <2>3. size[x] \in Nat /\ size[y] \in Nat
    OBVIOUS
  <2> HIDE DEF T
  <2> QED
    BY <1>3, <1>4, <2>2, <2>3
<1> QED
  BY <1>3, <1>4

\* f is the function that the equation defines, on the set S.
Solves(f, S, V, more, next, base, comb) ==
    /\ f \in [S -> V]
    /\ \A s \in S : f[s] = IF s \in more THEN comb[<<s, f[next[s]]>>] ELSE base[s]

LEMMA Recursion ==
    ASSUME NEW D, NEW V, NEW more, NEW next \in [D -> D], NEW size \in [D -> Nat],
           \A s \in D : s \in more => size[next[s]] < size[s],
           NEW base \in [D -> V], NEW comb \in [D \X V -> V]
    PROVE  \E f : Solves(f, D, V, more, next, base, comb)
<1> DEFINE Below(n) == {s \in D : size[s] < n}
           Sol(f, n) == Solves(f, Below(n), V, more, next, base, comb)
<1>1. ASSUME NEW m \in Nat, NEW n \in Nat, m <= n, NEW f, Sol(f, m), NEW g, Sol(g, n),
             NEW s \in Below(m)
      PROVE  f[s] = g[s]
  <2> DEFINE T == {size[x] : x \in {y \in Below(m) : f[y] # g[y]}}
  <2> SUFFICES ASSUME T # {} PROVE FALSE
    OBVIOUS
  <2>1. T \subseteq Nat
    OBVIOUS
  <2>2. PICK k \in T : \A j \in T : k <= j
    BY <2>1, Least
  <2>3. PICK x \in Below(m) : f[x] # g[x] /\ size[x] = k
    OBVIOUS
  <2>4. x \in Below(n)
    BY <1>1
  <2>5. CASE x \in more
    <3>1. /\ next[x] \in D /\ size[next[x]] \in Nat /\ size[x] \in Nat
          /\ size[next[x]] < size[x]
      BY <2>5
    <3>2. next[x] \in Below(m)
      BY <3>1
    <3>3. f[next[x]] = g[next[x]]
      <4> SUFFICES ASSUME f[next[x]] # g[next[x]] PROVE FALSE
        OBVIOUS
      <4>1. size[next[x]] \in T
        BY <3>2
      <4>2. k <= size[next[x]]
        BY <2>2, <4>1, Zenon
      <4> QED
        BY <2>3, <3>1, <4>2
    <3>4. f[x] = comb[<<x, f[next[x]]>>] /\ g[x] = comb[<<x, g[next[x]]>>]
      BY <1>1, <2>3, <2>4, <2>5 DEF Solves
    <3> QED
      BY <2>3, <3>3, <3>4
  <2>6. CASE x \notin more
    BY <1>1, <2>3, <2>4, <2>6 DEF Solves
  <2> QED
    BY <2>5, <2>6
<1>2. ASSUME NEW n \in Nat
      PROVE  \E f : Sol(f, n)
  <2> DEFINE T == {m \in Nat : ~ \E f : Sol(f, m)}
  <2> SUFFICES ASSUME T # {} PROVE FALSE
    OBVIOUS
  <2>1. PICK m \in T : \A k \in T : m <= k
    BY Least
  <2>2. m # 0
    <3>1. Below(0) = {}
      OBVIOUS
    <3>2. Sol([s \in {} |-> base[s]], 0)
      BY <3>1 DEF Solves
    <3> QED
      BY <3>2
  <2>3. PICK f : Sol(f, m - 1)
    <3>1. m - 1 \in Nat /\ ~(m <= m - 1)
      BY <2>2
    <3> HIDE DEF Sol
    <3>2. m - 1 \notin T
      BY <2>1, <3>1
    <3> QED
      BY <3>1, <3>2
  <2> DEFINE g == [s \in Below(m) |-> IF s \in more THEN comb[<<s, f[next[s]]>>] ELSE base[s]]
  <2>4. ASSUME NEW s \in Below(m), s \in more
        PROVE  next[s] \in Below(m - 1) /\ next[s] \in Below(m) /\ f[next[s]] \in V
    <3>1. /\ next[s] \in D /\ size[next[s]] \in Nat /\ size[s] \in Nat
          /\ size[next[s]] < size[s]
      BY <2>4
    <3>2. next[s] \in Below(m - 1) /\ next[s] \in Below(m)
      BY <2>4, <3>1
    <3> QED
      BY <2>3, <3>2 DEF Solves
  <2>5. g \in [Below(m) -> V]
    <3> SUFFICES ASSUME NEW s \in Below(m)
                 PROVE  (IF s \in more THEN comb[<<s, f[next[s]]>>] ELSE base[s]) \in V
      OBVIOUS
    <3> QED
      BY <2>4
  <2>6. ASSUME NEW s \in Below(m - 1)
        PROVE  s \in Below(m) /\ g[s] = f[s]
    <3>1. s \in Below(m)
      BY <2>2
    <3> QED
      BY <2>3, <3>1 DEF Solves
  <2>7. \A s \in Below(m) : g[s] = IF s \in more THEN comb[<<s, g[next[s]]>>] ELSE base[s]
    BY <2>4, <2>6
  <2>8. Sol(g, m)
    BY <2>5, <2>7 DEF Solves
  <2> QED
    BY <2>1, <2>8
<1> DEFINE F == [n \in Nat |-> CHOOSE f : Sol(f, n)]
           G == [s \in D |-> F[size[s] + 1][s]]
<1>3. \A n \in Nat : Sol(F[n], n)
  BY <1>2
<1> HIDE DEF F, Sol
<1>4. ASSUME NEW s \in D
      PROVE  /\ s \in Below(size[s] + 1) /\ G[s] \in V
             /\ G[s] = IF s \in more THEN comb[<<s, G[next[s]]>>] ELSE base[s]
  <2> DEFINE k == size[s] + 1
  <2>1. k \in Nat /\ s \in Below(k) /\ Sol(F[k], k) /\ G[s] = F[k][s]
    BY <1>3
  <2>2. F[k][s] \in V /\ F[k][s] = IF s \in more THEN comb[<<s, F[k][next[s]]>>] ELSE base[s]
    BY <2>1 DEF Sol, Solves
  <2>3. ASSUME s \in more
        PROVE  G[next[s]] = F[k][next[s]]
    <3> DEFINE t == next[s]
               j == size[next[s]] + 1
    <3>1. t \in D /\ j \in Nat /\ j <= k /\ t \in Below(j) /\ G[t] = F[j][t]
      BY <2>3
    <3>2. Sol(F[j], j)
      BY <1>3, <3>1
    <3> HIDE DEF t, j, k
    <3>3. F[j][t] = F[k][t]
      BY <1>1, <2>1, <3>1, <3>2
    <3> QED
      BY <3>1, <3>3 DEF t
  <2> QED
    BY <2>1, <2>2, <2>3
<1> HIDE DEF G
<1>5. G \in [D -> V]
  BY <1>4 DEF G
<1> QED
  BY <1>4, <1>5 DEF Solves
-----------------------------------------------------------------------------
\* The pieces of a byte string that the recursive functions recur on.
LEMMA DropIs ==
    ASSUME NEW s \in Seq(Byte), NEW n \in Nat, n <= Len(s)
    PROVE  Drop(s, n) \in Seq(Byte) /\ Len(Drop(s, n)) = Len(s) - n
<1>1. Len(s) \in Nat
  BY SeqIs
<1> QED
  BY <1>1, PieceIs DEF Drop

\* What is skipped twice.
LEMMA DropDrop ==
    ASSUME NEW s \in Seq(Byte), NEW m \in Nat, NEW n \in Nat, m + n <= Len(s)
    PROVE  Drop(Drop(s, m), n) = Drop(s, m + n)
<1> DEFINE k == m + n
           t == Drop(s, m)
<1>1. k \in Nat /\ Len(s) \in Nat /\ m <= Len(s) /\ k <= Len(s)
  BY SeqIs
<1>2. t \in Seq(Byte) /\ Len(t) = Len(s) - m /\ \A i \in 1 .. Len(s) - m : t[i] = s[m + i]
  BY <1>1, PieceIs DEF Drop
<1> HIDE DEF k, t
<1>3. /\ Drop(s, k) \in Seq(Byte) /\ Len(Drop(s, k)) = Len(s) - k
      /\ \A i \in 1 .. Len(s) - k : Drop(s, k)[i] = s[k + i]
  BY <1>1, PieceIs DEF Drop
<1>4. n <= Len(t) /\ Len(t) - n = Len(s) - k
  BY <1>1, <1>2 DEF k
<1>5. /\ Drop(t, n) \in Seq(Byte) /\ Len(Drop(t, n)) = Len(t) - n
      /\ \A i \in 1 .. Len(t) - n : Drop(t, n)[i] = t[n + i]
  BY <1>2, <1>4, PieceIs DEF Drop
<1>6. ASSUME NEW i \in 1 .. Len(Drop(t, n))
      PROVE  Drop(t, n)[i] = Drop(s, k)[i]
  <2>1. i \in 1 .. Len(s) - k /\ n + i \in 1 .. Len(s) - m
    BY <1>1, <1>2, <1>4, <1>5 DEF k
  <2>2. Drop(t, n)[i] = t[n + i] /\ t[n + i] = s[m + (n + i)]
    BY <1>2, <1>4, <1>5, <2>1
  <2>3. m + (n + i) = k + i
    BY DEF k
  <2> QED
    BY <1>3, <2>1, <2>2, <2>3
<1> QED
  BY <1>3, <1>4, <1>5, <1>6, SeqEqual DEF k, t

LEMMA Shift ==
    ASSUME NEW S, NEW s \in Seq(S), NEW e \in S, NEW t \in Seq(S)
    PROVE  Append(s, e) \o t = s \o (<<e>> \o t)
OBVIOUS

LEMMA VectorPieces ==
    ASSUME NEW s \in Seq(Byte)
    PROVE  /\ Content(s, 1) \in Seq(Byte) /\ Content(s, 2) \in Seq(Byte)
           /\ Len(s) >= 2 => Len(Content(s, 2)) <= Len(s) - 2 /\ Number(s, 2) \in Word
           /\ Fits(s, 1) => After(s, 1) \in Seq(Byte) /\ Len(After(s, 1)) < Len(s)
           /\ Fits(s, 2) => After(s, 2) \in Seq(Byte) /\ Len(After(s, 2)) < Len(s)
<1> DEFINE w == Whole(s)
<1>1. Within(s, w) /\ Bytes(s, w) = s /\ w.pos = 0 /\ w.end = Len(s) /\ Len(s) \in Nat
  BY WholeIs, SeqIs DEF Whole
<1> HIDE DEF w
<1>2. \A n \in Nat : Has(w, n) <=> Len(s) >= n
  BY <1>1 DEF Has, Remaining
<1>3. /\ Within(s, Clamped8(s, w)) /\ Within(s, Clamped16(s, w))
      /\ Clamped16(s, w).end <= Len(s)
      /\ Has(w, 2) => Clamped16(s, w).pos = 2
  BY <1>1, Clamped8Within, Clamped16Within
<1>4. /\ Content(s, 1) = Bytes(s, Clamped8(s, w))
      /\ Content(s, 2) = Bytes(s, Clamped16(s, w))
  BY <1>1, Vec8Is, Vec16Is
<1>5. /\ Content(s, 1) \in Seq(Byte) /\ Content(s, 2) \in Seq(Byte)
      /\ Len(Content(s, 2)) = Clamped16(s, w).end - Clamped16(s, w).pos
  BY <1>3, <1>4, BytesType
<1>6. Len(s) >= 2 => Len(Content(s, 2)) <= Len(s) - 2 /\ Number(s, 2) \in Word
  <2> SUFFICES ASSUME Len(s) >= 2
               PROVE  Len(Content(s, 2)) <= Len(s) - 2 /\ Number(s, 2) \in Word
    OBVIOUS
  <2>1. Has(w, 2)
    BY <1>2
  <2>2. U16(s, w) \in Word /\ Number(s, 2) = U16(s, w)
    BY <1>1, <2>1, ReadU16, NumberIs
  <2>3. Len(Content(s, 2)) <= Len(s) - 2
    BY <1>1, <1>3, <1>5, <2>1 DEF Within, Window
  <2> QED
    BY <2>2, <2>3, Zenon
<1>7. Fits(s, 1) => After(s, 1) \in Seq(Byte) /\ Len(After(s, 1)) < Len(s)
  <2> SUFFICES ASSUME Fits(s, 1)
               PROVE  After(s, 1) \in Seq(Byte) /\ Len(After(s, 1)) < Len(s)
    OBVIOUS
  <2> DEFINE n == 1 + Number(s, 1)
  <2>1. Has(w, 1) /\ Len(s) >= n
    BY <1>2 DEF Fits
  <2>2. U8(s, w) \in Byte /\ Number(s, 1) = U8(s, w)
    BY <1>1, <2>1, ReadU8, NumberIs
  <2>3. Number(s, 1) \in Nat
    BY <2>2, Widths
  <2>4. n \in Nat /\ n > 0
    BY <2>3
  <2>5. After(s, 1) = Drop(s, n)
    BY DEF After
  <2> HIDE DEF n
  <2>6. Drop(s, n) \in Seq(Byte) /\ Len(Drop(s, n)) = Len(s) - n
    BY <2>1, <2>4, DropIs
  <2> QED
    BY <1>1, <2>4, <2>5, <2>6
<1>8. Fits(s, 2) => After(s, 2) \in Seq(Byte) /\ Len(After(s, 2)) < Len(s)
  <2> SUFFICES ASSUME Fits(s, 2)
               PROVE  After(s, 2) \in Seq(Byte) /\ Len(After(s, 2)) < Len(s)
    OBVIOUS
  <2> DEFINE n == 2 + Number(s, 2)
  <2>1. Has(w, 2) /\ Len(s) >= n
    BY <1>2 DEF Fits
  <2>2. U16(s, w) \in Word /\ Number(s, 2) = U16(s, w)
    BY <1>1, <2>1, ReadU16, NumberIs
  <2>3. Number(s, 2) \in Nat
    BY <2>2, Widths
  <2>4. n \in Nat /\ n > 0
    BY <2>3
  <2>5. After(s, 2) = Drop(s, n)
    BY DEF After
  <2> HIDE DEF n
  <2>6. Drop(s, n) \in Seq(Byte) /\ Len(Drop(s, n)) = Len(s) - n
    BY <2>1, <2>4, DropIs
  <2> QED
    BY <1>1, <2>4, <2>5, <2>6
<1> QED
  BY <1>5, <1>6, <1>7, <1>8, Zenon

\* The equations of the recursive functions, and the types of their values.
Extension == [type : Word, body : Seq(Byte)]

LEMMA ExtensionPieces ==
    ASSUME NEW s \in Seq(Byte), Len(s) >= 4
    PROVE  /\ Number(s, 2) \in Word /\ Content(Drop(s, 2), 2) \in Seq(Byte)
           /\ Drop(s, 4 + Len(Content(Drop(s, 2), 2))) \in Seq(Byte)
           /\ Len(Drop(s, 4 + Len(Content(Drop(s, 2), 2)))) < Len(s)
<1> DEFINE u == Drop(s, 2)
           c == Content(u, 2)
           n == 4 + Len(c)
<1>1. Len(s) \in Nat /\ Len(s) >= 2
  BY SeqIs
<1>2. u \in Seq(Byte) /\ Len(u) = Len(s) - 2
  BY <1>1, DropIs
<1>3. Number(s, 2) \in Word
  BY <1>1, VectorPieces
<1> HIDE DEF u
<1>4. Len(u) >= 2
  BY <1>1, <1>2
<1>5. c \in Seq(Byte) /\ Len(c) <= Len(u) - 2
  BY <1>2, <1>4, VectorPieces
<1> HIDE DEF c
<1>6. Len(c) \in Nat
  BY <1>5
<1>7. n \in Nat /\ n <= Len(s) /\ n > 0
  BY <1>1, <1>2, <1>5, <1>6
<1> HIDE DEF n
<1>8. Drop(s, n) \in Seq(Byte) /\ Len(Drop(s, n)) = Len(s) - n
  BY <1>1, <1>7, DropIs
<1>9. Len(Drop(s, n)) < Len(s)
  BY <1>1, <1>7, <1>8
<1> QED
  BY <1>3, <1>5, <1>8, <1>9 DEF u, c, n

LEMMA ExtensionsIs ==
    ASSUME NEW s \in Seq(Byte)
    PROVE  /\ Extensions[s] \in Seq(Extension)
           /\ Extensions[s] =
                  IF Len(s) < 4 THEN <<>>
                  ELSE <<[type |-> Number(s, 2), body |-> Content(Drop(s, 2), 2)]>>
                          \o Extensions[Drop(s, 4 + Len(Content(Drop(s, 2), 2)))]
<1> DEFINE D == Seq(Byte)
           V == Seq(Extension)
           more == {x \in D : ~(Len(x) < 4)}
           First(x) == <<[type |-> Number(x, 2), body |-> Content(Drop(x, 2), 2)]>>
           Rest(x) == Drop(x, 4 + Len(Content(Drop(x, 2), 2)))
           next == [x \in D |-> IF x \in more THEN Rest(x) ELSE x]
           size == [x \in D |-> Len(x)]
           base == [x \in D |-> <<>>]
           comb == [p \in D \X V |-> IF p[1] \in more THEN First(p[1]) \o p[2] ELSE <<>>]
<1>1. ASSUME NEW x \in more
      PROVE  First(x) \in V /\ Rest(x) \in D /\ Len(Rest(x)) < Len(x)
  <2>1. x \in Seq(Byte) /\ Len(x) >= 4
    BY SeqIs
  <2>2. /\ Number(x, 2) \in Word /\ Content(Drop(x, 2), 2) \in Seq(Byte)
        /\ Rest(x) \in D /\ Len(Rest(x)) < Len(x)
    BY <2>1, ExtensionPieces
  <2>3. First(x) \in V
    BY <2>2 DEF Extension
  <2> QED
    BY <2>2, <2>3
<1> HIDE DEF First, Rest
<1>2. next \in [D -> D] /\ size \in [D -> Nat] /\ base \in [D -> V]
  BY <1>1
<1>3. comb \in [D \X V -> V]
  <2> SUFFICES ASSUME NEW p \in D \X V
               PROVE  (IF p[1] \in more THEN First(p[1]) \o p[2] ELSE <<>>) \in V
    OBVIOUS
  <2> HIDE DEF more
  <2>1. p[1] \in more => First(p[1]) \in V
    BY <1>1
  <2>2. p[2] \in V
    OBVIOUS
  <2> QED
    BY <2>1, <2>2
<1>4. \A x \in D : x \in more => size[next[x]] < size[x]
  BY <1>1
<1>5. PICK f : Solves(f, D, V, more, next, base, comb)
  <2> HIDE DEF D, V, more, next, size, base, comb
  <2> QED
    BY <1>2, <1>3, <1>4, Recursion
<1>6. f \in [D -> V]
  BY <1>5 DEF Solves
<1>7. ASSUME NEW x \in D
      PROVE  f[x] = IF Len(x) < 4 THEN <<>> ELSE First(x) \o f[Rest(x)]
  <2>1. f[x] = IF x \in more THEN comb[<<x, f[next[x]]>>] ELSE base[x]
    BY <1>5 DEF Solves
  <2>2. CASE x \in more
    <3>1. next[x] = Rest(x) /\ Rest(x) \in D /\ f[Rest(x)] \in V
      BY <1>1, <1>6, <2>2
    <3>2. comb[<<x, f[Rest(x)]>>] = First(x) \o f[Rest(x)]
      BY <2>2, <3>1
    <3> QED
      BY <2>1, <2>2, <3>1, <3>2
  <2>3. CASE x \notin more
    BY <2>1, <2>3
  <2> QED
    BY <2>2, <2>3
<1> DEFINE G(g) == [x \in D |-> IF Len(x) < 4 THEN <<>> ELSE First(x) \o g[Rest(x)]]
<1>8. f = G(f)
  BY <1>6, <1>7
<1>9. Extensions = CHOOSE g : g = G(g)
  BY DEF Extensions, First, Rest, Byte
<1>10. Extensions = G(Extensions)
  <2> HIDE DEF G
  <2> QED
    BY <1>8, <1>9
<1>11. \A x \in D : Extensions[x] =
                      IF Len(x) < 4 THEN <<>> ELSE First(x) \o Extensions[Rest(x)]
  BY <1>10
<1> DEFINE P == {x \in D : Extensions[x] \in V}
<1>12. ASSUME NEW x \in D, \A y \in D : size[y] < size[x] => y \in P
       PROVE  x \in P
  <2>1. CASE x \in more
    <3>1. First(x) \in V /\ Rest(x) \in D /\ Len(Rest(x)) < Len(x)
      BY <1>1, <2>1
    <3>2. Extensions[Rest(x)] \in V
      BY <1>12, <3>1
    <3>3. Extensions[x] = First(x) \o Extensions[Rest(x)]
      BY <1>11, <2>1
    <3>4. Extensions[x] \in V
      <4> HIDE DEF P, more, size, D
      <4> QED
        BY <3>1, <3>2, <3>3
    <3> QED
      BY <3>4
  <2>2. CASE x \notin more
    <3>1. Extensions[x] = <<>>
      BY <1>11, <2>2
    <3>2. <<>> \in V
      OBVIOUS
    <3>3. Extensions[x] \in V
      BY <3>1, <3>2, Zenon
    <3> QED
      BY <3>3
  <2> QED
    BY <2>1, <2>2
<1>13. D \subseteq P
  <2> HIDE DEF D, P, size
  <2> QED
    BY <1>2, <1>12, BySize
<1> QED
  BY <1>11, <1>13 DEF First, Rest

\* What a name of a name list is returned as.
Texts8 == {FromUtf8Lossy(x) : x \in Seq(Byte)}

LEMMA NamePieces ==
    ASSUME NEW s \in Seq(Byte), ~(Len(s) < 3 \/ ~Fits(Drop(s, 1), 2))
    PROVE  /\ Content(Drop(s, 1), 2) \in Seq(Byte)
           /\ After(Drop(s, 1), 2) \in Seq(Byte)
           /\ Len(After(Drop(s, 1), 2)) < Len(s)
<1> DEFINE u == Drop(s, 1)
<1>1. Len(s) \in Nat /\ Len(s) >= 1
  BY SeqIs
<1>2. u \in Seq(Byte) /\ Len(u) = Len(s) - 1 /\ Fits(u, 2)
  BY <1>1, DropIs
<1> HIDE DEF u
<1>3. /\ Content(u, 2) \in Seq(Byte) /\ After(u, 2) \in Seq(Byte)
      /\ Len(After(u, 2)) < Len(u)
  BY <1>2, VectorPieces
<1>4. Len(After(u, 2)) \in Nat
  BY <1>3
<1>5. Len(After(u, 2)) < Len(s)
  BY <1>1, <1>2, <1>3, <1>4
<1> QED
  BY <1>3, <1>5 DEF u

LEMMA HostNameIs ==
    ASSUME NEW s \in Seq(Byte)
    PROVE  HostName[s] =
               IF Len(s) < 3 \/ ~Fits(Drop(s, 1), 2) THEN <<>>
               ELSE IF s[1] = 0 THEN <<FromUtf8Lossy(Content(Drop(s, 1), 2))>>
               ELSE HostName[After(Drop(s, 1), 2)]
<1> DEFINE D == Seq(Byte)
           V == Seq(Texts8)
           Short(x) == Len(x) < 3 \/ ~Fits(Drop(x, 1), 2)
           Found(x) == <<FromUtf8Lossy(Content(Drop(x, 1), 2))>>
           Rest(x) == After(Drop(x, 1), 2)
           more == {x \in D : ~Short(x) /\ x[1] # 0}
           next == [x \in D |-> IF x \in more THEN Rest(x) ELSE x]
           size == [x \in D |-> Len(x)]
           base == [x \in D |-> IF ~Short(x) THEN Found(x) ELSE <<>>]
           comb == [p \in D \X V |-> p[2]]
<1>1. ASSUME NEW x \in D, ~Short(x)
      PROVE  Found(x) \in V /\ Rest(x) \in D /\ Len(Rest(x)) < Len(x)
  <2>1. /\ Content(Drop(x, 1), 2) \in Seq(Byte)
        /\ Rest(x) \in D /\ Len(Rest(x)) < Len(x)
    BY <1>1, NamePieces
  <2> DEFINE t == FromUtf8Lossy(Content(Drop(x, 1), 2))
  <2>2. t \in Texts8
    BY <2>1 DEF Texts8
  <2> HIDE DEF t
  <2>3. <<t>> \in Seq(Texts8)
    BY <2>2
  <2> QED
    BY <2>1, <2>3 DEF t
<1> HIDE DEF Found, Rest, Short
<1>2. next \in [D -> D] /\ size \in [D -> Nat] /\ comb \in [D \X V -> V]
  BY <1>1
<1>3. base \in [D -> V]
  <2> SUFFICES ASSUME NEW x \in D
               PROVE  (IF ~Short(x) THEN Found(x) ELSE <<>>) \in V
    OBVIOUS
  <2> QED
    BY <1>1
<1>4. \A x \in D : x \in more => size[next[x]] < size[x]
  BY <1>1
<1>5. PICK f : Solves(f, D, V, more, next, base, comb)
  <2> HIDE DEF D, V, more, next, size, base, comb
  <2> QED
    BY <1>2, <1>3, <1>4, Recursion
<1>6. f \in [D -> V]
  BY <1>5 DEF Solves
<1>7. ASSUME NEW x \in D
      PROVE  f[x] = IF Short(x) THEN <<>>
                    ELSE IF x[1] = 0 THEN Found(x) ELSE f[Rest(x)]
  <2>1. f[x] = IF x \in more THEN comb[<<x, f[next[x]]>>] ELSE base[x]
    BY <1>5 DEF Solves
  <2>2. CASE x \in more
    <3>1. next[x] = Rest(x) /\ Rest(x) \in D /\ f[Rest(x)] \in V
      BY <1>1, <1>6, <2>2
    <3>2. comb[<<x, f[Rest(x)]>>] = f[Rest(x)]
      BY <2>2, <3>1
    <3> QED
      BY <2>1, <2>2, <3>1, <3>2
  <2>3. CASE x \notin more
    BY <2>1, <2>3
  <2> QED
    BY <2>2, <2>3
<1> DEFINE G(g) == [x \in D |-> IF Short(x) THEN <<>>
                                ELSE IF x[1] = 0 THEN Found(x) ELSE g[Rest(x)]]
<1>8. f = G(f)
  BY <1>6, <1>7
<1>9. HostName = CHOOSE g : g = G(g)
  BY DEF HostName, Found, Rest, Short, Byte
<1>10. HostName = G(HostName)
  <2> HIDE DEF G
  <2> QED
    BY <1>8, <1>9
<1>11. HostName[s] = IF Short(s) THEN <<>>
                     ELSE IF s[1] = 0 THEN Found(s) ELSE HostName[Rest(s)]
  BY <1>10
<1> QED
  BY <1>11 DEF Found, Rest, Short

LEMMA ProtocolsIs ==
    ASSUME NEW s \in Seq(Byte)
    PROVE  /\ Protocols[s] \in Seq(Texts8)
           /\ Protocols[s] =
                  IF ~Fits(s, 1) THEN <<>>
                  ELSE <<FromUtf8Lossy(Content(s, 1))>> \o Protocols[After(s, 1)]
<1> DEFINE D == Seq(Byte)
           V == Seq(Texts8)
           more == {x \in D : Fits(x, 1)}
           First(x) == <<FromUtf8Lossy(Content(x, 1))>>
           Rest(x) == After(x, 1)
           next == [x \in D |-> IF x \in more THEN Rest(x) ELSE x]
           size == [x \in D |-> Len(x)]
           base == [x \in D |-> <<>>]
           comb == [p \in D \X V |-> IF p[1] \in more THEN First(p[1]) \o p[2] ELSE <<>>]
<1>1. ASSUME NEW x \in more
      PROVE  First(x) \in V /\ Rest(x) \in D /\ Len(Rest(x)) < Len(x)
  <2>1. Content(x, 1) \in Seq(Byte) /\ Rest(x) \in D /\ Len(Rest(x)) < Len(x)
    BY VectorPieces
  <2> DEFINE t == FromUtf8Lossy(Content(x, 1))
  <2>2. t \in Texts8
    BY <2>1 DEF Texts8
  <2> HIDE DEF t
  <2>3. <<t>> \in Seq(Texts8)
    BY <2>2
  <2> QED
    BY <2>1, <2>3 DEF t
<1> HIDE DEF First, Rest
<1>2. next \in [D -> D] /\ size \in [D -> Nat] /\ base \in [D -> V]
  BY <1>1
<1>3. comb \in [D \X V -> V]
  <2> SUFFICES ASSUME NEW p \in D \X V
               PROVE  (IF p[1] \in more THEN First(p[1]) \o p[2] ELSE <<>>) \in V
    OBVIOUS
  <2> HIDE DEF more
  <2>1. p[1] \in more => First(p[1]) \in V
    BY <1>1
  <2>2. p[2] \in V
    OBVIOUS
  <2> QED
    BY <2>1, <2>2
<1>4. \A x \in D : x \in more => size[next[x]] < size[x]
  BY <1>1
<1>5. PICK f : Solves(f, D, V, more, next, base, comb)
  <2> HIDE DEF D, V, more, next, size, base, comb
  <2> QED
    BY <1>2, <1>3, <1>4, Recursion
<1>6. f \in [D -> V]
  BY <1>5 DEF Solves
<1>7. ASSUME NEW x \in D
      PROVE  f[x] = IF ~Fits(x, 1) THEN <<>> ELSE First(x) \o f[Rest(x)]
  <2>1. f[x] = IF x \in more THEN comb[<<x, f[next[x]]>>] ELSE base[x]
    BY <1>5 DEF Solves
  <2>2. CASE x \in more
    <3>1. next[x] = Rest(x) /\ Rest(x) \in D /\ f[Rest(x)] \in V
      BY <1>1, <1>6, <2>2
    <3>2. comb[<<x, f[Rest(x)]>>] = First(x) \o f[Rest(x)]
      BY <2>2, <3>1
    <3> QED
      BY <2>1, <2>2, <3>1, <3>2
  <2>3. CASE x \notin more
    BY <2>1, <2>3
  <2> QED
    BY <2>2, <2>3
<1> DEFINE G(g) == [x \in D |-> IF ~Fits(x, 1) THEN <<>> ELSE First(x) \o g[Rest(x)]]
<1>8. f = G(f)
  BY <1>6, <1>7
<1>9. Protocols = CHOOSE g : g = G(g)
  BY DEF Protocols, First, Rest, Byte
<1>10. Protocols = G(Protocols)
  <2> HIDE DEF G
  <2> QED
    BY <1>8, <1>9
<1>11. \A x \in D : Protocols[x] =
                      IF ~Fits(x, 1) THEN <<>> ELSE First(x) \o Protocols[Rest(x)]
  BY <1>10
<1> DEFINE P == {x \in D : Protocols[x] \in V}
<1>12. ASSUME NEW x \in D, \A y \in D : size[y] < size[x] => y \in P
       PROVE  x \in P
  <2>1. CASE x \in more
    <3>1. First(x) \in V /\ Rest(x) \in D /\ Len(Rest(x)) < Len(x)
      BY <1>1, <2>1
    <3>2. Protocols[Rest(x)] \in V
      BY <1>12, <3>1
    <3>3. Protocols[x] = First(x) \o Protocols[Rest(x)]
      BY <1>11, <2>1
    <3>4. Protocols[x] \in V
      <4> HIDE DEF P, more, size, D
      <4> QED
        BY <3>1, <3>2, <3>3
    <3> QED
      BY <3>4
  <2>2. CASE x \notin more
    <3>1. Protocols[x] = <<>>
      BY <1>11, <2>2
    <3>2. <<>> \in V
      OBVIOUS
    <3>3. Protocols[x] \in V
      BY <3>1, <3>2, Zenon
    <3> QED
      BY <3>3
  <2> QED
    BY <2>1, <2>2
<1>13. D \subseteq P
  <2> HIDE DEF D, P, size
  <2> QED
    BY <1>2, <1>12, BySize
<1> QED
  BY <1>11, <1>13 DEF First, Rest

-----------------------------------------------------------------------------
\* The types of what the reference returns.
LEMMA ListTypes ==
    ASSUME NEW s \in Seq(Byte)
    PROVE  /\ Numbers16(s) \in Seq(Word)
           /\ Len(s) >= 3 => Content(s, 3) \in Seq(Byte)
<1> DEFINE w == Whole(s)
           rest == Advance(w, 3)
           n == U24(s, w)
<1>1. Within(s, w) /\ Bytes(s, w) = s /\ w.pos = 0 /\ w.end = Len(s) /\ Len(s) \in Nat
  BY WholeIs, SeqIs DEF Whole
<1> HIDE DEF w
<1>2. Numbers16(s) \in Seq(Word)
  <2>1. Numbers16(Bytes(s, w)) = U16s(s, w) /\ U16s(s, w) \in Seq(Word)
    BY <1>1, Numbers16Is, U16sType
  <2> QED
    BY <1>1, <2>1
<1>3. ASSUME Len(s) >= 3
      PROVE  Content(s, 3) \in Seq(Byte)
  <2>1. Has(w, 3)
    BY <1>1, <1>3 DEF Has, Remaining
  <2>2. Content(Bytes(s, w), 3) = Bytes(s, Slice(rest, Clamp(n, rest)))
    BY <1>1, <2>1, Vec24Is
  <2>3. Within(s, rest) /\ n \in Nat
    BY <1>1, <2>1, AdvanceWithin, ReadU24
  <2> HIDE DEF n, rest
  <2>4. Within(s, Slice(rest, Clamp(n, rest)))
    BY <2>3, ClampedSlice
  <2> QED
    BY <1>1, <2>2, <2>4, BytesType
<1> QED
  BY <1>2, <1>3

LEMMA MaxOf ==
    ASSUME NEW n \in Nat, NEW of, of \subseteq 1 .. n, of # {}
    PROVE  Max(of) \in of
<1> DEFINE T == {n - i : i \in of}
<1>1. T \subseteq Nat /\ T # {}
  <2>1. \A i \in of : i \in Nat /\ i <= n
    OBVIOUS
  <2>2. \A i \in of : n - i \in Nat
    BY <2>1
  <2> QED
    BY <2>2
<1>2. PICK k \in T : \A j \in T : k <= j
  BY <1>1, Least
<1>3. PICK m \in of : k = n - m
  OBVIOUS
<1>4. \A i \in of : m >= i
  <2> SUFFICES ASSUME NEW i \in of PROVE m >= i
    OBVIOUS
  <2>1. k <= n - i
    BY <1>2
  <2>2. m \in Nat /\ i \in Nat
    OBVIOUS
  <2> HIDE DEF T
  <2> QED
    BY <1>3, <2>1, <2>2
<1> QED
  BY <1>4 DEF Max

LEMMA BodyOfType ==
    ASSUME NEW exts \in Seq(Extension), NEW t
    PROVE  BodyOf(exts, t) \in Seq(Byte)
<1> DEFINE of == {i \in DOMAIN exts : exts[i].type = t}
           n == Len(exts)
<1>1. n \in Nat /\ DOMAIN exts = 1 .. n
  OBVIOUS
<1>2. CASE of = {}
  BY <1>2 DEF BodyOf
<1>3. CASE of # {}
  <2>1. of \subseteq 1 .. n
    BY <1>1
  <2> HIDE DEF of
  <2>2. Max(of) \in of
    BY <1>1, <1>3, <2>1, MaxOf
  <2>03. Max(of) \in 1 .. n
    BY <2>1, <2>2
  <2>3. exts[Max(of)] \in Extension
    BY <1>1, <2>03
  <2> QED
    BY <1>3, <2>3 DEF BodyOf, Extension, of
<1> QED
  BY <1>2, <1>3

LEMMA TypesOf ==
    ASSUME NEW exts \in Seq(Extension)
    PROVE  [i \in DOMAIN exts |-> exts[i].type] \in Seq(Word)
<1>1. Len(exts) \in Nat /\ DOMAIN exts = 1 .. Len(exts)
      /\ \A i \in 1 .. Len(exts) : exts[i] \in Extension
  OBVIOUS
<1>2. \A i \in 1 .. Len(exts) : exts[i].type \in Word
  BY <1>1 DEF Extension
<1> QED
  BY <1>1, <1>2

\* The body of a message, and what follows its session id.
LEMMA MessageTypes ==
    ASSUME NEW d \in Seq(Byte), NEW type, IsHello(Payload(d), type)
    PROVE  Content(Drop(Payload(d), 1), 3) \in Seq(Byte)
<1> DEFINE hs == Payload(d)
<1>1. hs \in Seq(Byte) /\ Len(hs) \in Nat /\ Len(hs) >= 4
  <2>1. Within(d, StripRecordHeader(d)) /\ hs = Bytes(d, StripRecordHeader(d))
    BY StripWithin, PayloadIs
  <2>2. hs \in Seq(Byte)
    BY <2>1, BytesType
  <2> QED
    BY <2>2 DEF IsHello
<1> HIDE DEF hs
<1>2. Drop(hs, 1) \in Seq(Byte) /\ Len(Drop(hs, 1)) >= 3
  BY <1>1, DropIs
<1> QED
  BY <1>2, ListTypes DEF hs

LEMMA SessionTypes ==
    ASSUME NEW body \in Seq(Byte), HasSession(body)
    PROVE  AfterSession(body) \in Seq(Byte)
<1>1. Len(body) \in Nat /\ Len(body) >= 34 /\ Fits(Drop(body, 34), 1)
  BY DEF HasSession
<1>2. Drop(body, 34) \in Seq(Byte)
  BY <1>1, DropIs
<1> QED
  BY <1>1, <1>2, VectorPieces DEF AfterSession

LEMMA ExtensionTypes ==
    ASSUME NEW s \in Seq(Byte)
    PROVE  Extensions[Content(s, 2)] \in Seq(Extension)
<1>1. Content(s, 2) \in Seq(Byte)
  BY VectorPieces
<1> QED
  BY <1>1, ExtensionsIs

LEMMA ClientFieldsTypes ==
    ASSUME NEW body, NEW suites \in Seq(Byte), NEW exts \in Seq(Extension)
    PROVE  LET h == ClientFields(body, suites, exts)
           IN /\ h.extensions \in Seq(Word) /\ h.ciphers \in Seq(Word)
              /\ h.curves \in Seq(Word) /\ h.point_formats \in Seq(Byte)
              /\ h.sig_algs \in Seq(Word) /\ h.alpn \in Seq(Texts8)
<1> DEFINE h == ClientFields(body, suites, exts)
<1>1. \A t : Content(BodyOf(exts, t), 1) \in Seq(Byte) /\ Content(BodyOf(exts, t), 2) \in Seq(Byte)
  BY BodyOfType, VectorPieces
<1>2. /\ h.ciphers = Numbers16(Content(suites, 2))
      /\ h.extensions = [i \in DOMAIN exts |-> exts[i].type]
      /\ h.curves = Numbers16(Content(BodyOf(exts, 10), 2))
      /\ h.point_formats = Content(BodyOf(exts, 11), 1)
      /\ h.sig_algs = Numbers16(Content(BodyOf(exts, 13), 2))
      /\ h.alpn = Protocols[Content(BodyOf(exts, 16), 2)]
  BY DEF ClientFields
<1> HIDE DEF h
<1>3. h.ciphers \in Seq(Word) /\ h.extensions \in Seq(Word)
  BY <1>2, VectorPieces, ListTypes, TypesOf
<1>4. h.curves \in Seq(Word) /\ h.sig_algs \in Seq(Word) /\ h.point_formats \in Seq(Byte)
  BY <1>1, <1>2, ListTypes
<1>5. h.alpn \in Seq(Texts8)
  BY <1>1, <1>2, ProtocolsIs
<1> QED
  BY <1>3, <1>4, <1>5 DEF h

LEMMA ClientType ==
    ASSUME NEW d \in Seq(Byte), ParseClientHello(d) # <<>>
    PROVE  \E h : /\ ParseClientHello(d) = <<h>>
                  /\ h.extensions \in Seq(Word) /\ h.ciphers \in Seq(Word)
                  /\ h.curves \in Seq(Word) /\ h.point_formats \in Seq(Byte)
                  /\ h.sig_algs \in Seq(Word) /\ h.alpn \in Seq(Texts8)
<1> DEFINE body == Content(Drop(Payload(d), 1), 3)
           suites == AfterSession(body)
           methods == After(suites, 2)
           exts == Extensions[Content(After(methods, 1), 2)]
<1>1. IsHello(Payload(d), 1)
  BY DEF ParseClientHello
<1>2. body \in Seq(Byte) /\ ParseClientHello(d) = ClientBody[body]
  BY <1>1, MessageTypes DEF ParseClientHello
<1> HIDE DEF body
<1>3. body \in Seq(0 .. 255)
  BY <1>2 DEF Byte
<1>4. ClientBody[body] =
          IF HasSession(body) /\ Fits(suites, 2) /\ Fits(methods, 1)
          THEN <<ClientFields(body, suites, exts)>> ELSE <<>>
  BY <1>3 DEF ClientBody
<1>5. HasSession(body) /\ Fits(suites, 2) /\ Fits(methods, 1)
  BY <1>2, <1>4
<1>6. suites \in Seq(Byte)
  BY <1>2, <1>5, SessionTypes
<1> HIDE DEF suites
<1>7. methods \in Seq(Byte)
  BY <1>5, <1>6, VectorPieces
<1> HIDE DEF methods
<1>8. exts \in Seq(Extension)
  <2>1. After(methods, 1) \in Seq(Byte)
    BY <1>5, <1>7, VectorPieces
  <2> QED
    BY <2>1, ExtensionTypes
<1> HIDE DEF exts
<1>9. ParseClientHello(d) = <<ClientFields(body, suites, exts)>>
  BY <1>2, <1>4, <1>5
<1> QED
  BY <1>6, <1>8, <1>9, ClientFieldsTypes

LEMMA ServerType ==
    ASSUME NEW d \in Seq(Byte), ParseServerHello(d) # <<>>
    PROVE  \E h : ParseServerHello(d) = <<h>> /\ h.extensions \in Seq(Word)
<1> DEFINE body == Content(Drop(Payload(d), 1), 3)
           rest == AfterSession(body)
           exts == Extensions[Content(Drop(rest, 3), 2)]
           types == [i \in DOMAIN exts |-> exts[i].type]
           h == [legacy_version |-> Number(body, 2), cipher |-> Number(rest, 2),
                 extensions |-> types]
<1>1. IsHello(Payload(d), 2)
  BY DEF ParseServerHello
<1>2. body \in Seq(Byte) /\ ParseServerHello(d) = ServerBody[body]
  BY <1>1, MessageTypes DEF ParseServerHello
<1> HIDE DEF body
<1>3. body \in Seq(0 .. 255)
  BY <1>2 DEF Byte
<1>4. ServerBody[body] = IF HasSession(body) /\ Len(rest) >= 3 THEN <<h>> ELSE <<>>
  BY <1>3 DEF ServerBody
<1>5. HasSession(body) /\ Len(rest) >= 3
  BY <1>2, <1>4
<1>6. rest \in Seq(Byte)
  BY <1>2, <1>5, SessionTypes
<1> HIDE DEF rest
<1>7. exts \in Seq(Extension)
  <2>1. Drop(rest, 3) \in Seq(Byte)
    BY <1>5, <1>6, DropIs
  <2> QED
    BY <2>1, ExtensionTypes
<1> HIDE DEF exts
<1>8. types \in Seq(Word)
  BY <1>7, TypesOf
<1> HIDE DEF types
<1>9. h.extensions = types
  OBVIOUS
<1> QED
  BY <1>2, <1>4, <1>5, <1>8, <1>9

-----------------------------------------------------------------------------
\* Sequences that are put together, and what is left of them when they are cut.
Upto(s, n) == SubSeq(s, 1, n)

LEMMA Assoc ==
    ASSUME NEW S, NEW a, NEW b, NEW c, a \in Seq(S), b \in Seq(S), c \in Seq(S)
    PROVE  (a \o b) \o c = a \o (b \o c)
OBVIOUS

LEMMA AssocBytes ==
    ASSUME NEW a \in Seq(Byte), NEW b \in Seq(Byte), NEW c \in Seq(Byte)
    PROVE  (a \o b) \o c = a \o (b \o c)
OBVIOUS

LEMMA UptoIs ==
    ASSUME NEW S, NEW s \in Seq(S), NEW n \in 0 .. Len(s)
    PROVE  /\ Upto(s, n) \in Seq(S) /\ Len(Upto(s, n)) = n
           /\ \A i \in 1 .. n : Upto(s, n)[i] = s[i]
<1>1. Len(s) \in Nat /\ n \in Nat /\ n <= Len(s)
  OBVIOUS
<1>2. \A i \in 1 .. n : s[i] \in S
  BY <1>1
<1>3. /\ Upto(s, n) \in Seq(S)
      /\ Len(Upto(s, n)) = IF 1 <= n THEN n - 1 + 1 ELSE 0
      /\ \A i \in 1 .. n - 1 + 1 : Upto(s, n)[i] = s[1 + i - 1]
  BY <1>1, <1>2, SubSeqProperties DEF Upto
<1>4. n - 1 + 1 = n /\ \A i \in 1 .. n : 1 + i - 1 = i
  BY <1>1
<1> QED
  BY <1>1, <1>3, <1>4

LEMMA UptoAll ==
    ASSUME NEW S, NEW s \in Seq(S)
    PROVE  Upto(s, Len(s)) = s
BY SubSeqFull DEF Upto

LEMMA UptoCat ==
    ASSUME NEW S, NEW s \in Seq(S), NEW t \in Seq(S), NEW n \in 0 .. Len(s) + Len(t)
    PROVE  /\ n <= Len(s) => Upto(s \o t, n) = Upto(s, n)
           /\ n >= Len(s) => Upto(s \o t, n) = s \o Upto(t, n - Len(s))
<1> DEFINE a == s \o t
<1>1. /\ a \in Seq(S) /\ Len(a) = Len(s) + Len(t) /\ Len(s) \in Nat /\ Len(t) \in Nat
      /\ \A i \in 1 .. Len(s) + Len(t) : a[i] = IF i <= Len(s) THEN s[i] ELSE t[i - Len(s)]
  BY ConcatProperties, LenProperties
<1> HIDE DEF a
<1>2. n \in 0 .. Len(a) /\ n \in Nat
  BY <1>1
<1>3. /\ Upto(a, n) \in Seq(S) /\ Len(Upto(a, n)) = n
      /\ \A i \in 1 .. n : Upto(a, n)[i] = a[i]
  BY <1>1, <1>2, UptoIs
<1>4. ASSUME n <= Len(s)
      PROVE  Upto(a, n) = Upto(s, n)
  <2>1. n \in 0 .. Len(s)
    BY <1>1, <1>2, <1>4
  <2>2. /\ Upto(s, n) \in Seq(S) /\ Len(Upto(s, n)) = n
        /\ \A i \in 1 .. n : Upto(s, n)[i] = s[i]
    BY <2>1, UptoIs
  <2>3. \A i \in 1 .. n : Upto(a, n)[i] = Upto(s, n)[i]
    BY <1>1, <1>2, <1>3, <1>4, <2>2
  <2> QED
    BY <1>3, <2>2, <2>3, SeqEqual
<1>5. ASSUME n >= Len(s)
      PROVE  Upto(a, n) = s \o Upto(t, n - Len(s))
  <2> DEFINE k == n - Len(s)
             u == Upto(t, k)
  <2>1. k \in 0 .. Len(t)
    BY <1>1, <1>2, <1>5
  <2>2. u \in Seq(S) /\ Len(u) = k /\ \A i \in 1 .. k : u[i] = t[i]
    BY <2>1, UptoIs
  <2>3. Len(s) + k = n /\ k \in Nat
    BY <1>1, <1>2, <2>1
  <2> HIDE DEF k, u
  <2>4. /\ s \o u \in Seq(S) /\ Len(s \o u) = n
        /\ \A i \in 1 .. n : (s \o u)[i] = IF i <= Len(s) THEN s[i] ELSE u[i - Len(s)]
    BY <2>2, <2>3, ConcatProperties
  <2>5. ASSUME NEW i \in 1 .. n
        PROVE  Upto(a, n)[i] = (s \o u)[i]
    <3>1. i \in 1 .. Len(s) + Len(t)
      BY <1>1, <1>2
    <3>2. Upto(a, n)[i] = IF i <= Len(s) THEN s[i] ELSE t[i - Len(s)]
      BY <1>1, <1>3, <3>1
    <3>3. (s \o u)[i] = IF i <= Len(s) THEN s[i] ELSE u[i - Len(s)]
      BY <2>4
    <3>4. ~(i <= Len(s)) => i - Len(s) \in 1 .. k
      BY <1>1, <1>2, <2>3
    <3>5. ~(i <= Len(s)) => u[i - Len(s)] = t[i - Len(s)]
      BY <2>2, <3>4
    <3> QED
      BY ONLY <3>2, <3>3, <3>5
  <2>6. Upto(a, n) = s \o u
    BY <1>3, <2>4, <2>5, SeqEqual
  <2> QED
    BY <2>6 DEF u, k
<1> QED
  BY <1>4, <1>5 DEF a

LEMMA DropCat ==
    ASSUME NEW s \in Seq(Byte), NEW t \in Seq(Byte)
    PROVE  Drop(s \o t, Len(s)) = t
<1> DEFINE a == s \o t
           m == Len(s)
<1>1. /\ a \in Seq(Byte) /\ Len(a) = m + Len(t) /\ m \in Nat /\ Len(t) \in Nat
      /\ \A i \in 1 .. m + Len(t) : a[i] = IF i <= m THEN s[i] ELSE t[i - m]
  BY ConcatProperties, LenProperties
<1> HIDE DEF a, m
<1>2. m <= Len(a) /\ Len(a) \in Nat
  BY <1>1
<1>3. /\ Drop(a, m) \in Seq(Byte) /\ Len(Drop(a, m)) = Len(a) - m
      /\ \A i \in 1 .. Len(a) - m : Drop(a, m)[i] = a[m + i]
  BY <1>1, <1>2, PieceIs DEF Drop
<1>4. Len(a) - m = Len(t)
  BY <1>1
<1>5. \A i \in 1 .. Len(t) : m + i \in 1 .. m + Len(t) /\ ~(m + i <= m) /\ m + i - m = i
  BY <1>1
<1>6. ASSUME NEW i \in 1 .. Len(t)
      PROVE  Drop(a, m)[i] = t[i]
  <2>1. Drop(a, m)[i] = a[m + i]
    BY <1>3, <1>4
  <2>2. a[m + i] = t[m + i - m]
    BY <1>1, <1>5
  <2> QED
    BY <1>5, <2>1, <2>2
<1>7. Drop(a, m) = t
  BY <1>3, <1>4, <1>6, SeqEqual
<1> QED
  BY <1>7 DEF a, m

\* Induction over sequences, from the front.
LEMMA BySteps ==
    ASSUME NEW S, NEW P, <<>> \in P,
           \A s \in Seq(S), e \in S : s \in P => Append(s, e) \in P
    PROVE  Seq(S) \subseteq P
<1> DEFINE D == Seq(S)
           size == [s \in D |-> Len(s)]
<1>1. size \in [D -> Nat]
  OBVIOUS
<1>2. ASSUME NEW x \in D, \A y \in D : size[y] < size[x] => y \in P
      PROVE  x \in P
  <2>1. CASE x = <<>>
    BY <2>1
  <2>2. CASE x # <<>>
    <3>1. PICK s \in Seq(S), e \in S : x = Append(s, e)
      BY <2>2, SequenceEmptyOrAppend
    <3>2. Len(s) \in Nat /\ Len(x) = Len(s) + 1
      BY <3>1, AppendProperties, LenProperties
    <3>3. s \in P
      BY <1>2, <3>2
    <3> QED
      BY <3>1, <3>3
  <2> QED
    BY <2>1, <2>2
<1>3. D \subseteq P
  <2> HIDE DEF D, size
  <2> QED
    BY <1>1, <1>2, BySize
<1> QED
  BY <1>3

\* FlattenSeq is a recursive function on the positions of its argument.
Chained(f, ss) ==
    \A i \in 1 .. Len(ss) : f[i] = IF i = 1 THEN ss[i] ELSE f[i - 1] \o ss[i]

LEMMA ChainExists ==
    ASSUME NEW S, NEW ss \in Seq(Seq(S))
    PROVE  \E f \in [1 .. Len(ss) -> Seq(S)] : Chained(f, ss)
<1> DEFINE D == 1 .. Len(ss)
           V == Seq(S)
           more == {i \in D : i # 1}
           next == [i \in D |-> IF i \in more THEN i - 1 ELSE i]
           size == [i \in D |-> i]
           base == [i \in D |-> ss[i]]
           comb == [p \in D \X V |-> p[2] \o ss[p[1]]]
<1>1. Len(ss) \in Nat /\ \A i \in D : ss[i] \in V
  OBVIOUS
<1>2. \A i \in D : i \in more => i - 1 \in D /\ i - 1 < i
  BY <1>1
<1>3. /\ next \in [D -> D] /\ size \in [D -> Nat] /\ base \in [D -> V]
      /\ \A i \in D : i \in more => size[next[i]] < size[i]
  <2> HIDE DEF V
  <2> QED
    BY <1>1, <1>2
<1>4. comb \in [D \X V -> V]
  <2> SUFFICES ASSUME NEW p \in D \X V
               PROVE  p[2] \o ss[p[1]] \in V
    OBVIOUS
  <2>1. p[2] \in V /\ ss[p[1]] \in V
    BY <1>1
  <2> QED
    BY <2>1, ConcatProperties
<1>5. PICK f : Solves(f, D, V, more, next, base, comb)
  <2> HIDE DEF D, V, more, next, size, base, comb
  <2> QED
    BY <1>3, <1>4, Recursion
<1>6. f \in [D -> V]
  BY <1>5 DEF Solves
<1>7. ASSUME NEW i \in D
      PROVE  f[i] = IF i = 1 THEN ss[i] ELSE f[i - 1] \o ss[i]
  <2>1. f[i] = IF i \in more THEN comb[<<i, f[next[i]]>>] ELSE base[i]
    BY <1>5 DEF Solves
  <2>2. CASE i \in more
    <3>1. next[i] = i - 1 /\ i - 1 \in D /\ f[i - 1] \in V
      BY <1>2, <1>6, <2>2
    <3>2. comb[<<i, f[i - 1]>>] = f[i - 1] \o ss[i]
      BY <3>1
    <3> QED
      BY <2>1, <2>2, <3>1, <3>2
  <2>3. CASE i \notin more
    BY <2>1, <2>3
  <2> QED
    BY <2>2, <2>3
<1> QED
  BY <1>6, <1>7 DEF Chained

LEMMA ChainUnique ==
    ASSUME NEW S, NEW ss \in Seq(Seq(S)), NEW f, NEW g, Chained(f, ss), Chained(g, ss)
    PROVE  \A i \in 1 .. Len(ss) : f[i] = g[i]
<1> DEFINE D == 1 .. Len(ss)
           P == {i \in D : f[i] = g[i]}
           size == [i \in D |-> i]
<1>1. Len(ss) \in Nat /\ size \in [D -> Nat]
  OBVIOUS
<1>2. ASSUME NEW i \in D, \A j \in D : size[j] < size[i] => j \in P
      PROVE  i \in P
  <2>1. CASE i = 1
    BY <2>1 DEF Chained
  <2>2. CASE i # 1
    <3>1. i - 1 \in D /\ size[i - 1] < size[i]
      BY <1>1, <2>2
    <3>2. f[i - 1] = g[i - 1]
      BY <1>2, <3>1
    <3>3. f[i] = f[i - 1] \o ss[i] /\ g[i] = g[i - 1] \o ss[i]
      BY <2>2 DEF Chained
    <3> QED
      BY <3>2, <3>3
  <2> QED
    BY <2>1, <2>2
<1>3. D \subseteq P
  <2> HIDE DEF D, P, size
  <2> QED
    BY <1>1, <1>2, BySize
<1> QED
  BY <1>3

LEMMA FlattenLast ==
    ASSUME NEW S, NEW ss \in Seq(Seq(S)), Len(ss) # 0, NEW f, Chained(f, ss)
    PROVE  FlattenSeq(ss) = f[Len(ss)]
<1> DEFINE D == 1 .. Len(ss)
           G(g) == [i \in D |-> IF i = 1 THEN ss[i] ELSE g[i - 1] \o ss[i]]
           flatten == CHOOSE g : g = G(g)
<1>1. FlattenSeq(ss) = flatten[Len(ss)]
  BY DEF FlattenSeq
<1>2. PICK h \in [D -> Seq(S)] : Chained(h, ss)
  BY ChainExists
<1>3. h = G(h)
  BY <1>2 DEF Chained
<1>4. flatten = G(flatten)
  <2> HIDE DEF G
  <2> QED
    BY <1>3
<1> HIDE DEF flatten
<1>5. Chained(flatten, ss)
  BY <1>4 DEF Chained
<1>6. Len(ss) \in D
  OBVIOUS
<1> QED
  BY <1>1, <1>5, <1>6, ChainUnique

LEMMA FlattenIs ==
    ASSUME NEW S, NEW ss \in Seq(Seq(S))
    PROVE  /\ FlattenSeq(ss) \in Seq(S)
           /\ ss = <<>> => FlattenSeq(ss) = <<>>
           /\ \A s \in Seq(S) : FlattenSeq(Append(ss, s)) = FlattenSeq(ss) \o s
<1>1. Len(ss) \in Nat
  OBVIOUS
<1>2. ss = <<>> => FlattenSeq(ss) = <<>>
  BY DEF FlattenSeq
<1>3. PICK f \in [1 .. Len(ss) -> Seq(S)] : Chained(f, ss)
  BY ChainExists
<1>4. Len(ss) # 0 => FlattenSeq(ss) = f[Len(ss)]
  BY <1>3, FlattenLast
<1>5. FlattenSeq(ss) \in Seq(S)
  <2>1. CASE Len(ss) # 0
    <3>1. Len(ss) \in 1 .. Len(ss)
      BY <1>1, <2>1
    <3>2. f[Len(ss)] \in Seq(S)
      BY <3>1, Zenon
    <3> QED
      BY <1>4, <2>1, <3>2
  <2>2. CASE Len(ss) = 0
    <3>1. ss = <<>>
      BY <2>2, EmptySeq
    <3> QED
      BY <1>2, <3>1, EmptySeq
  <2> QED
    BY <2>1, <2>2
<1>6. ASSUME NEW s \in Seq(S)
      PROVE  FlattenSeq(Append(ss, s)) = FlattenSeq(ss) \o s
  <2> DEFINE tt == Append(ss, s)
             n == Len(ss) + 1
  <2>1. /\ tt \in Seq(Seq(S)) /\ Len(tt) = n /\ tt[n] = s
        /\ \A i \in 1 .. Len(ss) : tt[i] = ss[i]
    BY AppendProperties
  <2> HIDE DEF tt
  <2>2. PICK g \in [1 .. Len(tt) -> Seq(S)] : Chained(g, tt)
    BY <2>1, ChainExists
  <2>3. FlattenSeq(tt) = g[n]
    BY <1>1, <2>1, <2>2, FlattenLast
  <2>4. g[n] = IF n = 1 THEN tt[n] ELSE g[n - 1] \o tt[n]
    <3>1. n \in 1 .. Len(tt)
      BY <1>1, <2>1
    <3> HIDE DEF n
    <3> QED
      BY <2>2, <3>1, Zenon DEF Chained
  <2>5. CASE ss = <<>>
    <3>1. n = 1
      BY <2>5
    <3>2. <<>> \o s = s
      BY ConcatEmptySeq
    <3> QED
      BY <1>2, <2>1, <2>3, <2>4, <2>5, <3>1, <3>2 DEF tt
  <2>6. CASE ss # <<>>
    <3>1. Len(ss) # 0 /\ n # 1 /\ n - 1 = Len(ss)
      BY <1>1, <2>6, EmptySeq
    <3>2. Chained(g, ss)
      <4>1. ASSUME NEW i \in 1 .. Len(ss)
            PROVE  g[i] = IF i = 1 THEN ss[i] ELSE g[i - 1] \o ss[i]
        <5>1. i \in 1 .. Len(tt) /\ tt[i] = ss[i]
          BY <1>1, <2>1
        <5> QED
          BY <2>2, <5>1 DEF Chained
      <4> QED
        BY <4>1 DEF Chained
    <3>3. FlattenSeq(ss) = g[Len(ss)]
      BY <3>1, <3>2, FlattenLast
    <3> QED
      BY <2>1, <2>3, <2>4, <3>1, <3>3 DEF tt
  <2> QED
    BY <2>5, <2>6
<1> QED
  BY <1>2, <1>5, <1>6

LEMMA MapAppend ==
    ASSUME NEW V, NEW W, NEW g \in [V -> W], NEW v \in Seq(V), NEW e \in V
    PROVE  /\ [i \in DOMAIN v |-> g[v[i]]] \in Seq(W)
           /\ [i \in DOMAIN Append(v, e) |-> g[Append(v, e)[i]]] =
                  Append([i \in DOMAIN v |-> g[v[i]]], g[e])
<1> DEFINE a == [i \in DOMAIN v |-> g[v[i]]]
           w == Append(v, e)
           b == [i \in DOMAIN w |-> g[w[i]]]
           n == Len(v)
<1>1. n \in Nat /\ DOMAIN v = 1 .. n /\ \A i \in 1 .. n : v[i] \in V
  BY LenProperties, ElementOfSeq
<1>2. /\ w \in Seq(V) /\ Len(w) = n + 1 /\ DOMAIN w = 1 .. n + 1
      /\ \A i \in 1 .. n : w[i] = v[i]
      /\ w[n + 1] = e
  BY AppendProperties, LenProperties
<1>3. a \in Seq(W) /\ Len(a) = n /\ \A i \in 1 .. n : a[i] = g[v[i]]
  BY <1>1
<1> HIDE DEF w, n
<1>4. \A i \in 1 .. n + 1 : w[i] \in V
  BY <1>2, ElementOfSeq
<1>5. b \in Seq(W) /\ Len(b) = n + 1 /\ \A i \in 1 .. n + 1 : b[i] = g[w[i]]
  BY <1>1, <1>2, <1>4
<1>6. g[e] \in W
  OBVIOUS
<1> HIDE DEF a, b
<1> DEFINE c == Append(a, g[e])
<1>7. /\ c \in Seq(W) /\ Len(c) = n + 1 /\ \A i \in 1 .. n : c[i] = a[i]
      /\ c[n + 1] = g[e]
  BY <1>3, <1>6, AppendProperties
<1> HIDE DEF c
<1>8. ASSUME NEW i \in 1 .. n + 1
      PROVE  b[i] = c[i]
  <2>1. CASE i = n + 1
    BY <1>2, <1>5, <1>7, <2>1
  <2>2. CASE i # n + 1
    <3>1. i \in 1 .. n
      BY <1>1, <2>2
    <3> QED
      BY <1>2, <1>3, <1>5, <1>7, <3>1
  <2> QED
    BY <2>1, <2>2
<1>9. b = c
  BY <1>5, <1>7, <1>8, SeqEqual
<1> QED
  BY <1>3, <1>9 DEF a, b, c, w

\* The same for the encodings: what a list of things is encoded to.
EncodingOf(g, v) == FlattenSeq([i \in DOMAIN v |-> g[v[i]]])

LEMMA EncodingIs ==
    ASSUME NEW S, NEW V, NEW g \in [V -> Seq(S)], NEW v \in Seq(V)
    PROVE  /\ EncodingOf(g, v) \in Seq(S) /\ EncodingOf(g, <<>>) = <<>>
           /\ \A e \in V : EncodingOf(g, Append(v, e)) = EncodingOf(g, v) \o g[e]
<1>1. EncodingOf(g, <<>>) = <<>>
  <2>1. <<>> \in Seq(Seq(S)) /\ [i \in DOMAIN <<>> |-> g[<<>>[i]]] = <<>>
    OBVIOUS
  <2>2. FlattenSeq(<<>>) = <<>>
    BY <2>1, FlattenIs
  <2> QED
    BY <2>1, <2>2 DEF EncodingOf
<1> DEFINE a == [i \in DOMAIN v |-> g[v[i]]]
<1>2. a \in Seq(Seq(S))
  <2>1. DOMAIN v = 1 .. Len(v) /\ Len(v) \in Nat /\ \A i \in 1 .. Len(v) : v[i] \in V
    BY LenProperties, ElementOfSeq
  <2> DEFINE W == Seq(S)
  <2>2. g \in [V -> W]
    OBVIOUS
  <2> HIDE DEF W
  <2>3. a \in Seq(W)
    BY <2>1, <2>2
  <2> QED
    BY <2>3 DEF W
<1>3. EncodingOf(g, v) \in Seq(S)
  BY <1>2, FlattenIs DEF EncodingOf
<1>4. ASSUME NEW e \in V
      PROVE  EncodingOf(g, Append(v, e)) = EncodingOf(g, v) \o g[e]
  <2>1. g[e] \in Seq(S)
    OBVIOUS
  <2>2. FlattenSeq(Append(a, g[e])) = FlattenSeq(a) \o g[e]
    BY <1>2, <2>1, FlattenIs
  <2>3. [i \in DOMAIN Append(v, e) |-> g[Append(v, e)[i]]] = Append(a, g[e])
    BY MapAppend
  <2> QED
    BY <2>2, <2>3 DEF EncodingOf
<1> QED
  BY <1>1, <1>3, <1>4

\* A vector: a length n in k bytes p, and what follows it.
LEMMA VectorRead ==
    ASSUME NEW k \in {1, 2, 3}, NEW p \in Seq(Byte), Len(p) = k, NEW n \in Nat,
           NEW u \in Seq(Byte), Number(p \o u, k) = n
    PROVE  /\ p \o u \in Seq(Byte) /\ Len(p \o u) = k + Len(u)
           /\ Fits(p \o u, k) <=> n <= Len(u)
           /\ n <= Len(u) => After(p \o u, k) = Drop(u, n)
           /\ Content(p \o u, k) = Upto(u, IF n <= Len(u) THEN n ELSE Len(u))
<1> DEFINE s == p \o u
<1>1. /\ s \in Seq(Byte) /\ Len(s) = k + Len(u) /\ Len(u) \in Nat /\ k \in Nat
      /\ Drop(s, k) = u
  BY ConcatProperties, LenProperties, DropCat
<1> HIDE DEF s
<1>2. Number(s, k) = n
  BY DEF s
<1>3. Fits(s, k) <=> n <= Len(u)
  BY <1>1, <1>2 DEF Fits
<1>4. n <= Len(u) => After(s, k) = Drop(u, n)
  BY <1>1, <1>2, DropDrop DEF After
<1>5. Content(s, k) = Upto(u, IF n <= Len(u) THEN n ELSE Len(u))
  <2>1. ~(Len(s) < k) /\ Len(s) - k = Len(u)
    BY <1>1
  <2>2. Content(s, k) = SubSeq(u, 1, IF n < Len(u) THEN n ELSE Len(u))
    BY <1>1, <1>2, <2>1 DEF Content
  <2>3. (IF n < Len(u) THEN n ELSE Len(u)) = (IF n <= Len(u) THEN n ELSE Len(u))
    BY <1>1
  <2> QED
    BY <2>2, <2>3 DEF Upto
<1> QED
  BY <1>1, <1>3, <1>4, <1>5 DEF s

LEMMA InByte ==
    ASSUME NEW n \in Nat, n <= 255
    PROVE  n \in Byte
<1> PICK k \in Int : k = 255
  OBVIOUS
<1>1. 0 .. k = Byte
  BY SMT DEF Byte
<1>2. n <= k
  OBVIOUS
<1>3. n \in 0 .. k
  BY ONLY <1>2, Between, n \in Nat, k \in Int
<1> QED
  BY ONLY <1>1, <1>3

LEMMA Be16Is ==
    ASSUME NEW n \in Word
    PROVE  /\ n \in Nat /\ Be16(n) \in Seq(Byte) /\ Len(Be16(n)) = 2
           /\ Be16(n)[1] = n \div 256 /\ Be16(n)[2] = n % 256
           /\ 256 * (n \div 256) + (n % 256) = n
<1>1. n \in Nat /\ n <= 65535
  BY DEF Word
<1>2. /\ n \div 256 \in Nat /\ n \div 256 <= 255 /\ n % 256 \in Nat /\ n % 256 <= 255
      /\ 256 * (n \div 256) + (n % 256) = n
  BY ONLY <1>1, SMTT(30)
<1>3. n \div 256 \in Byte /\ n % 256 \in Byte
  BY <1>2, InByte
<1> QED
  BY <1>1, <1>2, <1>3 DEF Be16

LEMMA Be16Read ==
    ASSUME NEW n \in Word, NEW u \in Seq(Byte)
    PROVE  /\ Number(Be16(n) \o u, 2) = n
           /\ Number(<<0>> \o (Be16(n) \o u), 3) = n
<1> DEFINE s == Be16(n) \o u
           t == <<0>> \o s
<1>1. s \in Seq(Byte) /\ Len(s) >= 2 /\ s[1] = n \div 256 /\ s[2] = n % 256
  <2> DEFINE b == Be16(n)
  <2>1. b \in Seq(Byte) /\ Len(b) = 2 /\ b[1] = n \div 256 /\ b[2] = n % 256
    BY Be16Is
  <2> HIDE DEF b
  <2>02. b \in Seq(Byte) /\ u \in Seq(Byte)
    BY <2>1
  <2>03. Len(u) \in Nat
    BY LenProperties
  <2>04. b \o u \in Seq(Byte) /\ Len(b \o u) = Len(b) + Len(u)
    BY ONLY <2>02, ConcatProperties
  <2>05. \A i \in 1 .. Len(b) + Len(u) :
            (b \o u)[i] = IF i <= Len(b) THEN b[i] ELSE u[i - Len(b)]
    BY ONLY <2>02, ConcatProperties
  <2>2. /\ b \o u \in Seq(Byte) /\ Len(b \o u) = Len(b) + Len(u) /\ Len(u) \in Nat
        /\ \A i \in 1 .. Len(b) + Len(u) :
              (b \o u)[i] = IF i <= Len(b) THEN b[i] ELSE u[i - Len(b)]
    BY <2>03, <2>04, <2>05
  <2>3. 1 \in 1 .. Len(b) + Len(u) /\ 2 \in 1 .. Len(b) + Len(u)
    BY <2>1, <2>2
  <2> QED
    BY <2>1, <2>2, <2>3 DEF b
<1>2. <<0>> \in Seq(Byte) /\ Len(<<0>>) = 1
  BY DEF Byte
<1>3. t[1] = 0 /\ t[2] = s[1] /\ t[3] = s[2]
  BY <1>1, <1>2, ConcatProperties
<1> HIDE DEF s, t
<1>4. 256 * (n \div 256) + (n % 256) = n /\ n \in Nat
  BY Be16Is
<1>5. Number(s, 2) = n
  BY <1>1, <1>4 DEF Number
<1>6. Number(t, 3) = 65536 * t[1] + 256 * t[2] + t[3]
  BY DEF Number
<1>7. Number(t, 3) = n
  <2>1. 65536 * 0 = 0
    OBVIOUS
  <2>2. Number(t, 3) = 0 + 256 * (n \div 256) + (n % 256)
    BY <1>1, <1>3, <1>6
  <2>3. n \div 256 \in Nat /\ n % 256 \in Nat
    BY <1>4
  <2> QED
    BY <1>4, <2>2, <2>3
<1> QED
  BY <1>5, <1>7 DEF s, t

LEMMA VectorReads ==
    ASSUME NEW k \in {1, 2, 3}, NEW p \in Seq(Byte), Len(p) = k, NEW n \in Nat,
           \A u \in Seq(Byte) : Number(p \o u, k) = n
    PROVE  \A u \in Seq(Byte) :
              /\ Fits(p \o u, k) <=> n <= Len(u)
              /\ n <= Len(u) => After(p \o u, k) = Drop(u, n)
              /\ Content(p \o u, k) = Upto(u, IF n <= Len(u) THEN n ELSE Len(u))
<1> TAKE u \in Seq(Byte)
<1>1. Number(p \o u, k) = n
  OBVIOUS
<1>2. Fits(p \o u, k) <=> n <= Len(u)
  BY <1>1, VectorRead
<1>3. n <= Len(u) => After(p \o u, k) = Drop(u, n)
  BY <1>1, VectorRead, ZenonT(60)
<1>4. Content(p \o u, k) = Upto(u, IF n <= Len(u) THEN n ELSE Len(u))
  BY <1>1, VectorRead, ZenonT(60)
<1> QED
  BY <1>2, <1>3, <1>4

\* A vector v with its length in k bytes p before it and t behind it, cut after
\* m bytes.
Cut(p, v, t, m) == Upto(p \o (v \o t), m)

Part(v, m) == Upto(v, IF m <= Len(v) THEN m ELSE Len(v))

LEMMA VectorCut ==
    ASSUME NEW k \in {1, 2, 3}, NEW p \in Seq(Byte), Len(p) = k,
           NEW v \in Seq(Byte), NEW t \in Seq(Byte),
           \A u \in Seq(Byte) : Number(p \o u, k) = Len(v),
           NEW m \in 0 .. k + Len(v) + Len(t)
    PROVE  /\ Cut(p, v, t, m) \in Seq(Byte) /\ Len(Cut(p, v, t, m)) = m
           /\ Fits(Cut(p, v, t, m), k) <=> m >= k + Len(v)
           /\ m < k => Content(Cut(p, v, t, m), k) = <<>>
           /\ m >= k => Content(Cut(p, v, t, m), k) = Part(v, m - k)
           /\ m >= k + Len(v) =>
                 /\ Content(Cut(p, v, t, m), k) = v
                 /\ After(Cut(p, v, t, m), k) = Upto(t, m - (k + Len(v)))
<1> DEFINE w == v \o t
           a == p \o w
           s == Cut(p, v, t, m)
           n == Len(v)
<1>0. ASSUME NEW u \in Seq(Byte)
      PROVE  /\ Fits(p \o u, k) <=> Len(v) <= Len(u)
             /\ Len(v) <= Len(u) => After(p \o u, k) = Drop(u, Len(v))
             /\ Content(p \o u, k) = Upto(u, IF Len(v) <= Len(u) THEN Len(v) ELSE Len(u))
  <2>1. Len(v) \in Nat
    OBVIOUS
  <2> QED
    BY <2>1, VectorReads
<1>1. /\ w \in Seq(Byte) /\ Len(w) = n + Len(t) /\ n \in Nat /\ Len(t) \in Nat
      /\ k \in Nat /\ m \in Nat
  BY ConcatProperties, LenProperties
<1>2. a \in Seq(Byte) /\ Len(a) = k + Len(w)
  BY <1>1, ConcatProperties
<1>3. s = Upto(a, m) /\ m \in 0 .. Len(a) /\ m \in 0 .. Len(p) + Len(w)
  BY <1>1, <1>2 DEF Cut
<1> HIDE DEF s, n
<1>4. s \in Seq(Byte) /\ Len(s) = m
  <2> HIDE DEF a
  <2> QED
    BY <1>2, <1>3, UptoIs
<1>5. CASE m < k
  <2>1. ~Fits(s, k) /\ Content(s, k) = <<>>
    BY <1>1, <1>4, <1>5 DEF Fits, Content
  <2> QED
    BY <1>1, <1>4, <1>5, <2>1 DEF s, n
<1>6. CASE m >= k
  <2> DEFINE j == m - k
             u == Upto(w, j)
  <2>1. j \in 0 .. Len(w) /\ j \in Nat /\ m = k + j
    BY <1>1, <1>3, <1>6
  <2> HIDE DEF w, j
  <2>2. s = p \o u
    <3>1. Upto(p \o w, m) = p \o Upto(w, m - Len(p))
      BY <1>1, <1>3, <1>6, UptoCat
    <3> QED
      BY <1>3, <3>1 DEF j
  <2>3. u \in Seq(Byte) /\ Len(u) = j
    BY <1>1, <2>1, UptoIs
  <2> HIDE DEF u
  <2>4. Number(p \o u, k) = n
    BY <2>3 DEF n
  <2>5. /\ Fits(s, k) <=> n <= j
        /\ n <= j => After(s, k) = Drop(u, n)
        /\ Content(s, k) = Upto(u, IF n <= j THEN n ELSE j)
    <3> DEFINE c == p \o u
    <3>1. /\ Fits(c, k) <=> n <= Len(u)
          /\ n <= Len(u) => After(c, k) = Drop(u, n)
          /\ Content(c, k) = Upto(u, IF n <= Len(u) THEN n ELSE Len(u))
      BY <1>0, <2>3, Zenon DEF n
    <3>2. s = c
      BY <2>2
    <3> HIDE DEF c
    <3> QED
      BY <2>3, <3>1, <3>2
  <2>6. j \in 0 .. n + Len(t)
    BY <1>1, <2>1
  <2>7. CASE n <= j
    <3> DEFINE z == Upto(t, j - n)
    <3>1. u = v \o z
      BY <2>6, <2>7, UptoCat DEF u, w, n
    <3>2. j - n \in 0 .. Len(t)
      BY <1>1, <2>6, <2>7
    <3>3. z \in Seq(Byte) /\ Len(z) = j - n
      BY <3>2, UptoIs
    <3> HIDE DEF z
    <3>4. Drop(u, n) = z
      BY <3>1, <3>3, DropCat DEF n
    <3>5. Upto(u, n) = v
      <4>1. n \in 0 .. Len(v) + Len(z)
        BY <1>1, <3>3 DEF n
      <4>2. Upto(v \o z, n) = Upto(v, n)
        BY <1>1, <3>3, <4>1, UptoCat DEF n
      <4> QED
        BY <3>1, <4>2, UptoAll DEF n
    <3>6. Part(v, j) = v
      <4>1. (IF j <= n THEN j ELSE n) = n
        BY <1>1, <2>1, <2>7
      <4> QED
        BY <4>1, UptoAll DEF Part, n
    <3>7. m >= k + n /\ m - (k + n) = j - n
      BY <1>1, <2>1, <2>7
    <3> QED
      BY <1>4, <1>6, <2>5, <2>7, <3>4, <3>5, <3>6, <3>7 DEF s, n, j, z
  <2>8. CASE ~(n <= j)
    <3>1. Upto(u, j) = u
      BY <2>3, UptoAll
    <3>2. u = Upto(v, j)
      BY <1>1, <2>1, <2>6, <2>8, UptoCat DEF u, w, n
    <3>3. Part(v, j) = u
      <4>1. (IF j <= n THEN j ELSE n) = j
        BY <1>1, <2>1, <2>8
      <4> QED
        BY <3>2, <4>1 DEF Part, n
    <3>4. ~(m >= k + n) /\ ~(m < k)
      BY <1>1, <2>1, <2>8
    <3> QED
      BY <1>4, <1>6, <2>5, <2>8, <3>1, <3>3, <3>4 DEF s, n, j
  <2> QED
    BY <2>7, <2>8
<1> QED
  BY <1>1, <1>5, <1>6

LEMMA Vec16Cut ==
    ASSUME NEW v \in Seq(Byte), NEW t \in Seq(Byte), Len(v) \in Word,
           NEW m \in 0 .. 2 + Len(v) + Len(t)
    PROVE  LET s == Upto(Vec16(v) \o t, m)
           IN /\ Vec16(v) \in Seq(Byte) /\ Len(Vec16(v)) = 2 + Len(v)
              /\ s \in Seq(Byte) /\ Len(s) = m
              /\ Fits(s, 2) <=> m >= 2 + Len(v)
              /\ m < 2 => Content(s, 2) = <<>>
              /\ m >= 2 => Content(s, 2) = Part(v, m - 2)
              /\ m >= 2 + Len(v) =>
                    Content(s, 2) = v /\ After(s, 2) = Upto(t, m - (2 + Len(v)))
<1> DEFINE p == Be16(Len(v))
<1>1. p \in Seq(Byte) /\ Len(p) = 2
  BY Be16Is
<1>2. \A u \in Seq(Byte) : Number(p \o u, 2) = Len(v)
  BY Be16Read
<1>3. Vec16(v) = p \o v
  BY DEF Vec16
<1> HIDE DEF p
<1>4. Vec16(v) \in Seq(Byte) /\ Len(Vec16(v)) = 2 + Len(v)
  <2>1. p \o v \in Seq(Byte) /\ Len(p \o v) = Len(p) + Len(v)
    BY <1>1, ConcatProperties
  <2> QED
    BY <1>1, <1>3, <2>1
<1>5. Vec16(v) \o t = p \o (v \o t)
  <2>1. p \in Seq(Byte) /\ v \in Seq(Byte) /\ t \in Seq(Byte)
    BY <1>1
  <2>2. (p \o v) \o t = p \o (v \o t)
    BY ONLY <2>1, AssocBytes, Zenon
  <2> QED
    BY ONLY <1>3, <2>2
<1>6. Upto(Vec16(v) \o t, m) = Cut(p, v, t, m)
  BY <1>5 DEF Cut
<1> DEFINE s == Cut(p, v, t, m)
<1>7. /\ s \in Seq(Byte) /\ Len(s) = m
      /\ Fits(s, 2) <=> m >= 2 + Len(v)
      /\ m < 2 => Content(s, 2) = <<>>
      /\ m >= 2 => Content(s, 2) = Part(v, m - 2)
      /\ m >= 2 + Len(v) =>
            /\ Content(s, 2) = v
            /\ After(s, 2) = Upto(t, m - (2 + Len(v)))
  BY <1>1, <1>2, VectorCut
<1> HIDE DEF s
<1> QED
  BY <1>4, <1>6, <1>7 DEF s

LEMMA Vec8Cut ==
    ASSUME NEW v \in Seq(Byte), NEW t \in Seq(Byte), Len(v) \in Byte,
           NEW m \in 0 .. 1 + Len(v) + Len(t)
    PROVE  LET s == Upto(Vec8(v) \o t, m)
           IN /\ Vec8(v) \in Seq(Byte) /\ Len(Vec8(v)) = 1 + Len(v)
              /\ s \in Seq(Byte) /\ Len(s) = m
              /\ Fits(s, 1) <=> m >= 1 + Len(v)
              /\ m < 1 => Content(s, 1) = <<>>
              /\ m >= 1 => Content(s, 1) = Part(v, m - 1)
              /\ m >= 1 + Len(v) =>
                    Content(s, 1) = v /\ After(s, 1) = Upto(t, m - (1 + Len(v)))
<1> DEFINE p == <<Len(v)>>
<1>1. p \in Seq(Byte) /\ Len(p) = 1
  OBVIOUS
<1>2. \A u \in Seq(Byte) : Number(p \o u, 1) = Len(v)
  BY DEF Number
<1>3. Vec8(v) = p \o v
  BY DEF Vec8
<1> HIDE DEF p
<1>4. Vec8(v) \in Seq(Byte) /\ Len(Vec8(v)) = 1 + Len(v)
  <2>1. p \o v \in Seq(Byte) /\ Len(p \o v) = Len(p) + Len(v)
    BY <1>1, ConcatProperties
  <2> QED
    BY <1>1, <1>3, <2>1
<1>5. Vec8(v) \o t = p \o (v \o t)
  <2>1. p \in Seq(Byte) /\ v \in Seq(Byte) /\ t \in Seq(Byte)
    BY <1>1
  <2>2. (p \o v) \o t = p \o (v \o t)
    BY ONLY <2>1, AssocBytes, Zenon
  <2> QED
    BY ONLY <1>3, <2>2
<1>6. Upto(Vec8(v) \o t, m) = Cut(p, v, t, m)
  BY <1>5 DEF Cut
<1> DEFINE s == Cut(p, v, t, m)
<1>7. /\ s \in Seq(Byte) /\ Len(s) = m
      /\ Fits(s, 1) <=> m >= 1 + Len(v)
      /\ m < 1 => Content(s, 1) = <<>>
      /\ m >= 1 => Content(s, 1) = Part(v, m - 1)
      /\ m >= 1 + Len(v) =>
            /\ Content(s, 1) = v
            /\ After(s, 1) = Upto(t, m - (1 + Len(v)))
  BY <1>1, <1>2, VectorCut
<1> HIDE DEF s
<1> QED
  BY <1>4, <1>6, <1>7 DEF s

\* The length of a handshake has three bytes.
LEMMA Vec24Cut ==
    ASSUME NEW v \in Seq(Byte), NEW t \in Seq(Byte), Len(v) \in Word,
           NEW m \in 3 .. 3 + Len(v) + Len(t)
    PROVE  LET s == Upto(<<0>> \o (Vec16(v) \o t), m)
           IN s \in Seq(Byte) /\ Len(s) = m /\ Content(s, 3) = Part(v, m - 3)
<1> DEFINE b == Be16(Len(v))
           o == <<0>>
           p == o \o b
<1>0. b \in Seq(Byte) /\ Len(b) = 2 /\ o \in Seq(Byte) /\ Len(o) = 1
  BY Be16Is DEF Byte
<1>01. \A u \in Seq(Byte) : Number(o \o (b \o u), 3) = Len(v)
  BY Be16Read
<1>02. Vec16(v) = b \o v
  BY DEF Vec16
<1> HIDE DEF b, o
<1>03. ASSUME NEW u \in Seq(Byte)
       PROVE  p \o u = o \o (b \o u)
  <2>1. o \in Seq(Byte) /\ b \in Seq(Byte) /\ u \in Seq(Byte)
    BY <1>0
  <2>2. (o \o b) \o u = o \o (b \o u)
    BY ONLY <2>1, AssocBytes, Zenon
  <2> QED
    BY ONLY <2>2
<1>1. p \in Seq(Byte) /\ Len(p) = 3
  <2>1. p \in Seq(Byte) /\ Len(p) = Len(o) + Len(b)
    BY <1>0, ConcatProperties
  <2> QED
    BY <1>0, <2>1
<1>2. ASSUME NEW u \in Seq(Byte)
      PROVE  Number(p \o u, 3) = Len(v)
  BY <1>01, <1>03
<1>3. o \o (Vec16(v) \o t) = p \o (v \o t)
  <2>1. b \in Seq(Byte) /\ v \in Seq(Byte) /\ t \in Seq(Byte)
    BY <1>0
  <2>2. (b \o v) \o t = b \o (v \o t)
    BY ONLY <2>1, AssocBytes, Zenon
  <2>3. v \o t \in Seq(Byte)
    BY ONLY <2>1, ConcatProperties
  <2>4. p \o (v \o t) = o \o (b \o (v \o t))
    BY <1>03, <2>3
  <2> QED
    BY <1>02, <2>2, <2>4
<1> HIDE DEF p
<1>4. Upto(<<0>> \o (Vec16(v) \o t), m) = Cut(p, v, t, m)
  BY <1>3 DEF Cut, o
<1>5. m \in 0 .. 3 + Len(v) + Len(t) /\ m >= 3
  OBVIOUS
<1> DEFINE s == Cut(p, v, t, m)
<1>6. s \in Seq(Byte) /\ Len(s) = m /\ Content(s, 3) = Part(v, m - 3)
  <2>1. /\ s \in Seq(Byte) /\ Len(s) = m
        /\ m >= 3 => Content(s, 3) = Part(v, m - 3)
    BY <1>1, <1>2, <1>5, VectorCut
  <2> QED
    BY <1>5, <2>1
<1> HIDE DEF s
<1> QED
  BY <1>4, <1>6 DEF s

\* A list of 16-bit values: what it is encoded to, and what is read back when
\* the encoding is cut.
LEMMA Be16sMore ==
    /\ Be16s(<<>>) = <<>>
    /\ \A v \in Seq(Word), e \in Word :
          Be16s(v) \in Seq(Byte) /\ Be16s(Append(v, e)) = Be16s(v) \o Be16(e)
<1> DEFINE g == [n \in Word |-> Be16(n)]
<1>1. g \in [Word -> Seq(Byte)]
  BY Be16Is
<1>2. ASSUME NEW v \in Seq(Word)
      PROVE  Be16s(v) = EncodingOf(g, v)
  <2>1. DOMAIN v = 1 .. Len(v) /\ \A i \in 1 .. Len(v) : v[i] \in Word
    BY LenProperties, ElementOfSeq
  <2>2. [i \in DOMAIN v |-> Be16(v[i])] = [i \in DOMAIN v |-> g[v[i]]]
    BY <2>1
  <2> QED
    BY <2>2 DEF Be16s, EncodingOf
<1>3. <<>> \in Seq(Word)
  OBVIOUS
<1>4. Be16s(<<>>) = <<>>
  <2>1. Be16s(<<>>) = EncodingOf(g, <<>>)
    BY <1>2, <1>3
  <2> HIDE DEF g
  <2>2. EncodingOf(g, <<>>) = <<>>
    BY <1>1, <1>3, EncodingIs
  <2> QED
    BY <2>1, <2>2
<1>5. ASSUME NEW v \in Seq(Word), NEW e \in Word
      PROVE  Be16s(v) \in Seq(Byte) /\ Be16s(Append(v, e)) = Be16s(v) \o Be16(e)
  <2>1. Append(v, e) \in Seq(Word)
    BY AppendProperties
  <2>2. Be16s(Append(v, e)) = EncodingOf(g, Append(v, e)) /\ Be16s(v) = EncodingOf(g, v)
    BY <1>2, <2>1
  <2>3. g[e] = Be16(e)
    OBVIOUS
  <2> HIDE DEF g
  <2>4. EncodingOf(g, v) \in Seq(Byte) /\ EncodingOf(g, Append(v, e)) = EncodingOf(g, v) \o g[e]
    BY <1>1, EncodingIs
  <2> QED
    BY <2>2, <2>3, <2>4
<1> QED
  BY <1>4, <1>5

InPairs(s, v) ==
    /\ s \in Seq(Byte) /\ Len(s) = 2 * Len(v)
    /\ \A i \in 1 .. Len(v) : 256 * s[2 * i - 1] + s[2 * i] = v[i]

LEMMA InPairsMore ==
    ASSUME NEW v \in Seq(Word), NEW e \in Word, NEW s, InPairs(s, v)
    PROVE  InPairs(s \o Be16(e), Append(v, e))
<1> DEFINE b == Be16(e)
           t == s \o b
           w == Append(v, e)
           n == Len(v)
<1>1. b \in Seq(Byte) /\ Len(b) = 2 /\ 256 * b[1] + b[2] = e
  <2>1. 256 * (e \div 256) + (e % 256) = e
    BY Be16Is
  <2> QED
    BY <2>1, Be16Is
<1>2. /\ n \in Nat /\ Len(w) = n + 1 /\ w[n + 1] = e
      /\ \A i \in 1 .. n : w[i] = v[i]
  BY AppendProperties, LenProperties
<1>3. s \in Seq(Byte) /\ Len(s) = 2 * n
  BY DEF InPairs
<1> HIDE DEF b, w
<1>4. /\ t \in Seq(Byte) /\ Len(t) = Len(s) + Len(b)
      /\ \A i \in 1 .. Len(s) + Len(b) : t[i] = IF i <= Len(s) THEN s[i] ELSE b[i - Len(s)]
  BY <1>1, <1>3, ConcatProperties
<1> HIDE DEF t
<1>5. ASSUME NEW i \in 1 .. n + 1
      PROVE  256 * t[2 * i - 1] + t[2 * i] = w[i]
  <2>1. CASE i = n + 1
    <3>1. /\ 2 * i - 1 \in 1 .. Len(s) + Len(b) /\ 2 * i \in 1 .. Len(s) + Len(b)
          /\ ~(2 * i - 1 <= Len(s)) /\ ~(2 * i <= Len(s))
          /\ 2 * i - 1 - Len(s) = 1 /\ 2 * i - Len(s) = 2
      BY <1>1, <1>2, <1>3, <2>1
    <3>2. t[2 * i - 1] = b[1] /\ t[2 * i] = b[2]
      BY <1>4, <3>1
    <3> QED
      BY <1>1, <1>2, <2>1, <3>2
  <2>2. CASE i # n + 1
    <3>1. i \in 1 .. n
      BY <1>2, <2>2
    <3>2. /\ 2 * i - 1 \in 1 .. Len(s) + Len(b) /\ 2 * i \in 1 .. Len(s) + Len(b)
          /\ 2 * i - 1 <= Len(s) /\ 2 * i <= Len(s)
      BY <1>1, <1>2, <1>3, <3>1
    <3>3. t[2 * i - 1] = s[2 * i - 1] /\ t[2 * i] = s[2 * i]
      BY <1>4, <3>2
    <3>4. 256 * s[2 * i - 1] + s[2 * i] = v[i]
      BY <3>1 DEF InPairs
    <3> QED
      BY <1>2, <3>1, <3>3, <3>4
  <2> QED
    BY <2>1, <2>2
<1>6. Len(t) = 2 * (n + 1)
  BY <1>1, <1>2, <1>3, <1>4
<1> QED
  BY <1>2, <1>4, <1>5, <1>6 DEF InPairs, t, b, w

LEMMA Be16sIs ==
    ASSUME NEW v \in Seq(Word)
    PROVE  InPairs(Be16s(v), v)
<1> DEFINE P == {x \in Seq(Word) : InPairs(Be16s(x), x)}
<1>1. <<>> \in P
  <2>1. InPairs(<<>>, <<>>)
    BY DEF InPairs
  <2>2. <<>> \in Seq(Word) /\ Be16s(<<>>) = <<>>
    BY Be16sMore
  <2> QED
    BY <2>1, <2>2
<1>2. ASSUME NEW x \in Seq(Word), NEW e \in Word, x \in P
      PROVE  Append(x, e) \in P
  <2>1. Append(x, e) \in Seq(Word) /\ InPairs(Be16s(x), x)
    BY <1>2, AppendProperties
  <2>2. InPairs(Be16s(x) \o Be16(e), Append(x, e))
    BY <2>1, InPairsMore
  <2>3. Be16s(Append(x, e)) = Be16s(x) \o Be16(e)
    BY Be16sMore
  <2> QED
    BY <2>1, <2>2, <2>3
<1>3. Seq(Word) \subseteq P
  <2> HIDE DEF P
  <2> QED
    BY <1>1, <1>2, BySteps
<1> QED
  BY <1>3

LEMMA Numbers16Cut ==
    ASSUME NEW v \in Seq(Word), NEW m \in 0 .. Len(Be16s(v))
    PROVE  /\ m \div 2 \in 0 .. Len(v)
           /\ Numbers16(Upto(Be16s(v), m)) = Upto(v, m \div 2)
<1> DEFINE s == Be16s(v)
           t == Upto(s, m)
           n == m \div 2
           a == Numbers16(t)
<1>1. /\ s \in Seq(Byte) /\ Len(s) = 2 * Len(v) /\ Len(v) \in Nat
      /\ \A i \in 1 .. Len(v) : 256 * s[2 * i - 1] + s[2 * i] = v[i]
  BY Be16sIs, LenProperties DEF InPairs
<1>2. m \in Nat /\ m <= 2 * Len(v) /\ m \in 0 .. Len(s)
  BY <1>1
<1>3. n \in Nat /\ 2 * n <= m /\ n <= Len(v)
  BY <1>1, <1>2
<1> HIDE DEF s
<1>4. t \in Seq(Byte) /\ Len(t) = m /\ \A i \in 1 .. m : t[i] = s[i]
  BY <1>1, <1>2, UptoIs
<1> HIDE DEF t, n
<1>5. a = [i \in 1 .. n |-> Number(Drop(t, 2 * i - 2), 2)]
  BY <1>4 DEF Numbers16, n
<1>6. ASSUME NEW i \in 1 .. n
      PROVE  Number(Drop(t, 2 * i - 2), 2) = v[i]
  <2> DEFINE k == 2 * i - 2
  <2>1. /\ k \in Nat /\ k + 2 <= m /\ i \in 1 .. Len(v)
        /\ k + 1 = 2 * i - 1 /\ k + 2 = 2 * i /\ k + 1 \in 1 .. m /\ k + 2 \in 1 .. m
    BY <1>1, <1>2, <1>3
  <2> HIDE DEF k
  <2>2. \A j \in 1 .. m - k : Drop(t, k)[j] = t[k + j]
    BY <1>2, <1>4, <2>1, PieceIs DEF Drop
  <2>3. 1 \in 1 .. m - k /\ 2 \in 1 .. m - k
    BY <1>2, <2>1
  <2>4. Drop(t, k)[1] = s[2 * i - 1] /\ Drop(t, k)[2] = s[2 * i]
    BY <1>4, <2>1, <2>2, <2>3
  <2> QED
    BY <1>1, <2>1, <2>4 DEF Number, k
<1>7. n \in 0 .. Len(v)
  BY <1>1, <1>3
<1>8. /\ Upto(v, n) \in Seq(Word) /\ Len(Upto(v, n)) = n
      /\ \A i \in 1 .. n : Upto(v, n)[i] = v[i]
  BY <1>7, UptoIs
<1>9. a \in Seq(Word) /\ Len(a) = n /\ \A i \in 1 .. n : a[i] = v[i]
  <2>1. \A i \in 1 .. n : v[i] \in Word
    BY <1>1, <1>3
  <2>2. a = [i \in 1 .. n |-> v[i]]
    BY <1>5, <1>6
  <2> HIDE DEF a
  <2> QED
    BY <1>3, <2>1, <2>2
<1>10. a = Upto(v, n)
  <2> HIDE DEF a
  <2> QED
    BY <1>8, <1>9, SeqEqual
<1> QED
  BY <1>7, <1>10 DEF n, t, s

-----------------------------------------------------------------------------
\* A list of names: what is read back when its encoding is cut.
Name8 == {s \in Seq(Byte) : Len(s) <= 255}

Strings(v) == [i \in DOMAIN v |-> FromUtf8Lossy(v[i])]

LEMMA StringsMore ==
    ASSUME NEW v \in Seq(Name8), NEW e \in Name8
    PROVE  /\ Strings(v) \in Seq(Texts8) /\ Len(Strings(v)) = Len(v)
           /\ FromUtf8Lossy(e) \in Texts8 /\ <<FromUtf8Lossy(e)>> \in Seq(Texts8)
           /\ Strings(Append(v, e)) = Append(Strings(v), FromUtf8Lossy(e))
           /\ Strings(<<>>) = <<>>
<1> DEFINE g == [n \in Name8 |-> FromUtf8Lossy(n)]
           w == Append(v, e)
<1>1. \A n \in Name8 : FromUtf8Lossy(n) \in Texts8
  BY DEF Name8, Texts8
<1>2. g \in [Name8 -> Texts8] /\ g[e] = FromUtf8Lossy(e)
  BY <1>1
<1>3. ASSUME NEW x \in Seq(Name8)
      PROVE  Strings(x) = [i \in DOMAIN x |-> g[x[i]]]
  <2>1. DOMAIN x = 1 .. Len(x) /\ \A i \in 1 .. Len(x) : x[i] \in Name8
    BY LenProperties, ElementOfSeq
  <2> QED
    BY <2>1 DEF Strings
<1>4. w \in Seq(Name8)
  BY AppendProperties
<1>5. Strings(v) = [i \in DOMAIN v |-> g[v[i]]] /\ Strings(w) = [i \in DOMAIN w |-> g[w[i]]]
  BY <1>3, <1>4
<1>6. Strings(<<>>) = <<>>
  BY DEF Strings
<1> HIDE DEF g
<1>7. /\ [i \in DOMAIN v |-> g[v[i]]] \in Seq(Texts8)
      /\ [i \in DOMAIN w |-> g[w[i]]] = Append([i \in DOMAIN v |-> g[v[i]]], g[e])
  BY <1>2, MapAppend
<1>8. Len(Strings(v)) = Len(v)
  <2>1. DOMAIN v = 1 .. Len(v) /\ Len(v) \in Nat
    BY LenProperties
  <2> QED
    BY <2>1 DEF Strings
<1>9. FromUtf8Lossy(e) \in Texts8
  BY <1>1
<1>10. <<FromUtf8Lossy(e)>> \in Seq(Texts8)
  <2> DEFINE t == FromUtf8Lossy(e)
  <2>1. t \in Texts8
    BY <1>9
  <2> HIDE DEF t
  <2>2. <<t>> \in Seq(Texts8)
    BY <2>1
  <2> QED
    BY <2>2 DEF t
<1> QED
  BY <1>2, <1>5, <1>6, <1>7, <1>8, <1>9, <1>10

LEMMA Name8Read ==
    ASSUME NEW e \in Name8, NEW q \in Seq(Byte)
    PROVE  /\ e \in Seq(Byte) /\ Vec8(e) \in Seq(Byte) /\ Len(Vec8(e)) = 1 + Len(e)
           /\ Len(e) \in Nat /\ Vec8(e) \o q \in Seq(Byte)
           /\ Fits(Vec8(e) \o q, 1) /\ Content(Vec8(e) \o q, 1) = e
           /\ After(Vec8(e) \o q, 1) = q
<1> DEFINE m == 1 + Len(e) + Len(q)
           a == Vec8(e)
<1>1. e \in Seq(Byte) /\ Len(e) \in Byte /\ Len(e) \in Nat /\ Len(q) \in Nat
  <2>1. e \in Seq(Byte) /\ Len(e) \in Nat /\ Len(q) \in Nat /\ Len(e) <= 255
    BY LenProperties DEF Name8
  <2> QED
    BY <2>1, InByte
<1>2. m \in 0 .. 1 + Len(e) + Len(q) /\ m >= 1 + Len(e) /\ m - (1 + Len(e)) = Len(q)
  BY <1>1
<1> HIDE DEF m
<1>3. /\ a \in Seq(Byte) /\ Len(a) = 1 + Len(e)
      /\ Fits(Upto(a \o q, m), 1) /\ Content(Upto(a \o q, m), 1) = e
      /\ After(Upto(a \o q, m), 1) = Upto(q, m - (1 + Len(e)))
  BY <1>1, <1>2, Vec8Cut
<1> HIDE DEF a
<1>4. a \o q \in Seq(Byte) /\ Len(a \o q) = m
  BY <1>1, <1>3, ConcatProperties DEF m
<1>5. Upto(a \o q, m) = a \o q
  BY <1>4, UptoAll
<1>6. Upto(q, m - (1 + Len(e))) = q
  BY <1>2, UptoAll
<1> QED
  BY <1>1, <1>3, <1>4, <1>5, <1>6 DEF a

LEMMA Vec8sMore ==
    /\ Vec8s(<<>>) = <<>>
    /\ \A v \in Seq(Name8), e \in Name8 :
          Vec8s(v) \in Seq(Byte) /\ Vec8s(Append(v, e)) = Vec8s(v) \o Vec8(e)
<1> DEFINE g == [n \in Name8 |-> Vec8(n)]
<1>1. g \in [Name8 -> Seq(Byte)]
  <2>1. <<>> \in Seq(Byte)
    OBVIOUS
  <2>2. \A n \in Name8 : Vec8(n) \in Seq(Byte)
    BY <2>1, Name8Read
  <2> QED
    BY <2>2
<1>2. ASSUME NEW v \in Seq(Name8)
      PROVE  Vec8s(v) = EncodingOf(g, v)
  <2>1. DOMAIN v = 1 .. Len(v) /\ \A i \in 1 .. Len(v) : v[i] \in Name8
    BY LenProperties, ElementOfSeq
  <2>2. [i \in DOMAIN v |-> Vec8(v[i])] = [i \in DOMAIN v |-> g[v[i]]]
    BY <2>1
  <2> QED
    BY <2>2 DEF Vec8s, EncodingOf
<1>3. <<>> \in Seq(Name8)
  OBVIOUS
<1>4. Vec8s(<<>>) = <<>>
  <2>1. Vec8s(<<>>) = EncodingOf(g, <<>>)
    BY <1>2, <1>3
  <2> HIDE DEF g
  <2>2. EncodingOf(g, <<>>) = <<>>
    BY <1>1, <1>3, EncodingIs
  <2> QED
    BY <2>1, <2>2
<1>5. ASSUME NEW v \in Seq(Name8), NEW e \in Name8
      PROVE  Vec8s(v) \in Seq(Byte) /\ Vec8s(Append(v, e)) = Vec8s(v) \o Vec8(e)
  <2>1. Append(v, e) \in Seq(Name8)
    BY AppendProperties
  <2>2. Vec8s(Append(v, e)) = EncodingOf(g, Append(v, e)) /\ Vec8s(v) = EncodingOf(g, v)
    BY <1>2, <2>1
  <2>3. g[e] = Vec8(e)
    OBVIOUS
  <2> HIDE DEF g
  <2>4. EncodingOf(g, v) \in Seq(Byte) /\ EncodingOf(g, Append(v, e)) = EncodingOf(g, v) \o g[e]
    BY <1>1, EncodingIs
  <2> QED
    BY <2>2, <2>3, <2>4
<1> QED
  BY <1>4, <1>5

LEMMA Vec8sIs ==
    ASSUME NEW v \in Seq(Name8)
    PROVE  Vec8s(v) \in Seq(Byte)
<1>1. CASE v = <<>>
  <2>1. Vec8s(<<>>) = <<>> /\ <<>> \in Seq(Byte)
    BY Vec8sMore
  <2> QED
    BY <1>1, <2>1
<1>2. CASE v # <<>>
  <2>1. PICK s \in Seq(Name8), e \in Name8 : v = Append(s, e)
    BY <1>2, SequenceEmptyOrAppend
  <2> QED
    BY Vec8sMore
<1> QED
  BY <1>1, <1>2

LEMMA ProtocolsOne ==
    ASSUME NEW e \in Name8, NEW q \in Seq(Byte)
    PROVE  Protocols[Vec8(e) \o q] = <<FromUtf8Lossy(e)>> \o Protocols[q]
<1> DEFINE s == Vec8(e) \o q
<1>1. s \in Seq(Byte) /\ Fits(s, 1) /\ Content(s, 1) = e /\ After(s, 1) = q
  BY Name8Read
<1> HIDE DEF s
<1>3. Protocols[s] = <<FromUtf8Lossy(Content(s, 1))>> \o Protocols[After(s, 1)]
  BY <1>1, ProtocolsIs
<1> QED
  BY <1>1, <1>3 DEF s

LEMMA ProtocolsNone == Protocols[<<>>] = <<>>
<1>1. <<>> \in Seq(Byte) /\ ~Fits(<<>>, 1)
  BY DEF Fits
<1> QED
  BY <1>1, ProtocolsIs

LEMMA ProtocolsAll ==
    ASSUME NEW v \in Seq(Name8), NEW q \in Seq(Byte)
    PROVE  Protocols[Vec8s(v) \o q] = Strings(v) \o Protocols[q]
<1> DEFINE P == {x \in Seq(Name8) :
                    \A r \in Seq(Byte) : Protocols[Vec8s(x) \o r] = Strings(x) \o Protocols[r]}
<1>0. \A r \in Seq(Byte) : Protocols[r] \in Seq(Texts8)
  BY ProtocolsIs
<1>1. <<>> \in P
  <2>1. ASSUME NEW r \in Seq(Byte)
        PROVE  Protocols[Vec8s(<<>>) \o r] = Strings(<<>>) \o Protocols[r]
    <3>1. Vec8s(<<>>) = <<>> /\ <<>> \o r = r /\ Strings(<<>>) = <<>>
      BY Vec8sMore, ConcatEmptySeq DEF Strings
    <3>2. <<>> \o Protocols[r] = Protocols[r]
      BY <1>0, ConcatEmptySeq
    <3> QED
      BY <3>1, <3>2
  <2>2. <<>> \in Seq(Name8)
    OBVIOUS
  <2> QED
    BY <2>1, <2>2
<1>2. ASSUME NEW x \in Seq(Name8), NEW e \in Name8, x \in P
      PROVE  Append(x, e) \in P
  <2>1. Append(x, e) \in Seq(Name8)
    BY AppendProperties
  <2>2. ASSUME NEW r \in Seq(Byte)
        PROVE  Protocols[Vec8s(Append(x, e)) \o r] = Strings(Append(x, e)) \o Protocols[r]
    <3>1. /\ Vec8s(x) \in Seq(Byte) /\ Vec8(e) \in Seq(Byte) /\ Vec8(e) \o r \in Seq(Byte)
          /\ Vec8s(Append(x, e)) = Vec8s(x) \o Vec8(e)
      BY Vec8sMore, Name8Read
    <3>2. Vec8s(Append(x, e)) \o r = Vec8s(x) \o (Vec8(e) \o r)
      <4>1. Vec8s(x) \in Seq(Byte) /\ Vec8(e) \in Seq(Byte) /\ r \in Seq(Byte)
        BY <3>1
      <4>2. (Vec8s(x) \o Vec8(e)) \o r = Vec8s(x) \o (Vec8(e) \o r)
        BY ONLY <4>1, AssocBytes, Zenon
      <4> QED
        BY ONLY <3>1, <4>2
    <3>3. Protocols[Vec8s(x) \o (Vec8(e) \o r)] = Strings(x) \o Protocols[Vec8(e) \o r]
      BY <1>2, <3>1
    <3>4. Protocols[Vec8(e) \o r] = <<FromUtf8Lossy(e)>> \o Protocols[r]
      BY ProtocolsOne
    <3>5. Strings(x) \o (<<FromUtf8Lossy(e)>> \o Protocols[r]) =
              Strings(Append(x, e)) \o Protocols[r]
      <4> DEFINE p == Protocols[r]
                 a == Strings(x)
                 c == FromUtf8Lossy(e)
      <4>1. p \in Seq(Texts8) /\ a \in Seq(Texts8) /\ c \in Texts8
        BY <1>0, StringsMore
      <4>2. Strings(Append(x, e)) = Append(a, c)
        BY StringsMore
      <4> HIDE DEF p, a, c
      <4>3. a \o (<<c>> \o p) = Append(a, c) \o p
        BY <4>1, Shift
      <4> QED
        BY <4>2, <4>3 DEF p, a, c
    <3> QED
      BY <3>2, <3>3, <3>4, <3>5
  <2> QED
    BY <2>1, <2>2
<1>3. Seq(Name8) \subseteq P
  <2> HIDE DEF P
  <2> QED
    BY <1>1, <1>2, BySteps
<1> QED
  BY <1>3

\* The names that are complete are read back.
Whole8(v, n, k) ==
    /\ Protocols[Upto(Vec8s(v), n)] = Upto(Strings(v), k)
    /\ n = Len(Vec8s(v)) => k = Len(v)

LEMMA ProtocolsMore ==
    ASSUME NEW v \in Seq(Name8), NEW e \in Name8,
           NEW n \in 0 .. Len(Vec8s(Append(v, e))),
           n <= Len(Vec8s(v)) => \E k \in 0 .. Len(v) : Whole8(v, n, k)
    PROVE  \E k \in 0 .. Len(Append(v, e)) : Whole8(Append(v, e), n, k)
<1> DEFINE w == Append(v, e)
           a == Vec8s(v)
           b == Vec8(e)
           f == Strings(v)
           c == <<FromUtf8Lossy(e)>>
<1>1. w \in Seq(Name8) /\ Len(w) = Len(v) + 1 /\ Len(v) \in Nat
  BY AppendProperties, LenProperties
<1>11. /\ f \in Seq(Texts8) /\ c \in Seq(Texts8) /\ Len(f) = Len(v) /\ Len(c) = 1
       /\ Strings(w) = f \o c
  <2> DEFINE x == FromUtf8Lossy(e)
  <2>1. f \in Seq(Texts8) /\ Len(f) = Len(v) /\ x \in Texts8 /\ Strings(w) = Append(f, x)
    BY StringsMore
  <2> HIDE DEF x, f
  <2>2. <<x>> \in Seq(Texts8) /\ Len(<<x>>) = 1
    BY <2>1
  <2>3. Append(f, x) = f \o <<x>>
    BY <2>1, AppendIsConcat
  <2> QED
    BY <2>1, <2>2, <2>3 DEF x
<1>12. Strings(w) \in Seq(Texts8) /\ Len(Strings(w)) = Len(w)
  BY <1>1, StringsMore
<1>2. /\ a \in Seq(Byte) /\ b \in Seq(Byte) /\ e \in Seq(Byte) /\ Len(b) = 1 + Len(e)
      /\ Vec8s(w) = a \o b /\ Len(e) \in Nat /\ Len(a) \in Nat
  <2>1. <<>> \in Seq(Byte)
    OBVIOUS
  <2> QED
    BY <2>1, Vec8sMore, Name8Read, LenProperties
<1> HIDE DEF a, b, w, f, c
<1>3. Len(a \o b) = Len(a) + Len(b) /\ a \o b \in Seq(Byte)
  BY <1>2, ConcatProperties
<1>4. n \in 0 .. Len(a) + Len(b) /\ n \in Nat
  BY <1>2, <1>3 DEF w
<1>5. ASSUME n <= Len(a)
      PROVE  \E k \in 0 .. Len(w) : Whole8(w, n, k)
  <2>1. PICK k \in 0 .. Len(v) : Whole8(v, n, k)
    BY <1>5 DEF a
  <2>2. k \in 0 .. Len(w) /\ k \in 0 .. Len(f) + Len(c) /\ k <= Len(f)
    BY <1>1, <1>11
  <2>3. Upto(a \o b, n) = Upto(a, n)
    BY <1>2, <1>4, <1>5, UptoCat
  <2>4. Upto(f \o c, k) = Upto(f, k)
    BY <1>11, <2>2, UptoCat
  <2>5. n # Len(a \o b)
    BY <1>2, <1>3, <1>5
  <2>6. Protocols[Upto(a, n)] = Upto(f, k)
    BY <2>1 DEF Whole8, a, f
  <2>7. Protocols[Upto(Vec8s(w), n)] = Upto(Strings(w), k)
    BY <1>2, <1>11, <2>3, <2>4, <2>6
  <2> QED
    BY <1>2, <2>2, <2>5, <2>7 DEF Whole8
<1>6. ASSUME n > Len(a)
      PROVE  \E k \in 0 .. Len(w) : Whole8(w, n, k)
  <2> DEFINE j == n - Len(a)
             q == Upto(b, j)
  <2>1. j \in 0 .. Len(b) /\ j \in Nat /\ n >= Len(a) /\ j <= 1 + Len(e)
    BY <1>2, <1>4, <1>6
  <2>2. Upto(a \o b, n) = a \o q
    BY <1>2, <1>4, <2>1, UptoCat
  <2>3. q \in Seq(Byte) /\ Len(q) = j
    BY <1>2, <2>1, UptoIs
  <2>4. n = Len(a \o b) <=> j = Len(b)
    BY <1>2, <1>3, <1>4
  <2> HIDE DEF j
  <2>5. Protocols[a \o q] = f \o Protocols[q]
    BY <2>3, ProtocolsAll DEF a, f
  <2>6. CASE j = Len(b)
    <3>1. q = b /\ b \o <<>> = b /\ <<>> \in Seq(Byte)
      BY <1>2, <2>6, UptoAll, ConcatEmptySeq
    <3>2. Protocols[b \o <<>>] = c \o Protocols[<<>>]
      BY <3>1, ProtocolsOne DEF b, c
    <3>3. c \o <<>> = c
      BY <1>11, ConcatEmptySeq
    <3>4. Protocols[q] = c
      BY <3>1, <3>2, <3>3, ProtocolsNone
    <3>5. Upto(Strings(w), Len(w)) = Strings(w) /\ Len(w) \in 0 .. Len(w)
      <4>1. Len(w) \in Nat /\ Len(w) \in 0 .. Len(w)
        BY <1>1
      <4> DEFINE z == Strings(w)
      <4>2. z \in Seq(Texts8) /\ Len(z) = Len(w)
        BY <1>12
      <4> HIDE DEF z
      <4>3. Upto(z, Len(z)) = z
        BY ONLY <4>2, UptoAll
      <4> QED
        BY <4>1, <4>2, <4>3 DEF z
    <3>6. Protocols[Upto(Vec8s(w), n)] = Upto(Strings(w), Len(w))
      BY <1>2, <1>11, <2>2, <2>5, <3>4, <3>5
    <3> QED
      BY <3>5, <3>6 DEF Whole8
  <2>7. CASE j # Len(b)
    <3>1. j < 1 + Len(e)
      BY <1>2, <2>1, <2>7
    <3>2. ~Fits(q, 1)
      <4> DEFINE t == b \o <<>>
      <4>1. <<>> \in Seq(Byte) /\ Len(<<>>) = 0 /\ t = b
        BY <1>2, ConcatEmptySeq
      <4>2. Len(e) \in Byte /\ j \in 0 .. 1 + Len(e) + Len(<<>>)
        <5>1. Len(e) <= 255
          BY DEF Name8
        <5> QED
          BY <1>2, <2>1, <4>1, <5>1, InByte
      <4>3. Fits(Upto(t, j), 1) <=> j >= 1 + Len(e)
        BY <1>2, <4>1, <4>2, Vec8Cut DEF b
      <4> QED
        BY <1>2, <2>1, <3>1, <4>1, <4>3
    <3>3. Protocols[q] = <<>>
      BY <2>3, <3>2, ProtocolsIs
    <3>4. f \o <<>> = f
      BY <1>11, ConcatEmptySeq
    <3>5. Upto(f \o c, Len(f)) = Upto(f, Len(f)) /\ Upto(f, Len(f)) = f
      <4>1. Len(f) \in 0 .. Len(f) + Len(c) /\ Len(f) <= Len(f)
        BY <1>1, <1>11
      <4>2. Upto(f \o c, Len(f)) = Upto(f, Len(f))
        BY <1>11, <4>1, UptoCat
      <4>3. Upto(f, Len(f)) = f
        BY <1>11, UptoAll
      <4> QED
        BY <4>2, <4>3
    <3>6. Len(v) \in 0 .. Len(w)
      BY <1>1
    <3>7. Protocols[Upto(Vec8s(w), n)] = Upto(Strings(w), Len(v))
      BY <1>2, <1>11, <2>2, <2>5, <3>3, <3>4, <3>5
    <3>8. n # Len(Vec8s(w))
      BY <1>2, <2>4, <2>7
    <3> QED
      BY <3>6, <3>7, <3>8 DEF Whole8
  <2> QED
    BY <2>6, <2>7
<1> QED
  BY <1>2, <1>4, <1>5, <1>6 DEF w

LEMMA ProtocolsCut ==
    ASSUME NEW v \in Seq(Name8), NEW n \in 0 .. Len(Vec8s(v))
    PROVE  \E k \in 0 .. Len(v) : Whole8(v, n, k)
<1> DEFINE P == {x \in Seq(Name8) :
                    \A m \in 0 .. Len(Vec8s(x)) : \E k \in 0 .. Len(x) : Whole8(x, m, k)}
<1>1. <<>> \in P
  <2>1. Vec8s(<<>>) = <<>> /\ <<>> \in Seq(Name8) /\ Len(<<>>) = 0 /\ 0 .. 0 = {0}
    BY Vec8sMore
  <2>2. Upto(<<>>, 0) = <<>> /\ Strings(<<>>) = <<>>
    BY DEF Upto, Strings
  <2>3. Whole8(<<>>, 0, 0)
    BY <2>1, <2>2, ProtocolsNone DEF Whole8
  <2> QED
    BY <2>1, <2>3
<1>2. ASSUME NEW x \in Seq(Name8), NEW e \in Name8, x \in P
      PROVE  Append(x, e) \in P
  <2>1. Append(x, e) \in Seq(Name8)
    BY AppendProperties
  <2>2. ASSUME NEW m \in 0 .. Len(Vec8s(Append(x, e)))
        PROVE  \E k \in 0 .. Len(Append(x, e)) : Whole8(Append(x, e), m, k)
    <3>1. Len(Vec8s(x)) \in Nat
      BY Vec8sMore, LenProperties
    <3>2. m <= Len(Vec8s(x)) => \E k \in 0 .. Len(x) : Whole8(x, m, k)
      <4>1. Len(Vec8s(Append(x, e))) \in Nat => m \in Nat
        OBVIOUS
      <4>2. m \in Int /\ 0 <= m
        OBVIOUS
      <4>3. m <= Len(Vec8s(x)) => m \in 0 .. Len(Vec8s(x))
        BY <3>1, <4>2
      <4> QED
        BY <1>2, <4>3
    <3> QED
      BY <3>2, ProtocolsMore
  <2> QED
    BY <2>1, <2>2
<1>3. Seq(Name8) \subseteq P
  <2> HIDE DEF P
  <2> QED
    BY <1>1, <1>2, BySteps
<1> QED
  BY <1>3

-----------------------------------------------------------------------------
\* An extension block: what is read back when its encoding is cut.
Fitting(S) ==
    \A e \in S : /\ e.type \in Word /\ ExtBody(e) \in Seq(Byte)
                 /\ Len(ExtBody(e)) \in Word

\* The extension e as the reference reads it.
Plain(e) == [type |-> e.type, body |-> ExtBody(e)]

Plains(es) == [i \in DOMAIN es |-> Plain(es[i])]

LEMMA ExtIs ==
    ASSUME NEW S, Fitting(S), NEW e \in S
    PROVE  /\ ext(e) \in Seq(Byte) /\ Len(ext(e)) = 4 + Len(ExtBody(e))
           /\ Len(ExtBody(e)) \in Nat /\ Plain(e) \in Extension
<1> DEFINE b == ExtBody(e)
           p == Be16(e.type)
<1>1. b \in Seq(Byte) /\ Len(b) \in Word /\ Len(b) \in Nat /\ e.type \in Word
  BY LenProperties DEF Fitting
<1>2. p \in Seq(Byte) /\ Len(p) = 2
  BY <1>1, Be16Is
<1>3. Vec16(b) \in Seq(Byte) /\ Len(Vec16(b)) = 2 + Len(b)
  <2>1. <<>> \in Seq(Byte) /\ 0 \in 0 .. 2 + Len(b) + Len(<<>>)
    BY <1>1
  <2> HIDE DEF b
  <2> QED
    BY <1>1, <2>1, Vec16Cut
<1>4. Plain(e) \in Extension
  BY <1>1 DEF Plain, Extension
<1> DEFINE c == Vec16(b)
<1> HIDE DEF b, p, c
<1>5. p \o c \in Seq(Byte) /\ Len(p \o c) = 4 + Len(b)
  <2>1. c \in Seq(Byte) /\ Len(c) = 2 + Len(b)
    BY <1>3 DEF c
  <2>2. p \o c \in Seq(Byte) /\ Len(p \o c) = Len(p) + Len(c)
    BY <1>2, <2>1, ConcatProperties
  <2> QED
    BY <1>1, <1>2, <2>1, <2>2
<1>6. ext(e) = p \o c
  BY DEF ext, p, c, b
<1> QED
  BY <1>1, <1>4, <1>5, <1>6 DEF b

\* The first extension of a block, whole or cut in its body.
LEMMA ExtCut ==
    ASSUME NEW S, Fitting(S), NEW e \in S, NEW q \in Seq(Byte),
           NEW m \in 2 .. 2 + Len(ExtBody(e)) + Len(q)
    PROVE  LET b == ExtBody(e)
           IN Extensions[Be16(e.type) \o Upto(Vec16(b) \o q, m)] =
                  <<[type |-> e.type, body |-> Part(b, m - 2)]>>
                     \o Extensions[IF m >= 2 + Len(b) THEN Upto(q, m - (2 + Len(b)))
                                   ELSE <<>>]
<1> DEFINE b == ExtBody(e)
           p == Be16(e.type)
           v == Vec16(b)
           r == Upto(v \o q, m)
           c == Part(b, m - 2)
           rest == IF m >= 2 + Len(b) THEN Upto(q, m - (2 + Len(b))) ELSE <<>>
<1>1. b \in Seq(Byte) /\ Len(b) \in Word /\ Len(b) \in Nat /\ e.type \in Word /\ Len(q) \in Nat
  BY LenProperties DEF Fitting
<1>2. p \in Seq(Byte) /\ Len(p) = 2
  BY <1>1, Be16Is
<1>3. m \in Nat /\ m >= 2 /\ m <= 2 + Len(b) + Len(q) /\ m \in 0 .. 2 + Len(b) + Len(q)
  BY <1>1
<1> HIDE DEF b
<1>4. /\ v \in Seq(Byte) /\ Len(v) = 2 + Len(b) /\ r \in Seq(Byte) /\ Len(r) = m
      /\ Content(r, 2) = c
  BY <1>1, <1>3, Vec16Cut
<1>5. Number(p \o r, 2) = e.type
  BY <1>1, <1>4, Be16Read
<1>6. c \in Seq(Byte) /\ Len(c) = IF m - 2 <= Len(b) THEN m - 2 ELSE Len(b)
  <2> DEFINE k == IF m - 2 <= Len(b) THEN m - 2 ELSE Len(b)
  <2>1. k \in 0 .. Len(b)
    BY <1>1, <1>3
  <2> HIDE DEF k
  <2>2. Upto(b, k) \in Seq(Byte) /\ Len(Upto(b, k)) = k
    BY <1>1, <2>1, UptoIs
  <2> QED
    BY <2>2 DEF Part, k
<1>7. Drop(r, 2 + Len(c)) = rest /\ 2 + Len(c) <= m
  <2>1. CASE m >= 2 + Len(b)
    <3> DEFINE j == m - (2 + Len(b))
               u == Upto(q, j)
    <3>1. r = v \o u
      <4>1. m \in 0 .. Len(v) + Len(q) /\ m >= Len(v) /\ m - Len(v) = j
        BY <1>1, <1>3, <1>4, <2>1
      <4> HIDE DEF v, j
      <4> QED
        BY <1>4, <4>1, UptoCat
    <3>2. u \in Seq(Byte)
      <4>1. j \in 0 .. Len(q)
        BY <1>1, <1>3, <2>1
      <4> HIDE DEF j
      <4> QED
        BY <4>1, UptoIs
    <3>3. Len(c) = Len(b)
      BY <1>1, <1>3, <1>6, <2>1
    <3> HIDE DEF v, u, r
    <3>4. Drop(v \o u, Len(v)) = u
      BY <1>4, <3>2, DropCat
    <3> HIDE DEF c, j
    <3>5. Drop(r, 2 + Len(c)) = u /\ 2 + Len(c) <= m
      BY <1>4, <2>1, <3>1, <3>3, <3>4
    <3>6. u = rest
      BY <2>1 DEF u, j
    <3> QED
      BY <3>5, <3>6
  <2>2. CASE ~(m >= 2 + Len(b))
    <3>1. 2 + Len(c) = m
      BY <1>1, <1>3, <1>6, <2>2
    <3> HIDE DEF r, c
    <3>2. Drop(r, m) = <<>>
      <4>1. Drop(r, m) \in Seq(Byte) /\ Len(Drop(r, m)) = m - m
        BY <1>3, <1>4, DropIs
      <4> QED
        BY <1>3, <4>1, EmptySeq
    <3> QED
      BY <1>3, <2>2, <3>1, <3>2
  <2> QED
    BY <2>1, <2>2
<1> HIDE DEF p, v, r, c, rest
<1>8. p \o r \in Seq(Byte) /\ Len(p \o r) = 2 + m /\ Drop(p \o r, 2) = r
  <2>1. p \o r \in Seq(Byte) /\ Len(p \o r) = Len(p) + Len(r) /\ Drop(p \o r, Len(p)) = r
    BY <1>2, <1>4, ConcatProperties, DropCat
  <2> QED
    BY <1>2, <1>4, <2>1
<1>9. Drop(p \o r, 4 + Len(c)) = rest
  <2> DEFINE a == p \o r
             k == 2 + Len(c)
  <2>1. k \in Nat /\ 2 + k <= Len(a) /\ 2 + k = 4 + Len(c)
    BY <1>3, <1>6, <1>7, <1>8
  <2>2. a \in Seq(Byte) /\ Drop(a, 2) = r
    BY <1>8
  <2> HIDE DEF a, k
  <2>3. Drop(Drop(a, 2), k) = Drop(a, 2 + k)
    BY <2>1, <2>2, DropDrop
  <2> QED
    BY <1>7, <2>1, <2>2, <2>3 DEF a, k
<1>10. Extensions[p \o r] =
          <<[type |-> Number(p \o r, 2), body |-> Content(r, 2)]>> \o Extensions[rest]
  <2>1. ~(Len(p \o r) < 4)
    BY <1>3, <1>8
  <2> QED
    BY <1>4, <1>8, <1>9, <2>1, ExtensionsIs
<1> QED
  BY <1>4, <1>5, <1>10 DEF b, p, v, r, c, rest

LEMMA ExtOne ==
    ASSUME NEW S, Fitting(S), NEW e \in S, NEW q \in Seq(Byte)
    PROVE  Extensions[ext(e) \o q] = <<Plain(e)>> \o Extensions[q]
<1> DEFINE b == ExtBody(e)
           p == Be16(e.type)
           v == Vec16(b)
           m == 2 + Len(b) + Len(q)
<1>1. b \in Seq(Byte) /\ Len(b) \in Word /\ Len(b) \in Nat /\ e.type \in Word /\ Len(q) \in Nat
  BY LenProperties DEF Fitting
<1>2. /\ m \in 2 .. 2 + Len(b) + Len(q) /\ m \in 0 .. 2 + Len(b) + Len(q)
      /\ m >= 2 + Len(b) /\ m - (2 + Len(b)) = Len(q) /\ m \in Nat
      /\ ~(m - 2 < Len(b))
  BY <1>1
<1>3. v \in Seq(Byte) /\ Len(v) = 2 + Len(b)
  <2> HIDE DEF b, m
  <2> QED
    BY <1>1, <1>2, Vec16Cut
<1>4. p \in Seq(Byte)
  BY <1>1, Be16Is
<1>5. Upto(v \o q, m) = v \o q
  <2> HIDE DEF v
  <2>1. v \o q \in Seq(Byte) /\ Len(v \o q) = m
    BY <1>3, ConcatProperties
  <2> HIDE DEF m
  <2> QED
    BY <2>1, UptoAll
<1>6. Part(b, m - 2) = b
  <2>1. m - 2 <= Len(b) => m - 2 = Len(b)
    BY <1>1, <1>2
  <2>2. Upto(b, Len(b)) = b
    BY <1>1, UptoAll
  <2> HIDE DEF m, b
  <2> QED
    BY <2>1, <2>2 DEF Part
<1>7. Upto(q, Len(q)) = q
  BY UptoAll
<1> HIDE DEF m
<1>8. Extensions[p \o Upto(v \o q, m)] =
          <<[type |-> e.type, body |-> Part(b, m - 2)]>>
             \o Extensions[IF m >= 2 + Len(b) THEN Upto(q, m - (2 + Len(b))) ELSE <<>>]
  BY <1>2, ExtCut
<1> HIDE DEF b, p, v
<1>9. Extensions[p \o (v \o q)] = <<[type |-> e.type, body |-> b]>> \o Extensions[q]
  BY <1>2, <1>5, <1>6, <1>7, <1>8
<1>10. ext(e) \o q = p \o (v \o q)
  <2>0. p \in Seq(Byte) /\ v \in Seq(Byte) /\ q \in Seq(Byte)
    BY <1>3, <1>4
  <2>1. (p \o v) \o q = p \o (v \o q)
    BY ONLY <2>0, AssocBytes, Zenon
  <2> QED
    BY <2>1 DEF ext, p, v, b
<1> QED
  BY <1>9, <1>10 DEF Plain, b

LEMMA ExtsMore ==
    ASSUME NEW S, Fitting(S)
    PROVE  /\ Exts(<<>>) = <<>>
           /\ \A v \in Seq(S), e \in S :
                 Exts(v) \in Seq(Byte) /\ Exts(Append(v, e)) = Exts(v) \o ext(e)
<1> DEFINE g == [n \in S |-> ext(n)]
<1>1. g \in [S -> Seq(Byte)]
  <2>1. \A n \in S : ext(n) \in Seq(Byte)
    BY ExtIs
  <2> QED
    BY <2>1
<1>2. ASSUME NEW v \in Seq(S)
      PROVE  Exts(v) = EncodingOf(g, v)
  <2>1. DOMAIN v = 1 .. Len(v) /\ \A i \in 1 .. Len(v) : v[i] \in S
    BY LenProperties, ElementOfSeq
  <2>2. [i \in DOMAIN v |-> ext(v[i])] = [i \in DOMAIN v |-> g[v[i]]]
    BY <2>1
  <2> QED
    BY <2>2 DEF Exts, EncodingOf
<1>3. <<>> \in Seq(S)
  OBVIOUS
<1>4. Exts(<<>>) = <<>>
  <2>1. Exts(<<>>) = EncodingOf(g, <<>>)
    BY <1>2, <1>3
  <2> HIDE DEF g
  <2>2. EncodingOf(g, <<>>) = <<>>
    BY <1>1, <1>3, EncodingIs
  <2> QED
    BY <2>1, <2>2
<1>5. ASSUME NEW v \in Seq(S), NEW e \in S
      PROVE  Exts(v) \in Seq(Byte) /\ Exts(Append(v, e)) = Exts(v) \o ext(e)
  <2>1. Append(v, e) \in Seq(S)
    BY AppendProperties
  <2>2. Exts(Append(v, e)) = EncodingOf(g, Append(v, e)) /\ Exts(v) = EncodingOf(g, v)
    BY <1>2, <2>1
  <2>3. g[e] = ext(e)
    OBVIOUS
  <2> HIDE DEF g
  <2>4. EncodingOf(g, v) \in Seq(Byte) /\ EncodingOf(g, Append(v, e)) = EncodingOf(g, v) \o g[e]
    BY <1>1, EncodingIs
  <2> QED
    BY <2>2, <2>3, <2>4
<1> QED
  BY <1>4, <1>5

LEMMA ExtsIs ==
    ASSUME NEW S, Fitting(S), NEW es \in Seq(S)
    PROVE  Exts(es) \in Seq(Byte) /\ Len(Exts(es)) \in Nat
<1>1. CASE es = <<>>
  <2>1. Exts(<<>>) = <<>>
    BY ExtsMore
  <2>2. <<>> \in Seq(Byte) /\ Len(<<>>) \in Nat
    OBVIOUS
  <2>3. Exts(es) = <<>>
    BY <1>1, <2>1
  <2> QED
    BY ONLY <2>2, <2>3
<1>2. CASE es # <<>>
  <2>1. PICK s \in Seq(S), e \in S : es = Append(s, e)
    BY <1>2, SequenceEmptyOrAppend
  <2>2. Exts(es) \in Seq(Byte)
    BY <2>1, ExtsMore
  <2> QED
    BY <2>2, LenProperties
<1> QED
  BY <1>1, <1>2

LEMMA PlainsMore ==
    ASSUME NEW S, Fitting(S), NEW v \in Seq(S), NEW e \in S
    PROVE  /\ Plains(v) \in Seq(Extension) /\ Plain(e) \in Extension
           /\ Plains(Append(v, e)) = Append(Plains(v), Plain(e))
           /\ Plains(<<>>) = <<>>
<1> DEFINE g == [n \in S |-> Plain(n)]
           w == Append(v, e)
<1>1. g \in [S -> Extension]
  <2>1. \A n \in S : Plain(n) \in Extension
    BY ExtIs
  <2> QED
    BY <2>1
<1>2. ASSUME NEW x \in Seq(S)
      PROVE  Plains(x) = [i \in DOMAIN x |-> g[x[i]]]
  <2>1. DOMAIN x = 1 .. Len(x) /\ \A i \in 1 .. Len(x) : x[i] \in S
    BY LenProperties, ElementOfSeq
  <2> QED
    BY <2>1 DEF Plains
<1>3. w \in Seq(S)
  BY AppendProperties
<1>4. Plains(v) = [i \in DOMAIN v |-> g[v[i]]] /\ Plains(w) = [i \in DOMAIN w |-> g[w[i]]]
  BY <1>2, <1>3
<1>5. g[e] = Plain(e) /\ g[e] \in Extension
  BY <1>1
<1>6. Plains(<<>>) = <<>>
  BY DEF Plains
<1> HIDE DEF g
<1>7. /\ [i \in DOMAIN v |-> g[v[i]]] \in Seq(Extension)
      /\ [i \in DOMAIN w |-> g[w[i]]] = Append([i \in DOMAIN v |-> g[v[i]]], g[e])
  BY <1>1, MapAppend
<1> QED
  BY <1>4, <1>5, <1>6, <1>7

\* What is left of a list of extensions when the encoding is cut: the first of
\* them, each with a prefix of its body.
Survivors(xs, es) ==
    /\ xs \in Seq(Extension) /\ Len(xs) <= Len(es)
    /\ \A i \in 1 .. Len(xs) :
          /\ xs[i].type = es[i].type
          /\ \E k \in 0 .. Len(ExtBody(es[i])) : xs[i].body = Upto(ExtBody(es[i]), k)

LEMMA PlainSurvivors ==
    ASSUME NEW S, Fitting(S), NEW es \in Seq(S)
    PROVE  Survivors(Plains(es), es) /\ Len(Plains(es)) = Len(es)
<1> DEFINE xs == Plains(es)
           n == Len(es)
<1>1. n \in Nat /\ DOMAIN es = 1 .. n /\ \A i \in 1 .. n : es[i] \in S
  BY LenProperties, ElementOfSeq
<1>2. \A i \in 1 .. n : Plain(es[i]) \in Extension
  BY <1>1, ExtIs
<1>3. xs = [i \in 1 .. n |-> Plain(es[i])]
  BY <1>1 DEF Plains
<1>4. xs \in Seq(Extension) /\ Len(xs) = n
  BY <1>1, <1>2, <1>3
<1>5. ASSUME NEW i \in 1 .. n
      PROVE  /\ xs[i].type = es[i].type
             /\ \E k \in 0 .. Len(ExtBody(es[i])) : xs[i].body = Upto(ExtBody(es[i]), k)
  <2> DEFINE b == ExtBody(es[i])
  <2>1. xs[i].type = es[i].type /\ xs[i].body = b
    BY <1>3 DEF Plain
  <2>2. b \in Seq(Byte) /\ Len(b) \in Nat
    BY <1>1, LenProperties DEF Fitting
  <2> HIDE DEF b, xs
  <2>3. Len(b) \in 0 .. Len(b) /\ Upto(b, Len(b)) = b
    BY <2>2, UptoAll
  <2> QED
    BY <2>1, <2>3 DEF b
<1> HIDE DEF xs, n
<1>6. Survivors(xs, es)
  BY <1>1, <1>4, <1>5 DEF Survivors, n
<1> QED
  BY <1>4, <1>6 DEF xs, n

\* Survivors of the beginning of a list, and of the list with one more.
LEMMA SurvivorsMore ==
    ASSUME NEW S, Fitting(S), NEW es \in Seq(S), NEW e \in S, NEW xs, Survivors(xs, es)
    PROVE  Survivors(xs, Append(es, e))
<1> DEFINE w == Append(es, e)
<1>1. Len(es) \in Nat /\ Len(w) = Len(es) + 1 /\ \A i \in 1 .. Len(es) : w[i] = es[i]
  BY AppendProperties, LenProperties
<1>2. xs \in Seq(Extension) /\ Len(xs) \in Nat /\ Len(xs) <= Len(es)
  BY LenProperties DEF Survivors
<1> HIDE DEF w
<1>3. \A i \in 1 .. Len(xs) : i \in 1 .. Len(es) /\ w[i] = es[i]
  BY <1>1, <1>2
<1>4. Len(xs) <= Len(w)
  BY <1>1, <1>2
<1>5. Survivors(xs, w)
  BY <1>2, <1>3, <1>4 DEF Survivors
<1> QED
  BY <1>5 DEF w

LEMMA SurvivorsLast ==
    ASSUME NEW S, Fitting(S), NEW es \in Seq(S), NEW e \in S,
           NEW k \in 0 .. Len(ExtBody(e))
    PROVE  Survivors(Append(Plains(es), [type |-> e.type, body |-> Upto(ExtBody(e), k)]),
                     Append(es, e))
<1> DEFINE w == Append(es, e)
           xs == Plains(es)
           x == [type |-> e.type, body |-> Upto(ExtBody(e), k)]
           ys == Append(xs, x)
           n == Len(es)
<1>1. /\ n \in Nat /\ Len(w) = n + 1 /\ w[n + 1] = e
      /\ \A i \in 1 .. n : w[i] = es[i]
  BY AppendProperties, LenProperties
<1>2. Survivors(xs, es) /\ Len(xs) = n /\ xs \in Seq(Extension)
  BY PlainSurvivors DEF Survivors
<1>3. x \in Extension /\ x.type = e.type /\ x.body = Upto(ExtBody(e), k)
  <2>1. Upto(ExtBody(e), k) \in Seq(Byte) /\ e.type \in Word
    BY UptoIs DEF Fitting
  <2> QED
    BY <2>1 DEF Extension
<1> HIDE DEF w, xs, x
<1>4. /\ ys \in Seq(Extension) /\ Len(ys) = n + 1 /\ ys[n + 1] = x
      /\ \A i \in 1 .. n : ys[i] = xs[i]
  BY <1>2, <1>3, AppendProperties
<1> HIDE DEF ys
<1>5. ASSUME NEW i \in 1 .. n + 1
      PROVE  /\ ys[i].type = w[i].type
             /\ \E j \in 0 .. Len(ExtBody(w[i])) : ys[i].body = Upto(ExtBody(w[i]), j)
  <2>1. CASE i = n + 1
    BY <1>1, <1>3, <1>4, <2>1
  <2>2. CASE i # n + 1
    <3>1. i \in 1 .. n
      BY <1>1, <2>2
    <3> QED
      BY <1>1, <1>2, <1>4, <3>1 DEF Survivors
  <2> QED
    BY <2>1, <2>2
<1> HIDE DEF n
<1>6. Survivors(ys, w)
  BY <1>1, <1>4, <1>5 DEF Survivors
<1> QED
  BY <1>6 DEF w, xs, x, ys

LEMMA ExtsAll ==
    ASSUME NEW S, Fitting(S), NEW v \in Seq(S), NEW q \in Seq(Byte)
    PROVE  Extensions[Exts(v) \o q] = Plains(v) \o Extensions[q]
<1> DEFINE P == {x \in Seq(S) :
                    \A r \in Seq(Byte) : Extensions[Exts(x) \o r] = Plains(x) \o Extensions[r]}
<1>0. \A r \in Seq(Byte) : Extensions[r] \in Seq(Extension)
  BY ExtensionsIs
<1>1. <<>> \in P
  <2>1. ASSUME NEW r \in Seq(Byte)
        PROVE  Extensions[Exts(<<>>) \o r] = Plains(<<>>) \o Extensions[r]
    <3>1. Exts(<<>>) = <<>> /\ <<>> \o r = r /\ Plains(<<>>) = <<>>
      BY ExtsMore, ConcatEmptySeq DEF Plains
    <3>2. <<>> \o Extensions[r] = Extensions[r]
      BY <1>0, ConcatEmptySeq
    <3> QED
      BY <3>1, <3>2
  <2>2. <<>> \in Seq(S)
    OBVIOUS
  <2> QED
    BY <2>1, <2>2
<1>2. ASSUME NEW x \in Seq(S), NEW e \in S, x \in P
      PROVE  Append(x, e) \in P
  <2>1. Append(x, e) \in Seq(S)
    BY AppendProperties
  <2>2. ASSUME NEW r \in Seq(Byte)
        PROVE  Extensions[Exts(Append(x, e)) \o r] = Plains(Append(x, e)) \o Extensions[r]
    <3>1. /\ Exts(x) \in Seq(Byte) /\ ext(e) \in Seq(Byte)
          /\ Exts(Append(x, e)) = Exts(x) \o ext(e)
      BY ExtsMore, ExtIs
    <3>2. ext(e) \o r \in Seq(Byte)
      BY <3>1, ConcatProperties
    <3>3. Exts(Append(x, e)) \o r = Exts(x) \o (ext(e) \o r)
      <4>1. Exts(x) \in Seq(Byte) /\ ext(e) \in Seq(Byte) /\ r \in Seq(Byte)
        BY <3>1
      <4>2. (Exts(x) \o ext(e)) \o r = Exts(x) \o (ext(e) \o r)
        BY ONLY <4>1, AssocBytes, Zenon
      <4> QED
        BY ONLY <3>1, <4>2
    <3>4. Extensions[Exts(x) \o (ext(e) \o r)] = Plains(x) \o Extensions[ext(e) \o r]
      BY <1>2, <3>2
    <3>5. Extensions[ext(e) \o r] = <<Plain(e)>> \o Extensions[r]
      BY ExtOne
    <3>6. Plains(x) \o (<<Plain(e)>> \o Extensions[r]) = Plains(Append(x, e)) \o Extensions[r]
      <4> DEFINE p == Extensions[r]
                 a == Plains(x)
                 c == Plain(e)
      <4>1. p \in Seq(Extension) /\ a \in Seq(Extension) /\ c \in Extension
        BY <1>0, PlainsMore
      <4>2. Plains(Append(x, e)) = Append(a, c)
        BY PlainsMore
      <4> HIDE DEF p, a, c
      <4>3. a \o (<<c>> \o p) = Append(a, c) \o p
        BY <4>1, Shift
      <4> QED
        BY <4>2, <4>3 DEF p, a, c
    <3> QED
      BY <3>3, <3>4, <3>5, <3>6
  <2> QED
    BY <2>1, <2>2
<1>3. Seq(S) \subseteq P
  <2> HIDE DEF P
  <2> QED
    BY <1>1, <1>2, BySteps
<1> QED
  BY <1>3

LEMMA ExtensionsNone == Extensions[<<>>] = <<>>
<1>1. <<>> \in Seq(Byte) /\ Len(<<>>) < 4
  OBVIOUS
<1> QED
  BY <1>1, ExtensionsIs

LEMMA ExtsWhole ==
    ASSUME NEW S, Fitting(S), NEW es \in Seq(S)
    PROVE  Extensions[Exts(es)] = Plains(es)
<1>1. Exts(es) \in Seq(Byte) /\ <<>> \in Seq(Byte)
  BY ExtsIs
<1>2. Exts(es) \o <<>> = Exts(es)
  BY <1>1, ConcatEmptySeq
<1>3. Extensions[Exts(es) \o <<>>] = Plains(es) \o Extensions[<<>>]
  BY <1>1, ExtsAll
<1>4. Plains(es) \o <<>> = Plains(es)
  BY PlainSurvivors, ConcatEmptySeq DEF Survivors
<1> QED
  BY <1>2, <1>3, <1>4, ExtensionsNone

LEMMA ExtsCutMore ==
    ASSUME NEW S, Fitting(S), NEW v \in Seq(S), NEW e \in S,
           NEW n \in 0 .. Len(Exts(Append(v, e))),
           n <= Len(Exts(v)) => Survivors(Extensions[Upto(Exts(v), n)], v)
    PROVE  Survivors(Extensions[Upto(Exts(Append(v, e)), n)], Append(v, e))
<1> DEFINE w == Append(v, e)
           a == Exts(v)
           b == ext(e)
           c == ExtBody(e)
<1>1. /\ a \in Seq(Byte) /\ b \in Seq(Byte) /\ Exts(w) = a \o b
      /\ Len(b) = 4 + Len(c) /\ Len(c) \in Nat /\ Len(a) \in Nat
  BY ExtsMore, ExtIs, ExtsIs
<1>01. c \in Seq(Byte) /\ Len(c) \in Word /\ e.type \in Word
  BY DEF Fitting
<1> HIDE DEF a, b, c, w
<1>2. Len(a \o b) = Len(a) + Len(b) /\ a \o b \in Seq(Byte)
  BY <1>1, ConcatProperties
<1>3. n \in 0 .. Len(a) + Len(b) /\ n \in Nat
  BY <1>1, <1>2 DEF w
<1>4. CASE n <= Len(a)
  <2>1. Upto(a \o b, n) = Upto(a, n)
    BY <1>1, <1>3, <1>4, UptoCat
  <2>2. Survivors(Extensions[Upto(a, n)], v)
    BY <1>4 DEF a
  <2>3. Survivors(Extensions[Upto(a, n)], w)
    BY <2>2, SurvivorsMore DEF w
  <2> QED
    BY <1>1, <2>1, <2>3 DEF w
<1>5. CASE n > Len(a)
  <2> DEFINE j == n - Len(a)
             q == Upto(b, j)
  <2>1. j \in 0 .. Len(b) /\ j \in Nat /\ n >= Len(a) /\ j <= 4 + Len(c)
    BY <1>1, <1>3, <1>5
  <2>2. Upto(a \o b, n) = a \o q
    BY <1>1, <1>3, <2>1, UptoCat
  <2>3. q \in Seq(Byte) /\ Len(q) = j
    BY <1>1, <2>1, UptoIs
  <2>4. Extensions[a \o q] = Plains(v) \o Extensions[q]
    BY <2>3, ExtsAll DEF a
  <2> HIDE DEF j
  <2>5. CASE j < 4
    <3>1. Extensions[q] = <<>>
      BY <2>3, <2>5, ExtensionsIs
    <3>2. Plains(v) \o <<>> = Plains(v)
      BY PlainSurvivors, ConcatEmptySeq DEF Survivors
    <3>3. Survivors(Plains(v), w)
      BY PlainSurvivors, SurvivorsMore DEF w
    <3> QED
      BY <1>1, <2>2, <2>4, <3>1, <3>2, <3>3 DEF w
  <2>6. CASE j >= 4
    <3> DEFINE p == Be16(e.type)
               u == Vec16(c)
               m == j - 2
               x == [type |-> e.type, body |-> Part(c, m - 2)]
               k == IF m - 2 <= Len(c) THEN m - 2 ELSE Len(c)
    <3>1. m \in 2 .. 2 + Len(c) + Len(<<>>) /\ m \in Nat /\ m <= 2 + Len(c)
      BY <1>1, <2>1, <2>6
    <3>2. p \in Seq(Byte) /\ Len(p) = 2 /\ <<>> \in Seq(Byte)
      <4>1. p \in Seq(Byte) /\ Len(p) = 2
        BY <1>01, Be16Is
      <4> HIDE DEF p
      <4> QED
        BY <4>1
    <3>3. u \in Seq(Byte) /\ Len(u) = 2 + Len(c) /\ u \o <<>> = u /\ b = p \o u
      <4>1. 0 \in 0 .. 2 + Len(c) + Len(<<>>)
        BY <1>1
      <4>2. u \in Seq(Byte) /\ Len(u) = 2 + Len(c)
        BY <1>01, <3>2, <4>1, Vec16Cut
      <4>3. u \o <<>> = u
        BY <4>2, ConcatEmptySeq
      <4> QED
        BY <4>2, <4>3 DEF b, ext, c
    <3> HIDE DEF p, u
    <3>4. q = p \o Upto(u, m)
      <4>1. j \in 0 .. Len(p) + Len(u) /\ j >= Len(p) /\ j - Len(p) = m
        BY <1>1, <2>1, <2>6, <3>2, <3>3
      <4> HIDE DEF m
      <4> QED
        BY <3>2, <3>3, <4>1, UptoCat
    <3>5. Extensions[q] = <<x>> \o Extensions[<<>>]
      <4> DEFINE z == IF m >= 2 + Len(c) THEN Upto(<<>>, m - (2 + Len(c))) ELSE <<>>
      <4>1. Extensions[p \o Upto(u \o <<>>, m)] = <<x>> \o Extensions[z]
        <5> HIDE DEF m
        <5> QED
          BY <3>1, <3>2, ExtCut DEF p, u, c
      <4>2. z = <<>>
        <5>1. m >= 2 + Len(c) => m - (2 + Len(c)) = 0
          BY <1>1, <3>1
        <5>2. Upto(<<>>, 0) = <<>>
          BY DEF Upto
        <5> QED
          BY <5>1, <5>2
      <4> HIDE DEF z
      <4> QED
        BY <3>3, <3>4, <4>1, <4>2
    <3>6. k \in 0 .. Len(c) /\ x = [type |-> e.type, body |-> Upto(c, k)]
      BY <1>1, <3>1 DEF Part
    <3>7. x \in Extension
      <4>1. Upto(c, k) \in Seq(Byte)
        BY <1>01, <3>6, UptoIs
      <4> QED
        BY <1>01, <3>6, <4>1 DEF Extension
    <3> HIDE DEF x, k, m
    <3>8. Extensions[q] = <<x>>
      BY <3>5, <3>7, ExtensionsNone, ConcatEmptySeq
    <3>9. Plains(v) \o <<x>> = Append(Plains(v), x)
      <4>1. Plains(v) \in Seq(Extension)
        BY PlainsMore
      <4> QED
        BY <3>7, <4>1, AppendIsConcat
    <3>10. Survivors(Append(Plains(v), x), w)
      BY <3>6, SurvivorsLast DEF w, c
    <3> QED
      BY <1>1, <2>2, <2>4, <3>8, <3>9, <3>10 DEF w
  <2> QED
    BY <2>1, <2>5, <2>6
<1> QED
  BY <1>1, <1>3, <1>4, <1>5

LEMMA ExtsCut ==
    ASSUME NEW S, Fitting(S), NEW es \in Seq(S), NEW n \in 0 .. Len(Exts(es))
    PROVE  Survivors(Extensions[Upto(Exts(es), n)], es)
<1> DEFINE P == {x \in Seq(S) :
                    \A m \in 0 .. Len(Exts(x)) : Survivors(Extensions[Upto(Exts(x), m)], x)}
<1>1. <<>> \in P
  <2>1. Exts(<<>>) = <<>> /\ <<>> \in Seq(S) /\ 0 .. 0 = {0} /\ Len(<<>>) = 0
    BY ExtsMore
  <2>2. Upto(<<>>, 0) = <<>>
    BY DEF Upto
  <2>3. Survivors(<<>>, <<>>)
    BY DEF Survivors
  <2> QED
    BY <2>1, <2>2, <2>3, ExtensionsNone
<1>2. ASSUME NEW x \in Seq(S), NEW e \in S, x \in P
      PROVE  Append(x, e) \in P
  <2>1. Append(x, e) \in Seq(S)
    BY AppendProperties
  <2>2. ASSUME NEW m \in 0 .. Len(Exts(Append(x, e)))
        PROVE  Survivors(Extensions[Upto(Exts(Append(x, e)), m)], Append(x, e))
    <3>1. Len(Exts(x)) \in Nat
      BY ExtsIs
    <3>2. m \in Int /\ 0 <= m
      OBVIOUS
    <3>3. m <= Len(Exts(x)) => m \in 0 .. Len(Exts(x))
      BY <3>1, <3>2
    <3>4. m <= Len(Exts(x)) => Survivors(Extensions[Upto(Exts(x), m)], x)
      BY <1>2, <3>3
    <3> QED
      BY <3>4, ExtsCutMore
  <2> QED
    BY <2>1, <2>2
<1>3. Seq(S) \subseteq P
  <2> HIDE DEF P
  <2> QED
    BY <1>1, <1>2, BySteps
<1> QED
  BY <1>3
=============================================================================
