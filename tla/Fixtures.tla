------------------------------ MODULE Fixtures ------------------------------
(***************************************************************************)
(* The wire form of a hello, as the worker's fixtures.rs builds it for the *)
(* tests.  A hello is a record                                             *)
(*   [type, legacy_version, session, ciphers, extensions]                  *)
(* whose extensions are records [type, value]; the value of an extension   *)
(* the parser decodes is the list of numbers or names it is built from,    *)
(* names as bytes; any other value is the raw body.                        *)
(***************************************************************************)
EXTENDS Wire, Utf8

Be16(n) == <<n \div 256, n % 256>>

Be16s(ns) == FlattenSeq([i \in DOMAIN ns |-> Be16(ns[i])])

\* Vectors with a one- and a two-byte length prefix.
Vec8(s) == <<Len(s)>> \o s

Vec16(s) == Be16(Len(s)) \o s

Vec8s(ss) == FlattenSeq([i \in DOMAIN ss |-> Vec8(ss[i])])

ExtBody(e) ==
    CASE e.type = 0 -> Vec16(<<0>> \o Vec16(e.value))
      [] e.type \in {10, 13} -> Vec16(Be16s(e.value))
      [] e.type = 11 -> Vec8(e.value)
      [] e.type = 16 -> Vec16(Vec8s(e.value))
      [] e.type = 43 -> Vec8(Be16s(e.value))
      [] OTHER -> e.value

ext(e) == Be16(e.type) \o Vec16(ExtBody(e))

Exts(es) == FlattenSeq([i \in DOMAIN es |-> ext(es[i])])

Random == [i \in 1 .. 32 |-> 17]

\* A client sends its cipher suites and one null compression method, a server
\* the suite it selected and the null compression method.
HelloBody(h) ==
    LET opening == Be16(h.legacy_version) \o Random \o Vec8(h.session)
        block == Vec16(Exts(h.extensions))
    IN IF h.type = 1
       THEN opening \o Vec16(Be16s(h.ciphers)) \o Vec8(<<0>>) \o block
       ELSE opening \o Be16(h.ciphers[1]) \o <<0>> \o block

Handshake(h) == <<h.type, 0>> \o Vec16(HelloBody(h))

wrap_record(handshake) == <<22, 3, 1>> \o Vec16(handshake)

-----------------------------------------------------------------------------
\* The hellos that can be encoded: the elements of a list have the type of the
\* list, and its length fits in the length field.
Values(etype) ==
    CASE etype \in {10, 13} -> Seq(Word)
      [] etype = 43 -> {v \in Seq(Word) : Len(v) <= 127}
      [] etype = 11 -> {v \in Seq(Byte) : Len(v) <= 255}
      [] etype = 16 -> Seq({n \in Seq(Byte) : Len(n) <= 255})
      [] OTHER -> Seq(Byte)

Encodable(e) ==
    /\ e.type \in Word
    /\ e \in [type : {e.type}, value : Values(e.type)]
    /\ Len(ExtBody(e)) \in Word

WellFormed(h) ==
    /\ h.type \in {1, 2} /\ h.legacy_version \in Word
    /\ h.session \in Seq(Byte) /\ Len(h.session) <= 255
    /\ h.ciphers \in Seq(Word) /\ (h.type = 2 => h.ciphers # <<>>)
    /\ h.extensions \in Seq(ToSet(h.extensions))
    /\ \A e \in ToSet(h.extensions) : Encodable(e)
    /\ Len(Handshake(h)) \in Word

\* The value of an extension as the parser returns it: names are Strings.
AsParsed(e) ==
    CASE e.type = 0 -> FromUtf8Lossy(e.value)
      [] e.type = 16 -> [i \in DOMAIN e.value |-> FromUtf8Lossy(e.value[i])]
      [] OTHER -> e.value

\* What the last extension of a type stands for; nothing when there is none.
LastValue(es, etype) ==
    LET of == {i \in DOMAIN es : es[i].type = etype}
    IN IF of = {} THEN <<>> ELSE AsParsed(es[Max(of)])
=============================================================================
