----------------------------- MODULE Fingerprint -----------------------------
(***************************************************************************)
(* grease.rs, ja3.rs and ja4.rs: from a decoded hello to its fingerprints. *)
(*                                                                         *)
(* A formatted string is the tuple of the values it is formatted from: the *)
(* fields are lists of decimal or 4-digit hex numbers between separators   *)
(* that no number contains, so two strings are equal exactly when their    *)
(* tuples are.  MD5 and truncated SHA-256 are taken as injective, a digest *)
(* being the tagged value it is computed from.                             *)
(***************************************************************************)
EXTENDS Integers, Sequences, SequencesExt

\* grease.rs
is_grease(v) ==
    LET lo == v % 256
        hi == v \div 256
    IN lo = hi /\ lo % 16 = 10

NoGrease(values) == SelectSeq(values, LAMBDA v : ~is_grease(v))

-----------------------------------------------------------------------------
\* ja3.rs
md5(s) == <<"md5", s>>

\* Mutant: GREASE is kept in the groups.
ja3_string_RawCurves(version, ciphers, extensions, curves, point_formats) ==
    <<version, NoGrease(ciphers), NoGrease(extensions), curves, point_formats>>

ja3_string_from_parts(version, ciphers, extensions, curves, point_formats) ==
    <<version, NoGrease(ciphers), NoGrease(extensions), NoGrease(curves),
      point_formats>>

ja3_string(ch) ==
    ja3_string_from_parts(ch.legacy_version, ch.ciphers, ch.extensions,
                          ch.curves, ch.point_formats)

ja3(ch) == md5(ja3_string(ch))

ja3s_string_from_parts(version, cipher, extensions) ==
    <<version, cipher, NoGrease(extensions)>>

ja3s(sh) ==
    md5(ja3s_string_from_parts(sh.legacy_version, sh.cipher, sh.extensions))

-----------------------------------------------------------------------------
\* ja4.rs
SNI_EXT == 0
ALPN_EXT == 16

version_label(v) ==
    CASE v = 772 -> "13" [] v = 771 -> "12" [] v = 770 -> "11"
      [] v = 769 -> "10" [] v = 768 -> "s3" [] v = 2 -> "s2"
      [] v = 65279 -> "d1" [] v = 65277 -> "d2" [] v = 65276 -> "d3"
      [] OTHER -> "00"

\* Mutant: the first version offered, not the highest.
effective_version_First(supported_versions, legacy_version) ==
    LET offered == NoGrease(supported_versions)
    IN IF offered = <<>> THEN legacy_version ELSE Head(offered)

\* The highest version offered that is not GREASE.
effective_version(supported_versions, legacy_version) ==
    LET offered == {v \in ToSet(supported_versions) : ~is_grease(v)}
    IN IF offered = {} THEN legacy_version
       ELSE CHOOSE v \in offered : \A u \in offered : u <= v

Alphanumeric(b) == b \in (48 .. 57) \union (65 .. 90) \union (97 .. 122)

\* The ASCII code of a lowercase hex digit.
HexDigit(n) == IF n < 10 THEN 48 + n ELSE 87 + n

\* The two characters of the ALPN field as ASCII codes; the protocol is a
\* sequence of bytes, empty when there is none.
alpn_label(proto) ==
    IF proto = <<>> THEN <<48, 48>>
    ELSE LET f == Head(proto)
             l == Last(proto)
         IN IF Alphanumeric(f) /\ Alphanumeric(l)
            THEN <<f, l>>
            ELSE <<HexDigit(f \div 16), HexDigit(l % 16)>>

count2(n) == IF n < 99 THEN n ELSE 99

\* Mutant: wire order.
Sorted_WireOrder(values) == NoGrease(values)

Sorted(values) == SortSeq(NoGrease(values), <)

sorted_ciphers(in) == Sorted(in.ciphers)

sorted_exts(in) ==
    SelectSeq(Sorted(in.extensions), LAMBDA e : e \notin {SNI_EXT, ALPN_EXT})

sig_algs(in) == NoGrease(in.sig_algs)

ja4_a(in) ==
    <<version_label(in.effective_version),
      IF in.sni_present THEN "d" ELSE "i",
      count2(Len(NoGrease(in.ciphers))),
      count2(Len(NoGrease(in.extensions))),
      alpn_label(in.alpn_first)>>

sha256_12(s) == <<"sha256", s>>

ZeroHash == <<"zero">>

ja4_b(in) ==
    IF sorted_ciphers(in) = <<>> THEN ZeroHash ELSE sha256_12(sorted_ciphers(in))

\* Mutant: || for &&.
ja4_c_EitherEmpty(in) ==
    IF sorted_exts(in) = <<>> \/ sig_algs(in) = <<>>
    THEN ZeroHash
    ELSE sha256_12(<<sorted_exts(in), sig_algs(in)>>)

ja4_c(in) ==
    IF sorted_exts(in) = <<>> /\ sig_algs(in) = <<>>
    THEN ZeroHash
    ELSE sha256_12(<<sorted_exts(in), sig_algs(in)>>)

Ja4(in) == <<ja4_a(in), ja4_b(in), ja4_c(in)>>

Ja4Raw(in) == <<ja4_a(in), sorted_ciphers(in), sorted_exts(in), sig_algs(in)>>

\* The two ways to the inputs: from a parsed hello, and from fields the caller
\* extracted, where the version is the effective one.
Ja4Inputs(version, ciphers, extensions, sigs, alpn) ==
    [effective_version |-> version, sni_present |-> Contains(extensions, SNI_EXT),
     ciphers |-> ciphers, extensions |-> extensions, sig_algs |-> sigs,
     alpn_first |-> alpn]

inputs_from_client_hello(ch) ==
    Ja4Inputs(effective_version(ch.supported_versions, ch.legacy_version),
              ch.ciphers, ch.extensions, ch.sig_algs,
              IF ch.alpn = <<>> THEN <<>> ELSE Head(ch.alpn))

ja4(ch) == Ja4(inputs_from_client_hello(ch))

ja4_raw(ch) == Ja4Raw(inputs_from_client_hello(ch))

ja4_from_parts(version, ciphers, extensions, sigs, alpn) ==
    Ja4(Ja4Inputs(version, ciphers, extensions, sigs, alpn))
=============================================================================
