----------------------------- MODULE Connections -----------------------------
(***************************************************************************)
(* A client handshakes again and again, and each ClientHello is captured,  *)
(* parsed and fingerprinted.  Between two handshakes the client draws new  *)
(* GREASE values, or reorders its extensions as browsers do, or another    *)
(* client takes its place.  What a fingerprint is for is a matter of two   *)
(* handshakes: it must not change in the first case, only JA3 may change   *)
(* in the second, and it must tell the clients apart in the third.         *)
(***************************************************************************)
EXTENDS Fingerprint, HelloReference, Fixtures, FiniteSets, FiniteSetsExt

CONSTANTS Clients,    \* what a client offers: a hello without GREASE
          Grease      \* the GREASE values a client may draw

VARIABLES client,   \* the client, its extensions in the order it now uses
          drawn,    \* its GREASE values
          seen      \* the hello as parse_client_hello decodes it

vars == <<client, drawn, seen>>

\* One cipher, one extension and one group, and one version or none.
Draws ==
    [cipher : Grease, extension : Grease, group : Grease,
     version : {<<>>} \union {<<g>> : g \in Grease}]

\* GREASE is put first in the lists and in the supported groups and versions,
\* and as an extension of its own both first and last.
Greased(e, d) ==
    CASE e.type = 10 -> [e EXCEPT !.value = <<d.group>> \o @]
      [] e.type = 43 -> [e EXCEPT !.value = d.version \o @]
      [] OTHER -> e

Offer(c, d) ==
    [c EXCEPT !.ciphers = <<d.cipher>> \o @,
              !.extensions =
                 <<[type |-> d.extension, value |-> <<>>]>>
                    \o [i \in DOMAIN @ |-> Greased(@[i], d)]
                    \o <<[type |-> d.group, value |-> <<0>>]>>]

\* The capture of the hello is the record on the wire.
Handshakes(c, d) ==
    /\ client' = c /\ drawn' = d
    /\ \E ch \in {ParseClientHello(wrap_record(Handshake(Offer(c, d))))[1]} :
          seen' = ch

Init ==
    /\ client \in Clients /\ drawn \in Draws
    /\ seen = ParseClientHello(wrap_record(Handshake(Offer(client, drawn))))[1]

RenewGrease == \E d \in Draws : Handshakes(client, d)

\* Two neighbouring extensions trade places.
Swapped(s, i) == [s EXCEPT ![i] = s[i + 1], ![i + 1] = s[i]]

Reorder ==
    \E i \in 1 .. Len(client.extensions) - 1 :
        Handshakes([client EXCEPT !.extensions = Swapped(@, i)], drawn)

Replace == \E c \in Clients : Handshakes(c, drawn)

Next == RenewGrease \/ Reorder \/ Replace

Spec == Init /\ [][Next]_vars

-----------------------------------------------------------------------------
Types(c) == [i \in DOMAIN c.extensions |-> c.extensions[i].type]

Value(c, etype) ==
    LET of == SelectSeq(c.extensions, LAMBDA e : e.type = etype)
    IN IF of = <<>> THEN <<>> ELSE Last(of).value

\* How often each value occurs, whatever the order.
Count(s) == [v \in ToSet(s) |-> Cardinality({i \in DOMAIN s : s[i] = v})]

\* What JA3 is about, and what JA4 is about, of what a client offers (of the
\* first ALPN name, its two ends).
Ja3View(c) ==
    <<c.legacy_version, c.ciphers, Types(c), Value(c, 10), Value(c, 11)>>

Ja4View(c) ==
    [version |-> IF Value(c, 43) = <<>> THEN c.legacy_version
                 ELSE Max(ToSet(Value(c, 43))),
     ciphers |-> Count(c.ciphers), extensions |-> Count(Types(c)),
     sig_algs |-> Value(c, 13),
     alpn |-> IF Value(c, 16) = <<>> THEN <<>>
              ELSE <<Head(Value(c, 16)[1]), Last(Value(c, 16)[1])>>]

\* grease.rs: "deliberately random per-connection, so every TLS fingerprint
\* strips them": no fingerprint changes with the GREASE values drawn.
GreaseInvisible ==
    [][client' = client =>
          ja3(seen') = ja3(seen) /\ ja4(seen') = ja4(seen)
             /\ ja4_raw(seen') = ja4_raw(seen)]_vars

\* JA4 sorts what JA3 keeps in order: reordering the extensions leaves the one
\* alone and changes the other.
OrderMatters ==
    [][Reorder /\ Ja3View(client') # Ja3View(client) =>
          ja4(seen') = ja4(seen) /\ ja3(seen') # ja3(seen)]_vars

\* Two hellos have the same JA4 exactly when the clients offer the same
\* (as bags) and the same JA3 exactly when they offer it in the same order.
ClientsToldApart ==
    [][/\ ja3(seen') = ja3(seen) <=> Ja3View(client') = Ja3View(client)
       /\ ja4(seen') = ja4(seen) <=> Ja4View(client') = Ja4View(client)]_vars

\* Hash and raw form agree on which hellos are alike.
RawMatchesHash ==
    [][(ja4(seen') = ja4(seen)) <=> (ja4_raw(seen') = ja4_raw(seen))]_vars

\* ja4.rs:59: "first + last alphanumeric character of the first ALPN value. If
\* either end byte is non-alphanumeric, use the first hex char of the first byte
\* and the last hex char of the last byte".
AlpnFromBytes ==
    Value(client, 16) # <<>> =>
        alpn_label(Head(seen.alpn)) = alpn_label(Value(client, 16)[1])
=============================================================================
