------------------------------- MODULE MCParser -------------------------------
(***************************************************************************)
(* The parser over damaged captures: every capture that differs from a     *)
(* well-formed one in one byte or that stops early, and two-byte damage in *)
(* the extension block, where the lengths nest.                            *)
(***************************************************************************)
EXTENDS ParserRefinement, Fixtures

LOCAL E(t, v) == [type |-> t, value |-> v]

MCClient ==
    [type |-> 1, legacy_version |-> 771, session |-> <<7>>,
     ciphers |-> <<4865, 2570>>,
     extensions |-> <<E(0, <<97, 200>>), E(16, << <<104, 50>> >>), E(43, <<772>>)>>]

\* Every list extension, one of them twice.
MCLists ==
    [type |-> 1, legacy_version |-> 771, session |-> <<>>,
     ciphers |-> <<47>>,
     extensions |-> <<E(10, <<29, 23>>), E(11, <<1, 2>>), E(13, <<1027>>),
                      E(10, <<24>>)>>]

MCServer ==
    [type |-> 2, legacy_version |-> 771, session |-> <<7, 7>>,
     ciphers |-> <<4865>>, extensions |-> <<E(43, <<>>), E(5, <<1>>)>>]

Messages == {Handshake(MCClient), wrap_record(Handshake(MCClient)),
             Handshake(MCLists), Handshake(MCServer)}

\* The bytes a damaged position may take: small lengths, the extension codes
\* and the hello types, and the excessive 255.
DamagedBytes == {0, 1, 2, 3, 4, 10, 16, 255}

Damage(m) == {[m EXCEPT ![i] = b] : i \in DOMAIN m, b \in DamagedBytes}

\* Two bytes of the SNI extension of MCClient (from its type to its name).
SniBytes == 49 .. 58

DoubleDamage(m) ==
    {[m EXCEPT ![i] = b, ![j] = c] :
        i \in SniBytes, j \in SniBytes, b \in {0, 1, 2, 255}, c \in {0, 1, 2, 255}}

Cuts(m) == {SubSeq(m, 1, n) : n \in 0 .. Len(m)}

MCInputs ==
    UNION {Damage(m) \union Cuts(m) : m \in Messages}
        \union DoubleDamage(Handshake(MCClient)) \union {<<22, 3, 1, 0, 0>>}
=============================================================================
