---------------------------- MODULE MCConnections ----------------------------
(***************************************************************************)
(* A client and others that differ from it in one respect each.            *)
(***************************************************************************)
EXTENDS Connections

LOCAL E(t, v) == [type |-> t, value |-> v]

LOCAL Hello(version, ciphers, extensions) ==
    [type |-> 1, legacy_version |-> version, session |-> <<>>,
     ciphers |-> ciphers, extensions |-> extensions]

LOCAL Groups == E(10, <<29>>)
LOCAL Sigs == E(13, <<2052, 1027>>)
LOCAL Versions == E(43, <<771, 772>>)

MCClients ==
    {Hello(771, <<4866, 4865>>, <<Sigs, Versions, Groups>>),
     Hello(771, <<4865, 4866>>, <<Sigs, Versions, Groups>>),          \* cipher order
     Hello(771, <<4865>>, <<Sigs, Versions, Groups>>),                \* a cipher less
     Hello(771, <<4866, 4865, 4865>>, <<Sigs, Versions, Groups>>),    \* one twice
     Hello(772, <<4866, 4865>>, <<Sigs, E(43, <<771>>), Groups>>),
     Hello(771, <<4866, 4865>>, <<Sigs, Versions, E(10, <<23>>)>>),
     Hello(771, <<4866, 4865>>, <<E(13, <<1027, 2052>>), Versions, Groups>>),
     Hello(771, <<4866, 4865>>, <<Sigs, E(43, <<771>>), Groups>>),
     Hello(770, <<4866, 4865>>, <<Sigs, Groups>>),
     Hello(771, <<4866, 4865>>, <<E(0, <<97>>), Versions, Sigs>>),
     Hello(771, <<4866, 4865>>, <<E(16, << <<104, 50>> >>), Versions, Sigs>>),
     Hello(771, <<4866, 4865>>, <<E(16, << <<104, 45>> >>), Versions, Sigs>>),
     Hello(771, <<>>, <<E(0, <<97>>)>>),
     Hello(771, <<4866, 4865>>, <<Sigs, E(43, <<>>), Groups>>),       \* no version, or
     Hello(770, <<4866, 4865>>, <<Sigs, E(43, <<>>), Groups>>),       \* GREASE alone
     Hello(771, <<4865>>, <<Groups>>),                                \* no signatures
     Hello(771, <<4865>>, <<E(11, <<0>>)>>)}

\* A protocol name that is not UTF-8.
MCBinaryAlpn == {Hello(771, <<4865>>, <<E(16, << <<170, 170>> >>), Versions>>)}

MCGrease == {2570, 64250}
=============================================================================
