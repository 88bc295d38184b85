------------------------------ MODULE MCCapture ------------------------------
(***************************************************************************)
(* Small hellos that between them hold every extension the parser decodes, *)
(* repeated and unknown ones, a session id, and none of them.              *)
(***************************************************************************)
EXTENDS Capture

LOCAL E(t, v) == [type |-> t, value |-> v]

LOCAL Sample(type, session, ciphers, extensions) ==
    [type |-> type, legacy_version |-> 771, session |-> session,
     ciphers |-> ciphers, extensions |-> extensions]

\* The names hold a two-byte UTF-8 character, an embedded zero and a byte that is
\* not UTF-8.
MCHellos ==
    {Sample(1, <<>>, <<2570, 4865>>,
           <<E(0, <<97, 195, 169>>), E(10, <<29, 23>>), E(11, <<0, 1>>),
             E(13, <<1027, 2052>>)>>),
     Sample(1, <<1, 2>>, <<4865>>,
           <<E(6682, <<>>), E(16, << <<104, 50>>, <<0>>, <<195>> >>), E(43, <<2570, 772>>),
             E(5, <<1, 0>>), E(43, <<771>>)>>),
     Sample(1, <<>>, <<47>>,
           <<E(10, <<29, 23>>), E(16, << <<104>> >>), E(10, <<24>>), E(16, << <<50>> >>)>>),
     Sample(1, <<22, 3>>, <<47>>, <<>>),
     Sample(2, <<5>>, <<49199>>, <<E(65281, <<0>>), E(16, << <<104, 50>> >>)>>)}

MCTrailer == <<1, 0, 0, 4>>
=============================================================================
