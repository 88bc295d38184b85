---------------------------- MODULE MCScalarBatch ----------------------------
(***************************************************************************)
(* Batches of up to three rows over captures that parse, that do not, and  *)
(* NULL, for every scalar; the columns of the *_from_parts scalars are     *)
(* extracted from the captures in the signed types of their width, SMALLINT *)
(* and for point formats TINYINT, so that high code points are negative, as *)
(* these cast to the declared INTEGER, and as INTEGERs.                    *)
(***************************************************************************)
EXTENDS ScalarBatch, Fixtures

LOCAL E(t, v) == [type |-> t, value |-> v]

LOCAL Hello(type, ciphers, extensions) ==
    Handshake([type |-> type, legacy_version |-> 771, session |-> <<>>,
               ciphers |-> ciphers, extensions |-> extensions])

MCFull ==
    Hello(1, <<64250, 4865, 49199>>,
          <<E(0, <<97>>), E(10, <<2570, 29>>), E(11, <<0, 255>>), E(13, <<1027>>),
            E(16, << <<104, 50>>, <<104>> >>), E(43, <<2570, 772>>)>>)

MCBare == Hello(1, <<47>>, <<E(65281, <<0>>)>>)

MCServer == Hello(2, <<49199>>, <<E(65281, <<0>>), E(2570, <<>>)>>)

\* A ClientHello cut inside its cipher list.
MCCut == SubSeq(MCBare, 1, 42)

Cells == {<<>>, <<MCFull>>, <<MCBare>>, <<wrap_record(MCServer)>>, <<MCCut>>}

Captures == UNION {[1 .. n -> Cells] : n \in 1 .. 3}

BytesFns == {"is_tls_handshake", "ja3", "ja3_string", "ja3s", "ja4", "ja4_raw",
             "parse_client_hello"}

BytesCalls ==
    {[fn |-> fn, columns |-> <<[type |-> "Binary", cells |-> c]>>, captures |-> c] :
        fn \in BytesFns, c \in Captures}

\* Extraction by the caller: a code point, a list of them.
Widths == {"own", "own, cast", "INTEGER"}

Extract(w, codes, v) == IF w = "INTEGER" \/ v < codes \div 2 THEN v ELSE v - codes

Part(fn, k, w, field) ==
    LET kind == Operands(fn)[k]
    IN CASE kind = "u16" -> Extract(w, CodePoints(fn, k), field)
         [] kind = "list" -> [i \in DOMAIN field |-> <<Extract(w, CodePoints(fn, k), field[i])>>]
         [] kind = "text" -> field

\* The columns of the two casts are bound with the declared types.
TypeOf(fn, w, k) ==
    LET declared == register[fn].args[k]
    IN CASE w = "own" /\ declared = "Int32" -> "Int16"
         [] w = "own" /\ declared = list_int_type ->
               IF CodePoints(fn, k) = 256 THEN "List(Int8)" ELSE "List(Int16)"
         [] OTHER -> declared

Parsed(fn, capture) == IF capture = <<>> THEN <<>> ELSE ParsedFor(fn, capture[1])

\* A capture that does not parse leaves a NULL in one operand, the last.
PartCell(fn, w, capture, k) ==
    LET h == Parsed(fn, capture)
    IN IF h # <<>> THEN <<Part(fn, k, w, Fields(fn, h[1])[k])>>
       ELSE IF k = Len(Operands(fn)) THEN <<>>
       ELSE IF Operands(fn)[k] = "u16" THEN <<0>> ELSE <<<<>>>>

PartsCalls ==
    {[fn |-> fn,
      columns |-> [k \in DOMAIN Operands(fn) |->
                      [type |-> TypeOf(fn, w, k),
                       cells |-> [i \in DOMAIN c |-> PartCell(fn, w, c[i], k)]]],
      captures |-> c] :
        fn \in {"ja3_from_parts", "ja3s_from_parts", "ja4_from_parts"},
        w \in Widths, c \in Captures}

\* An operand column of another type, with and without data, in a batch of two
\* rows whose capture is NULL.
WithColumn(c, k, type, cells) ==
    [c EXCEPT !.columns[k] = [type |-> type, cells |-> cells]]

OtherValue == [Int32 |-> 0, Binary |-> <<>>, Utf8 |-> <<>>]
              @@ ("List(Utf8)" :> << <<>>, << <<97>> >> >>)

NullBatches == {c \in BytesCalls \union PartsCalls : c.captures = <<<<>>, <<>>>>}

Retyped(c, k) ==
    UNION {{WithColumn(c, k, type, <<<<>>, cell>>) : cell \in {<<>>, <<OtherValue[type]>>}} :
               type \in DOMAIN OtherValue \ {c.columns[k].type}}

IllTypedCalls == UNION {UNION {Retyped(c, k) : k \in DOMAIN c.columns} : c \in NullBatches}

MCCalls == BytesCalls \union PartsCalls \union IllTypedCalls
=============================================================================
