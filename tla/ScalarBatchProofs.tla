-------------------------- MODULE ScalarBatchProofs --------------------------
(***************************************************************************)
(* What a batch returns, for every call of every size: an error only for   *)
(* the type of a column, arrays that StructArray::new takes, and in each   *)
(* row the result of its own capture.                                      *)
(***************************************************************************)
EXTENDS ScalarBatch, WireTheorems

\* The scalars declare what they read and build what they declare.
LEMMA Specs ==
    ASSUME NEW fn \in DOMAIN register
    PROVE  /\ register[fn].process.builds = register[fn].result
           /\ DOMAIN register[fn].process.reads = DOMAIN register[fn].args
           /\ \A k \in DOMAIN register[fn].process.reads :
                 /\ register[fn].process.reads[k] \in {"blob", "u16", "list", "text"}
                 /\ WellTyped(register[fn].process.reads[k], register[fn].args[k])
<1> USE DEF Declares, Processes, WellTyped, Integers, Lists, IntegerLists, list_int_type,
            client_hello_arg, ja4_client_hello_arg, blob_to_string_batch
<1>1. fn \in {"is_tls_handshake", "ja3", "ja3_string", "ja3s", "ja4", "ja4_raw",
              "parse_client_hello", "ja3_from_parts", "ja3s_from_parts", "ja4_from_parts"}
  BY DEF register
<1>2. CASE fn = "is_tls_handshake"
  <2>1. register[fn] = IsTlsHandshakeScalar
    BY <1>2 DEF register
  <2> QED
    BY <2>1 DEF IsTlsHandshakeScalar
<1>3. CASE fn = "ja3"
  <2>1. register[fn] = Ja3
    BY <1>3 DEF register
  <2> QED
    BY <2>1 DEF Ja3
<1>4. CASE fn = "ja3_string"
  <2>1. register[fn] = Ja3String
    BY <1>4 DEF register
  <2> QED
    BY <2>1 DEF Ja3String
<1>5. CASE fn = "ja3s"
  <2>1. register[fn] = Ja3s
    BY <1>5 DEF register
  <2> QED
    BY <2>1 DEF Ja3s
<1>6. CASE fn = "ja4"
  <2>1. register[fn] = Ja4Scalar
    BY <1>6 DEF register
  <2> QED
    BY <2>1 DEF Ja4Scalar
<1>7. CASE fn = "ja4_raw"
  <2>1. register[fn] = Ja4RawScalar
    BY <1>7 DEF register
  <2> QED
    BY <2>1 DEF Ja4RawScalar
<1>8. CASE fn = "parse_client_hello"
  <2>1. register[fn] = ParseClientHelloScalar
    BY <1>8 DEF register
  <2> QED
    BY <2>1 DEF ParseClientHelloScalar
<1>9. CASE fn = "ja3_from_parts"
  <2>1. register[fn] = Ja3FromParts
    BY <1>9 DEF register
  <2> QED
    BY <2>1 DEF Ja3FromParts
<1>10. CASE fn = "ja3s_from_parts"
  <2>1. register[fn] = Ja3sFromParts
    BY <1>10 DEF register
  <2> QED
    BY <2>1 DEF Ja3sFromParts
<1>11. CASE fn = "ja4_from_parts"
  <2>1. register[fn] = Ja4FromParts
    BY <1>11 DEF register
  <2> QED
    BY <2>1 DEF Ja4FromParts
<1> QED
  BY <1>1, <1>2, <1>3, <1>4, <1>5, <1>6, <1>7, <1>8, <1>9, <1>10, <1>11

\* A reader fails only on a column of another type, and passes such a column
\* only where the cell is NULL.
LEMMA ReadsAre ==
    ASSUME NEW kind \in {"blob", "u16", "list", "text"}, NEW col, NEW i
    PROVE  /\ Read(kind, col, i) = TypeError => ~WellTyped(kind, col.type)
           /\ ~WellTyped(kind, col.type) /\ Read(kind, col, i) # TypeError =>
                 col.cells[i] = <<>>
<1> USE DEF Read, TypeError, NullCell, Val, Scalar, WellTyped
<1>1. CASE kind = "blob"
  BY <1>1 DEF blob_bytes
<1>2. CASE kind = "u16"
  BY <1>2 DEF u16_at
<1>3. CASE kind = "list"
  BY <1>3 DEF list_u16_at
<1>4. CASE kind = "text"
  BY <1>4 DEF text_str
<1> QED
  BY <1>1, <1>2, <1>3, <1>4

\* The arrays of the struct are those of its fields.
LEMMA Fit == ArraysFitFields
<1>1. ASSUME NEW k \in 1 .. 6
      PROVE  BuilderType[StructArrays[k]] = client_hello_struct_fields[k][2]
  <2>1. k \in {1, 2, 3, 4, 5, 6}
    OBVIOUS
  <2> QED
    BY <2>1 DEF BuilderType, StructArrays, client_hello_struct_fields, list_int_type,
                list_varchar_type
<1>2. DOMAIN client_hello_struct_fields = 1 .. 6
  BY DEF client_hello_struct_fields
<1> QED
  BY <1>1, <1>2 DEF ArraysFitFields

-----------------------------------------------------------------------------
Column(k) == call.columns[k]

Kinds == Operands(call.fn)

\* What the readers have found in the rows done.
Reading ==
    /\ call \in Calls /\ row \in Nat /\ row <= Rows
    /\ status \in {"running", "ok", "error"}
    /\ status = "ok" => row = Rows
    /\ status # "error" =>
          \A i \in 1 .. row : \A k \in DOMAIN Kinds : ReadRow(i)[k] # TypeError
    /\ status = "error" => \E k \in DOMAIN Kinds : ~WellTyped(Kinds[k], Column(k).type)

LEMMA Shape ==
    ASSUME call \in Calls
    PROVE  /\ call.fn \in DOMAIN register /\ Rows \in Nat
           /\ DOMAIN call.columns = DOMAIN Kinds
           /\ \A k \in DOMAIN Kinds : Kinds[k] \in {"blob", "u16", "list", "text"}
BY CallsAssumption, Specs DEF Rows, Kinds, Operands

LEMMA ReadingInit == Init => Reading
<1> SUFFICES ASSUME Init PROVE Reading
  OBVIOUS
<1> QED
  BY Shape DEF Init, Reading

-----------------------------------------------------------------------------
\* Sequences of whatever elements.
IsSeq(s, n) == \E S : s \in Seq(S) /\ Len(s) = n

LEMMA EmptyIsSeq == IsSeq(<<>>, 0)
<1>1. <<>> \in Seq({}) /\ Len(<<>>) = 0
  OBVIOUS
<1> QED
  BY <1>1 DEF IsSeq

\* t is s, of length n, with e behind it.
Extends(t, s, n, e) ==
    /\ IsSeq(t, n + 1)
    /\ \A i \in 1 .. n : t[i] = s[i]
    /\ t[n + 1] = e

LEMMA Appended ==
    ASSUME NEW s, NEW n \in Nat, IsSeq(s, n), NEW e, NEW t, t = Append(s, e)
    PROVE  Extends(t, s, n, e)
<1>1. PICK S : s \in Seq(S) /\ Len(s) = n
  BY DEF IsSeq
<1>2. s \in Seq(S \union {e}) /\ e \in S \union {e}
  BY <1>1, SeqMonotonic
<1>3. /\ t \in Seq(S \union {e}) /\ Len(t) = n + 1
      /\ \A i \in 1 .. n : t[i] = s[i]
      /\ t[n + 1] = e
  BY <1>1, <1>2, AppendProperties
<1> QED
  BY <1>3 DEF IsSeq, Extends

-----------------------------------------------------------------------------
\* The builders of the struct after n rows.
Columns == {"version", "sni", "valid"} \union ListColumns

AlignedAt(b, n) ==
    /\ DOMAIN b = Columns
    /\ IsSeq(b.version, n) /\ IsSeq(b.sni, n) /\ IsSeq(b.valid, n)
    /\ \A i \in 1 .. n : b.valid[i] = (b.version[i] # <<>>)
    /\ \A c \in ListColumns :
          /\ DOMAIN b[c] = {"values", "ends", "valid"}
          /\ IsSeq(b[c].ends, n) /\ b[c].valid = b.valid

LEMMA AlignedEmpty == AlignedAt(Builders("parse_client_hello"), 0)
<1> DEFINE b == Builders("parse_client_hello")
<1>1. b = [version |-> <<>>, sni |-> <<>>, valid |-> <<>>,
           ciphers |-> ListBuilder, extensions |-> ListBuilder,
           curves |-> ListBuilder, alpn |-> ListBuilder]
  BY DEF Builders
<1> HIDE DEF b
<1>2. /\ DOMAIN b = Columns /\ b.version = <<>> /\ b.sni = <<>> /\ b.valid = <<>>
      /\ \A c \in ListColumns : b[c] = ListBuilder
  BY <1>1 DEF Columns, ListColumns
<1>3. /\ DOMAIN ListBuilder = {"values", "ends", "valid"}
      /\ ListBuilder.ends = <<>> /\ ListBuilder.valid = <<>>
  BY DEF ListBuilder
<1> QED
  BY <1>2, <1>3, EmptyIsSeq DEF AlignedAt, b

LEMMA AlignedNull ==
    ASSUME NEW b, NEW n \in Nat, AlignedAt(b, n)
    PROVE  AlignedAt(AppendNullStruct(b), n + 1)
<1> DEFINE g == AppendNullStruct(b)
<1>1. /\ DOMAIN g = Columns
      /\ g.version = Append(b.version, <<>>) /\ g.sni = Append(b.sni, <<>>)
      /\ g.valid = Append(b.valid, FALSE)
      /\ \A c \in ListColumns : g[c] = AppendNullList(b[c])
  BY DEF AlignedAt, AppendNullStruct, Columns, ListColumns
<1> HIDE DEF g
<1>2. \A c \in ListColumns :
         /\ DOMAIN g[c] = {"values", "ends", "valid"}
         /\ g[c].ends = Append(b[c].ends, Len(b[c].values))
         /\ g[c].valid = Append(b[c].valid, FALSE)
  BY <1>1 DEF AlignedAt, AppendNullList
<1>3. /\ IsSeq(g.version, n + 1) /\ IsSeq(g.sni, n + 1) /\ IsSeq(g.valid, n + 1)
      /\ \A i \in 1 .. n : g.version[i] = b.version[i] /\ g.valid[i] = b.valid[i]
      /\ g.version[n + 1] = <<>> /\ g.valid[n + 1] = FALSE
  <2>1. IsSeq(b.version, n) /\ IsSeq(b.sni, n) /\ IsSeq(b.valid, n)
    BY DEF AlignedAt
  <2>2. /\ Extends(g.version, b.version, n, <<>>)
        /\ Extends(g.sni, b.sni, n, <<>>)
        /\ Extends(g.valid, b.valid, n, FALSE)
    BY <1>1, <2>1, Appended, Zenon
  <2> QED
    BY <2>2 DEF Extends
<1>4. ASSUME NEW i \in 1 .. n + 1
      PROVE  g.valid[i] = (g.version[i] # <<>>)
  <2>1. i \in 1 .. n \/ i = n + 1
    OBVIOUS
  <2>2. CASE i \in 1 .. n
    BY <1>3, <2>2 DEF AlignedAt
  <2>3. CASE i = n + 1
    BY <1>3, <2>3
  <2> QED
    BY <2>1, <2>2, <2>3
<1>5. \A c \in ListColumns :
         /\ DOMAIN g[c] = {"values", "ends", "valid"}
         /\ IsSeq(g[c].ends, n + 1) /\ g[c].valid = g.valid
  <2> SUFFICES ASSUME NEW c \in ListColumns
               PROVE  /\ DOMAIN g[c] = {"values", "ends", "valid"}
                      /\ IsSeq(g[c].ends, n + 1) /\ g[c].valid = g.valid
    OBVIOUS
  <2>1. IsSeq(b[c].ends, n) /\ b[c].valid = b.valid
    BY DEF AlignedAt
  <2>2. Extends(g[c].ends, b[c].ends, n, Len(b[c].values))
    BY <1>2, <2>1, Appended, Zenon
  <2> QED
    BY <1>1, <1>2, <2>1, <2>2 DEF Extends
<1> QED
  BY <1>1, <1>3, <1>4, <1>5 DEF AlignedAt, g

LEMMA ListAppended ==
    ASSUME NEW b, NEW elements
    PROVE  /\ DOMAIN AppendList(b, elements) = {"values", "ends", "valid"}
           /\ AppendList(b, elements).values = b.values \o elements
           /\ AppendList(b, elements).ends = Append(b.ends, Len(b.values) + Len(elements))
           /\ AppendList(b, elements).valid = Append(b.valid, TRUE)
BY DEF AppendList

LEMMA AlignedStruct ==
    ASSUME NEW b, NEW n \in Nat, AlignedAt(b, n), NEW ch
    PROVE  AlignedAt(AppendStruct(b, ch), n + 1)
<1> DEFINE g == AppendStruct(b, ch)
<1>1. /\ DOMAIN g = Columns
      /\ g.version = Append(b.version, <<ch.legacy_version>>) /\ g.sni = Append(b.sni, ch.sni)
      /\ g.valid = Append(b.valid, TRUE)
      /\ \A c \in ListColumns : g[c] = AppendList(b[c], ch[c])
  <2>1. /\ g.ciphers = AppendList(b.ciphers, ch.ciphers)
        /\ g.extensions = AppendList(b.extensions, ch.extensions)
        /\ g.curves = AppendList(b.curves, ch.curves)
        /\ g.alpn = AppendList(b.alpn, ch.alpn)
    BY DEF AppendStruct
  <2>2. /\ g.version = Append(b.version, <<ch.legacy_version>>)
        /\ g.sni = Append(b.sni, ch.sni) /\ g.valid = Append(b.valid, TRUE)
    BY DEF AppendStruct
  <2>3. DOMAIN g = Columns
    BY DEF AppendStruct, Columns, ListColumns
  <2> QED
    BY <2>1, <2>2, <2>3 DEF ListColumns
<1> HIDE DEF g
<1>2. \A c \in ListColumns :
         /\ DOMAIN g[c] = {"values", "ends", "valid"}
         /\ g[c].ends = Append(b[c].ends, Len(b[c].values) + Len(ch[c]))
         /\ g[c].valid = Append(b[c].valid, TRUE)
  <2> SUFFICES ASSUME NEW c \in ListColumns
               PROVE  /\ DOMAIN g[c] = {"values", "ends", "valid"}
                      /\ g[c].ends = Append(b[c].ends, Len(b[c].values) + Len(ch[c]))
                      /\ g[c].valid = Append(b[c].valid, TRUE)
    OBVIOUS
  <2> DEFINE old == b[c]
             new == ch[c]
  <2>1. g[c] = AppendList(old, new)
    BY <1>1
  <2> HIDE DEF old, new
  <2>2. /\ DOMAIN g[c] = {"values", "ends", "valid"}
        /\ g[c].ends = Append(old.ends, Len(old.values) + Len(new))
        /\ g[c].valid = Append(old.valid, TRUE)
    BY <2>1, ListAppended
  <2> QED
    BY <2>2 DEF old, new
<1>3. /\ IsSeq(g.version, n + 1) /\ IsSeq(g.sni, n + 1) /\ IsSeq(g.valid, n + 1)
      /\ \A i \in 1 .. n : g.version[i] = b.version[i] /\ g.valid[i] = b.valid[i]
      /\ g.version[n + 1] = <<ch.legacy_version>> /\ g.valid[n + 1] = TRUE
  <2>1. IsSeq(b.version, n) /\ IsSeq(b.sni, n) /\ IsSeq(b.valid, n)
    BY DEF AlignedAt
  <2>2. /\ Extends(g.version, b.version, n, <<ch.legacy_version>>)
        /\ Extends(g.sni, b.sni, n, ch.sni)
        /\ Extends(g.valid, b.valid, n, TRUE)
    BY <1>1, <2>1, Appended, Zenon
  <2> QED
    BY <2>2 DEF Extends
<1>4. ASSUME NEW i \in 1 .. n + 1
      PROVE  g.valid[i] = (g.version[i] # <<>>)
  <2>1. i \in 1 .. n \/ i = n + 1
    OBVIOUS
  <2>2. CASE i \in 1 .. n
    BY <1>3, <2>2 DEF AlignedAt
  <2>3. CASE i = n + 1
    <3>1. <<ch.legacy_version>> # <<>>
      OBVIOUS
    <3> QED
      BY <1>3, <2>3, <3>1
  <2> QED
    BY <2>1, <2>2, <2>3
<1>5. \A c \in ListColumns :
         /\ DOMAIN g[c] = {"values", "ends", "valid"}
         /\ IsSeq(g[c].ends, n + 1) /\ g[c].valid = g.valid
  <2> SUFFICES ASSUME NEW c \in ListColumns
               PROVE  /\ DOMAIN g[c] = {"values", "ends", "valid"}
                      /\ IsSeq(g[c].ends, n + 1) /\ g[c].valid = g.valid
    OBVIOUS
  <2>1. IsSeq(b[c].ends, n) /\ b[c].valid = b.valid
    BY DEF AlignedAt
  <2>2. Extends(g[c].ends, b[c].ends, n, Len(b[c].values) + Len(ch[c]))
    BY <1>2, <2>1, Appended, Zenon
  <2> QED
    BY <1>1, <1>2, <2>1, <2>2 DEF Extends
<1> QED
  BY <1>1, <1>3, <1>4, <1>5 DEF AlignedAt, g

\* A column of the struct has a cell for each row done.
Done == IF status = "error" THEN 0 ELSE row

Aligned == call.fn = "parse_client_hello" => AlignedAt(built, Done)

LEMMA AlignedInit == Init => Aligned
BY AlignedEmpty DEF Init, Aligned, Done

LEMMA AlignedStep == Reading /\ Aligned /\ [Next]_vars => Aligned'
<1> SUFFICES ASSUME Reading, Aligned, [Next]_vars, call'.fn = "parse_client_hello"
             PROVE  AlignedAt(built', Done')
  BY DEF Aligned
<1>1. CASE ProcessRow
  <2>1. /\ call' = call /\ row' = row + 1 /\ status = "running" /\ status' = "running"
        /\ built' = AppendRow(call.fn, built, RowValue(call.fn, ReadRow(row + 1)))
    BY <1>1 DEF ProcessRow
  <2>2. Done = row /\ Done' = row + 1 /\ row \in Nat
    BY <2>1 DEF Done, Reading
  <2>3. AlignedAt(built, row)
    BY <2>1, <2>2 DEF Aligned
  <2>4. \/ built' = AppendNullStruct(built)
        \/ \E ch : built' = AppendStruct(built, ch)
    BY <2>1 DEF AppendRow
  <2> QED
    BY <2>2, <2>3, <2>4, AlignedNull, AlignedStruct
<1>2. CASE Abort
  BY <1>2, AlignedEmpty DEF Abort, Done
<1>3. CASE Finish
  <2>1. UNCHANGED <<call, row, built>> /\ status = "running" /\ status' # "error"
    BY <1>3, Shape, Specs, Fit DEF Finish, Reading
  <2> QED
    BY <2>1 DEF Aligned, Done
<1>4. CASE UNCHANGED vars
  BY <1>4 DEF vars, Aligned, Done
<1> QED
  BY <1>1, <1>2, <1>3, <1>4 DEF Next, Returned

\* At the end of the batch the arrays of the struct have one entry per row.
LEMMA NoPanic ==
    ASSUME NEW n \in Nat, AlignedAt(built, n)
    PROVE  ~StructPanics
<1>1. DOMAIN built = Columns /\ Len(built.valid) = n
  BY DEF AlignedAt, IsSeq
<1>2. ASSUME NEW c \in ListColumns PROVE Entries(c) = n
  BY <1>2 DEF Entries, AlignedAt, IsSeq
<1>3. ASSUME NEW c \in Columns \ ListColumns PROVE Entries(c) = n
  BY <1>3 DEF Entries, AlignedAt, IsSeq, Columns, ListColumns
<1> QED
  BY <1>1, <1>2, <1>3, Fit DEF StructPanics

LEMMA ReadingStep == Reading /\ Aligned /\ [Next]_vars => Reading'
<1> SUFFICES ASSUME Reading, Aligned, [Next]_vars PROVE Reading'
  OBVIOUS
<1>1. call \in Calls /\ row \in Nat /\ Rows \in Nat /\ row <= Rows
  BY Shape DEF Reading
<1>2. call' = call => Rows' = Rows /\ Kinds' = Kinds
  BY DEF Rows, Kinds
<1>3. CASE ProcessRow
  <2>1. /\ row < Rows /\ row' = row + 1 /\ call' = call /\ status = "running" /\ status' = status
        /\ \A k \in DOMAIN ReadRow(row + 1) : ReadRow(row + 1)[k] # TypeError
    BY <1>3 DEF ProcessRow
  <2>2. DOMAIN ReadRow(row + 1) = DOMAIN Kinds
    BY DEF ReadRow, Kinds
  <2>3. \A i : ReadRow(i)' = ReadRow(i)
    BY <2>1 DEF ReadRow
  <2>4. \A i \in 1 .. row + 1 : \A k \in DOMAIN Kinds : ReadRow(i)[k] # TypeError
    <3> SUFFICES ASSUME NEW i \in 1 .. row + 1
                 PROVE  \A k \in DOMAIN Kinds : ReadRow(i)[k] # TypeError
      OBVIOUS
    <3>1. i \in 1 .. row \/ i = row + 1
      BY <1>1
    <3> QED
      BY <2>1, <2>2, <3>1 DEF Reading
  <2>5. row' \in Nat /\ row' <= Rows
    BY <1>1, <2>1
  <2> QED
    BY <1>1, <1>2, <2>1, <2>3, <2>4, <2>5 DEF Reading
<1>4. CASE Abort
  <2>1. /\ call' = call /\ row' = row /\ status' = "error"
        /\ \E k \in DOMAIN ReadRow(row + 1) : ReadRow(row + 1)[k] = TypeError
    BY <1>4 DEF Abort
  <2>2. PICK k \in DOMAIN Kinds : Read(Kinds[k], Column(k), row + 1) = TypeError
    BY <2>1 DEF ReadRow, Kinds, Column
  <2>3. ~WellTyped(Kinds[k], Column(k).type)
    BY <1>1, <2>2, Shape, ReadsAre
  <2> QED
    BY <1>1, <1>2, <2>1, <2>3 DEF Reading, Column
<1>5. CASE Finish
  <2>1. status = "running" /\ row = Rows /\ UNCHANGED <<call, row, built>> /\ status' = "ok"
    <3>1. status = "running" /\ row = Rows /\ UNCHANGED <<call, row, built>>
      BY <1>5 DEF Finish
    <3>2. call.fn = "parse_client_hello" => ~StructPanics
      BY <1>1, <3>1, NoPanic DEF Aligned, Done
    <3> QED
      BY <1>1, <1>5, <3>1, <3>2, Shape, Specs DEF Finish
  <2>2. \A i : ReadRow(i)' = ReadRow(i)
    BY <2>1 DEF ReadRow
  <2> QED
    BY <1>1, <1>2, <2>1, <2>2 DEF Reading
<1>6. CASE UNCHANGED vars
  <2>1. \A i : ReadRow(i)' = ReadRow(i)
    BY <1>6 DEF ReadRow, vars
  <2> QED
    BY <1>2, <1>6, <2>1 DEF Reading, Column, vars
<1> QED
  BY <1>3, <1>4, <1>5, <1>6 DEF Next, Returned

LEMMA ReadingAlways == Spec => [](Reading /\ Aligned)
BY ReadingInit, ReadingStep, AlignedInit, AlignedStep, PTL DEF Spec

\* A function that gets the columns it asks for returns an error for no data,
\* and one that reports success read no cell of another type, in batches of any
\* size.
THEOREM OnlyTypeErrors == Spec => []ErrorsAreTypeErrors
<1>1. Reading => ErrorsAreTypeErrors
  <2> SUFFICES ASSUME Reading PROVE ErrorsAreTypeErrors
    OBVIOUS
  <2> DEFINE bad == {k \in DOMAIN Kinds : ~WellTyped(Kinds[k], Column(k).type)}
  <2>1. status = "error" => bad # {}
    BY DEF Reading
  <2>2. ASSUME status = "ok", NEW k \in bad, NEW i \in 1 .. Rows
        PROVE  Column(k).cells[i] = <<>>
    <3>1. ReadRow(i)[k] # TypeError
      BY <2>2 DEF Reading
    <3>2. Read(Kinds[k], Column(k), i) # TypeError
      BY <3>1 DEF ReadRow, Kinds, Column
    <3>3. Kinds[k] \in {"blob", "u16", "list", "text"}
      BY Shape DEF Reading
    <3> QED
      BY <3>2, <3>3, ReadsAre
  <2> QED
    BY <2>1, <2>2 DEF ErrorsAreTypeErrors, Kinds, Column
<1> QED
  BY <1>1, ReadingAlways, PTL

\* README.md, for every batch: a call bound with the declared types never fails.
THEOREM BoundCalls == Spec => []BoundCallsSucceed
<1>1. Reading => BoundCallsSucceed
  <2> SUFFICES ASSUME Reading, AsDeclared PROVE status # "error"
    BY DEF Reading, BoundCallsSucceed
  <2>1. ASSUME NEW k \in DOMAIN Kinds
        PROVE  WellTyped(Kinds[k], Column(k).type)
    <3>1. k \in DOMAIN call.columns /\ call.fn \in DOMAIN register
      BY Shape DEF Reading
    <3>2. Column(k).type = register[call.fn].args[k]
      BY <3>1 DEF AsDeclared, Column
    <3> QED
      BY <3>1, <3>2, Specs DEF Kinds, Operands
  <2> QED
    BY <2>1 DEF Reading
<1> QED
  BY <1>1, ReadingAlways, PTL

\* The condition of StructArray::new, at every row of every batch: the child
\* arrays have one entry per row, and their nulls are those of the struct.
THEOREM Alignment == Spec => []RowsAligned
<1>1. Reading /\ Aligned => RowsAligned
  <2> SUFFICES ASSUME Reading, AlignedAt(built, Done), call.fn = "parse_client_hello",
                      NEW c \in DOMAIN built
               PROVE  LET valid == IF c \in ListColumns THEN built[c].valid
                                   ELSE IF c = "valid" THEN built.valid
                                   ELSE [i \in DOMAIN built[c] |-> built[c][i] # <<>>]
                      IN /\ Len(valid) = Done
                         /\ c \in ListColumns => Len(built[c].ends) = Len(valid)
                         /\ c # "sni" => valid = built.valid
    BY DEF Aligned, RowsAligned, Done
  <2>1. Done \in Nat
    BY DEF Done, Reading
  <2>2. c \in Columns
    BY DEF AlignedAt
  <2>3. \A s, n : IsSeq(s, n) => DOMAIN s = 1 .. n /\ Len(s) = n
    BY LenProperties DEF IsSeq
  <2>4. CASE c \in ListColumns
    BY <2>3, <2>4 DEF AlignedAt
  <2>5. CASE c = "valid"
    BY <2>3, <2>5 DEF AlignedAt, ListColumns
  <2>6. CASE c = "version"
    <3>1. [i \in DOMAIN built.version |-> built.version[i] # <<>>]
            = [i \in DOMAIN built.valid |-> built.valid[i]]
      BY <2>3 DEF AlignedAt
    <3>2. built.valid = [i \in DOMAIN built.valid |-> built.valid[i]]
      BY DEF AlignedAt, IsSeq
    <3> QED
      BY <2>3, <2>6, <3>1, <3>2 DEF AlignedAt, ListColumns
  <2>7. CASE c = "sni"
    <3>1. Len([i \in 1 .. Done |-> built.sni[i] # <<>>]) = Done
      BY <2>1
    <3> QED
      BY <2>3, <2>7, <3>1 DEF AlignedAt, ListColumns
  <2> QED
    BY <2>2, <2>4, <2>5, <2>6, <2>7 DEF Columns
<1> QED
  BY <1>1, AlignedInit, AlignedStep, ReadingAlways, PTL DEF Spec

-----------------------------------------------------------------------------
\* List builders: a row is a slice of the child array, which only grows.
Joined(u, s, n, t, k) ==
    /\ IsSeq(u, n + k)
    /\ \A a \in Nat \ {0}, z \in Nat : z <= n => SubSeq(u, a, z) = SubSeq(s, a, z)
    /\ SubSeq(u, n + 1, n + k) = t

LEMMA Concatenated ==
    ASSUME NEW s, NEW n \in Nat, IsSeq(s, n), NEW t, NEW k \in Nat, IsSeq(t, k),
           NEW u, u = s \o t
    PROVE  Joined(u, s, n, t, k)
<1>1. PICK S : s \in Seq(S) /\ Len(s) = n
  BY DEF IsSeq
<1>2. PICK T : t \in Seq(T) /\ Len(t) = k
  BY DEF IsSeq
<1> DEFINE E == S \union T
<1>3. s \in Seq(E) /\ t \in Seq(E)
  BY <1>1, <1>2, SeqMonotonic
<1> HIDE DEF E
<1>4. u \in Seq(E) /\ Len(u) = n + k
  BY <1>1, <1>2, <1>3, ConcatProperties
<1>5. ASSUME NEW a \in Nat \ {0}, NEW z \in Nat, z <= n
      PROVE  SubSeq(u, a, z) = SubSeq(s, a, z)
  <2>1. CASE z < a
    <3>1. SubSeq(u, a, z) = <<>> /\ SubSeq(s, a, z) = <<>>
      BY <2>1, SubSeqEmpty
    <3> QED
      BY <3>1
  <2>2. CASE a <= z
    <3>1. a \in 1 .. Len(s) /\ z \in 1 .. Len(s)
      BY <1>1, <1>5, <2>2
    <3> QED
      BY <1>3, <3>1, SubSeqOfConcat1
  <2>3. z < a \/ a <= z
    OBVIOUS
  <2> QED
    BY <2>1, <2>2, <2>3, Zenon
<1>6. SubSeq(u, n + 1, n + k) = t
  <2>1. CASE k = 0
    <3>1. t = <<>>
      BY <1>2, <2>1, EmptySeq
    <3>2. SubSeq(u, n + 1, n + k) = <<>>
      BY <2>1, SubSeqEmpty
    <3> QED
      BY <3>1, <3>2
  <2>2. CASE k > 0
    <3>1. n + 1 \in Len(s) + 1 .. Len(s) + Len(t) /\ n + k \in Len(s) + 1 .. Len(s) + Len(t)
      BY <1>1, <1>2, <2>2
    <3>2. SubSeq(u, n + 1, n + k) = SubSeq(t, n + 1 - n, n + k - n)
      BY <1>1, <1>3, <3>1, SubSeqOfConcat2
    <3>3. n + 1 - n = 1 /\ n + k - n = Len(t)
      BY <1>2
    <3> QED
      BY <1>2, <3>2, <3>3, SubSeqFull
  <2>3. k = 0 \/ k > 0
    OBVIOUS
  <2> QED
    BY <2>1, <2>2, <2>3, Zenon
<1> QED
  BY <1>4, <1>5, <1>6 DEF IsSeq, Joined

Start(b, i) == IF i = 1 THEN 1 ELSE b.ends[i - 1] + 1

Stored(b, n) ==
    /\ DOMAIN b = {"values", "ends", "valid"}
    /\ Len(b.values) \in Nat /\ IsSeq(b.values, Len(b.values))
    /\ IsSeq(b.ends, n) /\ IsSeq(b.valid, n)
    /\ \A i \in 1 .. n : b.ends[i] \in Nat /\ b.ends[i] <= Len(b.values)
    /\ Start(b, n + 1) = Len(b.values) + 1

LEMMA StoredEmpty == Stored(ListBuilder, 0)
<1>1. /\ DOMAIN ListBuilder = {"values", "ends", "valid"} /\ ListBuilder.values = <<>>
      /\ ListBuilder.ends = <<>> /\ ListBuilder.valid = <<>>
  BY DEF ListBuilder
<1>2. Len(<<>>) = 0
  OBVIOUS
<1>3. Start(ListBuilder, 0 + 1) = 1
  BY DEF Start
<1> QED
  BY <1>1, <1>2, <1>3, EmptyIsSeq DEF Stored

\* A row that is appended leaves the slices of the others alone.
Slices(g, b, n, cell) ==
    /\ Stored(g, n + 1)
    /\ \A i \in 1 .. n : ListCell(g, i) = ListCell(b, i)
    /\ ListCell(g, n + 1) = cell

LEMMA ListStored ==
    ASSUME NEW b, NEW n \in Nat, Stored(b, n), NEW e, NEW k \in Nat, IsSeq(e, k), Len(e) = k
    PROVE  Slices(AppendList(b, e), b, n, <<e>>)
<1> DEFINE g == AppendList(b, e)
           m == Len(b.values)
<1>1. /\ DOMAIN g = {"values", "ends", "valid"} /\ g.values = b.values \o e
      /\ g.ends = Append(b.ends, m + k) /\ g.valid = Append(b.valid, TRUE)
  BY ListAppended
<1>2. m \in Nat /\ IsSeq(b.values, m) /\ IsSeq(b.ends, n) /\ IsSeq(b.valid, n)
  BY DEF Stored
<1>3. /\ \A i \in 1 .. n : b.ends[i] \in Nat /\ b.ends[i] <= m
      /\ Start(b, n + 1) = m + 1
  BY DEF Stored
<1> HIDE DEF g, m
<1>4. /\ IsSeq(g.values, m + k)
      /\ \A a \in Nat \ {0}, z \in Nat :
            z <= m => SubSeq(g.values, a, z) = SubSeq(b.values, a, z)
      /\ SubSeq(g.values, m + 1, m + k) = e
  <2> DEFINE u == g.values
             old == b.values
  <2>1. IsSeq(old, m) /\ u = old \o e
    BY <1>1, <1>2
  <2> HIDE DEF u, old
  <2>2. Joined(u, old, m, e, k)
    BY <1>2, <2>1, Concatenated, Zenon
  <2> QED
    BY <2>2 DEF u, old, Joined
<1>5. Extends(g.ends, b.ends, n, m + k) /\ Extends(g.valid, b.valid, n, TRUE)
  BY <1>1, <1>2, Appended, Zenon
<1>6. Len(g.values) = m + k
  BY <1>4 DEF IsSeq
<1>7. ASSUME NEW i \in 1 .. n + 1
      PROVE  Start(g, i) = Start(b, i)
  <2>1. CASE i = 1
    BY <2>1 DEF Start
  <2>2. CASE i # 1
    <3>1. i - 1 \in 1 .. n
      BY <2>2
    <3>2. g.ends[i - 1] = b.ends[i - 1]
      BY <1>5, <3>1 DEF Extends
    <3> QED
      BY <2>2, <3>2 DEF Start
  <2> QED
    BY <2>1, <2>2
<1>8. ASSUME NEW i \in 1 .. n
      PROVE  ListCell(g, i) = ListCell(b, i)
  <2>1. g.valid[i] = b.valid[i] /\ g.ends[i] = b.ends[i] /\ Start(g, i) = Start(b, i)
    BY <1>5, <1>7 DEF Extends
  <2>2. Start(b, i) \in Nat \ {0} /\ b.ends[i] \in Nat /\ b.ends[i] <= m
    <3>1. i = 1 \/ i - 1 \in 1 .. n
      OBVIOUS
    <3> QED
      BY <1>3, <3>1 DEF Start
  <2>3. SubSeq(g.values, Start(b, i), b.ends[i]) = SubSeq(b.values, Start(b, i), b.ends[i])
    BY <1>4, <2>2
  <2> QED
    BY <2>1, <2>3 DEF ListCell, Start
<1>9. ListCell(g, n + 1) = <<e>>
  <2>1. g.valid[n + 1] = TRUE /\ g.ends[n + 1] = m + k
    BY <1>5 DEF Extends
  <2>2. Start(g, n + 1) = m + 1
    BY <1>3, <1>7
  <2>3. SubSeq(g.values, Start(g, n + 1), g.ends[n + 1]) = e
    BY <1>4, <2>1, <2>2
  <2> QED
    BY <2>1, <2>3 DEF ListCell, Start
<1>10. Start(g, n + 1 + 1) = Len(g.values) + 1
  <2>1. n + 1 + 1 # 1 /\ n + 1 + 1 - 1 = n + 1
    OBVIOUS
  <2>2. g.ends[n + 1] = m + k
    BY <1>5 DEF Extends
  <2> QED
    BY <1>6, <2>1, <2>2 DEF Start
<1>11. ASSUME NEW i \in 1 .. n + 1
       PROVE  g.ends[i] \in Nat /\ g.ends[i] <= m + k
  <2>1. i \in 1 .. n \/ i = n + 1
    OBVIOUS
  <2> QED
    BY <1>2, <1>3, <1>5, <2>1 DEF Extends
<1>12. Stored(g, n + 1)
  <2>1. Len(g.values) \in Nat
    BY <1>2, <1>6
  <2> QED
    BY <1>1, <1>4, <1>5, <1>6, <1>10, <1>11, <2>1 DEF Stored, Extends
<1> QED
  BY <1>8, <1>9, <1>12 DEF Slices, g

LEMMA NullStored ==
    ASSUME NEW b, NEW n \in Nat, Stored(b, n)
    PROVE  Slices(AppendNullList(b), b, n, <<>>)
<1> DEFINE g == AppendNullList(b)
           m == Len(b.values)
<1>1. /\ DOMAIN g = {"values", "ends", "valid"} /\ g.values = b.values
      /\ g.ends = Append(b.ends, m) /\ g.valid = Append(b.valid, FALSE)
  BY DEF AppendNullList, Stored
<1>2. m \in Nat /\ IsSeq(b.values, m) /\ IsSeq(b.ends, n) /\ IsSeq(b.valid, n)
  BY DEF Stored
<1>3. \A i \in 1 .. n : b.ends[i] \in Nat /\ b.ends[i] <= m
  BY DEF Stored
<1> HIDE DEF g, m
<1>4. Len(g.values) = m
  BY <1>1 DEF m
<1>5. Extends(g.ends, b.ends, n, m) /\ Extends(g.valid, b.valid, n, FALSE)
  BY <1>1, <1>2, Appended, Zenon
<1>6. ASSUME NEW i \in 1 .. n
      PROVE  ListCell(g, i) = ListCell(b, i)
  <2>1. g.valid[i] = b.valid[i] /\ g.ends[i] = b.ends[i]
    BY <1>5 DEF Extends
  <2>2. i = 1 \/ i - 1 \in 1 .. n
    OBVIOUS
  <2>3. i # 1 => g.ends[i - 1] = b.ends[i - 1]
    BY <1>5, <2>2 DEF Extends
  <2> QED
    BY <1>1, <2>1, <2>3 DEF ListCell
<1>7. ListCell(g, n + 1) = <<>>
  BY <1>5 DEF Extends, ListCell
<1>8. Start(g, n + 1 + 1) = m + 1
  <2>1. n + 1 + 1 # 1 /\ n + 1 + 1 - 1 = n + 1
    OBVIOUS
  <2>2. g.ends[n + 1] = m
    BY <1>5 DEF Extends
  <2> QED
    BY <2>1, <2>2 DEF Start
<1>9. ASSUME NEW i \in 1 .. n + 1
      PROVE  g.ends[i] \in Nat /\ g.ends[i] <= m
  <2>1. i \in 1 .. n \/ i = n + 1
    OBVIOUS
  <2> QED
    BY <1>2, <1>3, <1>5, <2>1 DEF Extends
<1>10. Stored(g, n + 1)
  BY <1>1, <1>2, <1>4, <1>5, <1>8, <1>9 DEF Stored, Extends
<1> QED
  BY <1>6, <1>7, <1>10 DEF Slices, g

-----------------------------------------------------------------------------
\* The value of a row is the one its capture stands for.
Wanted(c, i) ==
    IF c.captures[i] = <<>> THEN <<>>
    ELSE Compute(BytesFunction(c.fn), c.captures[i])

BytesFunctions == DOMAIN register \ PartsFunctions

LEMMA Reads ==
    /\ \A fn \in BytesFunctions : Operands(fn) = <<"blob">>
    /\ Operands("ja3_from_parts") = <<"u16", "list", "list", "list", "list">>
    /\ Operands("ja3s_from_parts") = <<"u16", "u16", "list">>
    /\ Operands("ja4_from_parts") = <<"u16", "list", "list", "list", "text">>
<1> USE DEF Declares, Processes, Operands
<1>1. ASSUME NEW fn \in BytesFunctions
      PROVE  Operands(fn) = <<"blob">>
  <2>1. fn \in {"is_tls_handshake", "ja3", "ja3_string", "ja3s", "ja4", "ja4_raw",
                "parse_client_hello"}
    BY DEF BytesFunctions, PartsFunctions, register
  <2>2. register[fn] \in {IsTlsHandshakeScalar, Ja3, Ja3String, Ja3s, Ja4Scalar,
                          Ja4RawScalar, ParseClientHelloScalar}
    BY <2>1 DEF register
  <2>3. \A d \in {IsTlsHandshakeScalar, Ja3, Ja3String, Ja3s, Ja4Scalar, Ja4RawScalar,
                  ParseClientHelloScalar} : d.process.reads = <<"blob">>
    BY DEF IsTlsHandshakeScalar, Ja3, Ja3String, Ja3s, Ja4Scalar, Ja4RawScalar,
           ParseClientHelloScalar, blob_to_string_batch
  <2> QED
    BY <2>2, <2>3
<1>2. /\ register["ja3_from_parts"] = Ja3FromParts
      /\ register["ja3s_from_parts"] = Ja3sFromParts
      /\ register["ja4_from_parts"] = Ja4FromParts
  BY DEF register
<1> QED
  BY <1>1, <1>2 DEF Ja3FromParts, Ja3sFromParts, Ja4FromParts

\* Of a column that the caller extracted, a NULL is read as NULL, a field as the
\* field it stands for.
OfKind(kind, type) ==
    \/ kind = "blob" /\ type = "Binary"
    \/ kind = "u16" /\ type \in Integers
    \/ kind = "list" /\ type \in IntegerLists
    \/ kind = "text" /\ type = "Utf8"

LEMMA ReadNull ==
    ASSUME NEW kind, NEW col, OfKind(kind, col.type), NEW i, col.cells[i] = <<>>
    PROVE  Read(kind, col, i) = NullCell
BY DEF OfKind, Read, Scalar, blob_bytes, u16_at, list_u16_at, text_str, Lists, IntegerLists

LEMMA ReadBlob ==
    ASSUME NEW col, col.type = "Binary", NEW i, col.cells[i] # <<>>
    PROVE  Read("blob", col, i) = Val(col.cells[i][1])
BY DEF Read, Scalar, blob_bytes

\* What is read of a field, v, is the field; of the point formats only once it is
\* narrowed to bytes.
SameField(fn, k, v, field) == IF CodePoints(fn, k) = 256 THEN AsU8(v) = field ELSE v = field

\* A reading of a field.
ReadAs(fn, k, read, field) == \E v : read = Val(v) /\ SameField(fn, k, v, field)

LEMMA ReadField ==
    ASSUME NEW fn, NEW k, NEW kind \in {"u16", "list", "text"},
           CodePoints(fn, k) = 256 => kind = "list",
           NEW col, OfKind(kind, col.type), NEW i, col.cells[i] # <<>>,
           NEW field, StandsFor(kind, CodePoints(fn, k), col.cells[i][1], field),
           kind = "list" => field \in Seq(Word)
    PROVE  ReadAs(fn, k, Read(kind, col, i), field)
<1> DEFINE codes == CodePoints(fn, k)
<1>1. codes \in {256, 65536}
  BY DEF CodePoints
<1> USE DEF ReadAs
<1>2. CASE kind = "u16"
  <2>1. codes = 65536
    BY <1>1, <1>2
  <2> QED
    BY <1>2, <2>1 DEF OfKind, Read, Scalar, u16_at, StandsFor, SameField
<1>3. CASE kind = "text"
  <2>1. codes = 65536
    BY <1>1, <1>3
  <2> QED
    BY <1>3, <2>1 DEF OfKind, Read, Scalar, text_str, StandsFor, SameField
<1>4. CASE kind = "list"
  <2> DEFINE list == col.cells[i][1]
             v == Masked(col.type, list)
  <2>1. /\ DOMAIN list = DOMAIN field
        /\ \A j \in DOMAIN field :
              list[j] # <<>> /\ list[j][1] \in Int /\ list[j][1] % codes = field[j]
    BY <1>4 DEF StandsFor
  <2>2. col.type \in IntegerLists /\ col.type \in Lists
    BY <1>4 DEF OfKind, Lists
  <2>3. Read(kind, col, i) = Val(v)
    BY <1>4, <2>2 DEF Read, list_u16_at
  <2>4. v = [j \in DOMAIN field |-> list[j][1] % 65536]
    BY <2>1, <2>2 DEF Masked
  <2>5. field = [j \in DOMAIN field |-> field[j]]
    BY <1>4
  <2>6. CASE codes = 65536
    BY <2>1, <2>3, <2>4, <2>5, <2>6 DEF SameField
  <2>7. CASE codes = 256
    <3>1. \A n \in Int : (n % 65536) % 256 = n % 256
      OBVIOUS
    <3>2. AsU8(v) = [j \in DOMAIN field |-> (list[j][1] % 65536) % 256]
      BY <2>4 DEF AsU8
    <3>3. \A j \in DOMAIN field : (list[j][1] % 65536) % 256 = field[j]
      BY <2>1, <2>7, <3>1
    <3>4. AsU8(v) = field
      BY <2>5, <3>2, <3>3
    <3> QED
      BY <2>3, <2>7, <3>4 DEF SameField
  <2> QED
    BY <1>1, <2>6, <2>7
<1> QED
  BY <1>2, <1>3, <1>4

\* What is read of row i of an extracted batch.
Found(i) ==
    /\ call.fn \in BytesFunctions /\ call.captures[i] = <<>> => ReadRow(i)[1] = NullCell
    /\ call.fn \in BytesFunctions /\ call.captures[i] # <<>> =>
          ReadRow(i)[1] = Val(call.captures[i][1])
    /\ call.fn \in PartsFunctions /\ HelloIn(call, i) = <<>> =>
          \E k \in DOMAIN Kinds : ReadRow(i)[k] = NullCell
    /\ call.fn \in PartsFunctions /\ HelloIn(call, i) # <<>> =>
          \A k \in DOMAIN Kinds :
              ReadAs(call.fn, k, ReadRow(i)[k], Fields(call.fn, HelloIn(call, i)[1])[k])

\* The lists of a hello are Vecs of code points, of bytes and of Strings.
Decoded(fn, h) ==
    /\ h.extensions \in Seq(Word)
    /\ fn \notin {"ja3s", "ja3s_from_parts"} =>
          /\ h.ciphers \in Seq(Word) /\ h.curves \in Seq(Word)
          /\ h.point_formats \in Seq(Byte) /\ h.sig_algs \in Seq(Word)
          /\ h.alpn \in Seq(Texts8)

LEMMA HelloDecoded ==
    ASSUME call \in Calls, NEW i \in 1 .. Rows, HelloIn(call, i) # <<>>
    PROVE  \E h : HelloIn(call, i) = <<h>> /\ Decoded(call.fn, h)
<1> DEFINE d == call.captures[i][1]
<1>1. call.captures[i] # <<>> /\ HelloIn(call, i) = ParsedFor(call.fn, d)
  BY DEF HelloIn
<1>2. d \in Seq(Byte)
  BY <1>1, CapturesAssumption DEF Rows
<1> HIDE DEF d
<1>3. CASE call.fn \in {"ja3s", "ja3s_from_parts"}
  <2>1. ParsedFor(call.fn, d) = ParseServerHello(d)
    BY <1>3 DEF ParsedFor
  <2> QED
    BY <1>1, <1>2, <1>3, <2>1, ServerType DEF Decoded
<1>4. CASE call.fn \notin {"ja3s", "ja3s_from_parts"}
  <2>1. ParsedFor(call.fn, d) = ParseClientHello(d)
    BY <1>4 DEF ParsedFor
  <2> QED
    BY <1>1, <1>2, <1>4, <2>1, ClientType DEF Decoded
<1> QED
  BY <1>3, <1>4

LEMMA PartsKinds ==
    ASSUME NEW fn \in PartsFunctions, NEW h, Decoded(fn, h)
    PROVE  \A k \in DOMAIN Operands(fn) :
              /\ Operands(fn)[k] \in {"u16", "list", "text"}
              /\ Operands(fn)[k] = "list" => Fields(fn, h)[k] \in Seq(Word)
<1>1. CASE fn = "ja3_from_parts"
  <2>1. h.point_formats \in Seq(Word)
    <3>1. h.point_formats \in Seq(Byte)
      BY <1>1 DEF Decoded
    <3> QED
      BY <3>1, ByteInWord, SeqMonotonic
  <2>2. /\ h.ciphers \in Seq(Word) /\ h.extensions \in Seq(Word) /\ h.curves \in Seq(Word)
    BY <1>1 DEF Decoded
  <2>3. DOMAIN Operands(fn) = 1 .. 5
    BY <1>1, Reads
  <2> SUFFICES ASSUME NEW k \in {1, 2, 3, 4, 5}
               PROVE  /\ Operands(fn)[k] \in {"u16", "list", "text"}
                      /\ Operands(fn)[k] = "list" => Fields(fn, h)[k] \in Seq(Word)
    BY <2>3
  <2> QED
    BY <1>1, <2>1, <2>2, Reads DEF Fields
<1>2. CASE fn = "ja3s_from_parts"
  <2>1. h.extensions \in Seq(Word)
    BY <1>2 DEF Decoded
  <2>2. DOMAIN Operands(fn) = 1 .. 3
    BY <1>2, Reads
  <2> SUFFICES ASSUME NEW k \in {1, 2, 3}
               PROVE  /\ Operands(fn)[k] \in {"u16", "list", "text"}
                      /\ Operands(fn)[k] = "list" => Fields(fn, h)[k] \in Seq(Word)
    BY <2>2
  <2> QED
    BY <1>2, <2>1, Reads DEF Fields
<1>3. CASE fn = "ja4_from_parts"
  <2>1. /\ h.ciphers \in Seq(Word) /\ h.extensions \in Seq(Word) /\ h.sig_algs \in Seq(Word)
    BY <1>3 DEF Decoded
  <2>2. DOMAIN Operands(fn) = 1 .. 5
    BY <1>3, Reads
  <2> SUFFICES ASSUME NEW k \in {1, 2, 3, 4, 5}
               PROVE  /\ Operands(fn)[k] \in {"u16", "list", "text"}
                      /\ Operands(fn)[k] = "list" => Fields(fn, h)[k] \in Seq(Word)
    BY <2>2
  <2> QED
    BY <1>3, <2>1, Reads DEF Fields
<1> QED
  BY <1>1, <1>2, <1>3 DEF PartsFunctions

LEMMA RowsFound ==
    ASSUME call \in Calls, AsExtracted, NEW i \in 1 .. Rows
    PROVE  Found(i)
<1> DEFINE o == HelloIn(call, i)
<1>1. /\ call.fn \in DOMAIN register /\ DOMAIN call.columns = DOMAIN Kinds
      /\ \A k \in DOMAIN Kinds : Kinds[k] \in {"blob", "u16", "list", "text"}
  BY Shape
<1>2. Extracted(call, i)
  BY ExtractionAssumption DEF AsExtracted, Rows
<1>3. ASSUME NEW k \in DOMAIN Kinds
      PROVE  OfKind(Kinds[k], Column(k).type)
  BY <1>1 DEF AsExtracted, ExtractedTypes, OfKind, Kinds, Column
<1>4. ASSUME NEW k \in DOMAIN Kinds
      PROVE  ReadRow(i)[k] = Read(Kinds[k], Column(k), i)
  BY DEF ReadRow, Kinds, Column
<1>5. CASE call.fn \in BytesFunctions
  <2>1. Kinds = <<"blob">>
    BY <1>5, Reads DEF Kinds
  <2>2. 1 \in DOMAIN Kinds /\ Kinds[1] = "blob"
    BY <2>1
  <2>3. Column(1).cells[i] = call.captures[i]
    BY <1>2, <1>5 DEF Extracted, Column, BytesFunctions
  <2>4. Column(1).type = "Binary"
    BY <1>3, <2>2 DEF OfKind
  <2>5. call.captures[i] = <<>> => ReadRow(i)[1] = NullCell
    BY <1>3, <1>4, <2>2, <2>3, ReadNull
  <2>6. call.captures[i] # <<>> => ReadRow(i)[1] = Val(call.captures[i][1])
    BY <1>4, <2>2, <2>3, <2>4, ReadBlob
  <2> QED
    BY <1>5, <2>5, <2>6 DEF Found, BytesFunctions
<1>6. CASE call.fn \in PartsFunctions
  <2>1. CASE o = <<>>
    <3>1. PICK k \in DOMAIN Kinds : Column(k).cells[i] = <<>>
      BY <1>1, <1>2, <1>6, <2>1 DEF Extracted, Column
    <3>2. ReadRow(i)[k] = NullCell
      BY <1>3, <1>4, <3>1, ReadNull
    <3> QED
      BY <1>6, <2>1, <3>2 DEF Found, BytesFunctions
  <2>2. CASE o # <<>>
    <3>1. PICK h : o = <<h>> /\ Decoded(call.fn, h)
      BY <2>2, HelloDecoded DEF Rows
    <3>2. o[1] = h
      BY <3>1
    <3>3. ASSUME NEW k \in DOMAIN Kinds
          PROVE  ReadAs(call.fn, k, ReadRow(i)[k], Fields(call.fn, o[1])[k])
      <4>1. /\ Column(k).cells[i] # <<>>
            /\ StandsFor(Kinds[k], CodePoints(call.fn, k), Column(k).cells[i][1],
                         Fields(call.fn, o[1])[k])
        BY <1>1, <1>2, <1>6, <2>2, <3>3 DEF Extracted, Column, Kinds
      <4>2. /\ Kinds[k] \in {"u16", "list", "text"}
            /\ Kinds[k] = "list" => Fields(call.fn, o[1])[k] \in Seq(Word)
        BY <1>6, <3>1, <3>2, <3>3, PartsKinds DEF Kinds
      <4>3. CodePoints(call.fn, k) = 256 => Kinds[k] = "list"
        BY <1>6, Reads DEF CodePoints, Kinds
      <4>4. OfKind(Kinds[k], Column(k).type) /\ ReadRow(i)[k] = Read(Kinds[k], Column(k), i)
        BY <1>3, <1>4, <3>3
      <4> DEFINE fn == call.fn
                 kind == Kinds[k]
                 col == Column(k)
                 field == Fields(call.fn, o[1])[k]
      <4>5. /\ kind \in {"u16", "list", "text"} /\ (CodePoints(fn, k) = 256 => kind = "list")
            /\ OfKind(kind, col.type) /\ col.cells[i] # <<>>
            /\ StandsFor(kind, CodePoints(fn, k), col.cells[i][1], field)
            /\ kind = "list" => field \in Seq(Word)
        BY <4>1, <4>2, <4>3, <4>4
      <4>6. ReadRow(i)[k] = Read(kind, col, i)
        BY <4>4
      <4> HIDE DEF fn, kind, col, field
      <4>7. ReadAs(fn, k, Read(kind, col, i), field)
        BY <4>5, ReadField
      <4> QED
        BY <4>6, <4>7 DEF fn, field
    <3> QED
      BY <1>6, <2>2, <3>3 DEF Found, BytesFunctions
  <2> QED
    BY <2>1, <2>2
<1> QED
  BY <1>1, <1>5, <1>6 DEF BytesFunctions

\* The operands enter the fingerprint as the hello does.
LEMMA SameAsBytes ==
    ASSUME NEW fn \in PartsFunctions, NEW h, Decoded(fn, h), NEW v,
           \A k \in DOMAIN Operands(fn) : SameField(fn, k, v[k], Fields(fn, h)[k]),
           NEW bytes, ParsedFor(fn, bytes[1]) = <<h>>
    PROVE  Compute(fn, v) = Compute(BytesFunction(fn), bytes)
<1>1. CASE fn = "ja3_from_parts"
  <2>1. ParseClientHello(bytes[1]) = <<h>>
    BY <1>1 DEF ParsedFor
  <2>2. DOMAIN Operands(fn) = 1 .. 5
    BY <1>1, Reads
  <2>3. /\ v[1] = h.legacy_version /\ v[2] = h.ciphers /\ v[3] = h.extensions
        /\ v[4] = h.curves
    BY <1>1, <2>2 DEF Fields, SameField, CodePoints
  <2>4. AsU8(v[5]) = h.point_formats
    BY <1>1, <2>2 DEF Fields, SameField, CodePoints
  <2>5. Compute(fn, v) = <<md5(ja3_string_from_parts(v[1], v[2], v[3], v[4], AsU8(v[5])))>>
    BY <1>1 DEF Compute
  <2>6. Compute(fn, v) = <<ja3(h)>>
    BY <2>3, <2>4, <2>5 DEF ja3, ja3_string
  <2>7. Compute(BytesFunction(fn), bytes) = ja3_bytes(bytes[1])
    BY <1>1 DEF Compute, BytesFunction
  <2>8. ja3_bytes(bytes[1]) = <<ja3(h)>>
    BY <2>1 DEF ja3_bytes
  <2> QED
    BY <2>6, <2>7, <2>8
<1>2. CASE fn = "ja3s_from_parts"
  <2>1. ParseServerHello(bytes[1]) = <<h>>
    BY <1>2 DEF ParsedFor
  <2>2. DOMAIN Operands(fn) = 1 .. 3
    BY <1>2, Reads
  <2>3. v[1] = h.legacy_version /\ v[2] = h.cipher /\ v[3] = h.extensions
    BY <1>2, <2>2 DEF Fields, SameField, CodePoints
  <2>4. Compute(fn, v) = <<md5(ja3s_string_from_parts(v[1], v[2], v[3]))>>
    BY <1>2 DEF Compute
  <2>5. Compute(BytesFunction(fn), bytes) = ja3s_bytes(bytes[1])
    BY <1>2 DEF Compute, BytesFunction
  <2>6. ja3s_bytes(bytes[1]) = <<ja3s(h)>>
    BY <2>1 DEF ja3s_bytes
  <2> QED
    BY <2>3, <2>4, <2>5, <2>6 DEF ja3s
<1>3. CASE fn = "ja4_from_parts"
  <2>1. ParseClientHello(bytes[1]) = <<h>>
    BY <1>3 DEF ParsedFor
  <2>2. DOMAIN Operands(fn) = 1 .. 5
    BY <1>3, Reads
  <2>3. /\ v[1] = effective_version(h.supported_versions, h.legacy_version)
        /\ v[2] = h.ciphers /\ v[3] = h.extensions
        /\ v[4] = h.sig_algs /\ v[5] = FirstOf(h.alpn)
    BY <1>3, <2>2 DEF Fields, SameField, CodePoints
  <2>4. FirstOf(h.alpn) = IF h.alpn = <<>> THEN <<>> ELSE Head(h.alpn)
    <3>1. h.alpn \in Seq(Texts8)
      BY <1>3 DEF Decoded
    <3> QED
      BY <3>1 DEF FirstOf
  <2>5. Compute(fn, v) = <<ja4_from_parts(v[1], v[2], v[3], v[4], v[5])>>
    BY <1>3 DEF Compute
  <2>6. Compute(fn, v) = <<ja4(h)>>
    BY <2>3, <2>4, <2>5 DEF ja4, ja4_from_parts, inputs_from_client_hello
  <2>7. Compute(BytesFunction(fn), bytes) = ja4_bytes(bytes[1])
    BY <1>3 DEF Compute, BytesFunction
  <2>8. ja4_bytes(bytes[1]) = <<ja4(h)>>
    BY <2>1 DEF ja4_bytes
  <2> QED
    BY <2>6, <2>7, <2>8
<1> QED
  BY <1>1, <1>2, <1>3 DEF PartsFunctions

\* A capture that does not parse has no fingerprint.
LEMMA NoFingerprint ==
    ASSUME NEW fn \in PartsFunctions, NEW bytes, ParsedFor(fn, bytes[1]) = <<>>
    PROVE  Compute(BytesFunction(fn), bytes) = <<>>
<1>1. CASE fn = "ja3_from_parts"
  BY <1>1 DEF ParsedFor, BytesFunction, Compute, ja3_bytes
<1>2. CASE fn = "ja3s_from_parts"
  BY <1>2 DEF ParsedFor, BytesFunction, Compute, ja3s_bytes
<1>3. CASE fn = "ja4_from_parts"
  BY <1>3 DEF ParsedFor, BytesFunction, Compute, ja4_bytes
<1> QED
  BY <1>1, <1>2, <1>3 DEF PartsFunctions

\* A function of the bytes looks at its first operand only.
LEMMA FirstOperand ==
    ASSUME NEW fn \in BytesFunctions, NEW v, NEW w, v[1] = w[1]
    PROVE  Compute(fn, v) = Compute(BytesFunction(fn), w)
<1>1. fn \in {"is_tls_handshake", "ja3", "ja3_string", "ja3s", "ja4", "ja4_raw",
              "parse_client_hello"}
  BY DEF BytesFunctions, PartsFunctions, register
<1>2. BytesFunction(fn) = fn
  BY <1>1 DEF BytesFunction
<1> QED
  BY <1>1, <1>2 DEF Compute

LEMMA RowsAreWanted ==
    ASSUME call \in Calls, AsExtracted, NEW i \in 1 .. Rows
    PROVE  RowValue(call.fn, ReadRow(i)) = Wanted(call, i)
<1> DEFINE read == ReadRow(i)
           v == [k \in DOMAIN read |-> read[k][2]]
<1>1. Found(i) /\ call.fn \in DOMAIN register /\ DOMAIN read = DOMAIN Kinds
  BY RowsFound, Shape DEF ReadRow, Kinds
<1>2. \A x : Val(x) # NullCell /\ Val(x)[2] = x
  BY DEF Val, NullCell
<1>3. RowValue(call.fn, read) =
          IF \E k \in DOMAIN read : read[k] = NullCell THEN <<>> ELSE Compute(call.fn, v)
  BY DEF RowValue
<1>4. \A k \in DOMAIN read : v[k] = read[k][2]
  OBVIOUS
<1> HIDE DEF read, v
<1>5. CASE call.fn \in BytesFunctions
  <2>1. DOMAIN read = {1}
    BY <1>1, <1>5, Reads DEF Kinds
  <2>2. call.fn \notin PartsFunctions
    BY <1>5 DEF BytesFunctions
  <2>3. CASE call.captures[i] = <<>>
    <3>1. read[1] = NullCell
      BY <1>1, <1>5, <2>3 DEF Found, read
    <3> QED
      BY <1>3, <2>1, <2>3, <3>1 DEF Wanted, read
  <2>4. CASE call.captures[i] # <<>>
    <3>1. read[1] = Val(call.captures[i][1])
      BY <1>1, <1>5, <2>4 DEF Found, read
    <3>2. v[1] = call.captures[i][1] /\ ~ \E k \in DOMAIN read : read[k] = NullCell
      BY <1>2, <1>4, <2>1, <3>1
    <3>3. Compute(call.fn, v) = Compute(BytesFunction(call.fn), call.captures[i])
      BY <1>5, <3>2, FirstOperand
    <3> QED
      BY <1>3, <2>4, <3>2, <3>3 DEF Wanted, read
  <2> QED
    BY <2>3, <2>4
<1>6. CASE call.fn \in PartsFunctions
  <2> DEFINE o == HelloIn(call, i)
  <2>1. CASE o = <<>>
    <3>1. \E k \in DOMAIN read : read[k] = NullCell
      BY <1>1, <1>6, <2>1 DEF Found, read
    <3>2. CASE call.captures[i] = <<>>
      BY <1>3, <3>1, <3>2 DEF Wanted, read
    <3>3. CASE call.captures[i] # <<>>
      <4>1. ParsedFor(call.fn, call.captures[i][1]) = <<>>
        BY <2>1, <3>3 DEF HelloIn
      <4>2. Compute(BytesFunction(call.fn), call.captures[i]) = <<>>
        BY <1>6, <4>1, NoFingerprint
      <4> QED
        BY <1>3, <3>1, <3>3, <4>2 DEF Wanted, read
    <3> QED
      BY <3>2, <3>3
  <2>2. CASE o # <<>>
    <3>1. PICK h : o = <<h>> /\ Decoded(call.fn, h)
      BY <2>2, HelloDecoded DEF Rows
    <3>2. o[1] = h
      BY <3>1
    <3>3. call.captures[i] # <<>> /\ ParsedFor(call.fn, call.captures[i][1]) = <<h>>
      BY <2>2, <3>1 DEF HelloIn
    <3>4. \A k \in DOMAIN Kinds : ReadAs(call.fn, k, read[k], Fields(call.fn, h)[k])
      BY <1>1, <1>6, <2>2, <3>2 DEF Found, read
    <3>5. /\ \A k \in DOMAIN Operands(call.fn) :
                SameField(call.fn, k, v[k], Fields(call.fn, h)[k])
          /\ ~ \E k \in DOMAIN read : read[k] = NullCell
      BY <1>1, <1>2, <1>4, <3>4 DEF Kinds, ReadAs
    <3>6. Compute(call.fn, v) = Compute(BytesFunction(call.fn), call.captures[i])
      BY <1>6, <3>1, <3>3, <3>5, SameAsBytes
    <3> QED
      BY <1>3, <3>3, <3>5, <3>6 DEF Wanted, read
  <2> QED
    BY <2>1, <2>2
<1> QED
  BY <1>1, <1>5, <1>6 DEF BytesFunctions

-----------------------------------------------------------------------------
\* Row i of the arrays of the decoder holds the hello o.
HelloKept(b, i, o) ==
    /\ b.valid[i] = (o # <<>>)
    /\ o # <<>> =>
          /\ b.version[i] = <<o[1].legacy_version>> /\ b.sni[i] = o[1].sni
          /\ \A c \in ListColumns : ListCell(b[c], i) = <<o[1][c]>>

HellosKept(c, b, n) ==
    /\ AlignedAt(b, n)
    /\ \A a \in ListColumns : Stored(b[a], n)
    /\ \A i \in 1 .. n : HelloKept(b, i, HelloIn(c, i))

LEMMA KeptEmpty == ASSUME NEW c PROVE HellosKept(c, Builders("parse_client_hello"), 0)
<1>1. \A a \in ListColumns : Builders("parse_client_hello")[a] = ListBuilder
  BY DEF Builders, ListColumns
<1> QED
  BY <1>1, AlignedEmpty, StoredEmpty DEF HellosKept

\* A row that is appended leaves the others alone, the lists' slices too.
Grown(g, b, n) ==
    \A i \in 1 .. n :
        /\ g.valid[i] = b.valid[i] /\ g.version[i] = b.version[i] /\ g.sni[i] = b.sni[i]
        /\ \A a \in ListColumns : ListCell(g[a], i) = ListCell(b[a], i)

LEMMA KeptGrown ==
    ASSUME NEW c, NEW b, NEW n \in Nat, HellosKept(c, b, n), NEW g, Grown(g, b, n),
           AlignedAt(g, n + 1), \A a \in ListColumns : Stored(g[a], n + 1),
           HelloKept(g, n + 1, HelloIn(c, n + 1))
    PROVE  HellosKept(c, g, n + 1)
<1>1. ASSUME NEW i \in 1 .. n + 1
      PROVE  HelloKept(g, i, HelloIn(c, i))
  <2>1. CASE i \in 1 .. n
    <3>1. HelloKept(b, i, HelloIn(c, i))
      BY <2>1 DEF HellosKept
    <3> QED
      BY <2>1, <3>1 DEF Grown, HelloKept
  <2>2. i \in 1 .. n \/ i = n + 1
    OBVIOUS
  <2> QED
    BY <2>1, <2>2
<1> QED
  BY <1>1 DEF HellosKept

LEMMA KeptNull ==
    ASSUME NEW c, NEW b, NEW n \in Nat, HellosKept(c, b, n), HelloIn(c, n + 1) = <<>>
    PROVE  HellosKept(c, AppendNullStruct(b), n + 1)
<1> DEFINE g == AppendNullStruct(b)
<1>1. /\ g.version = Append(b.version, <<>>) /\ g.sni = Append(b.sni, <<>>)
      /\ g.valid = Append(b.valid, FALSE)
      /\ \A a \in ListColumns : g[a] = AppendNullList(b[a])
  BY DEF HellosKept, AlignedAt, AppendNullStruct, Columns, ListColumns
<1>2. AlignedAt(g, n + 1)
  BY AlignedNull DEF HellosKept
<1> HIDE DEF g
<1>3. /\ Extends(g.version, b.version, n, <<>>) /\ Extends(g.sni, b.sni, n, <<>>)
      /\ Extends(g.valid, b.valid, n, FALSE)
  <2>1. IsSeq(b.version, n) /\ IsSeq(b.sni, n) /\ IsSeq(b.valid, n)
    BY DEF HellosKept, AlignedAt
  <2> QED
    BY <1>1, <2>1, Appended, Zenon
<1>4. ASSUME NEW a \in ListColumns
      PROVE  Slices(g[a], b[a], n, <<>>)
  <2>1. Stored(b[a], n)
    BY DEF HellosKept
  <2> QED
    BY <1>1, <2>1, NullStored
<1>5. Grown(g, b, n)
  BY <1>3, <1>4 DEF Grown, Extends, Slices
<1>6. HelloKept(g, n + 1, HelloIn(c, n + 1))
  BY <1>3 DEF HelloKept, Extends
<1>7. \A a \in ListColumns : Stored(g[a], n + 1)
  BY <1>4 DEF Slices
<1>8. HellosKept(c, g, n + 1)
  BY <1>2, <1>5, <1>6, <1>7, KeptGrown
<1> QED
  BY <1>8 DEF g

LEMMA KeptStruct ==
    ASSUME NEW c, NEW b, NEW n \in Nat, HellosKept(c, b, n), NEW h,
           HelloIn(c, n + 1) = <<h>>, Decoded("parse_client_hello", h)
    PROVE  HellosKept(c, AppendStruct(b, h), n + 1)
<1> DEFINE g == AppendStruct(b, h)
<1>1. /\ g.version = Append(b.version, <<h.legacy_version>>) /\ g.sni = Append(b.sni, h.sni)
      /\ g.valid = Append(b.valid, TRUE)
      /\ g.ciphers = AppendList(b.ciphers, h.ciphers)
      /\ g.extensions = AppendList(b.extensions, h.extensions)
      /\ g.curves = AppendList(b.curves, h.curves) /\ g.alpn = AppendList(b.alpn, h.alpn)
  BY DEF AppendStruct
<1>2. AlignedAt(g, n + 1)
  BY AlignedStruct DEF HellosKept
<1> HIDE DEF g
<1>3. /\ Extends(g.version, b.version, n, <<h.legacy_version>>)
      /\ Extends(g.sni, b.sni, n, h.sni)
      /\ Extends(g.valid, b.valid, n, TRUE)
  <2>1. IsSeq(b.version, n) /\ IsSeq(b.sni, n) /\ IsSeq(b.valid, n)
    BY DEF HellosKept, AlignedAt
  <2> QED
    BY <1>1, <2>1, Appended, Zenon
<1>4. ASSUME NEW a \in ListColumns
      PROVE  Slices(g[a], b[a], n, <<h[a]>>)
  <2>1. Stored(b[a], n)
    BY DEF HellosKept
  <2>2. h[a] \in Seq(Word) \/ h[a] \in Seq(Texts8)
    BY DEF Decoded, ListColumns
  <2>3. Len(h[a]) \in Nat /\ IsSeq(h[a], Len(h[a]))
    BY <2>2, LenProperties DEF IsSeq
  <2> DEFINE e == h[a]
             old == b[a]
  <2>4. g[a] = AppendList(old, e)
    BY <1>1 DEF ListColumns
  <2>5. Stored(old, n) /\ Len(e) \in Nat /\ IsSeq(e, Len(e))
    BY <2>1, <2>3
  <2> HIDE DEF e, old
  <2>6. Slices(AppendList(old, e), old, n, <<e>>)
    BY <2>5, ListStored
  <2> QED
    BY <2>4, <2>6 DEF e, old
<1>5. Grown(g, b, n)
  BY <1>3, <1>4 DEF Grown, Extends, Slices
<1>6. HelloKept(g, n + 1, HelloIn(c, n + 1))
  <2>1. PICK o : o = HelloIn(c, n + 1) /\ o = <<h>>
    OBVIOUS
  <2>2. o # <<>> /\ o[1] = h
    BY <2>1
  <2>3. HelloKept(g, n + 1, o)
    BY <1>3, <1>4, <2>2 DEF HelloKept, Extends, Slices
  <2> QED
    BY <2>1, <2>3
<1>7. \A a \in ListColumns : Stored(g[a], n + 1)
  BY <1>4 DEF Slices
<1>8. HellosKept(c, g, n + 1)
  BY <1>2, <1>5, <1>6, <1>7, KeptGrown
<1> QED
  BY <1>8 DEF g

\* What the builders hold of the rows done, of an extracted batch.
ValuesKept(c, b, n) ==
    IsSeq(b.value, n) /\ \A i \in 1 .. n : b.value[i] = Wanted(c, i)

Kept ==
    AsExtracted /\ status # "error" =>
        /\ call.fn = "parse_client_hello" => HellosKept(call, built, row)
        /\ call.fn # "parse_client_hello" => ValuesKept(call, built, row)

LEMMA KeptInit == Init => Kept
<1> SUFFICES ASSUME Init PROVE Kept
  OBVIOUS
<1>1. call.fn # "parse_client_hello" => built.value = <<>>
  BY DEF Init, Builders
<1> QED
  BY <1>1, KeptEmpty, EmptyIsSeq DEF Init, Kept, ValuesKept

LEMMA KeptStep == Reading /\ Kept /\ [Next]_vars => Kept'
<1> SUFFICES ASSUME Reading, Kept, [Next]_vars PROVE Kept'
  OBVIOUS
<1>1. call' = call /\ (AsExtracted' <=> AsExtracted)
  BY DEF AsExtracted, Next, ProcessRow, Abort, Finish, Returned, vars
<1>2. CASE ProcessRow
  <2> SUFFICES ASSUME AsExtracted, status # "error"
               PROVE  /\ call.fn = "parse_client_hello" => HellosKept(call, built', row')
                      /\ call.fn # "parse_client_hello" => ValuesKept(call, built', row')
    BY <1>1, <1>2 DEF Kept, ProcessRow
  <2>1. /\ row < Rows /\ row' = row + 1
        /\ built' = AppendRow(call.fn, built, RowValue(call.fn, ReadRow(row + 1)))
    BY <1>2 DEF ProcessRow
  <2>2. row \in Nat /\ row + 1 \in 1 .. Rows /\ call \in Calls
    BY <2>1, Shape DEF Reading
  <2>3. built' = AppendRow(call.fn, built, Wanted(call, row + 1))
    BY <2>1, <2>2, RowsAreWanted
  <2>4. CASE call.fn = "parse_client_hello"
    <3>1. Wanted(call, row + 1) = HelloIn(call, row + 1)
      BY <2>4 DEF Wanted, HelloIn, ParsedFor, Compute, BytesFunction
    <3>2. HellosKept(call, built, row)
      BY <2>4 DEF Kept
    <3>3. CASE HelloIn(call, row + 1) = <<>>
      <4>1. built' = AppendNullStruct(built)
        BY <2>3, <2>4, <3>1, <3>3 DEF AppendRow
      <4> QED
        BY <2>1, <2>2, <2>4, <3>2, <3>3, <4>1, KeptNull
    <3>4. CASE HelloIn(call, row + 1) # <<>>
      <4>1. PICK h : HelloIn(call, row + 1) = <<h>> /\ Decoded(call.fn, h)
        BY <2>2, <3>4, HelloDecoded DEF Rows
      <4>2. <<h>> # <<>> /\ <<h>>[1] = h
        OBVIOUS
      <4>3. built' = AppendStruct(built, h)
        BY <2>3, <2>4, <3>1, <4>1, <4>2 DEF AppendRow
      <4> QED
        BY <2>1, <2>2, <2>4, <3>2, <4>1, <4>3, KeptStruct
    <3> QED
      BY <3>3, <3>4
  <2>5. CASE call.fn # "parse_client_hello"
    <3>1. built'.value = Append(built.value, Wanted(call, row + 1))
      BY <2>3, <2>5 DEF AppendRow
    <3>2. ValuesKept(call, built, row)
      BY <2>5 DEF Kept
    <3> DEFINE new == built'.value
               old == built.value
    <3>3. Extends(new, old, row, Wanted(call, row + 1))
      <4>1. IsSeq(old, row) /\ new = Append(old, Wanted(call, row + 1))
        BY <3>1, <3>2 DEF ValuesKept
      <4> HIDE DEF new, old
      <4> QED
        BY <2>2, <4>1, Appended, Zenon
    <3> HIDE DEF new
    <3>4. ASSUME NEW i \in 1 .. row + 1
          PROVE  new[i] = Wanted(call, i)
      <4>1. i \in 1 .. row \/ i = row + 1
        BY <2>2
      <4> QED
        BY <3>2, <3>3, <4>1 DEF Extends, ValuesKept
    <3> QED
      BY <2>1, <2>5, <3>3, <3>4 DEF ValuesKept, Extends, new
  <2> QED
    BY <2>4, <2>5
<1>3. CASE Abort
  BY <1>3 DEF Abort, Kept
<1>4. CASE Finish
  BY <1>1, <1>4 DEF Finish, Kept
<1>5. CASE UNCHANGED vars
  BY <1>1, <1>5 DEF vars, Kept
<1> QED
  BY <1>2, <1>3, <1>4, <1>5 DEF Next, Returned

LEMMA KeptAlways == Spec => []Kept
BY KeptInit, KeptStep, ReadingAlways, PTL DEF Spec

\* The columns of the struct are the arrays of their names.
LEMMA StructFields ==
    LET fields == client_hello_struct_fields
        Position(name) == CHOOSE k \in DOMAIN fields : fields[k][1] = name
    IN /\ {fields[k][1] : k \in DOMAIN fields} =
              {"version", "sni", "ciphers", "extensions", "curves", "alpn"}
       /\ \A name \in {"version", "sni", "ciphers", "extensions", "curves", "alpn"} :
             StructArrays[Position(name)] = name
<1> DEFINE fields == client_hello_struct_fields
           Names == {"version", "sni", "ciphers", "extensions", "curves", "alpn"}
           Position(name) == CHOOSE k \in DOMAIN fields : fields[k][1] = name
<1>1. DOMAIN fields = {1, 2, 3, 4, 5, 6}
  BY DEF client_hello_struct_fields
<1>2. /\ fields[1][1] = "version" /\ fields[2][1] = "sni" /\ fields[3][1] = "ciphers"
      /\ fields[4][1] = "extensions" /\ fields[5][1] = "curves" /\ fields[6][1] = "alpn"
  BY DEF client_hello_struct_fields
<1>3. \A k \in {1, 2, 3, 4, 5, 6} : StructArrays[k] = fields[k][1]
  BY <1>2 DEF StructArrays
<1> HIDE DEF fields
<1>4. {fields[k][1] : k \in DOMAIN fields} = Names
  BY <1>1, <1>2
<1>5. ASSUME NEW name \in Names
      PROVE  StructArrays[Position(name)] = name
  <2>1. \E k \in DOMAIN fields : fields[k][1] = name
    BY <1>1, <1>2
  <2>2. Position(name) \in DOMAIN fields /\ fields[Position(name)][1] = name
    BY <2>1
  <2> QED
    BY <1>1, <1>3, <2>2
<1> QED
  BY <1>4, <1>5 DEF fields

\* scalar/mod.rs, for batches of any size and any hellos: the result of a row is
\* that of its own capture, whatever the other rows hold, and the same whether
\* the function reads the capture or the fields that were extracted from it.
THEOREM Independence == Spec => []RowsIndependent
<1>1. Reading /\ Kept => RowsIndependent
  <2> SUFFICES ASSUME Reading, Kept, status # "error", AsExtracted, NEW i \in 1 .. row
               PROVE  Output(i) =
                          IF call.captures[i] = <<>> THEN <<>>
                          ELSE IF call.fn = "parse_client_hello"
                               THEN StructOf(call.captures[i][1])
                               ELSE Compute(BytesFunction(call.fn), call.captures[i])
    BY DEF RowsIndependent
  <2>1. CASE call.fn # "parse_client_hello"
    <3>1. built.value[i] = Wanted(call, i)
      BY <2>1 DEF Kept, ValuesKept
    <3> QED
      BY <2>1, <3>1 DEF Output, Wanted
  <2>2. CASE call.fn = "parse_client_hello"
    <3>1. HelloKept(built, i, HelloIn(call, i))
      BY <2>2 DEF Kept, HellosKept
    <3>2. CASE HelloIn(call, i) = <<>>
      <4>1. Output(i) = <<>>
        BY <2>2, <3>1, <3>2 DEF HelloKept, Output
      <4>2. call.captures[i] # <<>> => StructOf(call.captures[i][1]) = <<>>
        BY <2>2, <3>2 DEF StructOf, HelloIn, ParsedFor
      <4> QED
        BY <2>2, <4>1, <4>2
    <3>3. CASE HelloIn(call, i) # <<>>
      <4>1. i \in 1 .. Rows
        BY Shape DEF Reading
      <4>2. PICK h : HelloIn(call, i) = <<h>>
        BY <3>3, <4>1, HelloDecoded DEF Rows, Reading
      <4>3. <<h>>[1] = h
        OBVIOUS
      <4>4. /\ built.valid[i] /\ built.version[i] = <<h.legacy_version>>
            /\ built.sni[i] = h.sni
            /\ \A c \in ListColumns : ListCell(built[c], i) = <<h[c]>>
        BY <3>1, <3>3, <4>2, <4>3 DEF HelloKept
      <4>5. /\ call.captures[i] # <<>>
            /\ ParseClientHello(call.captures[i][1]) = <<h>>
        BY <2>2, <3>3, <4>2 DEF HelloIn, ParsedFor
      <4> DEFINE struct == [version |-> <<h.legacy_version>>, sni |-> h.sni,
                            ciphers |-> <<h.ciphers>>, extensions |-> <<h.extensions>>,
                            curves |-> <<h.curves>>, alpn |-> <<h.alpn>>]
                 Names == {"version", "sni", "ciphers", "extensions", "curves", "alpn"}
      <4>6. StructOf(call.captures[i][1]) = <<struct>>
        <5>1. <<h>> # <<>>
          OBVIOUS
        <5> QED
          BY <4>3, <4>5, <5>1 DEF StructOf
      <4>7. Output(i) = <<[name \in Names |-> ArrayCell(name, i)]>>
        <5> DEFINE fields == client_hello_struct_fields
                   Position(name) == CHOOSE k \in DOMAIN fields : fields[k][1] = name
                   Field == {fields[k][1] : k \in DOMAIN fields}
                   Cell(name) == ArrayCell(StructArrays[Position(name)], i)
        <5>1. Output(i) = <<[name \in Field |-> Cell(name)]>>
          BY <2>2, <4>4 DEF Output
        <5>2. Field = Names /\ \A name \in Names : Cell(name) = ArrayCell(name, i)
          BY StructFields
        <5> HIDE DEF Field, Cell, Names
        <5>3. [name \in Field |-> Cell(name)] = [name \in Names |-> ArrayCell(name, i)]
          BY <5>2
        <5> QED
          BY <5>1, <5>3
      <4>8. [name \in Names |-> ArrayCell(name, i)] = struct
        <5>1. /\ ArrayCell("version", i) = struct.version /\ ArrayCell("sni", i) = struct.sni
              /\ ArrayCell("ciphers", i) = struct.ciphers
              /\ ArrayCell("extensions", i) = struct.extensions
              /\ ArrayCell("curves", i) = struct.curves /\ ArrayCell("alpn", i) = struct.alpn
          BY <4>4 DEF ArrayCell, ListColumns
        <5> QED
          BY <5>1
      <4> QED
        BY <2>2, <4>5, <4>6, <4>7, <4>8
    <3> QED
      BY <3>2, <3>3
  <2> QED
    BY <2>1, <2>2
<1> QED
  BY <1>1, ReadingAlways, KeptAlways, PTL
=============================================================================
