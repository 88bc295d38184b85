----------------------------- MODULE ScalarBatch -----------------------------
(***************************************************************************)
(* The worker's scalars: what each declares when DuckDB binds a call (the  *)
(* types of its arguments and of its result), and its `process`: DuckDB    *)
(* hands over a batch of columns, the function walks the rows, appends one *)
(* result per row to its Arrow builders, and returns a column.  When a     *)
(* cell has the wrong type, or the column is not of the type that was      *)
(* bound, it returns an error for the whole batch instead.                 *)
(*                                                                         *)
(* A cell is an Option: <<>> is NULL, <<v>> the value v.  A column is a    *)
(* record [type, cells], its type the Arrow DataType as a string.  A call  *)
(* is [fn, columns, captures]: `captures` are the cells of the capture     *)
(* column, from which the columns of the *_from_parts functions were       *)
(* extracted by the caller.                                                *)
(***************************************************************************)
EXTENDS Fingerprint, HelloReference, Wire

CONSTANT Calls

VARIABLES call,     \* the function and its batch
          row,      \* rows done
          built,    \* the builders, a function from column names
          status    \* "running", "ok", "error" or "panic"

vars == <<call, row, built, status>>

Rows == Len(call.columns[1].cells)

-----------------------------------------------------------------------------
\* arrow_io.rs: reading an operand gives NULL, a value, or an error.
NullCell == <<"null">>
TypeError == <<"error">>
Val(v) == <<"value", v>>

\* NULL is looked at before the type of the column, ...
Scalar(col, i, types, v) ==
    IF col.cells[i] = <<>> THEN NullCell
    ELSE IF col.type \notin types THEN TypeError
    ELSE Val(v)

blob_bytes(col, i) ==
    Scalar(col, i, {"Binary", "LargeBinary", "Utf8", "LargeUtf8"}, col.cells[i][1])

text_str(col, i) == Scalar(col, i, {"Utf8", "LargeUtf8"}, col.cells[i][1])

Integers == {"Int8", "Int16", "Int32", "Int64", "UInt8", "UInt16", "UInt32", "UInt64"}

\* Masked to 16 bits: the code point of a negative SMALLINT is its unsigned
\* reading.
u16_at(col, i) == Scalar(col, i, Integers, col.cells[i][1] % 65536)

\* Of the lists, those of integers.
IntegerLists ==
    {"List(Int8)", "List(Int16)", "List(Int32)", "List(Int64)",
     "List(UInt8)", "List(UInt16)", "List(UInt32)", "List(UInt64)"}

Masked(type, list) ==
    [k \in DOMAIN list |->
        IF type \notin IntegerLists \/ list[k] = <<>> THEN 0 ELSE list[k][1] % 65536]

Lists == IntegerLists \union {"List(Utf8)"}

\* Mutant: a column that is not a list is read as NULL.
list_u16_at_Lenient(col, i) ==
    IF col.type \notin Lists \/ col.cells[i] = <<>> THEN NullCell
    ELSE Val(Masked(col.type, col.cells[i][1]))

\* ... except for lists.  NULL elements, and elements of another type, are 0.
list_u16_at(col, i) ==
    IF col.type \notin Lists THEN TypeError
    ELSE IF col.cells[i] = <<>> THEN NullCell
    ELSE Val(Masked(col.type, col.cells[i][1]))

Read(kind, col, i) ==
    CASE kind = "blob" -> blob_bytes(col, i)
      [] kind = "u16" -> u16_at(col, i)
      [] kind = "list" -> list_u16_at(col, i)
      [] kind = "text" -> text_str(col, i)

-----------------------------------------------------------------------------
\* The scalars: the types of the arguments (argument_specs), the type of the
\* result (on_bind), and of `process` the reader of each operand, in the order
\* of its match, with the type of the array that is built.
list_int_type == "List(Int32)"
list_varchar_type == "List(Utf8)"

Processes(reads, builds) == [reads |-> reads, builds |-> builds]

Declares(args, result, process) == [args |-> args, result |-> result, process |-> process]

blob_to_string_batch == Processes(<<"blob">>, "Utf8")

client_hello_arg == "Binary"
ja4_client_hello_arg == "Binary"

Ja3 == Declares(<<client_hello_arg>>, "Utf8", blob_to_string_batch)
Ja3String == Declares(<<client_hello_arg>>, "Utf8", blob_to_string_batch)
Ja3s == Declares(<<"Binary">>, "Utf8", blob_to_string_batch)
Ja4Scalar == Declares(<<ja4_client_hello_arg>>, "Utf8", blob_to_string_batch)
Ja4RawScalar == Declares(<<ja4_client_hello_arg>>, "Utf8", blob_to_string_batch)
IsTlsHandshakeScalar == Declares(<<"Binary">>, "Boolean", Processes(<<"blob">>, "Boolean"))
ParseClientHelloScalar == Declares(<<"Binary">>, "Struct", Processes(<<"blob">>, "Struct"))

Ja3FromParts ==
    Declares(<<"Int32", list_int_type, list_int_type, list_int_type, list_int_type>>,
             "Utf8", Processes(<<"u16", "list", "list", "list", "list">>, "Utf8"))

Ja3sFromParts ==
    Declares(<<"Int32", "Int32", list_int_type>>,
             "Utf8", Processes(<<"u16", "u16", "list">>, "Utf8"))

Ja4FromParts ==
    Declares(<<"Int32", list_int_type, list_int_type, list_int_type, "Utf8">>,
             "Utf8", Processes(<<"u16", "list", "list", "list", "text">>, "Utf8"))

register ==
    [is_tls_handshake |-> IsTlsHandshakeScalar,
     ja3 |-> Ja3, ja3_string |-> Ja3String, ja3_from_parts |-> Ja3FromParts,
     ja3s |-> Ja3s, ja3s_from_parts |-> Ja3sFromParts,
     ja4 |-> Ja4Scalar, ja4_raw |-> Ja4RawScalar, ja4_from_parts |-> Ja4FromParts,
     parse_client_hello |-> ParseClientHelloScalar]

Operands(fn) == register[fn].process.reads

ReadRow(i) ==
    [k \in DOMAIN Operands(call.fn) |->
        Read(Operands(call.fn)[k], call.columns[k], i)]

-----------------------------------------------------------------------------
\* The functions of tlsfp-core behind the scalars: the
\* Option of the parser, mapped.
ja3_bytes(bytes) ==
    LET parsed == ParseClientHello(bytes)
    IN [i \in DOMAIN parsed |-> ja3(parsed[i])]

ja3_string_bytes(bytes) ==
    LET parsed == ParseClientHello(bytes)
    IN [i \in DOMAIN parsed |-> ja3_string(parsed[i])]

ja4_bytes(bytes) ==
    LET parsed == ParseClientHello(bytes)
    IN [i \in DOMAIN parsed |-> ja4(parsed[i])]

ja4_raw_bytes(bytes) ==
    LET parsed == ParseClientHello(bytes)
    IN [i \in DOMAIN parsed |-> ja4_raw(parsed[i])]

ja3s_bytes(bytes) ==
    LET parsed == ParseServerHello(bytes)
    IN [i \in DOMAIN parsed |-> ja3s(parsed[i])]

\* Mutant: not narrowed to the byte that a point format is.
AsU8_Wide(values) == values

AsU8(values) == [k \in DOMAIN values |-> values[k] % 256]

Compute(fn, v) ==
    CASE fn = "is_tls_handshake" -> <<IsTlsHandshake(v[1])>>
      [] fn = "ja3" -> ja3_bytes(v[1])
      [] fn = "ja3_string" -> ja3_string_bytes(v[1])
      [] fn = "ja4" -> ja4_bytes(v[1])
      [] fn = "ja4_raw" -> ja4_raw_bytes(v[1])
      [] fn = "ja3s" -> ja3s_bytes(v[1])
      [] fn = "parse_client_hello" -> ParseClientHello(v[1])
      [] fn = "ja3_from_parts" ->
            <<md5(ja3_string_from_parts(v[1], v[2], v[3], v[4], AsU8(v[5])))>>
      [] fn = "ja3s_from_parts" -> <<md5(ja3s_string_from_parts(v[1], v[2], v[3]))>>
      [] fn = "ja4_from_parts" -> <<ja4_from_parts(v[1], v[2], v[3], v[4], v[5])>>

\* The value of a row: NULL as soon as one operand is.
RowValue(fn, read) ==
    IF \E k \in DOMAIN read : read[k] = NullCell THEN <<>>
    ELSE Compute(fn, [k \in DOMAIN read |-> read[k][2]])

-----------------------------------------------------------------------------
\* Builders.  A list builder keeps all elements in one child array and closes
\* a row with `append`; a row that is not valid has no elements.
ListBuilder == [values |-> <<>>, ends |-> <<>>, valid |-> <<>>]

AppendList(b, elements) ==
    [values |-> b.values \o elements,
     ends |-> Append(b.ends, Len(b.values) + Len(elements)),
     valid |-> Append(b.valid, TRUE)]

AppendNullList(b) ==
    [b EXCEPT !.ends = Append(@, Len(b.values)), !.valid = Append(@, FALSE)]

\* The arrays of the struct, in the order in which StructArray::new gets them,
\* and its fields: the pairing is by position.
BuilderType ==
    [version |-> "Int32", sni |-> "Utf8", ciphers |-> list_int_type,
     extensions |-> list_int_type, curves |-> list_int_type, alpn |-> list_varchar_type]

\* Mutant: the decoder finishes two of its builders in the other order.
StructArrays_Swapped == <<"version", "ciphers", "sni", "extensions", "curves", "alpn">>

StructArrays == <<"version", "sni", "ciphers", "extensions", "curves", "alpn">>

client_hello_struct_fields ==
    << <<"version", "Int32">>, <<"sni", "Utf8">>, <<"ciphers", list_int_type>>,
       <<"extensions", list_int_type>>, <<"curves", list_int_type>>,
       <<"alpn", list_varchar_type>> >>

ArraysFitFields ==
    \A k \in DOMAIN client_hello_struct_fields :
        BuilderType[StructArrays[k]] = client_hello_struct_fields[k][2]

ListColumns == {"ciphers", "extensions", "curves", "alpn"}

Builders(fn) ==
    IF fn # "parse_client_hello" THEN [value |-> <<>>]
    ELSE [version |-> <<>>, sni |-> <<>>, valid |-> <<>>,
          ciphers |-> ListBuilder, extensions |-> ListBuilder,
          curves |-> ListBuilder, alpn |-> ListBuilder]

AppendStruct(b, ch) ==
    [version |-> Append(b.version, <<ch.legacy_version>>),
     sni |-> Append(b.sni, ch.sni),
     valid |-> Append(b.valid, TRUE),
     ciphers |-> AppendList(b.ciphers, ch.ciphers),
     extensions |-> AppendList(b.extensions, ch.extensions),
     curves |-> AppendList(b.curves, ch.curves),
     alpn |-> AppendList(b.alpn, ch.alpn)]

\* Mutant: a NULL row is not closed in the list columns.
AppendNullStruct_OpenLists(b) ==
    [c \in DOMAIN b |->
        IF c \in ListColumns THEN b[c]
        ELSE Append(b[c], IF c = "valid" THEN FALSE ELSE <<>>)]

AppendNullStruct(b) ==
    [c \in DOMAIN b |->
        IF c \in ListColumns THEN AppendNullList(b[c])
        ELSE Append(b[c], IF c = "valid" THEN FALSE ELSE <<>>)]

AppendRow(fn, b, value) ==
    IF fn # "parse_client_hello" THEN [value |-> Append(b.value, value)]
    ELSE IF value = <<>> THEN AppendNullStruct(b)
    ELSE AppendStruct(b, value[1])

-----------------------------------------------------------------------------
\* What is handed over.  The fields of a parsed hello that the operands of a
\* *_from_parts function stand for, in the order of its arguments.
FirstOf(names) == IF names = <<>> THEN <<>> ELSE names[1]

Fields(fn, h) ==
    CASE fn = "ja3_from_parts" ->
            <<h.legacy_version, h.ciphers, h.extensions, h.curves, h.point_formats>>
      [] fn = "ja3s_from_parts" -> <<h.legacy_version, h.cipher, h.extensions>>
      [] fn = "ja4_from_parts" ->
            <<effective_version(h.supported_versions, h.legacy_version),
              h.ciphers, h.extensions, h.sig_algs, FirstOf(h.alpn)>>

PartsFunctions == {"ja3_from_parts", "ja3s_from_parts", "ja4_from_parts"}

\* The parser that a function runs on a capture, or its caller has run.
ParsedFor(fn, bytes) ==
    IF fn \in {"ja3s", "ja3s_from_parts"} THEN ParseServerHello(bytes)
    ELSE ParseClientHello(bytes)

\* The point formats of JA3 are code points of 8 bits, all others have 16.
CodePoints(fn, k) == IF fn = "ja3_from_parts" /\ k = 5 THEN 256 ELSE 65536

\* A value of an operand stands for a field of a hello: a code point may be its
\* reading as a negative number.
StandsFor(kind, codes, value, field) ==
    /\ kind = "u16" => value % codes = field
    /\ kind = "text" => value = field
    /\ kind = "list" =>
          /\ DOMAIN value = DOMAIN field
          /\ \A j \in DOMAIN field :
                value[j] # <<>> /\ value[j][1] \in Int /\ value[j][1] % codes = field[j]

\* The columns hold the types of the tool that parsed the handshakes, signed or
\* not and of any width that holds what it extracted.
ExtractedTypes(c) ==
    LET types == [blob |-> {"Binary"}, text |-> {"Utf8"}, u16 |-> Integers,
                  list |-> IntegerLists]
    IN \A k \in DOMAIN c.columns : c.columns[k].type \in types[Operands(c.fn)[k]]

\* The hello in row i: that of its capture, if it is not NULL.
HelloIn(c, i) ==
    IF c.captures[i] = <<>> THEN <<>> ELSE ParsedFor(c.fn, c.captures[i][1])

\* Row i holds its capture, or the fields of the hello in it; without a hello, at
\* least one of the fields is NULL.
Extracted(c, i) ==
    IF c.fn \notin PartsFunctions THEN c.columns[1].cells[i] = c.captures[i]
    ELSE IF HelloIn(c, i) = <<>>
    THEN \E k \in DOMAIN c.columns : c.columns[k].cells[i] = <<>>
    ELSE \A k \in DOMAIN c.columns :
            /\ c.columns[k].cells[i] # <<>>
            /\ StandsFor(Operands(c.fn)[k], CodePoints(c.fn, k),
                         c.columns[k].cells[i][1], Fields(c.fn, HelloIn(c, i)[1])[k])

\* DuckDB binds a call with the number of arguments that was declared.
ASSUME CallsAssumption ==
    \A c \in Calls :
        /\ c.fn \in DOMAIN register
        /\ DOMAIN c.columns = DOMAIN Operands(c.fn)
        /\ Len(c.columns[1].cells) \in Nat

\* The caller extracts its columns from the captures.
ASSUME ExtractionAssumption ==
    \A c \in Calls :
        ExtractedTypes(c) =>
            \A i \in 1 .. Len(c.columns[1].cells) : Extracted(c, i)

\* A capture is a BLOB.
ASSUME CapturesAssumption ==
    \A c \in Calls : \A i \in 1 .. Len(c.columns[1].cells) :
        c.captures[i] # <<>> => c.captures[i][1] \in Seq(Byte)

-----------------------------------------------------------------------------
Init ==
    /\ call \in Calls
    /\ row = 0
    /\ built = Builders(call.fn)
    /\ status = "running"

\* One turn of the row loop.
ProcessRow ==
    /\ status = "running" /\ row < Rows
    /\ \E read \in {ReadRow(row + 1)} :
          /\ \A k \in DOMAIN read : read[k] # TypeError
          /\ \E value \in {RowValue(call.fn, read)} :
                built' = AppendRow(call.fn, built, value)
    /\ row' = row + 1
    /\ UNCHANGED <<call, status>>

\* A `?` on an operand leaves the function; what was built is dropped.
Abort ==
    /\ status = "running" /\ row < Rows
    /\ \E read \in {ReadRow(row + 1)} :
          \E k \in DOMAIN read : read[k] = TypeError
    /\ status' = "error"
    /\ built' = Builders(call.fn)
    /\ UNCHANGED <<call, row>>

\* The entries of a finished array, or of the validity of the struct.
Entries(c) == Len(IF c \in ListColumns THEN built[c].ends ELSE built[c])

\* StructArray::new panics on arrays that are not those of the fields or that
\* differ in length, and RecordBatch::try_new fails on a column that is not of
\* the bound type.
StructPanics ==
    ~ArraysFitFields \/ \E c \in DOMAIN built : Entries(c) # Len(built.valid)

Finish ==
    /\ status = "running" /\ row = Rows
    /\ status' = IF call.fn = "parse_client_hello" /\ StructPanics THEN "panic"
                 ELSE IF register[call.fn].process.builds # register[call.fn].result
                 THEN "error" ELSE "ok"
    /\ UNCHANGED <<call, row, built>>

Returned ==
    /\ status # "running"
    /\ UNCHANGED vars

Next == ProcessRow \/ Abort \/ Finish \/ Returned

Spec == Init /\ [][Next]_vars

-----------------------------------------------------------------------------
\* The cell at row i of an output column, as DuckDB reads it.
ListCell(b, i) ==
    IF ~b.valid[i] THEN <<>>
    ELSE <<SubSeq(b.values, IF i = 1 THEN 1 ELSE b.ends[i - 1] + 1, b.ends[i])>>

ArrayCell(c, i) == IF c \in ListColumns THEN ListCell(built[c], i) ELSE built[c][i]

Output(i) ==
    IF call.fn # "parse_client_hello" THEN built.value[i]
    ELSE IF ~built.valid[i] THEN <<>>
    ELSE LET fields == client_hello_struct_fields
             Position(name) == CHOOSE k \in DOMAIN fields : fields[k][1] = name
         IN <<[name \in {fields[k][1] : k \in DOMAIN fields} |->
                  ArrayCell(StructArrays[Position(name)], i)]>>

\* All child arrays of the struct have one entry per row done, the condition
\* under which StructArray::new does not panic, and the null of a struct is the
\* null of each of its children.
RowsAligned ==
    call.fn = "parse_client_hello" =>
        \A c \in DOMAIN built :
            LET valid == IF c \in ListColumns THEN built[c].valid
                         ELSE IF c = "valid" THEN built.valid
                         ELSE [i \in DOMAIN built[c] |-> built[c][i] # <<>>]
            IN /\ Len(valid) = (IF status = "error" THEN 0 ELSE row)
               /\ c \in ListColumns => Len(built[c].ends) = Len(valid)
               /\ c # "sni" => valid = built.valid

\* The columns have the types that argument_specs asks for, which is how DuckDB
\* binds a call, ...
AsDeclared ==
    \A k \in DOMAIN call.columns : call.columns[k].type = register[call.fn].args[k]

\* ... or the types that the readers take, ...
WellTyped(kind, type) ==
    \/ kind = "blob" /\ type \in {"Binary", "LargeBinary", "Utf8", "LargeUtf8"}
    \/ kind = "u16" /\ type \in Integers
    \/ kind = "list" /\ type \in Lists
    \/ kind = "text" /\ type \in {"Utf8", "LargeUtf8"}

\* ... or those of the tool that parsed the handshakes.
AsExtracted == ExtractedTypes(call)

\* README.md: a call that DuckDB bound with the types the function declares never
\* fails, whatever the data: what argument_specs asks for is what `process`
\* reads, and what `process` builds is what on_bind promised, field by field.
BoundCallsSucceed == AsDeclared => status \in {"running", "ok"}

\* What a struct of the decoder should hold for the given capture.
StructOf(bytes) ==
    LET parsed == ParseClientHello(bytes)
    IN IF parsed = <<>> THEN <<>>
       ELSE <<[version |-> <<parsed[1].legacy_version>>, sni |-> parsed[1].sni,
               ciphers |-> <<parsed[1].ciphers>>,
               extensions |-> <<parsed[1].extensions>>,
               curves |-> <<parsed[1].curves>>, alpn |-> <<parsed[1].alpn>>]>>

\* The bytes function that a *_from_parts function stands for.
BytesFunction(fn) ==
    CASE fn = "ja3_from_parts" -> "ja3"
      [] fn = "ja3s_from_parts" -> "ja3s"
      [] fn = "ja4_from_parts" -> "ja4"
      [] OTHER -> fn

\* scalar/mod.rs: the result of a row is a function of its capture alone,
\* whatever the other rows of the batch hold: NULL exactly when the capture is
\* NULL or does not parse, and the same in bytes and in parts mode.
RowsIndependent ==
    status # "error" /\ AsExtracted =>
        \A i \in 1 .. row :
            Output(i) =
                IF call.captures[i] = <<>> THEN <<>>
                ELSE IF call.fn = "parse_client_hello"
                     THEN StructOf(call.captures[i][1])
                     ELSE Compute(BytesFunction(call.fn), call.captures[i])

\* An error is about the type of a column: a function that gets the columns it
\* asks for returns one for no data, and one that reports success read no cell
\* of another type.
ErrorsAreTypeErrors ==
    LET kinds == Operands(call.fn)
        bad == {k \in DOMAIN kinds : ~WellTyped(kinds[k], call.columns[k].type)}
    IN /\ status = "error" => bad # {}
       /\ status = "ok" => \A k \in bad, i \in 1 .. Rows :
                               call.columns[k].cells[i] = <<>>
=============================================================================
