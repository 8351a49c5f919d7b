------------------------------ MODULE Adapters ------------------------------
(***************************************************************************)
(* The seven format adapters of runtime/connectors/adapters: which records *)
(* an adapter finds in an input, one element after the other, and where it *)
(* skips or raises. An input is                                            *)
(*   [type: str | bytes | undecodable | stream | scalar,                   *)
(*    shape: array | object | scalar | under_items, big, bom, rewinds,     *)
(*    elements].                                                           *)
(* rewinds: every iter() of the input starts at its beginning, as of a     *)
(* list, which has a length besides. An element is a JSON value [blank,    *)
(* long, deep, json: mapping | other | broken, split, rec], or a physical  *)
(* line of CSV [cells, open, bad]: open when a quoted cell goes on in the  *)
(* next line, bad when a cell is too long for the reader. In rec a number  *)
(* with a fraction or an exponent is the Decimal of its spelling.          *)
(***************************************************************************)
EXTENDS FieldValues

Streaming == {"streaming_csv", "streaming_json", "streaming_jsonl"}
Tabular   == {"csv", "streaming_csv"}
Lines     == {"jsonl", "streaming_jsonl"}

\* What an adapter makes of an element: the record it yields, or none.
Yields(rec, log) == [yields |-> TRUE, raises |-> FALSE, rec |-> rec, log |-> log]
Skips(log)       == [yields |-> FALSE, raises |-> FALSE, rec |-> None, log |-> log]
Raises(log)      == [yields |-> FALSE, raises |-> TRUE, rec |-> None, log |-> log]

\* An element with its number.
At(n, element) == [key \in DOMAIN element \cup {"n"} |-> IF key = "n" THEN n ELSE element[key]]

Numbered(elements) == [i \in DOMAIN elements |-> At(i, elements[i])]

-----------------------------------------------------------------------------
\* CSV. The reader joins physical lines to rows while a quote is open.

\* A blank line leaves the quote open.
Joined(row, line) ==
    IF line.cells = <<>> THEN [row EXCEPT !.cells = Append(Front(@), S("joined"))]
    ELSE [row EXCEPT !.cells = Front(@) \o <<S("joined")>> \o Tail(line.cells),
                     !.open = line.open, !.bad = @ \/ line.bad]

ReaderRows(lines) ==
    FoldLeft(LAMBDA rows, line : IF rows # <<>> /\ Last(rows).open
                                 THEN Append(Front(rows), Joined(Last(rows), line))
                                 ELSE Append(rows, line),
             <<>>, lines)

IsList(input) == input.type = "stream" /\ input.rewinds

\* str() of a list of lines is one line: the lines between quotes and commas, so that
\* the first and the last cell of each are no longer what they were. (The cells of a
\* list are closed.)
Repr(lines) ==
    LET Quoted(cells) == IF Len(cells) < 2 THEN <<S("repr")>>
                         ELSE <<S("repr")>> \o Tail(Front(cells)) \o <<S("repr")>>
    IN  [cells |-> IF lines = <<>> THEN <<S("repr")>>
                   ELSE FlattenSeq([i \in DOMAIN lines |-> Quoted(lines[i].cells)]),
         open |-> FALSE, bad |-> \E i \in DOMAIN lines : lines[i].bad]

\* What an adapter takes for the elements of an input: csv makes a text of anything
\* that has a length and is not bytes.
Taken(format, input) ==
    IF format = "csv" /\ IsList(input) THEN <<Repr(input.elements)>> ELSE input.elements

\* The lines of an input. csv strips the byte order mark of a text first.
Physical(format, input) ==
    LET lines == Numbered(Taken(format, input))
    IN  IF format = "streaming_csv" /\ input.bom /\ lines # <<>> /\ lines[1].cells # <<>>
        THEN [lines EXCEPT ![1].cells[1].d = @ \cup {"bom"}] ELSE lines

HasHeader(constants) == Truthy(Get(constants, "has_header", Bool(TRUE)))

\* Variant: the line read to count the columns is put back at the end.
PutBackLast(format, constants, input) ==
    LET rows == ReaderRows(Physical(format, input))
    IN  IF format = "streaming_csv" /\ ~HasHeader(constants) /\ rows # <<>>
        THEN Append(Tail(rows), Head(rows)) ELSE rows

\* Without a header streaming_csv takes the first line from an iterator of its own
\* and chains it in front of the input, which a list then delivers once more; csv
\* seeks back to the start.
InputRows(format, constants, input) ==
    LET lines == Physical(format, input)
    IN  IF format = "streaming_csv" /\ ~HasHeader(constants) /\ input.rewinds /\ lines # <<>>
        THEN ReaderRows(<<lines[1]>> \o lines) ELSE ReaderRows(lines)

\* The row that names or counts the columns: streaming_csv counts the cells of a
\* line, csv those of a row.
FirstRow(format, constants, input) ==
    IF format = "streaming_csv" /\ ~HasHeader(constants) THEN Physical(format, input)[1]
    ELSE ReaderRows(Physical(format, input))[1]

ColumnNames == <<"col_0", "col_1", "col_2", "col_3", "col_4", "col_5", "col_6", "col_7", "col_8">>

\* DictReader.fieldnames: the first row, whatever it is; names are not stripped.
FieldNames(format, constants, input) ==
    LET cells == FirstRow(format, constants, input).cells
    IN  IF Taken(format, input) = <<>> THEN <<>>
        ELSE [i \in DOMAIN cells |-> IF ~HasHeader(constants) THEN ColumnNames[i]
                                     ELSE IF cells[i].d = {} THEN cells[i].s ELSE "decorated"]

\* _process_headers: an empty name is an error, no name at all is not.
HeaderFails(format, constants, input) ==
    LET first == FirstRow(format, constants, input)
    IN  /\ Taken(format, input) # <<>>
        /\ \/ first.bad
           \/ HasHeader(constants) /\ \E i \in DOMAIN first.cells :
                 first.cells[i].s = "empty" /\ "bom" \notin first.cells[i].d

\* The dictionary of a row: of columns with one name the last counts, cells without
\* a name are dropped, and names without a cell are null.
RowRecord(names, row) ==
    LET LastOf(name) == CHOOSE i \in DOMAIN names : /\ names[i] = name
                                                    /\ \A j \in DOMAIN names : names[j] = name => j <= i
    IN  Dict([name \in ToSet(names) |-> IF LastOf(name) \in DOMAIN row.cells
                                        THEN row.cells[LastOf(name)] ELSE None])

\* Whether a row has more or fewer cells than the columns: it is logged, and passes.
Mismatch(names, row) ==
    \/ Len(row.cells) > Len(names)
    \/ \E name \in ToSet(names) : RowRecord(names, row).m[name] = None

\* DictReader.__next__ passes over blank rows.
RowOutcome(names, row) ==
    IF row.bad THEN Raises("none")
    ELSE IF row.cells = <<>> THEN Skips("none")
    ELSE Yields(RowRecord(names, row), IF Mismatch(names, row) THEN "mismatch" ELSE "none")

-----------------------------------------------------------------------------
\* JSON.

\* json.loads makes floats of the numbers with a fraction or an exponent, where ijson
\* makes a Decimal that keeps their spelling. (Also in the lists and mappings that a
\* field holds; what is nested deeper is not told apart.)
FloatTexts == [spelling \in {"7.50", "1E+2"} |-> IF spelling = "7.50" THEN "7.5" ELSE "100.0"]

ToFloat(v) ==
    IF v.t # "decimal" THEN v ELSE Float(IF v.s \in DOMAIN FloatTexts THEN FloatTexts[v.s] ELSE v.s)

LoadedField(v) ==
    CASE v.t = "dict" -> Dict([key \in DOMAIN v.m |-> ToFloat(v.m[key])])
      [] v.t = "list" -> List([i \in DOMAIN v.e |-> ToFloat(v.e[i])])
      [] v.t \notin {"dict", "list"} -> ToFloat(v)

Loaded(rec) == Dict([key \in DOMAIN rec.m |-> LoadedField(rec.m[key])])

\* jsonl splits a text with str.splitlines(), also at a separator inside a string;
\* streaming_jsonl takes the lines of the stream as they come.
JsonLines(format, input) ==
    LET elements == Numbered(input.elements)
    IN  IF format = "streaming_jsonl" THEN elements
        ELSE [i \in DOMAIN elements |-> IF elements[i].split THEN [elements[i] EXCEPT !.json = "broken"]
                                        ELSE elements[i]]

LineFails(line) == line.long \/ line.json = "broken" \/ line.deep

\* Blank lines are passed over; a line that is no mapping is skipped with a warning,
\* and one that is too long, broken or too deep raises.
LineOutcome(line) ==
    IF line.blank THEN Skips("none")
    ELSE IF LineFails(line) THEN Raises(IF line.long \/ line.json # "broken" THEN "none" ELSE "undecodable")
    ELSE IF line.json = "other" THEN Skips("not a mapping") ELSE Yields(Loaded(line.rec), "none")

\* json decodes and measures the whole payload before the first record.
PayloadFails(constants, input) ==
    LET Fails(e) == e.json = "broken" \/ e.deep
        path     == Get(constants, "items_path", None)
    IN  \/ input.big
        \/ \E i \in DOMAIN input.elements : Fails(input.elements[i])
        \/ IF Truthy(path) THEN path # S("items") \/ input.shape # "under_items"
           ELSE input.shape = "scalar"

\* Without a path a top-level object is itself the only item.
PayloadItems(constants, input) ==
    IF input.shape = "under_items" /\ ~Truthy(Get(constants, "items_path", None))
    THEN <<[n |-> 1, json |-> "mapping", rec |-> Dict([items |-> List(<<>>)])]>>
    ELSE Numbered(input.elements)

ItemOutcome(e) == IF e.json = "other" THEN Skips("not a mapping") ELSE Yields(e.rec, "none")

PayloadOutcome(e) == IF e.json = "other" THEN Skips("not a mapping") ELSE Yields(Loaded(e.rec), "none")

\* ijson finds the items under a prefix, and nothing where it leads nowhere; what
\* is broken raises when it is reached, wherever it is. Neither depth nor size is limited.
StreamedItems(constants, input) ==
    LET Prefix == IF input.shape = "under_items" THEN S("items.item")
                  ELSE IF input.shape = "array" THEN S("item") ELSE S("empty")
        items  == Numbered(input.elements)
        Broken == {i \in DOMAIN items : items[i].json = "broken"}
    IN  IF Get(constants, "items_path", S("item")) = Prefix THEN items
        ELSE IF Broken = {} THEN <<>> ELSE <<items[Min(Broken)]>>

\* Variant: what does not parse ends the stream without an error.
BreaksQuietly(e) == IF e.json = "broken" THEN Skips("none") ELSE ItemOutcome(e)

StreamedOutcome(e) == IF e.json = "broken" THEN Raises("undecodable") ELSE ItemOutcome(e)

-----------------------------------------------------------------------------
\* What an adapter can be given. A list that is read without a header, and rewinds, does
\* not start with an open line: its second copy would close the quote, which the cells
\* do not tell.

IsSequence(s) == s \in Seq(ToSet(s))

IsLine(e) ==
    /\ e = [cells |-> e.cells, open |-> e.open, bad |-> e.bad]
    /\ IsSequence(e.cells) /\ e.open \in BOOLEAN /\ e.bad \in BOOLEAN
    /\ \A i \in DOMAIN e.cells : e.cells[i] = Str(e.cells[i].s, e.cells[i].d)

\* What a JSON document or the caller's row holds in a field.
IsRead(v) == v.t \in PlainTypes /\ (v.t = "none" => v = None)

IsJson(e) ==
    /\ e = [blank |-> e.blank, long |-> e.long, deep |-> e.deep, json |-> e.json,
            split |-> e.split, rec |-> e.rec]
    /\ e.json \in {"mapping", "other", "broken"}
    /\ \A key \in DOMAIN e.rec.m : IsRead(e.rec.m[key])

IsInput(format, constants, input) ==
    LET elements == Taken(format, input)
    IN  /\ input = [type |-> input.type, shape |-> input.shape, big |-> input.big, bom |-> input.bom,
                    rewinds |-> input.rewinds, elements |-> input.elements]
        /\ input.shape \in {"array", "object", "scalar", "under_items"}
        /\ IsSequence(elements)
        /\ \A i \in DOMAIN elements :
              IF format \in Tabular THEN IsLine(elements[i]) ELSE IsJson(elements[i])
        /\ (format = "streaming_csv" /\ ~HasHeader(constants) /\ input.rewinds /\ elements # <<>>)
              => ~elements[1].open

-----------------------------------------------------------------------------
\* parse() up to the first element: what raises there, and the elements to come.

WrongType(format, input) ==
    IF format \in Streaming \cup {"rows"} THEN input.type # "stream"
    ELSE input.type \notin {"str", "bytes"} /\ ~(format = "csv" /\ IsList(input))

OpenFails(format, constants, input) ==
    \/ WrongType(format, input)
    \/ format = "csv" /\ input.big
    \/ format \in Tabular /\ HeaderFails(format, constants, input)
    \/ format = "json" /\ PayloadFails(constants, input)

Elements(format, constants, input) ==
    CASE format \in Tabular ->
            LET rows == InputRows(format, constants, input)
            IN  IF HasHeader(constants) /\ rows # <<>> THEN Tail(rows) ELSE rows
      [] format \in Lines         -> JsonLines(format, input)
      [] format = "json"           -> PayloadItems(constants, input)
      [] format = "streaming_json" -> StreamedItems(constants, input)
      [] format = "rows"           -> Numbered(input.elements)

\* rows counts the elements it has seen, skipped ones included.
TooMany(constants, index) ==
    index * 10 >= Tenths[Get(constants, "max_records", Integer("8")).s]

Outcome(format, constants, names, e, index) ==
    CASE format \in Tabular        -> RowOutcome(names, e)
      [] format \in Lines          -> LineOutcome(e)
      [] format = "streaming_json" -> StreamedOutcome(e)
      [] format = "json"           -> PayloadOutcome(e)
      [] format = "rows"           -> IF TooMany(constants, index) THEN Raises("none") ELSE ItemOutcome(e)
=============================================================================
