------------------------------ MODULE Writers ------------------------------
(***************************************************************************)
(* The writers of core/writers: which configurations they accept, and what *)
(* they make of one record. A CSV row is a sequence of values, a JSON      *)
(* object a function from keys to values; a cell of a row is Missing, None *)
(* or a text.                                                              *)
(***************************************************************************)
EXTENDS FieldValues

\* The ids of build_default_writer_registry.
WriterIds == {"csv", "jsonl"}

-----------------------------------------------------------------------------
\* CSVWriter.__init__

MissingMarker(config) == Get(config, "missing_value_marker", S("empty"))
NullMarker(config)    == Get(config, "null_value_marker", S("empty"))

Columns(config) == Get(config, "columns", None)

CSVRefuses(config) ==
    \/ ~IsStr(MissingMarker(config)) \/ ~IsStr(NullMarker(config))
    \/ Columns(config) # None /\ \/ Columns(config).t # "list"
                                 \/ \E i \in DOMAIN Columns(config).e : ~IsStr(Columns(config).e[i])
    \/ Columns(config) = None /\ Truthy(Get(config, "include_header", Bool(FALSE)))

\* WriterRegistry.create: the id is known and the factory does not raise. The
\* JSONL writer takes any configuration.
WriterFails(id, config) ==
    id \notin WriterIds \/ (id = "csv" /\ CSVRefuses(config))

\* csv.writer accepts delimiters and quotes of one character only, and says so
\* when the first chunk is asked for.
DialectFails(config) ==
    \/ ToText(Get(config, "delimiter", S("comma"))).s \notin {"comma", "semicolon", "tab"}
    \/ ToText(Get(config, "quotechar", S("quote"))).s \notin {"quote", "apostrophe"}

HasHeaderRow(id, config) ==
    id = "csv" /\ Truthy(Get(config, "include_header", Bool(FALSE)))

-----------------------------------------------------------------------------
\* CSVWriter._serialize_row and _serialize_value

\* Variant: every row starts with flags of its own.
FlagsPerRow(flags, row) == {row[i].t : i \in DOMAIN row} \cap {"missing", "none"}

\* saw_missing and saw_none after a row, as the set of the flags that are up.
Flags(flags, row) == flags \cup ({row[i].t : i \in DOMAIN row} \cap {"missing", "none"})

MarkersConflict(config, flags) ==
    flags = {"missing", "none"} /\ MissingMarker(config) = NullMarker(config)

Serialized(config, v) ==
    CASE v.t = "missing" -> MissingMarker(config)
      [] v.t = "none"    -> NullMarker(config)
      [] v.t = "bool"    -> S(v.s)
      [] v.t \notin {"missing", "none", "bool"} -> ToText(v)

\* A mapping is no row, and a row may have another size than the columns.
RowFails(config, flags, record) ==
    IF record.t # "list" THEN TRUE
    ELSE \/ Columns(config) # None /\ Len(record.e) # Len(Columns(config).e)
         \/ MarkersConflict(config, Flags(flags, record.e))

RowChunk(config, record) == [i \in DOMAIN record.e |-> Serialized(config, record.e[i])]

-----------------------------------------------------------------------------
\* JSONLWriter._filter_record: nulls are kept unless the configuration drops them.
Kept(config, record) ==
    {key \in DOMAIN record.m :
        /\ record.m[key] # Missing
        /\ ~(Truthy(Get(config, "omit_nulls", Bool(FALSE))) /\ record.m[key] = None)}

ObjectChunk(config, record) == [key \in Kept(config, record) |-> record.m[key]]

-----------------------------------------------------------------------------
\* One record, in either writer.

WriteFails(id, config, flags, record) ==
    IF id = "csv" THEN RowFails(config, flags, record) ELSE ~IsMapping(record)

ChunkOf(id, config, record) ==
    IF id = "csv" THEN RowChunk(config, record) ELSE ObjectChunk(config, record)

FlagsAfter(id, flags, record) == IF id = "csv" THEN Flags(flags, record.e) ELSE flags
=============================================================================
