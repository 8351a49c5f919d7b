-------------------------- MODULE MCItemProcessing -----------------------------
(***************************************************************************)
(* Schemas for TLC: every chain of one or two transforms on the field "f", *)
(* then documents in which every part is once null, of a wrong type and    *)
(* absent, and in which rules, deletions and presences combine.            *)
(***************************************************************************)
EXTENDS ItemProcessing

MCAlphabet == <<"a_rule", "b_rule", "bogus", "c_rule", "enum", "f", "id", "nowhere", "range",
                "regex", "required", "required_if_profile", "type">>

NoContext == [given |-> FALSE]
Context   == [given |-> TRUE,
              tax_mapping |-> <<"a">> :> "code_a" @@ <<"a", "b">> :> "code_ab"]

File == [suffix |-> "yaml", protocol |-> "p", version |-> "v", wellformed |-> TRUE]

With(d, key, v) == Dict((key :> v) @@ d.m)
Without(d, key) == Dict([k \in DOMAIN d.m \ {key} |-> d.m[k]] @@ NoEntries)
Entry(key, v)   == Dict(key :> v)
Words(e)        == List([i \in DOMAIN e |-> S(e[i])])

\* Transforms.
Op(op)             == Entry("op", S(op))
OpOf(op, args)     == With(Op(op), "args", Dict(args))
OnMissing(call, m) == With(call, "on_missing", S(m))
Pattern(holes)     == [t |-> "str", s |-> "pattern", d |-> {}, holes |-> holes]

Transforms == <<
    Op("to_str"), Op("to_int"), Op("to_decimal"), Op("to_bool"),
    Op("bool_to_availability"), Op("int_to_availability"),
    Op("trim"), Op("lower"), Op("upper"), Op("strip_html"), Op("normalize_whitespace"),
    OpOf("regex_extract", "pattern" :> S("digits")),
    OpOf("regex_extract", "pattern" :> S("maybe")),
    OpOf("strip_suffix", "delimiters" :> Words(<<"dot">>)),
    OpOf("truncate", "max_length" :> Integer("1")),
    Op("parse_date"), Op("format_date"), Op("format_datetime_utc"),
    OpOf("round_decimal", "decimals" :> Integer("0")),
    OpOf("format_money", "decimals" :> Integer("1") @@ "pattern" :> Pattern({})),
    OpOf("format_price", "currency" :> S("eur")), Op("format_price"),
    OpOf("format_shipping", "pattern" :> Pattern({"country", "speed_range"})
                            @@ "defaults" :> Entry("country", S("ua"))),
    OpOf("map_tax_code", NoEntries),
    OpOf("get_path", "path" :> Path(<<"inner", "0">>)),
    OpOf("default_value", "value" :> S("1")),
    Op("emit_if_present"), Op("emit_null_if_missing"), Op("omit_if_missing"),
    OnMissing(Op("lower"), "pass"), OnMissing(Op("to_int"), "omit"),
    OnMissing(Op("to_str"), "error"),
    OnMissing(OpOf("upper", "default" :> Integer("8")), "default"),
    \* called wrongly: these raise for every record
    OnMissing(Op("trim"), "default"),
    OpOf("regex_extract", "pattern" :> S("digits") @@ "group" :> Integer("7")),
    OpOf("regex_extract", "pattern" :> S("digits") @@ "group" :> Integer("0")),
    Op("strip_suffix"), Op("truncate"), OpOf("parse_date", "fmt" :> S("stamp")),
    OpOf("parse_date", "fmt" :> S("empty")), Op("get_path"),
    OpOf("round_decimal", "decimals" :> Integer("-1")), Op("default_value"), Op("map_tax_code"),
    OpOf("format_money", "decimals" :> Integer("0") @@ "pattern" :> S("unknown_placeholder")),
    OpOf("format_date", "out_fmt" :> Integer("1")),
    \* reported by the compiler
    Op("bogus"), Op("concat"), Op("empty"), Integer("7"),
    With(Op("trim"), "args", S("x")), OnMissing(Op("trim"), "bogus") >>

\* Input records.
Item(v) == Dict("id" :> S("7") @@ "f" :> v)

Values == {
    None, S("empty"), Str("empty", {"pad"}), S("true"), Str("yes", {"up", "pad"}), S("off"),
    S("1"), S("7.5"), Str("7", {"pad"}), S("nan"), S("inf"),
    Str("word", {"pad", "up", "tag", "gap"}), S("date"), Str("datetime", {"pad"}),
    Bool(TRUE), Bool(FALSE), Integer("0"), Integer("7"), Integer("-1"), Float("7.5"),
    Float("nan"), Decimal("8"), Date, DateTime, List(<<>>), List(<<Integer("1")>>),
    Entry("inner", List(<<S("7.5")>>)),
    List(<<Entry("min_transit_time", S("1")), S("flat")>>), Entry("max_transit_time", S("word")),
    Entry("tax_category", Path(<<"a", "b", "c">>)), Entry("tax_code_override", S("word")),
    Entry("taxable", S("no")) }

FewValues == {None, Str("word", {"pad", "up"}), S("7.5"), Integer("7"), Bool(TRUE), Date,
              Float("7.5"), Entry("inner", List(<<S("7.5")>>))}

Items(values) == {Item(v) : v \in values} \cup {Entry("id", S("7"))}

\* Documents.
Field(path, transforms) == Dict("source" :> Entry("path", Path(path))
                                @@ "transforms" :> List(transforms))
Presence(d, word) == With(d, "presence", Entry("default", S(word)))

Mapping(kind, byId) ==
    Dict("output_kind" :> S(kind) @@ "fields" :> Dict(byId)
         @@ "output_order" :> Words(<<"id", "f">>))

Document(mapping, rules) ==
    Dict("header" :> Dict("protocol_id" :> S("p") @@ "schema_version" :> S("v")
                          @@ "artifact_profile" :> S("retail") @@ "title" :> S("t")
                          @@ "source_protocol" :>
                                Dict("provider" :> S("word") @@ "url" :> S("word")
                                     @@ "revision" :> S("1") @@ "retrieved_at" :> S("date")))
         @@ "input" :> Entry("um_contract", S("word"))
         @@ "output" :> Dict("writer_id" :> S("csv")
                @@ "artifact" :> Dict("file_ext" :> S("csv") @@ "file_extension" :> S("csv")
                                      @@ "content_type" :> S("text")))
         @@ "mapping" :> mapping
         @@ "validation" :> Entry("rules", List(rules)))

TwoFields(transforms) == "id" :> Field(<<"id">>, <<>>) @@ "f" :> Field(<<"f">>, transforms)
Rows(transforms)      == Mapping("csv_row", TwoFields(transforms))
Valid                 == Document(Rows(<<Op("trim")>>), <<>>)

Rule(id, module, field, config, hint) ==
    LET rule == Dict("module_id" :> S(module) @@ "config" :> Dict(config)
                     @@ "on_fail" :> Entry("severity_hint", S(hint)))
        placed == IF field = "none" THEN rule ELSE With(rule, "applies_to", Entry("field", S(field)))
    IN  IF id = "none" THEN placed ELSE With(placed, "id", S(id))

\* f[path] := v, at any depth of a document.
Put(d, path, v) ==
    CASE Len(path) = 1 -> With(d, path[1], v)
      [] Len(path) = 2 -> With(d, path[1], With(d.m[path[1]], path[2], v))
      [] Len(path) = 3 -> With(d, path[1], With(d.m[path[1]], path[2],
                                 With(d.m[path[1]].m[path[2]], path[3], v)))
      [] Len(path) = 4 -> With(d, path[1], With(d.m[path[1]], path[2],
                                 With(d.m[path[1]].m[path[2]], path[3],
                                   With(d.m[path[1]].m[path[2]].m[path[3]], path[4], v))))

Drop(d, path) ==
    IF Len(path) = 1 THEN Without(d, path[1])
    ELSE With(d, path[1], IF Len(path) = 2 THEN Without(d.m[path[1]], path[2])
                          ELSE With(d.m[path[1]], path[2], Without(d.m[path[1]].m[path[2]], path[3])))

\* Every entry of a document.
Entries == <<
    <<"header">>, <<"input">>, <<"output">>, <<"mapping">>, <<"validation">>,
    <<"header", "protocol_id">>, <<"header", "schema_version">>,
    <<"header", "artifact_profile">>, <<"header", "title">>,
    <<"header", "source_protocol">>, <<"header", "source_protocol", "provider">>,
    <<"header", "source_protocol", "url">>, <<"header", "source_protocol", "revision">>,
    <<"header", "source_protocol", "retrieved_at">>, <<"input", "um_contract">>,
    <<"output", "writer_id">>, <<"output", "artifact">>,
    <<"output", "artifact", "file_ext">>, <<"output", "artifact", "content_type">>,
    <<"output", "artifact", "file_extension">>,
    <<"mapping", "output_kind">>, <<"mapping", "output_order">>, <<"mapping", "fields">>,
    <<"mapping", "fields", "f">>, <<"validation", "rules">> >>

NewEntries == <<
    <<"output", "writer_config">>, <<"mapping", "presence">>, <<"mapping", "delete_tombstone">>,
    <<"mapping", "fields", "f", "transforms">>, <<"mapping", "fields", "f", "source">>,
    <<"mapping", "fields", "f", "presence">> >>

Malformed ==
    [i \in DOMAIN Entries |-> Drop(Valid, Entries[i])]
    \o [i \in DOMAIN Entries |-> Put(Valid, Entries[i], None)]
    \o [i \in DOMAIN Entries |-> Put(Valid, Entries[i], Integer("7"))]
    \o [i \in DOMAIN NewEntries |-> Put(Valid, NewEntries[i], None)]
    \o [i \in DOMAIN NewEntries |-> Put(Valid, NewEntries[i], Integer("7"))]
    \o <<Integer("7"), None,
         Put(Valid, <<"header", "protocol_id">>, S("another")),
         Put(Valid, <<"output", "writer_id">>, S("bogus")),
         Put(Valid, <<"output", "writer_id">>, S("jsonl")),
         Put(Valid, <<"output", "writer_config">>, Entry("null_value_marker", None)),
         Put(Valid, <<"output", "writer_config">>, Entry("include_header", Bool(TRUE))),
         Put(Valid, <<"output", "writer_config">>, Entry("columns", S("id"))),
         Put(Valid, <<"mapping", "output_kind">>, S("xml")),
         Put(Valid, <<"mapping", "output_order">>, Words(<<"id">>)),
         Put(Valid, <<"mapping", "output_order">>, Words(<<"id", "f", "f">>)),
         Put(Valid, <<"mapping", "output_order">>, Words(<<"id", "nowhere">>)),
         Put(Valid, <<"mapping", "output_order">>, List(<<S("id"), Integer("7")>>)),
         Put(Valid, <<"mapping", "presence">>, Entry("default", S("bogus"))),
         Put(Valid, <<"mapping", "fields", "f", "presence">>, Entry("default", S("bogus"))),
         Put(Valid, <<"mapping", "fields", "f", "source">>, Dict("path" :> Path(<<"f">>)
                                                       @@ "required" :> S("yes"))),
         Put(Valid, <<"validation", "rules">>, List(<<
             Integer("7"), Rule("none", "empty", "f", NoEntries, "WARN"),
             Rule("none", "bogus", "f", NoEntries, "WARN"),
             Rule("none", "regex", "none", NoEntries, "WARN"),
             Rule("none", "required", "nowhere", NoEntries, "WARN")>>)),
         Put(Valid, <<"validation", "rules">>, List(<<
             With(Rule("none", "enum", "f", NoEntries, "WARN"), "config", Integer("7"))>>)),
         Document(Rows(<<Op("to_int")>>), <<Rule("none", "enum", "f", NoEntries, "WARN")>>)>>

\* Presence of a field, of the whole mapping, and both.
Presences ==
    LET words == <<"omit_missing", "emit_null_if_missing", "error_if_missing">>
        Csv(field)  == Mapping("csv_row", "id" :> Field(<<"id">>, <<>>) @@ "f" :> field)
        Json(field) == Mapping("json_object", "id" :> Field(<<"id">>, <<>>) @@ "f" :> field)
        Demands     == <<Rule("none", "required_if_profile", "f",
                              "artifact_profiles" :> Words(<<"wholesale">>), "FAIL")>>
    IN  [i \in 1..3 |-> Document(Csv(Presence(Field(<<"f">>, <<>>), words[i])), Demands)]
        \o [i \in 1..3 |-> Document(Json(Presence(Field(<<"f">>, <<>>), words[i])), Demands)]
        \o [i \in 1..3 |-> Document(Presence(Json(Field(<<"f", "0">>, <<>>)), words[i]), <<>>)]
        \o [i \in 1..3 |-> Document(Presence(Csv(Field(<<>>, <<Op("trim")>>)), words[i]), <<>>)]

\* Deletions: enabled, disabled, by another flag, with an id that is no field.
Deletions ==
    LET Settings == <<
            Entry("enabled", Bool(TRUE)), Entry("enabled", Bool(FALSE)), Dict(NoEntries),
            Dict("enabled" :> Bool(TRUE) @@ "flag_path" :> Path(<<"gone", "now">>)),
            Dict("enabled" :> Bool(TRUE) @@ "id_field" :> S("nowhere")),
            Entry("enabled", S("yes")), Entry("flag_path", Path(<<>>)),
            Entry("id_field", S("empty"))>>
        Csv == Rows(<<Op("trim")>>)
    IN  [i \in DOMAIN Settings |-> Document(With(Csv, "delete_tombstone", Settings[i]), <<>>)]
        \o <<Document(With(Mapping("json_object", TwoFields(<<>>)), "delete_tombstone",
                           Entry("enabled", Bool(TRUE))), <<>>)>>

\* Rules: every module with every kind of configuration, alone and in lists.
Configs == <<
    <<"required", NoEntries>>, <<"required_if_profile", NoEntries>>,
    <<"required_if_profile", "artifact_profile" :> S("retail")>>,
    <<"required_if_profile", "artifact_profiles" :> Words(<<"retail", "empty">>)>>,
    <<"required_if_profile", "artifact_profiles" :> List(<<>>) @@ "artifact_profile" :> S("b2b")>>,
    <<"required_if_profile", "artifact_profiles" :> None @@ "artifact_profile" :> S("b2b")>>,
    <<"type", NoEntries>>, <<"type", "type_id" :> S("bogus")>>, <<"type", "type_id" :> S("int")>>,
    <<"type", "type_id" :> S("array[string]")>>, <<"type", "type_id" :> S("any")>>,
    <<"enum", NoEntries>>, <<"enum", "allowed" :> List(<<>>)>>,
    <<"enum", "allowed" :> Words(<<"true", "1">>)>>,
    <<"range", NoEntries>>, <<"range", "min" :> Integer("1")>>, <<"range", "max" :> S("nan")>>,
    <<"range", "min" :> Integer("7") @@ "max" :> S("inf")>>,
    <<"range", "min" :> S("nan") @@ "max" :> Integer("7")>>,
    <<"range", "min" :> Integer("8") @@ "max" :> Integer("0")>>,
    <<"range", "min" :> Bool(TRUE)>>, <<"range", "max" :> Decimal("8") @@ "min" :> None>> >>

SafeRows == Mapping("csv_row", "id" :> Field(<<"id">>, <<>>)
                               @@ "f" :> Presence(Field(<<"f">>, <<>>), "emit_null_if_missing"))

Ruled ==
    [i \in DOMAIN Configs |-> Document(SafeRows,
        <<Rule("none", Configs[i][1], "f", Configs[i][2], IF i % 2 = 0 THEN "DROP" ELSE "NONE")>>)]
    \o <<Document(SafeRows, <<Rule("b_rule", "required", "f", NoEntries, "WARN"),
                              Rule("a_rule", "type", "f", "type_id" :> S("int"), "DROP"),
                              Rule("c_rule", "range", "f", "min" :> Integer("7"), "FAIL")>>),
         Document(SafeRows, <<Rule("none", "type", "f", "type_id" :> S("string"), "WARN"),
                              Rule("none", "required", "none", NoEntries, "FAIL"),
                              Rule("a_rule", "range", "f", NoEntries, "WARN")>>),
         Document(SafeRows, <<Rule("c_rule", "required", "f", NoEntries, "DROP"),
                              Rule("b_rule", "enum", "f", "allowed" :> Words(<<"1">>), "WARN")>>),
         Document(Rows(<<Op("trim")>>), <<Rule("none", "required", "f", NoEntries, "FAIL")>>)>>

\* The numbered documents.
Documents == Malformed \o Presences \o Deletions \o Ruled

Flagged ==
    {With(Item(S("1")), "delete", flag) :
        flag \in {Bool(TRUE), Bool(FALSE), S("true"), Str("y", {"up", "pad"}), S("on"),
                  Integer("1"), Str("yes", {"gap"}), S("no")}}
    \cup {With(Item(S("1")), "gone", Entry("now", S("1"))), Item(S("1")), Entry("f", S("1"))}

IsMalformed(k) == k <= Len(Malformed)
IsRuled(k)     == k > Len(Documents) - Len(Ruled)

Numbered == [k \in DOMAIN Documents |->
    [file |-> File, doc |-> Documents[k], context |-> NoContext,
     items |-> IF IsRuled(k) THEN Items(Values)
               ELSE IF IsMalformed(k) THEN Items({None, S("1")})
               ELSE Items({None, S("1"), List(<<Integer("1")>>)}) \cup Flagged,
     strategies |-> IF IsRuled(k) THEN {"fail_on_error", "drop_invalid", "warn_only", "none"}
                   ELSE {"warn_only", "none"}]]

Files == <<
    [File EXCEPT !.suffix = "json"], [File EXCEPT !.suffix = "txt"],
    [File EXCEPT !.wellformed = FALSE], [File EXCEPT !.version = "w"]>>

Named == [k \in DOMAIN Files |->
    [file |-> Files[k], doc |-> Valid, context |-> NoContext, items |-> Items({S("1")}),
     strategies |-> {"none"}]]

\* A document whose tax transform has no context, and the others.
Others == Numbered \o Named \o <<
    [file |-> File, doc |-> Document(Rows(<<OpOf("map_tax_code", NoEntries)>>), <<>>),
     context |-> NoContext, items |-> {}, strategies |-> {"none"}]>>

Chain(i, j) == (IF i = 0 THEN <<>> ELSE <<Transforms[i]>>) \o (IF j = 0 THEN <<>> ELSE <<Transforms[j]>>)

ChainSchema(i, j) ==
    [file |-> File,
     doc |-> Document(IF (i + j) % 2 = 0 THEN Rows(Chain(i, j))
                      ELSE Mapping("json_object", TwoFields(Chain(i, j))), <<>>),
     context |-> Context, items |-> Items(IF j = 0 THEN Values ELSE FewValues),
     strategies |-> {"none"}]

MCSchemas ==
    {ChainSchema(i, j) : i \in DOMAIN Transforms, j \in 0..Len(Transforms)} \cup ToSet(Others)

\* What items and documents are made of, level by level.
ElementsOf(values) ==
    {v : v \in UNION {IF v.t = "dict" THEN {v.m[key] : key \in DOMAIN v.m}
                      ELSE IF v.t = "list" THEN ToSet(v.e) ELSE {} : v \in values}}

Level0 ==
    {v : v \in ToSet(Transforms) \cup Items(Values \cup FewValues)
             \cup UNION {s.items \cup SourcesOf(s.doc) \cup ElementsOf(ListsOf(s.doc)) :
                             s \in ToSet(Others)}}
Level1 == ElementsOf(Level0)
Level2 == ElementsOf(Level1)
Level3 == ElementsOf(Level2)
MCData == {v : v \in Level0 \cup Level1 \cup Level2 \cup Level3 \cup ElementsOf(Level3)}
=============================================================================
