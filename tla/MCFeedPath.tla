----------------------------- MODULE MCFeedPath -----------------------------
(***************************************************************************)
(* Feeds for FeedPath: every format over short inputs, every kind of       *)
(* malformed element, every refusal of the registry, the mapping file and  *)
(* the writer.                                                             *)
(***************************************************************************)
EXTENDS FeedPath

Entry(key, v) == Dict(key :> v)
Words(seq)    == List([i \in DOMAIN seq |-> S(seq[i])])
Without(d, key) == Dict([k \in DOMAIN d.m \ {key} |-> d.m[k]])

UpTo(S_, n) == UNION {[1..k -> S_] : k \in 0..n}

-----------------------------------------------------------------------------
\* Registries: one entry with the format's own class, or malformed.
Registry(entry) == [file |-> "read", data |-> Entry("formats", Entry("f", entry))]

FormatEntry(class, constants) == Dict("adapter" :> S(class) @@ "constants" :> Dict(constants))

BadRegistries ==
    LET good == FormatEntry("csv", NoEntries)
    IN  {[Registry(good) EXCEPT !.file = "missing"], [Registry(good) EXCEPT !.file = "broken"],
         [file |-> "read", data |-> List(<<>>)], [file |-> "read", data |-> Entry("formats", None)],
         [file |-> "read", data |-> Entry("formats", Entry("g", good))],
         Registry(S("csv")), Registry(With(good, "status", Str("disabled", {}))),
         Registry(Without(good, "adapter")), Registry(With(good, "adapter", S("empty"))),
         Registry(With(good, "adapter", S("nowhere"))), Registry(With(good, "adapter", None)),
         Registry(With(good, "constants", None))}

BadFormats == {S("empty"), None, Str("empty", {"pad"}), S("g")}

-----------------------------------------------------------------------------
\* Mapping files: the id and the name of a product, and what may go wrong.
Rule(source, target, required) ==
    Dict("source" :> S(source) @@ "target" :> Path(target) @@ "required" :> Bool(required))

File(mappings) ==
    [path |-> S("mapping"), suffix |-> "yaml", content |-> Entry("mappings", List(mappings))]

ID   == <<"product", "item_id">>
NAME == <<"product", "text", "name">>
CODE == <<"product", "item_id", "code">>

Plain   == File(<<Rule("id", ID, FALSE), Rule("name", NAME, FALSE)>>)
Strict  == [File(<<Rule("id", ID, TRUE), Rule("name", NAME, TRUE)>>)
               EXCEPT !.content = With(@, "continue_on_error", Bool(FALSE))]
Careful == File(<<Rule("name", NAME, TRUE), Rule("id", ID, TRUE)>>)

\* A source listed twice, a target that replaces a mapping, two sources of one target.
Twice    == File(<<Rule("id", ID, TRUE), Rule("name", NAME, FALSE), Rule("name", <<"label">>, FALSE)>>)
Clash    == File(<<Rule("id", ID, FALSE), Rule("name", <<"product">>, FALSE)>>)
Shared   == File(<<Rule("id", ID, FALSE), Rule("name", ID, FALSE)>>)
Below    == File(<<Rule("id", CODE, FALSE), Rule("name", NAME, FALSE)>>)
Columns_ == File(<<Rule("col_0", ID, FALSE), Rule("col_1", NAME, FALSE)>>)

BadFiles ==
    {[Plain EXCEPT !.path = None], [Plain EXCEPT !.path = S("empty")], [Plain EXCEPT !.suffix = "json"],
     [Plain EXCEPT !.content = Raised], [Plain EXCEPT !.content = List(<<>>)],
     [Plain EXCEPT !.content = Dict(NoEntries)], File(<<>>), File(<<S("id")>>),
     [Plain EXCEPT !.content = With(@, "continue_on_error", S("yes"))],
     File(<<Without(Rule("id", ID, TRUE), "source")>>), File(<<Without(Rule("id", ID, TRUE), "target")>>),
     File(<<With(Rule("id", ID, TRUE), "target", S("empty"))>>),
     File(<<With(Rule("id", ID, TRUE), "required", None)>>)}

-----------------------------------------------------------------------------
\* Plans and writers.
Plan(kind, presence) ==
    [kind |-> kind, order |-> <<"id", "name">>,
     fields |-> "id" :> [path |-> ID, presence |-> "omit_if_missing"]
                @@ "name" :> [path |-> NAME, presence |-> presence]]

Marked   == Entry("null_value_marker", S("null"))
Headed   == Dict("include_header" :> Bool(TRUE) @@ "columns" :> Words(<<"id", "name">>))
Narrow   == Entry("columns", Words(<<"id">>))
BadConfigs ==
    {Entry("missing_value_marker", Integer("7")), Entry("include_header", Integer("1")),
     Entry("columns", S("id")), Entry("columns", List(<<None>>)), Entry("delimiter", S("long")),
     Entry("quotechar", None)}

-----------------------------------------------------------------------------
\* An infra file with its files: everything in its place and accepted.
OnDisk(suffix, content) ==
    [suffix |-> suffix, absolute |-> FALSE, base |-> "file", project |-> "none", content |-> content]

Doc0(format, path) ==
    Dict("input" :> Dict("format" :> format @@ "config" :> Entry("connector_mapping", path))
         @@ "output" :> Dict("archive_type" :> S("local") @@ "archive_config" :> S("archive")
                             @@ "client_type" :> Str("http", {"pad", "up"}) @@ "client_config" :> S("client"))
         @@ "producer" :> Dict("schema_file" :> S("schema") @@ "policy_file" :> S("policy")))

Policy0 ==
    Dict("version" :> S("1.0")
         @@ "core" :> Entry("strictness", Entry("strategy", Str("drop_invalid", {"pad", "up"}))))

Disk0 ==
    "schema" :> OnDisk("yaml", Dict(NoEntries)) @@ "policy" :> OnDisk("yml", Policy0)
    @@ "archive" :> OnDisk("yaml", Dict(NoEntries)) @@ "client" :> OnDisk("yaml", Dict(NoEntries))
    @@ "tax" :> OnDisk("json", Entry("mappings", Dict(NoEntries)))

Feed(registry, mapping, input, plan, writer, config) ==
    [registry |-> registry, input |-> input, plan |-> plan, writer |-> writer, config |-> config,
     prometheus |-> FALSE,
     infra |-> [suffix |-> "yaml", content |-> Doc0(S("f"), mapping.path)],
     disk |-> Disk0 @@ "mapping" :> OnDisk(mapping.suffix, mapping.content)]

-----------------------------------------------------------------------------
\* Inputs.
Input(type, shape, content) ==
    [type |-> type, shape |-> shape, big |-> FALSE, bom |-> FALSE, rewinds |-> FALSE, elements |-> content]

Line(cells) == [cells |-> cells, open |-> FALSE, bad |-> FALSE]

Header  == Line(<<S("id"), S("name")>>)
CsvLines ==
    {Line(<<S("1"), Str("word", {"up"})>>), Line(<<Str("7", {"pad"})>>), Line(<<>>),
     Line(<<S("empty"), S("word"), S("word")>>), [Line(<<S("1"), S("word")>>) EXCEPT !.open = TRUE],
     [Line(<<S("1"), S("word")>>) EXCEPT !.bad = TRUE]}
Headers == {Header, Line(<<S("name"), S("id"), S("name")>>), Line(<<S("id"), S("empty")>>), Line(<<>>),
            Line(<<Str("id", {"pad"}), S("id")>>)}

Json == [blank |-> FALSE, long |-> FALSE, deep |-> FALSE, json |-> "mapping", split |-> FALSE,
         rec |-> Dict("id" :> Integer("7") @@ "name" :> S("word"))]
Elements_ ==
    {Json, [Json EXCEPT !.rec.m["name"] = None], [Json EXCEPT !.rec = Entry("id", S("1"))],
     [Json EXCEPT !.rec.m["id"] = Str("empty", {"pad"})], [Json EXCEPT !.json = "other"],
     [Json EXCEPT !.rec.m["id"] = Decimal("1E+2"), !.rec.m["name"] = Decimal("7.50")],
     [Json EXCEPT !.json = "broken"]}
OddElements ==
    {[Json EXCEPT !.blank = TRUE], [Json EXCEPT !.long = TRUE], [Json EXCEPT !.deep = TRUE],
     [Json EXCEPT !.split = TRUE]}

TypeOf(class)   == IF class \in Streaming \cup {"rows"} THEN "stream" ELSE "str"
Formats         == {"csv", "json", "jsonl", "rows"} \cup Streaming
Tables          == {<<h>> \o rest : h \in Headers, rest \in UpTo(CsvLines, 2)} \cup UpTo(CsvLines, 2)

\* Every table, with and without a header, and lists that rewind.
CsvFeeds ==
    {Feed(Registry(FormatEntry(class, "has_header" :> Bool(header))),
          IF header THEN mapping ELSE Columns_,
          [Input(IF rewinds THEN "stream" ELSE TypeOf(class), "array", table)
               EXCEPT !.bom = bom, !.rewinds = rewinds],
          Plan("csv_row", "omit_if_missing"), "csv", Dict(NoEntries)) :
        class \in Tabular, header \in BOOLEAN, mapping \in {Plain, Strict}, bom \in BOOLEAN,
        rewinds \in BOOLEAN, table \in Tables}

\* For the first line of a list see IsInput, for the others Repr.
Sane(feed_) ==
    LET input  == feed_.input
        closed == IF feed_.registry.data.m["formats"].m["f"].m["adapter"] = S("csv")
                  THEN DOMAIN input.elements ELSE DOMAIN input.elements \cap {1}
    IN  input.rewinds => \A i \in closed : ~input.elements[i].open

PathConstants == {NoEntries, "items_path" :> S("items"), "items_path" :> S("items.item"), "items_path" :> S("empty")}

JsonFeeds ==
    {Feed(Registry(FormatEntry(class, constants)), mapping, Input(TypeOf(class), "array", items),
          Plan("csv_row", presence), "csv", config) :
        class \in {"json", "jsonl", "rows", "streaming_json", "streaming_jsonl"},
        constants \in {NoEntries}, mapping \in {Plain, Careful}, items \in UpTo(Elements_, 2),
        presence \in {"omit_if_missing", "emit_null_if_missing"}, config \in {Dict(NoEntries), Marked, Headed}}

PathFeeds ==
    {Feed(Registry(FormatEntry(class, constants)), Plain, Input(TypeOf(class), shape, items),
          Plan("csv_row", "omit_if_missing"), "csv", Dict(NoEntries)) :
        class \in {"json", "streaming_json"}, constants \in PathConstants,
        shape \in {"array", "under_items"}, items \in UpTo({Json, [Json EXCEPT !.json = "broken"]}, 2)}

ObjectFeeds ==
    {Feed(Registry(FormatEntry(class, constants)), mapping, Input(TypeOf(class), shape, <<Json>>),
          Plan("csv_row", "omit_if_missing"), "csv", Dict(NoEntries)) :
        class \in {"json", "streaming_json"}, constants \in PathConstants, shape \in {"object"},
        mapping \in {Plain, Strict}}

OddJsonFeeds ==
    {Feed(Registry(FormatEntry(class, NoEntries)), mapping, Input(TypeOf(class), "array", <<Json, odd, Json>>),
          Plan("csv_row", "omit_if_missing"), "csv", Dict(NoEntries)) :
        class \in {"json", "jsonl", "rows", "streaming_json", "streaming_jsonl"},
        odd \in OddElements, mapping \in {Plain, Strict, Twice, Clash, Shared}}

\* A target below the item's id: the producer puts a text in the place of its mapping.
BelowFeeds ==
    {Feed(Registry(FormatEntry("rows", NoEntries)), Below, Input("stream", "array", items),
          [Plan("csv_row", presence) EXCEPT !.fields["id"].path = CODE], "csv", Dict(NoEntries)) :
        items \in [1..2 -> {e \in Elements_ : e.json = "mapping"}],
        presence \in {"omit_if_missing", "emit_null_if_missing"}}

\* Inputs of a wrong type or size, and the row limit.
OddFeeds ==
    {Feed(Registry(FormatEntry(class, "max_records" :> Integer("1"))), Plain,
          [Input(type, "array", <<Header, Header>>) EXCEPT !.big = big],
          Plan("csv_row", "omit_if_missing"), "csv", Dict(NoEntries)) :
        class \in Tabular, type \in {"str", "bytes", "undecodable", "stream", "scalar"}, big \in BOOLEAN}
    \cup
    {Feed(Registry(FormatEntry(class, "max_records" :> Integer("1"))), Plain,
          [Input(type, "array", <<Json, Json>>) EXCEPT !.big = big],
          Plan("csv_row", "omit_if_missing"), "csv", Dict(NoEntries)) :
        class \in Formats \ Tabular, type \in {"str", "bytes", "undecodable", "stream", "scalar"},
        big \in BOOLEAN}

\* Three records of one feed under every writer.
WriterFeeds ==
    {Feed(Registry(FormatEntry("rows", NoEntries)), mapping, Input("stream", "array", items),
          Plan(kind, "omit_if_missing"), writer, config) :
        mapping \in {Plain}, items \in [1..3 -> {e \in Elements_ : e.json = "mapping"}],
        kind \in {"csv_row", "json_object"}, writer \in {"csv", "jsonl", "xml"},
        config \in BadConfigs \cup {Dict(NoEntries), Marked, Headed, Narrow, Entry("omit_nulls", Bool(TRUE))}}

Refused ==
    LET good  == Registry(FormatEntry("csv", NoEntries))
        input == Input("str", "array", <<Header, Header>>)
        plan  == Plan("csv_row", "omit_if_missing")
    IN  {Feed(registry, Plain, input, plan, "csv", Dict(NoEntries)) : registry \in BadRegistries}
        \cup {[Feed(good, Plain, input, plan, "csv", Dict(NoEntries))
                   EXCEPT !.infra.content = Doc0(format, S("mapping"))] : format \in BadFormats}
        \cup {Feed(good, file, input, plan, "csv", Dict(NoEntries)) : file \in BadFiles}

-----------------------------------------------------------------------------
\* One short feed under infra files and files on disk of every kind.
Short == Feed(Registry(FormatEntry("rows", NoEntries)), Plain, Input("stream", "array", <<Json>>),
              Plan("csv_row", "omit_if_missing"), "csv", Dict(NoEntries))

\* Short with one more field of a section, or without one.
Section0(section) == Short.infra.content.m[section]
WithField(section, key, v) == [Short EXCEPT !.infra.content.m[section] = With(@, key, v)]

Observed(v) == [Short EXCEPT !.infra.content = With(@, "observability", v)]
Logged_(v)  == Observed(Entry("logging", v))
Flooded(v)  == Logged_(Entry("flood_control_config", v))

InfraFeeds ==
    {[Short EXCEPT !.infra.suffix = suffix] : suffix \in {"yml", "json", "none"}}
    \cup {[Short EXCEPT !.infra.content = doc] :
              doc \in {Raised, List(<<>>), Without(Short.infra.content, "producer"),
                       With(Short.infra.content, "extra", None), With(Short.infra.content, "input", None)}}
    \cup {WithField(section, "extra", None) : section \in {"input", "output", "producer"}}
    \cup {WithField("input", "config", v) : v \in {None, Entry("extra", None), Entry("connector_mapping", Integer("7"))}}
    \cup {WithField("output", key, v) :
              key \in {"archive_type", "client_type"}, v \in {S("noop"), S("nowhere"), None, Str("empty", {"pad"})}}
    \cup {WithField("output", key, v) : key \in {"archive_config", "client_config"}, v \in {S("tax"), S("schema")}}
    \cup {WithField("producer", key, v) :
              key \in {"schema_file", "policy_file", "tax_mapping_file"}, v \in {None, S("empty"), S("tax"), S("policy")}}

FloodFields ==
    ("mode" :> {S("deduplicate"), S("nowhere"), Integer("1")})
    @@ ("enabled" :> {Integer("1"), Str("yes", {"up"}), S("word")})
    @@ ("window_seconds" :> {Float("7.5"), S("nan"), Integer("0"), Bool(FALSE), S("word")})
    @@ ("max_cache_size" :> {S("7"), Float("7.5"), Integer("-1"), Bool(TRUE)})
    @@ ("suppressed_levels" :> {Words(<<"warn">>), Words(<<"word">>), S("info"), List(<<Integer("7")>>)})
    @@ ("key_fields" :> {List(<<>>), Words(<<"empty">>), Words(<<"word">>)})
    @@ ("force_log_attr" :> {S("empty"), None}) @@ ("summary_level" :> {Str("debug", {"up"}), Str("info", {"pad"})})
    @@ ("extra" :> {None})

ObservedFeeds ==
    {Observed(v) : v \in {None, List(<<>>), Entry("log_format", Str("json", {"pad"})), Entry("log_format", S("word")),
                          Entry("labels", Entry("k", S("word"))), Entry("labels", Entry("k", None)),
                          Entry("telemetry", Entry("provider", S("none"))), Entry("telemetry", Entry("provider", S("word")))}}
    \cup {Logged_(Entry("level", v)) : v \in {Str("warning", {"up", "pad"}), S("fatal"), S("empty"), None}}
    \cup UNION {{Flooded(Entry(key, v)) : v \in FloodFields[key]} : key \in DOMAIN FloodFields}
    \cup {Flooded(Dict("mode" :> S("deduplicate") @@ "key_fields" :> List(<<>>)))}
    \cup {[Observed(Entry("telemetry", Entry("provider", Str("prometheus", {"up"})))) EXCEPT !.prometheus = installed] :
              installed \in BOOLEAN}

\* What a build is given after another one: files that are accepted, and files that fail
\* at each of its stages.
Monitored == Observed(Entry("telemetry", Entry("provider", S("prometheus"))))
MCRepairs ==
    {Short, Monitored, [Short EXCEPT !.infra.content = Raised], [Short EXCEPT !.disk["mapping"].content = Raised],
     [Short EXCEPT !.disk["policy"].content = Raised], [Short EXCEPT !.disk["client"].content = Raised]}

\* Where each file lies, and policies and tax mappings of every kind.
Places == {[absolute |-> abs, base |-> base, project |-> project] :
              abs \in BOOLEAN, base \in {"none", "file", "directory"}, project \in {"none", "file", "directory"}}

WithTax == WithField("producer", "tax_mapping_file", S("tax"))

PlacedFeeds ==
    {[WithTax EXCEPT !.disk[path].absolute = place.absolute, !.disk[path].base = place.base,
                     !.disk[path].project = place.project] :
        path \in DOMAIN Short.disk, place \in {p \in Places : p.absolute => p.project = "none"}}

Core(core) == [Short EXCEPT !.disk["policy"].content = With(@, "core", core)]
Strict0    == "strictness" :> Entry("strategy", S("warn_only"))

PolicyFeeds ==
    {[Short EXCEPT !.disk["policy"].content = With(@, "version", v)] : v \in {Float("1"), Integer("1"), None}}
    \cup {[Short EXCEPT !.disk["policy"].content = v] :
              v \in {None, List(<<>>), Without(Policy0, "core"), With(Policy0, "extra", None)}}
    \cup {Core(v) : v \in {None, Dict(NoEntries), Entry("strictness", Dict(NoEntries)),
                            Entry("strictness", Entry("strategy", S("word"))), Entry("strictness", Entry("strategy", None))}}
    \cup {Core(Dict(Strict0 @@ "eligibility" :> v)) :
              v \in {None, Dict(NoEntries), Entry("checkout_requirements", None),
                     Entry("checkout_requirements", Entry("merchant_fields", S("word"))),
                     Entry("checkout_requirements", Entry("merchant_fields", Words(<<"word">>)))}}
    \cup {Core(Dict(Strict0 @@ "fault_isolation" :> v)) :
              v \in {Entry("strategy", None), Entry("strategy", Str("ignore", {"up"})), Entry("strategy", S("word")),
                     Entry("strategy", Str("ignore", {"pad"})), Entry("extra", None)}}
    \cup {[WithTax EXCEPT !.disk["tax"].content = v] : v \in {List(<<>>), Dict(NoEntries), Entry("mappings", None)}}

MCFeeds ==
    {{f \in CsvFeeds : Sane(f)}, JsonFeeds, PathFeeds, ObjectFeeds, BelowFeeds, OddJsonFeeds, OddFeeds, WriterFeeds, Refused,
     InfraFeeds, ObservedFeeds, PlacedFeeds, PolicyFeeds, MCRepairs}
=============================================================================
