------------------------- MODULE SchemaCompilation -------------------------
(***************************************************************************)
(* From a schema file to the compiled schema: the registry's format check  *)
(* of the document (package schema) and SchemaCompiler.compile, which      *)
(* turns the sections output, mapping and validation into plans and        *)
(* collects diagnostics instead of raising. A document is a Dict value; a  *)
(* diagnostic is its code and the place it is about. The compiler reports  *)
(* errors only, so a document compiles when it has no diagnostic.          *)
(***************************************************************************)
EXTENDS MappingOps

CONSTANT Alphabet   \* the ids of rules, modules and fields, in string order

Diag(code, at) == [code |-> code, at |-> at]
ErrorIf(condition, code, at) == IF condition THEN {Diag(code, at)} ELSE {}

StrIn(v, words) == IsStr(v) /\ v.d = {} /\ v.s \in words
Word(v, default) == IF IsStr(v) THEN v.s ELSE default
AsMapping(v)     == IF IsMapping(v) THEN v ELSE Dict(NoEntries)

-----------------------------------------------------------------------------
\* The format check. A file is [suffix, protocol, version, wellformed]: the name
\* <protocol>-<version>.<suffix>, and whether its stem parses as such a name.

\* _get_required_dict and _get_required_string: an explicit null passes.
SectionErrors(v, key) ==
    IF ~IsMapping(v) THEN {}
    ELSE IF ~Has(v, key) THEN {Diag("SCHEMA_MISSING_FIELD", key)}
    ELSE ErrorIf(~IsMapping(v.m[key]) /\ v.m[key] # None, "SCHEMA_INVALID_TYPE", key)

StringErrors(v, key) ==
    IF ~IsMapping(v) THEN {}
    ELSE IF ~Has(v, key) THEN {Diag("SCHEMA_MISSING_FIELD", key)}
    ELSE ErrorIf(~IsStr(v.m[key]) /\ v.m[key] # None, "SCHEMA_INVALID_TYPE", key)

FileNameErrors(file) ==
    ErrorIf(~file.wellformed \/ file.suffix \notin {"yaml", "yml", "json"},
            "SCHEMA_FILENAME_INVALID", "file")

\* validate_schema_doc_format
FormatErrors(doc, file) ==
    LET header   == Get(doc, "header", None)
        protocol == Get(header, "source_protocol", None)
        output   == Get(doc, "output", None)
        artifact == Get(output, "artifact", None)
        rules    == Get(Get(doc, "validation", None), "rules", None)
    IN  UNION {SectionErrors(doc, section) :
                  section \in {"header", "input", "output", "mapping", "validation"}}
        \cup UNION {StringErrors(header, key) :
                  key \in {"protocol_id", "schema_version", "artifact_profile", "title"}}
        \cup SectionErrors(header, "source_protocol")
        \cup UNION {StringErrors(protocol, key) :
                  key \in {"provider", "url", "revision", "retrieved_at"}}
        \cup StringErrors(Get(doc, "input", None), "um_contract")
        \cup StringErrors(output, "writer_id") \cup SectionErrors(output, "artifact")
        \cup StringErrors(artifact, "file_ext") \cup StringErrors(artifact, "content_type")
        \cup StringErrors(Get(doc, "mapping", None), "output_kind")
        \cup ErrorIf(/\ IsMapping(Get(doc, "validation", None))
                     /\ ~Has(doc.m["validation"], "rules"), "SCHEMA_MISSING_FIELD", "rules")
        \cup ErrorIf(rules.t \notin {"list", "none"}, "SCHEMA_INVALID_TYPE", "rules")
        \cup ErrorIf(/\ IsStr(Get(header, "protocol_id", None))
                     /\ IsStr(Get(header, "schema_version", None))
                     /\ \/ header.m["protocol_id"] # S(file.protocol)
                        \/ header.m["schema_version"] # S(file.version),
                     "SCHEMA_HEADER_FILENAME_MISMATCH", "header")

\* extract_ref_from_doc: here a null header or id is an error.
RefErrors(doc) ==
    LET header == Get(doc, "header", None)
    IN  ErrorIf(header.t = "none", "SCHEMA_MISSING_FIELD", "header")
        \cup UNION {ErrorIf(IsMapping(header) /\ ~IsStr(Get(header, key, None)),
                            "SCHEMA_INVALID_TYPE", key) : key \in {"protocol_id", "schema_version"}}

\* SchemaRegistry.register on the new registry of prepare_artifact_producer_from_
\* files: the first check that complains raises, and the file is not used.
RegistrationErrors(doc, file) ==
    IF FileNameErrors(file) # {} THEN FileNameErrors(file)
    ELSE IF ~IsMapping(doc) THEN {Diag("SCHEMA_INVALID_TYPE", "$")}
    ELSE IF FormatErrors(doc, file) # {} THEN FormatErrors(doc, file)
    ELSE RefErrors(doc)

-----------------------------------------------------------------------------
\* The output section: writer and artifact. The compiler reads file_extension,
\* the format check file_ext.
CompileWriterSpec(doc) ==
    LET output   == Get(doc, "output", None)
        artifact == Get(output, "artifact", None)
    IN  [writer_id |-> Word(Get(output, "writer_id", None), "empty"),
         config    |-> AsMapping(Get(output, "writer_config", None)),
         diags |-> ErrorIf(\/ ~IsMapping(output)
                           \/ ~IsStr(Get(output, "writer_id", None))
                           \/ ~IsMapping(Get(output, "writer_config", Dict(NoEntries)))
                           \/ ~IsMapping(artifact)
                           \/ ~IsStr(Get(artifact, "content_type", None))
                           \/ ~IsStr(Get(artifact, "file_extension", None)),
                           "COMPILER_OUTPUT_INVALID", "output")]

-----------------------------------------------------------------------------
\* The mapping section, field by field and transform by transform.

AllowedPresence == {"omit_missing", "emit_null_if_missing", "error_if_missing"}
AllowedOnMissing == {"pass", "default", "omit", "error"}

\* Allowed by the schema contract but provided by no built-in module.
Unimplemented == {"map_enum", "coalesce", "default_if_missing", "concat", "join",
    "bool_to_str_lower", "digits_only", "country_list_to_iso3166_alpha2",
    "url_list_to_comma_separated", "first_url", "validate_url", "date_to_iso",
    "price_to_string", "validate_iso8601_date_range", "disallow_newlines", "disallow_all_caps",
    "plain_text_only", "lowercase_required", "object_string_values_only",
    "normalize_category_path", "assert_max_len", "assert_min", "assert_len_exact",
    "assert_len_range"}
MappingOpAllowlist == DOMAIN Catalog \cup Unimplemented

\* is_type_mismatch: "any" stands for the type that is not known.
TypeMismatch(current, expected) == current # "any" /\ expected # "any" /\ current # expected

\* Variant: the types of a chain are not compared.
NoMismatch(current, expected) == FALSE

\* _prepare_tax_code, the only prepare: the tax mapping joins the arguments.
PreparedArgs(op, args, context) ==
    IF op # "map_tax_code" THEN args
    ELSE [name \in DOMAIN args \cup {"_lookup_data"} |->
             IF name = "_lookup_data" THEN context.tax_mapping ELSE args[name]]

\* One transform: what it adds to the chain compiled so far. A reported transform
\* is left out, except for bad arguments, a bad on_missing or a type mismatch.
CompileTransform(acc, raw, id, context) ==
    LET op         == Get(raw, "op", None)
        args       == Get(raw, "args", None)
        on_missing == Get(raw, "on_missing", None)
        types      == Catalog[op.s]
        Reject(code) == [acc EXCEPT !.diags = @ \cup {Diag(code, id)}]
    IN  IF acc.raised THEN acc
        ELSE IF ~IsMapping(raw) THEN Reject("SCHEMA_TYPE_OP_ARGS_INVALID")
        ELSE IF ~NonEmptyStr(op) THEN Reject("SCHEMA_LINK_OP_INVALID")
        ELSE IF ~StrIn(op, MappingOpAllowlist) THEN Reject("SCHEMA_LINK_OP_NOT_ALLOWED")
        ELSE IF op.s \notin DOMAIN Catalog THEN Reject("SCHEMA_LINK_OP_NOT_FOUND")
        ELSE IF op.s = "map_tax_code" /\ IsMapping(args) /\ ~context.given
        THEN [acc EXCEPT !.raised = TRUE]
        ELSE [type   |-> types.out,
              raised |-> FALSE,
              diags  |-> acc.diags
                  \cup ErrorIf(args # None /\ ~IsMapping(args), "SCHEMA_TYPE_OP_ARGS_INVALID", id)
                  \cup ErrorIf(on_missing # None /\ ~StrIn(on_missing, AllowedOnMissing),
                               "SCHEMA_TYPE_ENUM_INVALID", id)
                  \cup ErrorIf(TypeMismatch(acc.type, types.in), "SCHEMA_TYPE_MISMATCH", id),
              calls  |-> Append(acc.calls,
                  [op |-> op.s, in |-> types.in, out |-> types.out,
                   on_missing |-> IF StrIn(on_missing, AllowedOnMissing) THEN on_missing.s
                                                                         ELSE "none",
                   args |-> IF IsMapping(args) THEN PreparedArgs(op.s, args.m, context)
                                               ELSE NoEntries])]

\* compile_field_presence and read_global_presence. A presence block that is no
\* mapping is ignored.
PresenceOf(section, default) ==
    LET chosen == Get(Get(section, "presence", None), "default", default)
    IN  IF StrIn(chosen, AllowedPresence) THEN chosen ELSE default

FieldPresenceErrors(field, id) ==
    ErrorIf(/\ IsMapping(Get(field, "presence", None))
            /\ Has(field.m["presence"], "default")
            /\ ~StrIn(field.m["presence"].m["default"], AllowedPresence),
            "COMPILER_PRESENCE_DEFAULT_INVALID", id)

GlobalPresenceErrors(mapping) ==
    LET chosen == Get(Get(mapping, "presence", None), "default", None)
    IN  ErrorIf(chosen # None /\ ~StrIn(chosen, AllowedPresence),
                "COMPILER_PRESENCE_DEFAULT_INVALID", "mapping")

\* compile_field_mapping. An explicit null in place of the list of transforms is
\* not reported: enumerating it raises.
CompileField(field, id, presence, context) ==
    LET source     == Get(field, "source", None)
        path       == Get(source, "path", None)
        transforms == Get(field, "transforms", List(<<>>))
        chain == FoldLeft(LAMBDA acc, raw : CompileTransform(acc, raw, id, context),
                          [type |-> "any", calls |-> <<>>, diags |-> {}, raised |-> FALSE],
                          IF transforms.t = "list" THEN transforms.e ELSE <<>>)
    IN  [plan   |-> [path |-> IF IsStr(path) THEN path.segs ELSE <<>>,
                     calls |-> chain.calls,
                     presence |-> PresenceOf(field, presence).s],
         type   |-> chain.type,
         raised |-> chain.raised \/ transforms = None,
         diags  |-> chain.diags \cup FieldPresenceErrors(field, id)
             \cup ErrorIf(~IsStr(path) \/ Get(source, "required", Bool(FALSE)).t # "bool",
                          "COMPILER_MAPPING_FIELD_INVALID", id)
             \cup ErrorIf(transforms.t \notin {"list", "none"}, "SCHEMA_TYPE_OP_ARGS_INVALID", id)]

\* Variant: an output order may name fields that do not exist.
OutputOrderUnchecked(kind, order, known) ==
    IF kind # "csv_row" THEN {}
    ELSE ErrorIf(order.t # "list", "COMPILER_MAPPING_OUTPUT_ORDER_INVALID", "output_order")

\* compile_output_order: for csv_row, a permutation of the fields.
OutputOrderErrors(kind, order, known) ==
    LET ids == {order.e[i].s : i \in DOMAIN order.e}
    IN  IF kind # "csv_row" THEN {}
        ELSE IF ~HasType(order, "array[string]")
        THEN {Diag("COMPILER_MAPPING_OUTPUT_ORDER_INVALID", "output_order")}
        ELSE ErrorIf(~(ids \subseteq known), "COMPILER_FIELD_UNDEFINED", "output_order")
             \cup ErrorIf(Len(order.e) # Cardinality(ids) \/ ~(known \subseteq ids),
                          "COMPILER_MAPPING_OUTPUT_ORDER_INVALID", "output_order")

\* read_delete_tombstone_settings; the id field need not be a field.
Tombstone(mapping) ==
    LET config  == Get(mapping, "delete_tombstone", None)
        enabled == Get(config, "enabled", Bool(FALSE))
        flag    == Get(config, "flag_path", Path(<<"delete">>))
        id      == Get(config, "id_field", S("id"))
    IN  [enabled |-> enabled = Bool(TRUE),
         flag    |-> IF IsStr(flag) /\ flag # Path(<<>>) THEN flag.segs ELSE <<"delete">>,
         id      |-> IF NonEmptyStr(id) THEN id.s ELSE "id",
         diags   |-> ErrorIf(\/ config # None /\ ~IsMapping(config)
                             \/ enabled.t # "bool"
                             \/ ~IsStr(flag) \/ flag = Path(<<>>)
                             \/ ~NonEmptyStr(id),
                             "COMPILER_MAPPING_DELETE_TOMBSTONE_INVALID", "delete_tombstone")]

\* compile_mapping
CompileMapping(doc, context) ==
    LET mapping  == Get(doc, "mapping", None)
        presence == PresenceOf(mapping, S("omit_missing"))
        kind     == Get(mapping, "output_kind", None)
        fields   == AsMapping(Get(mapping, "fields", None)).m
        known    == {id \in DOMAIN fields : IsMapping(fields[id])}
        compiled == [id \in known |-> CompileField(fields[id], id, presence, context)]
        order    == Get(mapping, "output_order", None)
        output_kind == IF StrIn(kind, {"csv_row", "json_object"}) THEN kind.s ELSE "json_object"
    IN  [plan   |-> [kind   |-> output_kind,
                     order  |-> IF output_kind = "csv_row" /\ HasType(order, "array[string]")
                                THEN [i \in DOMAIN order.e |-> order.e[i].s] ELSE <<>>,
                     ordered |-> output_kind = "csv_row" /\ HasType(order, "array[string]"),
                     fields |-> [id \in known |-> compiled[id].plan],
                     tombstone |-> Tombstone(mapping)],
         types  |-> [id \in known |-> compiled[id].type],
         raised |-> \E id \in known : compiled[id].raised,
         diags  |-> IF ~IsMapping(mapping)
                    THEN {Diag("COMPILER_MAPPING_OUTPUT_KIND_INVALID", "mapping")}
                    ELSE (UNION {compiled[id].diags : id \in known})
                         \cup GlobalPresenceErrors(mapping)
                         \cup OutputOrderErrors(output_kind, order, known)
                         \cup Tombstone(mapping).diags
                         \cup ErrorIf(~StrIn(kind, {"csv_row", "json_object"}),
                                      "COMPILER_MAPPING_OUTPUT_KIND_INVALID", "mapping")
                         \cup ErrorIf(~IsMapping(Get(mapping, "fields", None)),
                                      "COMPILER_MAPPING_FIELDS_INVALID", "mapping")
                         \cup ErrorIf(known # DOMAIN fields, "COMPILER_MAPPING_FIELD_INVALID",
                                      "mapping")]

-----------------------------------------------------------------------------
\* The validation section.

\* The value types of the built-in validation modules; the allowlist holds
\* others that no module provides.
ModuleTypes == [module \in {"required", "required_if_profile", "type", "range", "enum"} |->
                   CASE module = "enum" -> "string" [] module = "range" -> "any"
                     [] module \in {"required", "required_if_profile", "type"} -> "any"]
ValidationModuleAllowlist == DOMAIN ModuleTypes \cup
    {"regex", "min_length", "max_length", "forbid_if_mode", "mode_forbid", "require_if_present",
     "require_if_equals", "forbid_if_equals", "dependency_if_present", "dependency_if_equals",
     "dependency_if_any_present", "numeric_compare_money"}

RuleField(rule) == Word(Get(Get(rule, "applies_to", None), "field", None), "none")
RuleHint(rule)  == Word(Get(Get(rule, "on_fail", None), "severity_hint", None), "NONE")

\* The sort key of ordered_rules: rules with an id by id, then the others by module
\* and field, then malformed entries; the position decides between equals.
Rank(word) == IF word = "empty" THEN 0 ELSE CHOOSE i \in DOMAIN Alphabet : Alphabet[i] = word

RuleKey(rules, i) ==
    LET rule  == rules[i]
        field == RuleField(rule)
    IN  IF ~IsMapping(rule) THEN <<2, 0, 0, i>>
        ELSE IF NonEmptyStr(Get(rule, "id", None)) THEN <<0, Rank(rule.m["id"].s), 0, i>>
        ELSE <<1, Rank(Word(Get(rule, "module_id", None), "empty")),
               IF field = "none" THEN 0 ELSE Rank(field), i>>

KeyBefore(a, b) == \E n \in 1..4 : a[n] < b[n] /\ \A m \in 1..(n - 1) : a[m] = b[m]

\* Variant: the rules keep the order in which the schema lists them.
RulesAsListed(rules) == rules

OrderedRules(rules) ==
    LET Place(i) == Cardinality({j \in DOMAIN rules :
                                    KeyBefore(RuleKey(rules, j), RuleKey(rules, i))})
    IN  [n \in DOMAIN rules |-> rules[CHOOSE i \in DOMAIN rules : Place(i) = n - 1]]

\* One rule: link_validation_module, check_validation_field_semantics and, for
\* required_if_profile, update_required_by_profile_sources.
CompileRule(acc, rule, types) ==
    LET module == Get(rule, "module_id", None)
        field  == RuleField(rule)
        config == Get(rule, "config", Dict(NoEntries))
        Reject(code) == [acc EXCEPT !.diags = @ \cup {Diag(code, "rules")}]
    IN  IF ~IsMapping(rule) THEN Reject("COMPILER_VALIDATION_INVALID")
        ELSE IF ~NonEmptyStr(module) THEN Reject("SCHEMA_LINK_MODULE_INVALID")
        ELSE IF ~StrIn(module, ValidationModuleAllowlist)
        THEN Reject("SCHEMA_LINK_MODULE_NOT_ALLOWED")
        ELSE IF module.s \notin DOMAIN ModuleTypes THEN Reject("SCHEMA_LINK_MODULE_NOT_FOUND")
        ELSE [rules |-> Append(acc.rules,
                  [module |-> module.s, field |-> field, config |-> AsMapping(config).m,
                   hint |-> RuleHint(rule)]),
              required |-> acc.required \cup
                  IF module.s = "required_if_profile" /\ field # "none" THEN {field} ELSE {},
              diags |-> acc.diags
                  \cup ErrorIf(field # "none" /\ field \notin DOMAIN types,
                               "COMPILER_FIELD_UNDEFINED", "rules")
                  \cup ErrorIf(/\ field \in DOMAIN types
                               /\ TypeMismatch(types[field], ModuleTypes[module.s]),
                               "SCHEMA_TYPE_VALIDATION_MISMATCH", "rules")
                  \cup ErrorIf(~IsMapping(config), "COMPILER_VALIDATION_INVALID", "rules")]

\* compile_validation
NoRules(diags) == [rules |-> <<>>, required |-> {}, diags |-> diags]

CompileRules(rules, types) ==
    FoldLeft(LAMBDA acc, rule : CompileRule(acc, rule, types), NoRules({}), OrderedRules(rules))

RulesOf(doc) == Get(Get(doc, "validation", None), "rules", List(<<>>))

CompileValidation(doc, types) ==
    IF ~IsMapping(Get(doc, "validation", None)) \/ RulesOf(doc).t # "list"
    THEN NoRules({Diag("COMPILER_VALIDATION_INVALID", "validation")})
    ELSE CompileRules(RulesOf(doc).e, types)

\* Variant: the contradiction of presence and required_if_profile goes unnoticed.
NoContradictions(fields, required) == {}

\* check_presence_required_contradictions: whatever the profile is.
Contradictions(fields, required) ==
    {Diag("COMPILER_PRESENCE_REQUIRED_CONTRADICTION", id) :
        id \in {id \in required \cap DOMAIN fields : fields[id].presence = "omit_missing"}}

-----------------------------------------------------------------------------
\* SchemaCompiler.compile. The artifact profile is str() of the header's entry, so
\* a null, which the format check lets through, becomes the word None.
Compile(doc, context) ==
    LET writer     == CompileWriterSpec(doc)
        mapping    == CompileMapping(doc, context)
        validation == CompileValidation(doc, mapping.types)
        profile    == Get(doc.m["header"], "artifact_profile", None)
        diags      == writer.diags \cup mapping.diags \cup validation.diags
                      \cup Contradictions(mapping.plan.fields, validation.required)
    IN  [raised  |-> mapping.raised,
         diags   |-> diags,
         valid   |-> diags = {},
         profile |-> IF profile = None THEN Str("none", {"up"}) ELSE profile,
         mapping |-> mapping.plan,
         rules   |-> validation.rules,
         required |-> validation.required,
         writer  |-> writer.writer_id,
         writer_config |-> writer.config]
=============================================================================
