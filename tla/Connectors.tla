----------------------------- MODULE Connectors -----------------------------
(***************************************************************************)
(* The connector of a feed: the adapter named by a registry, the mapper of *)
(* source keys to dotted targets, and the producer that nests the targets  *)
(* and asks for product.item_id. A registry is [file: missing | broken |   *)
(* read, data]; a mapping file is [path, suffix, content], its content     *)
(* Raised when it cannot be read or parsed.                                *)
(***************************************************************************)
EXTENDS Adapters

-----------------------------------------------------------------------------
\* provide_adapter

\* format_name.strip().lower()
Requested(format) == IF format.d \subseteq {"pad", "up"} THEN format.s ELSE "other"

\* _load_registry and _extract_and_validate_format_spec, in their order.
FormatFails(registry, format) ==
    LET formats == Get(registry.data, "formats", None)
        entry   == Get(formats, Requested(format), None)
    IN  \/ registry.file # "read"
        \/ ~IsMapping(formats)
        \/ ~NonEmptyStr(format)
        \/ ~IsMapping(entry)
        \/ ~Means(ToText(Get(entry, "status", S("active"))), {"active"})
        \/ ~IsStr(Get(entry, "adapter", None)) \/ Means(Get(entry, "adapter", None), {"empty"})
        \/ ~IsMapping(Get(entry, "constants", Dict(NoEntries)))

Classes == Streaming \cup Tabular \cup Lines \cup {"json", "rows"}

\* _import_adapter_class: what the path of the entry names.
AdapterOf(registry, format) == registry.data.m["formats"].m[Requested(format)].m["adapter"].s

ConstantsOf(registry, format) ==
    Get(registry.data.m["formats"].m[Requested(format)], "constants", Dict(NoEntries))

AdapterFails(registry, format) ==
    FormatFails(registry, format) \/ AdapterOf(registry, format) \notin Classes

-----------------------------------------------------------------------------
\* provide_connector_mapper: load_yaml and validate_mapping

FieldFails(entry) ==
    \/ ~IsMapping(entry)
    \/ ~NonEmptyStr(Get(entry, "source", None))
    \/ ~NonEmptyStr(Get(entry, "target", None))
    \/ Get(entry, "required", Bool(FALSE)).t # "bool"

FileFails(file) == file.suffix \notin {"yaml", "yml"} \/ ~IsMapping(file.content)

MappingFails(file) ==
    LET mappings == Get(file.content, "mappings", None)
    IN  \/ mappings.t # "list" \/ mappings.e = <<>>
        \/ \E i \in DOMAIN mappings.e : FieldFails(mappings.e[i])
        \/ Get(file.content, "continue_on_error", Bool(TRUE)).t # "bool"

\* build_connector
ConnectorFails(registry, format, file) ==
    \/ AdapterFails(registry, format)
    \/ ~Truthy(file.path)
    \/ FileFails(file)
    \/ MappingFails(file)

-----------------------------------------------------------------------------
\* ConnectorMapper

Entries(file)  == file.content.m["mappings"].e
ContinuesOnError(file) == Get(file.content, "continue_on_error", Bool(TRUE)) = Bool(TRUE)

SourceOf(entry) == entry.m["source"].s
TargetOf(entry) == entry.m["target"].segs

\* What a mapping file holds that was accepted: targets that were split at their dots.
IsMappingFile(file) ==
    /\ IsSequence(Entries(file))
    /\ \A i \in DOMAIN Entries(file) :
          IsSequence(TargetOf(Entries(file)[i])) /\ TargetOf(Entries(file)[i]) # <<>>

\* A source that is listed twice keeps its place and takes the later target.
SourceToTarget(file) ==
    FoldLeft(LAMBDA pairs, entry :
                 IF \E i \in DOMAIN pairs : pairs[i].source = SourceOf(entry)
                 THEN [i \in DOMAIN pairs |-> IF pairs[i].source = SourceOf(entry)
                                              THEN [pairs[i] EXCEPT !.target = TargetOf(entry)]
                                              ELSE pairs[i]]
                 ELSE Append(pairs, [source |-> SourceOf(entry), target |-> TargetOf(entry)]),
             <<>>, Entries(file))

RequiredSources(file) ==
    {SourceOf(Entries(file)[i]) :
        i \in {i \in DOMAIN Entries(file) : Get(Entries(file)[i], "required", Bool(FALSE)) = Bool(TRUE)}}

RequiredIsMissing(file, rec) == \E source \in RequiredSources(file) : source \notin DOMAIN rec.m

\* The output dictionary in the order of its keys: of two sources with one target
\* the later value takes the earlier place.
Mapped(file, rec) ==
    FoldLeft(LAMBDA output, pair :
                 IF pair.source \notin DOMAIN rec.m THEN output
                 ELSE IF \E i \in DOMAIN output : output[i].target = pair.target
                 THEN [i \in DOMAIN output |-> IF output[i].target = pair.target
                                               THEN [output[i] EXCEPT !.value = rec.m[pair.source]]
                                               ELSE output[i]]
                 ELSE Append(output, [target |-> pair.target, value |-> rec.m[pair.source]]),
             <<>>, SourceToTarget(file))

-----------------------------------------------------------------------------
\* ProductProducer

\* The mapping a path leads to, or a new one in the place of anything else.
Level(d, segments) ==
    LET node == FoldLeft(LAMBDA v, segment : Get(v, segment, Missing), d, segments)
    IN  IF IsMapping(node) THEN node ELSE Dict(NoEntries)

With(d, key, v) == Dict([k \in DOMAIN d.m \cup {key} |-> IF k = key THEN v ELSE d.m[k]])

\* Variant: every target brings mappings of its own.
NestsAfresh(d, segments, v) ==
    FoldRight(LAMBDA k, inner : With(IF k = 0 THEN d ELSE Dict(NoEntries), segments[k + 1], inner),
              [k \in DOMAIN segments |-> k - 1], v)

\* One assignment of _unflatten, from the innermost mapping out.
Nest(d, segments, v) ==
    FoldRight(LAMBDA k, inner : With(Level(d, SubSeq(segments, 1, k)), segments[k + 1], inner),
              [k \in DOMAIN segments |-> k - 1], v)

Unflatten(output) ==
    FoldLeft(LAMBDA d, pair : Nest(d, pair.target, pair.value), Dict(NoEntries), output)

\* _str_or_none: the text of a value, stripped, or None.
TextOrNone(v) ==
    IF Absent(v) \/ Strip(ToText(v)) = S("empty") THEN None ELSE Strip(ToText(v))

ItemId(nested) == TextOrNone(Get(Get(nested, "product", None), "item_id", None))

\* _build_record: an item without product.item_id is no item.
Built(nested) ==
    IF ItemId(nested) = None THEN None
    ELSE With(nested, "product", With(nested.m["product"], "item_id", ItemId(nested)))
=============================================================================
