--------------------------- MODULE Configuration ---------------------------
(***************************************************************************)
(* What the files a worker is built from must say: the infra file with its *)
(* model, the files it names, the configuration of flood control and the   *)
(* policy file. A document is a value of FieldValues; a file on disk is    *)
(* [suffix, absolute, base, project, content]: what lies at its path under *)
(* the infra file's directory and under the project's root (an absolute    *)
(* path has one place, base), and its parsed content, Raised if that fails.*)
(***************************************************************************)
EXTENDS FieldValues

Yaml == {"yaml", "yml"}

\* A field given as a text that is more than whitespace.
Text(v) == IsStr(v) /\ Strip(v) # S("empty")

\* value.strip().lower() (or upper) in words
OneOf(v, words) == IsStr(v) /\ Means(v, words)

\* A pydantic model that forbids unknown fields; policy_utils checks mappings alike.
Misshapen(doc, required, optional) ==
    ~IsMapping(doc)
    \/ ~(required \subseteq DOMAIN doc.m) \/ ~(DOMAIN doc.m \subseteq required \cup optional)

-----------------------------------------------------------------------------
\* Flood control: the model coerces numbers and flags, the normalizer checks them.

LaxBool(v) ==
    \/ v.t = "bool" \/ v \in {Integer("0"), Integer("1")}
    \/ IsStr(v) /\ v.s \in {"true", "false", "yes", "no", "0", "1"} /\ v.d \subseteq {"up"}

LaxNumber(v, texts) ==
    v.t = "bool" \/ (v.t \in {"int", "float", "str"} /\ v.s \in texts)

TextList(v) == v.t = "list" /\ \A i \in DOMAIN v.e : IsStr(v.e[i])

FloodModelRefuses(config) ==
    LET Bad(key, v) ==
            \/ key \in {"enabled", "emit_summary"} /\ ~LaxBool(v)
            \/ key \in {"mode", "force_log_attr", "summary_level"} /\ ~IsStr(v)
            \/ key \in {"context_keys", "suppressed_levels", "key_fields"} /\ ~TextList(v)
            \/ key \in {"max_events_per_window", "max_cache_size"} /\ ~LaxNumber(v, Whole)
            \/ key \in {"window_seconds", "summary_interval_seconds"}
                   /\ ~LaxNumber(v, Finite \cup NonFinite)
    IN  \/ Misshapen(config, {},
                {"enabled", "emit_summary", "mode", "force_log_attr", "summary_level",
                 "context_keys", "suppressed_levels", "key_fields", "max_events_per_window",
                 "max_cache_size", "window_seconds", "summary_interval_seconds"})
        \/ \E key \in DOMAIN config.m : Bad(key, config.m[key])

\* A name that the logging module knows in upper case.
LogLevel(v) ==
    v.d \subseteq {"up"} /\
    v.s \in {"debug", "info", "warn", "warning", "error", "fatal", "critical", "notset"}

\* nan <= 0 is false.
NotPositive(v) ==
    IF v.t = "bool" THEN v = Bool(FALSE) ELSE v.s \in Finite /\ Tenths[v.s] <= 0

\* The entries of a list; a list that is left out has good ones.
Items(config, key) == ToSet(Get(config, key, List(<<>>)).e)

HasEmptyText(config) ==
    S("empty") \in Items(config, "context_keys") \cup Items(config, "key_fields")
                   \cup {Get(config, "force_log_attr", S("force_log"))}

FloodRefuses(config) ==
    LET mode   == Get(config, "mode", S("context_info_suppression"))
        levels == Items(config, "suppressed_levels") \cup {Get(config, "summary_level", S("info"))}
    IN  \/ mode \notin {S(m) : m \in {"off", "context_info_suppression", "rate_limit", "deduplicate"}}
        \/ \E key \in {"window_seconds", "summary_interval_seconds", "max_events_per_window",
                       "max_cache_size"} : Has(config, key) /\ NotPositive(config.m[key])
        \/ HasEmptyText(config)
        \/ \E v \in levels : ~LogLevel(v)
        \/ mode = S("deduplicate") /\ Get(config, "key_fields", None) = List(<<>>)

-----------------------------------------------------------------------------
\* The infra file: InfraConfig and the models of its sections.

InputRefuses(v) ==
    LET Bad(key, field) == IF key = "format" THEN ~Text(field)
                           ELSE \/ Misshapen(field, {}, {"connector_mapping"})
                                \/ \E k \in DOMAIN field.m : field.m[k] # None /\ ~Text(field.m[k])
    IN  \/ Misshapen(v, {"format", "config"}, {})
        \/ \E key \in DOMAIN v.m : Bad(key, v.m[key])

OutputRefuses(v) ==
    LET Bad(key, field) == ~Text(field)
    IN  \/ Misshapen(v, {"archive_type", "archive_config", "client_type", "client_config"}, {})
        \/ \E key \in DOMAIN v.m : Bad(key, v.m[key])

ProducerRefuses(v) ==
    LET Bad(key, field) == ~Text(field) /\ ~(key = "tax_mapping_file" /\ field = None)
    IN  \/ Misshapen(v, {"schema_file", "policy_file"}, {"tax_mapping_file"})
        \/ \E key \in DOMAIN v.m : Bad(key, v.m[key])

LoggingRefuses(v) ==
    LET Bad(key, field) == IF key = "level" THEN ~Text(field) ELSE FloodModelRefuses(field)
    IN  \/ Misshapen(v, {}, {"level", "flood_control_config"})
        \/ \E key \in DOMAIN v.m : Bad(key, v.m[key])

TelemetryRefuses(v) ==
    LET Bad(key, field) == ~OneOf(field, {"none", "prometheus"})
    IN  \/ Misshapen(v, {}, {"provider"})
        \/ \E key \in DOMAIN v.m : Bad(key, v.m[key])

ObservabilityRefuses(v) ==
    LET Bad(key, field) ==
            \/ key = "log_format" /\ ~OneOf(field, {"text", "json"})
            \/ key = "labels" /\ (~IsMapping(field) \/ \E k \in DOMAIN field.m : ~IsStr(field.m[k]))
            \/ key = "logging" /\ LoggingRefuses(field)
            \/ key = "telemetry" /\ TelemetryRefuses(field)
    IN  \/ Misshapen(v, {}, {"log_format", "labels", "logging", "telemetry"})
        \/ \E key \in DOMAIN v.m : Bad(key, v.m[key])

InfraRefuses(doc) ==
    LET Bad(key, v) ==
            \/ key = "input" /\ InputRefuses(v)
            \/ key = "output" /\ OutputRefuses(v)
            \/ key = "producer" /\ ProducerRefuses(v)
            \/ key = "observability" /\ v # None /\ ObservabilityRefuses(v)
    IN  \/ Misshapen(doc, {"input", "output", "producer"}, {"observability"})
        \/ \E key \in DOMAIN doc.m : Bad(key, doc.m[key])

-----------------------------------------------------------------------------
\* What it says, once it is accepted.

Section(doc, section) == Get(doc, section, None)
FileAt(doc, section, key, disk) == disk[Strip(doc.m[section].m[key]).s]

Logging(doc)  == Get(Section(doc, "observability"), "logging", None)
Flood(doc)    == Get(Logging(doc), "flood_control_config", Dict(NoEntries))
Provider(doc) == Get(Get(Section(doc, "observability"), "telemetry", None), "provider", S("none"))

\* validate_infra_config: the registry knows the format, the files the build starts from are there.
ValidatorRefuses(doc, registry, disk) ==
    LET formats == Get(registry.data, "formats", registry.data)
        format  == doc.m["input"].m["format"]
        Starting == {FileAt(doc, "producer", key, disk) : key \in {"schema_file", "policy_file"}}
    IN  \/ registry.file # "read" \/ ~IsMapping(registry.data)
        \/ ~(format.d \subseteq {"pad", "up"} /\ Has(formats, format.s))
        \/ \E key \in {"archive_config", "client_config"} :
              FileAt(doc, "output", key, disk).suffix \notin Yaml
        \/ ~OneOf(Get(Logging(doc), "level", S("info")), {"debug", "info", "warning", "error", "critical"})
        \/ FloodRefuses(Flood(doc))
        \/ \E entry \in Starting : entry.suffix \notin Yaml \/ entry.base # "file"

\* _resolve_with_project_fallback: what a path leads to once it is normalized.
ReadAt(entry) ==
    IF entry.absolute \/ entry.base # "none" THEN entry.base ELSE entry.project

Content(entry) == IF ReadAt(entry) = "file" THEN entry.content ELSE Raised

-----------------------------------------------------------------------------
\* The policy file: PolicyConfig.from_dict and what it calls.

StrictnessRefuses(v) ==
    LET Bad(key, strategy) == ~OneOf(strategy, {"fail_on_error", "drop_invalid", "warn_only"})
    IN  \/ Misshapen(v, {"strategy"}, {})
        \/ \E key \in DOMAIN v.m : Bad(key, v.m[key])

EligibilityRefuses(v) ==
    LET Bad(key, reqs) == ~IsMapping(reqs) \/ Get(reqs, "merchant_fields", List(<<>>)).t # "list"
    IN  \/ Misshapen(v, {}, {"checkout_requirements"})
        \/ \E key \in DOMAIN v.m : Bad(key, v.m[key])

\* Upper or lower case, but no whitespace; a null is the default.
IsolationRefuses(v) ==
    LET Bad(key, strategy) ==
            strategy # None /\ ~(IsStr(strategy) /\ strategy.d \subseteq {"up"}
                                 /\ strategy.s \in {"skip_item", "fail_fast", "ignore"})
    IN  \/ Misshapen(v, {}, {"strategy"})
        \/ \E key \in DOMAIN v.m : Bad(key, v.m[key])

CoreRefuses(core) ==
    LET Bad(key, v) ==
            \/ key = "strictness" /\ StrictnessRefuses(v)
            \/ key = "eligibility" /\ EligibilityRefuses(v)
            \/ key = "fault_isolation" /\ IsolationRefuses(v)
    IN  \/ Misshapen(core, {"strictness"}, {"eligibility", "fault_isolation"})
        \/ \E key \in DOMAIN core.m : Bad(key, core.m[key])

\* The version is the text 1.0 or the number that prints so.
PolicyRefuses(doc) ==
    LET Bad(key, v) ==
            \/ key = "version" /\ v \notin {S("1.0"), Float("1")}
            \/ key = "core" /\ CoreRefuses(v)
    IN  \/ Misshapen(doc, {"version", "core"}, {})
        \/ \E key \in DOMAIN doc.m : Bad(key, doc.m[key])

\* _load_tax_mapping
TaxRefuses(doc) == ~IsMapping(doc) \/ ~IsMapping(Get(doc, "mappings", None))
=============================================================================
