---------------------------- MODULE FieldValues ----------------------------
(***************************************************************************)
(* The values that flow through a compiled schema: the entries of a schema *)
(* document, the fields of an item, the arguments of mapping operations and*)
(* what the operations return. Every value is a record whose field t is its*)
(* Python type. Texts are abstracted to a core word s and the set d of the *)
(* decorations that operations add, remove or trip over.                   *)
(* Sources: ext/ext_types.py, engine/mapping/runtime_values.py.            *)
(***************************************************************************)
EXTENDS Integers, FiniteSets, Sequences, SequencesExt

\* Absence, an explicit null, and a call that raised an exception.
Missing == [t |-> "missing"]
None    == [t |-> "none"]
Raised  == [t |-> "raised"]

\* Decorations of a text: surrounding whitespace, letters that are not lower
\* case, HTML tags, runs of inner whitespace.
Decoration == {"pad", "up", "tag", "gap"}

Str(core, deco) == [t |-> "str", s |-> core, d |-> deco]
S(core)         == Str(core, {})
Bool(b)         == [t |-> "bool", s |-> IF b THEN "true" ELSE "false"]
Integer(s)      == [t |-> "int", s |-> s]
Float(s)        == [t |-> "float", s |-> s]
Decimal(s)      == [t |-> "decimal", s |-> s]
Date            == [t |-> "date", s |-> "date"]
DateTime        == [t |-> "datetime", s |-> "datetime"]
Dict(m)         == [t |-> "dict", m |-> m]
List(e)         == [t |-> "list", e |-> e]
NoEntries       == [key \in {} |-> None]

\* A dotted path, split at its dots; a text whose core the model never reads.
Path(segments)  == [t |-> "str", segs |-> segments]

\* Emission of ext_types.py: only a VALUE carries a text.
Omit         == [t |-> "emission", kind |-> "OMIT"]
Null         == [t |-> "emission", kind |-> "NULL"]
Value(text)  == [t |-> "emission", kind |-> "VALUE", value |-> text]

Absent(v) == v.t \in {"missing", "none"}

\* as_mapping, and dict.get(key, default) on a value that may be no mapping.
IsMapping(v) == v.t = "dict"
Has(v, key)  == IsMapping(v) /\ key \in DOMAIN v.m
Get(v, key, default) == IF Has(v, key) THEN v.m[key] ELSE default

IsStr(v)         == v.t = "str"
Truthy(v)        == v \notin {Bool(FALSE), None, Integer("0"), S("empty"), List(<<>>), Dict(NoEntries)}
NonEmptyStr(v)   == IsStr(v) /\ v # S("empty")

\* What a file is parsed into: a value of a Python type, made of values in D. A
\* text that names a path is one.
PlainTypes == {"str", "none", "bool", "int", "float", "decimal", "date", "datetime", "dict", "list"}

IsParsed(v, D) ==
    /\ "t" \in DOMAIN v /\ v.t \in PlainTypes
    /\ v.t = "dict" => \A key \in DOMAIN v.m : v.m[key] \in D
    /\ v.t = "list" => v.e \in Seq(D)
    /\ (Has(v, "path") /\ IsStr(v.m["path"])) => v.m["path"].segs \in Seq(STRING)

-----------------------------------------------------------------------------
\* Numbers, in tenths; Decimal accepts the two non-finite texts as well.
Finite    == {"-1", "0", "1", "7", "7.5", "8"}
NonFinite == {"nan", "inf"}
Whole     == Finite \ {"7.5"}

Tenths == [s \in Finite |->
              CASE s = "-1" -> -10 [] s = "0" -> 0 [] s = "1" -> 10
                [] s = "7" -> 70 [] s = "7.5" -> 75 [] s = "8" -> 80]

TextOfTenths(n) == CHOOSE s \in Finite : Tenths[s] = n

\* str(v) of a value that is not MISSING; True and False print capitalised.
ToText(v) ==
    IF v.t = "str" THEN v
    ELSE IF v.t = "bool" THEN Str(v.s, {"up"})
    ELSE IF v.t \in {"int", "float", "decimal", "date", "datetime"} THEN S(v.s)
    ELSE Str("repr", {"up"})

\* Texts without letters look the same in lower and upper case.
Caseless == Finite \cup {"empty", "date", "datetime", "stamp"}

Strip(text) == Str(text.s, text.d \ {"pad"})
Lower(text) == [text EXCEPT !.d = @ \ {"up"}]
Upper(text) == [text EXCEPT !.d = IF text.s \in Caseless THEN @ ELSE @ \cup {"up"}]

\* text.strip().lower() in words
Means(text, words) == text.s \in words /\ text.d \subseteq {"pad", "up"}

\* Decimal(str(v)): surrounding whitespace and the case of nan do not matter.
DecimalOf(v) ==
    LET text == ToText(v)
    IN  IF Means(text, Finite \cup NonFinite) THEN Decimal(text.s) ELSE Raised

-----------------------------------------------------------------------------
\* One segment of a path: into a mapping by key, into a list by index. Neither
\* a scalar nor a null can be entered.
Enter(v, segment) ==
    IF Has(v, segment) THEN v.m[segment]
    ELSE IF v.t = "list" /\ segment \in {"0", "1"} /\ Tenths[segment] \div 10 < Len(v.e)
    THEN v.e[Tenths[segment] \div 10 + 1]
    ELSE Missing

Walk(v, segments) == FoldLeft(Enter, v, segments)

\* _extract_by_source_path: an empty path reads nothing.
ExtractBySourcePath(record, path) ==
    IF path = <<>> THEN Missing ELSE Walk(record, path)

\* _apply_presence: the emission of a finished chain.
ApplyPresence(v, presence) ==
    IF v.t = "emission" THEN v
    ELSE IF v.t = "none" THEN Null
    ELSE IF v.t # "missing" THEN Value(ToText(v))
    ELSE IF presence = "emit_null_if_missing" THEN Null ELSE Omit

\* _emission_to_writer_value: an omitted cell is MISSING in a row.
WriterValue(emission) ==
    IF emission = Omit THEN Missing ELSE IF emission = Null THEN None ELSE emission.value

\* The type ids a mapping operation or a validation module may declare. An
\* Emission is the "object" of the operations that return one.
HasType(v, type) ==
    \/ type = "any"
    \/ type = "string" /\ v.t = "str"
    \/ type \in {"int", "decimal", "bool", "date", "datetime"} /\ v.t = type
    \/ type = "object" /\ v.t \in {"dict", "emission"}
    \/ type = "array[string]" /\ v.t = "list" /\ \A i \in DOMAIN v.e : IsStr(v.e[i])
=============================================================================
