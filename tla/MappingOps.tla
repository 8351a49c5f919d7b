----------------------------- MODULE MappingOps -----------------------------
(***************************************************************************)
(* The built-in mapping operations of ext/mapping: what each returns for a *)
(* value and the arguments its schema gives it, and the types its          *)
(* specification declares. An operation that raises yields Raised. args is *)
(* a function from argument names to values.                               *)
(***************************************************************************)
EXTENDS FieldValues

Arg(args, name, default) == IF name \in DOMAIN args THEN args[name] ELSE default

\* isinstance(x, int) and x >= 0, which a Python bool satisfies, and the stricter
\* check of the operations that exclude it.
IsCount(v)    == v.t = "bool" \/ (v.t = "int" /\ Tenths[v.s] >= 0)
IsIntCount(v) == v.t = "int" /\ Tenths[v.s] >= 0

TrueWords  == {"true", "1", "yes", "y", "on"}
FalseWords == {"false", "0", "no", "n", "off"}

Availability(inStock) == S(IF inStock THEN "in_stock" ELSE "out_of_stock")

-----------------------------------------------------------------------------
\* Conversions.

ToStr(v, args) == IF Absent(v) THEN v ELSE ToText(v)

\* Variant: a float is taken over as it is.
ToIntKeepsFloats(v, args) ==
    IF Absent(v) \/ v.t \in {"int", "float"} THEN v
    ELSE IF IsStr(v) /\ Means(v, Whole) THEN Integer(v.s) ELSE Raised

\* Neither a bool nor a float converts; int() strips whitespace itself.
ToInt(v, args) ==
    IF Absent(v) \/ v.t = "int" THEN v
    ELSE IF IsStr(v) /\ Means(v, Whole) THEN Integer(v.s) ELSE Raised

ToDecimal(v, args) ==
    IF Absent(v) \/ v.t = "decimal" THEN v
    ELSE IF v.t = "bool" THEN Raised ELSE DecimalOf(v)

ToBool(v, args) ==
    IF Absent(v) \/ v.t = "bool" THEN v
    ELSE IF v.t = "int" THEN IF v.s \in {"0", "1"} THEN Bool(v.s = "1") ELSE Raised
    ELSE IF IsStr(v) /\ Means(v, TrueWords) THEN Bool(TRUE)
    ELSE IF IsStr(v) /\ Means(v, FalseWords) THEN Bool(FALSE) ELSE Raised

\* Fewer words than to_bool: neither y/n nor on/off.
BoolToAvailability(v, args) ==
    IF Absent(v) THEN v
    ELSE IF v.t = "bool" THEN Availability(v.s = "true")
    ELSE IF IsStr(v) /\ Means(v, {"true", "1", "yes"}) THEN Availability(TRUE)
    ELSE IF IsStr(v) /\ Means(v, {"false", "0", "no"}) THEN Availability(FALSE)
    ELSE IF v.t = "int" /\ v.s \in {"0", "1"} THEN Availability(v.s = "1") ELSE Raised

IntToAvailability(v, args) ==
    IF v.t = "missing" THEN v
    ELSE IF v.t = "none" THEN Availability(FALSE)
    ELSE IF v.t = "int" THEN Availability(Tenths[v.s] > 0) ELSE Raised

-----------------------------------------------------------------------------
\* Text operations: those that declare a string insist on one.

OnText(v, result) == IF Absent(v) THEN v ELSE IF IsStr(v) THEN result ELSE Raised

Trim(v, args)      == OnText(v, Strip(v))
LowerOp(v, args)   == OnText(v, Lower(v))
UpperOp(v, args)   == OnText(v, Upper(v))
StripHtml(v, args) == OnText(v, [v EXCEPT !.d = @ \ {"pad", "gap", "tag"}])
NormalizeWhitespace(v, args) == OnText(v, [v EXCEPT !.d = @ \ {"pad", "gap"}])

\* The patterns of the model have one group; "maybe" matches without it.
RegexExtract(v, args) ==
    LET pattern == Arg(args, "pattern", None)
        group   == Arg(args, "group", Integer("1"))
        text    == ToText(v)
    IN  IF ~NonEmptyStr(pattern) \/ ~IsIntCount(group) THEN Raised
        ELSE IF Absent(v) THEN v
        ELSE IF text.s \notin Finite THEN Missing
        ELSE IF group.s = "0" THEN S(text.s)
        ELSE IF group.s # "1" THEN Raised
        ELSE IF pattern.s = "maybe" THEN None ELSE S(text.s)

\* Everything before the last delimiter; of the model's texts only "7.5" holds one.
StripSuffix(v, args) ==
    LET delimiters == Arg(args, "delimiters", None)
        text       == ToText(v)
    IN  IF ~HasType(delimiters, "array[string]") \/ delimiters.e = <<>> THEN Raised
        ELSE IF Absent(v) THEN v
        ELSE IF text.s = "7.5" /\ \E i \in DOMAIN delimiters.e : delimiters.e[i] = S("dot")
            THEN [text EXCEPT !.s = "7"] ELSE text

\* The model's limits are 1, which single characters fit, and one no text exceeds.
Truncate(v, args) ==
    LET limit == Arg(args, "max_length", None)
        text  == ToText(v)
    IN  IF ~IsIntCount(limit) \/ limit.s = "0" THEN Raised
        ELSE IF Absent(v) THEN v
        ELSE IF limit.s = "1" /\ (text.s \notin {"empty", "0", "1", "7", "8"} \/ text.d # {})
        THEN S("cut") ELSE text

-----------------------------------------------------------------------------
\* Dates. date.fromisoformat takes a bare ISO date, datetime.fromisoformat also
\* a padded one with a time. A format is named by the text it parses; parse_date takes
\* an empty one for none.

FormatOk(args, name) == name \notin DOMAIN args \/ IsStr(args[name])

ParseDate(v, args) ==
    LET fmt == Arg(args, "fmt", None)
    IN  IF Absent(v) THEN v
        ELSE IF fmt # None /\ ~IsStr(fmt) THEN Raised
        ELSE IF v.t \in {"date", "datetime"} THEN Date
        ELSE IF v = IF fmt \in {None, S("empty")} THEN S("date") ELSE fmt THEN Date ELSE Raised

FormatDate(v, args) ==
    IF Absent(v) THEN v
    ELSE IF ~FormatOk(args, "out_fmt") THEN Raised
    ELSE IF v.t \in {"date", "datetime"} \/ v = S("date") THEN S("date") ELSE Raised

FormatDatetimeUtc(v, args) ==
    IF Absent(v) THEN v
    ELSE IF ~FormatOk(args, "out_fmt") THEN Raised
    ELSE IF v.t = "datetime" \/ (IsStr(v) /\ Means(v, {"date", "datetime"}))
    THEN S("stamp") ELSE Raised

-----------------------------------------------------------------------------
\* Amounts.

\* Decimal.quantize with ROUND_HALF_UP: infinity raises, NaN stays. Tenths are
\* exact from one decimal on.
Quantize(number, decimals) ==
    IF number.s = "inf" THEN Raised
    ELSE IF number.s = "nan" \/ decimals.s # "0" THEN number
    ELSE Decimal(TextOfTenths(((Tenths[number.s] + 5) \div 10) * 10))

RoundDecimal(v, args) ==
    LET decimals == Arg(args, "decimals", None)
    IN  IF Absent(v) THEN v
        ELSE IF ~IsCount(decimals) \/ DecimalOf(v) = Raised THEN Raised
        ELSE Quantize(DecimalOf(v), decimals)

FormatMoney(v, args) ==
    LET decimals == Arg(args, "decimals", None)
        pattern  == Arg(args, "pattern", None)
    IN  IF Absent(v) THEN v
        ELSE IF \/ ~IsCount(decimals) \/ ~NonEmptyStr(pattern) \/ ~FormatOk(args, "currency")
                \/ DecimalOf(v) = Raised \/ pattern = S("unknown_placeholder")
        THEN Raised
        ELSE IF Quantize(DecimalOf(v), decimals) = Raised THEN Raised ELSE S("money")

FormatPrice(v, args) ==
    LET currency == Arg(args, "currency", None)
        text     == Strip(ToText(v))
    IN  IF Absent(v) THEN v
        ELSE IF v.t \notin {"str", "int", "float"} THEN Raised
        ELSE IF text.s = "empty" THEN Missing
        ELSE IF Absent(currency) \/ Strip(ToText(currency)).s = "empty" THEN text
        ELSE S("price")

-----------------------------------------------------------------------------
\* Structured values.

Blank(v) == Absent(v) \/ v = S("empty")

\* The placeholder's text: the entry's value, else the default, else a raise. The
\* days of a speed range default to 0 and must be integers.
SpeedFields == {"min_handling_time", "max_handling_time", "min_transit_time", "max_transit_time"}
IntConvertible(v) == v.t = "bool" \/ (v.t \in {"int", "float", "decimal"} /\ v.s \in Finite)
                     \/ (IsStr(v) /\ Means(v, Whole))

PlaceholderFills(entry, defaults, hole) ==
    IF hole = "speed_range"
    THEN \A f \in SpeedFields :
            IntConvertible(IF Blank(Get(entry, f, None)) THEN Get(defaults, f, Integer("0"))
                                                         ELSE Get(entry, f, None))
    ELSE ~(Blank(Get(entry, hole, None)) /\ Get(defaults, hole, None) = None)

FormatShipping(v, args) ==
    LET pattern  == Arg(args, "pattern", None)
        defaults == Arg(args, "defaults", Dict(NoEntries))
        entries  == IF v.t = "list" THEN v.e ELSE <<v>>
    IN  IF \/ ~NonEmptyStr(pattern) \/ ~IsMapping(defaults) \/ ~FormatOk(args, "separator")
           \/ Arg(args, "strip_colons", Bool(TRUE)).t # "bool"
        THEN Raised
        ELSE IF Absent(v) \/ IsStr(v) THEN v
        ELSE IF \A i \in DOMAIN entries :
                   \/ IsStr(entries[i])
                   \/ IsMapping(entries[i]) /\ \A hole \in pattern.holes :
                                                  PlaceholderFills(entries[i], defaults, hole)
        THEN S(IF entries = <<>> THEN "empty" ELSE "shipping") ELSE Raised

\* The tax mapping reaches the arguments through _prepare_tax_code only: the
\* pairs of prefix and code, and the longest prefix of the category wins.
MapTaxCode(v, args) ==
    LET override == Get(v, "tax_code_override", None)
        category == Get(v, "tax_category", None)
        taxable  == Get(v, "taxable", None)
        lookup   == args["_lookup_data"]
        hits     == {p \in DOMAIN lookup : IsStr(category) /\ IsPrefix(p, category.segs)}
    IN  IF Absent(v) THEN v
        ELSE IF ~IsMapping(v) \/ "_lookup_data" \notin DOMAIN args THEN Raised
        ELSE IF IsStr(override) /\ override.s # "empty" THEN Strip(override)
        ELSE IF hits # {}
        THEN S(lookup[CHOOSE p \in hits : \A q \in hits : Len(q) <= Len(p)])
        ELSE IF \/ taxable.t \in {"bool", "int", "float", "decimal"} /\ taxable.s \in {"false", "0"}
                \/ IsStr(taxable) /\ taxable.s \in {"false", "no", "0"} /\ taxable.d \subseteq {"up"}
        THEN S("exempt") ELSE S("taxable")

GetPath(v, args) ==
    LET path == Arg(args, "path", None)
    IN  IF ~IsStr(path) THEN Raised
        ELSE IF path.segs = <<>> THEN Raised ELSE Walk(v, path.segs)

-----------------------------------------------------------------------------
\* Defaults and explicit emissions.

DefaultValue(v, args) ==
    IF "value" \notin DOMAIN args THEN Raised
    ELSE IF Absent(v) THEN args["value"] ELSE v

EmitIfPresent(v, args) ==
    IF v.t = "missing" THEN Omit ELSE IF v.t = "none" THEN Null ELSE Value(ToText(v))

\* Whatever the value: also a present one is replaced by a null, or left out.
EmitNullIfMissing(v, args) == Null
OmitIfMissing(v, args)     == Omit

-----------------------------------------------------------------------------
\* The declared types (nullable and optional flags are read by nobody).
Types(input, output) == [in |-> input, out |-> output]

TextOps     == {"lower", "upper", "trim", "normalize_whitespace", "strip_html"}
RenderOps   == {"to_str", "regex_extract", "strip_suffix", "truncate", "format_date",
                "format_datetime_utc", "format_money", "format_price", "format_shipping",
                "map_tax_code", "bool_to_availability", "int_to_availability"}
EmissionOps == {"emit_if_present", "emit_null_if_missing", "omit_if_missing"}
DecimalOps  == {"to_decimal", "round_decimal"}
UntypedOps  == {"default_value", "get_path"}

Catalog ==
    [op \in TextOps \cup RenderOps \cup EmissionOps \cup DecimalOps \cup UntypedOps
             \cup {"to_int", "to_bool", "parse_date"} |->
        CASE op \in TextOps     -> Types("string", "string")
          [] op \in RenderOps   -> Types("any", "string")
          [] op \in EmissionOps -> Types("any", "object")
          [] op \in DecimalOps  -> Types("any", "decimal")
          [] op \in UntypedOps  -> Types("any", "any")
          [] op = "to_int"      -> Types("any", "int")
          [] op = "to_bool"     -> Types("any", "bool")
          [] op = "parse_date"  -> Types("any", "date")]

Call(op, v, args) ==
    CASE op = "to_str"         -> ToStr(v, args)      [] op = "to_int"       -> ToInt(v, args)
      [] op = "to_decimal"     -> ToDecimal(v, args)  [] op = "to_bool"      -> ToBool(v, args)
      [] op = "bool_to_availability"                  -> BoolToAvailability(v, args)
      [] op = "int_to_availability"                   -> IntToAvailability(v, args)
      [] op = "trim"           -> Trim(v, args)       [] op = "lower"        -> LowerOp(v, args)
      [] op = "upper"          -> UpperOp(v, args)    [] op = "strip_html"   -> StripHtml(v, args)
      [] op = "normalize_whitespace"                  -> NormalizeWhitespace(v, args)
      [] op = "regex_extract"  -> RegexExtract(v, args)
      [] op = "strip_suffix"   -> StripSuffix(v, args)
      [] op = "truncate"       -> Truncate(v, args)   [] op = "parse_date"   -> ParseDate(v, args)
      [] op = "format_date"    -> FormatDate(v, args)
      [] op = "format_datetime_utc"                   -> FormatDatetimeUtc(v, args)
      [] op = "round_decimal"  -> RoundDecimal(v, args)
      [] op = "format_money"   -> FormatMoney(v, args)
      [] op = "format_price"   -> FormatPrice(v, args)
      [] op = "format_shipping" -> FormatShipping(v, args)
      [] op = "map_tax_code"   -> MapTaxCode(v, args) [] op = "get_path"     -> GetPath(v, args)
      [] op = "default_value"  -> DefaultValue(v, args)
      [] op = "emit_if_present" -> EmitIfPresent(v, args)
      [] op = "emit_null_if_missing"                  -> EmitNullIfMissing(v, args)
      [] op = "omit_if_missing" -> OmitIfMissing(v, args)
=============================================================================
