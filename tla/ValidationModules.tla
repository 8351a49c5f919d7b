------------------------- MODULE ValidationModules -------------------------
(***************************************************************************)
(* The built-in validation modules of ext/validation: what each answers    *)
(* for a value, its configuration and the artifact profile. An answer is   *)
(* "ok", "fails" or "raises".                                              *)
(***************************************************************************)
EXTENDS FieldValues

Answer(ok) == IF ok THEN "ok" ELSE "fails"

Required(v) == Answer(~Absent(v))

-----------------------------------------------------------------------------
\* _normalize_profiles: the profiles of a configuration, stripped and in lower
\* case; no usable entry means that the rule holds for every profile.
Everywhere == "every profile"

NonBlank(v) == IsStr(v) /\ v.s # "empty"

NormalizeProfiles(config) ==
    LET several == config["artifact_profiles"]
        one     == config["artifact_profile"]
        named   == IF several.t = "list"
                   THEN {several.e[i].s : i \in {i \in DOMAIN several.e : NonBlank(several.e[i])}}
                   ELSE {}
    IN  IF "artifact_profiles" \in DOMAIN config /\ several # None
        THEN IF named = {} THEN {Everywhere} ELSE named
        ELSE IF "artifact_profile" \in DOMAIN config /\ NonBlank(one) THEN {one.s}
        ELSE {Everywhere}

RequiredIfProfile(v, config, profile) ==
    LET active == NormalizeProfiles(config)
    IN  IF active # {Everywhere} /\ profile.s \notin active THEN "ok" ELSE Required(v)

-----------------------------------------------------------------------------
TypeIds == {"string", "int", "decimal", "bool", "date", "datetime", "array[string]",
            "object", "any"}

\* An Emission is no mapping, and no item holds one.
TypeCheck(v, config) ==
    LET type == config["type_id"]
    IN  IF "type_id" \notin DOMAIN config THEN "raises"
        ELSE IF ~IsStr(type) \/ type.s \notin TypeIds THEN "raises"
        ELSE Answer(Absent(v) \/ HasType(v, type.s))

\* Only texts are compared: everything else is left to the type module.
EnumCheck(v, config) ==
    LET allowed == config["allowed"]
    IN  IF "allowed" \notin DOMAIN config THEN "raises"
        ELSE IF ~HasType(allowed, "array[string]") \/ allowed.e = <<>> THEN "raises"
        ELSE Answer(~IsStr(v) \/ \E i \in DOMAIN allowed.e : allowed.e[i] = v)

\* Bounds and value as decimals. A NaN cannot be compared: where a bound or the
\* value is one the module raises, while texts that are no numbers are let through.
Bounded(config, bound) == bound \in DOMAIN config /\ config[bound] # None
Number(v) == IF v.t = "bool" THEN Raised ELSE DecimalOf(v)

Exceeds(a, b) == b.s # "inf" /\ (a.s = "inf" \/ Tenths[a.s] > Tenths[b.s])

RangeCheck(v, config) ==
    LET bounds == {b \in {"min", "max"} : Bounded(config, b)}
        limit  == [b \in bounds |-> Number(config[b])]
        number == Number(v)
    IN  IF bounds = {} \/ \E b \in bounds : limit[b] = Raised THEN "raises"
        ELSE IF bounds = {"min", "max"} /\ \/ \E b \in bounds : limit[b].s = "nan"
                                           \/ Exceeds(limit["min"], limit["max"])
        THEN "raises"
        ELSE IF Absent(v) THEN "ok"
        ELSE IF number = Raised THEN "ok"
        ELSE IF number.s = "nan" \/ \E b \in bounds : limit[b].s = "nan" THEN "raises"
        ELSE Answer(/\ "min" \in bounds => ~Exceeds(limit["min"], number)
                    /\ "max" \in bounds => ~Exceeds(number, limit["max"]))

-----------------------------------------------------------------------------
\* module.call(value, config, record, profile)
Judge(module, v, config, profile) ==
    CASE module = "required"            -> Required(v)
      [] module = "required_if_profile" -> RequiredIfProfile(v, config, profile)
      [] module = "type"                -> TypeCheck(v, config)
      [] module = "enum"                -> EnumCheck(v, config)
      [] module = "range"               -> RangeCheck(v, config)
=============================================================================
