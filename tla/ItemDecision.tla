---------------------------- MODULE ItemDecision ----------------------------
(***************************************************************************)
(* The pure part of item validation: how the severities of the issues one  *)
(* item collected become the decision about the item (PASS, WARN, DROP,    *)
(* FAIL) and the severities recorded in the run's ValidationReport.        *)
(* Sources: engine/validation_executor.py, engine/validation/*,            *)
(* policies/domain/strictness.py and the severity conversions of           *)
(* artifact_production/artifact_producer.py.                               *)
(*                                                                         *)
(* An issue list is the sequence of its severities: codes, messages and    *)
(* paths decide nothing.                                                   *)
(***************************************************************************)
EXTENDS Naturals, Sequences

\* Severity of a ValidationReportItem, and of a Diagnostic.
RuleSeverity       == {"WARN", "DROP", "FAIL"}
DiagnosticSeverity == {"ERROR", "WARN", "INFO"}

\* Strictness strategies of policies.yaml; "none" stands for a producer that
\* was prepared without a policy bundle.
StrictnessMode == {"fail_on_error", "drop_invalid", "warn_only", "none"}

Decision == {"PASS", "WARN", "DROP", "FAIL"}

Occurs(x, s) == \E i \in DOMAIN s : s[i] = x

-----------------------------------------------------------------------------
\* The severity of the issue of a failed rule; anything that is not WARN or
\* DROP (no hint, ERROR, an unknown word) is FAIL.
NormalizeRuleSeverity(hint) == IF hint \in {"WARN", "DROP"} THEN hint ELSE "FAIL"

\* Variant: only FAIL counts as an error.
DropIsAWarning(severity) == IF severity = "FAIL" THEN "ERROR" ELSE "WARN"

\* A DROP issue is an ERROR for the strictness policy, like a FAIL issue.
ToDiagnosticSeverity(severity) == IF severity = "WARN" THEN "WARN" ELSE "ERROR"

DowngradeErrors(diags) ==
    [i \in DOMAIN diags |-> IF diags[i] = "ERROR" THEN "WARN" ELSE diags[i]]

\* StrictnessPolicy.apply
ApplyStrictness(strategy, diags) ==
    [diagnostics  |-> IF strategy = "warn_only" THEN DowngradeErrors(diags) ELSE diags,
     should_fail  |-> strategy = "fail_on_error" /\ Occurs("ERROR", diags),
     drop_invalid |-> strategy = "drop_invalid" /\ Occurs("ERROR", diags)]

FromStrictnessDiagnostic(severity, dropInvalid) ==
    IF severity = "WARN" THEN "WARN" ELSE IF dropInvalid THEN "DROP" ELSE "FAIL"

DecisionWithoutPolicies(items) ==
    IF Occurs("FAIL", items) THEN "FAIL"
    ELSE IF Occurs("DROP", items) THEN "DROP"
    ELSE IF Occurs("WARN", items) THEN "WARN" ELSE "PASS"

DecisionFromStrictness(result, items) ==
    IF result.should_fail THEN "FAIL"
    ELSE IF result.drop_invalid \/ Occurs("DROP", items) THEN "DROP"
    ELSE IF Occurs("WARN", items) THEN "WARN" ELSE "PASS"

\* The end of ValidationExecutor.run_one: the raw issues of the item, through
\* the policy. (StrictnessPolicy keeps the number of diagnostics, so the
\* length-mismatch branch of the code is never taken.)
Validate(strategy, issues) ==
    LET strictness == ApplyStrictness(strategy,
                          [i \in DOMAIN issues |-> ToDiagnosticSeverity(issues[i])])
        effective  == [i \in DOMAIN issues |->
                          FromStrictnessDiagnostic(strictness.diagnostics[i],
                                                   strictness.drop_invalid)]
    IN  IF issues = <<>> THEN [items |-> <<>>, decision |-> "PASS"]
        ELSE IF strategy = "none"
        THEN [items |-> issues, decision |-> DecisionWithoutPolicies(issues)]
        ELSE [items |-> effective, decision |-> DecisionFromStrictness(strictness, effective)]

\* _normalize_validation_severity of the producer, which records an issue in the
\* run's report: the words it knows are those of a Diagnostic, so the issue
\* severities DROP and FAIL fall through to INFO.
NormalizeValidationSeverity(severity) ==
    IF severity \in {"ERROR", "ERR", "E"} THEN "ERROR"
    ELSE IF severity \in {"WARN", "WARNING", "W"} THEN "WARN" ELSE "INFO"

\* What one validated item adds to the report.
Recorded(validation) ==
    [i \in DOMAIN validation.items |-> NormalizeValidationSeverity(validation.items[i])]
=============================================================================
