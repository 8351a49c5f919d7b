--------------------------- MODULE ItemValidation ---------------------------
(***************************************************************************)
(* ValidationExecutor.run_one: the compiled rules of a validation plan run *)
(* one after the other on one item, each issue is collected, and the       *)
(* strictness policy turns the issues into the item's decision.            *)
(***************************************************************************)
EXTENDS ItemDecision

CONSTANT Hints   \* severity hints a schema may put on a rule

VARIABLES
    strategy,   \* strictness strategy of the policy bundle, or "none"
    plan,       \* severity hints of the rules still to run, or Pending
    raw_items,  \* severities of the issues collected so far
    result      \* ValidationExecutionResult, or Unfinished

vars == <<strategy, plan, raw_items, result>>

Unfinished == [items |-> <<>>, decision |-> "NONE"]
Pending    == <<"pending">>

Init ==
    /\ strategy \in StrictnessMode
    /\ plan = Pending
    /\ raw_items = <<>>
    /\ result = Unfinished

\* The plan arrives with the compiled schema.
Receive ==
    /\ plan = Pending
    /\ plan' \in Seq(Hints)
    /\ UNCHANGED <<strategy, raw_items, result>>

\* The rule's module answered ok: nothing is recorded.
RulePasses ==
    /\ plan \notin {Pending, <<>>}
    /\ plan' = Tail(plan)
    /\ UNCHANGED <<strategy, raw_items, result>>

\* The module answered not-ok: an issue with the severity of the rule's hint.
RuleFails ==
    /\ plan \notin {Pending, <<>>}
    /\ raw_items' = Append(raw_items, NormalizeRuleSeverity(Head(plan)))
    /\ plan' = Tail(plan)
    /\ UNCHANGED <<strategy, result>>

\* The module is not in the catalog, raised, or answered in an invalid shape:
\* a FAIL issue, whatever the rule's hint.
RuleBreaks ==
    /\ plan \notin {Pending, <<>>}
    /\ raw_items' = Append(raw_items, "FAIL")
    /\ plan' = Tail(plan)
    /\ UNCHANGED <<strategy, result>>

\* All rules ran: the issues are judged. (They are sorted first by module, rule,
\* path and code; their order changes neither decision nor counts.)
Conclude ==
    /\ plan = <<>>
    /\ result = Unfinished
    /\ result' = Validate(strategy, raw_items)
    /\ UNCHANGED <<strategy, plan, raw_items>>

Next == Receive \/ RulePasses \/ RuleFails \/ RuleBreaks \/ Conclude

Spec == Init /\ [][Next]_vars

=============================================================================
