--------------------------- MODULE ItemProcessing ---------------------------
(***************************************************************************)
(* A schema file on its way into a producer, and one item on its way       *)
(* through it: registration and compilation of the schema, the validation  *)
(* rules one after the other (validation_executor.run_one), the strictness *)
(* policy, then the fields one after the other and the transforms of each  *)
(* (mapping_executor.run_one), and the record handed to the writer.        *)
(***************************************************************************)
EXTENDS SchemaCompilation, ValidationModules, ItemDecision, Writers

CONSTANTS
    Schemas,  \* set of [file, doc, context, items, strategies]: schemas and what to run them on
    Data,     \* what items, rules and transforms are parsed into, with all their parts
    Hints     \* severity hints a schema may put on a rule

FieldsOf(doc)  == AsMapping(Get(Get(doc, "mapping", None), "fields", None)).m
SourcesOf(doc) == {Get(FieldsOf(doc)[id], "source", None) : id \in DOMAIN FieldsOf(doc)}
ListsOf(doc)   ==
    {Get(Get(doc, "mapping", None), "output_order", None), RulesOf(doc)}
    \cup {Get(FieldsOf(doc)[id], "transforms", None) : id \in DOMAIN FieldsOf(doc)}

\* What a rule is sorted by.
RuleWords(rule) ==
    {Word(Get(rule, "id", None), "empty"), Word(Get(rule, "module_id", None), "empty"),
     Word(Get(Get(rule, "applies_to", None), "field", None), "empty")}

ASSUME ItemAssumption ==
    /\ Alphabet \in Seq(STRING)
    /\ "pending" \notin Hints
    /\ \A v \in Data : IsParsed(v, Data)
    /\ \A s \in Schemas :
          /\ s.items \cup SourcesOf(s.doc) \subseteq Data
          /\ \A list \in ListsOf(s.doc) : list.t = "list" => list.e \in Seq(Data)
          /\ DOMAIN FieldsOf(s.doc) \subseteq ToSet(Alphabet)
          /\ RulesOf(s.doc).t = "list" => \A rule \in ToSet(RulesOf(s.doc).e) :
                /\ RuleWords(rule) \subseteq ToSet(Alphabet) \cup {"empty"}
                /\ RuleHint(rule) \in Hints
          /\ s.strategies \subseteq StrictnessMode

VARIABLES
    schema,     \* the schema in use
    strategy,   \* strictness strategy of the policy bundle, or "none"
    phase,      \* what happens next
    compiled,   \* the CompiledSchema
    item,       \* the input record
    todo,       \* rules still to run
    raw_items,  \* severities of the validation issues collected so far
    result,     \* ValidationExecutionResult
    fields,     \* ids of the fields still to be mapped
    current,    \* the value in the chain of the first of them
    step,       \* number of its transforms already applied, or Idle
    cells,      \* the emission of every field mapped so far
    issues,     \* mapping issues: code and field
    record      \* the record handed to the writer

vars == <<schema, strategy, phase, compiled, item, todo, raw_items, result, fields, current,
          step, cells, issues, record>>

validationVars == <<todo, raw_items, result>>
mappingVars    == <<fields, current, step, cells, issues, record>>

Plan       == compiled.mapping
Idle       == -1
Unfinished == [items |-> <<>>, decision |-> "NONE"]
NotCompiled == [valid |-> FALSE, rules |-> <<>>]

-----------------------------------------------------------------------------
\* One step of a transform chain.

Goes(v)    == [value |-> v, stops |-> FALSE, issue |-> "none"]
Stops(code) == [value |-> Missing, stops |-> TRUE, issue |-> code]

\* Variant: a failed operation leaves the value missing, without an issue.
FailsSilently(call, v) ==
    IF v = Missing /\ call.on_missing # "none" THEN Stops("none")
    ELSE LET returned == Call(call.op, v, call.args)
         IN  IF returned = Raised THEN Stops("none") ELSE Goes(returned)

\* _apply_transform. A default from on_missing replaces the operation's result.
ApplyTransform(call, v) ==
    LET returned == Call(call.op, v, call.args)
    IN  IF v = Missing /\ call.on_missing = "omit" THEN Stops("none")
        ELSE IF v = Missing /\ call.on_missing = "pass" THEN Goes(Missing)
        ELSE IF v = Missing /\ call.on_missing = "default"
        THEN IF "default" \in DOMAIN call.args THEN Goes(call.args["default"])
             ELSE Stops("EXEC_MAPPING_ON_MISSING_DEFAULT_REQUIRED")
        ELSE IF v = Missing /\ call.on_missing = "error" THEN Stops("EXEC_MAPPING_MISSING_ERROR")
        ELSE IF call.op \notin DOMAIN Catalog THEN Stops("EXEC_MAPPING_OP_NOT_FOUND")
        ELSE IF returned = Raised THEN Stops("EXEC_MAPPING_OP_FAILED") ELSE Goes(returned)

PresenceIssue(v, presence) ==
    IF v.t = "missing" /\ presence = "error_if_missing" THEN "EXEC_MAPPING_PRESENCE_ERROR"
    ELSE "none"

IssueAt(code, id) == IF code = "none" THEN {} ELSE {[code |-> code, field |-> id]}

\* The delete flag is read twice, with a vocabulary of its own each time: to
\* project a tombstone, and to report a delete that is not supported.
FlagValue == ExtractBySourcePath(item, Plan.tombstone.flag)

ProjectsTombstone(v) ==
    v = Bool(TRUE) \/ (IsStr(v) /\ Means(v, {"true", "1", "yes", "y"}))

\* Variant: the second vocabulary lacks a word.
KnowsFewerWords(v) == v = Bool(TRUE) \/ (IsStr(v) /\ Means(v, {"true", "1", "yes"}))

IsDeleteIntent(v) == v = Bool(TRUE) \/ (IsStr(v) /\ Means(v, {"true", "1", "yes", "y"}))

SortedFields ==
    FoldLeft(LAMBDA ids, id : IF id \in DOMAIN Plan.fields THEN Append(ids, id) ELSE ids,
             <<>>, Alphabet)

\* _ordered_csv_fields, and the sorted fields of a json_object.
FieldSequence == IF Plan.kind = "csv_row" /\ Plan.ordered THEN Plan.order ELSE SortedFields

\* _mapped_output_to_writer_record: an omitted field is no entry at all in an object.
WriterRecord ==
    IF Plan.kind = "csv_row"
    THEN [i \in DOMAIN FieldSequence |-> WriterValue(cells[FieldSequence[i]])]
    ELSE [id \in {id \in DOMAIN cells : cells[id] # Omit} |-> WriterValue(cells[id])]

-----------------------------------------------------------------------------
Init ==
    /\ schema \in Schemas
    /\ strategy \in schema.strategies
    /\ phase = "register"
    /\ compiled = NotCompiled
    /\ item = None
    /\ todo = <<>> /\ raw_items = <<>> /\ result = Unfinished
    /\ fields = <<>> /\ current = Missing /\ step = Idle
    /\ cells = NoEntries /\ issues = {} /\ record = <<>>

\* prepare_artifact_producer_from_files registers the parsed document.
Register ==
    /\ phase = "register"
    /\ phase' = IF RegistrationErrors(schema.doc, schema.file) = {} THEN "compile" ELSE "refused"
    /\ UNCHANGED <<schema, strategy, compiled, item, validationVars, mappingVars>>

CompileSchema ==
    /\ phase = "compile"
    /\ ~Compile(schema.doc, schema.context).raised
    /\ compiled' = Compile(schema.doc, schema.context)
    /\ phase' = IF compiled'.valid THEN "writer" ELSE "invalid"
    /\ todo' = compiled'.rules
    /\ UNCHANGED <<schema, strategy, item, raw_items, result, mappingVars>>

\* A prepare hook without its context, or a null in place of the transforms.
CompileRaises ==
    /\ phase = "compile"
    /\ Compile(schema.doc, schema.context).raised
    /\ phase' = "raised"
    /\ UNCHANGED <<schema, strategy, compiled, item, validationVars, mappingVars>>

\* Constructing the producer constructs its writer; what the writer refuses raises.
BuildWriter ==
    /\ phase = "writer"
    /\ phase' = IF WriterFails(compiled.writer, compiled.writer_config) THEN "no_writer" ELSE "ready"
    /\ UNCHANGED <<schema, strategy, compiled, item, validationVars, mappingVars>>

\* The producer pulls an item from the feed.
TakeItem ==
    /\ phase = "ready"
    /\ item' \in schema.items
    /\ phase' = "validate"
    /\ UNCHANGED <<schema, strategy, compiled, validationVars, mappingVars>>

\* _resolve_rule_value: a top-level entry of the input record, or the record.
RuleValue(rule) ==
    IF rule.field = "none" THEN item ELSE Get(item, rule.field, Missing)

RuleAnswer ==
    LET rule == Head(todo) IN Judge(rule.module, RuleValue(rule), rule.config, compiled.profile)

RulePasses ==
    /\ phase = "validate" /\ todo # <<>>
    /\ RuleAnswer = "ok"
    /\ todo' = Tail(todo)
    /\ UNCHANGED <<schema, strategy, phase, compiled, item, raw_items, result, mappingVars>>

RuleFails ==
    /\ phase = "validate" /\ todo # <<>>
    /\ RuleAnswer = "fails"
    /\ raw_items' = Append(raw_items, NormalizeRuleSeverity(Head(todo).hint))
    /\ todo' = Tail(todo)
    /\ UNCHANGED <<schema, strategy, phase, compiled, item, result, mappingVars>>

\* A module that raises is a FAIL, whatever the hint.
RuleRaises ==
    /\ phase = "validate" /\ todo # <<>>
    /\ RuleAnswer = "raises"
    /\ raw_items' = Append(raw_items, "FAIL")
    /\ todo' = Tail(todo)
    /\ UNCHANGED <<schema, strategy, phase, compiled, item, result, mappingVars>>

\* Variant: the first FAIL ends the validation.
FailsFast ==
    /\ phase = "validate" /\ (todo = <<>> \/ Occurs("FAIL", raw_items))
    /\ result' = Validate(strategy, raw_items)
    /\ phase' = IF result'.decision \in {"DROP", "FAIL"} THEN "rejected" ELSE "map"
    /\ UNCHANGED <<schema, strategy, compiled, item, todo, raw_items, mappingVars>>

\* All rules ran: the policy decides whether the item is mapped at all.
Conclude ==
    /\ phase = "validate" /\ todo = <<>>
    /\ result' = Validate(strategy, raw_items)
    /\ phase' = IF result'.decision \in {"DROP", "FAIL"} THEN "rejected" ELSE "map"
    /\ UNCHANGED <<schema, strategy, compiled, item, todo, raw_items, mappingVars>>

\* The start of MappingExecutor.run_one; only a csv_row looks at the delete flag.
StartMapping ==
    /\ phase = "map"
    /\ phase' = "fields"
    /\ fields' = FieldSequence
    /\ issues' = IF Plan.kind # "csv_row" THEN {}
                 ELSE IssueAt(IF IsDeleteIntent(FlagValue) /\ ~Plan.tombstone.enabled
                              THEN "CONTRACT.DELETE_UNSUPPORTED" ELSE "none", "build")
                      \cup IssueAt(IF Plan.ordered THEN "none"
                                   ELSE "EXEC_MAPPING_OUTPUT_ORDER_MISSING", "mapping")
    /\ UNCHANGED <<schema, strategy, compiled, item, validationVars, current, step, cells, record>>

Leave(emission, code) ==
    /\ cells' = [id \in DOMAIN cells \cup {Head(fields)} |->
                    IF id = Head(fields) THEN emission ELSE cells[id]]
    /\ issues' = issues \cup IssueAt(code, Head(fields))
    /\ fields' = Tail(fields)

IsTombstone ==
    Plan.kind = "csv_row" /\ Plan.tombstone.enabled /\ ProjectsTombstone(FlagValue)

\* A field of a tombstone row other than its id, or one the plan does not know.
SkipField ==
    /\ phase = "fields" /\ step = Idle /\ fields # <<>>
    /\ \/ Head(fields) \notin DOMAIN Plan.fields
       \/ IsTombstone /\ Head(fields) # Plan.tombstone.id
    /\ Leave(Omit, IF Head(fields) \in DOMAIN Plan.fields THEN "none"
                   ELSE "EXEC_MAPPING_FIELD_NOT_FOUND")
    /\ UNCHANGED <<schema, strategy, phase, compiled, item, validationVars, current, step, record>>

StartField ==
    /\ phase = "fields" /\ step = Idle /\ fields # <<>>
    /\ Head(fields) \in DOMAIN Plan.fields
    /\ ~(IsTombstone /\ Head(fields) # Plan.tombstone.id)
    /\ current' = ExtractBySourcePath(item, Plan.fields[Head(fields)].path)
    /\ step' = 0
    /\ UNCHANGED <<schema, strategy, phase, compiled, item, validationVars, fields, cells, issues,
                   record>>

Calls == Plan.fields[Head(fields)].calls

\* One transform; when it stops the chain, the rest is skipped.
Transform ==
    /\ phase = "fields" /\ step # Idle
    /\ step < Len(Calls)
    /\ LET done == ApplyTransform(Calls[step + 1], current)
       IN  /\ current' = done.value
           /\ step' = IF done.stops THEN Len(Calls) ELSE step + 1
           /\ issues' = issues \cup IssueAt(done.issue, Head(fields))
    /\ UNCHANGED <<schema, strategy, phase, compiled, item, validationVars, fields, cells, record>>

FinishField ==
    /\ phase = "fields" /\ step # Idle
    /\ step = Len(Calls)
    /\ LET presence == Plan.fields[Head(fields)].presence
       IN  Leave(ApplyPresence(current, presence), PresenceIssue(current, presence))
    /\ step' = Idle
    /\ current' = Missing
    /\ UNCHANGED <<schema, strategy, phase, compiled, item, validationVars, record>>

\* All fields are mapped: the record goes to the writer, issues or not.
Ship ==
    /\ phase = "fields" /\ step = Idle /\ fields = <<>>
    /\ record' = WriterRecord
    /\ phase' = "shipped"
    /\ UNCHANGED <<schema, strategy, compiled, item, validationVars, fields, current, step, cells,
                   issues>>

Next ==
    \/ Register \/ CompileSchema \/ CompileRaises \/ BuildWriter \/ TakeItem
    \/ RulePasses \/ RuleFails \/ RuleRaises \/ Conclude
    \/ StartMapping \/ SkipField \/ StartField \/ Transform \/ FinishField \/ Ship

Spec == Init /\ [][Next]_vars

-----------------------------------------------------------------------------
Shipped == phase = "shipped"

\* A schema that compiles without diagnostics never runs into what the compiler
\* should have linked: an unknown operation, field or missing output order, and
\* its rows have one cell for every field of the schema.
PlansLink ==
    Shipped =>
        /\ \A issue \in issues :
              issue.code \notin {"EXEC_MAPPING_FIELD_NOT_FOUND", "EXEC_MAPPING_OP_NOT_FOUND",
                                "EXEC_MAPPING_OUTPUT_ORDER_MISSING"}
        /\ DOMAIN cells = DOMAIN Plan.fields
        /\ Plan.kind = "csv_row" => Len(record) = Cardinality(DOMAIN Plan.fields)

\* The type check of a transform chain means something at run time: a value that
\* an operation with a declared result type passed on is null, missing or of the
\* type that the next operation declares for its input, and what an operation
\* returns has its declared type. (A default from on_missing bypasses both.)
ChainTypesAreSound ==
    [][ LET call == Calls[step + 1]
            previous == Calls[step]
            Typed(v, type) == Absent(v) \/ HasType(v, type)
        IN  (phase = "fields" /\ step # Idle /\ step < Len(Calls) /\ step' = step + 1
             /\ call.on_missing # "default") =>
                /\ Typed(current', call.out)
                /\ (step > 0 /\ previous.out # "any" /\ previous.on_missing # "default")
                      => Typed(current, call.in)
      ]_vars

\* The operations that may turn a value into nothing on purpose.
Emptying == {"emit_null_if_missing", "omit_if_missing", "regex_extract", "get_path",
             "format_price", "default_value"}

UsesAny(id, ops) == \E i \in DOMAIN Plan.fields[id].calls : Plan.fields[id].calls[i].op \in ops

\* The words with which an item asks for its deletion.
AsksDelete ==
    \/ FlagValue = Bool(TRUE)
    \/ IsStr(FlagValue) /\ FlagValue.s \in {"true", "1", "yes", "y"}
       /\ FlagValue.d \subseteq {"pad", "up"}

IsDeletion == Plan.kind = "csv_row" /\ Plan.tombstone.enabled /\ AsksDelete

\* A value the item has is not lost on the way to the writer without a trace: the
\* cell is empty only in a tombstone, by an operation that empties it, or with an
\* issue that names the field.
NoSilentFieldLoss ==
    Shipped =>
        \A id \in DOMAIN cells :
            (/\ cells[id] \in {Omit, Null}
             /\ ~Absent(ExtractBySourcePath(item, Plan.fields[id].path)))
            => \/ IsDeletion /\ id # Plan.tombstone.id
               \/ UsesAny(id, Emptying)
               \/ \E issue \in issues : issue.field = id

\* An item that asks for its deletion is never exported as a live row: it becomes
\* a tombstone, or the run records that deletions are not supported; an item that
\* does not ask is never treated so. Two functions must read the flag alike.
DeleteIsNotSilent ==
    (Shipped /\ Plan.kind = "csv_row") =>
        /\ AsksDelete /\ Plan.tombstone.enabled =>
              \A id \in DOMAIN cells \ {Plan.tombstone.id} : cells[id] = Omit
        /\ (\E issue \in issues : issue.code = "CONTRACT.DELETE_UNSUPPORTED")
              <=> AsksDelete /\ ~Plan.tombstone.enabled

\* The compiler's contradiction check carries over to the items: a field that
\* required_if_profile demands is left out of a record only by a tombstone, with
\* an issue, or by an operation that omits explicitly.
RequiredIsNotSilentlyOmitted ==
    Shipped =>
        \A id \in compiled.required :
            cells[id] = Omit => \/ IsDeletion
                               \/ UsesAny(id, {"omit_if_missing", "emit_if_present"})
                               \/ \E issue \in issues : issue.field = id

\* Every rule has an id, and no other rule has it.
HaveIds(rules) ==
    /\ \A i \in DOMAIN rules : NonEmptyStr(Get(rules[i], "id", None))
    /\ \A i, j \in DOMAIN rules : rules[i].m["id"].s = rules[j].m["id"].s => i = j

\* The plan does not depend on the order in which a schema lists rules that differ
\* in their ids, so neither do the issues of an item.
RuleOrderIsCanonical ==
    phase = "ready" =>
        LET rules == RulesOf(schema.doc).e
            types == CompileMapping(schema.doc, schema.context).types
        IN  HaveIds(rules) =>
                \A p \in Bijection(DOMAIN rules, DOMAIN rules) :
                    CompileRules([i \in DOMAIN rules |-> rules[p[i]]], types)
                        = [rules |-> compiled.rules, required |-> compiled.required, diags |-> {}]

\* The rules and the policy by themselves, in any order of module answers.
V == INSTANCE ItemValidation WITH
        plan <- IF phase \in {"register", "refused", "compile", "raised"} THEN <<"pending">>
                ELSE [i \in DOMAIN todo |-> todo[i].hint]

\* The rules of a plan, run on an item, are a behaviour of item validation: every
\* rule is answered once, in plan order, and then judged by the policy.
ValidationContract == V!Spec
=============================================================================
