--------------------------- MODULE MCPipelineRun ---------------------------
EXTENDS PipelineRun

Item(issues, raises, mappingIssues, writable) ==
    [isMapping |-> TRUE, issues |-> issues, raises |-> raises,
     mappingIssues |-> mappingIssues, writable |-> writable]

Good       == Item(<<>>, "never", 0, TRUE)
NotMapping == [Good EXCEPT !.isMapping = FALSE]
Droppable  == Item(<<"WARN", "DROP">>, "never", 0, TRUE)
Failing    == Item(<<"FAIL">>, "never", 0, TRUE)
Unmapped   == Item(<<>>, "never", 1, TRUE)
Unwritable == Item(<<>>, "never", 0, FALSE)
Throwing   == Item(<<>>, "validation", 0, TRUE)
LateThrow  == Item(<<"WARN">>, "mapping", 0, TRUE)

\* One item of each fate an item can have.
MCItems == {Good, NotMapping, Droppable, Failing, Unmapped, Unwritable, Throwing, LateThrow}

Worker(strictness, isolation, header) ==
    [strictness |-> strictness, isolation |-> isolation, header |-> header,
     schemaValid |-> TRUE, failOnError |-> TRUE]

\* Every policy combination, with and without a header, on a valid schema; and
\* one worker per setting of the gate on an invalid schema.
MCWorkers ==
    {Worker(s, i, h) : s \in StrictnessMode \ {"none"}, i \in {"SKIP_ITEM", "FAIL_FAST"},
                       h \in BOOLEAN}
    \cup {Worker("none", "none", TRUE)}
    \cup {[Worker("fail_on_error", "IGNORE", TRUE) EXCEPT !.schemaValid = FALSE,
                                                          !.failOnError = b] : b \in BOOLEAN}

\* Workers of the runs that look at one documented statement.
MCOneWorker == {Worker("drop_invalid", "SKIP_ITEM", FALSE)}
MCUngated   == {[w EXCEPT !.schemaValid = FALSE, !.failOnError = FALSE] : w \in MCOneWorker}
=============================================================================
