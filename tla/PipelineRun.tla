----------------------------- MODULE PipelineRun -----------------------------
(***************************************************************************)
(* PFPWorker / PipelineRunner.run over several consecutive runs.           *)
(*                                                                         *)
(* The ingestion items, the records of the producer and the chunks of the  *)
(* writer are nested generators: nothing of the feed is read before        *)
(* Publisher.publish iterates the payload. One step of the model is one    *)
(* call that can fail: the steps of run(), the calls publish() makes on    *)
(* the archiver and on the delivery client, and each `next` on the         *)
(* payload, which pulls one item through ingestion, validation, mapping    *)
(* and serialization.                                                      *)
(*                                                                         *)
(* Archiver and delivery client appear through their contracts: any call   *)
(* may raise, and a finalize that raises may or may not have completed the *)
(* object (a lost answer).                                                 *)
(***************************************************************************)
EXTENDS ItemDecision, FiniteSets

CONSTANTS
    Items,      \* what the connector may yield, see ItemType
    Workers,    \* the configurations a worker may be built with, see WorkerType
    MaxItems,   \* bound: items in one feed
    MaxRuns     \* bound: runs of one worker

\* issues: severities of the issues validation raises; raises: where processing
\* the item throws; mappingIssues: issues of the mapping executor;
\* writable: the writer can serialize the mapped record.
ItemType ==
    [isMapping     : BOOLEAN,
     issues        : Seq(RuleSeverity),
     raises        : {"never", "validation", "mapping"},
     mappingIssues : Nat,
     writable      : BOOLEAN]

\* strictness and isolation: the policies ("none": prepared without them); header: the writer starts with a
\* header chunk; schemaValid: the schema compiled without errors;
\* failOnError: CoreManifest.fail_on_error_diagnostics.
WorkerType ==
    [strictness  : StrictnessMode,
     isolation   : {"SKIP_ITEM", "FAIL_FAST", "IGNORE", "none"},
     header      : BOOLEAN,
     schemaValid : BOOLEAN,
     failOnError : BOOLEAN]

ASSUME RunAssumption ==
    /\ Items \subseteq ItemType
    /\ Workers \subseteq WorkerType
    /\ MaxItems \in Nat
    /\ MaxRuns \in Nat

VARIABLES
    worker,     \* the configuration, fixed for the life of the worker
    runs,       \* runs started
    pc,         \* what run() does next
    ctx,        \* RunReport: failed_step, reason_code, artifacts
    diags,      \* the run's aggregated ValidationReport, as counts by severity
    usage,      \* FeedUsageCollector, shared by all runs of the worker
    chunk,      \* the chunk publish() is handling
    chunks,     \* the chunks publish() received: 0 is the header, n the n-th item
    archive,    \* this run's archive object: status and content
    delivery,   \* this run's delivery: status and content
    report,     \* what the last call of run() returned
    pulled      \* history: the items pulled out of this run's feed

vars == <<worker, runs, pc, ctx, diags, usage, chunk, chunks,
          archive, delivery, report, pulled>>
-----------------------------------------------------------------------------
ZeroCounts == [s \in DiagnosticSeverity |-> 0]
ZeroUsage  == [input |-> 0, processed |-> 0, dropped |-> 0, errors |-> 0,
               artifacts |-> 0, diagnostics |-> ZeroCounts]
NoFailure  == [failed_step |-> "none", reason_code |-> "none", artifacts |-> <<>>]
Untouched  == [status |-> "none", data |-> <<>>]
NoReport   == [status |-> "none", failed_step |-> "none", reason_code |-> "none",
               artifacts |-> <<>>, diags |-> ZeroCounts, usage |-> ZeroUsage]

Failure(step, reason) ==
    [failed_step |-> step, reason_code |-> reason, artifacts |-> <<>>]

Init ==
    /\ worker \in Workers
    /\ runs = 0
    /\ pc = "idle"
    /\ ctx = NoFailure
    /\ diags = ZeroCounts
    /\ usage = ZeroUsage
    /\ chunk = 0
    /\ chunks = <<>>
    /\ archive = Untouched
    /\ delivery = Untouched
    /\ report = NoReport
    /\ pulled = <<>>

\* Occurrences of severity s in a list of diagnostics.
CountOf(s, list) == Cardinality({i \in DOMAIN list : list[i] = s})

Plus(counts, list) == [s \in DiagnosticSeverity |-> counts[s] + CountOf(s, list)]

-----------------------------------------------------------------------------
\* Variant: the collector is not reset.
StartRunKeepsUsage ==
    /\ pc = "idle"
    /\ runs < MaxRuns
    /\ runs' = runs + 1
    /\ pc' = "extract"
    /\ ctx' = NoFailure
    /\ diags' = ZeroCounts
    /\ chunks' = <<>>
    /\ archive' = Untouched
    /\ delivery' = Untouched
    /\ report' = NoReport
    /\ pulled' = <<>>
    /\ UNCHANGED <<worker, chunk, usage>>

\* run() up to the guarded ingestion call: a fresh RunReport, and the shared
\* collector reset.
StartRun ==
    /\ pc = "idle"
    /\ runs < MaxRuns
    /\ runs' = runs + 1
    /\ pc' = "extract"
    /\ ctx' = NoFailure
    /\ diags' = ZeroCounts
    /\ usage' = ZeroUsage
    /\ chunks' = <<>>
    /\ archive' = Untouched
    /\ delivery' = Untouched
    /\ report' = NoReport
    /\ pulled' = <<>>
    /\ UNCHANGED <<worker, chunk>>

\* A step fails with a known exception: the context takes the failure, and
\* report_step comes next.
Fail(step, reason) ==
    /\ ctx' = Failure(step, reason)
    /\ pc' = "report"

\* Variant: the failure is noted but the run goes on.
ExtractGoesOn ==
    /\ pc = "extract"
    /\ pc' = "core"
    /\ ctx' \in {ctx, Failure("INGESTION_EXTRACT", "INGESTION.EXTRACT_ERROR")}
    /\ UNCHANGED <<worker, runs, diags, usage, chunk, chunks, archive, delivery,
                   report, pulled>>

\* connector.extract returns an iterable that has not read anything, or raises
\* (IngestionExtractCallError).
Extract ==
    /\ pc = "extract"
    /\ \/ pc' = "core" /\ UNCHANGED ctx
       \/ \E reason \in {"INGESTION.EXTRACT_TIMEOUT", "INGESTION.EXTRACT_ERROR"} :
             Fail("INGESTION_EXTRACT", reason)
    /\ UNCHANGED <<worker, runs, diags, usage, chunk, chunks, archive, delivery,
                   report, pulled>>

\* core_step: produce_artifacts builds the lazy payload. An invalid schema gives
\* no artifact but its compile errors; a ValueError (generated_at not in UTC) is
\* a contract error, anything else an internal one.
Core ==
    /\ pc = "core"
    /\ \/ /\ pc' = "gate"
          /\ diags' = IF worker.schemaValid THEN diags ELSE Plus(diags, <<"ERROR">>)
          /\ UNCHANGED ctx
       \/ /\ \/ Fail("CORE_BUILD", "CORE.CONTRACT_ERROR")
             \/ Fail("INTERNAL", "INTERNAL.ERROR")
          /\ UNCHANGED diags
    /\ UNCHANGED <<worker, runs, usage, chunk, chunks, archive, delivery,
                   report, pulled>>

GateRejects == worker.failOnError /\ diags["ERROR"] > 0

\* The gate of fail_on_error_diagnostics, before any item is read, and then the
\* selection of the artifact to publish: core_result.artifacts[0].
Gate ==
    /\ pc = "gate"
    /\ \/ GateRejects /\ Fail("CORE_BUILD", "CORE.VALIDATION_FAILED")
       \/ ~GateRejects /\ worker.schemaValid /\ pc' = "openArchive" /\ UNCHANGED ctx
    /\ UNCHANGED <<worker, runs, diags, usage, chunk, chunks, archive, delivery,
                   report, pulled>>

\* An invalid schema that the gate let pass: artifacts is empty, and the
\* IndexError of artifacts[0] is raised outside guard_publish. run() raises.
GateIndexError ==
    /\ pc = "gate"
    /\ ~GateRejects
    /\ ~worker.schemaValid
    /\ pc' = "idle"
    /\ report' = [NoReport EXCEPT !.status = "raised"]
    /\ UNCHANGED <<worker, runs, ctx, diags, usage, chunk, chunks, archive,
                   delivery, pulled>>
-----------------------------------------------------------------------------
(* Publisher.publish *)

PublishReasons == {"PUBLISH.TIMEOUT", "PUBLISH.ERROR"}

\* A call on the archiver or on the client raises: publish() re-raises without
\* cleaning up, guard_publish wraps, and the reason depends on TimeoutError.
PublishFails == \E reason \in PublishReasons : Fail("PUBLISH", reason)

OpenArchive ==
    /\ pc = "openArchive"
    /\ \/ pc' = "openClient" /\ archive' = [status |-> "open", data |-> <<>>] /\ UNCHANGED ctx
       \/ PublishFails /\ UNCHANGED archive
    /\ UNCHANGED <<worker, runs, diags, usage, chunk, chunks, delivery, report, pulled>>

OpenClient ==
    /\ pc = "openClient"
    /\ \/ pc' = "next" /\ delivery' = [status |-> "open", data |-> <<>>] /\ UNCHANGED ctx
       \/ PublishFails /\ UNCHANGED delivery
    /\ UNCHANGED <<worker, runs, diags, usage, chunk, chunks, archive, report, pulled>>

WriteChunk ==
    /\ pc = "write"
    /\ \/ pc' = "send" /\ archive' = [archive EXCEPT !.data = Append(@, chunk)] /\ UNCHANGED ctx
       \/ PublishFails /\ UNCHANGED archive
    /\ UNCHANGED <<worker, runs, diags, usage, chunk, chunks, delivery, report, pulled>>

\* Variant: the exception of send_chunk is swallowed.
SendChunkSwallows ==
    /\ pc = "send"
    /\ pc' = "next"
    /\ \/ delivery' = [delivery EXCEPT !.data = Append(@, chunk)]
       \/ UNCHANGED delivery
    /\ UNCHANGED <<worker, runs, ctx, diags, usage, chunk, chunks, archive, report, pulled>>

SendChunk ==
    /\ pc = "send"
    /\ \/ pc' = "next" /\ delivery' = [delivery EXCEPT !.data = Append(@, chunk)] /\ UNCHANGED ctx
       \/ PublishFails /\ UNCHANGED delivery
    /\ UNCHANGED <<worker, runs, diags, usage, chunk, chunks, archive, report, pulled>>

\* Variant: a finalize that raises starts the publication again.
FinalizeArchiveRetries ==
    /\ pc = "finArchive"
    /\ \/ pc' = "finClient" /\ archive' = [archive EXCEPT !.status = "complete"]
       \/ pc' = "openArchive" /\ UNCHANGED archive
    /\ UNCHANGED <<worker, runs, ctx, diags, usage, chunk, chunks, delivery, report, pulled>>

\* finalize of the archiver: on an exception the object may exist all the same.
FinalizeArchive ==
    /\ pc = "finArchive"
    /\ \/ pc' = "finClient" /\ archive' = [archive EXCEPT !.status = "complete"] /\ UNCHANGED ctx
       \/ /\ PublishFails
          /\ archive' \in {archive, [archive EXCEPT !.status = "complete"]}
    /\ UNCHANGED <<worker, runs, diags, usage, chunk, chunks, delivery, report, pulled>>

\* finalize of the client; on success publish() returns the artifact with the
\* materialized chunks.
FinalizeClient ==
    /\ pc = "finClient"
    /\ \/ /\ pc' = "report"
          /\ delivery' = [delivery EXCEPT !.status = "complete"]
          /\ ctx' = [ctx EXCEPT !.artifacts = <<chunks>>]
       \/ /\ PublishFails
          /\ delivery' \in {delivery, [delivery EXCEPT !.status = "complete"]}
    /\ UNCHANGED <<worker, runs, diags, usage, chunk, chunks, archive, report, pulled>>
-----------------------------------------------------------------------------
(* One `next` on the payload. *)

HeaderPending == worker.header /\ chunks = <<>>

\* The writer yields c; publish() appends it and goes on to the archiver.
Yield(c) ==
    /\ chunk' = c
    /\ chunks' = Append(chunks, c)
    /\ pc' = "write"

YieldHeader ==
    /\ pc = "next"
    /\ HeaderPending
    /\ Yield(0)
    /\ UNCHANGED <<worker, runs, ctx, diags, usage, archive, delivery, report, pulled>>

\* Taking an item out of the feed counts it, whatever becomes of it. Records the
\* connector itself skips (a required field missing) never get here.
Pull(item) ==
    /\ pc = "next"
    /\ ~HeaderPending
    /\ Len(pulled) < MaxItems
    /\ usage' = [usage EXCEPT !.input = @ + 1]
    /\ pulled' = Append(pulled, item)
    /\ UNCHANGED <<worker, runs, archive, delivery, report>>

\* Nothing comes out of this item: the generators go on to the next one.
Dropped == UNCHANGED <<pc, ctx, chunk, chunks>>

Verdict(item) == Validate(worker.strictness, item.issues)

PullNonMapping(item) ==
    /\ ~item.isMapping
    /\ Pull(item)
    /\ diags' = Plus(diags, <<"ERROR">>)
    /\ Dropped

\* handle_error re-raises under FAIL_FAST; without a policy the producer does.
Reraises == worker.isolation \in {"FAIL_FAST", "none"}

\* Processing the item throws: the exception leaves publish(), or is logged and
\* the item skipped. The diagnostics recorded before the exception stay.
PullThrowing(item) ==
    /\ item.isMapping
    /\ \/ item.raises = "validation"
       \/ item.raises = "mapping" /\ Verdict(item).decision \in {"PASS", "WARN"}
    /\ Pull(item)
    /\ diags' = IF item.raises = "mapping" THEN Plus(diags, Recorded(Verdict(item)))
                                           ELSE diags
    /\ \/ Reraises /\ PublishFails /\ UNCHANGED <<chunk, chunks>>
       \/ ~Reraises /\ Dropped

\* Variant: the issues of a dropped item are not recorded.
PullDroppedSilently(item) ==
    /\ item.isMapping /\ item.raises # "validation"
    /\ Verdict(item).decision = "DROP"
    /\ Pull(item)
    /\ UNCHANGED diags
    /\ Dropped

PullDropped(item) ==
    /\ item.isMapping /\ item.raises # "validation"
    /\ Verdict(item).decision = "DROP"
    /\ Pull(item)
    /\ diags' = Plus(diags, Recorded(Verdict(item)))
    /\ Dropped

\* Variant: `continue` instead of `break`.
PullStoppingContinues(item) ==
    /\ item.isMapping /\ item.raises # "validation"
    /\ Verdict(item).decision = "FAIL"
    /\ Pull(item)
    /\ diags' = Plus(diags, Append(Recorded(Verdict(item)), "ERROR"))
    /\ Dropped

\* FAIL: BUILD.FAIL_STOP is recorded and the record generator stops, so the
\* payload ends as a feed that is finished would.
PullStopping(item) ==
    /\ item.isMapping /\ item.raises # "validation"
    /\ Verdict(item).decision = "FAIL"
    /\ Pull(item)
    /\ diags' = Plus(diags, Append(Recorded(Verdict(item)), "ERROR"))
    /\ pc' = "finArchive"
    /\ UNCHANGED <<ctx, chunk, chunks>>

\* The item is mapped (mapping issues are ERRORs, the record goes out all the
\* same) and serialized. The writer sits outside the item's fault isolation: its
\* ValueError leaves publish().
PullMapped(item) ==
    /\ item.isMapping /\ item.raises = "never"
    /\ Verdict(item).decision \in {"PASS", "WARN"}
    /\ Pull(item)
    /\ diags' = Plus(diags, Recorded(Verdict(item))
                              \o [i \in 1..item.mappingIssues |-> "ERROR"])
    /\ \/ item.writable /\ Yield(Len(pulled) + 1) /\ UNCHANGED ctx
       \/ ~item.writable /\ Fail("PUBLISH", "PUBLISH.ERROR") /\ UNCHANGED <<chunk, chunks>>

PullItem(item) ==
    \/ PullNonMapping(item) \/ PullThrowing(item) \/ PullDropped(item)
    \/ PullStopping(item)   \/ PullMapped(item)

\* Variant: the archiver is not finalized.
EndOfFeedSkipsArchiver ==
    /\ pc = "next"
    /\ ~HeaderPending
    /\ pc' = "finClient"
    /\ UNCHANGED <<worker, runs, ctx, diags, usage, chunk, chunks, archive,
                   delivery, report, pulled>>

\* The feed ends.
EndOfFeed ==
    /\ pc = "next"
    /\ ~HeaderPending
    /\ pc' = "finArchive"
    /\ UNCHANGED <<worker, runs, ctx, diags, usage, chunk, chunks, archive,
                   delivery, report, pulled>>

\* Reading the feed throws (IngestionExtractIterationError). The for statement
\* of the producer is outside its try; the wrapper reaches guard_publish, which
\* asks it, not its cause, whether it is a TimeoutError.
FeedThrows ==
    /\ pc = "next"
    /\ ~HeaderPending
    /\ Fail("PUBLISH", "PUBLISH.ERROR")
    /\ UNCHANGED <<worker, runs, diags, usage, chunk, chunks, archive, delivery,
                   report, pulled>>
-----------------------------------------------------------------------------
\* report_step: the counters of the run are closed and run() returns. (The
\* connectors of the repository hand over no ingestion diagnostics.)
Report ==
    /\ pc = "report"
    /\ LET failed == ctx.failed_step # "none"
       IN  /\ usage' = [usage EXCEPT
                          !.errors      = IF failed THEN @ + 1 ELSE @,
                          !.artifacts   = IF failed THEN @ ELSE @ + Len(ctx.artifacts),
                          !.processed   = IF failed THEN @ ELSE @ + usage.input,
                          !.diagnostics = [s \in DiagnosticSeverity |-> @[s] + diags[s]]]
           /\ report' = [status      |-> IF failed THEN "FAILED" ELSE "SUCCESS",
                         failed_step |-> ctx.failed_step,
                         reason_code |-> ctx.reason_code,
                         artifacts   |-> ctx.artifacts,
                         diags       |-> diags,
                         usage       |-> usage']
    /\ pc' = "idle"
    /\ UNCHANGED <<worker, runs, ctx, diags, chunk, chunks, archive, delivery, pulled>>

Running ==
    \/ Extract \/ Core \/ Gate \/ GateIndexError
    \/ OpenArchive \/ OpenClient
    \/ YieldHeader \/ (\E item \in Items : PullItem(item)) \/ EndOfFeed \/ FeedThrows
    \/ WriteChunk \/ SendChunk
    \/ FinalizeArchive \/ FinalizeClient
    \/ Report

Next == StartRun \/ Running

Spec == Init /\ [][Next]_vars

\* A run is one synchronous call: once started, its statements are executed.
FairSpec == Spec /\ WF_vars(Running)

-----------------------------------------------------------------------------
(* Type invariant *)

PC == {"idle", "extract", "core", "gate", "openArchive", "openClient", "next",
       "write", "send", "finArchive", "finClient", "report"}

ObjectType == [status : {"none", "open", "complete"}, data : Seq(Nat)]

CountsType == [DiagnosticSeverity -> Nat]

UsageType ==
    [input : Nat, processed : Nat, dropped : Nat, errors : Nat, artifacts : Nat,
     diagnostics : CountsType]

FailedSteps == {"none", "INGESTION_EXTRACT", "CORE_BUILD", "INTERNAL", "PUBLISH"}

ReasonCodes ==
    {"none", "INGESTION.EXTRACT_TIMEOUT", "INGESTION.EXTRACT_ERROR", "CORE.CONTRACT_ERROR",
     "CORE.VALIDATION_FAILED", "INTERNAL.ERROR", "PUBLISH.TIMEOUT", "PUBLISH.ERROR"}

\* The tokens are those docs/api.md lists.
ContextType ==
    [failed_step : FailedSteps, reason_code : ReasonCodes, artifacts : Seq(Seq(Nat))]

ReportType ==
    [status : {"none", "raised", "SUCCESS", "FAILED"}, failed_step : FailedSteps,
     reason_code : ReasonCodes, artifacts : Seq(Seq(Nat)), diags : CountsType,
     usage : UsageType]

TypeOK ==
    /\ worker \in Workers
    /\ runs \in 0..MaxRuns
    /\ pc \in PC
    /\ ctx \in ContextType
    /\ diags \in CountsType
    /\ usage \in UsageType
    /\ chunk \in Nat
    /\ chunks \in Seq(Nat)
    /\ archive \in ObjectType
    /\ delivery \in ObjectType
    /\ report \in ReportType
    /\ pulled \in Seq(Items)
-----------------------------------------------------------------------------
(* Safety *)

\* A SUCCESS report is the promise of publish(): archive and delivery are both
\* complete, and they and the artifact of the report hold the same chunks. It
\* rests on the order of the calls publish() makes and on every failure of a
\* call, or of the lazy payload in between, reaching the report.
SuccessMeansDelivered ==
    report.status = "SUCCESS" =>
        /\ archive  = [status |-> "complete", data |-> chunks]
        /\ delivery = [status |-> "complete", data |-> chunks]
        /\ report.artifacts = <<chunks>>
        /\ ctx.failed_step = "none"

\* At every moment the client has what the archive has, up to the one chunk in
\* hand: nothing is sent that was not archived first. And what reached the
\* destination in full is in the archive, chunk for chunk, even when the run is
\* reported as failed (a finalize whose answer was lost).
DeliveredIsArchived ==
    /\ delivery.status # "none" =>
          \/ archive.data = delivery.data
          \/ archive.data = Append(delivery.data, chunk)
    /\ delivery.status = "complete" =>
          archive.status = "complete" /\ delivery.data = archive.data

\* A run that failed before publishing, or raised, opened nothing and read
\* nothing of the feed.
EarlyFailureTouchesNothing ==
    (report.status = "raised" \/ report.failed_step \in {"INGESTION_EXTRACT", "CORE_BUILD", "INTERNAL"})
        => archive = Untouched /\ delivery = Untouched /\ pulled = <<>>

\* Under a strictness that rejects errors, no row that went out comes from an item
\* with a DROP or FAIL issue, nor from one that is not a mapping or threw.
StrictnessKeepsInvalidOut ==
    \A i \in DOMAIN chunks : chunks[i] > 0 =>
        LET item == pulled[chunks[i]]
        IN  /\ item.isMapping /\ item.raises = "never"
            /\ worker.strictness # "warn_only" =>
                  ~Occurs("FAIL", item.issues) /\ ~Occurs("DROP", item.issues)

\* An item with a FAIL verdict is the last one the run reads.
Stops(item) ==
    item.isMapping /\ item.raises # "validation" /\ Verdict(item).decision = "FAIL"

FailStopIsFinal ==
    \A n \in DOMAIN pulled : Stops(pulled[n]) => n = Len(pulled) /\ pc # "next"

\* Processing the item raises an exception.
Throws(item) ==
    /\ item.isMapping
    /\ \/ item.raises = "validation"
       \/ item.raises = "mapping" /\ Verdict(item).decision \in {"PASS", "WARN"}

\* The only items that vanish without a diagnostic are those that threw, and only
\* where fault isolation skips them: every other item of a successful run is a row
\* or left a diagnostic.
Rows == {chunks[i] : i \in DOMAIN chunks} \ {0}

Skipped(n) == Throws(pulled[n]) /\ worker.isolation \notin {"FAIL_FAST", "none"}

LostItems == {n \in DOMAIN pulled : n \notin Rows /\ ~Skipped(n)}

NoSilentLoss ==
    report.status = "SUCCESS" =>
        Cardinality(LostItems) <= diags["ERROR"] + diags["WARN"] + diags["INFO"]

\* The counters of a report are those of its own run, although all runs of the
\* worker share one collector.
UsageIsPerRun ==
    report.status \in {"SUCCESS", "FAILED"} =>
        /\ report.usage.input = Len(pulled)
        /\ report.usage.diagnostics = diags
        /\ report.usage.errors + report.usage.artifacts = 1

-----------------------------------------------------------------------------
(* Inductive invariant: where the three copies of the chunk sequence stand at  *)
(* each step of run(). *)

Open(object, data)     == object = [status |-> "open", data |-> data]
Complete(object, data) == object = [status |-> "complete", data |-> data]

BeforePublish ==
    /\ archive = Untouched /\ delivery = Untouched
    /\ chunks = <<>> /\ pulled = <<>> /\ usage = ZeroUsage

\* The assertion that holds when control is at the program point pc.
StageInv ==
    /\ pc \in {"extract", "core", "gate", "openArchive"} => BeforePublish
    /\ pc = "openClient" =>
          /\ Open(archive, <<>>) /\ delivery = Untouched
          /\ chunks = <<>> /\ pulled = <<>>
    /\ pc \in {"next", "finArchive"} => Open(archive, chunks) /\ Open(delivery, chunks)
    /\ pc = "write" => /\ Open(archive, archive.data) /\ Open(delivery, archive.data)
                       /\ chunks = Append(archive.data, chunk)
    /\ pc = "send" => /\ Open(archive, chunks) /\ Open(delivery, delivery.data)
                      /\ chunks = Append(delivery.data, chunk)
    /\ pc = "finClient" => Complete(archive, chunks) /\ Open(delivery, chunks)
    /\ pc = "report" /\ ctx.failed_step = "none" =>
          /\ Complete(archive, chunks) /\ Complete(delivery, chunks)
          /\ ctx.artifacts = <<chunks>>

ContextInv ==
    /\ pc \notin {"report", "idle"} => ctx = NoFailure
    /\ pc # "idle" => report = NoReport
    /\ ctx.failed_step \in {"INGESTION_EXTRACT", "CORE_BUILD", "INTERNAL"} =>
          archive = Untouched /\ delivery = Untouched /\ pulled = <<>>
    /\ report.failed_step # "none" => report.failed_step = ctx.failed_step

RunInv ==
    /\ TypeOK
    /\ StageInv
    /\ ContextInv
    /\ SuccessMeansDelivered
    /\ DeliveredIsArchived
    /\ EarlyFailureTouchesNothing
-----------------------------------------------------------------------------
(* Liveness *)

\* A finite feed always brings run() back to its caller.
RunReturns == pc # "idle" ~> pc = "idle"
-----------------------------------------------------------------------------
(* What the documentation says and the code does not do *)

\* config/docs/03_policies.md: with fail_on_error_diagnostics and ERROR
\* diagnostics in the report, execution stops before publish as
\* CORE.VALIDATION_FAILED; so no run that was published has one.
GateStopsErrors ==
    (worker.failOnError /\ report.status = "SUCCESS") => report.diags["ERROR"] = 0

\* docs/api.md: PFPWorker.run(input_bytes) returns an ExecutionReport.
EveryRunReturnsReport == report.status # "raised"
=============================================================================
