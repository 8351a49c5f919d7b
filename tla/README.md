# Verification of Product Feed Protocol

This directory holds TLA+ models of the PFP runtime (`src/pfp_core`, `src/pfp_runtime`,
`src/pfp_utils`), the TLC configurations that check them on small instances, and TLAPS
proofs of what matters most for every instance. Paths below are relative to the
repository's `src/` directory.

## 1. The system

A worker is assembled once from YAML files (`PFPFactory.build_worker`) and then runs many
times (`PFPWorker.run(bytes)`). One run is a synchronous pipeline:

    SourceConnector -> ArtifactProducer -> Writer -> Publisher -> Archiver
       (adapter,          (validation,      (CSV,     (chunks)  \-> DeliveryClient
        mapper,            mapping)          JSONL)
        producer)

Everything before the publisher is a chain of generators. Nothing of the input is read
until `Publisher.publish` iterates the payload: then each `next` pulls one record through
adapter, mapper, producer, validation, mapping and serialization. The hard parts of this
system follow from that: a failure in any of these stages surfaces in the middle of
publishing, with the destinations open.

Assembly goes through stages of its own: infra file, log pipeline, connector, schema and
policies, publisher. The log pipeline belongs to the process, so what a stage has done
outlives a build that a later stage refuses.

| component | state | operations | correct when |
|---|---|---|---|
| `PipelineRunner`, guards, report (`pfp_runtime/orchestration`, `pipeline`) | `RunReport`, the worker's `FeedUsageCollector`, shared by its runs | `run` | every run returns one report; SUCCESS means archived and delivered; a report speaks of its own run only |
| `ArtifactProducer` (`pfp_core/artifact_production`) | prepared schema and policies; the aggregated `ValidationReport` of the run | `produce_artifacts`, the lazy record generator | no rejected item in the artifact, no item lost without a trace, FAIL stops, fault isolation is honoured |
| Schema registry and format check (`pfp_core/schema`) | loaded documents | registration, `get` | a document that is wrong is refused with a diagnostic |
| Compilers and plans (`pfp_core/engine/*_compiler.py`, `engine/mapping`, `engine/validation`) | none, they return plans | `compile` | rules and fields in an order of their own, plans that name each other's parts, types of a chain that fit |
| Validation and strictness (`pfp_core/engine/validation*`, `policies/domain/strictness.py`) | issues of one item | `ValidationExecutor.run_one`, `StrictnessPolicy.apply` | the decision agrees with the issues and is the one the strategy prescribes |
| Mapping (`pfp_core/engine/mapping*`) | issues and value of one field | `MappingExecutor.run_one` | transforms in order, an error is told, presence rules and tombstones |
| Mapping and validation modules (`pfp_core/ext`) | none | pure functions of a value | a value of the declared type, or an exception |
| Connectors (`pfp_runtime/connectors`) | compiled mapping; the position in the input | `extract` | each element becomes at most one record, in order; a bad one ends the stream, a record without a required field is skipped or ends it |
| Writers (`pfp_core/writers`) | the row buffer, marker flags | `write` | one chunk per record, header first, a cell can be read back |
| `Publisher` (`publishing/contracts`) | chunk list | `publish` | archive before delivery, chunk for chunk |
| Archivers (`publishing/archivers`) | temp file, or multipart upload with its buffered parts | `open`, `write_chunk`, `finalize` | an archive is visible only when complete; nothing is lost between parts |
| Delivery clients (`publishing/clients`) | buffer, queue and sender thread, remote temp file | `open`, `send_chunk`, `finalize` | a delivery that reports success holds exactly the chunks of its run |
| Transport policy (`publishing/support`) | attempt counter | `execute_with_retry` | bounded attempts, only retryable categories |
| Configuration and policies (`pfp_runtime/config`, `pfp_core/policies`) | parsed files | `get_infra`, `PolicyConfig.from_dict` | a file that is wrong is refused before a worker exists |
| Builders and manifests (`pfp_runtime/manifest`, `shell`) | the parts built so far | `build_worker` | a worker is complete, a refused build leaves a worker of the process alone |
| Log pipeline and context (`pfp_utils/logging`) | root handlers, thread-local context | `install`, `LogContext` | one pipeline per process |
| Flood control (`pfp_utils/logging`) | dedup table, rate windows, counters | `filter` | each record judged once, the table bounded |
| Eager HTTP transport, chunk buffer, safe writes (`publishing/support`) | buffer flags; a temporary file | `open`, `write`, `take_body`; `atomic_write_bytes` | called by tests only |
| Telemetry, redaction, secrets | counters, patterns | emission, string functions | see section 6 |

Concurrency: the pipeline itself is single-threaded. Threads appear in the streaming HTTP
client (a sender thread per run) and in the logging filters (any thread may log).

## 2. Modules

| module | models | state and actions, and the code they stand for |
|---|---|---|
| `FieldValues` | the values of items, documents and plans (`ext_types.py`, `runtime_values.py`) | operators on typed values; a text is a core word with decorations (padding, upper case, tags, gaps) |
| `MappingOps` | the 27 mapping operations of `ext/mapping`, and the types they declare | operators only; an operation that raises yields `Raised` |
| `ValidationModules` | the 5 validation modules of `ext/validation` | operators only |
| `SchemaCompilation` | the format check of a schema file and `SchemaCompiler.compile` with its sections | operators from a document to diagnostics and plans |
| `ItemDecision` | the conversions from rule hints to issue severities, to diagnostics, through the strictness policy, to the item's decision and to the report | operators only |
| `ItemValidation` | what `ValidationExecutor.run_one` promises, whatever the modules answer | one action per outcome of a rule; `Conclude` is the end of `run_one` |
| `ItemProcessing` | a schema file on its way into a producer and an item on its way through it | registration, compilation, creation of the writer, one action per rule, the policy, one action per transform of a field, its emission, the record shipped or dropped |
| `Adapters` | the seven format adapters | operators: the elements of an input, and the outcome of each |
| `Connectors` | the adapter registry, the mapping file, mapper and `ProductProducer` | operators, in the order of the code's checks |
| `Writers` | the CSV and JSONL writers | operators: what a configuration refuses, the flags after a row, the chunk |
| `Configuration` | the models and the validator of the infra file, its path rules, the flood-control and policy files, the tax mapping | operators on documents |
| `Assembly` | `PFPFactory.build_worker`, several times in one process | `stage` is the manifest being built; `root` the handlers of the root logger; one action per stage and refusal; `BuildAgain`, `StartOver` |
| `FeedPath` | one run of the worker that `Assembly` builds, as a chain of generators | one action per stage that holds the record: `Read`, `MapRecord`, `ProduceItem`, `ProjectItem`, `WriteRecord`, and their refusals |
| `PipelineRun` | `PipelineRunner.run`, the record generator, `Publisher.publish` and `report_step`, over consecutive runs of one worker | `pc` is the statement `run()` is at; one action per call that can fail and per fate of an item |
| `Archive` | what `publish()` relies on in an archiver (`ArchiverContract`) | `stored` under `name`, and the cycle open / write / finalize, any call of which may raise |
| `S3Archive` | `S3Archiver`, `S3CompatArchiver` and the object store | the archiver's fields; one action per attempt of a call on the store (`CreateDone`, `PartFails`, ...) |
| `LocalArchive` | `LocalArchiver` and the directory | `files` is the file of each run with what is synced of it, `entry` where the directory has it (nowhere, temporary name, final name); one action per system call of `finalize()`; `ProcessDies`, `PowerFails` |
| `SftpDelivery` | `SftpDeliveryClient` and the server | the session and `_tmp_path`; `temps` and `target`; one action per operation on the session |
| `TransportErrors` | `classify_transport_error`, `is_retryable_category` | operators only |
| `HttpDelivery` | `HttpDeliveryClient` and its endpoint | the buffer; one action per outcome of an attempt at the POST |
| `StreamingHttp` | `StreamingHttpDeliveryClient`, its sender threads and the endpoint | the client's attributes, which every thread reads and writes; `thread[c]` is the thread of the c-th `open()`; `WriteFails` lets the endpoint answer, with any status, before the body has ended |
| `FloodControl` | `FloodControlFilter`, called by every thread that logs | the strategy's and the emitter's dictionaries; `Log` reads the clock, `RateLimit` / `Deduplicate` / `RecordSuppression` are the two locked sections, `EmitSummary` follows under no lock |

`PipelineRunProofs`, `S3ArchiveProofs`, `LocalArchiveProofs`, `SftpDeliveryProofs`,
`HttpDeliveryProofs`, `StreamingHttpProofs` and `FloodControlProofs` each extend the module they
are named after, and `DataProofs` the two modules that follow data, `ItemProcessing` and
`FeedPath`, with an inductive invariant, the lemmas about its operators and the theorems of
section 4. (`FeedPath` names its specification `FeedSpec`, `InitFeed`, `NextFeed`, so that one
module can speak of both.) `MC...` modules give model values to constants. A configuration names the component's
module when it needs none.

How they compose. Two modules follow data, and they meet at `Writers`. `FeedPath` extends
`Assembly`, `Connectors` and `Writers`: files become a worker, an input becomes chunks, the
schema copying fields. `ItemProcessing` extends `SchemaCompilation`, `ValidationModules`,
`ItemDecision` and `Writers`: there the schema is arbitrary and the item is given. It is
checked to implement `ItemValidation` (`ValidationContract`, an `INSTANCE ... WITH` in which
the rules still to run and the issues so far are the refinement mapping): what holds of
`run_one` over modules that may answer anything holds over the real ones.

`PipelineRun` knows an item by what becomes of it: whether it is a mapping, its issues,
where processing throws, how many mapping issues it has, whether the writer accepts it. The
two modules above say how items come to these fates. Their states do not fit into one
instance with the failures of archivers and clients; their interfaces are the same.

`PipelineRun` meets archivers and clients through their contract: any call may raise, and a
`finalize` that raises may have taken effect. `Archive` states that contract in TLA+, and
`S3Archive`, `LocalArchive` and `SftpDelivery` (with `atomic_write`, on servers that take
every chunk) are checked to implement it, each by `INSTANCE Archive WITH` a refinement
mapping. The HTTP clients have no such contract: a POST may take effect twice, and a
streamed body cannot be withdrawn. Their modules say what holds instead.

In `PipelineRun`, `ctx` is the `RunReport`; `diags` is the aggregated validation report, as
counts by severity; `usage` the collector; `chunks` the list `publish()` materializes;
`archive` and `delivery` what the destinations hold. A row is named by the number of its
item in the feed, the header by 0. `pulled` is a history of the items read.

In `FeedPath`, `elements` is what the adapter has yet to read, `held` the record under way
with the stage that has it, `flags` the writer's `saw_missing` and `saw_none`, and `chunks`
keeps with every chunk the record it came from, as a history for the properties. In
`ItemProcessing`, `todo`, `raw_items` and `result` are the locals of the validation
executor, `fields`, `current`, `step`, `cells` and `issues` those of the mapping executor.

Every client and archiver module has a `GiveUp`: another call of `publish()` raises, and
`publish()` leaves the object as it is until the next run's `open()`.

Definitions commented "Variant" are deliberately wrong forms of the definition that
follows them, kept to show that the properties can tell them apart.

## 3. Runs

| run | question and answer | bounds, and why they are enough |
|---|---|---|
| `MCItemProcessing.cfg` | Does a schema that compiles keep its promises to an item? Plans name only what exists, types of a chain hold at run time, no field is lost and no deletion ignored in silence, a required field is not left out unnoticed, the order of rules is the document's own, `run_one` implements `ItemValidation`. | every chain of up to two of the 27 operations over a value of every type: the least in which one operation's result meets another's check; documents with each entry missing, null and of a wrong type; up to three rules |
| `MCFeedPath.cfg` | Does every record reach the artifact once, in order, with its own values, whatever the format? Do streaming and eager adapters agree on what both accept? Can a row's missing and null be told apart? Does a worker keep its log over later builds? | inputs of up to three elements (one before, at and after a bad or blank one) of every kind, a list given to csv, a JSON number that is not an integer, every refusal of registry, mapping file, infra file, policy, settings and writer; three builds: one, one that meets what it left behind, one more after either outcome |
| `MCPipelineRun.cfg` | Can a run end in a state its report does not tell? Archive before delivery, no effect of an early failure, strictness, stops, losses, counters, and that `run()` returns. | feeds of up to three items of the eight fates the generator distinguishes (one before, at and after a drop, a stop or an exception); every policy combination; two runs, so that state of one can leak into the next |
| `MCStreamingHttp.cfg` | What holds of a client whose threads outlive their cycle? Each chunk goes to one place, no body is out of order; while joins do not time out, an outcome is that of the cycle's own request and the calls come back. A delivery reported as done has the whole body, unless the endpoint answered before its end. | two cycles, the least in which a thread can be late; three chunks, so that two threads can take turns |
| `MCS3Archive.cfg` | Does `S3Archiver` keep the archiver contract over refused calls and lost answers, and leave no upload behind? | two runs; three chunks of sizes 1 and 2 with parts of at least 2: parts below, at and above the limit, and a rest; one retry |
| `MCLocalArchive.cfg` | Does `LocalArchiver` keep the contract over failing system calls, crashes and power failures, and does what it reported survive them? Yes, but for a power failure that takes a rename back, and then the name is lost and no part of a file (`TakesBack`). | two runs, two chunks, two crashes, clock of two seconds so that names may collide or not |
| `MCSftpDelivery.cfg` | Does `SftpDeliveryClient` keep the contract with `atomic_write`, and what holds without it? | three runs (an abandoned file, the run that has to remove it, one more), two chunks, one retry; every kind of server |
| `MCHttpDelivery.cfg` | How often is a body delivered, and is what `finalize()` says true? | two runs, two chunks against a limit one of them can cross, two retries, a status of each class and messages of each kind of verdict |
| `MCFloodControl.cfg` | Do the tables stay bounded and equal, is the rate kept, does a summary lose or repeat a record, when threads overtake each other? | two threads, two keys and a cache of one or two, so that the second evicts; five records in four seconds with windows of two |
| `MCPipelineRun_gate.cfg` | finding: the ERROR gate looks at the report before any item was read | one run, two items |
| `MCPipelineRun_raises.cfg` | finding: an invalid schema makes `run()` raise | one run |
| `MCStreamingHttp_stolen.cfg` | finding: a thread of an earlier cycle takes a later cycle's stream, and its answer is taken for that cycle's | two cycles, two chunks |

`RateIsLimited` allows the quota plus one record for every other thread. The bound is the
code's: a thread reads the clock before it takes the lock, and an overtaken thread may find
a window started afresh. The slack was seen to be used in full, and with a third thread (in
a run too long to keep) to grow by one.

The inputs of `MCItemProcessing` and `MCFeedPath` are families: each varies one part of a
working schema or feed over everything the code tells apart, and keeps the others. Parts
that meet in the code are varied together (a chain with the value it gets, the writer's
markers with rows, the format with the shape and the type of the input).

Fairness. `PipelineRun` asks weak fairness of `Running`: a run is one synchronous call, so
its next statement is executed. `StreamingHttp` asks it of the sender threads, whose network
operations have timeouts, and of a join whose thread has ended; that a join gives up on a
live thread is possible but not relied on. Nothing is assumed of which outcome a call has.

Deadlock is not checked: in each model the bounded runs, records or seconds are used up and
the system stops. That no caller waits for ever is stated as `RunReturns` and `CallsReturn`
instead.

## 4. Proofs

Each proof module assumes only the types of the constants (the `ASSUME` of the module it
extends: bounds are naturals, sizes and quotas positive, sets of statuses and errors of
their kind; for `ItemProcessing`, that `Data` is closed under taking parts, as what a parser
returns is, and contains the items and what documents list, that `Alphabet` has every word
rules are sorted by, and `Hints` every severity hint; for `Assembly`, that inputs are
sequences of what the lines and the JSON elements of their format are, that cells are texts
and JSON fields values a document can hold, that an accepted mapping file holds entries with
targets split into segments, and that a list without a header, whose first line is read
twice, does not begin with a quote that stays open, since the second copy of that line would
close it, which the model's cells do not tell) and holds for every number of runs, chunks, threads, keys, retries, seconds and
crashes. What is said of inputs is said of the lines the csv reader gets (`Taken`): of a list,
the one line that is the text of it.
`LocalArchive` assumes of the file system that data once synced stays, and that a power
failure undoes a rename as a whole or not at all; it does not assume that a rename is on the
disk, as nothing in the code syncs the directory. Each has the same layout: an invariant `...Inv` in named parts, which TLC was given
first on the instance of the run; a lemma for each action or group of actions, with a step
for each part it can disturb; the theorem that the invariant holds; and the theorems for the
properties of the runs. The properties are seldom inductive themselves:

| module | theorems | what the invariant adds to the properties, and why |
|---|---|---|
| `PipelineRunProofs` | `TypeCorrect`, `SuccessDelivered`, `DeliveryArchived`, `EarlyFailure` | `RunInv`. The properties speak of the report. `StageInv` says for each statement of `run()` how far archive and delivery are behind the chunk list, `ContextInv` that only a failing step leaves a failure in the context |
| | `CountersPerRun`, `InvalidStaysOut`, `FailStopEnds`, `LossIsReported` | `FeedInv`, on top of `RunInv`. `CountersInv`: the collector has counted what this run read and nothing else. `RowsInv`: a chunk is an item already read. `ReadingInv`: while the feed is read on, nothing read so far stopped it. `LossInv`: while nothing failed, each lost item is matched by a diagnostic, which needs that recording never lowers the sum of the counts and recording something raises it |
| `S3ArchiveProofs` | `CompletesValidUploads`, `UploadsAreAborted`, `ImplementsArchive` | `S3Inv`. `PartsInv` and `UploadInv` relate the parts listed by the client, the parts the store has and the part under way, over answers that were lost; `LeftInv` keeps the key of an open upload with the archiver that has to abort it |
| `LocalArchiveProofs` | `ToldSurvives`, `ImplementsArchive` | `LocalInv`. `StageInv`: at each system call, where the run's chunks are and how many of them are on the disk. `FilesInv`: a file that was promoted, or that `finalize()` told of, is synced to its end, so a power failure cannot cut it. `EntryInv`: what was told is under the name it was told with, unless a power failure undid that. `NamesInv`, which follows: a final name leads to the file of the last run promoted under it |
| `SftpDeliveryProofs` | `NoOldTemps`, `OneRunAtTarget`, `ImplementsArchive` | `SftpInv`. `SessionInv`: the temporary path is known exactly as long as there is a session. `FileInv`: the file being written has chunks of this run, in order, and on an atomic server all of them |
| `HttpDeliveryProofs` | `EveryCopyIsWhole`, `DeliveredWasReceived`, `NothingAfterSettlement` | `HttpInv`. Body and buffer are all chunks the run was given; what each attempt left at the endpoint belongs to the verdict on it |
| `StreamingHttpProofs` | `ChunksOnce`, `OrderedBodies`, `SuccessIsDelivered`, `FailuresAreOwn` | `StreamingInv`, for any number of threads that outlived their cycle and read a queue they find in the client's attribute. `PlaceInv`: a chunk is in one place of one queue, of one body, or in one thread's hands. `OrderInv`: what was taken from a queue came before what is left in it, and a thread only moves to later queues. `CleanInv`: as long as joins ended their threads, body, chunk in hand and queue together are the cycle's chunks, so that an early answer leaves the endpoint with the first of them, and the fields for exception and response are the current thread's |
| `FloodControlProofs` | `TablesKeepToSize`, `DecisionsAreByWindow`, `RateStaysLimited`, `SummariesStayExact` | `FloodInv`. `TableInv`: a table that was not evicted holds the records that passed and that no later record has pushed out. `LimitInv`: until a record of a later window is decided the quota is kept; after it, each thread that had read the clock before may let one more pass, and is then no longer among them. This is where the slack of `RateIsLimited` comes from |
| `DataProofs` | `PlansAlwaysLink`, `NoFieldIsLostSilently`, `DeletionIsNeverSilent`, `RequiredIsNeverSilentlyOmitted`, `ChainTypesAreAlwaysSound`, `RuleOrderIsAlwaysCanonical`, `ValidationIsImplemented` | `IInv`, for every set of documents and items. `SchemaInv`: what is followed is the compiled schema, without diagnostics. `FieldsInv`: the fields mapped and the fields to come are those of the plan. `ChainInv`: where the chain of a field stands, and that the value in it is present, not omitted and of the type the last operation declares, unless there is an issue or a reason. `CellsInv`, `LinkInv`, `DeleteInv`: what that leaves in the cells and the issues. `ValidationInv`: what is left to do are rules of a plan, and nothing is judged before they have run |
| | `WorkerHasItsLog` | `LogInv`: a worker in hand, or one about to be handed out, has its marked handler alone on the root logger, whatever builds came before |
| | `MarkersStayApart` | `MarkInv`: once rows are written the flags say exactly which markers any of them needed, and a writer whose markers are one text has not needed both |
| | `RunInvariant`, `EachRecordIsThereOnce` | `RunInv`. `InputInv`: the run's input is one of its adapter's, and what is left to read is a suffix of its elements. `ReadInv`: every record the adapter has still to deliver is still in what it has to read, and nnone that it has delivered. `OrderInv`: chunks, record under way and elements to come carry ascending numbers. `CountInv`: a record is in a chunk, under way or to come, as often as the adapter has it, unless the run has failed |
| | `WayInvariant`, `StreamingAndEagerAgree`, `CellsKeepTheirSource` | `WayInv`, on top of `RunInv`. `OpenedInv`: the input was opened without failing, and named its columns. `HeldInv`: how far the record under way has come, and what mapper, producer and projection made of it. `ChunkInv`: each chunk is the projection of the item of a record found, and while nothing failed each record that makes an item has a chunk |

For `EveryRecordOnce` each adapter is shown to find what its input has (`Finds`): each record
as often as it is to be delivered, and in the order of the input. For the line-based formats
that is an induction over the lines that the csv reader joins into rows: the fold that joins
them exists (`RowsExist`), its rows are numbered (`RowsAreNumbered`), rows of inputs that
differ by a line put before them are alike (`PrefixedRows`, `AlikeRows`), which is what the
rewound list without a header needs. A list given to csv is excepted (`ReadsRepr`): the
adapter reads the text of the list, so the records found (`TakenRecords`) are those of that
text, which for every other input are the input's own (`TakenIs`).

`StreamingAndEagerAgree` compares the two adapters of each format (`EagerAgrees`): outside the
exceptions that the property names, the eager one opens what the streaming one has opened,
finds the same elements and gives each the same fate: skipped, refused, or the same record up
to the type of its numbers. That type is not the same: the streaming JSON adapter delivers a
number that is not an integer as a `Decimal`, the eager one as a `float`, whose texts differ
(`AsEager` turns one into the other). What becomes of a record is judged, on either side, by
the record as streamed. With `ChunkInv` that is a statement on the artifact of a run that
ended. Numbers are told apart where they stand as fields of the record or one level below.

`CellsKeepTheirSource` follows one value through the mapper, `_unflatten` and the producer.
What they compute are folds over the entries of the mapping file and over the segments of a
dotted path, and each is unrolled as an iteration that exists (`IterationExists`,
`IterationForward`, `IterationBackward`). `LeadsTo` says that a path of dictionaries leads to
a value. An assignment leads to what it assigns (`NestReaches`), and what a path that does not
clash with the target led to before, it leads to afterwards (`NestKeeps`, by the segment at
which the two part, `PathsPart`); the id that the producer puts in is one assignment more
(`BuiltIs`). The property was wrong before it was proved: it exempted targets above that of
the id but not those below it, where the producer puts a text in the place of the dictionary.
The run now has such a mapping file (`BelowFeeds`).

The `ItemProcessing` part of `DataProofs` has two halves besides. `CallIs` says of all 27 operations what they
return for any value and any arguments: a value of the declared type, nothing only if the
operation may empty, an omission only if it may omit. `ValidIsLinked` says of the compiler
what a document without diagnostics has been turned into, by an induction over the
transforms of each chain, the rules of the list and the segments of each path (`FoldExists`,
`FoldStays`: a fold of the library exists, and keeps what each of its steps keeps).
`OrderedRulesAre` says that the sorted rules are the rules, each at the place its key gives
it: as the keys are a strict total order, the number of keys before one's own is a bijection
onto the places (`PlacesAre`), and where all rules have ids it moves along when the rules are
listed in another order (`OrderIsCanonical`). The order needs ids that differ: rules without
one keep the places the schema lists them in, in the code as well.

`ValidationIsImplemented` is a refinement, `Spec => V!Spec`: the rules of the plan running
one by one over the real modules are steps of `ItemValidation`, and everything before and
after them is a stutter.

The three refinements `ImplementsArchive` show `Spec => A!Spec` under the mappings the runs
check: the initial states map to initial states, and each action to one step of `Archive` or
to none, which is said action by action. For `LocalArchive` this includes crashes and power
failures: a step is one of the contract's or `TakesBack`, a power failure after which some name
no longer leads to the run promoted under it but to an earlier one, whole, or to nothing. For
`S3Archive` it includes retries of calls that took effect although their answer was lost.
That an S3 object is what was written needs what `FlattenSeq` computes of the parts, a
recursive function over a list of any length, and that summaries add up needs a sum over any
number of threads. Neither is out of reach: the least number of a set without which the
induction fails (`SetInduction`, from the well-foundedness of the naturals) does for a set
what an induction theorem does for a predicate.

Every invariant and every action property of the passing runs is a theorem. Only
model-checked are `RunReturns` and `CallsReturn`: liveness under fairness, which the prover
does not do.

## 5. Where documents and code differ

With a run of their own: the three findings above. Without one, seen while modelling:

| code | document | difference |
|---|---|---|
| `pfp_core/artifact_production/artifact_producer.py:445` | `config/docs/03_policies.md:80-81` "Keep diagnostics as-is." | issue severities other than WARN are recorded as INFO |
| `artifact_producer.py:237` | `pfp_utils/diagnostics/feed_usage.py:20` | `dropped` is never incremented |
| `pfp_runtime/pipeline/report_step.py:44` | `feed_usage.py:19` | `processed` counts every item read |
| `artifact_producer.py:266` | `docs/contracts/validation_report.md:9` | a record with mapping errors is shipped, its diagnostics say DROP |
| `pfp_runtime/pipeline/publish_guard.py:63` | `ingestion_guard.py:3-5` | a feed that fails while it is read is reported as a publish failure |
| `publishing/archivers/s3_archiver.py:117` | `s3_archiver.py:4` | keys are made of seconds and may repeat |
| `s3_archiver.py:118` | `s3_archiver.py:111-112` | an upload whose abort failed is aborted again under the key of a later `open()`, if that one could not create its own upload |
| `publishing/archivers/local_archiver.py:171` | `local_archiver.py:142-143` "location set to the absolute path of the written file" | the directory is not synced: a power failure after `finalize()` returned may take the rename back, and with it the location (what is left of the file is whole) |
| `publishing/archivers/local_archiver.py:112` | `local_archiver.py:65-66` | a final file of the same second is overwritten |
| `publishing/clients/sftp_client.py:257` | `sftp_client.py:235-237` | a pipelined write that fails is reported by `close()`, whose exception is swallowed: a file with a gap is renamed into place |
| `sftp_client.py:330` | `sftp_client.py:287-289` | a failed connection may leave its transport open |
| `sftp_client.py:264` | `config/docs/04_publishing.md:246` | a plain rename is refused by servers when the target exists |
| `publishing/clients/streaming_http_client.py:107` | `:100-101` | a thread that outlives the join is not terminated |
| `streaming_http_client.py:191` | `:154` | a redirect is reported as a delivery |
| `streaming_http_client.py:190-199` | `:154` "On thread error, timeout, or non-2xx response" | only the status is looked at. The HTTP library reads the answer also when the endpoint closed its side before the end of the body, so an early answer below 400 is reported as the delivery of a body that was cut |
| `flood_control_filter_strategies.py:194` | `config/docs/07_flood_control.md:152` | overtaken threads may pass records above the quota |
| `pfp_core/engine/mapping/field_compiler.py:104` | `engine/compiler.py:49-51` "without schema exceptions" | `transforms: null` raises `TypeError` |
| `ext/mapping/module_mapping_map_tax_code.py:40` | as above | with arguments and no tax mapping, `compile` raises `ValueError`; without arguments every record fails |
| `engine/writer_compiler.py:84` | `schema/schema_contract.py:79` | the contract asks for `file_ext`, the compiler for `file_extension` |
| `artifact_producer.py:220` | `config/docs/05_schema.md:19` | rules judge the raw record, before it is mapped |
| `connectors/adapters/csv_adapter.py:86` | `connectors_registry.md:84` | the field limit of one adapter is that of the whole process |
| `connectors/adapters/csv_adapter.py:67,94-98` | `csv_adapter.py:41` `raw_input: str \| bytes` | no type is checked: of a list the length is limited, and its text is parsed. The run ends without an error and without any of the records |
| `json_adapter.py:171-173` | `connectors_registry.md:108` "the adapter expects the JSON root to be an array" | an object at the root is taken for one record |
| `rows_adapter.py:36` | `connectors_registry.md:131` "does not consume `constants` keys" | `max_records` is read, and bounds the rows |
| `config/infra_normalizer.py:93` | `:99` (its docstring) | the project-root fallback of the schema and policy files is never reached: the validator has refused the path (`infra_validator.py:138-161`) |
| `manifest/core_manifest_builder.py:43` | the `except` it is in | a schema that fails its format check, and an unknown writer, escape it: they are no `ValueError` |

Behaviour the models have because the code has it, and that no document mentions:

- Schemas: a null `artifact_profile` becomes the text "None"; a presence block of a wrong
  type is ignored; the tombstone's `id_field` is never checked against the fields;
  `source.required` is not used at run time; `omit_if_missing` and `emit_null_if_missing` act
  on values that are present too; an emission in the middle of a chain is made a text by a
  later operation on "any"; a JSON object keeps no trace of the delete flag.
- A JSON object schema with the CSV writer compiles and raises at the first record. The CSV
  writer's default markers are both empty: a missing value in one row and a null in a later
  one raise in the middle of the artifact.
- CSV: a blank header row gives no names, so every record is empty; a byte order mark is not
  stripped by the streaming adapter; a list without a header delivers its first line twice;
  the size limit counts characters when the input is a text.
- JSON: a number that is not an integer is a `Decimal` from `streaming_json_adapter.py:148`
  and a `float` from `json_adapter.py:103`, and artifacts show it: 19.90 and 19.9, 1E+2 and
  100.0.
- JSON: with a wrong `items_path` the streaming adapter delivers nothing, where the eager one
  raises; bytes that are not UTF-8 raise `UnicodeDecodeError` past the adapter's own error;
  `splitlines` breaks a JSON line at a separator inside its text; `max_record_bytes` is read
  and never used.
- Connectors: of two entries with one source the last wins (the documents say so); nesting a
  dotted target may write into dictionaries of the caller's record. A target below
  `product.item_id` is lost: the producer puts the text of that dictionary in its place
  (`producers/product_producer.py:79-83`), and a target above it has its id replaced inside.
- A build that fails after the log pipeline was installed and marked closes the process to
  further builds (`observability_manifest_builder.py:60`).
- `engine/mapping/__init__.py` and `engine/validation/__init__.py` hold copies of functions
  that nobody calls.

## 6. Not modelled

- Redaction, sanitization and secrets: functions of the characters of a text. No model here
  tells characters apart, and a model that did would repeat the regular expressions.
- Telemetry emission, formatters, the context filter and stage profiling: what a log line or
  a metric shows. The handlers a configuration can select do not raise. Of the log pipeline
  only installation and mark are modelled.
- Schema loader and manifest: the built-in catalog and its digests, an API that
  `build_worker` does not call. The schema file of a worker is registered by the producer,
  and `ItemProcessing` starts with its parsed document.
- `http_transport.py`, `chunk_buffer.py` and `atomic_write_bytes` are called by their tests
  only.
- The no-op archiver and client: destinations that never fail, a case of `PipelineRun`.
- The eligibility policy is parsed (`Configuration`) and never applied by the code.
- What a destination's settings model and constructor accept is an outcome of `Assembly`;
  headers, host keys and key parsing are left out of the clients.
- The wording of messages, timings, and the bytes that the csv and json modules make of a
  record.
- The body of an abandoned streamed request: the sentinel ends it like a complete one, so the
  endpoint cannot tell them apart, and may take a truncated feed for a whole one.

## 7. Plan

Modelled: everything of the first plan except the log context, which needs no steps of its
own. Proved: every safety property of every passing run (section 4). Left to TLC is liveness,
and outside the models what section 6 lists.
