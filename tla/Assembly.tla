------------------------------ MODULE Assembly ------------------------------
(***************************************************************************)
(* PFPFactory.build_worker: an infra file, and the files it names, become  *)
(* a worker in four stages, after the log pipeline of the process has been *)
(* replaced. Any stage may refuse, and what an earlier one has done stays: *)
(* a process may try again with other files, and the handler that a build  *)
(* left on the root logger is all that one build knows of another.         *)
(***************************************************************************)
EXTENDS Configuration, Connectors, Writers

CONSTANTS
    Feeds,     \* families of feeds: [registry, infra: [suffix, content], disk: path -> file,
               \* prometheus (is it installed), writer (id), config, input, plan]
    Repairs,   \* feeds that a process may be given after another one
    MaxBuilds  \* bound on the builds of one process

FormatOf(given) == given.infra.content.m["input"].m["format"]

\* A path to the mapping file is not looked for in the project.
MappingOf(given) ==
    LET path == Get(given.infra.content.m["input"].m["config"], "connector_mapping", None)
        file == given.disk[Strip(path).s]
    IN  IF path = None THEN [path |-> None, suffix |-> "none", content |-> Raised]
        ELSE [path |-> path, suffix |-> file.suffix,
              content |-> IF file.base = "file" THEN file.content ELSE Raised]

\* Where the infra file is accepted: an input that the adapter of the registry can be
\* given, and a mapping file that holds what its checks leave.
IsFeed(given) ==
    LET format == FormatOf(given)
    IN  ~InfraRefuses(given.infra.content) =>
            /\ ~AdapterFails(given.registry, format) =>
                  IsInput(AdapterOf(given.registry, format), ConstantsOf(given.registry, format), given.input)
            /\ ~ConnectorFails(given.registry, format, MappingOf(given)) => IsMappingFile(MappingOf(given))

ASSUME FeedAssumption ==
    /\ \A family \in Feeds : \A given \in family : IsFeed(given)
    /\ \A given \in Repairs : IsFeed(given)

VARIABLES
    feed,      \* the files of the build, and the input of the run that follows it
    stage,     \* load | observe | connector | core | publish | start, or refused; then the run's
    builds,    \* builds begun
    root,      \* handlers of the root logger, as [of: build, marked]; build 0 is the process
    worker     \* the build whose worker the process has, or 0

process == <<builds, root, worker>>

Doc     == feed.infra.content
Format  == FormatOf(feed)
Mapping == MappingOf(feed)
Named(section, key) == FileAt(Doc, section, key, feed.disk)

InitBuild ==
    /\ \E family \in Feeds : feed \in family
    /\ stage = "load"
    /\ builds = 1 /\ worker = 0
    /\ root = {[of |-> 0, marked |-> FALSE]}

-----------------------------------------------------------------------------
\* InfraProvider.get_infra: load, validate, normalize.
LoadFails ==
    \/ feed.infra.suffix \notin Yaml
    \/ InfraRefuses(Doc)
    \/ ValidatorRefuses(Doc, feed.registry, feed.disk)

LoadInfra ==
    /\ stage = "load"
    /\ stage' = IF LoadFails THEN "refused" ELSE "observe"
    /\ UNCHANGED <<feed, process>>

\* build_observability_manifest: a process has one log pipeline.
HasLogPipeline == \E handler \in root : handler.marked

\* Variant: the handlers of the process are cleared before the look at them.
ClearsFirst ==
    /\ stage = "observe"
    /\ HasLogPipeline
    /\ stage' = "refused"
    /\ root' = {[of |-> builds, marked |-> FALSE]}
    /\ UNCHANGED <<feed, builds, worker>>

RefuseSecondLog ==
    /\ stage = "observe"
    /\ HasLogPipeline
    /\ stage' = "refused"
    /\ UNCHANGED <<feed, process>>

\* build_log_pipeline and install(): the only handler left is that of this build.
Installed(marked) == {[of |-> builds, marked |-> marked]}

\* Telemetry is built after the installation, and the handler marked after that.
TelemetryFails == OneOf(Provider(Doc), {"prometheus"}) /\ ~feed.prometheus

InstallLogging ==
    /\ stage = "observe"
    /\ ~HasLogPipeline
    /\ root' = Installed(~TelemetryFails)
    /\ stage' = IF TelemetryFails THEN "refused" ELSE "connector"
    /\ UNCHANGED <<feed, builds, worker>>

-----------------------------------------------------------------------------
\* build_connector_manifest
BuildConnector ==
    /\ stage = "connector"
    /\ stage' = IF ConnectorFails(feed.registry, Format, Mapping) THEN "refused" ELSE "core"
    /\ UNCHANGED <<feed, process>>

\* build_core_manifest: the tax mapping, the schema, the policies and the writer. The
\* schema's content is Raised when it is refused or its compilation raises, see
\* ItemProcessing.
PolicyFails == PolicyRefuses(Content(Named("producer", "policy_file")))

CoreFails ==
    \/ /\ Get(Doc.m["producer"], "tax_mapping_file", None) # None
       /\ TaxRefuses(Content(Named("producer", "tax_mapping_file")))
    \/ Content(Named("producer", "schema_file")) = Raised
    \/ PolicyFails
    \/ WriterFails(feed.writer, feed.config)

BuildCore ==
    /\ stage = "core"
    /\ stage' = IF CoreFails THEN "refused" ELSE "publish"
    /\ UNCHANGED <<feed, process>>

\* build_publisher: the type is registered and the settings file says what its class
\* takes. A content is Raised also when the class's own model or constructor refuses it.
Archivers == {"local", "s3", "s3_compat", "noop"}
Clients   == {"http", "http_streaming", "sftp", "noop"}

ArchiverFails ==
    \/ ~OneOf(Doc.m["output"].m["archive_type"], Archivers)
    \/ ~IsMapping(Content(Named("output", "archive_config")))

ClientFails ==
    \/ ~OneOf(Doc.m["output"].m["client_type"], Clients)
    \/ ~IsMapping(Content(Named("output", "client_config")))

PublisherFails == ArchiverFails \/ ClientFails

PublisherRaises ==
    /\ stage = "publish"
    /\ PublisherFails
    /\ stage' = "refused"
    /\ UNCHANGED <<feed, process>>

\* The parts are complete: the worker is handed out.
HandOver ==
    /\ stage = "publish"
    /\ ~PublisherFails
    /\ stage' = "start"
    /\ worker' = builds
    /\ UNCHANGED <<feed, builds, root>>

Build ==
    \/ LoadInfra \/ RefuseSecondLog \/ InstallLogging \/ BuildConnector \/ BuildCore
    \/ PublisherRaises \/ HandOver

-----------------------------------------------------------------------------
\* The process builds again, with a worker in hand or none. A process that wants
\* another pipeline first gives up its worker and takes the marked handler off the
\* root logger, as the tests do between two builds.
Settled == stage \in {"refused", "failed", "ended"}

BuildAgain ==
    /\ Settled /\ builds < MaxBuilds
    /\ feed' \in Repairs
    /\ stage' = "load"
    /\ builds' = builds + 1
    /\ UNCHANGED <<root, worker>>

\* The environment: another process builds, with no handler of this program on its
\* root logger.
StartOver ==
    /\ Settled /\ builds < MaxBuilds
    /\ feed' \in Repairs
    /\ stage' = "load"
    /\ builds' = builds + 1
    /\ root' = {handler \in root : ~handler.marked}
    /\ worker' = 0

-----------------------------------------------------------------------------
\* A worker keeps its log: whatever the process builds after it, and wherever that
\* build fails, the one handler of the root logger is the worker's own, and marked.
WorkerKeepsItsLog ==
    worker # 0 => root = {[of |-> worker, marked |-> TRUE]}
=============================================================================
