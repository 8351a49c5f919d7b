------------------------------ MODULE FeedPath ------------------------------
(***************************************************************************)
(* The way of a record from the input of a run to the artifact's bytes: an *)
(* adapter reads it, the connector renames its fields and nests them to an *)
(* item, the item becomes a row or an object, and the writer makes a chunk *)
(* of it. All of it is one chain of generators, pulled chunk by chunk; an  *)
(* exception anywhere ends the chain. The item's schema copies fields, for *)
(* what it may do to them see ItemProcessing. Assembly builds the worker   *)
(* that runs the chain.                                                    *)
(***************************************************************************)
EXTENDS Assembly

VARIABLES
    names,     \* columns of a tabular input
    elements,  \* what the adapter has yet to read
    index,     \* elements it has read
    held,      \* the record under way, or Nothing
    flags,     \* saw_missing and saw_none of the writer
    log,       \* warnings about an element
    chunks     \* what the archive and the client got

run  == <<names, elements, index, held, flags, log, chunks>>
feedVars == <<feed, stage, process, run>>

Nothing == [at |-> "none"]

Adapter   == AdapterOf(feed.registry, Format)
Constants == ConstantsOf(feed.registry, Format)

InitFeed ==
    /\ InitBuild
    /\ names = <<>> /\ elements = <<>> /\ index = 0
    /\ held = Nothing
    /\ flags = {}
    /\ log = <<>> /\ chunks = <<>>

\* build_worker, see Assembly; a worker that is built takes one run.
BuildStep == Build /\ UNCHANGED run

NextBuild ==
    /\ BuildAgain \/ StartOver
    /\ names' = <<>> /\ elements' = <<>> /\ index' = 0
    /\ held' = Nothing
    /\ flags' = {}
    /\ log' = <<>> /\ chunks' = <<>>

-----------------------------------------------------------------------------
\* The first chunk is asked for: the header comes before the input is opened.
StartArtifact ==
    /\ stage = "start"
    /\ IF feed.writer = "csv" /\ DialectFails(feed.config)
       THEN stage' = "failed" /\ UNCHANGED chunks
       ELSE /\ stage' = "open"
            /\ chunks' = IF HasHeaderRow(feed.writer, feed.config)
                         THEN <<[n |-> 0, text |-> Columns(feed.config).e]>> ELSE <<>>
    /\ UNCHANGED <<feed, process, names, elements, index, held, flags, log>>

\* parse() of the adapter, up to its first record.
OpenInput ==
    /\ stage = "open"
    /\ ~OpenFails(Adapter, Constants, feed.input)
    /\ stage' = "reading"
    /\ names' = IF Adapter \in Tabular THEN FieldNames(Adapter, Constants, feed.input) ELSE <<>>
    /\ elements' = Elements(Adapter, Constants, feed.input)
    /\ UNCHANGED <<feed, process, index, held, flags, log, chunks>>

OpenRaises ==
    /\ stage = "open"
    /\ OpenFails(Adapter, Constants, feed.input)
    /\ stage' = "failed"
    /\ UNCHANGED <<feed, process, names, elements, index, held, flags, log, chunks>>

-----------------------------------------------------------------------------
\* One element of the input.

Logged(n, why) == IF why = "none" THEN log ELSE Append(log, [n |-> n, why |-> why])

Read ==
    /\ stage = "reading" /\ held = Nothing /\ elements # <<>>
    /\ LET e       == Head(elements)
           outcome == Outcome(Adapter, Constants, names, e, index)
       IN  /\ log' = Logged(e.n, outcome.log)
           /\ held' = IF outcome.yields
                      THEN [at |-> "map", n |-> e.n, rec |-> outcome.rec, value |-> outcome.rec]
                      ELSE Nothing
           /\ stage' = IF outcome.raises THEN "failed" ELSE stage
    /\ elements' = Tail(elements)
    /\ index' = index + 1
    /\ UNCHANGED <<feed, process, names, flags, chunks>>

\* ConnectorMapper.apply_stream: a record without a required source is skipped,
\* or ends the feed.
MapRecord ==
    /\ held.at = "map"
    /\ ~RequiredIsMissing(Mapping, held.rec)
    /\ held' = [held EXCEPT !.at = "produce", !.value = Mapped(Mapping, held.rec)]
    /\ UNCHANGED <<feed, process, stage, names, elements, index, flags, log, chunks>>

MappingSkips ==
    /\ held.at = "map"
    /\ RequiredIsMissing(Mapping, held.rec)
    /\ ContinuesOnError(Mapping)
    /\ log' = Logged(held.n, "required source missing")
    /\ held' = Nothing
    /\ UNCHANGED <<feed, process, stage, names, elements, index, flags, chunks>>

MappingRaises ==
    /\ held.at = "map"
    /\ RequiredIsMissing(Mapping, held.rec)
    /\ ~ContinuesOnError(Mapping)
    /\ held' = Nothing
    /\ stage' = "failed"
    /\ UNCHANGED <<feed, process, names, elements, index, flags, log, chunks>>

\* ProductProducer.produce_stream
ProduceItem ==
    /\ held.at = "produce"
    /\ Built(Unflatten(held.value)) # None
    /\ held' = [held EXCEPT !.at = "project", !.value = Built(Unflatten(held.value))]
    /\ UNCHANGED <<feed, process, stage, names, elements, index, flags, log, chunks>>

ProducerSkips ==
    /\ held.at = "produce"
    /\ Built(Unflatten(held.value)) = None
    /\ log' = Logged(held.n, "item id missing")
    /\ held' = Nothing
    /\ UNCHANGED <<feed, process, stage, names, elements, index, flags, chunks>>

\* The item as the record of its writer.
Cell(item, id) ==
    WriterValue(ApplyPresence(ExtractBySourcePath(item, feed.plan.fields[id].path),
                              feed.plan.fields[id].presence))

Projected(item) ==
    IF feed.plan.kind = "csv_row"
    THEN List([i \in DOMAIN feed.plan.order |-> Cell(item, feed.plan.order[i])])
    ELSE Dict([id \in {id \in DOMAIN feed.plan.fields : Cell(item, id) # Missing} |-> Cell(item, id)])

ProjectItem ==
    /\ held.at = "project"
    /\ held' = [held EXCEPT !.at = "write", !.value = Projected(held.value)]
    /\ UNCHANGED <<feed, process, stage, names, elements, index, flags, log, chunks>>

WriteRecord ==
    /\ held.at = "write"
    /\ ~WriteFails(feed.writer, feed.config, flags, held.value)
    /\ flags' = FlagsAfter(feed.writer, flags, held.value)
    /\ chunks' = Append(chunks, [n |-> held.n, rec |-> held.rec, record |-> held.value,
                                 text |-> ChunkOf(feed.writer, feed.config, held.value)])
    /\ held' = Nothing
    /\ UNCHANGED <<feed, process, stage, names, elements, index, log>>

WriterRaises ==
    /\ held.at = "write"
    /\ WriteFails(feed.writer, feed.config, flags, held.value)
    /\ held' = Nothing
    /\ stage' = "failed"
    /\ UNCHANGED <<feed, process, names, elements, index, flags, log, chunks>>

EndOfFeed ==
    /\ stage = "reading" /\ held = Nothing /\ elements = <<>>
    /\ stage' = "ended"
    /\ UNCHANGED <<feed, process, names, elements, index, held, flags, log, chunks>>

NextFeed ==
    \/ BuildStep \/ NextBuild
    \/ StartArtifact \/ OpenInput \/ OpenRaises
    \/ Read \/ MapRecord \/ MappingSkips \/ MappingRaises \/ ProduceItem \/ ProducerSkips
    \/ ProjectItem \/ WriteRecord \/ WriterRaises \/ EndOfFeed

FeedSpec == InitFeed /\ [][NextFeed]_feedVars

-----------------------------------------------------------------------------
\* The chunks that hold a record: not the header.
Body == {i \in DOMAIN chunks : chunks[i].n # 0}

\* The elements of the input that hold a record: not a header, a blank or the
\* continuation of a quoted cell. (A prefix that leads nowhere finds none.)
Records ==
    LET rows == ReaderRows(Numbered(feed.input.elements))
        data == IF HasHeader(Constants) /\ rows # <<>> THEN Tail(rows) ELSE rows
    IN  IF Adapter \in Tabular THEN {data[i].n : i \in {i \in DOMAIN data : data[i].cells # <<>>}}
        ELSE IF Adapter \in Lines
        THEN {n \in DOMAIN feed.input.elements : ~feed.input.elements[n].blank}
        ELSE IF feed.input.shape = "under_items" /\ Adapter = "json"
                /\ ~Truthy(Get(Constants, "items_path", None))
        THEN {1} ELSE DOMAIN feed.input.elements

\* csv reads the repr of a list, in which no line of the list is a line: see Taken.
ReadsRepr == Adapter = "csv" /\ IsList(feed.input)

\* The one exception to a record's being read once: see InputRows.
Rereads == Adapter = "streaming_csv" /\ ~HasHeader(Constants) /\ feed.input.rewinds

LeadsNowhere ==
    Adapter = "streaming_json" /\
    <<feed.input.shape, Get(Constants, "items_path", S("item"))>> \notin
        {<<"under_items", S("items.item")>>, <<"array", S("item")>>, <<"object", S("empty")>>}

\* Every record of the input is in the artifact once or named once by a warning, in
\* the order of the input, behind the header; a failed run has not lost or repeated
\* one that it read before. The first line of a list read without a header counts twice.
\* A list that is given to csv is excepted: its records are lost without an error.
EveryRecordOnce ==
    (stage \in {"reading", "failed", "ended"} /\ ~ReadsRepr) =>
        LET Times(n)  == IF n = 1 /\ Rereads THEN 2 ELSE 1
            Chunks(n) == {i \in DOMAIN chunks : chunks[i].n = n}
            Warned(n) == {i \in DOMAIN log : log[i].n = n /\ log[i].why # "mismatch"}
            Fates(n)  == Cardinality(Chunks(n)) + Cardinality(Warned(n))
        IN  /\ \A i, j \in DOMAIN chunks : i < j => chunks[i].n <= chunks[j].n
            /\ \A i \in Body : chunks[i].n \in Records
            /\ \A n \in Records : Fates(n) <= Times(n)
            /\ (stage = "ended" /\ ~LeadsNowhere) => \A n \in Records : Fates(n) = Times(n)

\* Whoever reads the artifact can tell a missing value from a null: the two never
\* share a marker within an artifact, not even in different rows.
MarkersAreDistinguishable ==
    LET Cells(i, v) == {k \in DOMAIN chunks[i].record.e : chunks[i].record.e[k] = v}
        Texts(v)    == UNION {{chunks[i].text[k] : k \in Cells(i, v)} : i \in Body}
    IN  feed.writer = "csv" => Texts(Missing) \cap Texts(None) = {}

\* The item that becomes of a record, and whether one does.
ItemOf(rec) == Built(Unflatten(Mapped(Mapping, rec)))
IsItem(rec) == ~RequiredIsMissing(Mapping, rec) /\ ItemOf(rec) # None

\* A record of a streaming adapter as its eager counterpart gives it: streaming_json
\* keeps Decimals, where json has floats.
AsEager(rec) == IF Adapter = "streaming_json" THEN Loaded(rec) ELSE rec

\* What a streaming adapter finds in a feed is what its eager counterpart finds in
\* the same feed, taken as a text: a run that ends has the records the eager one
\* would have, under the same numbers, and each once, in the order of the numbers, but
\* for the type and spelling of the numbers with a fraction or an exponent; and the
\* eager one would not have refused the payload (size and depth aside, which only
\* it limits). Known exceptions: a byte order mark, a list read without a header, line
\* separators in a string, a path that leads nowhere, and a quoted first line without
\* a header.
StreamingAgreesWithEager ==
    LET Eager     == [streaming_csv |-> "csv", streaming_json |-> "json", streaming_jsonl |-> "jsonl"]
        path      == IF feed.input.shape = "under_items" THEN [items_path |-> S("items")] ELSE NoEntries
        constants == IF Adapter = "streaming_json" THEN Dict(path) ELSE Constants
        text      == [feed.input EXCEPT !.type = "str"]
        found     == Elements(Eager[Adapter], constants, text)
        columns   == IF Adapter \in Tabular THEN FieldNames("csv", constants, text) ELSE <<>>
        Fate(p)   == Outcome(Eager[Adapter], constants, columns, found[p], p - 1)
        Here(p)   == Outcome(Adapter, Constants, names, found[p], p - 1)
        items     == {p \in DOMAIN found : Fate(p).yields /\ IsItem(Here(p).rec)}
        Excepted  == \/ feed.input.bom \/ Rereads \/ LeadsNowhere \/ feed.input.big
                     \/ \E e \in ToSet(feed.input.elements) :
                           IF Adapter \in Tabular THEN e.open /\ ~HasHeader(Constants)
                           ELSE e.split \/ (e.deep /\ Adapter = "streaming_json")
    IN  (stage = "ended" /\ Adapter \in Streaming /\ ~Excepted) =>
            /\ ~OpenFails(Eager[Adapter], constants, text)
            /\ \A p \in DOMAIN found : ~Fate(p).raises
            /\ \A p, q \in DOMAIN found : p < q => found[p].n < found[q].n
            /\ \A i, j \in Body : i < j => chunks[i].n < chunks[j].n
            /\ {[n |-> chunks[i].n, rec |-> AsEager(chunks[i].rec)] : i \in Body}
                   = {[n |-> found[p].n, rec |-> Fate(p).rec] : p \in items}

\* One target leads to the other, or through it.
Clashes(p, q) == IsPrefix(p, q) \/ IsPrefix(q, p)

IdPath == <<"product", "item_id">>

\* No other entry of the mapping file has the source, or a target that clashes with this
\* one's, which does not clash with the id's either unless it is that.
Alone(i) ==
    LET entries == Entries(Mapping)
        target  == TargetOf(entries[i])
    IN  /\ \A j \in DOMAIN entries \ {i} : /\ SourceOf(entries[j]) # SourceOf(entries[i])
                                           /\ ~Clashes(TargetOf(entries[j]), target)
        /\ target = IdPath \/ ~Clashes(target, IdPath)

\* A field keeps the value of its source: renaming, nesting and projection of the
\* other fields leave it alone, unless the mapping file itself lists a source twice,
\* targets that are prefixes of one another, or one above or below the item's id, whose
\* text the producer puts in its place. And no written item lacks its id.
CellsComeFromTheirSource ==
    LET entries == Entries(Mapping)
        order   == feed.plan.order
        Expected(v, target) ==
            IF target = IdPath THEN TextOrNone(v) ELSE IF v = None THEN None ELSE ToText(v)
    IN  (feed.writer = "csv" /\ stage \in {"reading", "failed", "ended"}) =>
            \A c \in Body : \A k \in DOMAIN order :
                LET path == feed.plan.fields[order[k]].path
                    cell == chunks[c].record.e[k]
                IN  /\ \A i \in DOMAIN entries :
                          (/\ Alone(i) /\ TargetOf(entries[i]) = path
                           /\ SourceOf(entries[i]) \in DOMAIN chunks[c].rec.m)
                          => cell = Expected(chunks[c].rec.m[SourceOf(entries[i])], path)
                    /\ path = IdPath => cell \notin {Missing, None, S("empty")}
=============================================================================
