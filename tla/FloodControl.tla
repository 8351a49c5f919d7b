---------------------------- MODULE FloodControl ----------------------------
(***************************************************************************)
(* FloodControlFilter: the filter of the log pipeline that suppresses      *)
(* repeated records, used by every thread that logs.                       *)
(*                                                                         *)
(* filter() reads the clock, takes the decision under the strategy's lock, *)
(* counts a suppressed record under the emitter's lock, and logs a summary *)
(* under none. Records that no strategy looks at (force_log, another       *)
(* level, no active context, mode "off") change nothing and are left out.  *)
(***************************************************************************)
EXTENDS Integers, Sequences, FiniteSets

CONSTANTS
    Threads,
    Keys,             \* record keys, as _build_record_key makes them
    WindowSeconds,    \* window_seconds
    SummaryInterval,  \* summary_interval_seconds
    Quotas,           \* values max_events_per_window may have
    CacheSizes,       \* values max_cache_size may have
    MaxTime,          \* bound: seconds on the monotonic clock
    MaxRecords        \* bound: records logged

ASSUME FloodAssumption ==
    /\ IsFiniteSet(Threads)
    /\ WindowSeconds \in Nat \ {0}
    /\ SummaryInterval \in Nat \ {0}
    /\ Quotas \subseteq Nat \ {0}
    /\ CacheSizes \subseteq Nat \ {0}
    /\ MaxTime \in Nat
    /\ MaxRecords \in Nat

VARIABLES
    config,      \* FloodControlFilterConfig
    now,         \* time.monotonic()
    thread,      \* each thread: where it is in filter(), with which record
    lastSeen,    \* _last_seen_at: time by key (and _seen_at, which is equal to it)
    windows,     \* _event_windows: times by key
    summary,     \* _SummaryEmitter: counter, last emission and last use by key
    decided,     \* history: the decisions, in the order they were taken
    forgotten,   \* history: keys the strategy evicted
    lost,        \* history: suppressed records whose counter was evicted, by key
    summarised   \* history: suppressed records reported by summaries, by key

cache   == <<lastSeen, windows>>
history == <<decided, forgotten, lost, summarised>>
vars    == <<config, now, thread, cache, summary, history>>

Time == 0..MaxTime
Mode == {"context_info_suppression", "rate_limit", "deduplicate"}
Idle == [at |-> "idle"]

Init ==
    /\ config \in [mode : Mode, emitSummary : BOOLEAN, quota : Quotas, cacheSize : CacheSizes]
    /\ now = 0
    /\ thread = [t \in Threads |-> Idle]
    /\ lastSeen = [k \in {} |-> 0]
    /\ windows = [k \in {} |-> <<>>]
    /\ summary = [k \in {} |-> [count |-> 0, emitted |-> 0, seen |-> 0]]
    /\ decided = <<>>
    /\ forgotten = {}
    /\ lost = [k \in Keys |-> 0]
    /\ summarised = [k \in Keys |-> 0]

Tick ==
    /\ now < MaxTime
    /\ now' = now + 1
    /\ UNCHANGED <<config, thread, cache, summary, history>>
-----------------------------------------------------------------------------
(* Dictionaries *)

\* dict[k] = v
Put(dict, k, v) == [j \in DOMAIN dict \cup {k} |-> IF j = k THEN v ELSE dict[j]]

\* dict.pop(k, None) for the keys of a set
Without(dict, gone) == [k \in DOMAIN dict \ gone |-> dict[k]]

\* The keys a table over max_cache_size may lose: the least recently used ones.
\* (Among equal times the code takes the key entered first.)
Oldest(seen) ==
    {gone \in SUBSET DOMAIN seen :
        /\ Cardinality(gone) = IF Cardinality(DOMAIN seen) <= config.cacheSize THEN 0
                               ELSE Cardinality(DOMAIN seen) - config.cacheSize
        /\ \A k \in gone, j \in DOMAIN seen \ gone : seen[k] <= seen[j]}
-----------------------------------------------------------------------------
(* FloodControlFilter.filter, up to the reading of the clock *)

\* In the stateful modes the clock is read before the lock is taken.
Log(t, k) ==
    /\ thread[t].at = "idle"
    /\ Len(decided) + Cardinality({s \in Threads : thread[s].at = "decide"}) < MaxRecords
    /\ config.mode # "context_info_suppression"
    /\ thread' = [thread EXCEPT ![t] = [at |-> "decide", key |-> k, time |-> now]]
    /\ UNCHANGED <<config, now, cache, summary, history>>

\* What becomes of a record after the decision: a suppressed one is counted if
\* summaries are wanted.
Decision(t, k, time, passes) ==
    /\ decided' = Append(decided, [key |-> k, time |-> time, passes |-> passes])
    /\ thread' = [thread EXCEPT ![t] =
                    IF passes \/ ~config.emitSummary THEN Idle
                    ELSE [at |-> "count", key |-> k, time |-> time]]

\* An active context suppresses the record at once.
SuppressInContext(t, k) ==
    /\ thread[t].at = "idle"
    /\ Len(decided) < MaxRecords
    /\ config.mode = "context_info_suppression"
    /\ Decision(t, k, now, FALSE)
    /\ UNCHANGED <<config, now, cache, summary, forgotten, lost, summarised>>
-----------------------------------------------------------------------------
(* _should_suppress, under the lock *)

\* Variant: a time is dropped one second too early.
UnexpiredEarly(window, time) == SelectSeq(window, LAMBDA s : time - s < WindowSeconds - 1)

\* The window without the times at its head that are outside of it.
Unexpired(window, time) ==
    IF \A i \in DOMAIN window : time - window[i] >= WindowSeconds THEN <<>>
    ELSE LET head == CHOOSE i \in DOMAIN window :
                        /\ time - window[i] < WindowSeconds
                        /\ \A j \in 1..(i - 1) : time - window[j] >= WindowSeconds
         IN SubSeq(window, head, Len(window))

\* Variant: only the table of last uses is evicted.
EvictHalf(seen, times) ==
    \E gone \in Oldest(seen) :
        /\ lastSeen' = Without(seen, gone)
        /\ windows' = times
        /\ forgotten' = forgotten \cup gone

\* _enforce_cache_limit_locked
Evict(seen, times) ==
    \E gone \in Oldest(seen) :
        /\ lastSeen' = Without(seen, gone)
        /\ windows' = Without(times, gone)
        /\ forgotten' = forgotten \cup gone

RateLimit(t) ==
    /\ thread[t].at = "decide"
    /\ config.mode = "rate_limit"
    /\ LET k      == thread[t].key
           time   == thread[t].time
           window == Unexpired(IF k \in DOMAIN windows THEN windows[k] ELSE <<>>, time)
           passes == Len(window) < config.quota
       IN  /\ Decision(t, k, time, passes)
           /\ Evict(Put(lastSeen, k, time),
                    Put(windows, k, IF passes THEN Append(window, time) ELSE window))
    /\ UNCHANGED <<config, now, summary, lost, summarised>>

\* Variant: a suppressed record does not count as seen.
DeduplicateFixed(t) ==
    /\ thread[t].at = "decide"
    /\ config.mode = "deduplicate"
    /\ LET k      == thread[t].key
           time   == thread[t].time
           passes == k \notin DOMAIN lastSeen \/ time - lastSeen[k] >= WindowSeconds
       IN  /\ Decision(t, k, time, passes)
           /\ Evict(IF passes THEN Put(lastSeen, k, time) ELSE lastSeen, windows)
    /\ UNCHANGED <<config, now, summary, lost, summarised>>

\* Every record of the key starts the window again, suppressed ones too.
Deduplicate(t) ==
    /\ thread[t].at = "decide"
    /\ config.mode = "deduplicate"
    /\ LET k    == thread[t].key
           time == thread[t].time
       IN  /\ Decision(t, k, time, k \notin DOMAIN lastSeen \/ time - lastSeen[k] >= WindowSeconds)
           /\ Evict(Put(lastSeen, k, time), windows)
    /\ UNCHANGED <<config, now, summary, lost, summarised>>
-----------------------------------------------------------------------------
(* _SummaryEmitter *)

\* Variant: the counter is not set back when a summary is due.
CountedOn(k, time) ==
    LET old   == IF k \in DOMAIN summary THEN summary[k]
                 ELSE [count |-> 0, emitted |-> time, seen |-> time]
        isDue == time - old.emitted >= SummaryInterval
    IN  [due   |-> IF isDue THEN old.count + 1 ELSE 0,
         entry |-> [count   |-> old.count + 1,
                    emitted |-> IF isDue THEN time ELSE old.emitted,
                    seen    |-> time]]

\* A suppressed record at a time: the new entry of its key, and the number to report
\* now, 0 if the interval has not passed. The first record of a key starts it.
Counted(k, time) ==
    LET old   == IF k \in DOMAIN summary THEN summary[k]
                 ELSE [count |-> 0, emitted |-> time, seen |-> time]
        isDue == time - old.emitted >= SummaryInterval
    IN  [due   |-> IF isDue THEN old.count + 1 ELSE 0,
         entry |-> [count   |-> IF isDue THEN 0 ELSE old.count + 1,
                    emitted |-> IF isDue THEN time ELSE old.emitted,
                    seen    |-> time]]

\* record_suppression, under the emitter's lock.
RecordSuppression(t) ==
    /\ thread[t].at = "count"
    /\ LET k       == thread[t].key
           counted == Counted(k, thread[t].time)
           entries == Put(summary, k, counted.entry)
       IN  /\ \E gone \in Oldest([j \in DOMAIN entries |-> entries[j].seen]) :
                 /\ summary' = Without(entries, gone)
                 /\ lost' = [j \in Keys |-> lost[j] + IF j \in gone THEN entries[j].count ELSE 0]
           /\ thread' = [thread EXCEPT ![t] =
                IF counted.due = 0 THEN Idle
                ELSE [at |-> "emit", key |-> k, count |-> counted.due]]
    /\ UNCHANGED <<config, now, cache, decided, forgotten, summarised>>

\* _emit_summary: the summary record carries force_log, so this filter lets it by.
EmitSummary(t) ==
    /\ thread[t].at = "emit"
    /\ summarised' = [summarised EXCEPT ![thread[t].key] = @ + thread[t].count]
    /\ thread' = [thread EXCEPT ![t] = Idle]
    /\ UNCHANGED <<config, now, cache, summary, decided, forgotten, lost>>
-----------------------------------------------------------------------------
Next ==
    \/ Tick
    \/ \E t \in Threads :
          \/ \E k \in Keys : Log(t, k) \/ SuppressInContext(t, k)
          \/ RateLimit(t) \/ Deduplicate(t)
          \/ RecordSuppression(t) \/ EmitSummary(t)

Spec == Init /\ [][Next]_vars
-----------------------------------------------------------------------------
(* Properties *)

\* No table outgrows max_cache_size, whatever the order of the threads' clock
\* readings, and the two tables of a strategy hold the same keys: an entry left in
\* one only would never be evicted.
TablesAreBounded ==
    /\ Cardinality(DOMAIN lastSeen) <= config.cacheSize
    /\ Cardinality(DOMAIN summary) <= config.cacheSize
    /\ config.mode = "rate_limit" => DOMAIN windows = DOMAIN lastSeen

\* The records of the i-th decision's key decided before it.
Earlier(i) == {j \in 1..(i - 1) : decided[j].key = decided[i].key}

Within(i, j) == decided[i].time - decided[j].time < WindowSeconds

InOrder(i) ==
    \A j, l \in Earlier(i) \cup {i} : j < l => decided[j].time <= decided[l].time

\* As long as the records of a key are decided in the order of their times, and its
\* entry is not evicted, a record is suppressed exactly if the quota of its key has
\* passed in the window before it, or, in deduplicate mode, if one was seen in it.
DecidesByWindow ==
    \A i \in DOMAIN decided :
        InOrder(i) /\ decided[i].key \notin forgotten =>
            /\ config.mode = "rate_limit" =>
                  (decided[i].passes <=>
                      Cardinality({j \in Earlier(i) : Within(i, j) /\ decided[j].passes}) < config.quota)
            /\ config.mode = "deduplicate" =>
                  (decided[i].passes <=> ~\E j \in Earlier(i) : Within(i, j))

\* In any order: in no window more records of a key pass than the quota allows, and
\* one more for each thread that was overtaken after it read the clock.
RateIsLimited ==
    config.mode = "rate_limit" =>
        \A start \in Time, k \in Keys \ forgotten :
            Cardinality({i \in DOMAIN decided :
                            /\ decided[i].key = k /\ decided[i].passes
                            /\ decided[i].time \in start..(start + WindowSeconds - 1)})
                <= config.quota + Cardinality(Threads) - 1

Suppressed(k) == {i \in DOMAIN decided : decided[i].key = k /\ ~decided[i].passes}

\* Threads that are about to count a record of the key, and those about to report.
Counting(k)  == {t \in Threads : thread[t].at = "count" /\ thread[t].key = k}
Reporting(k) == {t \in Threads : thread[t].at = "emit" /\ thread[t].key = k}

\* What the threads of a set, which are about to report, will report.
InHand[S \in SUBSET Threads] ==
    IF S = {} THEN 0
    ELSE LET t == CHOOSE t \in S : TRUE IN thread[t].count + InHand[S \ {t}]

\* No suppressed record is counted twice, and none is missed but those whose counter
\* was evicted: what summaries reported, are about to report, or will report, is
\* what was suppressed.
SummariesAddUp ==
    config.emitSummary => \A k \in Keys :
        LET pending == IF k \in DOMAIN summary THEN summary[k].count ELSE 0
        IN  Cardinality(Suppressed(k)) =
                summarised[k] + InHand[Reporting(k)] + pending + lost[k] + Cardinality(Counting(k))
=============================================================================
