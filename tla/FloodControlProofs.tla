-------------------------- MODULE FloodControlProofs --------------------------
(***************************************************************************)
(* Proofs about FloodControl, for every set of threads and keys, every     *)
(* window, quota and table size: the tables keep to their size, a decision *)
(* is what the window says, overtaking threads let through one record each *)
(* at most, and the summaries' counts add up.                              *)
(***************************************************************************)
EXTENDS FloodControl, TLAPS, FiniteSetTheorems, SequenceTheorems

-----------------------------------------------------------------------------
(* The inductive invariant *)

ThreadType ==
    {Idle} \cup [at : {"decide", "count"}, key : Keys, time : Nat]
           \cup [at : {"emit"}, key : Keys, count : Nat]
DecidedType == [key : Keys, time : Nat, passes : BOOLEAN]
EntryType   == [count : Nat, emitted : Nat, seen : Nat]

\* Times that were read are in the past, and only threads decide.
TypesInv ==
    /\ config.mode \in Mode /\ config.emitSummary \in BOOLEAN
    /\ config.quota \in Nat \ {0} /\ config.cacheSize \in Nat \ {0}
    /\ now \in Nat
    /\ thread \in [Threads -> ThreadType]
    /\ \A t \in Threads : thread[t].at = "decide" => thread[t].time <= now
    /\ decided \in Seq(DecidedType)
    /\ \A i \in DOMAIN decided : decided[i].time <= now
    /\ DOMAIN decided # {} => Threads # {}
    /\ DOMAIN lastSeen \subseteq Keys /\ \A k \in DOMAIN lastSeen : lastSeen[k] \in Nat
    /\ DOMAIN windows \subseteq Keys /\ \A k \in DOMAIN windows : windows[k] \in Seq(Nat)
    /\ DOMAIN summary \subseteq Keys /\ \A k \in DOMAIN summary : summary[k] \in EntryType
    /\ lost \in [Keys -> Nat] /\ summarised \in [Keys -> Nat]

BoundInv ==
    /\ IsFiniteSet(DOMAIN lastSeen) /\ IsFiniteSet(DOMAIN summary)
    /\ TablesAreBounded

\* deduplicate: the table has the time of the key's last decision.
LastInv(k) ==
    /\ k \in DOMAIN lastSeen <=> \E j \in DOMAIN decided : decided[j].key = k
    /\ k \in DOMAIN lastSeen =>
          \E j \in DOMAIN decided :
              /\ decided[j].key = k /\ lastSeen[k] = decided[j].time
              /\ \A l \in DOMAIN decided : decided[l].key = k => l <= j

\* The times of a window are those of records that passed, in the order they were
\* decided; e tells which.
IsWindowOf(e, k, w) ==
    /\ \A m \in DOMAIN w :
          /\ e[m] \in DOMAIN decided
          /\ decided[e[m]].key = k /\ decided[e[m]].passes /\ decided[e[m]].time = w[m]
    /\ \A m, n \in DOMAIN w : m < n => e[m] < e[n]

\* Record p of the key of record j came later, and a window later.
PushedOut(j, p) ==
    /\ p > j /\ decided[p].key = decided[j].key
    /\ decided[p].time - decided[j].time >= WindowSeconds

\* rate_limit: the table has the records of a key that passed and that no later record
\* of the key has pushed out.
WindowInv(k) ==
    /\ k \in DOMAIN lastSeen <=> \E j \in DOMAIN decided : decided[j].key = k
    /\ k \in DOMAIN windows =>
          \E e \in [DOMAIN windows[k] -> DOMAIN decided] :
              /\ IsWindowOf(e, k, windows[k])
              /\ \A j \in DOMAIN decided : decided[j].key = k /\ decided[j].passes =>
                    \/ \E m \in DOMAIN windows[k] : e[m] = j
                    \/ \E p \in DOMAIN decided : PushedOut(j, p)

TableInv ==
    \A k \in Keys \ forgotten :
        /\ config.mode = "deduplicate" => LastInv(k)
        /\ config.mode = "rate_limit" => WindowInv(k)

\* The records of a key that passed in the window from a time on, those of a later
\* window, and the threads that may still decide one of the window.
Inside(k, start) ==
    {i \in DOMAIN decided : /\ decided[i].key = k /\ decided[i].passes
                            /\ decided[i].time \in start..(start + WindowSeconds - 1)}
Beyond(k, start) == {i \in DOMAIN decided : decided[i].key = k
                                            /\ decided[i].time >= start + WindowSeconds}
Overtaken(k, start) == {t \in Threads : thread[t].at = "decide" /\ thread[t].key = k
                                        /\ thread[t].time < start + WindowSeconds}

\* Until a record of a later window is decided the quota is kept, after it every
\* thread that had read the clock before may let one more record pass.
LimitInv ==
    config.mode = "rate_limit" =>
        \A start \in Time, k \in Keys \ forgotten :
            IF Beyond(k, start) = {}
            THEN Cardinality(Inside(k, start)) <= config.quota
            ELSE Cardinality(Inside(k, start)) + Cardinality(Overtaken(k, start))
                    <= config.quota + Cardinality(Threads) - 1

FloodInv ==
    /\ TypesInv
    /\ BoundInv
    /\ TableInv
    /\ DecidesByWindow
    /\ LimitInv
    /\ SummariesAddUp

-----------------------------------------------------------------------------
(* Induction over a set of naturals, from its least number. *)

LEMMA SetInduction ==
    ASSUME NEW S, 0 \in S, \A n \in Nat : n \in S => n + 1 \in S
    PROVE  \A n \in Nat : n \in S
<1> DEFINE R == OpToRel(<, Nat)
           T == Nat \ S
<1>1. ASSUME NEW x \in Nat, NEW y \in Nat, y < x PROVE <<y, x>> \in R
  BY <1>1 DEF OpToRel
<1>2. IsWellFoundedOn(R, Nat)
  BY NatLessThanWellFounded, Zenon DEF OpToRel
<1> HIDE DEF R
<1> SUFFICES ASSUME T # {} PROVE FALSE
  OBVIOUS
<1>3. PICK x \in T : \A y \in T : ~ (<<y, x>> \in R)
  <2>1. T \subseteq Nat /\ T # {}
    OBVIOUS
  <2> HIDE DEF T
  <2> QED BY <1>2, <2>1, WFMin
<1>4. x \in Nat /\ x # 0
  OBVIOUS
<1>5. x - 1 \in Nat /\ x - 1 < x /\ (x - 1) + 1 = x
  BY <1>4
<1>6. x - 1 \in S
  BY <1>1, <1>3, <1>4, <1>5
<1> QED BY <1>4, <1>5, <1>6

-----------------------------------------------------------------------------
(* What a state of a thread, a table and a decision are *)

LEMMA ThreadIs ==
    ASSUME NEW th \in ThreadType
    PROVE  /\ th.at \in {"idle", "decide", "count", "emit"}
           /\ th.at \in {"decide", "count"} => th.key \in Keys /\ th.time \in Nat
           /\ th.at = "emit" => th.key \in Keys /\ th.count \in Nat
BY DEF ThreadType, Idle

\* What an eviction leaves is no more than max_cache_size.
LEMMA EvictionIs ==
    ASSUME config.cacheSize \in Nat, NEW seen, IsFiniteSet(DOMAIN seen), NEW gone \in Oldest(seen)
    PROVE  /\ gone \subseteq DOMAIN seen /\ IsFiniteSet(DOMAIN seen \ gone)
           /\ Cardinality(DOMAIN seen \ gone) <= config.cacheSize
<1> DEFINE D == DOMAIN seen
<1>1. gone \subseteq D
      /\ Cardinality(gone) = IF Cardinality(D) <= config.cacheSize THEN 0
                             ELSE Cardinality(D) - config.cacheSize
  BY DEF Oldest
<1> HIDE DEF D
<1>2. Cardinality(D) \in Nat /\ IsFiniteSet(D \ gone) /\ D \cap gone = gone
      /\ Cardinality(D \ gone) = Cardinality(D) - Cardinality(D \cap gone)
  BY <1>1, FS_CardinalityType, FS_Difference DEF D
<1>3. Cardinality(D \ gone) <= config.cacheSize
  BY <1>1, <1>2
<1> QED BY <1>1, <1>2, <1>3 DEF D

\* A decision is one more record of the history, and its thread goes on or is done.
LEMMA DecisionIs ==
    ASSUME TypesInv, NEW t \in Threads, NEW k \in Keys, NEW time \in Nat, time <= now,
           NEW passes \in BOOLEAN, Decision(t, k, time, passes)
    PROVE  /\ decided' \in Seq(DecidedType)
           /\ Len(decided) \in Nat /\ Len(decided') = Len(decided) + 1
           /\ DOMAIN decided = 1..Len(decided) /\ DOMAIN decided' = 1..(Len(decided) + 1)
           /\ \A i \in 1..Len(decided) : decided'[i] = decided[i]
           /\ decided'[Len(decided) + 1] = [key |-> k, time |-> time, passes |-> passes]
           /\ thread' \in [Threads -> ThreadType]
           /\ \A s \in Threads : s # t => thread'[s] = thread[s]
           /\ IF passes \/ ~config.emitSummary THEN thread'[t].at = "idle"
              ELSE thread'[t].at = "count" /\ thread'[t].key = k
<1> DEFINE d == [key |-> k, time |-> time, passes |-> passes]
           e == IF passes \/ ~config.emitSummary THEN Idle ELSE [at |-> "count", key |-> k, time |-> time]
<1>1. d \in DecidedType /\ decided \in Seq(DecidedType) /\ decided' = Append(decided, d)
  BY DEF DecidedType, TypesInv, Decision
<1> HIDE DEF d
<1>2. /\ decided' \in Seq(DecidedType) /\ Len(decided) \in Nat /\ Len(decided') = Len(decided) + 1
      /\ \A i \in 1..Len(decided) : decided'[i] = decided[i]
      /\ decided'[Len(decided) + 1] = d
      /\ DOMAIN decided = 1..Len(decided)
  BY <1>1, AppendProperties
<1>3. DOMAIN decided' = 1..(Len(decided) + 1)
  BY <1>2
<1>4. e \in ThreadType
  BY DEF ThreadType
<1>5. /\ passes \/ ~config.emitSummary => e.at = "idle"
      /\ ~(passes \/ ~config.emitSummary) => e.at = "count" /\ e.key = k
  BY DEF Idle
<1>6. thread' = [thread EXCEPT ![t] = e]
  BY Zenon DEF Decision
<1> HIDE DEF e
<1>7. thread' \in [Threads -> ThreadType] /\ thread'[t] = e
      /\ \A s \in Threads : s # t => thread'[s] = thread[s]
  BY <1>4, <1>6 DEF TypesInv
<1> QED BY <1>2, <1>3, <1>5, <1>7 DEF d

\* The window of a key before a decision.
Stored(k) == IF k \in DOMAIN windows THEN windows[k] ELSE <<>>

\* The steps that decide: what the record is, and that nothing of the summaries changes.
Decides(t, k, time, passes) ==
    /\ Decision(t, k, time, passes)
    /\ time <= now
    /\ UNCHANGED <<config, now, summary, lost, summarised>>
    /\ \/ /\ config.mode = "context_info_suppression" /\ ~passes /\ thread[t].at = "idle"
          /\ UNCHANGED <<lastSeen, windows, forgotten>>
       \/ /\ thread[t].at = "decide" /\ thread[t].key = k /\ thread[t].time = time
          /\ \/ /\ RateLimit(t)
                /\ passes <=> Len(Unexpired(Stored(k), time)) < config.quota
             \/ /\ Deduplicate(t)
                /\ passes <=> k \notin DOMAIN lastSeen \/ time - lastSeen[k] >= WindowSeconds

LEMMA DecidingSteps ==
    ASSUME FloodInv, NEW t \in Threads,
           (\E k \in Keys : SuppressInContext(t, k)) \/ RateLimit(t) \/ Deduplicate(t)
    PROVE  \E k \in Keys, time \in Nat, passes \in BOOLEAN : Decides(t, k, time, passes)
<1> USE DEF FloodInv
<1>1. now \in Nat /\ thread[t] \in ThreadType
  BY DEF TypesInv
<1>2. ASSUME NEW k \in Keys, SuppressInContext(t, k) PROVE Decides(t, k, now, FALSE)
  <2>1. now <= now
    BY <1>1
  <2>2. /\ thread[t].at = "idle" /\ config.mode = "context_info_suppression"
        /\ Decision(t, k, now, FALSE)
        /\ UNCHANGED <<config, now, lastSeen, windows, summary, forgotten, lost, summarised>>
    BY <1>2, Zenon DEF SuppressInContext, cache
  <2> QED BY <2>1, <2>2, Zenon DEF Decides
<1>3. ASSUME thread[t].at = "decide"
      PROVE  thread[t].key \in Keys /\ thread[t].time \in Nat /\ thread[t].time <= now
  BY <1>1, <1>3, ThreadIs DEF TypesInv
<1>4. CASE RateLimit(t)
  <2> DEFINE k == thread[t].key
             time == thread[t].time
             window == Unexpired(Stored(k), time)
             passes == Len(window) < config.quota
  <2>1. passes \in BOOLEAN
    OBVIOUS
  <2>2. Decides(t, k, time, passes)
    BY <1>3, <1>4 DEF Decides, RateLimit, Stored
  <2> QED BY <1>3, <1>4, <2>1, <2>2 DEF RateLimit
<1>5. CASE Deduplicate(t)
  <2> DEFINE k == thread[t].key
             time == thread[t].time
             passes == k \notin DOMAIN lastSeen \/ time - lastSeen[k] >= WindowSeconds
  <2>1. passes \in BOOLEAN
    OBVIOUS
  <2>2. Decides(t, k, time, passes)
    BY <1>3, <1>5 DEF Decides, Deduplicate
  <2> QED BY <1>3, <1>5, <2>1, <2>2 DEF Deduplicate
<1> QED BY <1>1, <1>2, <1>4, <1>5

\* The table of last uses after a decision of record k at a time, and the windows of the
\* other keys; gone is what was evicted.
LastAfter(k, time, gone) ==
    /\ gone \subseteq DOMAIN lastSeen \cup {k}
    /\ DOMAIN lastSeen' = (DOMAIN lastSeen \cup {k}) \ gone
    /\ \A j \in DOMAIN lastSeen' : lastSeen'[j] = IF j = k THEN time ELSE lastSeen[j]
    /\ forgotten' = forgotten \cup gone
    /\ IsFiniteSet(DOMAIN lastSeen') /\ Cardinality(DOMAIN lastSeen') <= config.cacheSize

LEMMA LastIs ==
    ASSUME TypesInv, BoundInv, NEW k, NEW time, NEW gone \in Oldest(Put(lastSeen, k, time)),
           lastSeen' = Without(Put(lastSeen, k, time), gone), forgotten' = forgotten \cup gone
    PROVE  LastAfter(k, time, gone)
<1> DEFINE seen == Put(lastSeen, k, time)
<1>1. /\ DOMAIN seen = DOMAIN lastSeen \cup {k} /\ seen[k] = time
      /\ \A j \in DOMAIN lastSeen : j # k => seen[j] = lastSeen[j]
  BY DEF Put
<1>2. IsFiniteSet(DOMAIN seen)
  BY <1>1, FS_AddElement DEF BoundInv
<1> HIDE DEF seen
<1>3. lastSeen' = Without(seen, gone) /\ gone \in Oldest(seen)
  BY DEF seen
<1>4. config.cacheSize \in Nat
  BY DEF TypesInv
<1>5. /\ gone \subseteq DOMAIN seen /\ IsFiniteSet(DOMAIN seen \ gone)
      /\ Cardinality(DOMAIN seen \ gone) <= config.cacheSize
  BY <1>2, <1>3, <1>4, EvictionIs
<1>6. /\ DOMAIN lastSeen' = DOMAIN seen \ gone
      /\ \A j \in DOMAIN seen \ gone : lastSeen'[j] = seen[j]
  BY <1>3 DEF Without
<1> QED BY <1>1, <1>5, <1>6 DEF LastAfter

\* The windows after it, w being what is left of the key's window.
WindowsAfter(k, time, passes, w, gone) ==
    /\ DOMAIN windows' = (DOMAIN windows \cup {k}) \ gone
    /\ \A j \in DOMAIN windows' :
          windows'[j] = IF j # k THEN windows[j] ELSE IF passes THEN Append(w, time) ELSE w

\* rate_limit: the record is decided by what is left of the window, and goes to it if it
\* passes.
LEMMA RateLimitIs ==
    ASSUME FloodInv, NEW t \in Threads, NEW k, NEW time, NEW passes \in BOOLEAN,
           Decides(t, k, time, passes), RateLimit(t)
    PROVE  LET w == Unexpired(Stored(k), time) IN
           /\ config.mode = "rate_limit"
           /\ passes <=> Len(w) < config.quota
           /\ \E gone : LastAfter(k, time, gone) /\ WindowsAfter(k, time, passes, w, gone)
<1> USE DEF FloodInv
<1>0. PICK w : w = Unexpired(Stored(k), time)
  OBVIOUS
<1> DEFINE left == IF passes THEN Append(w, time) ELSE w
           times == Put(windows, k, left)
<1>1. config.mode = "rate_limit"
  BY DEF RateLimit
<1>2. /\ thread[t].key = k /\ thread[t].time = time
      /\ passes <=> Len(w) < config.quota
  BY <1>0, <1>1 DEF Decides, RateLimit, Deduplicate
<1>3. Evict(Put(lastSeen, k, time), times)
  <2>1. Evict(Put(lastSeen, k, time),
              Put(windows, k, IF Len(w) < config.quota THEN Append(w, time) ELSE w))
    BY <1>0, <1>2, Zenon DEF RateLimit, Stored
  <2>2. (IF Len(w) < config.quota THEN Append(w, time) ELSE w) = left
    BY <1>2, Zenon
  <2> QED BY <2>1, <2>2
<1> HIDE DEF left
<1>4. PICK gone \in Oldest(Put(lastSeen, k, time)) :
         /\ lastSeen' = Without(Put(lastSeen, k, time), gone)
         /\ windows' = Without(times, gone)
         /\ forgotten' = forgotten \cup gone
  BY <1>3 DEF Evict
<1>5. LastAfter(k, time, gone)
  BY <1>4, LastIs
<1>6. /\ DOMAIN times = DOMAIN windows \cup {k} /\ times[k] = left
      /\ \A j \in DOMAIN windows : j # k => times[j] = windows[j]
  BY DEF Put
<1> HIDE DEF times
<1>7. /\ DOMAIN windows' = (DOMAIN windows \cup {k}) \ gone
      /\ \A j \in DOMAIN windows' : windows'[j] = IF j # k THEN windows[j] ELSE left
  BY <1>4, <1>6 DEF Without
<1>8. \A j \in DOMAIN windows' :
           windows'[j] = IF j # k THEN windows[j]
                         ELSE IF passes THEN Append(w, time) ELSE w
  BY <1>7, Zenon DEF left
<1>9. WindowsAfter(k, time, passes, w, gone)
  BY <1>7, <1>8, Zenon DEF WindowsAfter
<1> QED BY <1>0, <1>1, <1>2, <1>5, <1>9, Zenon

LEMMA DeduplicateIs ==
    ASSUME FloodInv, NEW t \in Threads, NEW k, NEW time, NEW passes \in BOOLEAN,
           Decides(t, k, time, passes), Deduplicate(t)
    PROVE  /\ config.mode = "deduplicate"
           /\ passes <=> k \notin DOMAIN lastSeen \/ time - lastSeen[k] >= WindowSeconds
           /\ \E gone :
                 /\ LastAfter(k, time, gone)
                 /\ DOMAIN windows' = DOMAIN windows \ gone
                 /\ \A j \in DOMAIN windows' : windows'[j] = windows[j]
<1> USE DEF FloodInv
<1>1. config.mode = "deduplicate"
  BY DEF Deduplicate
<1>2. /\ thread[t].key = k /\ thread[t].time = time
      /\ passes <=> k \notin DOMAIN lastSeen \/ time - lastSeen[k] >= WindowSeconds
  BY <1>1 DEF Decides, RateLimit, Deduplicate
<1>3. Evict(Put(lastSeen, k, time), windows)
  BY <1>2 DEF Deduplicate
<1>4. PICK gone \in Oldest(Put(lastSeen, k, time)) :
         /\ lastSeen' = Without(Put(lastSeen, k, time), gone)
         /\ windows' = Without(windows, gone)
         /\ forgotten' = forgotten \cup gone
  BY <1>3 DEF Evict
<1>5. LastAfter(k, time, gone)
  BY <1>4, LastIs
<1>6. /\ DOMAIN windows' = DOMAIN windows \ gone
      /\ \A j \in DOMAIN windows' : windows'[j] = windows[j]
  BY <1>4 DEF Without
<1> QED BY <1>1, <1>2, <1>5, <1>6

\* What is left of a window: all of it from the first time that is not yet outside.
LEMMA UnexpiredIs ==
    ASSUME NEW w \in Seq(Nat), NEW time \in Nat
    PROVE  LET v == Unexpired(w, time) IN
           /\ v \in Seq(Nat)
           /\ \E d \in 0..Len(w) :
                 /\ Len(v) = Len(w) - d
                 /\ \A m \in 1..Len(v) : v[m] = w[m + d]
                 /\ \A m \in 1..d : time - w[m] >= WindowSeconds
                 /\ d < Len(w) => time - w[d + 1] < WindowSeconds
<1> DEFINE P(i) == i \in DOMAIN w /\ time - w[i] < WindowSeconds
           first == CHOOSE i \in DOMAIN w :
                       /\ time - w[i] < WindowSeconds
                       /\ \A j \in 1..(i - 1) : time - w[j] >= WindowSeconds
           n == Len(w)
<1>1. n \in Nat /\ DOMAIN w = 1..n /\ WindowSeconds \in Nat /\ \A i \in 1..n : w[i] \in Nat
  BY FloodAssumption
<1>2. CASE \A i \in DOMAIN w : time - w[i] >= WindowSeconds
  <2>1. Unexpired(w, time) = <<>>
    BY <1>2, Zenon DEF Unexpired
  <2> HIDE DEF n
  <2>2. n \in 0..n /\ Len(<<>>) = n - n /\ ~(n < n) /\ \A m \in 1..Len(<<>>) : FALSE
    BY <1>1
  <2>3. <<>> \in Seq(Nat) /\ \A m \in 1..n : time - w[m] >= WindowSeconds
    BY <1>1, <1>2
  <2>4. \E d \in 0..n :
           /\ Len(<<>>) = n - d
           /\ \A m \in 1..Len(<<>>) : <<>>[m] = w[m + d]
           /\ \A m \in 1..d : time - w[m] >= WindowSeconds
           /\ d < n => time - w[d + 1] < WindowSeconds
    BY <2>2, <2>3
  <2> QED BY <2>1, <2>3, <2>4 DEF n
<1>3. CASE ~\A i \in DOMAIN w : time - w[i] >= WindowSeconds
  <2>1. \E i \in DOMAIN w :
           /\ time - w[i] < WindowSeconds
           /\ \A j \in 1..(i - 1) : time - w[j] >= WindowSeconds
    <3> DEFINE S == {m \in Nat : \A i \in 1..m : i \in 1..n => time - w[i] >= WindowSeconds}
    <3> SUFFICES ASSUME \A i \in DOMAIN w :
                           ~(/\ time - w[i] < WindowSeconds
                             /\ \A j \in 1..(i - 1) : time - w[j] >= WindowSeconds)
                 PROVE  FALSE
      OBVIOUS
    <3>1. 0 \in S
      OBVIOUS
    <3>2. ASSUME NEW m \in Nat, m \in S PROVE m + 1 \in S
      <4>1. ASSUME m + 1 \in 1..n PROVE time - w[m + 1] >= WindowSeconds
        <5>1. \A j \in 1..((m + 1) - 1) : time - w[j] >= WindowSeconds
          BY <1>1, <3>2, <4>1
        <5>2. ~(time - w[m + 1] < WindowSeconds)
          BY <1>1, <4>1, <5>1
        <5>3. w[m + 1] \in Nat
          BY <1>1, <4>1
        <5> DEFINE x == w[m + 1]
        <5> HIDE DEF x
        <5>4. ~(time - x < WindowSeconds) /\ x \in Nat
          BY <5>2, <5>3 DEF x
        <5>5. time - x >= WindowSeconds
          BY <1>1, <5>4
        <5> QED BY <5>5 DEF x
      <4>2. \A i \in 1..(m + 1) : i \in 1..m \/ i = m + 1
        OBVIOUS
      <4> QED BY <3>2, <4>1, <4>2
    <3> HIDE DEF S
    <3>3. \A m \in Nat : m \in S
      BY <3>1, <3>2, SetInduction
    <3>4. n \in S
      BY <1>1, <3>3
    <3> QED BY <1>1, <1>3, <3>4 DEF S
  <2>2. /\ first \in 1..n /\ time - w[first] < WindowSeconds
        /\ \A j \in 1..(first - 1) : time - w[j] >= WindowSeconds
    BY <1>1, <2>1
  <2>3. Unexpired(w, time) = SubSeq(w, first, n)
    BY <1>3, Zenon DEF Unexpired
  <2> HIDE DEF first, n
  <2>4. first \in Nat /\ first >= 1 /\ first <= n
    BY <1>1, <2>2
  <2> DEFINE v == SubSeq(w, first, n)
  <2>5. v \in Seq(Nat) /\ Len(v) = n - first + 1 /\ \A m \in 1..(n - first + 1) : v[m] = w[first + m - 1]
    <3>1. \A i \in first..n : w[i] \in Nat
      BY <1>1, <2>4
    <3> QED BY <1>1, <2>4, <3>1, SubSeqProperties
  <2> HIDE DEF v
  <2> DEFINE d == first - 1
  <2>6. /\ d \in 0..n /\ Len(v) = n - d /\ d + 1 = first
        /\ \A m \in 1..Len(v) : m \in 1..(n - first + 1) /\ m + d = first + m - 1
    BY <1>1, <2>4, <2>5
  <2>7. \A m \in 1..Len(v) : v[m] = w[m + d]
    BY <2>5, <2>6
  <2> HIDE DEF d
  <2>8. (\A m \in 1..d : time - w[m] >= WindowSeconds) /\ time - w[d + 1] < WindowSeconds
    BY <2>2, <2>6 DEF d
  <2> QED BY <2>3, <2>5, <2>6, <2>7, <2>8 DEF v, n
<1> QED BY <1>2, <1>3

\* A counter, 0 if the key has none.
Pending(k) == IF k \in DOMAIN summary THEN summary[k].count ELSE 0

\* What recording a suppressed record changes: the counter goes up by one, then to the
\* thread if it is due, or to what eviction loses.
LEMMA RecordIs ==
    ASSUME FloodInv, NEW t \in Threads, RecordSuppression(t), NEW k, k = thread[t].key
    PROVE  /\ thread[t].at = "count" /\ k \in Keys
           /\ DOMAIN summary' \subseteq Keys /\ \A j \in DOMAIN summary' : summary'[j] \in EntryType
           /\ IsFiniteSet(DOMAIN summary') /\ Cardinality(DOMAIN summary') <= config.cacheSize
           /\ lost' \in [Keys -> Nat]
           /\ thread' \in [Threads -> ThreadType] /\ \A s \in Threads : s # t => thread'[s] = thread[s]
           /\ \E due \in Nat :
                 /\ IF due = 0 THEN thread'[t].at = "idle"
                    ELSE thread'[t].at = "emit" /\ thread'[t].key = k /\ thread'[t].count = due
                 /\ Pending(k)' + lost'[k] + due = Pending(k) + lost[k] + 1
                 /\ \A j \in Keys : j # k => Pending(j)' + lost'[j] = Pending(j) + lost[j]
<1> USE DEF FloodInv
<1> DEFINE time == thread[t].time
           counted == Counted(k, time)
           entries == Put(summary, k, counted.entry)
           uses == [j \in DOMAIN entries |-> entries[j].seen]
           due == counted.due
<1>1. thread[t].at = "count" /\ k \in Keys /\ time \in Nat
  BY ThreadIs DEF TypesInv, RecordSuppression
<1>2. /\ counted.entry \in EntryType /\ due \in Nat
      /\ due + counted.entry.count = Pending(k) + 1
  <2> DEFINE old == IF k \in DOMAIN summary THEN summary[k]
                    ELSE [count |-> 0, emitted |-> time, seen |-> time]
             isDue == time - old.emitted >= SummaryInterval
  <2>1. old \in EntryType /\ old.count = Pending(k) /\ old.count \in Nat
    BY <1>1 DEF EntryType, TypesInv, Pending
  <2>2. counted = [due   |-> IF isDue THEN old.count + 1 ELSE 0,
                   entry |-> [count   |-> IF isDue THEN 0 ELSE old.count + 1,
                              emitted |-> IF isDue THEN time ELSE old.emitted,
                              seen    |-> time]]
    BY DEF Counted
  <2>3. old.emitted \in Nat
    BY <2>1 DEF EntryType
  <2> HIDE DEF old, isDue, counted
  <2>4. CASE isDue
    BY <1>1, <2>1, <2>2, <2>3, <2>4 DEF EntryType
  <2>5. CASE ~isDue
    BY <1>1, <2>1, <2>2, <2>3, <2>5 DEF EntryType
  <2> QED BY <2>4, <2>5
<1>3. PICK gone \in Oldest(uses) :
         /\ summary' = Without(entries, gone)
         /\ lost' = [j \in Keys |-> lost[j] + IF j \in gone THEN entries[j].count ELSE 0]
  BY DEF RecordSuppression
<1>4. thread' = [thread EXCEPT ![t] = IF due = 0 THEN Idle
                                      ELSE [at |-> "emit", key |-> k, count |-> due]]
  BY DEF RecordSuppression
<1> HIDE DEF due, counted
<1>5. /\ DOMAIN entries = DOMAIN summary \cup {k} /\ entries[k] = counted.entry
      /\ \A j \in DOMAIN summary : j # k => entries[j] = summary[j]
  BY DEF Put
<1>6. /\ DOMAIN entries \subseteq Keys /\ \A j \in DOMAIN entries : entries[j] \in EntryType
      /\ IsFiniteSet(DOMAIN entries)
  <2>1. IsFiniteSet(DOMAIN summary \cup {k})
    BY FS_AddElement DEF BoundInv
  <2> QED BY <1>1, <1>2, <1>5, <2>1 DEF TypesInv
<1> HIDE DEF entries
<1>7. /\ gone \subseteq DOMAIN entries /\ IsFiniteSet(DOMAIN entries \ gone)
      /\ Cardinality(DOMAIN entries \ gone) <= config.cacheSize
  <2>1. DOMAIN uses = DOMAIN entries
    OBVIOUS
  <2>2. config.cacheSize \in Nat
    BY DEF TypesInv
  <2> HIDE DEF uses
  <2> QED BY <1>3, <1>6, <2>1, <2>2, EvictionIs
<1>8. /\ DOMAIN summary' = DOMAIN entries \ gone
      /\ \A j \in DOMAIN summary' : summary'[j] = entries[j]
  BY <1>3 DEF Without
<1>9. /\ \A j \in Keys : lost[j] \in Nat /\ Pending(j) \in Nat
      /\ \A j \in DOMAIN entries : entries[j].count \in Nat
  BY <1>6 DEF TypesInv, Pending, EntryType
<1>10. \A j \in Keys : lost'[j] = lost[j] + IF j \in gone THEN entries[j].count ELSE 0
  BY <1>3
<1>11. lost' \in [Keys -> Nat]
  <2>1. ASSUME NEW j \in Keys
        PROVE  lost[j] + (IF j \in gone THEN entries[j].count ELSE 0) \in Nat
    BY <1>7, <1>9
  <2> QED BY <1>3, <2>1
<1>12. \A j \in Keys : Pending(j)' + lost'[j] = (IF j \in DOMAIN entries THEN entries[j].count ELSE 0) + lost[j]
  <2> TAKE j \in Keys
  <2>1. CASE j \in gone
    BY <1>7, <1>8, <1>9, <1>10, <2>1 DEF Pending
  <2>2. CASE j \in DOMAIN entries \ gone
    BY <1>8, <1>9, <1>10, <2>2 DEF Pending
  <2>3. CASE j \notin DOMAIN entries
    BY <1>7, <1>8, <1>9, <1>10, <2>3 DEF Pending
  <2> QED BY <2>1, <2>2, <2>3
<1>13. Pending(k)' + lost'[k] + due = Pending(k) + lost[k] + 1
  <2> DEFINE a == counted.entry.count
  <2>1. Pending(k)' + lost'[k] = a + lost[k]
    BY <1>1, <1>5, <1>12
  <2>2. a \in Nat /\ lost[k] \in Nat /\ Pending(k) \in Nat /\ due + a = Pending(k) + 1
    BY <1>1, <1>2, <1>9 DEF EntryType, due
  <2> HIDE DEF a
  <2> QED BY <1>2, <2>1, <2>2
<1>14. \A j \in Keys : j # k => Pending(j)' + lost'[j] = Pending(j) + lost[j]
  BY <1>5, <1>12 DEF Pending
<1>15. /\ thread' \in [Threads -> ThreadType]
       /\ \A s \in Threads : s # t => thread'[s] = thread[s]
       /\ IF due = 0 THEN thread'[t].at = "idle"
          ELSE thread'[t].at = "emit" /\ thread'[t].key = k /\ thread'[t].count = due
  <2> DEFINE e == IF due = 0 THEN Idle ELSE [at |-> "emit", key |-> k, count |-> due]
  <2>1. e \in ThreadType
    BY <1>1, <1>2 DEF ThreadType
  <2>2. /\ due = 0 => e.at = "idle"
        /\ due # 0 => e.at = "emit" /\ e.key = k /\ e.count = due
    BY DEF Idle
  <2> HIDE DEF e
  <2>3. thread' = [thread EXCEPT ![t] = e]
    BY <1>4 DEF e
  <2> QED BY <2>1, <2>2, <2>3 DEF TypesInv
<1>16. due \in Nat
  BY <1>2 DEF due
<1> QED
  BY <1>1, <1>6, <1>7, <1>8, <1>11, <1>13, <1>14, <1>15, <1>16

-----------------------------------------------------------------------------
(* Sums over threads *)

\* f adds up what the threads of every set report when they are as th says.
SumIs(f, th) ==
    f = [S \in SUBSET Threads |->
            IF S = {} THEN 0
            ELSE LET t == CHOOSE t \in S : TRUE IN th[t].count + f[S \ {t}]]

\* The recursion is well founded: there is such a function, first for small sets, then
\* for all.
LEMMA SumExists ==
    ASSUME NEW th
    PROVE  \E f : SumIs(f, th)
<1> DEFINE Upto(n) == {S \in SUBSET Threads : Cardinality(S) <= n}
           pick(S) == CHOOSE t \in S : TRUE
           Val(f, S) == IF S = {} THEN 0 ELSE th[pick(S)].count + f[S \ {pick(S)}]
           N == {n \in Nat : \E f : f = [S \in Upto(n) |-> Val(f, S)]}
<1>1. ASSUME NEW S \in SUBSET Threads
      PROVE  /\ IsFiniteSet(S) /\ Cardinality(S) \in Nat
             /\ S # {} => /\ pick(S) \in S /\ S \ {pick(S)} \in SUBSET Threads
                          /\ Cardinality(S \ {pick(S)}) = Cardinality(S) - 1
             /\ Cardinality(S) = 0 => S = {}
             /\ Cardinality(S) <= Cardinality(Threads) /\ Cardinality(Threads) \in Nat
  <2>1. IsFiniteSet(S) /\ Cardinality(S) \in Nat /\ Cardinality(S) <= Cardinality(Threads)
    BY FloodAssumption, FS_Subset, FS_CardinalityType
  <2>2. Cardinality(S) = 0 => S = {}
    BY <2>1, FS_EmptySet
  <2>3. Cardinality(Threads) \in Nat
    BY FloodAssumption, FS_CardinalityType
  <2>4. CASE S # {}
    <3>1. pick(S) \in S
      BY <2>4
    <3> HIDE DEF pick
    <3>2. Cardinality(S \ {pick(S)}) = Cardinality(S) - 1
      BY <2>1, <3>1, FS_RemoveElement
    <3> QED BY <2>1, <2>2, <2>3, <3>1, <3>2
  <2> QED BY <2>1, <2>2, <2>3, <2>4
<1> HIDE DEF pick
<1>2. 0 \in N
  <2> DEFINE f == [S \in Upto(0) |-> 0]
  <2>1. \A S \in Upto(0) : S = {}
    <3> TAKE S \in Upto(0)
    <3>1. Cardinality(S) \in Nat /\ Cardinality(S) <= 0
      BY <1>1
    <3>2. Cardinality(S) = 0
      BY <3>1
    <3> QED BY <1>1, <3>2
  <2>2. \A S \in Upto(0) : Val(f, S) = 0
    BY <2>1
  <2>3. f = [S \in Upto(0) |-> Val(f, S)]
    BY <2>2
  <2> QED BY <2>3
<1>3. ASSUME NEW n \in Nat, n \in N PROVE n + 1 \in N
  <2>1. PICK f : f = [S \in Upto(n) |-> Val(f, S)]
    BY <1>3
  <2> DEFINE g == [S \in Upto(n + 1) |-> Val(f, S)]
  <2>2. ASSUME NEW S \in Upto(n + 1) PROVE Val(f, S) = Val(g, S)
    <3>1. CASE S = {}
      BY <3>1
    <3>2. CASE S # {}
      <4> DEFINE R == S \ {pick(S)}
      <4>1. R \in SUBSET Threads /\ Cardinality(R) <= n
        BY <1>1, <3>2
      <4>2. R \in Upto(n) /\ R \in Upto(n + 1)
        BY <1>1, <4>1
      <4> HIDE DEF R
      <4>3. f[R] = Val(f, R)
        <5> HIDE DEF Val, Upto
        <5> QED BY <2>1, <4>2
      <4>4. g[R] = Val(f, R)
        <5> HIDE DEF Val, Upto
        <5> QED BY <4>2
      <4>5. f[S \ {pick(S)}] = g[S \ {pick(S)}]
        BY <4>3, <4>4 DEF R
      <4> HIDE DEF g
      <4> QED BY <3>2, <4>5
    <3> QED BY <3>1, <3>2
  <2>3. g = [S \in Upto(n + 1) |-> Val(g, S)]
    <3> HIDE DEF Val, Upto
    <3> QED BY <2>2
  <2> HIDE DEF g, Upto, Val
  <2> QED BY <2>3
<1>4. Cardinality(Threads) \in N
  <2>1. Cardinality(Threads) \in Nat
    BY FloodAssumption, FS_CardinalityType
  <2> HIDE DEF N
  <2>2. \A n \in Nat : n \in N
    BY <1>2, <1>3, SetInduction
  <2> QED BY <2>1, <2>2
<1>5. Upto(Cardinality(Threads)) = SUBSET Threads
  BY <1>1
<1>6. PICK f : f = [S \in SUBSET Threads |-> Val(f, S)]
  <2> HIDE DEF Upto, Val
  <2> QED BY <1>4, <1>5
<1> QED BY <1>6, Zenon DEF SumIs, pick

\* Taking one thread away takes its count from the sum.
LEMMA SumSplit ==
    ASSUME NEW th, NEW f, SumIs(f, th), NEW S \in SUBSET Threads, \A t \in S : th[t].count \in Nat
    PROVE  /\ f[S] \in Nat
           /\ S = {} => f[S] = 0
           /\ \A t \in S : f[S] = th[t].count + f[S \ {t}]
<1> DEFINE Good(R) == /\ f[R] \in Nat
                      /\ \A t \in R : f[R] = th[t].count + f[R \ {t}]
           Held == {R \in SUBSET Threads : \A t \in R : th[t].count \in Nat}
           N == {n \in Nat : \A R \in Held : Cardinality(R) <= n => Good(R)}
           pick(R) == CHOOSE t \in R : TRUE
<1>1. ASSUME NEW R \in SUBSET Threads
      PROVE  f[R] = IF R = {} THEN 0 ELSE th[pick(R)].count + f[R \ {pick(R)}]
  <2> DEFINE Val(Q) == IF Q = {} THEN 0 ELSE th[pick(Q)].count + f[Q \ {pick(Q)}]
  <2>1. f = [Q \in SUBSET Threads |-> Val(Q)]
    BY Zenon DEF SumIs
  <2> HIDE DEF Val
  <2>2. f[R] = Val(R)
    BY <2>1
  <2> QED BY <2>2 DEF Val
<1>2. \A R \in SUBSET Threads : R # {} => pick(R) \in R
  OBVIOUS
<1> HIDE DEF pick
<1>3. ASSUME NEW R \in SUBSET Threads
      PROVE  /\ Cardinality(R) \in Nat
             /\ Cardinality(R) = 0 => R = {}
             /\ \A t \in R : Cardinality(R \ {t}) = Cardinality(R) - 1
  <2>1. IsFiniteSet(R)
    BY FloodAssumption, FS_Subset
  <2> QED BY <2>1, FS_CardinalityType, FS_EmptySet, FS_RemoveElement
<1>4. 0 \in N
  <2> SUFFICES ASSUME NEW R \in Held, Cardinality(R) <= 0 PROVE Good(R)
    OBVIOUS
  <2>1. Cardinality(R) = 0
    BY <1>3
  <2>2. R = {}
    BY <1>3, <2>1
  <2>3. f[R] = 0
    BY <1>1, <2>2
  <2> QED BY <2>2, <2>3
<1>5. ASSUME NEW n \in Nat, n \in N PROVE n + 1 \in N
  <2> SUFFICES ASSUME NEW R \in Held, Cardinality(R) <= n + 1, R # {} PROVE Good(R)
    <3>1. Cardinality({}) = 0
      BY FS_EmptySet
    <3>2. ASSUME NEW R \in Held, R = {} PROVE Good(R)
      BY <1>5, <3>1, <3>2
    <3> QED BY <3>2
  <2>1. R # {}
    OBVIOUS
  <2> DEFINE p == pick(R)
  <2>2. p \in R /\ f[R] = th[p].count + f[R \ {p}]
    BY <1>1, <1>2, <2>1
  <2> HIDE DEF p
  <2>3. ASSUME NEW Q \in Held, Cardinality(Q) <= n PROVE Good(Q)
    BY <1>5, <2>3
  <2>4. \A t \in R : R \ {t} \in Held /\ Cardinality(R \ {t}) <= n
    <3> TAKE t \in R
    <3>1. /\ Cardinality(R) \in Nat /\ Cardinality(R \ {t}) \in Nat
          /\ Cardinality(R \ {t}) = Cardinality(R) - 1
      BY <1>3
    <3> QED BY <3>1
  <2>5. \A t \in R : Good(R \ {t})
    BY <2>3, <2>4
  <2>6. th[p].count \in Nat /\ f[R \ {p}] \in Nat /\ f[R] \in Nat
    <3> DEFINE a == th[p].count
               b == f[R \ {p}]
    <3>1. a \in Nat /\ b \in Nat /\ f[R] = a + b
      BY <2>2, <2>5
    <3> HIDE DEF a, b
    <3>2. f[R] \in Nat
      BY <3>1
    <3> QED BY <3>1, <3>2 DEF a, b
  <2>7. ASSUME NEW t \in R PROVE f[R] = th[t].count + f[R \ {t}]
    <3>1. CASE t = p
      BY <2>2, <3>1
    <3>2. CASE t # p
      <4>1. (R \ {p}) \ {t} = (R \ {t}) \ {p} /\ t \in R \ {p} /\ p \in R \ {t}
        BY <2>2, <3>2
      <4>2. f[R \ {p}] = th[t].count + f[(R \ {p}) \ {t}]
        BY <2>2, <2>5, <4>1
      <4>3. f[R \ {t}] = th[p].count + f[(R \ {p}) \ {t}]
        BY <2>5, <4>1
      <4>4. (R \ {p}) \ {t} \in SUBSET Threads /\ th[t].count \in Nat /\ f[R \ {t}] \in Nat
        BY <2>5
      <4>5. f[(R \ {p}) \ {t}] \in Nat
        <5> DEFINE Q == (R \ {p}) \ {t}
        <5>1. Q \in Held /\ R \ {p} \in Held /\ t \in R \ {p} /\ Q = (R \ {p}) \ {t}
          BY <2>2, <2>4, <4>1
        <5>2. Cardinality(R \ {p}) \in Nat /\ Cardinality(R \ {p}) <= n
              /\ Cardinality(Q) = Cardinality(R \ {p}) - 1
          BY <1>3, <2>2, <2>4, <5>1
        <5> HIDE DEF Q
        <5>3. Cardinality(Q) <= n
          BY <5>2
        <5>4. Good(Q)
          BY <2>3, <5>1, <5>3
        <5> QED BY <5>4 DEF Q
      <4> DEFINE a == f[(R \ {p}) \ {t}]
                 b == th[t].count
                 c == th[p].count
      <4>6. f[R] = c + (b + a) /\ f[R \ {t}] = c + a
        BY <2>2, <4>2, <4>3
      <4>7. a \in Nat /\ b \in Nat /\ c \in Nat
        BY <2>6, <4>4, <4>5
      <4> HIDE DEF a, b, c
      <4>8. f[R] = b + (c + a)
        BY <4>6, <4>7
      <4> QED BY <4>6, <4>8 DEF b
    <3> QED BY <3>1, <3>2
  <2> QED BY <2>6, <2>7
<1>6. \A n \in Nat : n \in N
  <2> HIDE DEF N
  <2> QED BY <1>4, <1>5, SetInduction
<1>7. Cardinality(S) \in N /\ S \in Held
  BY <1>3, <1>6
<1>8. Cardinality(S) <= Cardinality(S)
  BY <1>3
<1>9. Good(S)
  BY <1>7, <1>8
<1>10. S = {} => f[S] = 0
  BY <1>1
<1> QED BY <1>9, <1>10

\* The sum does not depend on threads outside of the set.
LEMMA SumSame ==
    ASSUME NEW th, NEW f, SumIs(f, th), NEW th2, NEW f2, SumIs(f2, th2),
           NEW S \in SUBSET Threads, \A t \in S : th[t].count = th2[t].count
    PROVE  f[S] = f2[S]
<1> DEFINE Held == {R \in SUBSET Threads : \A t \in R : th[t].count = th2[t].count}
           N == {n \in Nat : \A R \in Held : Cardinality(R) <= n => f[R] = f2[R]}
           pick(R) == CHOOSE t \in R : TRUE
<1>1. ASSUME NEW R \in SUBSET Threads
      PROVE  /\ f[R] = IF R = {} THEN 0 ELSE th[pick(R)].count + f[R \ {pick(R)}]
             /\ f2[R] = IF R = {} THEN 0 ELSE th2[pick(R)].count + f2[R \ {pick(R)}]
  <2> DEFINE Val(Q) == IF Q = {} THEN 0 ELSE th[pick(Q)].count + f[Q \ {pick(Q)}]
             Val2(Q) == IF Q = {} THEN 0 ELSE th2[pick(Q)].count + f2[Q \ {pick(Q)}]
  <2>1. f = [Q \in SUBSET Threads |-> Val(Q)] /\ f2 = [Q \in SUBSET Threads |-> Val2(Q)]
    BY Zenon DEF SumIs
  <2> HIDE DEF Val, Val2
  <2>2. f[R] = Val(R) /\ f2[R] = Val2(R)
    BY <2>1
  <2> QED BY <2>2 DEF Val, Val2
<1>2. \A R \in SUBSET Threads : R # {} => pick(R) \in R
  OBVIOUS
<1> HIDE DEF pick
<1>3. ASSUME NEW R \in SUBSET Threads
      PROVE  /\ Cardinality(R) \in Nat
             /\ Cardinality(R) = 0 => R = {}
             /\ \A t \in R : Cardinality(R \ {t}) = Cardinality(R) - 1
  <2>1. IsFiniteSet(R)
    BY FloodAssumption, FS_Subset
  <2> QED BY <2>1, FS_CardinalityType, FS_EmptySet, FS_RemoveElement
<1>4. 0 \in N
  <2> SUFFICES ASSUME NEW R \in Held, Cardinality(R) <= 0 PROVE f[R] = f2[R]
    OBVIOUS
  <2>1. Cardinality(R) = 0
    BY <1>3
  <2> QED BY <1>1, <1>3, <2>1
<1>5. ASSUME NEW n \in Nat, n \in N PROVE n + 1 \in N
  <2> SUFFICES ASSUME NEW R \in Held, Cardinality(R) <= n + 1, R # {} PROVE f[R] = f2[R]
    <3>1. ASSUME NEW R \in Held, R = {} PROVE f[R] = f2[R]
      BY <1>1, <3>1
    <3> QED BY <3>1
  <2> DEFINE p == pick(R)
             Q == R \ {p}
  <2>1. p \in R /\ f[R] = th[p].count + f[Q] /\ f2[R] = th2[p].count + f2[Q]
    BY <1>1, <1>2
  <2>2. Q \in Held /\ Cardinality(R) \in Nat /\ Cardinality(Q) \in Nat
        /\ Cardinality(Q) = Cardinality(R) - 1
    BY <1>3, <2>1
  <2> HIDE DEF p, Q
  <2>3. Cardinality(Q) <= n
    BY <2>2
  <2>4. f[Q] = f2[Q]
    BY <1>5, <2>2, <2>3
  <2> QED BY <2>1, <2>4
<1>6. \A n \in Nat : n \in N
  <2> HIDE DEF N
  <2> QED BY <1>4, <1>5, SetInduction
<1>7. Cardinality(S) \in N /\ S \in Held
  BY <1>3, <1>6
<1>8. Cardinality(S) <= Cardinality(S)
  BY <1>3
<1> QED BY <1>7, <1>8

LEMMA InHandIs == SumIs(InHand, thread)
<1>1. \E f : SumIs(f, thread)
  BY SumExists
<1> QED BY <1>1, Zenon DEF InHand, SumIs

LEMMA InHandNext == SumIs(InHand, thread)'
<1>1. \E f : SumIs(f, thread')
  BY SumExists
<1> QED BY <1>1, Zenon DEF InHand, SumIs

\* How a step changes what the threads of a set have in hand.
LEMMA InHandSame ==
    ASSUME NEW S \in SUBSET Threads, \A t \in S : thread'[t] = thread[t]
    PROVE  (InHand')[S] = InHand[S]
<1>1. SumIs(InHand, thread) /\ SumIs(InHand', thread')
  BY InHandIs, InHandNext, Zenon DEF SumIs
<1> DEFINE f == InHand
           g == InHand'
           th == thread
           th2 == thread'
<1>2. SumIs(f, th) /\ SumIs(g, th2) /\ \A t \in S : th[t].count = th2[t].count
  BY <1>1
<1> HIDE DEF f, g, th, th2
<1>3. g[S] = f[S]
  BY <1>2, SumSame
<1> QED BY <1>3 DEF f, g

-----------------------------------------------------------------------------
(* Types and bounds *)

\* Log: the thread has read the clock.
LEMMA LogIs ==
    ASSUME TypesInv, NEW t \in Threads, NEW k \in Keys, Log(t, k)
    PROVE  /\ UNCHANGED <<config, now, lastSeen, windows, summary, decided, forgotten, lost, summarised>>
           /\ thread' \in [Threads -> ThreadType] /\ \A s \in Threads : s # t => thread'[s] = thread[s]
           /\ thread[t].at = "idle" /\ thread'[t].at = "decide"
           /\ thread'[t].key = k /\ thread'[t].time = now
<1> DEFINE e == [at |-> "decide", key |-> k, time |-> now]
<1>1. e \in ThreadType /\ e.at = "decide" /\ e.key = k /\ e.time = now
  BY DEF ThreadType, TypesInv
<1> HIDE DEF e
<1>2. thread' = [thread EXCEPT ![t] = e] /\ thread[t].at = "idle"
  BY DEF Log, e
<1>3. thread' \in [Threads -> ThreadType] /\ thread'[t] = e
      /\ \A s \in Threads : s # t => thread'[s] = thread[s]
  BY <1>1, <1>2 DEF TypesInv
<1>4. UNCHANGED <<config, now, lastSeen, windows, summary, decided, forgotten, lost, summarised>>
  BY DEF Log, cache, history
<1> QED BY <1>1, <1>2, <1>3, <1>4

LEMMA EmitIs ==
    ASSUME TypesInv, NEW t \in Threads, EmitSummary(t), NEW k, k = thread[t].key
    PROVE  /\ UNCHANGED <<config, now, lastSeen, windows, summary, decided, forgotten, lost>>
           /\ thread' \in [Threads -> ThreadType] /\ \A s \in Threads : s # t => thread'[s] = thread[s]
           /\ thread[t].at = "emit" /\ thread'[t].at = "idle" /\ k \in Keys /\ thread[t].count \in Nat
           /\ summarised' \in [Keys -> Nat] /\ summarised'[k] = summarised[k] + thread[t].count
           /\ \A j \in Keys : j # k => summarised'[j] = summarised[j]
<1>1. Idle \in ThreadType /\ Idle.at = "idle"
  BY DEF ThreadType, Idle
<1>2. thread[t].at = "emit" /\ thread' = [thread EXCEPT ![t] = Idle]
  BY DEF EmitSummary
<1>3. thread' \in [Threads -> ThreadType] /\ thread'[t] = Idle
      /\ \A s \in Threads : s # t => thread'[s] = thread[s]
  BY <1>1, <1>2 DEF TypesInv
<1>4. k \in Keys /\ thread[t].count \in Nat
  BY <1>2, ThreadIs DEF TypesInv
<1> DEFINE n == thread[t].count
<1>5. summarised' = [summarised EXCEPT ![k] = summarised[k] + n] /\ summarised \in [Keys -> Nat] /\ n \in Nat
  BY <1>4 DEF EmitSummary, TypesInv
<1> HIDE DEF n
<1>6. /\ summarised' \in [Keys -> Nat] /\ summarised'[k] = summarised[k] + n
      /\ \A j \in Keys : j # k => summarised'[j] = summarised[j]
  BY <1>4, <1>5
<1>7. UNCHANGED <<config, now, lastSeen, windows, summary, decided, forgotten, lost>>
  BY DEF EmitSummary, cache
<1> QED BY <1>1, <1>2, <1>3, <1>4, <1>6, <1>7 DEF n

LEMMA FloodInit == Init => FloodInv
<1> SUFFICES ASSUME Init PROVE FloodInv
  OBVIOUS
<1>1. TypesInv
  <2>1. Idle \in ThreadType /\ Idle.at = "idle"
    BY DEF ThreadType, Idle
  <2>2. decided \in Seq(DecidedType) /\ DOMAIN decided = {}
    BY DEF Init
  <2>3. config.quota \in Nat \ {0} /\ config.cacheSize \in Nat \ {0}
    BY FloodAssumption DEF Init
  <2>4. /\ DOMAIN lastSeen = {} /\ DOMAIN windows = {} /\ DOMAIN summary = {}
        /\ lost \in [Keys -> Nat] /\ summarised \in [Keys -> Nat] /\ now \in Nat
        /\ config.mode \in Mode /\ config.emitSummary \in BOOLEAN
    BY DEF Init
  <2>5. thread \in [Threads -> ThreadType] /\ \A t \in Threads : thread[t].at # "decide"
    BY <2>1 DEF Init
  <2> QED BY <2>2, <2>3, <2>4, <2>5 DEF TypesInv
<1>2. BoundInv
  <2>1. DOMAIN lastSeen = {} /\ DOMAIN windows = {} /\ DOMAIN summary = {}
    BY DEF Init
  <2>2. IsFiniteSet({}) /\ Cardinality({}) = 0
    BY FS_EmptySet
  <2>3. config.cacheSize \in Nat
    BY <1>1 DEF TypesInv
  <2> QED BY <2>1, <2>2, <2>3 DEF BoundInv, TablesAreBounded
<1>3. DOMAIN decided = {} /\ DOMAIN lastSeen = {} /\ DOMAIN windows = {}
  BY DEF Init
<1>4. TableInv
  BY <1>3 DEF TableInv, LastInv, WindowInv
<1>5. DecidesByWindow
  BY <1>3 DEF DecidesByWindow
<1>6. LimitInv
  <2>1. ASSUME NEW start, NEW k PROVE Beyond(k, start) = {} /\ Inside(k, start) = {}
    BY <1>3 DEF Beyond, Inside
  <2>2. Cardinality({}) = 0 /\ config.quota \in Nat
    BY <1>1, FS_EmptySet DEF TypesInv
  <2>3. Cardinality({}) <= config.quota
    BY <2>2
  <2> QED BY <2>1, <2>3, Zenon DEF LimitInv
<1>7. SummariesAddUp
  <2> SUFFICES ASSUME NEW k \in Keys
               PROVE  Cardinality(Suppressed(k)) =
                         summarised[k] + InHand[Reporting(k)] + Pending(k) + lost[k]
                            + Cardinality(Counting(k))
    BY DEF SummariesAddUp, Pending
  <2>1. \A t \in Threads : thread[t].at = "idle"
    BY DEF Init, Idle
  <2>2. Suppressed(k) = {} /\ Reporting(k) = {} /\ Counting(k) = {}
    BY <1>3, <2>1 DEF Suppressed, Reporting, Counting
  <2>3. InHand[{}] = 0
    BY InHandIs, SumSplit
  <2>4. summarised[k] = 0 /\ lost[k] = 0 /\ Pending(k) = 0
    BY DEF Init, Pending
  <2>5. Cardinality({}) = 0
    BY FS_EmptySet
  <2> QED BY <2>2, <2>3, <2>4, <2>5
<1> QED BY <1>1, <1>2, <1>4, <1>5, <1>6, <1>7 DEF FloodInv

LEMMA TypesStep ==
    ASSUME FloodInv, [Next]_vars
    PROVE  TypesInv' /\ BoundInv'
<1> USE DEF FloodInv
<1>1. CASE Tick \/ UNCHANGED vars
  <2>1. UNCHANGED <<config, thread, lastSeen, windows, summary, decided, forgotten, lost, summarised>>
    BY <1>1 DEF Tick, vars, cache, history
  <2>2. now' \in Nat /\ now <= now' /\ now \in Nat
    BY <1>1 DEF Tick, vars, TypesInv
  <2>3. ASSUME NEW t \in Threads, thread[t].at = "decide" PROVE thread[t].time <= now'
    <3>1. thread[t].time \in Nat /\ thread[t].time <= now
      BY <2>3, ThreadIs DEF TypesInv
    <3> QED BY <2>2, <3>1
  <2>4. ASSUME NEW i \in DOMAIN decided PROVE decided[i].time <= now'
    <3>1. decided[i].time \in Nat /\ decided[i].time <= now
      <4>1. decided[i] \in DecidedType /\ decided[i].time <= now
        BY DEF TypesInv
      <4> QED BY <4>1 DEF DecidedType
    <3> QED BY <2>2, <3>1
  <2>5. TypesInv'
    BY <2>1, <2>2, <2>3, <2>4 DEF TypesInv
  <2>6. BoundInv'
    BY <2>1 DEF BoundInv, TablesAreBounded
  <2> QED BY <2>5, <2>6
<1>2. ASSUME NEW t \in Threads, NEW k \in Keys, Log(t, k) PROVE TypesInv' /\ BoundInv'
  <2>1. /\ UNCHANGED <<config, now, lastSeen, windows, summary, decided, forgotten, lost, summarised>>
        /\ thread' \in [Threads -> ThreadType] /\ \A s \in Threads : s # t => thread'[s] = thread[s]
        /\ thread'[t].time = now /\ now \in Nat
    BY <1>2, LogIs DEF TypesInv
  <2>2. TypesInv'
    <3>1. ASSUME NEW s \in Threads, thread'[s].at = "decide" PROVE thread'[s].time <= now'
      <4>1. CASE s = t
        BY <2>1, <4>1
      <4>2. CASE s # t
        <5>1. thread'[s] = thread[s] /\ now' = now
          BY <2>1, <4>2
        <5>2. thread[s].at = "decide" => thread[s].time <= now
          BY DEF TypesInv
        <5> QED BY <3>1, <5>1, <5>2
      <4> QED BY <4>1, <4>2
    <3> QED BY <2>1, <3>1, Zenon DEF TypesInv
  <2>3. BoundInv'
    BY <2>1 DEF BoundInv, TablesAreBounded
  <2> QED BY <2>2, <2>3
<1>3. ASSUME NEW t \in Threads,
             (\E k \in Keys : SuppressInContext(t, k)) \/ RateLimit(t) \/ Deduplicate(t)
      PROVE  TypesInv' /\ BoundInv'
  <2>1. PICK k \in Keys, time \in Nat, passes \in BOOLEAN : Decides(t, k, time, passes)
    BY <1>3, DecidingSteps
  <2>2. /\ time <= now /\ Decision(t, k, time, passes)
        /\ UNCHANGED <<config, now, summary, lost, summarised>>
    BY <2>1 DEF Decides
  <2>3. /\ decided' \in Seq(DecidedType)
        /\ Len(decided) \in Nat
        /\ DOMAIN decided = 1..Len(decided) /\ DOMAIN decided' = 1..(Len(decided) + 1)
        /\ \A i \in 1..Len(decided) : decided'[i] = decided[i]
        /\ decided'[Len(decided) + 1] = [key |-> k, time |-> time, passes |-> passes]
        /\ thread' \in [Threads -> ThreadType]
        /\ \A s \in Threads : s # t => thread'[s] = thread[s]
        /\ thread'[t].at # "decide"
    BY <2>2, DecisionIs
  <2>4. ASSUME NEW i \in DOMAIN decided' PROVE decided'[i].time <= now
    <3>1. CASE i \in 1..Len(decided)
      BY <2>3, <3>1 DEF TypesInv
    <3>2. CASE i = Len(decided) + 1
      BY <2>2, <2>3, <3>2
    <3> QED BY <2>3, <3>1, <3>2
  <2>5. CASE config.mode = "context_info_suppression"
    <3>1. UNCHANGED <<lastSeen, windows, forgotten>>
      BY <2>1, <2>5 DEF Decides, RateLimit, Deduplicate
    <3>2. TypesInv'
      BY <2>2, <2>3, <2>4, <3>1 DEF TypesInv
    <3>3. BoundInv'
      BY <2>2, <3>1 DEF BoundInv, TablesAreBounded
    <3> QED BY <3>2, <3>3
  <2>6. CASE RateLimit(t)
    <3>0. PICK w : w = Unexpired(Stored(k), time)
      OBVIOUS
    <3>1. PICK gone : LastAfter(k, time, gone) /\ WindowsAfter(k, time, passes, w, gone)
      BY <2>1, <2>6, <3>0, RateLimitIs
    <3>2. w \in Seq(Nat)
      <4>1. Stored(k) \in Seq(Nat)
        BY DEF Stored, TypesInv
      <4> QED BY <3>0, <4>1, UnexpiredIs
    <3>3. Append(w, time) \in Seq(Nat)
      BY <3>2
    <3>4. DOMAIN windows' \subseteq Keys /\ \A j \in DOMAIN windows' : windows'[j] \in Seq(Nat)
      BY <3>1, <3>2, <3>3 DEF TypesInv, WindowsAfter
    <3>5. DOMAIN lastSeen' \subseteq Keys /\ \A j \in DOMAIN lastSeen' : lastSeen'[j] \in Nat
      BY <3>1 DEF TypesInv, LastAfter
    <3>6. TypesInv'
      BY <2>2, <2>3, <2>4, <3>4, <3>5 DEF TypesInv
    <3>7. config.mode = "rate_limit"
      BY <2>6 DEF RateLimit
    <3>8. BoundInv'
      BY <2>2, <3>1, <3>7 DEF BoundInv, TablesAreBounded, LastAfter, WindowsAfter
    <3> QED BY <3>6, <3>8
  <2>7. CASE Deduplicate(t)
    <3>1. PICK gone : /\ LastAfter(k, time, gone)
                      /\ DOMAIN windows' = DOMAIN windows \ gone
                      /\ \A j \in DOMAIN windows' : windows'[j] = windows[j]
      BY <2>1, <2>7, DeduplicateIs
    <3>2. DOMAIN lastSeen' \subseteq Keys /\ \A j \in DOMAIN lastSeen' : lastSeen'[j] \in Nat
      BY <3>1 DEF TypesInv, LastAfter
    <3>3. TypesInv'
      BY <2>2, <2>3, <2>4, <3>1, <3>2 DEF TypesInv
    <3>4. config.mode # "rate_limit"
      BY <2>7 DEF Deduplicate
    <3>5. BoundInv'
      BY <2>2, <3>1, <3>4 DEF BoundInv, TablesAreBounded, LastAfter
    <3> QED BY <3>3, <3>5
  <2> QED BY <2>1, <2>5, <2>6, <2>7 DEF Decides
<1>4. ASSUME NEW t \in Threads, RecordSuppression(t) PROVE TypesInv' /\ BoundInv'
  <2>1. UNCHANGED <<config, now, lastSeen, windows, decided, forgotten, summarised>>
    BY <1>4 DEF RecordSuppression, cache
  <2>2. /\ DOMAIN summary' \subseteq Keys /\ \A j \in DOMAIN summary' : summary'[j] \in EntryType
        /\ IsFiniteSet(DOMAIN summary') /\ Cardinality(DOMAIN summary') <= config.cacheSize
        /\ lost' \in [Keys -> Nat]
        /\ thread' \in [Threads -> ThreadType] /\ \A s \in Threads : s # t => thread'[s] = thread[s]
    BY <1>4, RecordIs
  <2>3. thread'[t].at # "decide"
    BY <1>4, RecordIs
  <2>4. TypesInv'
    BY <2>1, <2>2, <2>3 DEF TypesInv
  <2>5. BoundInv'
    BY <2>1, <2>2 DEF BoundInv, TablesAreBounded
  <2> QED BY <2>4, <2>5
<1>5. ASSUME NEW t \in Threads, EmitSummary(t) PROVE TypesInv' /\ BoundInv'
  <2>1. /\ UNCHANGED <<config, now, lastSeen, windows, summary, decided, forgotten, lost>>
        /\ thread' \in [Threads -> ThreadType] /\ \A s \in Threads : s # t => thread'[s] = thread[s]
        /\ thread'[t].at = "idle" /\ summarised' \in [Keys -> Nat]
    BY <1>5, EmitIs
  <2>2. TypesInv'
    BY <2>1 DEF TypesInv
  <2>3. BoundInv'
    BY <2>1 DEF BoundInv, TablesAreBounded
  <2> QED BY <2>2, <2>3
<1> QED BY <1>1, <1>2, <1>3, <1>4, <1>5 DEF Next

-----------------------------------------------------------------------------
(* The summaries' counts *)

LEMMA SummariesIs ==
    SummariesAddUp <=>
        (config.emitSummary =>
            \A k \in Keys : Cardinality(Suppressed(k)) =
                summarised[k] + InHand[Reporting(k)] + Pending(k) + lost[k] + Cardinality(Counting(k)))
BY DEF SummariesAddUp, Pending

\* The numbers are numbers.
LEMMA SummariesTypes ==
    ASSUME TypesInv, NEW k \in Keys
    PROVE  /\ summarised[k] \in Nat /\ Pending(k) \in Nat /\ lost[k] \in Nat
           /\ Counting(k) \in SUBSET Threads /\ IsFiniteSet(Counting(k)) /\ Cardinality(Counting(k)) \in Nat
           /\ Reporting(k) \in SUBSET Threads /\ InHand[Reporting(k)] \in Nat
           /\ \A t \in Reporting(k) : thread[t].count \in Nat
           /\ IsFiniteSet(Suppressed(k)) /\ Cardinality(Suppressed(k)) \in Nat
<1>1. summarised[k] \in Nat /\ Pending(k) \in Nat /\ lost[k] \in Nat
  BY DEF TypesInv, Pending, EntryType
<1>2. Counting(k) \in SUBSET Threads /\ Reporting(k) \in SUBSET Threads
  BY DEF Counting, Reporting
<1>3. IsFiniteSet(Counting(k)) /\ Cardinality(Counting(k)) \in Nat
  BY <1>2, FloodAssumption, FS_Subset, FS_CardinalityType
<1>4. \A t \in Reporting(k) : thread[t].count \in Nat
  BY ThreadIs DEF TypesInv, Reporting
<1>5. InHand[Reporting(k)] \in Nat
  BY <1>2, <1>4, InHandIs, SumSplit
<1>6. IsFiniteSet(Suppressed(k)) /\ Cardinality(Suppressed(k)) \in Nat
  <2>1. Len(decided) \in Nat /\ DOMAIN decided = 1..Len(decided)
    BY DEF TypesInv
  <2>2. IsFiniteSet(1..Len(decided))
    BY <2>1, FS_Interval
  <2>3. Suppressed(k) \subseteq 1..Len(decided)
    BY <2>1 DEF Suppressed
  <2> QED BY <2>2, <2>3, FS_Subset, FS_CardinalityType
<1> QED BY <1>1, <1>2, <1>3, <1>4, <1>5, <1>6

\* The same sets of threads and numbers, the same sum.
LEMMA SummariesSame ==
    ASSUME TypesInv, TypesInv', SummariesAddUp,
           UNCHANGED <<config, summary, decided, lost, summarised>>,
           NEW t \in Threads, \A s \in Threads : s # t => thread'[s] = thread[s],
           thread[t].at \in {"idle", "decide"}, thread'[t].at \in {"idle", "decide"}
    PROVE  SummariesAddUp'
<1> SUFFICES ASSUME config.emitSummary, NEW k \in Keys
             PROVE  Cardinality(Suppressed(k)') =
                       summarised[k] + (InHand')[Reporting(k)'] + Pending(k)' + lost[k]
                          + Cardinality(Counting(k)')
  BY DEF SummariesAddUp, Pending
<1>1. Suppressed(k)' = Suppressed(k) /\ Pending(k)' = Pending(k)
  BY DEF Suppressed, Pending
<1>2. Reporting(k)' = Reporting(k) /\ Counting(k)' = Counting(k) /\ t \notin Reporting(k)
  BY DEF Reporting, Counting
<1>3. (InHand')[Reporting(k)] = InHand[Reporting(k)]
  BY <1>2, InHandSame, SummariesTypes DEF Reporting
<1> QED BY <1>1, <1>2, <1>3, SummariesIs

\* A decision: a suppressed record is about to be counted.
LEMMA SummariesDecide ==
    ASSUME FloodInv, TypesInv', NEW t \in Threads, NEW k \in Keys, NEW time \in Nat, NEW passes \in BOOLEAN,
           Decides(t, k, time, passes)
    PROVE  SummariesAddUp'
<1> USE DEF FloodInv
<1> DEFINE n == Len(decided)
<1>1. /\ DOMAIN decided = 1..n /\ DOMAIN decided' = 1..(n + 1) /\ n \in Nat
      /\ \A i \in 1..n : decided'[i] = decided[i]
      /\ decided'[n + 1] = [key |-> k, time |-> time, passes |-> passes]
      /\ \A s \in Threads : s # t => thread'[s] = thread[s]
      /\ IF passes \/ ~config.emitSummary THEN thread'[t].at = "idle"
         ELSE thread'[t].at = "count" /\ thread'[t].key = k
  BY DecisionIs DEF Decides
<1> HIDE DEF n
<1>2. /\ UNCHANGED <<config, summary, lost, summarised>>
      /\ thread[t].at \in {"idle", "decide"}
  BY DEF Decides
<1> SUFFICES ASSUME config.emitSummary, NEW j \in Keys
             PROVE  Cardinality(Suppressed(j)') =
                       summarised[j] + (InHand')[Reporting(j)'] + Pending(j)' + lost[j]
                          + Cardinality(Counting(j)')
  BY <1>2 DEF SummariesAddUp, Pending
<1>3. Pending(j)' = Pending(j)
  BY <1>2 DEF Pending
<1>4. Reporting(j)' = Reporting(j) /\ t \notin Reporting(j)
  BY <1>1, <1>2 DEF Reporting
<1>5. (InHand')[Reporting(j)] = InHand[Reporting(j)]
  BY <1>1, <1>4, InHandSame, SummariesTypes DEF Reporting
<1>6. CASE j = k /\ ~passes
  <2>1. Suppressed(j)' = Suppressed(j) \cup {n + 1} /\ n + 1 \notin Suppressed(j)
    BY <1>1, <1>6 DEF Suppressed
  <2>2. Counting(j)' = Counting(j) \cup {t} /\ t \notin Counting(j)
    BY <1>1, <1>2, <1>6 DEF Counting
  <2>3. Cardinality(Suppressed(j)') = Cardinality(Suppressed(j)) + 1
    BY <2>1, FS_AddElement, SummariesTypes
  <2>4. Cardinality(Counting(j)') = Cardinality(Counting(j)) + 1
    BY <2>2, FS_AddElement, SummariesTypes
  <2> QED BY <1>3, <1>4, <1>5, <2>3, <2>4, SummariesIs, SummariesTypes
<1>7. CASE ~(j = k /\ ~passes)
  <2>1. Suppressed(j)' = Suppressed(j)
    BY <1>1, <1>7 DEF Suppressed
  <2>2. Counting(j)' = Counting(j)
    BY <1>1, <1>2, <1>7 DEF Counting
  <2> QED BY <1>3, <1>4, <1>5, <2>1, <2>2, SummariesIs
<1> QED BY <1>6, <1>7

\* A suppressed record is counted, and its count may be due.
LEMMA SummariesRecord ==
    ASSUME FloodInv, TypesInv', NEW t \in Threads, RecordSuppression(t)
    PROVE  SummariesAddUp'
<1> USE DEF FloodInv
<1>0. PICK k : k = thread[t].key
  OBVIOUS
<1>1. /\ thread[t].at = "count" /\ k \in Keys
      /\ \A s \in Threads : s # t => thread'[s] = thread[s]
  BY <1>0, RecordIs
<1>2. PICK due \in Nat :
         /\ IF due = 0 THEN thread'[t].at = "idle"
            ELSE thread'[t].at = "emit" /\ thread'[t].key = k /\ thread'[t].count = due
         /\ Pending(k)' + lost'[k] + due = Pending(k) + lost[k] + 1
         /\ \A j \in Keys : j # k => Pending(j)' + lost'[j] = Pending(j) + lost[j]
  BY <1>0, RecordIs
<1>3. UNCHANGED <<config, decided, summarised>>
  BY DEF RecordSuppression
<1> SUFFICES ASSUME config.emitSummary, NEW j \in Keys
             PROVE  Cardinality(Suppressed(j)') =
                       summarised[j] + (InHand')[Reporting(j)'] + Pending(j)' + lost'[j]
                          + Cardinality(Counting(j)')
  BY <1>3 DEF SummariesAddUp, Pending
<1>4. Suppressed(j)' = Suppressed(j)
  BY <1>3 DEF Suppressed
<1>5. t \notin Reporting(j) /\ (InHand')[Reporting(j)] = InHand[Reporting(j)]
  <2>1. t \notin Reporting(j)
    BY <1>1 DEF Reporting
  <2> QED BY <1>1, <2>1, InHandSame, SummariesTypes DEF Reporting
<1>6. /\ Pending(j)' \in Nat /\ lost'[j] \in Nat
      /\ InHand[Reporting(j)] \in Nat /\ Pending(j) \in Nat /\ lost[j] \in Nat /\ summarised[j] \in Nat
      /\ Cardinality(Counting(j)) \in Nat
  <2>1. Pending(j)' \in Nat /\ lost'[j] \in Nat
    BY DEF TypesInv, Pending, EntryType
  <2> QED BY <2>1, SummariesTypes
<1>7. Cardinality(Suppressed(j)) =
         summarised[j] + InHand[Reporting(j)] + Pending(j) + lost[j] + Cardinality(Counting(j))
  BY SummariesIs
<1>8. CASE j # k
  <2>1. Counting(j)' = Counting(j)
    BY <1>0, <1>1, <1>2, <1>8 DEF Counting
  <2>2. Reporting(j)' = Reporting(j)
    BY <1>1, <1>2, <1>8 DEF Reporting
  <2>3. Pending(j)' + lost'[j] = Pending(j) + lost[j]
    BY <1>2, <1>8
  <2> QED BY <1>4, <1>5, <1>6, <1>7, <2>1, <2>2, <2>3
<1>9. CASE j = k
  <2>1. Counting(j)' = Counting(j) \ {t} /\ t \in Counting(j)
    BY <1>0, <1>1, <1>2, <1>9 DEF Counting
  <2>2. Cardinality(Counting(j)') = Cardinality(Counting(j)) - 1
    BY <2>1, FS_RemoveElement, SummariesTypes
  <2>3. Pending(j)' + lost'[j] + due = Pending(j) + lost[j] + 1
    BY <1>2, <1>9
  <2>4. (InHand')[Reporting(j)'] = InHand[Reporting(j)] + due
    <3>1. CASE due = 0
      <4>1. Reporting(j)' = Reporting(j)
        BY <1>1, <1>2, <3>1 DEF Reporting
      <4> QED BY <1>5, <1>6, <3>1, <4>1
    <3>2. CASE due # 0
      <4> DEFINE R == Reporting(j)'
                 g == InHand'
                 th == thread'
      <4>1. R = Reporting(j) \cup {t} /\ t \in R /\ R \ {t} = Reporting(j) /\ th[t].count = due
        BY <1>1, <1>2, <1>5, <1>9, <3>2 DEF Reporting
      <4>2. R \in SUBSET Threads /\ \A s \in R : th[s].count \in Nat
        <5>1. \A s \in Reporting(j) : thread[s].count \in Nat /\ s # t
          BY <1>5, SummariesTypes
        <5> QED BY <1>1, <1>2, <4>1, <5>1, SummariesTypes DEF Reporting
      <4>3. SumIs(g, th)
        BY InHandNext, Zenon DEF SumIs
      <4> HIDE DEF R, g, th
      <4>4. g[R] = th[t].count + g[R \ {t}]
        BY <4>1, <4>2, <4>3, SumSplit
      <4>5. g[Reporting(j)] = InHand[Reporting(j)]
        BY <1>5 DEF g
      <4>6. g[R] = due + InHand[Reporting(j)]
        BY <4>1, <4>4, <4>5
      <4>7. g[R] = InHand[Reporting(j)] + due
        BY <1>6, <4>6
      <4> QED BY <4>7 DEF g, R
    <3> QED BY <3>1, <3>2
  <2> DEFINE a == Pending(j)'
             b == lost'[j]
             c == Pending(j)
             d == lost[j]
             e == Cardinality(Counting(j))
             h == InHand[Reporting(j)]
             u == summarised[j]
  <2>5. a \in Nat /\ b \in Nat /\ c \in Nat /\ d \in Nat /\ e \in Nat /\ h \in Nat /\ u \in Nat
    BY <1>6
  <2>6. a + b + due = c + d + 1
    BY <2>3
  <2> HIDE DEF a, b, c, d, e, h, u
  <2>7. u + h + c + d + e = u + (h + due) + a + b + (e - 1)
    BY <2>5, <2>6
  <2> QED BY <1>4, <1>7, <2>2, <2>4, <2>7 DEF a, b, c, d, e, h, u
<1> QED BY <1>8, <1>9

\* A summary reports what its thread had in hand.
LEMMA SummariesEmit ==
    ASSUME FloodInv, NEW t \in Threads, EmitSummary(t)
    PROVE  SummariesAddUp'
<1> USE DEF FloodInv
<1>0. PICK k : k = thread[t].key
  OBVIOUS
<1>1. /\ UNCHANGED <<config, summary, decided, lost>>
      /\ \A s \in Threads : s # t => thread'[s] = thread[s]
      /\ thread[t].at = "emit" /\ thread'[t].at = "idle" /\ k \in Keys /\ thread[t].count \in Nat
      /\ summarised'[k] = summarised[k] + thread[t].count
      /\ \A j \in Keys : j # k => summarised'[j] = summarised[j]
  BY <1>0, EmitIs
<1> SUFFICES ASSUME config.emitSummary, NEW j \in Keys
             PROVE  Cardinality(Suppressed(j)') =
                       summarised'[j] + (InHand')[Reporting(j)'] + Pending(j)' + lost[j]
                          + Cardinality(Counting(j)')
  BY <1>1 DEF SummariesAddUp, Pending
<1>2. Suppressed(j)' = Suppressed(j) /\ Pending(j)' = Pending(j)
  BY <1>1 DEF Suppressed, Pending
<1>3. Counting(j)' = Counting(j)
  BY <1>1 DEF Counting
<1>4. Cardinality(Suppressed(j)) =
         summarised[j] + InHand[Reporting(j)] + Pending(j) + lost[j] + Cardinality(Counting(j))
  BY SummariesIs
<1>5. Reporting(j)' = Reporting(j) \ {t} /\ Reporting(j) \ {t} \in SUBSET Threads
  BY <1>1 DEF Reporting
<1>6. (InHand')[Reporting(j) \ {t}] = InHand[Reporting(j) \ {t}]
  BY <1>1, <1>5, InHandSame DEF Reporting
<1>7. CASE j # k
  <2>1. t \notin Reporting(j) /\ Reporting(j) \ {t} = Reporting(j)
    BY <1>0, <1>7 DEF Reporting
  <2> QED BY <1>1, <1>2, <1>3, <1>4, <1>5, <1>6, <1>7, <2>1
<1>8. CASE j = k
  <2>1. t \in Reporting(j)
    BY <1>0, <1>1, <1>8 DEF Reporting
  <2>2. InHand[Reporting(j)] = thread[t].count + InHand[Reporting(j) \ {t}]
    BY <2>1, InHandIs, SumSplit, SummariesTypes
  <2>3. InHand[Reporting(j) \ {t}] \in Nat
    BY <1>5, InHandIs, SumSplit, SummariesTypes
  <2> DEFINE a == thread[t].count
             b == InHand[Reporting(j) \ {t}]
             c == summarised[j]
  <2>4. a \in Nat /\ b \in Nat /\ c \in Nat
    BY <1>1, <2>3, SummariesTypes
  <2>5. summarised'[j] = c + a /\ InHand[Reporting(j)] = a + b /\ (InHand')[Reporting(j)'] = b
    BY <1>1, <1>5, <1>6, <1>8, <2>2
  <2> HIDE DEF a, b
  <2>6. (c + a) + b = c + (a + b)
    BY <2>4
  <2> QED BY <1>2, <1>3, <1>4, <2>5, <2>6 DEF c
<1> QED BY <1>7, <1>8

LEMMA SummariesStep ==
    ASSUME FloodInv, TypesInv', [Next]_vars
    PROVE  SummariesAddUp'
<1> USE DEF FloodInv
<1>1. CASE Tick \/ UNCHANGED vars
  <2>1. UNCHANGED <<config, thread, summary, decided, lost, summarised>>
    BY <1>1 DEF Tick, vars, cache, history
  <2>2. InHand' = InHand
    BY <2>1 DEF InHand
  <2> QED BY <2>1, <2>2 DEF SummariesAddUp, Suppressed, Reporting, Counting
<1>2. ASSUME NEW t \in Threads, NEW k \in Keys, Log(t, k) PROVE SummariesAddUp'
  <2>1. /\ UNCHANGED <<config, summary, decided, lost, summarised>>
        /\ \A s \in Threads : s # t => thread'[s] = thread[s]
        /\ thread[t].at \in {"idle", "decide"} /\ thread'[t].at \in {"idle", "decide"}
    BY <1>2, LogIs
  <2> QED BY <2>1, SummariesSame
<1>3. ASSUME NEW t \in Threads,
             (\E k \in Keys : SuppressInContext(t, k)) \/ RateLimit(t) \/ Deduplicate(t)
      PROVE  SummariesAddUp'
  BY <1>3, DecidingSteps, SummariesDecide
<1>4. ASSUME NEW t \in Threads, RecordSuppression(t) PROVE SummariesAddUp'
  BY <1>4, SummariesRecord
<1>5. ASSUME NEW t \in Threads, EmitSummary(t) PROVE SummariesAddUp'
  BY <1>5, SummariesEmit
<1> QED BY <1>1, <1>2, <1>3, <1>4, <1>5 DEF Next

-----------------------------------------------------------------------------
(* Decisions and windows *)

\* The history before a decision is that after it, but for the decision.
LEMMA PastIs ==
    ASSUME TypesInv, NEW t \in Threads, NEW k \in Keys, NEW time \in Nat, NEW passes \in BOOLEAN,
           Decides(t, k, time, passes), NEW i \in DOMAIN decided
    PROVE  /\ i \in DOMAIN decided'
           /\ Earlier(i)' = Earlier(i)
           /\ InOrder(i)' <=> InOrder(i)
           /\ \A j \in Earlier(i) : Within(i, j)' <=> Within(i, j)
<1> DEFINE n == Len(decided)
<1>1. /\ DOMAIN decided = 1..n /\ DOMAIN decided' = 1..(n + 1) /\ n \in Nat
      /\ \A m \in 1..n : decided'[m] = decided[m]
  BY DecisionIs DEF Decides
<1> HIDE DEF n
<1>2. i \in DOMAIN decided' /\ Earlier(i)' = Earlier(i)
  BY <1>1 DEF Earlier
<1>3. \A j \in Earlier(i) \cup {i} : decided'[j] = decided[j]
  BY <1>1 DEF Earlier
<1>4. InOrder(i)' <=> InOrder(i)
  BY <1>2, <1>3 DEF InOrder
<1>5. \A j \in Earlier(i) : Within(i, j)' <=> Within(i, j)
  BY <1>3 DEF Within
<1> QED BY <1>2, <1>4, <1>5

\* The window of a key that was not evicted: e tells the records, all other records that
\* passed were pushed out.
HoldsWindow(e, k, w) ==
    /\ e \in [DOMAIN w -> DOMAIN decided]
    /\ IsWindowOf(e, k, w)
    /\ \A j \in DOMAIN decided : decided[j].key = k /\ decided[j].passes =>
          \/ \E m \in DOMAIN w : e[m] = j
          \/ \E p \in DOMAIN decided : PushedOut(j, p)

LEMMA StoredIs ==
    ASSUME FloodInv, config.mode = "rate_limit", NEW k \in Keys \ forgotten
    PROVE  Stored(k) \in Seq(Nat) /\ \E e : HoldsWindow(e, k, Stored(k))
<1>1. WindowInv(k) /\ DOMAIN windows = DOMAIN lastSeen
  BY DEF FloodInv, TableInv, BoundInv, TablesAreBounded
<1>2. CASE k \in DOMAIN windows
  BY <1>1, <1>2 DEF FloodInv, TypesInv, WindowInv, Stored, HoldsWindow
<1>3. CASE k \notin DOMAIN windows
  <2>1. Stored(k) = <<>> /\ \A j \in DOMAIN decided : decided[j].key # k
    BY <1>1, <1>3 DEF Stored, WindowInv
  <2>2. <<>> \in Seq(Nat) /\ DOMAIN <<>> = {}
    OBVIOUS
  <2> DEFINE e == [m \in {} |-> 0]
  <2>3. e \in [{} -> DOMAIN decided]
    OBVIOUS
  <2> HIDE DEF e
  <2>4. HoldsWindow(e, k, <<>>)
    BY <2>1, <2>2, <2>3 DEF HoldsWindow, IsWindowOf
  <2> QED BY <2>1, <2>2, <2>4
<1> QED BY <1>2, <1>3

\* What is left of the window at a time: every record that passed is left, or pushed out,
\* or out of the window now.
HoldsLeft(f, k, w, time) ==
    /\ f \in [DOMAIN w -> DOMAIN decided]
    /\ IsWindowOf(f, k, w)
    /\ \A j \in DOMAIN decided : decided[j].key = k /\ decided[j].passes =>
          \/ \E m \in DOMAIN w : f[m] = j
          \/ \E p \in DOMAIN decided : PushedOut(j, p)
          \/ time - decided[j].time >= WindowSeconds

LEMMA LeftIs ==
    ASSUME FloodInv, config.mode = "rate_limit", NEW k \in Keys \ forgotten, NEW time \in Nat,
           NEW w, w = Unexpired(Stored(k), time)
    PROVE  /\ w \in Seq(Nat)
           /\ w # <<>> => time - w[1] < WindowSeconds
           /\ \E f : HoldsLeft(f, k, w, time)
<1> DEFINE v == Stored(k)
<1>1. v \in Seq(Nat)
  BY StoredIs
<1>2. PICK e : HoldsWindow(e, k, v)
  BY StoredIs
<1> HIDE DEF v
<1>3. w = Unexpired(v, time)
  BY DEF v
<1>4. w \in Seq(Nat)
  BY <1>1, <1>3, UnexpiredIs
<1>5. PICK d \in 0..Len(v) :
         /\ Len(w) = Len(v) - d
         /\ \A m \in 1..Len(w) : w[m] = v[m + d]
         /\ \A m \in 1..d : time - v[m] >= WindowSeconds
         /\ d < Len(v) => time - v[d + 1] < WindowSeconds
  BY <1>1, <1>3, UnexpiredIs
<1>6. /\ DOMAIN v = 1..Len(v) /\ DOMAIN w = 1..Len(w) /\ Len(v) \in Nat /\ Len(w) \in Nat
      /\ \A m \in DOMAIN w : m + d \in DOMAIN v
      /\ \A m \in DOMAIN v : m \in 1..d \/ (m - d \in DOMAIN w /\ (m - d) + d = m)
  <2>1. DOMAIN v = 1..Len(v) /\ DOMAIN w = 1..Len(w) /\ Len(v) \in Nat /\ Len(w) \in Nat
    BY <1>1, <1>4
  <2> QED BY <1>5, <2>1
<1>7. w # <<>> => time - w[1] < WindowSeconds
  <2> HAVE w # <<>>
  <2>1. Len(w) # 0
    BY <1>4
  <2>2. 1 \in 1..Len(w) /\ d < Len(v) /\ 1 + d = d + 1
    BY <1>5, <1>6, <2>1
  <2> QED BY <1>5, <2>2
<1> DEFINE f == [m \in DOMAIN w |-> e[m + d]]
<1>8. f \in [DOMAIN w -> DOMAIN decided]
  BY <1>2, <1>6 DEF HoldsWindow
<1>9. IsWindowOf(f, k, w)
  <2>1. ASSUME NEW m \in DOMAIN w
        PROVE  /\ f[m] \in DOMAIN decided
               /\ decided[f[m]].key = k /\ decided[f[m]].passes /\ decided[f[m]].time = w[m]
    BY <1>2, <1>5, <1>6 DEF HoldsWindow, IsWindowOf
  <2>2. ASSUME NEW m \in DOMAIN w, NEW l \in DOMAIN w, m < l PROVE f[m] < f[l]
    <3>1. m + d \in DOMAIN v /\ l + d \in DOMAIN v /\ m + d < l + d
      BY <1>6, <2>2
    <3> QED BY <1>2, <3>1 DEF HoldsWindow, IsWindowOf
  <2> QED BY <2>1, <2>2, Zenon DEF IsWindowOf
<1>10. ASSUME NEW j \in DOMAIN decided, decided[j].key = k, decided[j].passes
       PROVE  \/ \E m \in DOMAIN w : f[m] = j
              \/ \E p \in DOMAIN decided : PushedOut(j, p)
              \/ time - decided[j].time >= WindowSeconds
  <2>1. CASE \E p \in DOMAIN decided : PushedOut(j, p)
    BY <2>1
  <2>2. CASE \E m \in DOMAIN v : e[m] = j
    <3>1. PICK m \in DOMAIN v : e[m] = j
      BY <2>2
    <3>2. decided[j].time = v[m]
      BY <1>2, <3>1 DEF HoldsWindow, IsWindowOf
    <3>3. CASE m \in 1..d
      BY <1>5, <3>2, <3>3
    <3>4. CASE m - d \in DOMAIN w /\ (m - d) + d = m
      BY <3>1, <3>4
    <3> QED BY <1>6, <3>3, <3>4
  <2> QED BY <1>2, <1>10, <2>1, <2>2 DEF HoldsWindow
<1> HIDE DEF f
<1>11. HoldsLeft(f, k, w, time)
  BY <1>8, <1>9, <1>10, Zenon DEF HoldsLeft
<1> QED BY <1>4, <1>7, <1>11

\* A decision leaves the earlier ones as they were, and their properties.
LEMMA WindowGrows ==
    ASSUME TypesInv, NEW t \in Threads, NEW k \in Keys, NEW time \in Nat, NEW passes \in BOOLEAN,
           Decides(t, k, time, passes)
    PROVE  /\ DOMAIN decided = 1..Len(decided) /\ DOMAIN decided' = 1..(Len(decided) + 1)
           /\ Len(decided) \in Nat
           /\ \A i \in DOMAIN decided : i \in DOMAIN decided' /\ decided'[i] = decided[i] /\ i < Len(decided) + 1
           /\ \A i \in DOMAIN decided' : i \in DOMAIN decided \/ i = Len(decided) + 1
           /\ Len(decided) + 1 \in DOMAIN decided'
           /\ decided'[Len(decided) + 1] = [key |-> k, time |-> time, passes |-> passes]
<1> DEFINE n == Len(decided)
<1>1. /\ DOMAIN decided = 1..n /\ DOMAIN decided' = 1..(n + 1) /\ n \in Nat
      /\ \A i \in 1..n : decided'[i] = decided[i]
      /\ decided'[n + 1] = [key |-> k, time |-> time, passes |-> passes]
  BY DecisionIs DEF Decides
<1> HIDE DEF n
<1> QED BY <1>1 DEF n

\* deduplicate: the new time is the last one of its key.
LEMMA LastStep ==
    ASSUME FloodInv, NEW t \in Threads, NEW k \in Keys, NEW time \in Nat, NEW passes \in BOOLEAN,
           Decides(t, k, time, passes), Deduplicate(t), NEW j \in Keys \ forgotten'
    PROVE  LastInv(j)'
<1>0. PICK n : n = Len(decided) + 1
  OBVIOUS
<1>1. /\ \A i \in DOMAIN decided : i \in DOMAIN decided' /\ decided'[i] = decided[i] /\ i < n
      /\ \A i \in DOMAIN decided' : i \in DOMAIN decided \/ i = n
      /\ n \in DOMAIN decided' /\ n \in Nat
      /\ decided'[n] = [key |-> k, time |-> time, passes |-> passes]
  BY <1>0, WindowGrows DEF FloodInv
<1>2. PICK gone : LastAfter(k, time, gone)
  BY DeduplicateIs
<1>3. j \notin gone /\ j \in Keys \ forgotten
  BY <1>2 DEF LastAfter
<1>4. config.mode = "deduplicate"
  BY DeduplicateIs
<1>5. LastInv(j)
  BY <1>3, <1>4 DEF FloodInv, TableInv
<1>6. j \in DOMAIN lastSeen' <=> j \in DOMAIN lastSeen \/ j = k
  BY <1>2, <1>3 DEF LastAfter
<1>7. j \in DOMAIN lastSeen' => lastSeen'[j] = IF j = k THEN time ELSE lastSeen[j]
  BY <1>2 DEF LastAfter
<1>8. CASE j = k
  <2>1. \A i \in DOMAIN decided' : i <= n
    <3> TAKE i \in DOMAIN decided'
    <3>1. CASE i \in DOMAIN decided
      <4>1. i < n /\ i \in Nat
        BY <1>1, <3>1 DEF FloodInv, TypesInv
      <4> QED BY <1>1, <4>1
    <3> QED BY <1>1, <3>1
  <2> QED BY <1>1, <1>6, <1>7, <1>8, <2>1 DEF LastInv
<1>9. CASE j # k
  <2>1. \A i \in DOMAIN decided' : decided'[i].key = j => i \in DOMAIN decided /\ decided[i].key = j
    BY <1>1, <1>9
  <2>2. j \in DOMAIN lastSeen' <=> \E i \in DOMAIN decided' : decided'[i].key = j
    BY <1>1, <1>5, <1>6, <1>9, <2>1 DEF LastInv
  <2>3. ASSUME j \in DOMAIN lastSeen'
        PROVE  \E i \in DOMAIN decided' :
                   /\ decided'[i].key = j /\ lastSeen'[j] = decided'[i].time
                   /\ \A l \in DOMAIN decided' : decided'[l].key = j => l <= i
    <3>1. PICK i \in DOMAIN decided :
              /\ decided[i].key = j /\ lastSeen[j] = decided[i].time
              /\ \A l \in DOMAIN decided : decided[l].key = j => l <= i
      BY <1>5, <1>6, <1>9, <2>3 DEF LastInv
    <3> QED BY <1>1, <1>7, <1>9, <2>1, <2>3, <3>1
  <2> QED BY <2>2, <2>3 DEF LastInv
<1> QED BY <1>8, <1>9

\* rate_limit: the window of the key takes the record if it passes, and the other records
\* are left or pushed out.
LEMMA WindowStep ==
    ASSUME FloodInv, NEW t \in Threads, NEW k \in Keys, NEW time \in Nat, NEW passes \in BOOLEAN,
           Decides(t, k, time, passes), RateLimit(t), NEW j \in Keys \ forgotten'
    PROVE  WindowInv(j)'
<1>0. PICK n : n = Len(decided) + 1
  OBVIOUS
<1> DEFINE w == Unexpired(Stored(k), time)
<1>1. /\ \A i \in DOMAIN decided : i \in DOMAIN decided' /\ decided'[i] = decided[i] /\ i < n
      /\ \A i \in DOMAIN decided' : i \in DOMAIN decided \/ i = n
      /\ n \in DOMAIN decided' /\ n \in Nat
      /\ decided'[n] = [key |-> k, time |-> time, passes |-> passes]
  BY <1>0, WindowGrows DEF FloodInv
<1>2. PICK gone : LastAfter(k, time, gone) /\ WindowsAfter(k, time, passes, w, gone)
  BY RateLimitIs
<1>3. j \notin gone /\ j \in Keys \ forgotten
  BY <1>2 DEF LastAfter
<1>4. config.mode = "rate_limit"
  BY RateLimitIs
<1>5. WindowInv(j) /\ DOMAIN windows = DOMAIN lastSeen
  BY <1>3, <1>4 DEF FloodInv, TableInv, BoundInv, TablesAreBounded
<1>6. w \in Seq(Nat) /\
      (j = k => \E f : HoldsLeft(f, k, w, time))
  <2>1. Stored(k) \in Seq(Nat)
    BY DEF FloodInv, TypesInv, Stored
  <2>2. w \in Seq(Nat)
    BY <2>1, UnexpiredIs
  <2>3. w = Unexpired(Stored(k), time)
    OBVIOUS
  <2> HIDE DEF w
  <2> QED BY <1>3, <1>4, <2>2, <2>3, LeftIs
<1> HIDE DEF w
<1>7. /\ j \in DOMAIN lastSeen' <=> j \in DOMAIN lastSeen \/ j = k
      /\ j \in DOMAIN windows' <=> j \in DOMAIN windows \/ j = k
  BY <1>2, <1>3 DEF LastAfter, WindowsAfter
<1>8. j \in DOMAIN lastSeen' <=> \E i \in DOMAIN decided' : decided'[i].key = j
  BY <1>1, <1>5, <1>7 DEF WindowInv
<1>9. \A i, p \in DOMAIN decided : PushedOut(i, p) => PushedOut(i, p)'
  BY <1>1 DEF PushedOut
<1>10. CASE j # k
  <2>1. j \in DOMAIN windows' => j \in DOMAIN windows /\ windows'[j] = windows[j]
    BY <1>2, <1>7, <1>10 DEF WindowsAfter
  <2>2. ASSUME j \in DOMAIN windows'
        PROVE  \E e \in [DOMAIN windows'[j] -> DOMAIN decided'] :
                   /\ IsWindowOf(e, j, windows[j])'
                   /\ \A i \in DOMAIN decided' : decided'[i].key = j /\ decided'[i].passes =>
                         \/ \E m \in DOMAIN windows'[j] : e[m] = i
                         \/ \E p \in DOMAIN decided' : PushedOut(i, p)'
    <3>1. PICK e \in [DOMAIN windows[j] -> DOMAIN decided] :
              /\ IsWindowOf(e, j, windows[j])
              /\ \A i \in DOMAIN decided : decided[i].key = j /\ decided[i].passes =>
                    \/ \E m \in DOMAIN windows[j] : e[m] = i
                    \/ \E p \in DOMAIN decided : PushedOut(i, p)
      BY <1>5, <2>1, <2>2 DEF WindowInv
    <3>2. e \in [DOMAIN windows'[j] -> DOMAIN decided']
      BY <1>1, <2>1, <2>2
    <3>3. IsWindowOf(e, j, windows[j])'
      BY <1>1, <2>1, <2>2, <3>1 DEF IsWindowOf
    <3>4. \A i \in DOMAIN decided' : decided'[i].key = j => i \in DOMAIN decided /\ decided[i] = decided'[i]
      BY <1>1, <1>10
    <3>5. \A i \in DOMAIN decided' : decided'[i].key = j /\ decided'[i].passes =>
              \/ \E m \in DOMAIN windows'[j] : e[m] = i
              \/ \E p \in DOMAIN decided' : PushedOut(i, p)'
      <4> SUFFICES ASSUME NEW i \in DOMAIN decided, decided[i].key = j, decided[i].passes
                   PROVE  \/ \E m \in DOMAIN windows'[j] : e[m] = i
                          \/ \E p \in DOMAIN decided' : PushedOut(i, p)'
        BY <3>4
      <4> QED BY <1>1, <1>9, <2>1, <2>2, <3>1
    <3> QED BY <3>2, <3>3, <3>5
  <2> QED BY <1>8, <2>2 DEF WindowInv
<1>11. CASE j = k
  <2>1. PICK f : /\ f \in [DOMAIN w -> DOMAIN decided]
                 /\ IsWindowOf(f, k, w)
                 /\ \A i \in DOMAIN decided : decided[i].key = k /\ decided[i].passes =>
                       \/ \E m \in DOMAIN w : f[m] = i
                       \/ \E p \in DOMAIN decided : PushedOut(i, p)
                       \/ time - decided[i].time >= WindowSeconds
    BY <1>6, <1>11 DEF HoldsLeft
  <2> DEFINE x == windows'[k]
  <2>0. PICK e : e = [m \in DOMAIN x |-> IF m \in DOMAIN w THEN f[m] ELSE n]
    OBVIOUS
  <2>2. x = IF passes THEN Append(w, time) ELSE w
    BY <1>2, <1>7, <1>11 DEF WindowsAfter
  <2>3. /\ DOMAIN w = 1..Len(w) /\ Len(w) \in Nat
        /\ DOMAIN x = IF passes THEN 1..(Len(w) + 1) ELSE 1..Len(w)
        /\ \A m \in 1..Len(w) : x[m] = w[m]
        /\ passes => x[Len(w) + 1] = time
    <3>1. /\ Append(w, time) \in Seq(Nat) /\ Len(Append(w, time)) = Len(w) + 1
          /\ \A m \in 1..Len(w) : Append(w, time)[m] = w[m]
          /\ Append(w, time)[Len(w) + 1] = time
      BY <1>6, AppendProperties
    <3>2. DOMAIN w = 1..Len(w) /\ Len(w) \in Nat /\ DOMAIN Append(w, time) = 1..(Len(w) + 1)
      BY <1>6, <3>1
    <3> HIDE DEF x
    <3> QED BY <2>2, <3>1, <3>2
  <2> HIDE DEF x
  <2>4. \A m \in DOMAIN x : m \in DOMAIN w \/ (passes /\ m = Len(w) + 1 /\ m \notin DOMAIN w)
    BY <2>3
  <2>5. e \in [DOMAIN x -> DOMAIN decided']
    BY <1>1, <2>1, <2>0
  <2>6. ASSUME NEW m \in DOMAIN x
        PROVE  /\ e[m] \in DOMAIN decided'
               /\ decided'[e[m]].key = k /\ decided'[e[m]].passes /\ decided'[e[m]].time = x[m]
    <3>1. CASE m \in DOMAIN w
      <4>1. e[m] = f[m] /\ x[m] = w[m] /\ f[m] \in DOMAIN decided
        BY <2>1, <2>3, <2>0, <3>1
      <4> QED BY <1>1, <2>1, <3>1, <4>1 DEF IsWindowOf
    <3>2. CASE m = Len(w) + 1 /\ passes /\ m \notin DOMAIN w
      <4>1. e[m] = n /\ x[m] = time
        BY <2>3, <2>0, <3>2
      <4> QED BY <1>1, <3>2, <4>1
    <3> QED BY <2>4, <3>1, <3>2
  <2>7. ASSUME NEW m \in DOMAIN x, NEW l \in DOMAIN x, m < l PROVE e[m] < e[l]
    <3>1. m \in DOMAIN w
      BY <2>3, <2>4, <2>7
    <3>2. e[m] = f[m] /\ f[m] \in DOMAIN decided
      BY <2>1, <2>0, <3>1
    <3>3. CASE l \in DOMAIN w
      BY <2>1, <2>7, <2>0, <3>1, <3>2, <3>3 DEF IsWindowOf
    <3>4. CASE l \notin DOMAIN w
      BY <1>1, <2>0, <3>2, <3>4
    <3> QED BY <3>3, <3>4
  <2>8. IsWindowOf(e, k, windows[k])'
    BY <2>6, <2>7, Zenon DEF IsWindowOf, x
  <2>9. ASSUME NEW i \in DOMAIN decided', decided'[i].key = k, decided'[i].passes
        PROVE  \/ \E m \in DOMAIN x : e[m] = i
               \/ \E p \in DOMAIN decided' : PushedOut(i, p)'
    <3>1. CASE i = n
      <4>1. passes /\ Len(w) + 1 \in DOMAIN x /\ Len(w) + 1 \notin DOMAIN w
        BY <1>1, <2>3, <2>9, <3>1
      <4>2. e[Len(w) + 1] = n
        BY <2>0, <4>1
      <4> QED BY <3>1, <4>1, <4>2
    <3>2. CASE i \in DOMAIN decided
      <4>1. decided[i].key = k /\ decided[i].passes
        BY <1>1, <2>9, <3>2
      <4>2. CASE \E m \in DOMAIN w : f[m] = i
        <5>1. PICK m \in DOMAIN w : f[m] = i
          BY <4>2
        <5>2. m \in DOMAIN x
          BY <2>3
        <5> QED BY <2>0, <5>1, <5>2
      <4>3. CASE \E p \in DOMAIN decided : PushedOut(i, p)
        BY <1>1, <1>9, <3>2, <4>3
      <4>4. CASE time - decided[i].time >= WindowSeconds
        <5>1. PushedOut(i, n)'
          BY <1>1, <3>2, <4>1, <4>4 DEF PushedOut
        <5> QED BY <1>1, <5>1
      <4> QED BY <2>1, <3>2, <4>1, <4>2, <4>3, <4>4
    <3> QED BY <1>1, <3>1, <3>2
  <2> QED BY <1>8, <1>11, <2>5, <2>8, <2>9 DEF WindowInv, x
<1> QED BY <1>10, <1>11

\* The records of a key are in order before a decision if they are with it.
LEMMA OrderIs ==
    ASSUME FloodInv, NEW t \in Threads, NEW k \in Keys, NEW time \in Nat, NEW passes \in BOOLEAN,
           Decides(t, k, time, passes), NEW n, n = Len(decided) + 1
    PROVE  /\ n \in DOMAIN decided' /\ decided'[n].key = k /\ decided'[n].time = time
           /\ decided'[n].passes = passes
           /\ Earlier(n)' = {j \in DOMAIN decided : decided[j].key = k}
           /\ \A j \in DOMAIN decided : Within(n, j)' <=> time - decided[j].time < WindowSeconds
           /\ \A j \in DOMAIN decided : decided'[j] = decided[j] /\ j \in Nat /\ decided[j].time \in Nat
           /\ InOrder(n)' =>
                 \A j, l \in DOMAIN decided : decided[j].key = k /\ decided[l].key = k =>
                     /\ decided[j].time <= time
                     /\ j <= l => decided[j].time <= decided[l].time
<1>1. /\ DOMAIN decided = 1..(n - 1) /\ n \in Nat /\ n \in DOMAIN decided'
      /\ \A i \in DOMAIN decided : i \in DOMAIN decided' /\ decided'[i] = decided[i] /\ i < n
      /\ decided'[n] = [key |-> k, time |-> time, passes |-> passes]
  BY WindowGrows DEF FloodInv
<1>2. \A j \in DOMAIN decided : decided[j] \in DecidedType
  BY DEF FloodInv, TypesInv
<1>3. \A j \in DOMAIN decided : j \in Nat /\ decided[j].time \in Nat
  BY <1>1, <1>2 DEF DecidedType
<1>4. Earlier(n)' = {j \in DOMAIN decided : decided[j].key = k}
  BY <1>1 DEF Earlier
<1>5. ASSUME InOrder(n)', NEW j \in DOMAIN decided, NEW l \in DOMAIN decided,
             decided[j].key = k, decided[l].key = k
      PROVE  /\ decided[j].time <= time
             /\ j <= l => decided[j].time <= decided[l].time
  <2>1. j \in Earlier(n)' /\ l \in Earlier(n)' /\ j < n
    BY <1>1, <1>4, <1>5
  <2>2. decided'[j].time <= decided'[n].time /\ (j < l => decided'[j].time <= decided'[l].time)
    BY <1>5, <2>1 DEF InOrder
  <2>3. decided[j].time <= decided[j].time
    BY <1>3
  <2>4. j <= l => j < l \/ j = l
    BY <1>3
  <2> QED BY <1>1, <2>2, <2>3, <2>4
<1>6. \A j \in DOMAIN decided : Within(n, j)' <=> time - decided[j].time < WindowSeconds
  BY <1>1 DEF Within
<1> QED BY <1>1, <1>3, <1>4, <1>5, <1>6

\* deduplicate: the new record passes unless one was decided in the window before it.
LEMMA DecidesDeduplicate ==
    ASSUME FloodInv, NEW t \in Threads, NEW k \in Keys \ forgotten', NEW time \in Nat, NEW passes \in BOOLEAN,
           Decides(t, k, time, passes), Deduplicate(t), NEW n, n = Len(decided) + 1, InOrder(n)'
    PROVE  passes <=> ~\E j \in Earlier(n)' : Within(n, j)'
<1>1. /\ Earlier(n)' = {j \in DOMAIN decided : decided[j].key = k}
      /\ \A j \in DOMAIN decided : Within(n, j)' <=> time - decided[j].time < WindowSeconds
      /\ \A j \in DOMAIN decided : decided[j].time \in Nat
      /\ \A j, l \in DOMAIN decided : decided[j].key = k /\ decided[l].key = k /\ j <= l =>
              decided[j].time <= decided[l].time
  BY OrderIs
<1>2. passes <=> k \notin DOMAIN lastSeen \/ time - lastSeen[k] >= WindowSeconds
  BY DeduplicateIs
<1>3. k \in Keys \ forgotten /\ config.mode = "deduplicate"
  BY DeduplicateIs, ZenonT(40) DEF LastAfter
<1>4. LastInv(k)
  BY <1>3 DEF FloodInv, TableInv
<1>5. CASE k \notin DOMAIN lastSeen
  BY <1>1, <1>2, <1>4, <1>5 DEF LastInv
<1>6. CASE k \in DOMAIN lastSeen
  <2>1. PICK j \in DOMAIN decided :
           /\ decided[j].key = k /\ lastSeen[k] = decided[j].time
           /\ \A l \in DOMAIN decided : decided[l].key = k => l <= j
    BY <1>4, <1>6 DEF LastInv
  <2>2. passes <=> time - decided[j].time >= WindowSeconds
    BY <1>2, <1>6, <2>1
  <2>3. WindowSeconds \in Nat
    BY FloodAssumption
  <2>4. CASE passes
    <3>1. ASSUME NEW l \in DOMAIN decided, decided[l].key = k PROVE ~(time - decided[l].time < WindowSeconds)
      <4>1. decided[l].time <= decided[j].time /\ decided[l].time \in Nat /\ decided[j].time \in Nat
        BY <1>1, <2>1, <3>1
      <4> QED BY <2>2, <2>3, <2>4, <4>1
    <3> QED BY <1>1, <2>4, <3>1
  <2>5. CASE ~passes
    <3>1. time - decided[j].time < WindowSeconds
      <4>1. decided[j].time \in Nat
        BY <1>1
      <4> QED BY <2>2, <2>3, <2>5, <4>1
    <3> QED BY <1>1, <2>1, <2>5, <3>1
  <2> QED BY <2>4, <2>5
<1> QED BY <1>5, <1>6

\* A window has as many times as records.
LEMMA WindowSize ==
    ASSUME NEW f, NEW k, NEW w \in Seq(Nat), IsWindowOf(f, k, w), \A i \in DOMAIN decided : i \in Nat
    PROVE  LET S == {f[m] : m \in DOMAIN w} IN IsFiniteSet(S) /\ Cardinality(S) = Len(w)
<1> DEFINE S == {f[m] : m \in 1..Len(w)}
           g == [m \in 1..Len(w) |-> f[m]]
<1>1. Len(w) \in Nat /\ DOMAIN w = 1..Len(w)
  OBVIOUS
<1>2. ASSUME NEW m \in 1..Len(w), NEW l \in 1..Len(w), f[m] = f[l] PROVE m = l
  <2>1. ASSUME NEW a \in 1..Len(w), NEW b \in 1..Len(w), a < b PROVE f[a] # f[b]
    <3>1. f[a] < f[b] /\ f[a] \in Nat
      BY <1>1, <2>1 DEF IsWindowOf
    <3> QED BY <3>1
  <2>2. m < l \/ l < m \/ m = l
    BY <1>1
  <2> QED BY <1>2, <2>1, <2>2
<1>3. g \in Bijection(1..Len(w), S)
  BY <1>2 DEF Bijection, Injection, Surjection, IsInjective
<1>4. IsFiniteSet(1..Len(w)) /\ Cardinality(1..Len(w)) = Len(w)
  <2>1. IsFiniteSet(1..Len(w)) /\ Cardinality(1..Len(w)) = IF 1 > Len(w) THEN 0 ELSE Len(w) - 1 + 1
    BY <1>1, FS_Interval
  <2> QED BY <1>1, <2>1
<1>5. IsFiniteSet(S) /\ Cardinality(S) = Len(w)
  <2>1. ExistsBijection(1..Len(w), S)
    BY <1>3, Zenon DEF ExistsBijection
  <2> HIDE DEF S, g
  <2> QED BY <1>4, <2>1, FS_Bijection
<1> QED BY <1>1, <1>5

\* rate_limit: the records of the window that passed are those that are left of it.
LEMMA DecidesRateLimit ==
    ASSUME FloodInv, NEW t \in Threads, NEW k \in Keys \ forgotten', NEW time \in Nat, NEW passes \in BOOLEAN,
           Decides(t, k, time, passes), RateLimit(t), NEW n, n = Len(decided) + 1, InOrder(n)'
    PROVE  passes <=> Cardinality({j \in Earlier(n)' : Within(n, j)' /\ decided'[j].passes}) < config.quota
<1> DEFINE w == Unexpired(Stored(k), time)
           S == {j \in Earlier(n)' : Within(n, j)' /\ decided'[j].passes}
<1>1. /\ Earlier(n)' = {j \in DOMAIN decided : decided[j].key = k}
      /\ \A j \in DOMAIN decided : Within(n, j)' <=> time - decided[j].time < WindowSeconds
      /\ \A j \in DOMAIN decided : decided'[j] = decided[j] /\ j \in Nat /\ decided[j].time \in Nat
      /\ \A j, l \in DOMAIN decided : decided[j].key = k /\ decided[l].key = k =>
              /\ decided[j].time <= time
              /\ j <= l => decided[j].time <= decided[l].time
  BY OrderIs
<1>2. /\ passes <=> Len(w) < config.quota
      /\ config.mode = "rate_limit" /\ k \in Keys \ forgotten
  <2>1. /\ passes <=> Len(w) < config.quota
        /\ config.mode = "rate_limit"
    BY RateLimitIs
  <2>2. \E gone : LastAfter(k, time, gone)
    BY RateLimitIs
  <2> HIDE DEF w
  <2> QED BY <2>1, <2>2 DEF LastAfter
<1>3. w = Unexpired(Stored(k), time)
  OBVIOUS
<1> HIDE DEF w
<1>4. w \in Seq(Nat) /\ (w # <<>> => time - w[1] < WindowSeconds)
  BY <1>2, <1>3, LeftIs
<1>5. PICK f : /\ f \in [DOMAIN w -> DOMAIN decided]
               /\ IsWindowOf(f, k, w)
               /\ \A j \in DOMAIN decided : decided[j].key = k /\ decided[j].passes =>
                     \/ \E m \in DOMAIN w : f[m] = j
                     \/ \E p \in DOMAIN decided : PushedOut(j, p)
                     \/ time - decided[j].time >= WindowSeconds
  <2>1. \E f : HoldsLeft(f, k, w, time)
    BY <1>2, <1>3, LeftIs
  <2> QED BY <2>1 DEF HoldsLeft
<1>6. WindowSeconds \in Nat /\ DOMAIN w = 1..Len(w) /\ Len(w) \in Nat
  BY <1>4, FloodAssumption
<1>7. ASSUME NEW m \in DOMAIN w PROVE f[m] \in S
  <2>1. /\ f[m] \in DOMAIN decided /\ decided[f[m]].key = k /\ decided[f[m]].passes
        /\ decided[f[m]].time = w[m]
    BY <1>5 DEF IsWindowOf
  <2>2. /\ 1 \in DOMAIN w /\ (m = 1 \/ 1 < m) /\ time - w[1] < WindowSeconds
    <3>1. Len(w) # 0
      BY <1>6
    <3>2. w # <<>>
      BY <3>1
    <3> QED BY <1>4, <1>6, <3>1, <3>2
  <2>3. f[1] <= f[m] /\ f[1] \in DOMAIN decided /\ decided[f[1]].key = k /\ decided[f[1]].time = w[1]
    BY <1>1, <1>5, <2>2 DEF IsWindowOf
  <2>4. w[1] <= w[m] /\ w[1] \in Nat /\ w[m] \in Nat
    BY <1>1, <2>1, <2>3
  <2>5. time - w[m] < WindowSeconds
    BY <1>6, <2>2, <2>4
  <2> QED BY <1>1, <2>1, <2>5
<1>8. ASSUME NEW j \in S PROVE \E m \in DOMAIN w : f[m] = j
  <2>1. /\ j \in DOMAIN decided /\ decided[j].key = k /\ decided[j].passes
        /\ time - decided[j].time < WindowSeconds /\ decided[j].time \in Nat
    BY <1>1
  <2>2. ASSUME NEW p \in DOMAIN decided, PushedOut(j, p) PROVE FALSE
    <3>1. decided[p].key = k /\ decided[p].time - decided[j].time >= WindowSeconds
      BY <2>1, <2>2 DEF PushedOut
    <3>2. decided[p].time <= time /\ decided[p].time \in Nat
      BY <1>1, <3>1
    <3> QED BY <1>6, <2>1, <3>1, <3>2
  <2>3. ~(time - decided[j].time >= WindowSeconds)
    BY <1>6, <2>1
  <2> QED BY <1>5, <2>1, <2>2, <2>3
<1>9. S = {f[m] : m \in DOMAIN w}
  <2> HIDE DEF S
  <2> QED BY <1>7, <1>8
<1>10. Cardinality(S) = Len(w)
  <2> HIDE DEF S
  <2> QED BY <1>1, <1>4, <1>5, <1>9, WindowSize, ZenonT(40)
<1> QED BY <1>2, <1>10

LEMMA DecidesStep ==
    ASSUME FloodInv, NEW t \in Threads, NEW k \in Keys, NEW time \in Nat, NEW passes \in BOOLEAN,
           Decides(t, k, time, passes)
    PROVE  DecidesByWindow'
<1>0. PICK n : n = Len(decided) + 1
  OBVIOUS
<1>1. config' = config /\ forgotten \subseteq forgotten'
  <2>1. config' = config
    BY DEF Decides
  <2>2. forgotten \subseteq forgotten'
    BY RateLimitIs, DeduplicateIs, ZenonT(40) DEF Decides, LastAfter
  <2> QED BY <2>1, <2>2
<1> DEFINE Right(i) ==
        /\ config.mode = "rate_limit" =>
              (decided[i].passes <=>
                  Cardinality({j \in Earlier(i) : Within(i, j) /\ decided[j].passes}) < config.quota)
        /\ config.mode = "deduplicate" =>
              (decided[i].passes <=> ~\E j \in Earlier(i) : Within(i, j))
<1>2. ASSUME NEW i \in DOMAIN decided, InOrder(i)', decided'[i].key \notin forgotten' PROVE Right(i)'
  <2>1. /\ Earlier(i)' = Earlier(i)
        /\ InOrder(i)' <=> InOrder(i)
        /\ \A j \in Earlier(i) : Within(i, j)' <=> Within(i, j)
    BY PastIs DEF FloodInv
  <2>2. \A j \in DOMAIN decided : decided'[j] = decided[j]
    BY WindowGrows DEF FloodInv
  <2>3. Earlier(i) \subseteq DOMAIN decided
    BY WindowGrows DEF FloodInv, Earlier
  <2>4. Right(i)
    BY <1>1, <1>2, <2>1, <2>2 DEF FloodInv, DecidesByWindow
  <2>5. {j \in Earlier(i)' : Within(i, j)' /\ decided'[j].passes}
           = {j \in Earlier(i) : Within(i, j) /\ decided[j].passes}
    BY <2>1, <2>2, <2>3
  <2>6. (\E j \in Earlier(i)' : Within(i, j)') <=> \E j \in Earlier(i) : Within(i, j)
    BY <2>1
  <2> QED BY <1>1, <2>2, <2>4, <2>5, <2>6
<1>3. ASSUME InOrder(n)', decided'[n].key \notin forgotten' PROVE Right(n)'
  <2>1. /\ decided'[n].key = k
        /\ decided'[n].passes <=> passes
    <3>1. decided'[n] = [key |-> k, time |-> time, passes |-> passes]
      BY <1>0, WindowGrows DEF FloodInv
    <3> QED BY <3>1
  <2>2. CASE RateLimit(t)
    <3>1. config.mode = "rate_limit"
      BY <2>2, RateLimitIs
    <3>2. passes <=> Cardinality({j \in Earlier(n)' : Within(n, j)' /\ decided'[j].passes}) < config.quota
      BY <1>0, <1>3, <2>1, <2>2, DecidesRateLimit
    <3> QED BY <1>1, <2>1, <3>1, <3>2
  <2>3. CASE Deduplicate(t)
    <3>1. config.mode = "deduplicate"
      BY <2>3, DeduplicateIs
    <3>2. passes <=> ~\E j \in Earlier(n)' : Within(n, j)'
      BY <1>0, <1>3, <2>1, <2>3, DecidesDeduplicate
    <3> QED BY <1>1, <2>1, <3>1, <3>2
  <2>4. CASE config.mode = "context_info_suppression"
    BY <1>1, <2>4
  <2> QED BY <2>2, <2>3, <2>4 DEF Decides
<1>4. \A i \in DOMAIN decided' : i \in DOMAIN decided \/ i = n
  BY <1>0, WindowGrows DEF FloodInv
<1> QED BY <1>2, <1>3, <1>4 DEF DecidesByWindow

-----------------------------------------------------------------------------
(* The limit *)

LEMMA LimitTypes ==
    ASSUME TypesInv, NEW k, NEW start
    PROVE  /\ IsFiniteSet(Inside(k, start)) /\ Cardinality(Inside(k, start)) \in Nat
           /\ Overtaken(k, start) \subseteq Threads /\ IsFiniteSet(Overtaken(k, start))
           /\ Cardinality(Overtaken(k, start)) \in Nat /\ Cardinality(Threads) \in Nat
           /\ config.quota \in Nat
<1>1. Len(decided) \in Nat /\ DOMAIN decided = 1..Len(decided) /\ IsFiniteSet(1..Len(decided))
  <2>1. Len(decided) \in Nat /\ DOMAIN decided = 1..Len(decided)
    BY DEF TypesInv
  <2> QED BY <2>1, FS_Interval
<1>2. Inside(k, start) \subseteq 1..Len(decided)
  BY <1>1 DEF Inside
<1>3. Overtaken(k, start) \subseteq Threads
  BY DEF Overtaken
<1>4. config.quota \in Nat
  BY DEF TypesInv
<1>5. IsFiniteSet(Inside(k, start)) /\ IsFiniteSet(Overtaken(k, start)) /\ IsFiniteSet(Threads)
  BY <1>1, <1>2, <1>3, FS_Subset, FloodAssumption
<1> QED BY <1>3, <1>4, <1>5, FS_CardinalityType

\* One state to the next of a key that no decision is about: no thread joins those
\* overtaken once a record of a later window was decided.
LEMMA LimitSame ==
    ASSUME FloodInv, TypesInv', config.mode = "rate_limit", config' = config,
           NEW k \in Keys \ forgotten, NEW start \in Time,
           Inside(k, start)' = Inside(k, start), Beyond(k, start)' = Beyond(k, start),
           Beyond(k, start) = {} \/ Overtaken(k, start)' \subseteq Overtaken(k, start)
    PROVE  IF Beyond(k, start)' = {}
           THEN Cardinality(Inside(k, start)') <= config.quota
           ELSE Cardinality(Inside(k, start)') + Cardinality(Overtaken(k, start)')
                   <= config.quota + Cardinality(Threads) - 1
<1>1. IF Beyond(k, start) = {}
      THEN Cardinality(Inside(k, start)) <= config.quota
      ELSE Cardinality(Inside(k, start)) + Cardinality(Overtaken(k, start))
              <= config.quota + Cardinality(Threads) - 1
  BY DEF FloodInv, LimitInv
<1>2. CASE Beyond(k, start) = {}
  BY <1>1, <1>2
<1>3. CASE Beyond(k, start) # {}
  <2> DEFINE a == Cardinality(Inside(k, start))
             b == Cardinality(Overtaken(k, start))
             c == Cardinality(Overtaken(k, start)')
             d == config.quota
             e == Cardinality(Threads)
  <2>1. Overtaken(k, start)' \subseteq Overtaken(k, start) /\ IsFiniteSet(Overtaken(k, start))
    BY <1>3, LimitTypes DEF FloodInv
  <2>2. IsFiniteSet(Overtaken(k, start)') /\ c <= b
    BY <2>1, FS_Subset
  <2>3. c \in Nat
    BY <2>2, FS_CardinalityType
  <2>4. a \in Nat /\ b \in Nat /\ d \in Nat /\ e \in Nat
    BY LimitTypes DEF FloodInv
  <2>5. a + b <= d + e - 1
    BY <1>1, <1>3
  <2>6. a + c <= d + e - 1
    <3> HIDE DEF a, b, c, d, e
    <3> QED BY <2>2, <2>3, <2>4, <2>5
  <2> QED BY <1>3, <2>6
<1> QED BY <1>2, <1>3

\* As long as no record of a later window is decided, what passed in the window is left
\* of it at the time of the next record.
LEMMA InsideIsLeft ==
    ASSUME FloodInv, config.mode = "rate_limit", NEW k \in Keys \ forgotten, NEW start \in Time,
           NEW time \in Nat, time < start + WindowSeconds, Beyond(k, start) = {},
           NEW w, w = Unexpired(Stored(k), time)
    PROVE  Len(w) \in Nat /\ Cardinality(Inside(k, start)) <= Len(w)
<1>1. w \in Seq(Nat)
  BY LeftIs
<1>2. PICK f : HoldsLeft(f, k, w, time)
  BY LeftIs
<1> DEFINE S == {f[m] : m \in DOMAIN w}
<1>3. \A i \in DOMAIN decided : i \in Nat /\ decided[i].time \in Nat
  <2>1. decided \in Seq(DecidedType)
    BY DEF FloodInv, TypesInv
  <2>2. \A i \in DOMAIN decided : i \in Nat /\ decided[i] \in DecidedType
    BY <2>1
  <2> QED BY <2>2 DEF DecidedType
<1>4. IsFiniteSet(S) /\ Cardinality(S) = Len(w)
  BY <1>1, <1>2, <1>3, WindowSize DEF HoldsLeft
<1>5. WindowSeconds \in Nat /\ start \in Nat
  BY FloodAssumption DEF Time
<1>6. ASSUME NEW j \in Inside(k, start) PROVE j \in S
  <2>1. /\ j \in DOMAIN decided /\ decided[j].key = k /\ decided[j].passes
        /\ decided[j].time >= start /\ decided[j].time \in Nat
    BY <1>3, <1>5 DEF Inside
  <2>2. ASSUME NEW p \in DOMAIN decided, PushedOut(j, p) PROVE FALSE
    <3>1. decided[p].key = k /\ decided[p].time - decided[j].time >= WindowSeconds /\ decided[p].time \in Nat
      BY <1>3, <2>1, <2>2 DEF PushedOut
    <3>2. decided[p].time >= start + WindowSeconds
      BY <1>5, <2>1, <3>1
    <3> QED BY <3>1, <3>2 DEF Beyond
  <2>3. ~(time - decided[j].time >= WindowSeconds)
    BY <1>5, <2>1
  <2> QED BY <1>2, <2>1, <2>2, <2>3 DEF HoldsLeft
<1> HIDE DEF S
<1>7. Cardinality(Inside(k, start)) <= Cardinality(S)
  BY <1>4, <1>6, FS_Subset
<1>8. Len(w) \in Nat
  BY <1>1
<1> QED BY <1>4, <1>7, <1>8

\* A decision: the quota is kept, or one thread fewer is overtaken.
LEMMA LimitDecide ==
    ASSUME FloodInv, TypesInv', NEW t \in Threads, NEW k \in Keys, NEW time \in Nat, NEW passes \in BOOLEAN,
           Decides(t, k, time, passes), RateLimit(t), NEW j \in Keys \ forgotten', NEW start \in Time
    PROVE  IF Beyond(j, start)' = {}
           THEN Cardinality(Inside(j, start)') <= config.quota
           ELSE Cardinality(Inside(j, start)') + Cardinality(Overtaken(j, start)')
                   <= config.quota + Cardinality(Threads) - 1
<1>0. PICK n : n = Len(decided) + 1
  OBVIOUS
<1>1. /\ \A i \in DOMAIN decided : i \in DOMAIN decided' /\ decided'[i] = decided[i] /\ i # n
      /\ \A i \in DOMAIN decided' : i \in DOMAIN decided \/ i = n
      /\ n \in DOMAIN decided'
      /\ decided'[n] = [key |-> k, time |-> time, passes |-> passes]
  BY <1>0, WindowGrows DEF FloodInv
<1>2. /\ thread[t].at = "decide" /\ thread[t].key = k /\ thread[t].time = time
      /\ thread'[t].at # "decide" /\ \A s \in Threads : s # t => thread'[s] = thread[s]
      /\ config' = config
  <2>1. /\ thread'[t].at # "decide" /\ \A s \in Threads : s # t => thread'[s] = thread[s]
    <3>1. Decision(t, k, time, passes) /\ time <= now /\ TypesInv
      BY DEF Decides, FloodInv
    <3>2. /\ \A s \in Threads : s # t => thread'[s] = thread[s]
          /\ IF passes \/ ~config.emitSummary THEN thread'[t].at = "idle"
             ELSE thread'[t].at = "count" /\ thread'[t].key = k
      BY <3>1, DecisionIs, ZenonT(40)
    <3> QED BY <3>2
  <2>2. thread[t].at = "decide" /\ thread[t].key = k /\ thread[t].time = time /\ config' = config
    BY DEF Decides, RateLimit
  <2> QED BY <2>1, <2>2
<1>3. config.mode = "rate_limit" /\ j \in Keys \ forgotten
  <2>1. \E gone : LastAfter(k, time, gone)
    BY RateLimitIs
  <2> QED BY <2>1, RateLimitIs DEF LastAfter
<1>4. PICK w : w = Unexpired(Stored(k), time)
  OBVIOUS
<1>5. passes <=> Len(w) < config.quota
  BY <1>4, RateLimitIs
<1>6. CASE j # k
  <2>1. Inside(j, start)' = Inside(j, start) /\ Beyond(j, start)' = Beyond(j, start)
    BY <1>1, <1>6 DEF Inside, Beyond
  <2>2. Overtaken(j, start)' \subseteq Overtaken(j, start)
    BY <1>2 DEF Overtaken
  <2> QED BY <1>2, <1>3, <2>1, <2>2, LimitSame
<1>7. CASE j = k
  <2> DEFINE isInside == passes /\ time \in start..(start + WindowSeconds - 1)
             I == Inside(k, start)
             I2 == Inside(k, start)'
             O == Overtaken(k, start)
             O2 == Overtaken(k, start)'
             B == Beyond(k, start)
             B2 == Beyond(k, start)'
  <2>1. /\ I2 = IF isInside THEN I \cup {n} ELSE I
        /\ n \notin I
    <3>1. n \notin I
      BY <1>1 DEF Inside
    <3>2. I2 = IF isInside THEN I \cup {n} ELSE I
      BY <1>1 DEF Inside
    <3> QED BY <3>1, <3>2
  <2>2. B2 = IF time >= start + WindowSeconds THEN B \cup {n} ELSE B
    BY <1>1 DEF Beyond
  <2>3. O2 = O \ {t} /\ (time < start + WindowSeconds => t \in O)
    BY <1>2 DEF Overtaken
  <2>4. IF B = {} THEN Cardinality(I) <= config.quota
        ELSE Cardinality(I) + Cardinality(O) <= config.quota + Cardinality(Threads) - 1
    BY <1>3, <1>7 DEF FloodInv, LimitInv
  <2>5. /\ IsFiniteSet(I) /\ Cardinality(I) \in Nat
        /\ O \subseteq Threads /\ IsFiniteSet(O) /\ Cardinality(O) \in Nat /\ Cardinality(Threads) \in Nat
        /\ config.quota \in Nat
    BY LimitTypes DEF FloodInv
  <2>6. WindowSeconds \in Nat /\ start \in Nat /\ IsFiniteSet(Threads)
    BY FloodAssumption DEF Time
  <2>7. B = {} /\ time < start + WindowSeconds => Len(w) \in Nat /\ Cardinality(I) <= Len(w)
    BY <1>3, <1>4, <1>7, InsideIsLeft
  <2>8. Cardinality(I2) = Cardinality(I) + IF isInside THEN 1 ELSE 0
    <3> HIDE DEF isInside, I, I2
    <3>1. Cardinality(I \cup {n}) = Cardinality(I) + 1
      BY <2>1, <2>5, FS_AddElement
    <3> QED BY <2>1, <2>5, <3>1
  <2>9. isInside => passes /\ time < start + WindowSeconds
    BY <2>6
  <2>10. Cardinality(O2) \in Nat /\ Cardinality(O2) <= Cardinality(O)
         /\ (t \in O => Cardinality(O2) = Cardinality(O) - 1)
         /\ Cardinality(O2) <= Cardinality(Threads) - 1
    <3> HIDE DEF O, O2
    <3>1. IsFiniteSet(O2) /\ Cardinality(O2) \in Nat /\ Cardinality(O2) <= Cardinality(O)
      BY <2>3, <2>5, FS_Subset, FS_CardinalityType
    <3>2. t \in O => Cardinality(O2) = Cardinality(O) - 1
      BY <2>3, <2>5, FS_RemoveElement
    <3>3. O2 \subseteq Threads \ {t} /\ Cardinality(Threads \ {t}) = Cardinality(Threads) - 1
          /\ IsFiniteSet(Threads \ {t})
      BY <2>3, <2>5, <2>6, FS_RemoveElement
    <3>4. Cardinality(O2) <= Cardinality(Threads \ {t})
      BY <3>3, FS_Subset
    <3> QED BY <3>1, <3>2, <3>3, <3>4
  <2> DEFINE a == Cardinality(I)
             b == Cardinality(I2)
             o == Cardinality(O)
             p == Cardinality(O2)
             q == config.quota
             c == Cardinality(Threads)
  <2>11. /\ a \in Nat /\ o \in Nat /\ p \in Nat /\ q \in Nat /\ c \in Nat
         /\ b = a + IF isInside THEN 1 ELSE 0
         /\ B = {} => a <= q
         /\ B # {} => a + o <= q + c - 1
         /\ p <= o /\ p <= c - 1 /\ (t \in O => p = o - 1)
    BY <2>4, <2>5, <2>8, <2>10
  <2> HIDE DEF a, b, o, p, q, c, I, I2, O, O2, isInside
  <2>12. CASE time < start + WindowSeconds
    <3>1. B2 = B /\ t \in O
      BY <2>2, <2>3, <2>6, <2>12
    <3>2. CASE B = {}
      <4>1. isInside => a < q
        BY <1>5, <2>7, <2>9, <2>11, <2>12, <3>2 DEF a, q
      <4>2. b <= q
        BY <2>11, <3>2, <4>1
      <4> QED BY <1>7, <3>1, <3>2, <4>2 DEF b, q, I2
    <3>3. CASE B # {}
      <4>1. b + p <= q + c - 1
        BY <2>11, <3>1, <3>3
      <4> QED BY <1>7, <3>1, <3>3, <4>1 DEF b, p, q, c, I2, O2
    <3> QED BY <3>2, <3>3
  <2>13. CASE time >= start + WindowSeconds
    <3>1. B2 # {} /\ ~isInside
      BY <2>2, <2>6, <2>9, <2>13
    <3>2. b = a
      BY <2>11, <3>1
    <3>3. b + p <= q + c - 1
      BY <2>11, <3>2
    <3> QED BY <1>7, <3>1, <3>3 DEF b, p, q, c, I2, O2
  <2> QED BY <2>6, <2>12, <2>13
<1> QED BY <1>6, <1>7

-----------------------------------------------------------------------------
(* The steps *)

LEMMA TableStep ==
    ASSUME FloodInv, NEW t \in Threads, NEW k \in Keys, NEW time \in Nat, NEW passes \in BOOLEAN,
           Decides(t, k, time, passes)
    PROVE  TableInv'
<1>1. config' = config
  BY DEF Decides
<1>2. CASE RateLimit(t)
  <2>1. config.mode = "rate_limit"
    BY <1>2, RateLimitIs
  <2> QED BY <1>1, <1>2, <2>1, WindowStep DEF TableInv
<1>3. CASE Deduplicate(t)
  <2>1. config.mode = "deduplicate"
    BY <1>3, DeduplicateIs
  <2> QED BY <1>1, <1>3, <2>1, LastStep DEF TableInv
<1>4. CASE config.mode = "context_info_suppression"
  BY <1>1, <1>4 DEF TableInv
<1> QED BY <1>2, <1>3, <1>4 DEF Decides

\* The decisions, the tables and the evictions stay as they are.
LEMMA NothingDecided ==
    ASSUME FloodInv, TypesInv',
           UNCHANGED <<config, lastSeen, windows, decided, forgotten>>,
           \A s \in Threads : thread'[s].at = "decide" =>
               \/ thread'[s] = thread[s]
               \/ thread'[s].time = now
    PROVE  TableInv' /\ DecidesByWindow' /\ LimitInv'
<1>1. TableInv'
  BY DEF FloodInv, TableInv, LastInv, WindowInv, IsWindowOf, PushedOut
<1>2. DecidesByWindow'
  BY DEF FloodInv, DecidesByWindow, Earlier, Within, InOrder
<1>3. LimitInv'
  <2> SUFFICES ASSUME config.mode = "rate_limit", NEW start \in Time, NEW k \in Keys \ forgotten
               PROVE  IF Beyond(k, start)' = {}
                      THEN Cardinality(Inside(k, start)') <= config.quota
                      ELSE Cardinality(Inside(k, start)') + Cardinality(Overtaken(k, start)')
                              <= config.quota + Cardinality(Threads) - 1
    BY DEF LimitInv
  <2>1. Inside(k, start)' = Inside(k, start) /\ Beyond(k, start)' = Beyond(k, start)
    BY DEF Inside, Beyond
  <2>2. ASSUME NEW i \in Beyond(k, start), NEW s \in Overtaken(k, start)' PROVE s \in Overtaken(k, start)
    <3>1. /\ i \in DOMAIN decided /\ decided[i].time >= start + WindowSeconds
          /\ s \in Threads /\ thread'[s].at = "decide" /\ thread'[s].key = k
          /\ thread'[s].time < start + WindowSeconds
      BY <2>2 DEF Beyond, Overtaken
    <3>2. decided[i].time <= now /\ now \in Nat
      BY <3>1 DEF FloodInv, TypesInv
    <3>3. decided[i].time \in Nat
      <4>1. decided[i] \in DecidedType
        BY <3>1 DEF FloodInv, TypesInv
      <4> QED BY <4>1 DEF DecidedType
    <3>4. WindowSeconds \in Nat /\ start \in Nat
      BY FloodAssumption DEF Time
    <3>5. thread'[s].time # now
      BY <3>1, <3>2, <3>3, <3>4
    <3> QED BY <3>1, <3>5 DEF Overtaken
  <2>3. Beyond(k, start) = {} \/ Overtaken(k, start)' \subseteq Overtaken(k, start)
    BY <2>2
  <2> QED BY <2>1, <2>3, LimitSame
<1> QED BY <1>1, <1>2, <1>3

LEMMA FloodStep == FloodInv /\ [Next]_vars => FloodInv'
<1> SUFFICES ASSUME FloodInv, [Next]_vars PROVE FloodInv'
  OBVIOUS
<1>1. TypesInv' /\ BoundInv' /\ SummariesAddUp'
  BY TypesStep, SummariesStep
<1>2. CASE Tick \/ UNCHANGED vars
  <2>1. UNCHANGED <<config, thread, lastSeen, windows, decided, forgotten>>
    BY <1>2 DEF Tick, vars, cache, history
  <2>2. TableInv' /\ DecidesByWindow' /\ LimitInv'
    BY <1>1, <2>1, NothingDecided
  <2> QED BY <1>1, <2>2 DEF FloodInv
<1>3. ASSUME NEW t \in Threads, NEW k \in Keys, Log(t, k) PROVE FloodInv'
  <2>1. /\ UNCHANGED <<config, lastSeen, windows, decided, forgotten>>
        /\ thread'[t].time = now /\ \A s \in Threads : s # t => thread'[s] = thread[s]
    BY <1>3, LogIs DEF FloodInv
  <2>2. TableInv' /\ DecidesByWindow' /\ LimitInv'
    BY <1>1, <2>1, NothingDecided
  <2> QED BY <1>1, <2>2 DEF FloodInv
<1>4. ASSUME NEW t \in Threads,
             (\E k \in Keys : SuppressInContext(t, k)) \/ RateLimit(t) \/ Deduplicate(t)
      PROVE  FloodInv'
  <2>1. PICK k \in Keys, time \in Nat, passes \in BOOLEAN : Decides(t, k, time, passes)
    BY <1>4, DecidingSteps
  <2>2. TableInv'
    BY <2>1, TableStep
  <2>3. DecidesByWindow'
    BY <2>1, DecidesStep
  <2>4. LimitInv'
    <3>1. config' = config
      BY <2>1 DEF Decides
    <3>2. CASE config.mode = "rate_limit"
      <4>1. RateLimit(t)
        BY <2>1, <3>2 DEF Decides, Deduplicate
      <4> QED BY <1>1, <2>1, <3>1, <4>1, LimitDecide DEF LimitInv
    <3>3. CASE config.mode # "rate_limit"
      BY <3>1, <3>3 DEF LimitInv
    <3> QED BY <3>2, <3>3
  <2> QED BY <1>1, <2>2, <2>3, <2>4 DEF FloodInv
<1>5. ASSUME NEW t \in Threads, RecordSuppression(t) \/ EmitSummary(t) PROVE FloodInv'
  <2>1. UNCHANGED <<config, lastSeen, windows, decided, forgotten>>
    BY <1>5 DEF RecordSuppression, EmitSummary, cache
  <2>2. /\ \A s \in Threads : s # t => thread'[s] = thread[s]
        /\ thread'[t].at # "decide"
    <3>1. CASE RecordSuppression(t)
      BY <3>1, RecordIs
    <3>2. CASE EmitSummary(t)
      BY <3>2, EmitIs DEF FloodInv
    <3> QED BY <1>5, <3>1, <3>2
  <2>3. TableInv' /\ DecidesByWindow' /\ LimitInv'
    BY <1>1, <2>1, <2>2, NothingDecided
  <2> QED BY <1>1, <2>3 DEF FloodInv
<1> QED BY <1>2, <1>3, <1>4, <1>5 DEF Next

-----------------------------------------------------------------------------
(* Theorems *)

\* The inductive invariant holds: the tables have what the history of decisions says they
\* have, for every number of threads, keys, records and times.
THEOREM FloodInvariant == Spec => []FloodInv
<1>1. Init => FloodInv
  BY FloodInit
<1>2. FloodInv /\ [Next]_vars => FloodInv'
  BY FloodStep
<1> QED BY <1>1, <1>2, PTL DEF Spec

\* Neither the strategies' tables nor the emitter's counters outgrow max_cache_size, and
\* the two tables of a strategy are evicted together.
THEOREM TablesKeepToSize == Spec => []TablesAreBounded
<1>1. FloodInv => TablesAreBounded
  BY DEF FloodInv, BoundInv
<1> QED BY <1>1, FloodInvariant, PTL

\* _should_suppress decides by the window: the table that it reads and the table that it
\* writes have the records that the window has, whatever was evicted of other keys.
THEOREM DecisionsAreByWindow == Spec => []DecidesByWindow
<1>1. FloodInv => DecidesByWindow
  BY DEF FloodInv
<1> QED BY <1>1, FloodInvariant, PTL

\* However the threads overtake each other between the clock and the lock, no window of a
\* key lets through more than its quota and one record for every other thread.
THEOREM RateStaysLimited == Spec => []RateIsLimited
<1>1. FloodInv => RateIsLimited
  <2> SUFFICES ASSUME FloodInv, config.mode = "rate_limit", NEW start \in Time, NEW k \in Keys \ forgotten
               PROVE  Cardinality(Inside(k, start)) <= config.quota + Cardinality(Threads) - 1
    BY DEF RateIsLimited, Inside
  <2>1. IF Beyond(k, start) = {}
        THEN Cardinality(Inside(k, start)) <= config.quota
        ELSE Cardinality(Inside(k, start)) + Cardinality(Overtaken(k, start))
                <= config.quota + Cardinality(Threads) - 1
    BY DEF FloodInv, LimitInv
  <2>2. /\ Cardinality(Inside(k, start)) \in Nat /\ Cardinality(Overtaken(k, start)) \in Nat
        /\ Cardinality(Threads) \in Nat /\ config.quota \in Nat
    BY LimitTypes DEF FloodInv
  <2>3. CASE Threads # {}
    <3>1. Cardinality(Threads) # 0
      BY <2>3, FloodAssumption, FS_EmptySet
    <3> QED BY <2>1, <2>2, <3>1
  <2>4. CASE Threads = {}
    <3>1. Inside(k, start) = {} /\ Beyond(k, start) = {}
      BY <2>4 DEF FloodInv, TypesInv, Inside, Beyond
    <3>2. Cardinality(Inside(k, start)) = 0 /\ Cardinality(Threads) = 0
      BY <2>4, <3>1, FS_EmptySet
    <3>3. config.quota \in Nat \ {0}
      BY DEF FloodInv, TypesInv
    <3> QED BY <3>2, <3>3
  <2> QED BY <2>3, <2>4
<1> QED BY <1>1, FloodInvariant, PTL

\* No suppressed record is missing from the summaries, and none is in two of them, but for
\* those whose counter was evicted.
THEOREM SummariesStayExact == Spec => []SummariesAddUp
<1>1. FloodInv => SummariesAddUp
  BY DEF FloodInv
<1> QED BY <1>1, FloodInvariant, PTL
=============================================================================
