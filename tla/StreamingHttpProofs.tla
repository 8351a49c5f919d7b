-------------------------- MODULE StreamingHttpProofs --------------------------
(***************************************************************************)
(* Proofs about StreamingHttp, for every number of cycles and chunks and   *)
(* every set of statuses: no chunk is lost or sent twice and every body is *)
(* in order, whichever threads outlive their cycles; and while every join  *)
(* ends its thread, a delivery succeeds or fails for its own request.      *)
(***************************************************************************)
EXTENDS StreamingHttp, TLAPS, SequenceTheorems, FiniteSetTheorems

-----------------------------------------------------------------------------
(* The inductive invariant *)

\* A chunk that send_chunk put in a queue.
Given(x) == x \in ChunkType /\ x.cycle \in Cycles /\ x.n \in 1..sent[x.cycle]

\* What each stage of a sender thread says of it.
ThreadInv(t) ==
    LET th == thread[t] IN
    /\ th.at = "none" <=> t > cycle
    /\ th.at \in {"none", "start"} => th.chunk = Sentinel /\ th.body = <<>>
    /\ th.at \notin {"answer", "ended"} => ~th.whole
    /\ th.at # "ended" => th.status = 0
    /\ th.at = "waiting" => th.queue \in t..cycle

\* What the caller did in the current cycle, and not yet in later ones.
CallerInv ==
    /\ pc # "idle" => cycle \in Cycles
    /\ pc = "closing" => cycle < MaxCycles
    /\ pc = "publishing" => ~finalized
    /\ \A c \in Cycles :
          /\ c > cycle => sent[c] = 0 /\ queues[c] = <<>>
          /\ c > cycle \/ (c = cycle /\ pc \in {"publishing", "joining"}) => outcome[c] = "none"

\* Where chunks come from.
OriginInv ==
    /\ \A c \in Cycles : \A i \in DOMAIN queues[c] :
          queues[c][i] = Sentinel \/ (Given(queues[c][i]) /\ queues[c][i].cycle = c)
    /\ \A t \in Cycles :
          /\ \A i \in DOMAIN thread[t].body : Given(thread[t].body[i])
          /\ thread[t].chunk = Sentinel \/ Given(thread[t].chunk)
          /\ thread[t].at = "writing" => thread[t].chunk # Sentinel

\* x was put in its queue before y was put in its own.
Before(x, y) == x.cycle < y.cycle \/ (x.cycle = y.cycle /\ x.n < y.n)

\* x is before everything the queue q holds.
Ahead(x, q) == \A j \in DOMAIN q : q[j] # Sentinel => x.n < q[j].n

\* Queues are in order, what was taken from one came before what it still holds,
\* and a thread takes from its own queue or a later one.
OrderInv ==
    /\ \A c \in Cycles : \A i, j \in DOMAIN queues[c] :
          i < j /\ queues[c][i] # Sentinel /\ queues[c][j] # Sentinel =>
              queues[c][i].n < queues[c][j].n
    /\ \A t \in Cycles :
          LET th == thread[t] IN
          /\ th.chunk # Sentinel => th.chunk.cycle >= t /\ Ahead(th.chunk, queues[th.chunk.cycle])
          /\ \A i \in DOMAIN th.body :
                /\ th.body[i].cycle \in t..cycle
                /\ Ahead(th.body[i], queues[th.body[i].cycle])
                /\ th.at = "waiting" => th.body[i].cycle <= th.queue
                /\ th.at = "writing" => Before(th.body[i], th.chunk)
                /\ \A j \in DOMAIN th.body : i < j => Before(th.body[i], th.body[j])

\* A chunk is in one place of a queue, in one place of a body, or held by one
\* thread, and in no other.
NotQueued(x) == \A c \in Cycles : \A i \in DOMAIN queues[c] : queues[c][i] # x
NotInBody(x) == \A t \in Cycles : \A i \in DOMAIN thread[t].body : thread[t].body[i] # x
NotHeld(x)   == \A t \in Cycles : ~Held(t, x)

QueuedOnce(x) ==
    \E c \in Cycles : \E i \in DOMAIN queues[c] :
        /\ queues[c][i] = x
        /\ \A d \in Cycles : \A j \in DOMAIN queues[d] : queues[d][j] = x => d = c /\ j = i
InBodyOnce(x) ==
    \E t \in Cycles : \E i \in DOMAIN thread[t].body :
        /\ thread[t].body[i] = x
        /\ \A u \in Cycles : \A j \in DOMAIN thread[u].body :
              thread[u].body[j] = x => u = t /\ j = i
HeldOnce(x) == \E t \in Cycles : Held(t, x) /\ \A u \in Cycles : Held(u, x) => u = t

OnePlace(x) ==
    \/ QueuedOnce(x) /\ NotInBody(x) /\ NotHeld(x)
    \/ NotQueued(x) /\ InBodyOnce(x) /\ NotHeld(x)
    \/ NotQueued(x) /\ NotInBody(x) /\ HeldOnce(x)

PlaceInv == \A c \in Cycles : \A n \in 1..sent[c] : OnePlace(Chunk(c, n))

-----------------------------------------------------------------------------
(* The part of it that holds while no thread outlived a join. *)

\* How many chunks the thread of the current cycle took.
taken == Len(thread[cycle].body) + (IF thread[cycle].at = "writing" THEN 1 ELSE 0)

\* The sentinel is at the end of the queue.
ending == pc \in {"joining", "closing"}

\* A request under way: its body is the chunks up to the one being sent, the queue
\* the rest of them.
StreamInv ==
    LET th == thread[cycle]
        q  == queues[cycle]
    IN
    /\ taken <= sent[cycle]
    /\ \A n \in DOMAIN th.body : th.body[n] = Chunk(cycle, n)
    /\ th.at = "writing" => th.chunk = Chunk(cycle, taken)
    /\ Len(q) = (sent[cycle] - taken) + (IF ending THEN 1 ELSE 0)
    /\ \A i \in 1..(sent[cycle] - taken) : q[i] = Chunk(cycle, taken + i)
    /\ ending => q[Len(q)] = Sentinel

\* What the thread of the current cycle, once it ended, left for finalize().
EndedInv ==
    LET th == thread[cycle] IN
    /\ \/ exc = cycle /\ th.status = 0
       \/ exc = 0 /\ response = cycle /\ th.status # 0

\* The body of a request is the first chunks of its cycle, or all of them.
SentPart(c) ==
    /\ Len(thread[c].body) <= sent[c]
    /\ \A n \in DOMAIN thread[c].body : thread[c].body[n] = Chunk(c, n)

CurrentInv ==
    /\ thread[cycle].at = "ended" => EndedInv
    /\ thread[cycle].at # "ended" => exc = 0 /\ response = 0
    /\ thread[cycle].whole => pc # "publishing" /\ thread[cycle].body = AllChunks(cycle)
    /\ thread[cycle].at \notin {"answer", "ended"} => StreamInv
    /\ SentPart(cycle)

\* The request of a cycle was answered with a success.
Done(c) ==
    /\ thread[c].at = "ended" /\ thread[c].status \in 1..399
    /\ thread[c].whole => Received(c)
    /\ SentPart(c)

CleanInv ==
    ~overran =>
        /\ \A c \in Cycles :
              /\ c < cycle => ~IsAlive(c)
              /\ outcome[c] = "delivered" => Done(c)
              /\ outcome[c] = "failed" =>
                    thread[c].at = "ended" /\ (thread[c].status = 0 \/ thread[c].status >= 400)
        /\ cycle = 0 => exc = 0 /\ response = 0
        /\ cycle # 0 => CurrentInv

StreamingInv ==
    /\ TypeOK
    /\ \A t \in Cycles : ThreadInv(t)
    /\ CallerInv
    /\ OriginInv
    /\ OrderInv
    /\ PlaceInv
    /\ CleanInv

-----------------------------------------------------------------------------
(* Steps of a thread *)

\* A thread that steps is one that was started and has not ended; nothing of the
\* caller's changes, nor of any other thread.
LEMMA SenderFrame ==
    ASSUME TypeOK, \A t \in Cycles : ThreadInv(t), NEW t \in Cycles, Sender(t)
    PROVE  /\ UNCHANGED caller
           /\ cycle \in Cycles /\ t \in 1..cycle /\ IsAlive(t)
           /\ \A u \in Cycles : u # t => thread'[u] = thread[u]
<1>1. thread[t].at \notin {"none", "ended"}
  BY DEF Sender, Begin, Fetch, Get, GetSentinel, Write, WriteFails, Answer, Raise
<1>2. cycle \in Nat /\ t <= cycle /\ cycle \in Cycles /\ t \in Nat /\ t >= 1
  BY <1>1, StreamingAssumption DEF TypeOK, ThreadInv, Cycles
<1>3. UNCHANGED caller
  BY DEF Sender, Begin, Fetch, Get, GetSentinel, Write, WriteFails, Answer, Raise
<1>4. \E e : thread' = [thread EXCEPT ![t] = e]
  BY DEF Sender, Begin, Fetch, Get, GetSentinel, Write, WriteFails, Answer, Raise
<1> QED BY <1>1, <1>2, <1>3, <1>4 DEF TypeOK, IsAlive

\* What Begin, Fetch, WriteFails, Answer and Raise change of the thread: its stage, the queue
\* it waits for, the answer.
LEMMA StageStep ==
    ASSUME TypeOK, \A t \in Cycles : ThreadInv(t), NEW t \in Cycles,
           Begin(t) \/ Fetch(t) \/ WriteFails(t) \/ Answer(t) \/ Raise(t)
    PROVE  /\ queues' = queues
           /\ thread' \in [Cycles -> ThreadType]
           /\ thread'[t].body = thread[t].body /\ thread'[t].chunk = thread[t].chunk
           /\ thread'[t].whole = thread[t].whole
           /\ \/ /\ thread[t].at = "start" /\ thread'[t].at = "fetch" /\ thread'[t].status = thread[t].status
                 /\ UNCHANGED <<exc, response>>
              \/ /\ thread[t].at = "fetch" /\ thread'[t].at = "waiting" /\ thread'[t].queue = cycle
                 /\ thread'[t].status = thread[t].status
                 /\ UNCHANGED <<exc, response>>
              \/ /\ thread[t].at \in {"start", "writing"} /\ thread'[t].at = "answer"
                 /\ thread'[t].status = thread[t].status
                 /\ UNCHANGED <<exc, response>>
              \/ /\ thread[t].at = "answer" /\ thread'[t].at = "ended"
                 /\ thread'[t].status \in Statuses
                 /\ exc' = exc /\ response' = t
              \/ /\ thread[t].at \in {"start", "writing", "answer"} /\ thread'[t].at = "ended"
                 /\ thread'[t].status = thread[t].status
                 /\ exc' = t /\ response' = response
<1>1. thread \in [Cycles -> ThreadType] /\ thread[t] \in ThreadType
  BY DEF TypeOK
<1>2. CASE Begin(t)
  <2> DEFINE e == [thread[t] EXCEPT !.at = "fetch"]
  <2>1. e \in ThreadType /\ e.at = "fetch" /\ e.body = thread[t].body /\ e.chunk = thread[t].chunk
        /\ e.whole = thread[t].whole /\ e.status = thread[t].status
    BY <1>1 DEF ThreadType
  <2>2. thread' = [thread EXCEPT ![t] = e]
    BY <1>2 DEF Begin
  <2> HIDE DEF e
  <2>3. thread' \in [Cycles -> ThreadType] /\ thread'[t] = e
    BY <1>1, <2>1, <2>2
  <2> QED BY <1>2, <2>1, <2>3 DEF Begin
<1>3. CASE Fetch(t)
  <2> DEFINE e == [thread[t] EXCEPT !.at = "waiting", !.queue = cycle]
  <2>1. e \in ThreadType /\ e.at = "waiting" /\ e.body = thread[t].body /\ e.chunk = thread[t].chunk
        /\ e.whole = thread[t].whole /\ e.status = thread[t].status /\ e.queue = cycle
    BY <1>1 DEF ThreadType, TypeOK
  <2>2. thread' = [thread EXCEPT ![t] = e]
    BY <1>3 DEF Fetch
  <2> HIDE DEF e
  <2>3. thread' \in [Cycles -> ThreadType] /\ thread'[t] = e
    BY <1>1, <2>1, <2>2
  <2> QED BY <1>3, <2>1, <2>3 DEF Fetch
<1>4. CASE Answer(t)
  <2>1. PICK s \in Statuses :
           /\ thread[t].at = "answer"
           /\ thread' = [thread EXCEPT ![t].at = "ended", ![t].status = s]
    BY <1>4 DEF Answer
  <2> DEFINE e == [thread[t] EXCEPT !.at = "ended", !.status = s]
  <2>2. e \in ThreadType /\ e.at = "ended" /\ e.body = thread[t].body /\ e.chunk = thread[t].chunk
        /\ e.whole = thread[t].whole /\ e.status = s
    BY <1>1 DEF ThreadType
  <2>3. thread' = [thread EXCEPT ![t] = e]
    BY <2>1
  <2> HIDE DEF e
  <2>4. thread' \in [Cycles -> ThreadType] /\ thread'[t] = e
    BY <1>1, <2>2, <2>3
  <2> QED BY <1>4, <2>1, <2>2, <2>4 DEF Answer
<1>5. CASE Raise(t)
  <2> DEFINE e == [thread[t] EXCEPT !.at = "ended"]
  <2>1. e \in ThreadType /\ e.at = "ended" /\ e.body = thread[t].body /\ e.chunk = thread[t].chunk
        /\ e.whole = thread[t].whole /\ e.status = thread[t].status
    BY <1>1 DEF ThreadType
  <2>2. thread' = [thread EXCEPT ![t] = e]
    BY <1>5 DEF Raise
  <2> HIDE DEF e
  <2>3. thread' \in [Cycles -> ThreadType] /\ thread'[t] = e
    BY <1>1, <2>1, <2>2
  <2> QED BY <1>5, <2>1, <2>3 DEF Raise
<1>6. CASE WriteFails(t)
  <2> DEFINE e == [thread[t] EXCEPT !.at = "answer"]
  <2>1. e \in ThreadType /\ e.at = "answer" /\ e.body = thread[t].body /\ e.chunk = thread[t].chunk
        /\ e.whole = thread[t].whole /\ e.status = thread[t].status
    BY <1>1 DEF ThreadType
  <2>2. thread' = [thread EXCEPT ![t] = e]
    BY <1>6 DEF WriteFails
  <2> HIDE DEF e
  <2>3. thread' \in [Cycles -> ThreadType] /\ thread'[t] = e
    BY <1>1, <2>1, <2>2
  <2> QED BY <1>6, <2>1, <2>3 DEF WriteFails
<1> QED BY <1>2, <1>3, <1>4, <1>5, <1>6

\* What Get and GetSentinel do: the head of the queue goes, to the thread if it is
\* a chunk.
LEMMA TakeStep ==
    ASSUME TypeOK, \A t \in Cycles : ThreadInv(t), NEW t \in Cycles, Get(t) \/ GetSentinel(t)
    PROVE  LET q == thread[t].queue IN
           /\ q \in Cycles /\ q \in t..cycle /\ thread[t].at = "waiting" /\ UNCHANGED <<exc, response>>
           /\ queues' \in [Cycles -> Seq(ChunkType)] /\ thread' \in [Cycles -> ThreadType]
           /\ Len(queues[q]) >= 1 /\ Len(queues'[q]) = Len(queues[q]) - 1
           /\ \A i \in 1..Len(queues'[q]) : queues'[q][i] = queues[q][i + 1]
           /\ \A c \in Cycles : c # q => queues'[c] = queues[c]
           /\ thread'[t].body = thread[t].body /\ thread'[t].status = thread[t].status
           /\ \/ /\ queues[q][1] # Sentinel
                 /\ thread'[t].at = "writing" /\ thread'[t].chunk = queues[q][1]
                 /\ thread'[t].whole = thread[t].whole
              \/ /\ queues[q][1] = Sentinel
                 /\ thread'[t].at = "answer" /\ thread'[t].chunk = Sentinel
<1> DEFINE q == thread[t].queue
           s == queues[q]
<1>1. thread \in [Cycles -> ThreadType] /\ thread[t] \in ThreadType
  BY DEF TypeOK
<1>2. thread[t].at = "waiting" /\ s # <<>> /\ UNCHANGED <<exc, response>>
      /\ queues' = [queues EXCEPT ![q] = Tail(@)]
  BY DEF Get, GetSentinel, Take
<1>3. q \in t..cycle /\ q \in Cycles
  BY <1>2, StreamingAssumption DEF ThreadInv, TypeOK, Cycles
<1>4. s \in Seq(ChunkType) /\ queues \in [Cycles -> Seq(ChunkType)]
  BY <1>3 DEF TypeOK
<1>5. queues' = [queues EXCEPT ![q] = Tail(s)]
  BY <1>2
<1> HIDE DEF s
<1>6. /\ Tail(s) \in Seq(ChunkType) /\ Len(s) \in Nat /\ Len(s) >= 1 /\ Len(Tail(s)) = Len(s) - 1
      /\ Head(s) = s[1] /\ s[1] \in ChunkType
      /\ \A i \in 1..Len(Tail(s)) : Tail(s)[i] = s[i + 1]
  BY <1>2, <1>4, EmptySeq, HeadTailProperties
<1>7. /\ queues' \in [Cycles -> Seq(ChunkType)] /\ queues'[q] = Tail(s)
      /\ \A c \in Cycles : c # q => queues'[c] = queues[c]
  BY <1>3, <1>4, <1>5, <1>6
<1>8. CASE Get(t)
  <2> DEFINE e == [thread[t] EXCEPT !.at = "writing", !.chunk = Head(s)]
  <2>1. e \in ThreadType /\ e.at = "writing" /\ e.body = thread[t].body /\ e.chunk = Head(s)
        /\ e.whole = thread[t].whole /\ e.status = thread[t].status
    BY <1>1, <1>6 DEF ThreadType
  <2>2. thread' = [thread EXCEPT ![t] = e] /\ Head(s) # Sentinel
    BY <1>8 DEF Get, s
  <2> HIDE DEF e
  <2>3. thread' \in [Cycles -> ThreadType] /\ thread'[t] = e
    BY <1>1, <2>1, <2>2
  <2> QED BY <1>2, <1>3, <1>6, <1>7, <2>1, <2>2, <2>3 DEF s
<1>9. CASE GetSentinel(t)
  <2>0. PICK written \in BOOLEAN :
           thread' = [thread EXCEPT ![t].at = "answer", ![t].chunk = Sentinel, ![t].whole = written]
    BY <1>9 DEF GetSentinel
  <2> DEFINE e == [thread[t] EXCEPT !.at = "answer", !.chunk = Sentinel, !.whole = written]
  <2>1. e \in ThreadType
    <3>1. Sentinel \in ChunkType
      BY StreamingAssumption DEF Sentinel, Chunk, ChunkType
    <3> QED BY <1>1, <3>1 DEF ThreadType
  <2>2. e.at = "answer" /\ e.body = thread[t].body /\ e.chunk = Sentinel
        /\ e.status = thread[t].status
    BY <1>1 DEF ThreadType
  <2>3. thread' = [thread EXCEPT ![t] = e] /\ Head(s) = Sentinel
    BY <1>9, <2>0 DEF GetSentinel, s
  <2> HIDE DEF e
  <2>4. thread' \in [Cycles -> ThreadType] /\ thread'[t] = e
    BY <1>1, <2>1, <2>3
  <2> QED BY <1>2, <1>3, <1>6, <1>7, <2>2, <2>3, <2>4 DEF s
<1> QED BY <1>8, <1>9

\* What Write does: the chunk goes to the end of the body.
LEMMA WriteStep ==
    ASSUME TypeOK, NEW t \in Cycles, Write(t)
    PROVE  /\ queues' = queues /\ thread[t].at = "writing" /\ UNCHANGED <<exc, response>>
           /\ thread' \in [Cycles -> ThreadType]
           /\ thread'[t].at = "fetch" /\ thread'[t].chunk = thread[t].chunk
           /\ thread'[t].whole = thread[t].whole /\ thread'[t].status = thread[t].status
           /\ Len(thread[t].body) \in Nat
           /\ Len(thread'[t].body) = Len(thread[t].body) + 1
           /\ \A i \in 1..Len(thread[t].body) : thread'[t].body[i] = thread[t].body[i]
           /\ thread'[t].body[Len(thread[t].body) + 1] = thread[t].chunk
<1> DEFINE new == Append(thread[t].body, thread[t].chunk)
           e == [thread[t] EXCEPT !.at = "fetch", !.body = new]
<1>1. thread \in [Cycles -> ThreadType] /\ thread[t] \in ThreadType
  BY DEF TypeOK
<1>2. thread[t].body \in Seq(ChunkType) /\ thread[t].chunk \in ChunkType
  BY <1>1 DEF ThreadType
<1>3. /\ new \in Seq(ChunkType) /\ Len(new) = Len(thread[t].body) + 1 /\ Len(thread[t].body) \in Nat
      /\ \A i \in 1..Len(thread[t].body) : new[i] = thread[t].body[i]
      /\ new[Len(thread[t].body) + 1] = thread[t].chunk
  BY <1>2, AppendProperties
<1>4. thread' = [thread EXCEPT ![t] = e]
  BY DEF Write
<1> HIDE DEF new
<1>5. e \in ThreadType /\ e.at = "fetch" /\ e.body = new /\ e.chunk = thread[t].chunk
      /\ e.whole = thread[t].whole /\ e.status = thread[t].status
  BY <1>1, <1>3 DEF ThreadType
<1> HIDE DEF e
<1>6. thread' \in [Cycles -> ThreadType] /\ thread'[t] = e
  BY <1>1, <1>4, <1>5
<1> QED BY <1>3, <1>5, <1>6 DEF Write

-----------------------------------------------------------------------------
(* Steps of the caller *)

LEMMA PutStep ==
    ASSUME TypeOK, NEW q \in Cycles, NEW x \in ChunkType, Put(q, x)
    PROVE  /\ queues' \in [Cycles -> Seq(ChunkType)]
           /\ Len(queues[q]) \in Nat /\ Len(queues'[q]) = Len(queues[q]) + 1
           /\ \A i \in 1..Len(queues[q]) : queues'[q][i] = queues[q][i]
           /\ queues'[q][Len(queues[q]) + 1] = x
           /\ \A c \in Cycles : c # q => queues'[c] = queues[c]
<1> DEFINE s == Append(queues[q], x)
<1>1. /\ s \in Seq(ChunkType) /\ Len(s) = Len(queues[q]) + 1 /\ Len(queues[q]) \in Nat
      /\ \A i \in 1..Len(queues[q]) : s[i] = queues[q][i]
      /\ s[Len(queues[q]) + 1] = x
  BY AppendProperties DEF TypeOK
<1>2. queues' = [queues EXCEPT ![q] = s]
  BY DEF Put
<1> HIDE DEF s
<1>3. queues'[q] = s /\ \A c \in Cycles : c # q => queues'[c] = queues[c]
  BY <1>2 DEF TypeOK
<1>4. queues' \in [Cycles -> Seq(ChunkType)]
  BY <1>1, <1>2 DEF TypeOK
<1> QED BY <1>1, <1>3, <1>4

\* A new cycle starts a thread that has done nothing.
LEMMA FreshStep ==
    ASSUME TypeOK, \A t \in Cycles : ThreadInv(t), cycle < MaxCycles, FreshCycle
    PROVE  /\ cycle' = cycle + 1 /\ cycle' \in Cycles /\ cycle \in Nat
           /\ pc' = "publishing" /\ client' = cycle' /\ exc' = 0 /\ response' = 0
           /\ ~finalized' /\ finalized' \in BOOLEAN
           /\ UNCHANGED <<sent, outcome>>
           /\ thread' \in [Cycles -> ThreadType]
           /\ thread[cycle'].at = "none"
           /\ thread'[cycle'].at = "start" /\ thread'[cycle'].chunk = Sentinel
           /\ thread'[cycle'].body = <<>> /\ ~thread'[cycle'].whole /\ thread'[cycle'].status = 0
           /\ \A t \in Cycles : t # cycle' => thread'[t] = thread[t]
<1>1. cycle' = cycle + 1 /\ cycle' \in Cycles /\ cycle \in Nat /\ cycle' > cycle
  BY StreamingAssumption DEF FreshCycle, TypeOK, Cycles
<1>2. finalized' \in BOOLEAN
  BY Zenon DEF FreshCycle
<1> DEFINE e == [thread[cycle'] EXCEPT !.at = "start"]
<1>3. thread[cycle'] \in ThreadType
  BY <1>1 DEF TypeOK
<1>4. thread[cycle'].at = "none"
  BY <1>1 DEF ThreadInv
<1>5. thread[cycle'].chunk = Sentinel /\ thread[cycle'].body = <<>>
      /\ ~thread[cycle'].whole /\ thread[cycle'].status = 0
  BY <1>1, <1>4 DEF ThreadInv
<1>6. e \in ThreadType /\ e.at = "start" /\ e.body = thread[cycle'].body
      /\ e.chunk = thread[cycle'].chunk /\ e.whole = thread[cycle'].whole
      /\ e.status = thread[cycle'].status
  BY <1>3 DEF ThreadType
<1>7. thread' = [thread EXCEPT ![cycle'] = e]
  BY DEF FreshCycle
<1> HIDE DEF e
<1>8. /\ thread' \in [Cycles -> ThreadType] /\ thread'[cycle'] = e
      /\ \A t \in Cycles : t # cycle' => thread'[t] = thread[t]
  BY <1>1, <1>6, <1>7 DEF TypeOK
<1> QED BY <1>1, <1>2, <1>4, <1>5, <1>6, <1>8 DEF FreshCycle

-----------------------------------------------------------------------------
(* Initial states, and the invariant's parts after each kind of step *)

LEMMA StreamingInit == Init => StreamingInv
<1> SUFFICES ASSUME Init PROVE StreamingInv
  OBVIOUS
<1> USE StreamingAssumption
<1>1. Sentinel \in ChunkType /\ NoThread \in ThreadType
  BY DEF Sentinel, Chunk, ChunkType, NoThread, ThreadType
<1>2. TypeOK
  <2>1. thread \in [Cycles -> ThreadType] /\ queues \in [Cycles -> Seq(ChunkType)]
    BY <1>1 DEF Init
  <2>2. finalized \in BOOLEAN /\ overran \in BOOLEAN
    BY Zenon DEF Init
  <2> QED BY <2>1, <2>2 DEF Init, TypeOK
<1>3. \A t \in Cycles : thread[t] = NoThread /\ queues[t] = <<>> /\ sent[t] = 0 /\ outcome[t] = "none"
  BY DEF Init
<1>4. /\ NoThread.at = "none" /\ NoThread.chunk = Sentinel /\ NoThread.body = <<>>
      /\ NoThread.whole = FALSE /\ NoThread.status = 0
  BY DEF NoThread
<1>5. cycle = 0 /\ pc = "idle" /\ exc = 0 /\ response = 0
  BY DEF Init
<1>6. \A t \in Cycles : ThreadInv(t)
  BY <1>3, <1>4, <1>5 DEF ThreadInv, Cycles
<1>7. CallerInv
  BY <1>3, <1>5 DEF CallerInv, Cycles
<1>8. OriginInv
  BY <1>3, <1>4 DEF OriginInv
<1>9. OrderInv
  BY <1>3, <1>4 DEF OrderInv
<1>10. PlaceInv
  BY <1>3 DEF PlaceInv
<1>11. CleanInv
  BY <1>3, <1>4, <1>5 DEF CleanInv, Cycles, IsAlive
<1> QED BY <1>2, <1>6, <1>7, <1>8, <1>9, <1>10, <1>11 DEF StreamingInv

\* A thread's step keeps types, and what threads and the caller say of themselves.
LEMMA SenderBasics ==
    ASSUME StreamingInv, NEW t \in Cycles, Sender(t)
    PROVE  TypeOK' /\ (\A u \in Cycles : ThreadInv(u)') /\ CallerInv'
<1> USE StreamingAssumption DEF StreamingInv
<1>1. /\ UNCHANGED caller
      /\ cycle \in Cycles /\ t \in 1..cycle /\ IsAlive(t)
      /\ \A u \in Cycles : u # t => thread'[u] = thread[u]
  BY SenderFrame
<1>2. cycle' = cycle /\ sent' = sent /\ pc' = pc /\ finalized' = finalized /\ outcome' = outcome
      /\ overran' = overran /\ client' = client
  BY <1>1 DEF caller
<1>3. \A u \in Cycles : u # t => ThreadInv(u)'
  BY <1>1, <1>2 DEF ThreadInv
<1>4. CASE Begin(t) \/ Fetch(t) \/ WriteFails(t) \/ Answer(t) \/ Raise(t)
  <2>1. queues' = queues /\ thread' \in [Cycles -> ThreadType] /\ exc' \in 0..MaxCycles
        /\ response' \in 0..MaxCycles
    <3>1. t \in 0..MaxCycles /\ exc \in 0..MaxCycles /\ response \in 0..MaxCycles
      BY <1>1 DEF TypeOK, Cycles
    <3>2. (exc' = exc \/ exc' = t) /\ (response' = response \/ response' = t)
      BY <1>4, StageStep
    <3>3. queues' = queues /\ thread' \in [Cycles -> ThreadType]
      BY <1>4, StageStep
    <3> QED BY <3>1, <3>2, <3>3
  <2>2. TypeOK'
    BY <1>2, <2>1 DEF TypeOK
  <2>3. ThreadInv(t)'
    <3>1. ThreadInv(t) /\ t <= cycle /\ cycle \in t..cycle
      BY <1>1 DEF Cycles
    <3>2. /\ thread'[t].body = thread[t].body /\ thread'[t].chunk = thread[t].chunk
          /\ thread'[t].whole = thread[t].whole
          /\ \/ /\ thread[t].at = "start" /\ thread'[t].at = "fetch" /\ thread'[t].status = thread[t].status
             \/ /\ thread[t].at = "fetch" /\ thread'[t].at = "waiting" /\ thread'[t].queue = cycle
                /\ thread'[t].status = thread[t].status
             \/ thread'[t].at = "answer" /\ thread'[t].status = thread[t].status
             \/ thread'[t].at = "ended"
      BY <1>4, StageStep
    <3>3. thread[t].at \notin {"none", "ended"} /\ thread'[t].at \notin {"none", "start"}
      BY <1>1, <3>2 DEF IsAlive
    <3>4. thread'[t].at = "ended" \/ (thread'[t].status = 0 /\ thread'[t].at \in {"fetch", "waiting", "answer"})
      BY <3>1, <3>2, <3>3 DEF ThreadInv
    <3>5. thread'[t].at = "waiting" => thread'[t].queue = cycle
      BY <3>2
    <3>6. thread'[t].at \in {"answer", "ended"} \/ ~thread'[t].whole
      BY <3>1, <3>2 DEF ThreadInv
    <3> QED BY <1>2, <3>1, <3>3, <3>4, <3>5, <3>6 DEF ThreadInv, Cycles
  <2>4. CallerInv'
    BY <1>2, <2>1 DEF CallerInv
  <2> QED BY <1>3, <2>2, <2>3, <2>4
<1>5. CASE Get(t) \/ GetSentinel(t)
  <2> DEFINE q == thread[t].queue
  <2>1. /\ q \in Cycles /\ q \in t..cycle /\ UNCHANGED <<exc, response>>
        /\ queues' \in [Cycles -> Seq(ChunkType)] /\ thread' \in [Cycles -> ThreadType]
        /\ \A c \in Cycles : c # q => queues'[c] = queues[c]
    BY <1>5, TakeStep
  <2>2. TypeOK'
    BY <1>2, <2>1 DEF TypeOK
  <2>3. ThreadInv(t)'
    <3>1. ThreadInv(t) /\ t <= cycle
      BY <1>1 DEF Cycles
    <3>2. /\ thread[t].at = "waiting" /\ thread'[t].status = thread[t].status
          /\ \/ thread'[t].at = "writing" /\ thread'[t].whole = thread[t].whole
             \/ thread'[t].at = "answer"
      BY <1>5, TakeStep
    <3> QED BY <1>1, <1>2, <3>1, <3>2 DEF ThreadInv, Cycles
  <2>4. CallerInv'
    <3>1. q <= cycle
      BY <1>1, <2>1 DEF Cycles
    <3>2. ASSUME NEW c \in Cycles, c > cycle PROVE c # q
      BY <1>1, <3>1, <2>1, <3>2 DEF Cycles
    <3> QED BY <1>2, <2>1, <3>2 DEF CallerInv
  <2> QED BY <1>3, <2>2, <2>3, <2>4
<1>6. CASE Write(t)
  <2>1. /\ queues' = queues /\ UNCHANGED <<exc, response>> /\ thread' \in [Cycles -> ThreadType]
        /\ thread[t].at = "writing" /\ thread'[t].at = "fetch"
        /\ thread'[t].whole = thread[t].whole /\ thread'[t].status = thread[t].status
    BY <1>6, WriteStep
  <2>2. TypeOK'
    BY <1>2, <2>1 DEF TypeOK
  <2>3. ThreadInv(t)'
    BY <1>1, <1>2, <2>1 DEF ThreadInv, TypeOK, Cycles
  <2>4. CallerInv'
    BY <1>2, <2>1 DEF CallerInv
  <2> QED BY <1>3, <2>2, <2>3, <2>4
<1> QED BY <1>4, <1>5, <1>6 DEF Sender

-----------------------------------------------------------------------------
(* Steps of the caller, by what they do to the queues *)

\* It opens a cycle.
Opens == cycle < MaxCycles /\ FreshCycle /\ UNCHANGED queues

\* It puts the sentinel or the next chunk in the current queue.
Puts(x) ==
    /\ cycle \in Cycles /\ Put(cycle, x)
    /\ UNCHANGED <<cycle, thread, exc, response, overran, outcome>>
    /\ \/ /\ x = Sentinel /\ sent' = sent
          /\ \/ pc = "idle" /\ pc' = "closing" /\ IsAlive(cycle)
             \/ pc = "publishing" /\ pc' = "joining"
       \/ /\ pc = "publishing" /\ pc' = pc /\ sent[cycle] < MaxChunks
          /\ sent' = [sent EXCEPT ![cycle] = sent[cycle] + 1]
          /\ x = Chunk(cycle, sent[cycle] + 1)

\* It leaves queues and threads as they are.
Stays ==
    /\ UNCHANGED <<cycle, sent, queues, thread, exc, response>>
    /\ cycle \in Cycles /\ pc \in {"publishing", "joining"} /\ pc' = "idle"

Caller ==
    OpenAlone \/ OpenOverLive \/ JoinOld \/ SendChunk \/ Finalize \/ GiveUp \/ Conclude

LEMMA CallerKinds ==
    ASSUME StreamingInv, Caller
    PROVE  Opens \/ (\E x \in ChunkType : Puts(x)) \/ Stays
<1> USE StreamingAssumption DEF StreamingInv
<1>1. CASE OpenAlone \/ JoinOld
  BY <1>1 DEF OpenAlone, JoinOld, Opens, CallerInv
<1>2. CASE OpenOverLive \/ Finalize
  <2>1. Sentinel \in ChunkType
    BY DEF Sentinel, Chunk, ChunkType
  <2>2. cycle \in Cycles
    BY <1>2 DEF OpenOverLive, Finalize, CallerInv, Cycles
  <2>3. Puts(Sentinel)
    BY <1>2, <2>2 DEF OpenOverLive, Finalize, Puts
  <2> QED BY <2>1, <2>3
<1>3. CASE SendChunk
  <2>1. cycle \in Cycles
    BY <1>3 DEF SendChunk, CallerInv
  <2> DEFINE n == sent[cycle]
  <2>2. n \in 0..MaxChunks /\ n < MaxChunks /\ cycle \in 0..MaxCycles
    BY <1>3, <2>1 DEF SendChunk, TypeOK
  <2>3. Chunk(cycle, n + 1) \in ChunkType
    BY <2>2 DEF Chunk, ChunkType
  <2>4. sent' = [sent EXCEPT ![cycle] = n + 1]
    BY <1>3 DEF SendChunk
  <2>5. sent'[cycle] = n + 1
    BY <2>1, <2>4 DEF TypeOK
  <2>6. Puts(Chunk(cycle, n + 1))
    BY <1>3, <2>1, <2>4, <2>5 DEF SendChunk, Puts
  <2> QED BY <2>3, <2>6
<1>4. CASE GiveUp \/ Conclude
  BY <1>4 DEF GiveUp, Conclude, Stays, CallerInv
<1> QED BY <1>1, <1>2, <1>3, <1>4 DEF Caller

\* A step of the caller keeps types, and what threads and the caller say of
\* themselves.
LEMMA CallerBasics ==
    ASSUME StreamingInv, Caller
    PROVE  TypeOK' /\ (\A u \in Cycles : ThreadInv(u)') /\ CallerInv'
<1> USE StreamingAssumption DEF StreamingInv
<1>1. CASE OpenAlone \/ JoinOld
  <2>1. cycle < MaxCycles /\ FreshCycle /\ queues' = queues
    BY <1>1 DEF OpenAlone, JoinOld, CallerInv
  <2>2. overran' \in BOOLEAN
    <3>1. CASE OpenAlone
      BY <3>1, Zenon DEF OpenAlone, TypeOK
    <3>2. CASE JoinOld
      BY <3>2, Zenon DEF JoinOld
    <3> QED BY <1>1, <3>1, <3>2
  <2>3. /\ cycle' = cycle + 1 /\ cycle' \in Cycles /\ cycle \in Nat
        /\ pc' = "publishing" /\ client' = cycle' /\ exc' = 0 /\ response' = 0
        /\ ~finalized' /\ finalized' \in BOOLEAN
        /\ UNCHANGED <<sent, outcome>>
        /\ thread' \in [Cycles -> ThreadType]
        /\ thread'[cycle'].at = "start" /\ thread'[cycle'].chunk = Sentinel
        /\ thread'[cycle'].body = <<>> /\ ~thread'[cycle'].whole /\ thread'[cycle'].status = 0
        /\ \A t \in Cycles : t # cycle' => thread'[t] = thread[t]
    BY <2>1, FreshStep
  <2>4. TypeOK'
    <3>1. cycle' \in 0..MaxCycles
      BY <2>3 DEF Cycles
    <3> QED BY <2>1, <2>2, <2>3, <3>1 DEF TypeOK
  <2>5. ASSUME NEW u \in Cycles PROVE ThreadInv(u)'
    <3>1. CASE u = cycle'
      BY <2>3, <3>1 DEF ThreadInv, Cycles
    <3>2. CASE u # cycle'
      <4>1. thread'[u] = thread[u] /\ ThreadInv(u) /\ (u > cycle <=> u > cycle')
        BY <2>3, <3>2 DEF Cycles
      <4>2. \A q : q \in u..cycle => q \in u..cycle'
        BY <2>3 DEF Cycles
      <4> QED BY <4>1, <4>2 DEF ThreadInv
    <3> QED BY <3>1, <3>2
  <2>6. CallerInv'
    BY <2>1, <2>3 DEF CallerInv, Cycles
  <2> QED BY <2>4, <2>5, <2>6
<1>2. CASE OpenOverLive \/ SendChunk \/ Finalize
  <2>1. UNCHANGED <<cycle, client, exc, response, finalized, thread, outcome, overran>>
    BY <1>2 DEF OpenOverLive, SendChunk, Finalize
  <2>2. PICK x \in ChunkType : Puts(x)
    <3>1. cycle' = cycle /\ pc' # "idle"
      BY <1>2 DEF OpenOverLive, SendChunk, Finalize
    <3>2. ~Opens /\ ~Stays
      BY <3>1 DEF Opens, FreshCycle, Stays, TypeOK
    <3> QED BY <1>2, <3>2, CallerKinds DEF Caller
  <2>3. cycle \in Cycles /\ cycle \in Nat
    BY <2>2 DEF Puts, Cycles
  <2>4. /\ queues' \in [Cycles -> Seq(ChunkType)]
        /\ \A c \in Cycles : c # cycle => queues'[c] = queues[c]
    BY <2>2, <2>3, PutStep DEF Puts
  <2>5. sent' \in [Cycles -> 0..MaxChunks] /\ \A c \in Cycles : c # cycle => sent'[c] = sent[c]
    BY <2>2, <2>3 DEF Puts, TypeOK
  <2>6. pc' \in {"closing", "publishing", "joining"}
    BY <2>2 DEF Puts
  <2>7. TypeOK'
    BY <2>1, <2>4, <2>5, <2>6 DEF TypeOK
  <2>8. ASSUME NEW u \in Cycles PROVE ThreadInv(u)'
    BY <2>1 DEF ThreadInv
  <2>9. CallerInv'
    <3>1. pc' = "closing" => cycle < MaxCycles
      BY <1>2 DEF OpenOverLive, SendChunk, Finalize, TypeOK
    <3>2. pc' = "publishing" => pc = "publishing" /\ ~finalized
      BY <1>2 DEF OpenOverLive, SendChunk, Finalize
    <3>3. pc' = "joining" => pc = "publishing"
      BY <1>2 DEF OpenOverLive, SendChunk, Finalize
    <3>4. \A c \in Cycles : c > cycle => c # cycle
      BY <2>3 DEF Cycles
    <3> QED BY <2>1, <2>3, <2>4, <2>5, <3>1, <3>2, <3>3, <3>4 DEF CallerInv
  <2> QED BY <2>7, <2>8, <2>9
<1>3. CASE GiveUp \/ Conclude
  <2>1. UNCHANGED <<cycle, sent, queues, exc, response, thread>> /\ cycle \in Cycles /\ pc' = "idle"
    BY <1>3 DEF GiveUp, Conclude, CallerInv
  <2>2. client' \in 0..MaxCycles
    BY <1>3 DEF GiveUp, Conclude, TypeOK
  <2>3. finalized' \in BOOLEAN /\ overran' \in BOOLEAN
    <3>1. CASE GiveUp
      BY <3>1, Zenon DEF GiveUp, TypeOK
    <3>2. CASE Conclude
      BY <3>2, Zenon DEF Conclude
    <3> QED BY <1>3, <3>1, <3>2
  <2>4. /\ outcome' \in [Cycles -> {"none", "abandoned", "failed", "delivered"}]
        /\ \A c \in Cycles : c # cycle => outcome'[c] = outcome[c]
    <3>1. Verdict \in {"failed", "delivered"}
      BY DEF Verdict
    <3> QED BY <1>3, <2>1, <3>1 DEF GiveUp, Conclude, TypeOK
  <2>5. TypeOK'
    BY <2>1, <2>2, <2>3, <2>4 DEF TypeOK
  <2>6. ASSUME NEW u \in Cycles PROVE ThreadInv(u)'
    BY <2>1 DEF ThreadInv
  <2>7. CallerInv'
    <3>1. \A c \in Cycles : c > cycle => c # cycle
      BY <2>1 DEF Cycles
    <3> QED BY <2>1, <2>4, <3>1 DEF CallerInv
  <2> QED BY <2>5, <2>6, <2>7
<1> QED BY <1>1, <1>2, <1>3 DEF Caller

-----------------------------------------------------------------------------
(* Where chunks are, after each kind of step *)

\* A step that moves no chunk.
Quiet ==
    /\ UNCHANGED <<queues, sent>>
    /\ cycle' = cycle \/ cycle' = cycle + 1
    /\ \A t \in Cycles :
          /\ thread'[t].body = thread[t].body /\ thread'[t].chunk = thread[t].chunk
          /\ thread'[t].at = "writing" => thread[t].at = "writing"
          /\ thread'[t].at = "waiting" =>
                \/ thread[t].at = "waiting" /\ thread'[t].queue = thread[t].queue
                \/ thread'[t].queue = cycle'
          /\ \A x : x # Sentinel => (Held(t, x)' <=> Held(t, x))

LEMMA QuietSteps ==
    ASSUME StreamingInv,
           \/ Opens
           \/ Stays
           \/ \E t \in Cycles : Begin(t) \/ Fetch(t) \/ WriteFails(t) \/ Answer(t) \/ Raise(t)
    PROVE  Quiet
<1> USE DEF StreamingInv
<1>1. CASE Opens
  <2>1. /\ cycle' = cycle + 1 /\ UNCHANGED <<sent, queues>> /\ cycle' \in Cycles /\ cycle' > cycle
        /\ thread[cycle'].at = "none"
        /\ thread'[cycle'].at = "start" /\ thread'[cycle'].chunk = Sentinel
        /\ thread'[cycle'].body = <<>>
        /\ \A t \in Cycles : t # cycle' => thread'[t] = thread[t]
    BY <1>1, FreshStep DEF Opens
  <2>2. thread[cycle'].chunk = Sentinel /\ thread[cycle'].body = <<>>
    BY <2>1 DEF ThreadInv
  <2>3. ASSUME NEW t \in Cycles, NEW x, x # Sentinel PROVE Held(t, x)' <=> Held(t, x)
    BY <2>1, <2>2, <2>3 DEF Held
  <2> QED BY <2>1, <2>2, <2>3 DEF Quiet
<1>2. CASE Stays
  BY <1>2 DEF Stays, Quiet, Held
<1>3. ASSUME NEW t \in Cycles, Begin(t) \/ Fetch(t) \/ WriteFails(t) \/ Answer(t) \/ Raise(t) PROVE Quiet
  <2>1. Sender(t)
    BY <1>3 DEF Sender
  <2>2. UNCHANGED caller /\ \A u \in Cycles : u # t => thread'[u] = thread[u]
    BY <2>1, SenderFrame
  <2>3. /\ queues' = queues
        /\ thread'[t].body = thread[t].body /\ thread'[t].chunk = thread[t].chunk
        /\ thread'[t].whole = thread[t].whole
        /\ \/ thread[t].at = "start" /\ thread'[t].at = "fetch"
           \/ thread[t].at = "fetch" /\ thread'[t].at = "waiting" /\ thread'[t].queue = cycle
           \/ thread[t].at = "writing" /\ thread'[t].at \in {"answer", "ended"}
           \/ thread[t].at = "answer" /\ thread'[t].at = "ended"
           \/ thread[t].at = "start" /\ thread'[t].at \in {"answer", "ended"}
    BY <1>3, StageStep
  <2>4. ThreadInv(t)
    OBVIOUS
  <2>5. ASSUME NEW x, x # Sentinel PROVE Held(t, x)' <=> Held(t, x)
    BY <2>3, <2>4, <2>5 DEF Held, ThreadInv
  <2>6. ASSUME NEW u \in Cycles, u # t, NEW x PROVE Held(u, x)' <=> Held(u, x)
    BY <2>2, <2>6 DEF Held
  <2> QED BY <2>2, <2>3, <2>5, <2>6 DEF Quiet, caller
<1> QED BY <1>1, <1>2, <1>3

LEMMA QuietKeeps == ASSUME StreamingInv, Quiet PROVE OriginInv' /\ OrderInv' /\ PlaceInv'
<1> USE DEF StreamingInv
<1>1. /\ UNCHANGED <<queues, sent>>
      /\ cycle' = cycle \/ cycle' = cycle + 1
      /\ \A t \in Cycles :
            /\ thread'[t].body = thread[t].body /\ thread'[t].chunk = thread[t].chunk
            /\ thread'[t].at = "writing" => thread[t].at = "writing"
  BY DEF Quiet
<1>2. \A x : Given(x)' <=> Given(x)
  BY <1>1 DEF Given
<1>4. OriginInv'
  BY <1>1, <1>2 DEF OriginInv
<1>5. OrderInv'
  <2>1. ASSUME NEW c \in Cycles, NEW i \in DOMAIN queues'[c], NEW j \in DOMAIN queues'[c], i < j,
               queues'[c][i] # Sentinel, queues'[c][j] # Sentinel
        PROVE  queues'[c][i].n < queues'[c][j].n
    BY <1>1, <2>1 DEF OrderInv
  <2>2. ASSUME NEW t \in Cycles, thread'[t].chunk # Sentinel
        PROVE  /\ thread'[t].chunk.cycle >= t
               /\ Ahead(thread'[t].chunk, queues'[thread'[t].chunk.cycle])
    BY <1>1, <2>2 DEF OrderInv
  <2>3. ASSUME NEW t \in Cycles, NEW i \in DOMAIN thread'[t].body
        PROVE  /\ thread'[t].body[i].cycle \in t..cycle'
               /\ Ahead(thread'[t].body[i], queues'[thread'[t].body[i].cycle])
               /\ thread'[t].at = "waiting" => thread'[t].body[i].cycle <= thread'[t].queue
               /\ thread'[t].at = "writing" => Before(thread'[t].body[i], thread'[t].chunk)
               /\ \A j \in DOMAIN thread'[t].body :
                     i < j => Before(thread'[t].body[i], thread'[t].body[j])
    <3> DEFINE x == thread[t].body[i]
    <3>1. i \in DOMAIN thread[t].body /\ x = thread'[t].body[i]
      BY <1>1
    <3>2. x.cycle \in t..cycle /\ Ahead(x, queues[x.cycle])
      BY <3>1 DEF OrderInv
    <3>3. cycle \in Nat /\ t \in Nat
      BY DEF TypeOK, Cycles
    <3>4. x.cycle \in t..cycle' /\ x.cycle <= cycle'
      BY <1>1, <3>2, <3>3
    <3>5. thread'[t].at = "waiting" => x.cycle <= thread'[t].queue
      <4>1. thread'[t].at = "waiting" =>
                \/ thread[t].at = "waiting" /\ thread'[t].queue = thread[t].queue
                \/ thread'[t].queue = cycle'
        BY DEF Quiet
      <4>2. thread[t].at = "waiting" => x.cycle <= thread[t].queue
        BY <3>1 DEF OrderInv
      <4> QED BY <3>4, <4>1, <4>2
    <3>6. thread'[t].at = "writing" => Before(x, thread[t].chunk)
      BY <1>1, <3>1 DEF OrderInv
    <3>7. \A j \in DOMAIN thread[t].body : i < j => Before(x, thread[t].body[j])
      BY <3>1 DEF OrderInv
    <3> HIDE DEF x
    <3> QED BY <1>1, <3>1, <3>2, <3>4, <3>5, <3>6, <3>7
  <2> QED BY <2>1, <2>2, <2>3 DEF OrderInv, Before, Ahead
<1>6. PlaceInv'
  <2> SUFFICES ASSUME NEW c \in Cycles, NEW n \in 1..sent'[c] PROVE OnePlace(Chunk(c, n))'
    BY DEF PlaceInv
  <2> DEFINE x == Chunk(c, n)
  <2>1. OnePlace(x)
    BY <1>1 DEF PlaceInv
  <2>2. x # Sentinel
    BY DEF Chunk, Sentinel, TypeOK, Cycles
  <2>3. \A t \in Cycles : Held(t, x)' <=> Held(t, x)
    BY <2>2 DEF Quiet
  <2> HIDE DEF x
  <2>4. (QueuedOnce(x)' <=> QueuedOnce(x)) /\ (NotQueued(x)' <=> NotQueued(x))
    BY <1>1 DEF QueuedOnce, NotQueued
  <2>5. (InBodyOnce(x)' <=> InBodyOnce(x)) /\ (NotInBody(x)' <=> NotInBody(x))
    BY <1>1 DEF InBodyOnce, NotInBody
  <2>6. (HeldOnce(x)' <=> HeldOnce(x)) /\ (NotHeld(x)' <=> NotHeld(x))
    BY <2>3 DEF HeldOnce, NotHeld
  <2>7. OnePlace(x)'
    BY <2>1, <2>4, <2>5, <2>6 DEF OnePlace
  <2> QED BY <2>7 DEF x
<1> QED BY <1>4, <1>5, <1>6

\* A thread takes the head of a queue: a chunk goes from there to the thread, the
\* rest of the queue moves up.
LEMMA TakeMoves ==
    ASSUME StreamingInv, NEW t \in Cycles, Get(t) \/ GetSentinel(t)
    PROVE  OriginInv' /\ OrderInv' /\ PlaceInv'
<1> USE DEF StreamingInv
<1> DEFINE q == thread[t].queue
           head == queues[q][1]
           S(c, i) == IF c = q THEN i + 1 ELSE i
<1>1. /\ q \in Cycles /\ q \in t..cycle /\ thread[t].at = "waiting"
      /\ queues' \in [Cycles -> Seq(ChunkType)]
      /\ Len(queues[q]) >= 1 /\ Len(queues'[q]) = Len(queues[q]) - 1
      /\ \A i \in 1..Len(queues'[q]) : queues'[q][i] = queues[q][i + 1]
      /\ \A c \in Cycles : c # q => queues'[c] = queues[c]
      /\ thread'[t].body = thread[t].body
      /\ \/ head # Sentinel /\ thread'[t].at = "writing" /\ thread'[t].chunk = head
         \/ head = Sentinel /\ thread'[t].at = "answer" /\ thread'[t].chunk = head
  BY TakeStep
<1>2. /\ \A u \in Cycles : u # t => thread'[u] = thread[u]
      /\ cycle' = cycle /\ sent' = sent
  BY SenderFrame DEF Sender, caller
<1>3. /\ \A c \in Cycles : DOMAIN queues[c] = 1..Len(queues[c]) /\ Len(queues[c]) \in Nat
      /\ \A c \in Cycles : DOMAIN queues'[c] = 1..Len(queues'[c]) /\ Len(queues'[c]) \in Nat
      /\ \A c \in Cycles : c \in Nat
  BY <1>1, SMTT(30) DEF TypeOK, Cycles
<1> HIDE DEF q, head
<1>4. 1 \in DOMAIN queues[q] /\ head = queues[q][1]
  BY <1>1, <1>3 DEF head
<1>5. \A c \in Cycles : \A i \in DOMAIN queues'[c] :
          S(c, i) \in DOMAIN queues[c] /\ queues'[c][i] = queues[c][S(c, i)] /\ S(q, i) > 1 /\ i \in Nat
  BY <1>1, <1>3, SMTT(30)
<1>6. \A c, i, j : i \in Nat /\ j \in Nat => (i < j => S(c, i) < S(c, j)) /\ (S(c, i) = S(c, j) => i = j)
  OBVIOUS
<1>7. \A c \in Cycles : \A i \in DOMAIN queues[c] :
          (c = q => i # 1) => \E j \in DOMAIN queues'[c] : S(c, j) = i
  <2> TAKE c \in Cycles
  <2> TAKE i \in DOMAIN queues[c]
  <2>1. CASE c = q /\ i # 1
    <3>1. i - 1 \in DOMAIN queues'[c] /\ S(c, i - 1) = i
      BY <1>1, <1>3, <2>1
    <3> QED BY <3>1
  <2>2. CASE c # q
    BY <1>1, <2>2
  <2> QED BY <2>1, <2>2
<1> HIDE DEF S
<1>8. ASSUME NEW c \in Cycles, NEW x, Ahead(x, queues[c]) PROVE Ahead(x, queues'[c])
  BY <1>5, <1>8 DEF Ahead
<1>9. OriginInv'
  <2>1. \A x : Given(x)' <=> Given(x)
    BY <1>2 DEF Given
  <2>2. head = Sentinel \/ Given(head)
    BY <1>1, <1>4 DEF OriginInv
  <2>3. ASSUME NEW c \in Cycles, NEW i \in DOMAIN queues'[c]
        PROVE  queues'[c][i] = Sentinel \/ (Given(queues[c][S(c, i)]) /\ queues'[c][i].cycle = c)
    BY <1>5 DEF OriginInv
  <2>4. ASSUME NEW u \in Cycles
        PROVE  /\ \A i \in DOMAIN thread'[u].body : Given(thread[u].body[i])
               /\ thread'[u].chunk = Sentinel \/ thread'[u].chunk = head \/ Given(thread[u].chunk)
               /\ thread'[u].chunk = thread[u].chunk \/ thread'[u].chunk = head
               /\ thread'[u].body = thread[u].body
               /\ thread'[u].at = "writing" => thread'[u].chunk # Sentinel
    <3>1. CASE u = t
      BY <1>1, <3>1 DEF OriginInv
    <3>2. CASE u # t
      BY <1>2, <3>2 DEF OriginInv
    <3> QED BY <3>1, <3>2
  <2> QED BY <1>2, <1>5, <2>2, <2>3, <2>4 DEF OriginInv, Given
<1>10. OrderInv'
  <2>1. ASSUME NEW c \in Cycles, NEW i \in DOMAIN queues'[c], NEW j \in DOMAIN queues'[c], i < j,
               queues'[c][i] # Sentinel, queues'[c][j] # Sentinel
        PROVE  queues'[c][i].n < queues'[c][j].n
    <3>1. S(c, i) \in DOMAIN queues[c] /\ S(c, j) \in DOMAIN queues[c] /\ S(c, i) < S(c, j)
          /\ queues'[c][i] = queues[c][S(c, i)] /\ queues'[c][j] = queues[c][S(c, j)]
      BY <1>5, <1>6, <2>1
    <3> QED BY <2>1, <3>1 DEF OrderInv
  <2>2. head # Sentinel => head.cycle = q /\ Ahead(head, queues'[q])
    <3> SUFFICES ASSUME head # Sentinel PROVE head.cycle = q /\ Ahead(head, queues'[q])
      OBVIOUS
    <3>1. head.cycle = q
      BY <1>1, <1>4 DEF OriginInv
    <3>2. ASSUME NEW j \in DOMAIN queues'[q], queues'[q][j] # Sentinel
          PROVE  head.n < queues'[q][j].n
      BY <1>1, <1>4, <1>5, <3>2 DEF OrderInv
    <3> QED BY <3>1, <3>2 DEF Ahead
  <2>3. ASSUME NEW u \in Cycles, thread'[u].chunk # Sentinel
        PROVE  thread'[u].chunk.cycle >= u /\ Ahead(thread'[u].chunk, queues'[thread'[u].chunk.cycle])
    <3>1. CASE u = t /\ thread'[t].chunk = head
      BY <1>1, <1>3, <2>2, <2>3, <3>1
    <3>2. CASE thread'[u].chunk = thread[u].chunk
      <4>1. thread[u].chunk.cycle >= u /\ Ahead(thread[u].chunk, queues[thread[u].chunk.cycle])
        BY <2>3, <3>2 DEF OrderInv
      <4>2. thread[u].chunk.cycle \in Cycles
        BY <2>3, <3>2 DEF OriginInv, Given
      <4> QED BY <1>8, <3>2, <4>1, <4>2
    <3> QED BY <1>1, <1>2, <3>1, <3>2
  <2>4. ASSUME NEW u \in Cycles, NEW i \in DOMAIN thread'[u].body
        PROVE  /\ thread'[u].body[i].cycle \in u..cycle'
               /\ Ahead(thread'[u].body[i], queues'[thread'[u].body[i].cycle])
               /\ thread'[u].at = "waiting" => thread'[u].body[i].cycle <= thread'[u].queue
               /\ thread'[u].at = "writing" => Before(thread'[u].body[i], thread'[u].chunk)
               /\ \A j \in DOMAIN thread'[u].body :
                     i < j => Before(thread'[u].body[i], thread'[u].body[j])
    <3> DEFINE x == thread[u].body[i]
    <3>1. thread'[u].body = thread[u].body /\ i \in DOMAIN thread[u].body /\ x = thread'[u].body[i]
      BY <1>1, <1>2
    <3>2. x.cycle \in u..cycle /\ Ahead(x, queues[x.cycle])
      BY <3>1 DEF OrderInv
    <3>3. x.cycle \in Cycles
      BY <3>1 DEF OriginInv, Given
    <3>4. Ahead(x, queues'[x.cycle])
      BY <1>8, <3>2, <3>3
    <3>5. thread'[u].at = "waiting" => x.cycle <= thread'[u].queue
      <4>1. thread'[u].at = "waiting" => u # t
        BY <1>1
      <4> QED BY <1>2, <3>1, <4>1 DEF OrderInv
    <3>6. thread'[u].at = "writing" => Before(x, thread'[u].chunk)
      <4>1. CASE u = t /\ head # Sentinel
        <5>1. x.cycle <= q
          BY <1>1, <3>1, <4>1 DEF OrderInv, q
        <5>2. x.cycle = q => x.n < head.n
          BY <1>4, <3>2, <4>1 DEF Ahead
        <5> QED BY <1>1, <1>3, <2>2, <3>3, <4>1, <5>1, <5>2 DEF Before
      <4>2. CASE u = t /\ head = Sentinel
        BY <1>1, <4>2
      <4>3. CASE u # t
        BY <1>2, <3>1, <4>3 DEF OrderInv
      <4> QED BY <4>1, <4>2, <4>3
    <3>7. \A j \in DOMAIN thread[u].body : i < j => Before(x, thread[u].body[j])
      BY <3>1 DEF OrderInv
    <3> HIDE DEF x
    <3> QED BY <1>2, <3>1, <3>2, <3>4, <3>5, <3>6, <3>7
  <2> QED BY <2>1, <2>3, <2>4 DEF OrderInv, Before, Ahead
<1>11. PlaceInv'
  <2> SUFFICES ASSUME NEW c \in Cycles, NEW n \in 1..sent'[c] PROVE OnePlace(Chunk(c, n))'
    BY DEF PlaceInv
  <2> DEFINE x == Chunk(c, n)
  <2>1. OnePlace(x)
    BY <1>2 DEF PlaceInv
  <2>2. x # Sentinel
    BY DEF Chunk, Sentinel, TypeOK, Cycles
  <2> HIDE DEF x
  <2>3. ~Held(t, x)
    BY <1>1, <2>2 DEF Held
  <2>4. \A u \in Cycles : u # t => (Held(u, x)' <=> Held(u, x))
    BY <1>2 DEF Held
  <2>5. (InBodyOnce(x)' <=> InBodyOnce(x)) /\ (NotInBody(x)' <=> NotInBody(x))
    <3>1. \A u \in Cycles : thread'[u].body = thread[u].body
      BY <1>1, <1>2
    <3> QED BY <3>1 DEF InBodyOnce, NotInBody
  <2>6. CASE x = head
    <3>1. ~NotQueued(x)
      BY <1>1, <1>4, <2>6 DEF NotQueued
    <3>2. QueuedOnce(x) /\ NotInBody(x) /\ NotHeld(x)
      BY <2>1, <3>1 DEF OnePlace
    <3>3. \A d \in Cycles : \A j \in DOMAIN queues[d] : queues[d][j] = x => d = q /\ j = 1
      BY <1>1, <1>4, <2>6, <3>2 DEF QueuedOnce
    <3>4. NotQueued(x)'
      <4>1. ASSUME NEW d \in Cycles, NEW j \in DOMAIN queues'[d] PROVE queues'[d][j] # x
        BY <1>5, <3>3, <4>1
      <4> QED BY <4>1 DEF NotQueued
    <3>5. Held(t, x)'
      BY <1>1, <2>2, <2>6 DEF Held
    <3>6. HeldOnce(x)'
      BY <2>4, <3>2, <3>5 DEF HeldOnce, NotHeld
    <3> QED BY <2>5, <3>2, <3>4, <3>6 DEF OnePlace, x
  <2>7. CASE x # head
    <3>1. ~Held(t, x)'
      BY <1>1, <2>7 DEF Held
    <3>2. (HeldOnce(x)' <=> HeldOnce(x)) /\ (NotHeld(x)' <=> NotHeld(x))
      BY <2>3, <2>4, <3>1 DEF HeldOnce, NotHeld
    <3>3. NotQueued(x) => NotQueued(x)'
      BY <1>5 DEF NotQueued
    <3>4. ASSUME QueuedOnce(x) PROVE QueuedOnce(x)'
      <4>0. PICK d \in Cycles : \E i \in DOMAIN queues[d] :
               /\ queues[d][i] = x
               /\ \A e \in Cycles : \A j \in DOMAIN queues[e] : queues[e][j] = x => e = d /\ j = i
        BY <3>4 DEF QueuedOnce
      <4>1. PICK i \in DOMAIN queues[d] :
               /\ queues[d][i] = x
               /\ \A e \in Cycles : \A j \in DOMAIN queues[e] : queues[e][j] = x => e = d /\ j = i
        BY <4>0
      <4>2. d = q => i # 1
        BY <1>4, <2>7, <4>1
      <4>3. PICK k \in DOMAIN queues'[d] : S(d, k) = i
        BY <1>7, <4>2
      <4>4. queues'[d][k] = x
        BY <1>5, <4>1, <4>3
      <4>5. ASSUME NEW e \in Cycles, NEW j \in DOMAIN queues'[e], queues'[e][j] = x
            PROVE  e = d /\ j = k
        <5>1. e = d /\ S(e, j) = i
          BY <1>5, <4>1, <4>5
        <5> QED BY <1>5, <1>6, <4>3, <5>1
      <4> QED BY <4>4, <4>5 DEF QueuedOnce
    <3> QED BY <2>1, <2>5, <3>2, <3>3, <3>4 DEF OnePlace, x
  <2> QED BY <2>6, <2>7
<1> QED BY <1>9, <1>10, <1>11

\* A thread writes: the chunk it holds goes to the end of the body.
LEMMA WriteMoves ==
    ASSUME StreamingInv, NEW t \in Cycles, Write(t)
    PROVE  OriginInv' /\ OrderInv' /\ PlaceInv'
<1> USE DEF StreamingInv
<1> DEFINE held == thread[t].chunk
           len == Len(thread[t].body)
<1>1. /\ queues' = queues /\ thread[t].at = "writing" /\ thread'[t].at = "fetch"
      /\ thread'[t].chunk = held
      /\ len \in Nat /\ Len(thread'[t].body) = len + 1
      /\ \A i \in 1..len : thread'[t].body[i] = thread[t].body[i]
      /\ thread'[t].body[len + 1] = held
      /\ thread' \in [Cycles -> ThreadType]
  BY WriteStep
<1>2. /\ \A u \in Cycles : u # t => thread'[u] = thread[u]
      /\ cycle' = cycle /\ sent' = sent
  BY SenderFrame DEF Sender, caller
<1>3. DOMAIN thread[t].body = 1..len /\ DOMAIN thread'[t].body = 1..(len + 1)
  BY <1>1 DEF TypeOK, ThreadType
<1> HIDE DEF held, len
<1>4. held = thread[t].chunk /\ held # Sentinel /\ Given(held)
  BY <1>1 DEF OriginInv, held
<1>5. held.cycle \in t..cycle /\ held.cycle \in Cycles
  <2>1. held.cycle >= t /\ held.cycle \in Cycles /\ held.n \in 1..sent[held.cycle]
    BY <1>4 DEF OrderInv, Given
  <2>2. sent[held.cycle] # 0
    BY <2>1
  <2>3. ~(held.cycle > cycle)
    BY <2>1, <2>2 DEF CallerInv
  <2> QED BY <2>1, <2>3 DEF Cycles, TypeOK
<1>6. ASSUME NEW u \in Cycles, NEW i \in DOMAIN thread'[u].body
      PROVE  \/ i \in DOMAIN thread[u].body /\ thread'[u].body[i] = thread[u].body[i]
                /\ ~(u = t /\ i = len + 1)
             \/ u = t /\ i = len + 1 /\ thread'[u].body[i] = held /\ i \notin DOMAIN thread[u].body
  BY <1>1, <1>2, <1>3
<1>7. \A u \in Cycles : \A i \in DOMAIN thread[u].body :
          i \in DOMAIN thread'[u].body /\ thread'[u].body[i] = thread[u].body[i]
  BY <1>1, <1>2, <1>3
<1>8. \A u \in Cycles : thread'[u].chunk = thread[u].chunk
  BY <1>1, <1>2 DEF held
<1>9. OriginInv'
  <2>1. ASSUME NEW u \in Cycles
        PROVE  /\ \A i \in DOMAIN thread'[u].body :
                      \/ Given(thread[u].body[i]) /\ i \in DOMAIN thread[u].body
                      \/ thread'[u].body[i] = held
               /\ thread'[u].at = "writing" => thread[u].chunk # Sentinel
    BY <1>1, <1>2, <1>6 DEF OriginInv
  <2> QED BY <1>1, <1>2, <1>4, <1>6, <1>8, <2>1 DEF OriginInv, Given
<1>10. OrderInv'
  <2>1. ASSUME NEW u \in Cycles, NEW i \in DOMAIN thread'[u].body
        PROVE  /\ thread'[u].body[i].cycle \in u..cycle'
               /\ Ahead(thread'[u].body[i], queues'[thread'[u].body[i].cycle])
               /\ thread'[u].at = "waiting" => thread'[u].body[i].cycle <= thread'[u].queue
               /\ thread'[u].at = "writing" => Before(thread'[u].body[i], thread'[u].chunk)
               /\ \A j \in DOMAIN thread'[u].body :
                     i < j => Before(thread'[u].body[i], thread'[u].body[j])
    <3>1. CASE u # t
      BY <1>1, <1>2, <3>1 DEF OrderInv
    <3>2. CASE u = t /\ i = len + 1
      <4>1. Ahead(held, queues[held.cycle])
        BY <1>4 DEF OrderInv
      <4>2. \A j \in DOMAIN thread'[u].body : ~(i < j)
        BY <1>1, <1>3, <3>2
      <4> QED BY <1>1, <1>2, <1>5, <3>2, <4>1, <4>2
    <3>3. CASE u = t /\ i # len + 1
      <4> DEFINE x == thread[t].body[i]
      <4>1. i \in DOMAIN thread[t].body /\ thread'[t].body[i] = x
        BY <1>6, <3>3
      <4>2. x.cycle \in u..cycle /\ Ahead(x, queues[x.cycle]) /\ Before(x, held)
        BY <1>1, <1>4, <3>3, <4>1 DEF OrderInv
      <4>3. ASSUME NEW j \in DOMAIN thread'[t].body, i < j PROVE Before(x, thread'[t].body[j])
        <5>1. CASE j = len + 1
          BY <1>1, <4>2, <5>1
        <5>2. CASE j # len + 1
          <6>1. j \in DOMAIN thread[t].body /\ thread'[t].body[j] = thread[t].body[j]
            BY <1>6, <5>2
          <6>2. Before(thread[t].body[i], thread[t].body[j])
            BY <4>1, <4>3, <6>1 DEF OrderInv
          <6> QED BY <6>1, <6>2
        <5> QED BY <5>1, <5>2
      <4> HIDE DEF x
      <4> QED BY <1>1, <1>2, <3>3, <4>1, <4>2, <4>3
    <3> QED BY <3>1, <3>2, <3>3
  <2>2. ASSUME NEW u \in Cycles, thread'[u].chunk # Sentinel
        PROVE  /\ thread'[u].chunk.cycle >= u
               /\ Ahead(thread'[u].chunk, queues'[thread'[u].chunk.cycle])
    BY <1>1, <1>8, <2>2 DEF OrderInv
  <2>3. \A c \in Cycles : \A i, j \in DOMAIN queues'[c] :
          i < j /\ queues'[c][i] # Sentinel /\ queues'[c][j] # Sentinel =>
              queues'[c][i].n < queues'[c][j].n
    BY <1>1 DEF OrderInv
  <2> QED BY <2>1, <2>2, <2>3 DEF OrderInv, Before, Ahead
<1>11. PlaceInv'
  <2> SUFFICES ASSUME NEW c \in Cycles, NEW n \in 1..sent'[c] PROVE OnePlace(Chunk(c, n))'
    BY DEF PlaceInv
  <2> DEFINE x == Chunk(c, n)
  <2>1. OnePlace(x)
    BY <1>2 DEF PlaceInv
  <2>2. x # Sentinel
    BY DEF Chunk, Sentinel, TypeOK, Cycles
  <2> HIDE DEF x
  <2>3. ~Held(t, x)'
    BY <1>1 DEF Held
  <2>4. \A u \in Cycles : u # t => (Held(u, x)' <=> Held(u, x))
    BY <1>2 DEF Held
  <2>5. (QueuedOnce(x)' <=> QueuedOnce(x)) /\ (NotQueued(x)' <=> NotQueued(x))
    BY <1>1 DEF QueuedOnce, NotQueued
  <2>6. CASE x = held
    <3>1. Held(t, x)
      BY <1>1, <1>4, <2>6 DEF Held
    <3>2. NotQueued(x) /\ NotInBody(x) /\ HeldOnce(x)
      BY <2>1, <3>1 DEF OnePlace, NotHeld
    <3>3. NotHeld(x)'
      BY <2>3, <2>4, <3>1, <3>2 DEF HeldOnce, NotHeld
    <3>4. InBodyOnce(x)'
      <4>1. len + 1 \in DOMAIN thread'[t].body /\ thread'[t].body[len + 1] = x
        BY <1>1, <1>3, <2>6
      <4>2. ASSUME NEW u \in Cycles, NEW j \in DOMAIN thread'[u].body, thread'[u].body[j] = x
            PROVE  u = t /\ j = len + 1
        BY <1>6, <3>2, <4>2 DEF NotInBody
      <4> QED BY <4>1, <4>2 DEF InBodyOnce
    <3> QED BY <2>5, <3>2, <3>3, <3>4 DEF OnePlace, x
  <2>7. CASE x # held
    <3>1. ~Held(t, x)
      BY <1>4, <2>7 DEF Held
    <3>2. (HeldOnce(x)' <=> HeldOnce(x)) /\ (NotHeld(x)' <=> NotHeld(x))
      BY <2>3, <2>4, <3>1 DEF HeldOnce, NotHeld
    <3>3. NotInBody(x) => NotInBody(x)'
      BY <1>6, <2>7 DEF NotInBody
    <3>4. ASSUME InBodyOnce(x) PROVE InBodyOnce(x)'
      <4>1. PICK v \in Cycles : \E i \in DOMAIN thread[v].body :
               /\ thread[v].body[i] = x
               /\ \A u \in Cycles : \A j \in DOMAIN thread[u].body :
                     thread[u].body[j] = x => u = v /\ j = i
        BY <3>4 DEF InBodyOnce
      <4>2. PICK i \in DOMAIN thread[v].body :
               /\ thread[v].body[i] = x
               /\ \A u \in Cycles : \A j \in DOMAIN thread[u].body :
                     thread[u].body[j] = x => u = v /\ j = i
        BY <4>1
      <4>3. i \in DOMAIN thread'[v].body /\ thread'[v].body[i] = x
        BY <1>7, <4>2
      <4>4. \A u \in Cycles : \A j \in DOMAIN thread'[u].body :
                thread'[u].body[j] = x => u = v /\ j = i
        BY <1>6, <2>7, <4>2
      <4> QED BY <4>3, <4>4 DEF InBodyOnce
    <3> QED BY <2>1, <2>5, <3>2, <3>3, <3>4 DEF OnePlace, x
  <2> QED BY <2>6, <2>7
<1> QED BY <1>9, <1>10, <1>11

\* The caller puts the sentinel or a new chunk at the end of a queue.
LEMMA PutMoves ==
    ASSUME StreamingInv, NEW x \in ChunkType, Puts(x)
    PROVE  OriginInv' /\ OrderInv' /\ PlaceInv'
<1> USE DEF StreamingInv
<1> DEFINE len == Len(queues[cycle])
           new == sent[cycle] + 1
<1>1. /\ len \in Nat /\ Len(queues'[cycle]) = len + 1
      /\ \A i \in 1..len : queues'[cycle][i] = queues[cycle][i]
      /\ queues'[cycle][len + 1] = x
      /\ \A c \in Cycles : c # cycle => queues'[c] = queues[c]
      /\ queues' \in [Cycles -> Seq(ChunkType)] /\ cycle \in Cycles
  BY PutStep DEF Puts
<1>2. cycle' = cycle /\ thread' = thread
  BY DEF Puts
<1>3. /\ \A c \in Cycles : sent[c] \in Nat /\ sent'[c] \in Nat
      /\ \A c \in Cycles : c # cycle => sent'[c] = sent[c]
      /\ \/ x = Sentinel /\ sent' = sent
         \/ x = Chunk(cycle, new) /\ sent'[cycle] = new
  BY <1>1 DEF Puts, TypeOK
<1>4. DOMAIN queues[cycle] = 1..len /\ DOMAIN queues'[cycle] = 1..(len + 1)
  BY <1>1 DEF TypeOK
<1> HIDE DEF len
<1>5. new \in Nat /\ new > sent[cycle] /\ new = sent[cycle] + 1 /\ new >= 1
  BY <1>1, <1>3
<1> HIDE DEF new
<1>6. \/ x.cycle = cycle /\ x.n = new /\ x # Sentinel /\ sent'[cycle] = new
      \/ x = Sentinel /\ sent' = sent
  <2>1. ASSUME x = Chunk(cycle, new) PROVE x.cycle = cycle /\ x.n = new
    BY <2>1 DEF Chunk
  <2>2. Sentinel.cycle = 0 /\ cycle # 0
    BY <1>1 DEF Sentinel, Chunk, Cycles
  <2>3. CASE x = Sentinel /\ sent' = sent
    BY <2>3
  <2>4. CASE x = Chunk(cycle, new) /\ sent'[cycle] = new
    <3>1. x.cycle = cycle /\ x.n = new
      BY <2>1, <2>4
    <3>2. x # Sentinel
      BY <2>2, <3>1
    <3> QED BY <2>4, <3>1, <3>2
  <2> QED BY <1>3, <2>3, <2>4
<1>7. ASSUME NEW c \in Cycles, NEW i \in DOMAIN queues'[c]
      PROVE  \/ i \in DOMAIN queues[c] /\ queues'[c][i] = queues[c][i] /\ ~(c = cycle /\ i = len + 1)
             \/ c = cycle /\ i = len + 1 /\ queues'[c][i] = x /\ i \notin DOMAIN queues[c]
  BY <1>1, <1>4
<1>8. \A c \in Cycles : \A i \in DOMAIN queues[c] :
          i \in DOMAIN queues'[c] /\ queues'[c][i] = queues[c][i]
  BY <1>1, <1>4
<1>9. ASSUME NEW y, Given(y)
      PROVE  /\ y \in ChunkType /\ y.cycle \in Cycles /\ y.n \in 1..sent[y.cycle] /\ y.n \in 1..sent'[y.cycle]
             /\ y.cycle = cycle /\ x # Sentinel => y.n < x.n
  <2>1. y \in ChunkType /\ y.cycle \in Cycles /\ y.n \in 1..sent[y.cycle]
    BY <1>9 DEF Given
  <2>2. sent[y.cycle] <= sent'[y.cycle]
    BY <1>1, <1>3, <1>5, <1>6, <2>1
  <2> QED BY <1>1, <1>3, <1>5, <1>6, <2>1, <2>2
<1>10. OriginInv'
  <2>1. ASSUME NEW c \in Cycles, NEW i \in DOMAIN queues'[c]
        PROVE  \/ queues'[c][i] = Sentinel
               \/ /\ queues'[c][i] \in ChunkType /\ queues'[c][i].cycle \in Cycles
                  /\ queues'[c][i].n \in 1..sent'[queues'[c][i].cycle] /\ queues'[c][i].cycle = c
    <3>1. CASE i \in DOMAIN queues[c] /\ queues'[c][i] = queues[c][i]
      BY <1>9, <3>1 DEF OriginInv
    <3>2. CASE c = cycle /\ queues'[c][i] = x
      BY <1>1, <1>5, <1>6, <3>2
    <3> QED BY <1>7, <3>1, <3>2
  <2>2. ASSUME NEW u \in Cycles
        PROVE  /\ \A i \in DOMAIN thread[u].body : Given(thread[u].body[i])
               /\ thread[u].chunk = Sentinel \/ Given(thread[u].chunk)
               /\ thread[u].at = "writing" => thread[u].chunk # Sentinel
    BY DEF OriginInv
  <2>3. \A y : Given(y) => /\ y \in ChunkType /\ y.cycle \in Cycles /\ y.n \in 1..sent'[y.cycle]
    BY <1>9
  <2> QED BY <1>2, <2>1, <2>2, <2>3 DEF OriginInv, Given
<1>11. OrderInv'
  <2>1. ASSUME NEW c \in Cycles, NEW i \in DOMAIN queues'[c], NEW j \in DOMAIN queues'[c], i < j,
               queues'[c][i] # Sentinel, queues'[c][j] # Sentinel
        PROVE  queues'[c][i].n < queues'[c][j].n
    <3>1. i \in DOMAIN queues[c] /\ queues'[c][i] = queues[c][i]
      BY <1>1, <1>4, <1>7, <2>1
    <3>2. CASE j \in DOMAIN queues[c] /\ queues'[c][j] = queues[c][j]
      BY <2>1, <3>1, <3>2 DEF OrderInv
    <3>3. CASE c = cycle /\ queues'[c][j] = x
      <4>1. Given(queues[c][i]) /\ queues[c][i].cycle = c
        BY <2>1, <3>1 DEF OriginInv
      <4> QED BY <1>9, <2>1, <3>1, <3>3, <4>1
    <3> QED BY <1>7, <3>2, <3>3
  <2>2. ASSUME NEW y, Given(y), Ahead(y, queues[y.cycle]) PROVE Ahead(y, queues'[y.cycle])
    <3>1. y.cycle \in Cycles
      BY <2>2 DEF Given
    <3>2. ASSUME NEW j \in DOMAIN queues'[y.cycle], queues'[y.cycle][j] # Sentinel
          PROVE  y.n < queues'[y.cycle][j].n
      <4>1. CASE j \in DOMAIN queues[y.cycle] /\ queues'[y.cycle][j] = queues[y.cycle][j]
        BY <2>2, <3>2, <4>1 DEF Ahead
      <4>2. CASE y.cycle = cycle /\ queues'[y.cycle][j] = x
        BY <1>9, <2>2, <3>2, <4>2
      <4> QED BY <1>7, <3>1, <4>1, <4>2
    <3> QED BY <3>2 DEF Ahead
  <2>3. ASSUME NEW u \in Cycles
        PROVE  /\ thread[u].chunk # Sentinel => Given(thread[u].chunk)
               /\ \A i \in DOMAIN thread[u].body : Given(thread[u].body[i])
    BY DEF OriginInv
  <2>4. ASSUME NEW u \in Cycles, thread[u].chunk # Sentinel
        PROVE  /\ thread[u].chunk.cycle >= u
               /\ Ahead(thread[u].chunk, queues'[thread[u].chunk.cycle])
    BY <2>2, <2>3, <2>4 DEF OrderInv
  <2>5. ASSUME NEW u \in Cycles, NEW i \in DOMAIN thread[u].body
        PROVE  /\ thread[u].body[i].cycle \in u..cycle
               /\ Ahead(thread[u].body[i], queues'[thread[u].body[i].cycle])
               /\ thread[u].at = "waiting" => thread[u].body[i].cycle <= thread[u].queue
               /\ thread[u].at = "writing" => Before(thread[u].body[i], thread[u].chunk)
               /\ \A j \in DOMAIN thread[u].body :
                     i < j => Before(thread[u].body[i], thread[u].body[j])
    <3>1. Ahead(thread[u].body[i], queues[thread[u].body[i].cycle])
      BY DEF OrderInv
    <3>2. Ahead(thread[u].body[i], queues'[thread[u].body[i].cycle])
      BY <2>2, <2>3, <3>1
    <3> QED BY <3>2 DEF OrderInv
  <2> QED BY <1>2, <2>1, <2>4, <2>5, SMTT(30) DEF OrderInv, Before, Ahead
<1>12. PlaceInv'
  <2> SUFFICES ASSUME NEW c \in Cycles, NEW n \in 1..sent'[c] PROVE OnePlace(Chunk(c, n))'
    BY DEF PlaceInv
  <2> DEFINE y == Chunk(c, n)
  <2>1. y.cycle = c /\ y.n = n /\ y # Sentinel
    <3>1. y.cycle = c /\ y.n = n /\ Sentinel.cycle = 0 /\ c # 0
      BY DEF Chunk, Sentinel, Cycles
    <3> QED BY <3>1
  <2>2. /\ NotInBody(y)' <=> NotInBody(y)
        /\ InBodyOnce(y)' <=> InBodyOnce(y)
        /\ NotHeld(y)' <=> NotHeld(y)
        /\ HeldOnce(y)' <=> HeldOnce(y)
    BY <1>2 DEF NotInBody, InBodyOnce, NotHeld, HeldOnce, Held
  <2>3. CASE y = x
    <3>1. ~Given(y)
      BY <1>1, <1>3, <1>6, <1>5, <2>1, <2>3 DEF Given
    <3>2. NotInBody(y) /\ NotHeld(y) /\ NotQueued(y)
      BY <2>1, <3>1 DEF OriginInv, NotInBody, NotHeld, NotQueued, Held
    <3>3. QueuedOnce(y)'
      <4>1. len + 1 \in DOMAIN queues'[cycle] /\ queues'[cycle][len + 1] = y /\ cycle \in Cycles
        BY <1>1, <1>4, <2>3
      <4>2. \A d \in Cycles : \A j \in DOMAIN queues'[d] :
                queues'[d][j] = y => d = cycle /\ j = len + 1
        BY <1>7, <3>2 DEF NotQueued
      <4> HIDE DEF y
      <4> QED BY <4>1, <4>2 DEF QueuedOnce
    <3> QED BY <2>2, <3>2, <3>3 DEF OnePlace
  <2>4. CASE y # x
    <3>1. n \in 1..sent[c]
      <4>1. CASE c # cycle \/ x = Sentinel
        BY <1>3, <1>6, <4>1
      <4>2. CASE c = cycle /\ x # Sentinel
        <5>1. n # new
          BY <1>3, <1>6, <2>4, <4>2
        <5> QED BY <1>1, <1>3, <1>5, <1>6, <4>2, <5>1
      <4> QED BY <4>1, <4>2
    <3>2. OnePlace(y)
      BY <3>1 DEF PlaceInv
    <3> HIDE DEF y
    <3>3. NotQueued(y) => NotQueued(y)'
      BY <1>7, <2>4 DEF NotQueued
    <3>4. ASSUME QueuedOnce(y) PROVE QueuedOnce(y)'
      <4>1. PICK v \in Cycles : \E i \in DOMAIN queues[v] :
               /\ queues[v][i] = y
               /\ \A d \in Cycles : \A j \in DOMAIN queues[d] : queues[d][j] = y => d = v /\ j = i
        BY <3>4 DEF QueuedOnce
      <4>2. PICK i \in DOMAIN queues[v] :
               /\ queues[v][i] = y
               /\ \A d \in Cycles : \A j \in DOMAIN queues[d] : queues[d][j] = y => d = v /\ j = i
        BY <4>1
      <4>3. i \in DOMAIN queues'[v] /\ queues'[v][i] = y
        BY <1>8, <4>2
      <4>4. \A d \in Cycles : \A j \in DOMAIN queues'[d] : queues'[d][j] = y => d = v /\ j = i
        BY <1>7, <2>4, <4>2
      <4> QED BY <4>3, <4>4 DEF QueuedOnce
    <3> QED BY <2>2, <3>2, <3>3, <3>4 DEF OnePlace, y
  <2> QED BY <2>3, <2>4
<1> QED BY <1>10, <1>11, <1>12

-----------------------------------------------------------------------------
(* While no join timed out *)

\* The numbers a request under way is described with.
LEMMA StreamNumbers ==
    ASSUME StreamingInv, cycle \in Cycles
    PROVE  /\ thread[cycle].body \in Seq(ChunkType) /\ Len(thread[cycle].body) \in Nat
           /\ DOMAIN thread[cycle].body = 1..Len(thread[cycle].body)
           /\ taken \in Nat /\ sent[cycle] \in Nat /\ Len(queues[cycle]) \in Nat
           /\ DOMAIN queues[cycle] = 1..Len(queues[cycle]) /\ cycle # 0
           /\ \A n : Chunk(cycle, n) # Sentinel
<1> USE DEF StreamingInv
<1>1. thread[cycle].body \in Seq(ChunkType) /\ queues[cycle] \in Seq(ChunkType)
  BY DEF TypeOK, ThreadType
<1>2. Len(thread[cycle].body) \in Nat /\ Len(queues[cycle]) \in Nat
      /\ DOMAIN thread[cycle].body = 1..Len(thread[cycle].body)
      /\ DOMAIN queues[cycle] = 1..Len(queues[cycle])
  BY <1>1
<1>3. taken \in Nat
  <2> DEFINE b == Len(thread[cycle].body)
  <2>1. b \in Nat
    BY <1>2
  <2>2. taken = b + (IF thread[cycle].at = "writing" THEN 1 ELSE 0)
    BY DEF taken
  <2> HIDE DEF b
  <2>3. taken = b + 1 \/ taken = b + 0
    BY <2>2, Zenon
  <2> QED BY <2>1, <2>3
<1>4. sent[cycle] \in Nat /\ cycle # 0
  BY DEF TypeOK, Cycles
<1>5. ASSUME NEW n PROVE Chunk(cycle, n) # Sentinel
  <2>1. Chunk(cycle, n).cycle = cycle /\ Sentinel.cycle = 0
    BY DEF Chunk, Sentinel
  <2> QED BY <1>4, <2>1
<1> QED BY <1>1, <1>2, <1>3, <1>4, <1>5

\* A thread that steps is the current one, and no verdict on its cycle was given.
LEMMA OnlyCurrent ==
    ASSUME StreamingInv, ~overran, NEW t \in Cycles, Sender(t)
    PROVE  /\ t = cycle /\ cycle \in Cycles /\ IsAlive(t) /\ CurrentInv
           /\ outcome[t] \notin {"delivered", "failed"}
<1> USE DEF StreamingInv
<1>1. cycle \in Cycles /\ t \in 1..cycle /\ IsAlive(t)
  BY SenderFrame
<1>2. t = cycle
  BY <1>1 DEF CleanInv, Cycles
<1>3. CurrentInv
  BY <1>1 DEF CleanInv, Cycles
<1> QED BY <1>1, <1>2, <1>3 DEF CleanInv, IsAlive, Done

LEMMA CleanSender ==
    ASSUME StreamingInv, NEW t \in Cycles, Sender(t)
    PROVE  CleanInv'
<1> USE DEF StreamingInv
<1> SUFFICES ASSUME ~overran' PROVE CleanInv'
  BY DEF CleanInv
<1>1. UNCHANGED caller /\ \A u \in Cycles : u # t => thread'[u] = thread[u]
  BY SenderFrame
<1>2. /\ pc' = pc /\ cycle' = cycle /\ sent' = sent /\ outcome' = outcome /\ overran' = overran
      /\ ~overran
  BY <1>1 DEF caller
<1>3. t = cycle /\ IsAlive(t) /\ CurrentInv /\ outcome[t] \notin {"delivered", "failed"}
  BY <1>2, OnlyCurrent
<1>4. ASSUME NEW c \in Cycles
      PROVE  /\ c < cycle => ~IsAlive(c)'
             /\ outcome'[c] = "delivered" => Done(c)'
             /\ outcome'[c] = "failed" =>
                   thread'[c].at = "ended" /\ (thread'[c].status = 0 \/ thread'[c].status >= 400)
  <2>1. CASE c = t
    BY <1>2, <1>3, <2>1 DEF Cycles
  <2>2. CASE c # t
    <3>1. thread'[c] = thread[c] /\ sent'[c] = sent[c] /\ outcome'[c] = outcome[c]
      BY <1>1, <1>2, <2>2
    <3>2. /\ c < cycle => ~IsAlive(c)
          /\ outcome[c] = "delivered" => Done(c)
          /\ outcome[c] = "failed" =>
                thread[c].at = "ended" /\ (thread[c].status = 0 \/ thread[c].status >= 400)
      BY <1>2 DEF CleanInv
    <3> QED BY <3>1, <3>2 DEF IsAlive, Done, SentPart, Received, AllChunks
  <2> QED BY <2>1, <2>2
<1> DEFINE b == Len(thread[cycle].body)
           m == sent[cycle]
           len == Len(queues[cycle])
<1>5. /\ thread[cycle].body \in Seq(ChunkType) /\ b \in Nat /\ DOMAIN thread[cycle].body = 1..b
      /\ taken \in Nat /\ m \in Nat /\ len \in Nat /\ cycle # 0
      /\ \A n : Chunk(cycle, n) # Sentinel
      /\ taken = b + (IF thread[cycle].at = "writing" THEN 1 ELSE 0)
  BY <1>3, StreamNumbers DEF taken
<1>6. /\ thread[t].at \notin {"none", "ended"} /\ exc = 0 /\ response = 0
      /\ thread[t].whole => pc # "publishing" /\ thread[t].body = AllChunks(cycle)
      /\ thread[t].at # "answer" => StreamInv
      /\ SentPart(cycle)
  BY <1>3 DEF CurrentInv, IsAlive
<1>7. ThreadInv(t)
  OBVIOUS
<1>8. AllChunks(cycle)' = AllChunks(cycle)
  BY <1>2 DEF AllChunks
<1>9. CurrentInv'
  <2>1. CASE Begin(t) \/ Fetch(t) \/ WriteFails(t) \/ Answer(t) \/ Raise(t)
    <3>1. queues' = queues /\ thread'[t].body = thread[t].body /\ thread'[t].chunk = thread[t].chunk
          /\ thread'[t].whole = thread[t].whole
      BY <2>1, StageStep
    <3>0. SentPart(cycle)'
      BY <1>2, <1>3, <1>6, <3>1 DEF SentPart
    <3>2. CASE thread[t].at \in {"start", "fetch"} /\ thread'[t].at \in {"fetch", "waiting"}
               /\ UNCHANGED <<exc, response>>
      <4>1. taken' = taken
        BY <1>2, <1>3, <3>1, <3>2 DEF taken
      <4>2. StreamInv'
        BY <1>2, <1>3, <1>6, <1>7, <3>1, <3>2, <4>1 DEF StreamInv, ending, ThreadInv
      <4> QED BY <1>2, <1>3, <1>6, <1>7, <3>0, <3>1, <3>2, <4>2 DEF CurrentInv, ThreadInv
    <3>4. CASE thread[t].at \in {"start", "writing"} /\ thread'[t].at = "answer"
               /\ UNCHANGED <<exc, response>>
      BY <1>2, <1>3, <1>6, <1>7, <3>0, <3>1, <3>4 DEF CurrentInv, ThreadInv
    <3>3. CASE thread'[t].at = "ended"
      <4>1. EndedInv'
        <5>1. CASE thread'[t].status \in Statuses /\ exc' = exc /\ response' = t
          <6>1. thread'[t].status # 0
            BY <5>1, StreamingAssumption
          <6> QED BY <1>2, <1>3, <1>6, <5>1, <6>1 DEF EndedInv
        <5>2. CASE thread'[t].status = thread[t].status /\ exc' = t
          BY <1>2, <1>3, <1>6, <1>7, <5>2 DEF EndedInv, ThreadInv
        <5> QED BY <2>1, <3>3, <5>1, <5>2, StageStep
      <4> QED BY <1>2, <1>3, <1>6, <1>8, <3>0, <3>1, <3>3, <4>1 DEF CurrentInv
    <3> QED BY <2>1, <3>2, <3>3, <3>4, StageStep
  <2>2. CASE Get(t) \/ GetSentinel(t)
    <3> DEFINE q == queues[cycle]
               r == queues'[cycle]
    <3>1. thread[t].queue = cycle /\ thread[t].at = "waiting" /\ UNCHANGED <<exc, response>>
      <4>1. thread[t].queue \in t..cycle /\ thread[t].at = "waiting" /\ UNCHANGED <<exc, response>>
        BY <2>2, TakeStep
      <4> QED BY <1>3, <4>1 DEF Cycles
    <3>2. /\ len >= 1 /\ Len(r) = len - 1
          /\ \A i \in 1..Len(r) : r[i] = q[i + 1]
          /\ thread'[t].body = thread[t].body
          /\ \/ q[1] # Sentinel /\ thread'[t].at = "writing" /\ thread'[t].chunk = q[1]
                /\ thread'[t].whole = thread[t].whole
             \/ q[1] = Sentinel /\ thread'[t].at = "answer"
      BY <2>2, <3>1, TakeStep
    <3>0. SentPart(cycle)'
      BY <1>2, <1>3, <1>6, <3>2 DEF SentPart
    <3>3. ~thread[t].whole /\ StreamInv /\ taken = b
      BY <1>3, <1>5, <1>6, <1>7, <3>1 DEF ThreadInv
    <3>4. /\ taken <= m
          /\ \A n \in 1..b : thread[cycle].body[n] = Chunk(cycle, n)
          /\ ending \in BOOLEAN
          /\ len = (m - taken) + (IF ending THEN 1 ELSE 0)
          /\ \A i \in 1..(m - taken) : q[i] = Chunk(cycle, taken + i)
          /\ ending => q[len] = Sentinel
      <4>1. ending \in BOOLEAN
        BY DEF ending
      <4>2. /\ taken <= m
            /\ \A n \in DOMAIN thread[cycle].body : thread[cycle].body[n] = Chunk(cycle, n)
            /\ len = (m - taken) + (IF ending THEN 1 ELSE 0)
            /\ \A i \in 1..(m - taken) : q[i] = Chunk(cycle, taken + i)
            /\ ending => q[len] = Sentinel
        BY <3>3, Zenon DEF StreamInv
      <4> QED BY <1>5, <4>1, <4>2
    <3> DEFINE k == taken
               p == ending
    <3>5. k \in Nat /\ k = taken /\ (p <=> ending)
      BY <1>5
    <3> HIDE DEF b, m, len, q, r, k, p
    <3>6. CASE q[1] # Sentinel
      <4>1. k < m
        <5>1. SUFFICES ASSUME k = m PROVE FALSE
          BY <1>5, <3>4, <3>5
        <5>2. len = 1 /\ p
          BY <1>5, <3>2, <3>4, <3>5, <5>1
        <5> QED BY <3>4, <3>5, <3>6, <5>2
      <4>2. q[1] = Chunk(cycle, k + 1)
        <5>1. 1 \in 1..(m - k)
          BY <1>5, <3>5, <4>1
        <5> QED BY <3>4, <3>5, <5>1
      <4>3. taken' = k + 1 /\ sent'[cycle] = m /\ (ending' <=> p)
        BY <1>2, <1>3, <3>2, <3>3, <3>5, <3>6 DEF taken, ending, b, m
      <4>4. Len(r) = (m - (k + 1)) + (IF p THEN 1 ELSE 0)
        BY <1>5, <3>2, <3>4, <3>5
      <4>5. ASSUME NEW i \in 1..(m - (k + 1)) PROVE r[i] = Chunk(cycle, k + 1 + i)
        <5>1. i \in 1..Len(r) /\ i + 1 \in 1..(m - k) /\ k + (i + 1) = k + 1 + i
          BY <1>5, <3>5, <4>1, <4>4
        <5>2. q[i + 1] = Chunk(cycle, k + (i + 1))
          BY <3>4, <3>5, <5>1
        <5> QED BY <3>2, <5>1, <5>2
      <4>6. p => r[Len(r)] = Sentinel
        <5>1. p => Len(r) \in 1..Len(r) /\ Len(r) + 1 = len
          BY <1>5, <3>2, <3>5, <4>1, <4>4
        <5> QED BY <3>2, <3>4, <3>5, <5>1
      <4>7. /\ DOMAIN thread'[cycle].body = 1..b
            /\ \A n \in 1..b : thread'[cycle].body[n] = Chunk(cycle, n)
            /\ thread'[cycle].chunk = Chunk(cycle, k + 1)
        BY <1>3, <1>5, <3>2, <3>4, <3>6, <4>2
      <4>8. k + 1 <= m
        BY <1>5, <3>5, <4>1
      <4>9. StreamInv'
        BY <1>2, <4>3, <4>4, <4>5, <4>6, <4>7, <4>8 DEF StreamInv, r
      <4> QED BY <1>2, <1>3, <1>6, <3>0, <3>1, <3>2, <3>3, <3>6, <4>9 DEF CurrentInv
    <3>7. CASE q[1] = Sentinel
      <4>1. k = m
        <5>1. SUFFICES ASSUME k < m PROVE FALSE
          BY <1>5, <3>4, <3>5
        <5>2. 1 \in 1..(m - k)
          BY <1>5, <3>5, <5>1
        <5>3. q[1] = Chunk(cycle, k + 1)
          BY <3>4, <3>5, <5>2
        <5> QED BY <1>5, <3>7, <5>3
      <4>2. p
        BY <1>5, <3>2, <3>4, <3>5, <4>1
      <4>3. thread[cycle].body = AllChunks(cycle)
        <5>1. DOMAIN thread[cycle].body = 1..m
          BY <1>5, <3>3, <3>5, <4>1
        <5>2. thread[cycle].body = [n \in 1..m |-> thread[cycle].body[n]]
          BY <1>5, <5>1
        <5>3. \A n \in 1..m : thread[cycle].body[n] = Chunk(cycle, n)
          BY <3>3, <3>4, <3>5, <4>1
        <5> QED BY <5>2, <5>3 DEF AllChunks, m
      <4>4. pc' # "publishing"
        BY <1>2, <3>5, <4>2 DEF ending
      <4>5. thread'[cycle'].at = "answer" /\ thread'[cycle'].body = AllChunks(cycle)
        BY <1>2, <1>3, <3>2, <3>7, <4>3
      <4> QED BY <1>2, <1>6, <1>8, <3>0, <3>1, <4>4, <4>5 DEF CurrentInv
    <3> QED BY <3>6, <3>7
  <2>3. CASE Write(t)
    <3>1. /\ queues' = queues /\ thread[t].at = "writing" /\ UNCHANGED <<exc, response>>
          /\ thread'[t].at = "fetch" /\ thread'[t].whole = thread[t].whole
          /\ Len(thread'[t].body) = b + 1
          /\ \A i \in 1..b : thread'[t].body[i] = thread[t].body[i]
          /\ thread'[t].body[b + 1] = thread[t].chunk
          /\ thread'[t].body \in Seq(ChunkType)
      BY <1>3, <2>3, WriteStep DEF ThreadType
    <3>2. DOMAIN thread'[t].body = 1..(b + 1) /\ taken = b + 1 /\ taken' = b + 1
      BY <1>2, <1>3, <1>5, <3>1 DEF taken
    <3>3. ~thread[t].whole /\ StreamInv
      BY <1>6, <1>7, <3>1 DEF ThreadInv
    <3>4. /\ \A n \in 1..b : thread[t].body[n] = Chunk(cycle, n)
          /\ thread[t].chunk = Chunk(cycle, b + 1)
      BY <1>3, <1>5, <3>1, <3>2, <3>3 DEF StreamInv
    <3>5. ASSUME NEW n \in DOMAIN thread'[t].body PROVE thread'[t].body[n] = Chunk(cycle, n)
      <4>1. n \in 1..b \/ n = b + 1
        BY <1>5, <3>2
      <4> QED BY <3>1, <3>4, <4>1
    <3>6. StreamInv'
      <4> HIDE DEF b, m, len
      <4> QED BY <1>2, <1>3, <3>1, <3>2, <3>3, <3>5 DEF StreamInv, ending
    <3>7. SentPart(cycle)'
      <4>1. taken <= m
        BY <3>3 DEF StreamInv
      <4> QED BY <1>2, <1>3, <3>1, <3>2, <3>5, <4>1 DEF SentPart
    <3> QED BY <1>2, <1>3, <1>6, <3>1, <3>3, <3>6, <3>7 DEF CurrentInv
  <2> QED BY <2>1, <2>2, <2>3 DEF Sender
<1> QED BY <1>2, <1>4, <1>5, <1>9 DEF CleanInv

LEMMA CleanCaller ==
    ASSUME StreamingInv, Caller
    PROVE  CleanInv'
<1> USE DEF StreamingInv
<1> SUFFICES ASSUME ~overran' PROVE CleanInv'
  BY DEF CleanInv
<1>1. ~overran
  <2>1. CASE OpenAlone \/ OpenOverLive \/ SendChunk \/ Finalize \/ GiveUp
    BY <2>1 DEF OpenAlone, OpenOverLive, SendChunk, Finalize, GiveUp
  <2>2. CASE JoinOld \/ Conclude
    BY <2>2 DEF JoinOld, Conclude
  <2> QED BY <2>1, <2>2 DEF Caller
<1>2. ASSUME NEW c \in Cycles
      PROVE  /\ c < cycle => ~IsAlive(c)
             /\ outcome[c] = "delivered" => Done(c)
             /\ outcome[c] = "failed" =>
                   thread[c].at = "ended" /\ (thread[c].status = 0 \/ thread[c].status >= 400)
  BY <1>1 DEF CleanInv
<1>3. cycle # 0 => CurrentInv
  BY <1>1 DEF CleanInv
<1>4. cycle \in Nat /\ \A c \in Cycles : c \in Nat /\ c # 0
  BY DEF TypeOK, Cycles
<1>5. CASE OpenAlone \/ JoinOld
  <2>1. cycle < MaxCycles /\ FreshCycle /\ queues' = queues
    BY <1>5 DEF OpenAlone, JoinOld, CallerInv
  <2>2. cycle > 0 => ~IsAlive(cycle)
    BY <1>4, <1>5 DEF OpenAlone, JoinOld
  <2>3. /\ cycle' = cycle + 1 /\ cycle' \in Cycles
        /\ pc' = "publishing" /\ exc' = 0 /\ response' = 0
        /\ UNCHANGED <<sent, outcome>>
        /\ thread'[cycle'].at = "start"
        /\ thread'[cycle'].body = <<>> /\ ~thread'[cycle'].whole
        /\ \A t \in Cycles : t # cycle' => thread'[t] = thread[t]
    BY <2>1, FreshStep
  <2>4. sent[cycle'] = 0 /\ queues[cycle'] = <<>> /\ outcome[cycle'] = "none" /\ cycle' > cycle
    BY <1>4, <2>3 DEF CallerInv
  <2>5. ASSUME NEW c \in Cycles
        PROVE  /\ c < cycle' => ~IsAlive(c)'
               /\ outcome'[c] = "delivered" => Done(c)'
               /\ outcome'[c] = "failed" =>
                     thread'[c].at = "ended" /\ (thread'[c].status = 0 \/ thread'[c].status >= 400)
    <3>1. CASE c = cycle'
      BY <1>4, <2>3, <2>4, <3>1
    <3>2. CASE c # cycle'
      <4>1. thread'[c] = thread[c] /\ sent' = sent /\ outcome' = outcome
        BY <2>3, <3>2
      <4>2. c < cycle' => ~IsAlive(c)
        <5>1. CASE c = cycle
          BY <1>4, <2>2, <5>1
        <5>2. CASE c # cycle
          <6>1. cycle' = cycle + 1
            BY <2>3
          <6>2. c < cycle' => c < cycle
            BY <1>4, <5>2, <6>1
          <6>3. c < cycle => ~IsAlive(c)
            BY <1>2
          <6> QED BY <6>2, <6>3
        <5> QED BY <5>1, <5>2
      <4> QED BY <1>2, <4>1, <4>2 DEF IsAlive, Done, SentPart, Received, AllChunks
    <3> QED BY <3>1, <3>2
  <2>6. StreamInv'
    <3>1. taken' = 0
      BY <2>3 DEF taken
    <3>2. ~ending' /\ queues'[cycle'] = <<>> /\ sent'[cycle'] = 0 /\ thread'[cycle'].body = <<>>
          /\ thread'[cycle'].at = "start"
      BY <2>1, <2>3, <2>4 DEF ending
    <3> QED BY <3>1, <3>2 DEF StreamInv
  <2>8. SentPart(cycle)'
    BY <2>3, <2>4 DEF SentPart
  <2>7. CurrentInv'
    BY <2>3, <2>6, <2>8 DEF CurrentInv
  <2> QED BY <1>4, <2>3, <2>5, <2>7 DEF CleanInv
<1>6. CASE \E x \in ChunkType : Puts(x)
  <2>1. PICK x \in ChunkType : Puts(x)
    BY <1>6
  <2>2. /\ cycle \in Cycles /\ cycle # 0
        /\ UNCHANGED <<cycle, thread, exc, response, overran, outcome>>
        /\ \A c \in Cycles : c # cycle => sent'[c] = sent[c]
    BY <1>4, <2>1 DEF Puts, TypeOK
  <2> DEFINE k == taken
             m == sent[cycle]
             len == Len(queues[cycle])
  <2>3. k \in Nat /\ m \in Nat /\ len \in Nat
    BY <2>2, StreamNumbers
  <2>4. /\ Len(queues'[cycle]) = len + 1
        /\ \A i \in 1..len : queues'[cycle][i] = queues[cycle][i]
        /\ queues'[cycle][len + 1] = x
    BY <2>1, <2>2, PutStep DEF Puts
  <2>5. taken' = k
    BY <2>2 DEF taken
  <2>6. ASSUME NEW c \in Cycles
        PROVE  /\ c < cycle' => ~IsAlive(c)'
               /\ outcome'[c] = "delivered" => Done(c)'
               /\ outcome'[c] = "failed" =>
                     thread'[c].at = "ended" /\ (thread'[c].status = 0 \/ thread'[c].status >= 400)
    <3>1. CASE sent'[c] = sent[c]
      BY <1>2, <2>2, <3>1 DEF IsAlive, Done, SentPart, Received, AllChunks
    <3>2. CASE sent'[c] # sent[c]
      <4>1. c = cycle /\ pc = "publishing"
        BY <2>1, <2>2, <3>2 DEF Puts
      <4>2. outcome[c] = "none"
        BY <2>2, <4>1 DEF CallerInv
      <4> QED BY <1>4, <2>2, <4>1, <4>2
    <3> QED BY <3>1, <3>2
  <2>7. CASE x = Sentinel /\ sent' = sent
    <3>1. ~ending /\ ending' /\ pc' # "publishing"
      BY <1>4, <2>1, <2>2, <2>7 DEF Puts, ending, Chunk, Sentinel
    <3>2. AllChunks(cycle)' = AllChunks(cycle)
      BY <2>7, <2>2 DEF AllChunks
    <3>3. ASSUME StreamInv PROVE StreamInv'
      <4>1. /\ k <= m
            /\ len = m - k
            /\ \A i \in 1..(m - k) : queues[cycle][i] = Chunk(cycle, k + i)
        BY <2>3, <3>1, <3>3 DEF StreamInv
      <4> HIDE DEF k, m, len
      <4>2. /\ k <= m
            /\ Len(queues'[cycle]) = (m - k) + 1
            /\ \A i \in 1..(m - k) : queues'[cycle][i] = Chunk(cycle, k + i)
            /\ queues'[cycle][Len(queues'[cycle])] = Sentinel
        BY <2>3, <2>4, <2>7, <4>1
      <4> QED BY <2>2, <2>5, <2>7, <3>1, <3>3, <4>2 DEF StreamInv, k, m
    <3>4. EndedInv' <=> EndedInv
      BY <2>2 DEF EndedInv
    <3>6. SentPart(cycle) => SentPart(cycle)'
      BY <2>2, <2>7 DEF SentPart
    <3>5. CurrentInv'
      BY <1>3, <2>2, <3>1, <3>2, <3>3, <3>4, <3>6 DEF CurrentInv
    <3> QED BY <2>2, <2>6, <3>5 DEF CleanInv
  <2>8. CASE /\ pc = "publishing" /\ pc' = pc
             /\ sent' = [sent EXCEPT ![cycle] = sent[cycle] + 1] /\ x = Chunk(cycle, sent[cycle] + 1)
    <3>1. ~ending /\ ~ending' /\ sent'[cycle] = m + 1
      BY <2>2, <2>8 DEF ending, TypeOK
    <3>2. ~thread[cycle].whole
      BY <1>3, <2>2, <2>8 DEF CurrentInv
    <3>3. ASSUME StreamInv PROVE StreamInv'
      <4>1. /\ k <= m
            /\ len = m - k
            /\ \A i \in 1..(m - k) : queues[cycle][i] = Chunk(cycle, k + i)
        BY <2>3, <3>1, <3>3 DEF StreamInv
      <4>2. x = Chunk(cycle, m + 1)
        BY <2>8
      <4> HIDE DEF k, m, len
      <4>3. k <= m + 1 /\ Len(queues'[cycle]) = (m + 1) - k
        BY <2>3, <2>4, <4>1
      <4>4. ASSUME NEW i \in 1..((m + 1) - k) PROVE queues'[cycle][i] = Chunk(cycle, k + i)
        <5>1. CASE i \in 1..(m - k)
          BY <2>4, <4>1, <5>1
        <5>2. CASE i = (m + 1) - k
          <6>1. i = len + 1 /\ k + i = m + 1
            BY <2>3, <4>1, <5>2
          <6> QED BY <2>4, <4>2, <6>1
        <5> QED BY <2>3, <4>1, <5>1, <5>2
      <4>5. Len(queues'[cycle]) = ((m + 1) - k) + 0
        BY <2>3, <4>3
      <4> QED BY <2>2, <2>5, <3>1, <3>3, <4>3, <4>4, <4>5 DEF StreamInv, k, m
    <3>4. EndedInv' <=> EndedInv
      BY <2>2 DEF EndedInv
    <3>6. ASSUME SentPart(cycle) PROVE SentPart(cycle)'
      <4>1. Len(thread[cycle].body) \in Nat /\ sent'[cycle] = sent[cycle] + 1 /\ sent[cycle] \in Nat
        BY <2>2, <2>3, <3>1, StreamNumbers
      <4> QED BY <2>2, <3>6, <4>1 DEF SentPart
    <3>5. CurrentInv'
      BY <1>3, <2>2, <3>2, <3>3, <3>4, <3>6 DEF CurrentInv
    <3> QED BY <2>2, <2>6, <3>5 DEF CleanInv
  <2> QED BY <2>1, <2>7, <2>8 DEF Puts
<1>7. CASE GiveUp
  <2>1. /\ UNCHANGED <<cycle, sent, queues, exc, response, thread>> /\ cycle \in Cycles
        /\ pc = "publishing" /\ pc' = "idle"
        /\ outcome' = [outcome EXCEPT ![cycle] = "abandoned"]
    BY <1>7 DEF GiveUp, CallerInv
  <2>2. taken' = taken /\ ~ending /\ ~ending'
    BY <2>1 DEF taken, ending
  <2>3. StreamInv => StreamInv'
    BY <2>1, <2>2 DEF StreamInv
  <2>4. CurrentInv'
    BY <1>3, <1>4, <2>1, <2>3 DEF CurrentInv, EndedInv, SentPart, AllChunks
  <2>5. ASSUME NEW c \in Cycles
        PROVE  /\ c < cycle' => ~IsAlive(c)'
               /\ outcome'[c] = "delivered" => Done(c)'
               /\ outcome'[c] = "failed" =>
                     thread'[c].at = "ended" /\ (thread'[c].status = 0 \/ thread'[c].status >= 400)
    <3>1. outcome'[c] = outcome[c] \/ outcome'[c] = "abandoned"
      BY <2>1 DEF TypeOK
    <3> QED BY <1>2, <2>1, <3>1 DEF IsAlive, Done, SentPart, Received, AllChunks
  <2> QED BY <1>4, <2>1, <2>4, <2>5 DEF CleanInv
<1>8. CASE Conclude
  <2>1. /\ UNCHANGED <<cycle, sent, queues, exc, response, thread>> /\ cycle \in Cycles
        /\ pc' = "idle" /\ ~IsAlive(cycle)
        /\ outcome' = [outcome EXCEPT ![cycle] = Verdict]
    BY <1>8 DEF Conclude, CallerInv
  <2>2. thread[cycle].at = "ended"
    BY <1>4, <2>1 DEF IsAlive, ThreadInv
  <2>3. CurrentInv /\ EndedInv
    BY <1>3, <1>4, <2>1, <2>2 DEF CurrentInv
  <2>4. thread[cycle].status \in {0} \cup Statuses
    BY <2>1 DEF TypeOK, ThreadType
  <2>5. Verdict = "delivered" => Done(cycle)
    <3> SUFFICES ASSUME Verdict = "delivered" PROVE Done(cycle)
      OBVIOUS
    <3>1. exc = 0 /\ response # 0 /\ ~(thread[response].status >= 400)
      BY DEF Verdict
    <3>2. thread[cycle].status \in 1..399
      <4>1. exc # cycle
        BY <2>1, <3>1 DEF Cycles
      <4>2. response = cycle /\ thread[cycle].status # 0
        BY <2>3, <4>1 DEF EndedInv
      <4>3. thread[cycle].status \in Statuses /\ ~(thread[cycle].status >= 400)
        BY <2>4, <3>1, <4>2
      <4>4. \A s \in Statuses : s \in 1..399 \/ s >= 400
        BY StreamingAssumption
      <4> QED BY <4>3, <4>4
    <3> QED BY <2>2, <2>3, <3>2 DEF CurrentInv, Done, Received
  <2>6. Verdict = "failed" => thread[cycle].status = 0 \/ thread[cycle].status >= 400
    BY <1>4, <2>1, <2>3 DEF Verdict, EndedInv
  <2>7. CurrentInv'
    BY <2>1, <2>2, <2>3 DEF CurrentInv, EndedInv, SentPart, AllChunks
  <2>8. ASSUME NEW c \in Cycles
        PROVE  /\ c < cycle' => ~IsAlive(c)'
               /\ outcome'[c] = "delivered" => Done(c)'
               /\ outcome'[c] = "failed" =>
                     thread'[c].at = "ended" /\ (thread'[c].status = 0 \/ thread'[c].status >= 400)
    <3>1. CASE c = cycle
      <4>1. outcome'[c] = Verdict
        BY <2>1, <3>1 DEF TypeOK
      <4> QED BY <1>4, <2>1, <2>2, <2>5, <2>6, <3>1, <4>1 DEF Done, SentPart, Received, AllChunks
    <3>2. CASE c # cycle
      <4>1. outcome'[c] = outcome[c]
        BY <2>1, <3>2 DEF TypeOK
      <4> QED BY <1>2, <2>1, <4>1 DEF IsAlive, Done, SentPart, Received, AllChunks
    <3> QED BY <3>1, <3>2
  <2> QED BY <1>4, <2>1, <2>7, <2>8 DEF CleanInv
<1> QED
  <2>1. CASE OpenOverLive \/ SendChunk \/ Finalize
    <3>1. ~Opens /\ ~Stays
      BY <1>4, <2>1 DEF OpenOverLive, SendChunk, Finalize, Opens, FreshCycle, Stays
    <3> QED BY <1>6, <2>1, <3>1, CallerKinds DEF Caller
  <2> QED BY <1>5, <1>7, <1>8, <2>1 DEF Caller

-----------------------------------------------------------------------------
(* The invariant, and what it implies *)

LEMMA StreamingStep ==
    ASSUME StreamingInv, [Next]_vars
    PROVE  StreamingInv'
<1>1. CASE Caller
  <2>1. TypeOK' /\ (\A u \in Cycles : ThreadInv(u)') /\ CallerInv'
    BY <1>1, CallerBasics
  <2>2. OriginInv' /\ OrderInv' /\ PlaceInv'
    <3>1. CASE Opens \/ Stays
      BY <3>1, QuietSteps, QuietKeeps
    <3>2. CASE \E x \in ChunkType : Puts(x)
      BY <3>2, PutMoves
    <3> QED BY <1>1, <3>1, <3>2, CallerKinds
  <2>3. CleanInv'
    BY <1>1, CleanCaller
  <2> QED BY <2>1, <2>2, <2>3 DEF StreamingInv
<1>2. ASSUME NEW t \in Cycles, Sender(t) PROVE StreamingInv'
  <2>1. TypeOK' /\ (\A u \in Cycles : ThreadInv(u)') /\ CallerInv'
    BY <1>2, SenderBasics
  <2>2. OriginInv' /\ OrderInv' /\ PlaceInv'
    <3>1. CASE Begin(t) \/ Fetch(t) \/ WriteFails(t) \/ Answer(t) \/ Raise(t)
      BY <3>1, QuietSteps, QuietKeeps
    <3>2. CASE Get(t) \/ GetSentinel(t)
      BY <3>2, TakeMoves
    <3>3. CASE Write(t)
      BY <3>3, WriteMoves
    <3> QED BY <1>2, <3>1, <3>2, <3>3 DEF Sender
  <2>3. CleanInv'
    BY <1>2, CleanSender
  <2> QED BY <2>1, <2>2, <2>3 DEF StreamingInv
<1>3. CASE UNCHANGED vars
  <2>1. TypeOK' /\ (\A u \in Cycles : ThreadInv(u)') /\ CallerInv'
    BY <1>3 DEF StreamingInv, vars, TypeOK, ThreadInv, CallerInv
  <2>2. Quiet
    BY <1>3 DEF vars, Quiet, Held
  <2>3. CleanInv'
    <3>1. UNCHANGED <<pc, cycle, sent, queues, exc, response, thread, outcome, overran>>
      BY <1>3 DEF vars
    <3>2. taken' = taken /\ (ending' <=> ending)
      BY <3>1 DEF taken, ending
    <3>3. StreamInv' <=> StreamInv
      BY <3>1, <3>2 DEF StreamInv
    <3>4. EndedInv' <=> EndedInv
      BY <3>1 DEF EndedInv
    <3>5. CurrentInv' <=> CurrentInv
      BY <3>1, <3>3, <3>4 DEF CurrentInv, SentPart, AllChunks
    <3>6. \A c : (Done(c)' <=> Done(c)) /\ (IsAlive(c)' <=> IsAlive(c))
      BY <3>1 DEF Done, SentPart, Received, AllChunks, IsAlive
    <3> QED BY <3>1, <3>5, <3>6 DEF StreamingInv, CleanInv
  <2> QED BY <2>1, <2>2, <2>3, QuietKeeps DEF StreamingInv
<1> QED BY <1>1, <1>2, <1>3 DEF Next, Join, Caller

\* Types are kept, threads act by their stage, every chunk is in one place, bodies
\* and queues are in order, and the current request is as described while every
\* join of open() and finalize() ended its thread.
THEOREM StreamingInvariant == Spec => []StreamingInv
<1>1. Init => StreamingInv
  BY StreamingInit
<1>2. StreamingInv /\ [Next]_vars => StreamingInv'
  BY StreamingStep
<1> QED BY <1>1, <1>2, PTL DEF Spec

LEMMA OnePlaceOnly ==
    ASSUME NEW x, OnePlace(x)
    PROVE  \E p : Places(x) = {p}
<1> DEFINE inQueue(c, i) == c \in Cycles /\ i \in DOMAIN queues[c] /\ queues[c][i] = x
           inBody(c, i)  == c \in Cycles /\ i \in DOMAIN thread[c].body /\ thread[c].body[i] = x
           isHeld(c)     == c \in Cycles /\ Held(c, x)
<1>1. \A p : p \in Places(x) <=>
          \/ \E c, i : inQueue(c, i) /\ p = <<c, "queue", i>>
          \/ \E c, i : inBody(c, i) /\ p = <<c, "body", i>>
          \/ \E c : isHeld(c) /\ p = <<c, "held", 0>>
  <2> DEFINE Q == UNION {{<<c, "queue", i>> : i \in Occurrences(queues[c], x)} : c \in Cycles}
             B == UNION {{<<c, "body", i>> : i \in Occurrences(thread[c].body, x)} : c \in Cycles}
             H == {<<c, "held", 0>> : c \in {t \in Cycles : Held(t, x)}}
  <2>1. \A p : p \in Q <=> \E c, i : inQueue(c, i) /\ p = <<c, "queue", i>>
    <3> TAKE p
    <3>1. p \in Q <=> \E c \in Cycles : p \in {<<c, "queue", i>> : i \in Occurrences(queues[c], x)}
      OBVIOUS
    <3> QED BY <3>1 DEF Occurrences
  <2>2. \A p : p \in B <=> \E c, i : inBody(c, i) /\ p = <<c, "body", i>>
    <3> TAKE p
    <3>1. p \in B <=> \E c \in Cycles : p \in {<<c, "body", i>> : i \in Occurrences(thread[c].body, x)}
      OBVIOUS
    <3> QED BY <3>1 DEF Occurrences
  <2>3. \A p : p \in H <=> \E c : isHeld(c) /\ p = <<c, "held", 0>>
    BY Zenon
  <2>4. Places(x) = Q \cup B \cup H
    BY DEF Places
  <2> HIDE DEF Q, B, H, inQueue, inBody, isHeld
  <2> QED BY <2>1, <2>2, <2>3, <2>4
<1>2. CASE QueuedOnce(x) /\ NotInBody(x) /\ NotHeld(x)
  <2>1. PICK c, i : inQueue(c, i) /\ \A d, j : inQueue(d, j) => d = c /\ j = i
    BY <1>2 DEF QueuedOnce
  <2>2. \A d, j : ~inBody(d, j) /\ ~isHeld(d)
    BY <1>2 DEF NotInBody, NotHeld
  <2> HIDE DEF inQueue, inBody, isHeld
  <2>3. Places(x) = {<<c, "queue", i>>}
    BY <1>1, <2>1, <2>2
  <2> QED BY <2>3
<1>3. CASE NotQueued(x) /\ InBodyOnce(x) /\ NotHeld(x)
  <2>1. PICK c, i : inBody(c, i) /\ \A d, j : inBody(d, j) => d = c /\ j = i
    BY <1>3 DEF InBodyOnce
  <2>2. \A d, j : ~inQueue(d, j) /\ ~isHeld(d)
    BY <1>3 DEF NotQueued, NotHeld
  <2> HIDE DEF inQueue, inBody, isHeld
  <2>3. Places(x) = {<<c, "body", i>>}
    BY <1>1, <2>1, <2>2
  <2> QED BY <2>3
<1>4. CASE NotQueued(x) /\ NotInBody(x) /\ HeldOnce(x)
  <2>1. PICK c : isHeld(c) /\ \A d : isHeld(d) => d = c
    BY <1>4 DEF HeldOnce
  <2>2. \A d, j : ~inQueue(d, j) /\ ~inBody(d, j)
    BY <1>4 DEF NotQueued, NotInBody
  <2> HIDE DEF inQueue, inBody, isHeld
  <2>3. Places(x) = {<<c, "held", 0>>}
    BY <1>1, <2>1, <2>2
  <2> QED BY <2>3
<1> QED BY <1>2, <1>3, <1>4 DEF OnePlace

\* A body that is part of what was sent is a prefix of it.
LEMMA PartIsPrefix ==
    ASSUME TypeOK, NEW c \in Cycles, SentPart(c)
    PROVE  IsPrefix(thread[c].body, AllChunks(c))
<1> DEFINE b == thread[c].body
<1>1. b \in Seq(ChunkType) /\ sent[c] \in Nat
  BY DEF TypeOK, ThreadType
<1>2. Len(b) \in Nat /\ DOMAIN b = 1..Len(b) /\ Len(b) <= sent[c]
  BY <1>1 DEF SentPart
<1>3. AllChunks(c) \in Seq({Chunk(c, n) : n \in 1..sent[c]}) /\ Len(AllChunks(c)) = sent[c]
  BY <1>1 DEF AllChunks
<1>4. \A i \in 1..Len(b) : b[i] = AllChunks(c)[i]
  BY <1>1, <1>2 DEF SentPart, AllChunks
<1>5. b = SubSeq(AllChunks(c), 1, Len(b))
  <2> DEFINE r == SubSeq(AllChunks(c), 1, Len(b))
  <2>1. Len(r) = Len(b) /\ \A i \in 1..Len(r) : r[i] = AllChunks(c)[i]
    BY <1>1, <1>2, <1>3
  <2>2. r \in Seq({Chunk(c, n) : n \in 1..sent[c]})
    BY <1>1, <1>2, <1>3
  <2> QED BY <1>1, <1>2, <1>4, <2>1, <2>2
<1> QED BY <1>2, <1>3, <1>5 DEF IsPrefix

\* Whatever joins timed out, and however many threads take from a queue, each
\* chunk that send_chunk() put in one is in one queue, one body or one thread's
\* hands: none is lost and none is sent twice.
THEOREM ChunksOnce == Spec => []EachChunkOnce
<1>1. StreamingInv => EachChunkOnce
  <2> SUFFICES ASSUME StreamingInv, NEW c \in Cycles, NEW n \in 1..sent[c]
               PROVE  Cardinality(Places(Chunk(c, n))) = 1
    BY DEF EachChunkOnce
  <2>1. PICK p : Places(Chunk(c, n)) = {p}
    BY OnePlaceOnly DEF StreamingInv, PlaceInv
  <2> QED BY <2>1, FS_Singleton
<1> QED BY <1>1, StreamingInvariant, PTL

\* A request body never carries chunks out of order, nor chunks of a cycle before
\* its own thread's.
THEOREM OrderedBodies == Spec => []BodiesInOrder
<1>1. StreamingInv => BodiesInOrder
  <2> SUFFICES ASSUME StreamingInv, NEW t \in Cycles, NEW i \in DOMAIN thread[t].body
               PROVE  /\ thread[t].body[i].cycle >= t
                      /\ \A j \in 1..(i - 1) : Before(thread[t].body[j], thread[t].body[i])
    BY DEF BodiesInOrder, Before
  <2>1. thread[t].body[i].cycle >= t
    BY DEF StreamingInv, OrderInv, TypeOK, Cycles
  <2>2. DOMAIN thread[t].body = 1..Len(thread[t].body) /\ Len(thread[t].body) \in Nat
    BY DEF StreamingInv, TypeOK, ThreadType
  <2>3. ASSUME NEW j \in 1..(i - 1) PROVE Before(thread[t].body[j], thread[t].body[i])
    <3>1. j \in DOMAIN thread[t].body /\ j < i
      BY <2>2
    <3> QED BY <3>1 DEF StreamingInv, OrderInv
  <2> QED BY <2>1, <2>3
<1> QED BY <1>1, StreamingInvariant, PTL

\* While every join ended its thread, what finalize() reports as delivered was
\* answered with a success in the request of its own cycle, and that request carried
\* all the chunks of the cycle, or the first of them where the answer came early.
THEOREM SuccessIsDelivered == Spec => []SuccessMeansDelivered
<1>1. StreamingInv => SuccessMeansDelivered
  <2> SUFFICES ASSUME StreamingInv, ~overran, NEW c \in Cycles, outcome[c] = "delivered"
               PROVE  /\ thread[c].at = "ended" /\ thread[c].status \in 1..399
                      /\ IF AnsweredEarly(c) THEN IsPrefix(thread[c].body, AllChunks(c))
                         ELSE Received(c)
    BY DEF SuccessMeansDelivered
  <2>1. Done(c)
    BY DEF StreamingInv, CleanInv
  <2>2. CASE AnsweredEarly(c)
    <3>1. IsPrefix(thread[c].body, AllChunks(c))
      BY <2>1, PartIsPrefix DEF StreamingInv, Done
    <3> QED BY <2>1, <2>2, <3>1 DEF Done
  <2>3. CASE ~AnsweredEarly(c)
    <3>1. thread[c].whole
      BY <2>1, <2>3 DEF AnsweredEarly, Done
    <3> QED BY <2>1, <2>3, <3>1 DEF Done
  <2> QED BY <2>2, <2>3
<1> QED BY <1>1, StreamingInvariant, PTL

\* While every join ended its thread, a delivery fails for its own request's
\* exception, missing answer or error status, and no earlier thread is alive.
THEOREM FailuresAreOwn == Spec => []FailureIsOwn
<1>1. StreamingInv => FailureIsOwn
  BY DEF StreamingInv, CleanInv, FailureIsOwn
<1> QED BY <1>1, StreamingInvariant, PTL
=============================================================================
