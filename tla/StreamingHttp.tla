---------------------------- MODULE StreamingHttp ----------------------------
(***************************************************************************)
(* StreamingHttpDeliveryClient over consecutive cycles                     *)
(* open / send_chunk* / finalize, as Publisher.publish drives it.          *)
(*                                                                         *)
(* Every open() starts a sender thread with a fresh queue. A thread that   *)
(* outlives its cycle is the difficulty: _stream_thread reads self._queue, *)
(* self._httpx_client, and writes self._response and self._exc, which by   *)
(* then belong to a later cycle.                                           *)
(*                                                                         *)
(* Cycles, their queues and their threads are numbered; self._queue is     *)
(* queues[cycle] and self._thread is thread[cycle]. The endpoint appears   *)
(* through the request bodies it is sent and the statuses it answers.      *)
(* The httpx client is the client's own (none is injected).                *)
(***************************************************************************)
EXTENDS Naturals, Sequences, SequencesExt

CONSTANTS
    MaxCycles,  \* bound: calls of open()
    MaxChunks,  \* bound: chunks of one cycle
    Statuses    \* status codes the endpoint may answer

ASSUME StreamingAssumption ==
    /\ MaxCycles \in Nat
    /\ MaxChunks \in Nat
    /\ Statuses \subseteq 200..599

Cycles == 1..MaxCycles

\* The n-th chunk of a cycle. Number 0 is the sentinel None that ends a stream.
Chunk(c, n) == [cycle |-> c, n |-> n]
Sentinel    == Chunk(0, 0)
ChunkType   == [cycle : 0..MaxCycles, n : 0..MaxChunks]

VARIABLES
    pc,         \* what the caller's thread is doing
    cycle,      \* calls of open() that started a thread
    sent,       \* sent[c]: chunks put by send_chunk in cycle c
    queues,     \* the queue of each cycle
    client,     \* self._httpx_client: the cycle that created it, 0 for None
    exc,        \* self._exc: the thread that set it, 0 for None
    response,   \* self._response: the thread that set it, 0 for None
    finalized,  \* self._finalized
    thread,     \* the sender threads and the requests they make
    outcome,    \* how each cycle ended for the caller
    overran     \* a join timed out on a live thread

vars == <<pc, cycle, sent, queues, client, exc, response, finalized, thread, outcome,
          overran>>

\* at: where the thread is; queue: the queue it blocks on; chunk: the chunk it
\* is sending; body, whole: what was written to its connection and whether the body
\* was terminated; status: the answer, 0 before there is one.
ThreadType ==
    [at     : {"none", "start", "fetch", "waiting", "writing", "answer", "ended"},
     queue  : 0..MaxCycles,
     chunk  : ChunkType,
     body   : Seq(ChunkType),
     whole  : BOOLEAN,
     status : {0} \cup Statuses]

TypeOK ==
    /\ pc \in {"idle", "closing", "publishing", "joining"}
    /\ cycle \in 0..MaxCycles
    /\ sent \in [Cycles -> 0..MaxChunks]
    /\ queues \in [Cycles -> Seq(ChunkType)]
    /\ client \in 0..MaxCycles
    /\ exc \in 0..MaxCycles
    /\ response \in 0..MaxCycles
    /\ finalized \in BOOLEAN
    /\ thread \in [Cycles -> ThreadType]
    /\ outcome \in [Cycles -> {"none", "abandoned", "failed", "delivered"}]
    /\ overran \in BOOLEAN

NoThread == [at |-> "none", queue |-> 0, chunk |-> Sentinel, body |-> <<>>,
             whole |-> FALSE, status |-> 0]

Init ==
    /\ pc = "idle"
    /\ cycle = 0
    /\ sent = [c \in Cycles |-> 0]
    /\ queues = [c \in Cycles |-> <<>>]
    /\ client = 0
    /\ exc = 0
    /\ response = 0
    /\ finalized = FALSE
    /\ thread = [c \in Cycles |-> NoThread]
    /\ outcome = [c \in Cycles |-> "none"]
    /\ overran = FALSE

IsAlive(t) == thread[t].at \notin {"none", "ended"}
Put(q, x)  == queues' = [queues EXCEPT ![q] = Append(@, x)]
-----------------------------------------------------------------------------
(* open() *)

\* Variant: _exc survives into the next cycle.
FreshCycleKeepsExc ==
    /\ pc' = "publishing"
    /\ cycle' = cycle + 1
    /\ client' = cycle'
    /\ response' = 0
    /\ finalized' = FALSE
    /\ thread' = [thread EXCEPT ![cycle'].at = "start"]
    /\ UNCHANGED <<sent, exc, outcome>>

\* A fresh client, queue and thread, nothing answered and nothing raised yet.
FreshCycle ==
    /\ pc' = "publishing"
    /\ cycle' = cycle + 1
    /\ client' = cycle'
    /\ exc' = 0
    /\ response' = 0
    /\ finalized' = FALSE
    /\ thread' = [thread EXCEPT ![cycle'].at = "start"]
    /\ UNCHANGED <<sent, outcome>>

OpenAlone ==
    /\ pc = "idle"
    /\ cycle < MaxCycles
    /\ cycle > 0 => ~IsAlive(cycle)
    /\ UNCHANGED <<queues, overran>>
    /\ FreshCycle

\* The thread of the last cycle is alive: ask it to stop.
OpenOverLive ==
    /\ pc = "idle"
    /\ cycle \in 1..(MaxCycles - 1)
    /\ IsAlive(cycle)
    /\ Put(cycle, Sentinel)
    /\ pc' = "closing"
    /\ UNCHANGED <<cycle, sent, client, exc, response, finalized, thread, outcome,
                   overran>>

\* join(timeout=1.0) returns, whether the thread ended or not.
JoinOld ==
    /\ pc = "closing"
    /\ overran' = (overran \/ IsAlive(cycle))
    /\ UNCHANGED queues
    /\ FreshCycle
-----------------------------------------------------------------------------
(* send_chunk() and finalize() *)

SendChunk ==
    /\ pc = "publishing"
    /\ ~finalized
    /\ sent[cycle] < MaxChunks
    /\ sent' = [sent EXCEPT ![cycle] = @ + 1]
    /\ Put(cycle, Chunk(cycle, sent'[cycle]))
    /\ UNCHANGED <<pc, cycle, client, exc, response, finalized, thread, outcome,
                   overran>>

\* publish() raises in another call: it leaves the client as it is.
GiveUp ==
    /\ pc = "publishing"
    /\ pc' = "idle"
    /\ outcome' = [outcome EXCEPT ![cycle] = "abandoned"]
    /\ UNCHANGED <<cycle, sent, queues, client, exc, response, finalized, thread, overran>>

\* Variant: finalize() joins without ending the stream.
FinalizeWithoutSentinel ==
    /\ pc = "publishing"
    /\ ~finalized
    /\ pc' = "joining"
    /\ UNCHANGED <<queues, cycle, sent, client, exc, response, finalized, thread, outcome,
                   overran>>

Finalize ==
    /\ pc = "publishing"
    /\ ~finalized
    /\ Put(cycle, Sentinel)
    /\ pc' = "joining"
    /\ UNCHANGED <<cycle, sent, client, exc, response, finalized, thread, outcome,
                   overran>>

\* Variant: only the response is looked at, and none is taken for a success.
VerdictIgnoresExc ==
    IF response # 0 /\ thread[response].status >= 400 THEN "failed" ELSE "delivered"

\* An exception, no response at all, or an error status fails the delivery.
Verdict ==
    IF \/ exc # 0
       \/ response = 0
       \/ thread[response].status >= 400
    THEN "failed"
    ELSE "delivered"

\* join(timeout_seconds) returns; the httpx client is closed on any outcome.
Conclude ==
    /\ pc = "joining"
    /\ overran' = (overran \/ IsAlive(cycle))
    /\ client' = 0
    /\ outcome' = [outcome EXCEPT ![cycle] = Verdict]
    /\ finalized' = (Verdict = "delivered")
    /\ pc' = "idle"
    /\ UNCHANGED <<cycle, sent, queues, exc, response, thread>>
-----------------------------------------------------------------------------
(* _stream_thread, and the endpoint it talks to *)

caller == <<pc, cycle, sent, client, finalized, outcome, overran>>

\* The request starts and the generator runs to its first queue.get().
Begin(t) ==
    /\ thread[t].at = "start"
    /\ client # 0
    /\ thread' = [thread EXCEPT ![t].at = "fetch"]
    /\ UNCHANGED <<caller, queues, exc, response>>

\* self._queue is evaluated at every turn of the generator's loop.
Fetch(t) ==
    /\ thread[t].at = "fetch"
    /\ thread' = [thread EXCEPT ![t].at = "waiting", ![t].queue = cycle]
    /\ UNCHANGED <<caller, queues, exc, response>>

\* Variant: the chunk stays in the queue.
TakeKeeps(q) == queues' = queues

\* Variant: the other end of the queue is removed.
TakeLast(q) ==
    queues' = [queues EXCEPT ![q] = <<Head(@)>> \o SubSeq(@, 1, Len(@) - 1)]

Take(q) == queues' = [queues EXCEPT ![q] = Tail(@)]

Get(t) ==
    LET q == thread[t].queue IN
    /\ thread[t].at = "waiting"
    /\ queues[q] # <<>>
    /\ Head(queues[q]) # Sentinel
    /\ thread' = [thread EXCEPT ![t].at = "writing", ![t].chunk = Head(queues[q])]
    /\ Take(q)
    /\ UNCHANGED <<caller, exc, response>>

\* The sentinel ends the generator, and the request body is terminated, unless
\* writing its end fails.
GetSentinel(t) ==
    LET q == thread[t].queue IN
    /\ thread[t].at = "waiting"
    /\ queues[q] # <<>>
    /\ Head(queues[q]) = Sentinel
    /\ \E written \in BOOLEAN :
          thread' = [thread EXCEPT ![t].at = "answer", ![t].chunk = Sentinel,
                                   ![t].whole = written]
    /\ queues' = [queues EXCEPT ![q] = Tail(@)]
    /\ UNCHANGED <<caller, exc, response>>

Write(t) ==
    /\ thread[t].at = "writing"
    /\ thread' = [thread EXCEPT ![t].at = "fetch",
                                ![t].body = Append(@, thread[t].chunk)]
    /\ UNCHANGED <<caller, queues, exc, response>>

\* Writing the headers or a chunk fails: httpx swallows that error and turns to the
\* answer, which the endpoint may have sent before it closed the connection.
WriteFails(t) ==
    /\ thread[t].at \in {"start", "writing"}
    /\ thread[t].at = "start" => client # 0
    /\ thread' = [thread EXCEPT ![t].at = "answer"]
    /\ UNCHANGED <<caller, queues, exc, response>>

\* The endpoint answers, whatever it was sent of the body.
Answer(t) ==
    /\ thread[t].at = "answer"
    /\ \E s \in Statuses : thread' = [thread EXCEPT ![t].at = "ended", ![t].status = s]
    /\ response' = t
    /\ UNCHANGED <<caller, queues, exc>>

\* Any network operation may raise, and so does starting without a client.
Raise(t) ==
    /\ thread[t].at \in {"start", "writing", "answer"}
    /\ thread' = [thread EXCEPT ![t].at = "ended"]
    /\ exc' = t
    /\ UNCHANGED <<caller, queues, response>>

Sender(t) ==
    \/ Begin(t) \/ Fetch(t) \/ Get(t) \/ GetSentinel(t)
    \/ Write(t) \/ WriteFails(t) \/ Answer(t) \/ Raise(t)

Join == JoinOld \/ Conclude

Next ==
    \/ OpenAlone \/ OpenOverLive \/ SendChunk \/ GiveUp \/ Finalize \/ Join
    \/ \E t \in Cycles : Sender(t)

Spec == Init /\ [][Next]_vars

\* A join returns once its thread ended; that it may return earlier is not relied
\* on. A thread's next step is taken: its network operations have timeouts.
FairSpec ==
    /\ Spec
    /\ WF_vars(Join /\ ~IsAlive(cycle))
    /\ \A t \in Cycles : WF_vars(Sender(t))
-----------------------------------------------------------------------------
(* Properties *)

\* The chunk a thread is sending, or failed to send.
Held(t, x) == thread[t].chunk = x /\ thread[t].at \in {"writing", "answer", "ended"}

Occurrences(seq, x) == {i \in DOMAIN seq : seq[i] = x}

\* Where a chunk is: in a queue, in a body, or held by a thread.
Places(x) ==
    (UNION {{<<c, "queue", i>> : i \in Occurrences(queues[c], x)} : c \in Cycles})
    \cup (UNION {{<<c, "body", i>> : i \in Occurrences(thread[c].body, x)} : c \in Cycles})
    \cup {<<c, "held", 0>> : c \in {t \in Cycles : Held(t, x)}}

AllChunks(c) == [n \in 1..sent[c] |-> Chunk(c, n)]

\* Every chunk put by send_chunk is in exactly one place, whichever threads are
\* taking from its queue: none is lost and none is sent twice.
EachChunkOnce ==
    \A c \in Cycles : \A n \in 1..sent[c] : Cardinality(Places(Chunk(c, n))) = 1

\* A request body never carries chunks out of order, and a thread never sends
\* chunks of a cycle before its own.
BodiesInOrder ==
    \A t \in Cycles :
        LET body == thread[t].body IN
        \A i \in DOMAIN body :
            /\ body[i].cycle >= t
            /\ \A j \in 1..(i - 1) :
                  \/ body[j].cycle < body[i].cycle
                  \/ body[j].cycle = body[i].cycle /\ body[j].n < body[i].n

\* The endpoint was sent the stream of the cycle whole, in the cycle's request.
Received(c) == thread[c].whole /\ thread[c].body = AllChunks(c)

\* An answer that came before the end of the body: finalize() looks at the status
\* alone, and takes a success for the delivery of the whole (see the README).
AnsweredEarly(c) == thread[c].status # 0 /\ ~thread[c].whole

\* While every thread ends within its join, a delivery that finalize() reported as
\* done was answered with a success, in the request of its own cycle, and that
\* request carried exactly the chunks sent in the cycle, or, where the endpoint
\* answered early, the first of them and nothing else.
SuccessMeansDelivered ==
    ~overran => \A c \in Cycles : outcome[c] = "delivered" =>
        /\ thread[c].at = "ended"
        /\ thread[c].status \in 1..399
        /\ IF AnsweredEarly(c) THEN IsPrefix(thread[c].body, AllChunks(c)) ELSE Received(c)

\* While every thread ends within its join, a delivery fails for what happened to
\* its own request, never for what happened to an earlier one, and only the
\* thread of the current cycle is alive.
FailureIsOwn ==
    ~overran => \A c \in Cycles :
        /\ c < cycle => ~IsAlive(c)
        /\ outcome[c] = "failed" =>
              /\ thread[c].at = "ended"
              /\ thread[c].status = 0 \/ thread[c].status >= 400

\* send_chunk() sends a "chunk of payload bytes to the remote endpoint": whatever
\* joins timed out, a delivery reported as done was received, early answers aside.
DeliveredIsReceived ==
    (\A t \in Cycles : ~AnsweredEarly(t)) =>
        \A c \in Cycles : outcome[c] = "delivered" => Received(c)

\* While every thread ends within its join, open() and finalize() come back, and
\* not for a timeout: the sentinel ends the thread they wait for.
CallsReturn ==
    pc \in {"closing", "joining"} ~> pc \notin {"closing", "joining"} \/ overran
=============================================================================
