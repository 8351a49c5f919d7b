---------------------------- MODULE HttpDelivery ----------------------------
(***************************************************************************)
(* HttpDeliveryClient over consecutive runs, with the endpoint it posts    *)
(* to. The chunks are buffered, and finalize() posts the buffer as one     *)
(* body, again after a retryable error: the endpoint receives it at least  *)
(* once when finalize() returns, and possibly more often.                  *)
(***************************************************************************)
EXTENDS TransportErrors, SequencesExt

CONSTANTS
    MaxRuns,       \* bound: calls of open()
    MaxChunks,     \* bound: chunks of one run
    Sizes,         \* sizes a chunk may have
    MaxBodyBytes,  \* HttpClientIaC.max_body_bytes
    MaxRetries,    \* TransportPolicy.max_retries
    Statuses,      \* status codes the endpoint may answer
    Errors         \* what httpx may raise: sets of the words of its messages

ASSUME HttpAssumption ==
    /\ MaxRuns \in Nat \ {0}
    /\ MaxChunks \in Nat
    /\ Sizes \subseteq Nat
    /\ MaxBodyBytes \in Nat \ {0}
    /\ MaxRetries \in Nat
    /\ Statuses \subseteq 200..599
    /\ Errors \subseteq SUBSET Words

Body == Seq(Sizes)

VARIABLES
    pc,         \* the caller, or the POST that is being made
    attempts,   \* execute_with_retry: retries of the POST
    run,        \* calls of open()
    sent,       \* the chunks accepted in this run
    buffer,     \* self._buffer, as its chunks
    size,       \* self._buffer.tell()
    hasBuffer,  \* self._buffer is not None
    finalized,  \* self._finalized
    body,       \* the body finalize() took out of the buffer
    received,   \* the endpoint: the requests of each run, with their answers
    result      \* how each run ended for the caller

caller == <<run, sent>>
client == <<buffer, size, hasBuffer, finalized>>
vars   == <<pc, attempts, caller, client, body, received, result>>

\* A request the endpoint received: its body, and the status it answered with,
\* 0 when the client did not get an answer.
Request == [body : Body, status : {0} \cup Statuses]

Runs == 1..MaxRuns

TypeOK ==
    /\ pc \in {"idle", "sending", "post", "close"}
    /\ attempts \in 0..MaxRetries
    /\ run \in 0..MaxRuns
    /\ sent \in Body
    /\ buffer \in Body
    /\ size \in Nat
    /\ hasBuffer \in BOOLEAN
    /\ finalized \in BOOLEAN
    /\ body \in Body
    /\ received \in [Runs -> Seq(Request)]
    /\ result \in [Runs -> {"none", "failed", "delivered"}]

Init ==
    /\ pc = "idle" /\ attempts = 0 /\ run = 0 /\ sent = <<>>
    /\ buffer = <<>> /\ size = 0 /\ hasBuffer = FALSE /\ finalized = FALSE
    /\ body = <<>>
    /\ received = [r \in Runs |-> <<>>]
    /\ result = [r \in Runs |-> "none"]

Ends(outcome) == pc' = "idle" /\ result' = [result EXCEPT ![run] = outcome]
-----------------------------------------------------------------------------
\* Variant: the buffer of an earlier run is used on.
OpenKeepsBuffer ==
    /\ pc = "idle"
    /\ run < MaxRuns
    /\ pc' = "sending"
    /\ run' = run + 1
    /\ sent' = <<>>
    /\ hasBuffer' = TRUE
    /\ finalized' = FALSE
    /\ attempts' = 0
    /\ UNCHANGED <<buffer, size, body, received, result>>

Open ==
    /\ pc = "idle"
    /\ run < MaxRuns
    /\ pc' = "sending"
    /\ run' = run + 1
    /\ sent' = <<>>
    /\ buffer' = <<>>
    /\ size' = 0
    /\ hasBuffer' = TRUE
    /\ finalized' = FALSE
    /\ attempts' = 0
    /\ UNCHANGED <<body, received, result>>

Fits(bytes) == size + bytes <= MaxBodyBytes

SendChunk ==
    /\ pc = "sending"
    /\ ~finalized /\ hasBuffer
    /\ Len(sent) < MaxChunks
    /\ \E bytes \in Sizes :
          /\ Fits(bytes)
          /\ sent' = Append(sent, bytes)
          /\ buffer' = Append(buffer, bytes)
          /\ size' = size + bytes
    /\ UNCHANGED <<pc, attempts, run, hasBuffer, finalized, body, received, result>>

\* The chunk would exceed the limit: send_chunk() raises.
ChunkTooLarge ==
    /\ pc = "sending"
    /\ \E bytes \in Sizes : ~Fits(bytes)
    /\ Ends("failed")
    /\ UNCHANGED <<attempts, caller, client, body, received>>

\* Another call of publish() raises.
GiveUp ==
    /\ pc = "sending"
    /\ Ends("failed")
    /\ UNCHANGED <<attempts, caller, client, body, received>>

Finalize ==
    /\ pc = "sending"
    /\ ~finalized /\ hasBuffer
    /\ pc' = "post"
    /\ body' = buffer
    /\ hasBuffer' = FALSE
    /\ UNCHANGED <<attempts, caller, buffer, size, finalized, received, result>>

\* The endpoint receives the request.
Receive(status) ==
    received' = [received EXCEPT ![run] = Append(@, [body |-> body, status |-> status])]

\* Variant: every error is tried again.
RetryOrRaiseAlways(error) ==
    \/ /\ attempts < MaxRetries
       /\ attempts' = attempts + 1
       /\ UNCHANGED <<pc, result>>
    \/ /\ attempts >= MaxRetries
       /\ Ends("failed")
       /\ UNCHANGED attempts

\* Variant: a used-up budget goes unnoticed.
RetryOrRaiseQuietly(error) ==
    \/ /\ IsRetryable(error, "http")
       /\ attempts < MaxRetries
       /\ attempts' = attempts + 1
       /\ UNCHANGED <<pc, result>>
    \/ /\ IsRetryable(error, "http") /\ attempts >= MaxRetries
       /\ pc' = "close"
       /\ UNCHANGED <<attempts, result>>
    \/ /\ ~IsRetryable(error, "http")
       /\ Ends("failed")
       /\ UNCHANGED attempts

\* execute_with_retry: the error is tried again, or leaves finalize().
RetryOrRaise(error) ==
    \/ /\ IsRetryable(error, "http")
       /\ attempts < MaxRetries
       /\ attempts' = attempts + 1
       /\ UNCHANGED <<pc, result>>
    \/ /\ ~IsRetryable(error, "http") \/ attempts >= MaxRetries
       /\ Ends("failed")
       /\ UNCHANGED attempts

\* httpx raises, before the endpoint had the request or after.
PostRaises ==
    /\ pc = "post"
    /\ \E words \in Errors : RetryOrRaise([category |-> "none", words |-> words])
    /\ UNCHANGED received \/ Receive(0)
    /\ UNCHANGED <<caller, client, body>>

\* The endpoint refuses: the error is marked with the class of the status.
PostRefused ==
    /\ pc = "post"
    /\ \E s \in Statuses :
          /\ s >= 400
          /\ Receive(s)
          /\ RetryOrRaise(Marked(IF s >= 500 THEN "remote_5xx" ELSE "remote_4xx"))
    /\ UNCHANGED <<caller, client, body>>

PostAccepted ==
    /\ pc = "post"
    /\ \E s \in Statuses : s < 400 /\ Receive(s)
    /\ finalized' = TRUE
    /\ pc' = "close"
    /\ UNCHANGED <<attempts, caller, buffer, size, hasBuffer, body, result>>

\* Closing the httpx client may raise, after the delivery.
CloseClient ==
    /\ pc = "close"
    /\ Ends("delivered") \/ Ends("failed")
    /\ UNCHANGED <<attempts, caller, client, body, received>>
-----------------------------------------------------------------------------
Post == PostRaises \/ PostRefused \/ PostAccepted \/ CloseClient
Next == Open \/ SendChunk \/ ChunkTooLarge \/ GiveUp \/ Finalize \/ Post

Spec == Init /\ [][Next]_vars
-----------------------------------------------------------------------------
(* Properties *)

RequestsOf(r) == {received[r][i] : i \in DOMAIN received[r]}

\* Nothing leaves the client before finalize(), and however often the body is
\* posted it is the same: all chunks of the run and of no other.
CopiesAreWhole ==
    \A q \in IF run = 0 THEN {} ELSE RequestsOf(run) :
        pc \in {"post", "close", "idle"} /\ q.body = sent

\* What finalize() reports as delivered was received, and the answer to the last
\* request was no refusal.
SuccessMeansReceived ==
    \A r \in Runs : result[r] = "delivered" =>
        received[r] # <<>> /\ Last(received[r]).status \in 200..399

\* An answer that settles the delivery is not followed by another POST: no copy
\* of a body is sent after it was accepted, or refused with a 4xx.
SettledIsFinal ==
    \A r \in Runs : \A i \in DOMAIN received[r] :
        received[r][i].status \in 200..499 => i = Len(received[r])
=============================================================================
