-------------------------- MODULE HttpDeliveryProofs --------------------------
(***************************************************************************)
(* Proofs about HttpDelivery, for every bound, every set of chunk sizes,   *)
(* of status codes and of errors: type correctness, that every copy of a   *)
(* body the endpoint gets is whole, that a delivery reported was received, *)
(* and that nothing is posted after an answer that settles the delivery.   *)
(***************************************************************************)
EXTENDS HttpDelivery, TLAPS, SequenceTheorems

-----------------------------------------------------------------------------
(* Lemmas about the requests and about the retry loop. *)

\* A request the endpoint receives is added to those of the current run.
LEMMA ReceiveStep ==
    ASSUME TypeOK, run \in Runs, NEW status \in {0} \cup Statuses, Receive(status)
    PROVE  /\ received' \in [Runs -> Seq(Request)]
           /\ received'[run] = Append(received[run], [body |-> body, status |-> status])
           /\ \A r \in Runs : r # run => received'[r] = received[r]
<1> DEFINE q == [body |-> body, status |-> status]
<1>1. q \in Request
  BY DEF TypeOK, Request
<1>2. received[run] \in Seq(Request)
  BY DEF TypeOK
<1>3. Append(received[run], q) \in Seq(Request)
  BY <1>1, <1>2, AppendProperties
<1>4. received' = [received EXCEPT ![run] = Append(received[run], q)]
  BY DEF Receive
<1> HIDE DEF q
<1>5. received' \in [Runs -> Seq(Request)]
  BY <1>3, <1>4 DEF TypeOK
<1>6. received'[run] = Append(received[run], q)
  BY <1>4 DEF TypeOK
<1>7. \A r \in Runs : r # run => received'[r] = received[r]
  BY <1>4 DEF TypeOK
<1> QED BY <1>5, <1>6, <1>7 DEF q

\* An error is tried again within the budget, or the run has failed.
LEMMA RetryStep ==
    ASSUME TypeOK, run \in Runs, NEW error, RetryOrRaise(error)
    PROVE  /\ attempts' \in 0..MaxRetries
           /\ result' \in [Runs -> {"none", "failed", "delivered"}]
           /\ \/ pc' = pc /\ result' = result /\ IsRetryable(error, "http")
              \/ pc' = "idle" /\ result' = [result EXCEPT ![run] = "failed"]
BY HttpAssumption DEF RetryOrRaise, Ends, TypeOK

\* A 4xx answer is no error to try again.
LEMMA ClientErrorsEnd == ~IsRetryable(Marked("remote_4xx"), "http")
BY DEF IsRetryable, Classify, Marked, RetryableCategory

\* Without a request and without an end of a run the history is the same.
LEMMA HistoryKept ==
    ASSUME SuccessMeansReceived, SettledIsFinal, UNCHANGED <<received, result>>
    PROVE  SuccessMeansReceived' /\ SettledIsFinal'
<1>1. SuccessMeansReceived'
  BY DEF SuccessMeansReceived
<1>2. SettledIsFinal'
  BY DEF SettledIsFinal
<1> QED BY <1>1, <1>2

-----------------------------------------------------------------------------
(* The inductive invariant *)

\* Where the requests of the current run stand with the caller's progress.
Progress ==
    /\ pc # "idle" => run \in Runs /\ result[run] = "none"
    /\ pc = "sending" => buffer = sent /\ received[run] = <<>>
    /\ pc = "post" => /\ body = sent
                      /\ \A i \in DOMAIN received[run] : received[run][i].status \notin 200..499
    /\ pc = "close" => received[run] # <<>> /\ Last(received[run]).status \in 200..399

\* A run that was not started has sent nothing.
Future == \A r \in Runs : r > run => received[r] = <<>> /\ result[r] = "none"

Whole == \A i \in DOMAIN received[run] :
            pc \in {"post", "close", "idle"} /\ received[run][i].body = sent

HttpInv ==
    /\ TypeOK
    /\ Progress
    /\ Future
    /\ run \in Runs => Whole
    /\ SuccessMeansReceived
    /\ SettledIsFinal

\* Before the first call of open() nothing is sent.
LEMMA HttpInit == Init => HttpInv
<1> SUFFICES ASSUME Init PROVE HttpInv
  OBVIOUS
<1>1. <<>> \in Body /\ <<>> \in Seq(Request)
  BY DEF Body
<1>2. TypeOK
  <2>1. hasBuffer \in BOOLEAN /\ finalized \in BOOLEAN
    BY Zenon DEF Init
  <2> QED BY <1>1, <2>1, HttpAssumption DEF Init, TypeOK
<1>3. run \notin Runs
  BY DEF Init, Runs
<1> QED
  BY <1>2, <1>3 DEF Init, HttpInv, Progress, Future, SuccessMeansReceived, SettledIsFinal

\* The caller's side: what the client does before finalize() posts.
LEMMA CallerSteps ==
    ASSUME HttpInv, Open \/ SendChunk \/ ChunkTooLarge \/ GiveUp \/ Finalize
    PROVE  HttpInv'
<1> USE DEF HttpInv
<1>1. CASE Open
  <2>1. run' = run + 1 /\ run' \in Runs /\ run' \in 0..MaxRuns /\ run' > run
    BY <1>1, HttpAssumption DEF Open, Runs, TypeOK
  <2>2. received[run'] = <<>> /\ result[run'] = "none"
    BY <2>1 DEF Future
  <2>3. TypeOK'
    <3>1. <<>> \in Body
      BY DEF Body
    <3>2. hasBuffer' \in BOOLEAN /\ finalized' \in BOOLEAN
      BY <1>1, Zenon DEF Open
    <3> QED BY <1>1, <2>1, <3>1, <3>2, HttpAssumption DEF Open, TypeOK
  <2>4. Progress'
    BY <1>1, <2>1, <2>2 DEF Open, Progress
  <2>5. Future'
    BY <1>1, <2>1 DEF Open, Future, TypeOK, Runs
  <2>6. Whole'
    BY <1>1, <2>2 DEF Open, Whole
  <2>7. UNCHANGED <<received, result>>
    BY <1>1 DEF Open
  <2> QED BY <2>3, <2>4, <2>5, <2>6, <2>7, HistoryKept
<1>2. CASE SendChunk
  <2> PICK bytes \in Sizes : /\ sent' = Append(sent, bytes)
                             /\ buffer' = Append(buffer, bytes)
                             /\ size' = size + bytes
    BY <1>2 DEF SendChunk
  <2>1. TypeOK'
    <3>1. Append(sent, bytes) \in Body /\ Append(buffer, bytes) \in Body
      BY AppendProperties DEF TypeOK, Body
    <3>2. size + bytes \in Nat
      BY HttpAssumption DEF TypeOK
    <3> QED BY <1>2, <3>1, <3>2 DEF SendChunk, TypeOK
  <2>2. run \in Runs /\ received[run] = <<>> /\ pc = "sending" /\ pc' = "sending"
    BY <1>2 DEF SendChunk, Progress
  <2>3. Progress' /\ Whole'
    BY <1>2, <2>2 DEF SendChunk, Progress, Whole
  <2>4. UNCHANGED <<run, received, result>>
    BY <1>2 DEF SendChunk
  <2>5. Future'
    BY <2>4 DEF Future
  <2> QED BY <2>1, <2>3, <2>4, <2>5, HistoryKept
<1>3. CASE ChunkTooLarge \/ GiveUp
  <2>1. /\ pc = "sending" /\ pc' = "idle"
        /\ result' = [result EXCEPT ![run] = "failed"]
        /\ UNCHANGED <<attempts, caller, client, body, received>>
    BY <1>3 DEF ChunkTooLarge, GiveUp, Ends
  <2>2. run \in Runs /\ received[run] = <<>>
    BY <2>1 DEF Progress
  <2>3. TypeOK'
    BY <2>1 DEF TypeOK, caller, client
  <2>4. Progress' /\ Future' /\ Whole'
    BY <2>1, <2>2 DEF Progress, Future, Whole, caller, Runs, TypeOK
  <2>5. SuccessMeansReceived'
    BY <2>1, <2>2 DEF SuccessMeansReceived, TypeOK
  <2> QED BY <2>1, <2>3, <2>4, <2>5 DEF SettledIsFinal
<1>4. CASE Finalize
  <2>1. run \in Runs /\ received[run] = <<>> /\ buffer = sent
    BY <1>4 DEF Finalize, Progress
  <2>2. TypeOK'
    BY <1>4 DEF Finalize, TypeOK, caller
  <2>3. Progress' /\ Future' /\ Whole'
    BY <1>4, <2>1 DEF Finalize, Progress, Future, Whole, caller
  <2>4. UNCHANGED <<received, result>>
    BY <1>4 DEF Finalize
  <2> QED BY <2>2, <2>3, <2>4, HistoryKept
<1> QED BY <1>1, <1>2, <1>3, <1>4

\* A POST that did not settle the delivery: the request may have been received,
\* without an answer or with a 5xx one, and is made again or has failed.
LEMMA UnsettledStep ==
    ASSUME HttpInv, pc = "post", NEW error, RetryOrRaise(error),
           NEW status \in {0} \cup Statuses,
           UNCHANGED received \/ Receive(status),
           IsRetryable(error, "http") => status \notin 200..499,
           UNCHANGED <<caller, client, body>>
    PROVE  HttpInv'
<1> USE DEF HttpInv
<1>1. run \in Runs /\ result[run] = "none" /\ body = sent
  BY DEF Progress
<1>2. received' \in [Runs -> Seq(Request)]
  BY <1>1, ReceiveStep DEF TypeOK
<1>3. \A r \in Runs : r # run => received'[r] = received[r]
  BY <1>1, ReceiveStep
<1>4. TypeOK'
  BY <1>1, <1>2, RetryStep DEF TypeOK, caller, client
<1> DEFINE q == [body |-> body, status |-> status]
<1>5. q.body = sent /\ q.status = status /\ q \in Request
  BY <1>1 DEF TypeOK, Request
<1>6. /\ Receive(status) => received'[run] = Append(received[run], q)
      /\ received[run] \in Seq(Request) /\ received'[run] \in Seq(Request)
  BY <1>1, <1>2, ReceiveStep DEF TypeOK
<1> HIDE DEF q
<1>7. \A i \in DOMAIN received'[run] :
         \/ i \in DOMAIN received[run] /\ received'[run][i] = received[run][i]
         \/ i = Len(received'[run]) /\ received'[run][i] = q
  <2>1. CASE UNCHANGED received
    BY <2>1
  <2>2. CASE Receive(status)
    <3>1. /\ Len(received'[run]) = Len(received[run]) + 1
          /\ received'[run][Len(received[run]) + 1] = q
          /\ \A i \in 1..Len(received[run]) : received'[run][i] = received[run][i]
      BY <1>5, <1>6, <2>2, AppendProperties
    <3> QED BY <1>6, <3>1
  <2> QED BY <2>1, <2>2
<1>8. run' = run /\ sent' = sent /\ body' = body
  BY DEF caller
<1>9. \/ pc' = "post" /\ result' = result /\ IsRetryable(error, "http")
      \/ pc' = "idle" /\ result' = [result EXCEPT ![run] = "failed"]
  BY <1>1, RetryStep
<1>10. Whole'
  <2>1. pc' \in {"post", "close", "idle"}
    BY <1>9
  <2>2. ASSUME NEW i \in DOMAIN received'[run] PROVE received'[run][i].body = sent
    <3>1. i \in DOMAIN received[run] => received[run][i].body = sent
      BY <1>1 DEF Whole
    <3> QED BY <1>5, <1>7, <3>1
  <2>3. \A i \in DOMAIN received'[run'] : received'[run'][i].body = sent'
    BY <1>8, <2>2
  <2> QED BY <2>1, <2>3 DEF Whole
<1>11. Progress'
  <2>1. CASE pc' = "idle"
    BY <2>1 DEF Progress
  <2>2. CASE pc' = "post" /\ result' = result /\ IsRetryable(error, "http")
    <3>1. ASSUME NEW i \in DOMAIN received'[run]
          PROVE  received'[run][i].status \notin 200..499
      <4>1. i \in DOMAIN received[run] => received[run][i].status \notin 200..499
        BY DEF Progress
      <4>2. q.status \notin 200..499
        BY <1>5, <2>2
      <4> QED BY <1>7, <4>1, <4>2
    <3>2. \A i \in DOMAIN received'[run'] : received'[run'][i].status \notin 200..499
      BY <1>8, <3>1, Zenon
    <3>3. run' \in Runs /\ result'[run'] = "none" /\ body' = sent'
      BY <1>1, <1>8, <2>2
    <3> QED BY <2>2, <3>2, <3>3 DEF Progress
  <2> QED BY <1>9, <2>1, <2>2
<1>12. Future'
  <2>1. \A r \in Runs : r # run => result'[r] = result[r]
    BY <1>9 DEF TypeOK
  <2>2. \A r \in Runs : r > run => r # run
    BY DEF Runs, TypeOK
  <2> QED BY <1>3, <1>8, <2>1, <2>2 DEF Future
<1>13. SuccessMeansReceived'
  <2> SUFFICES ASSUME NEW r \in Runs, result'[r] = "delivered"
               PROVE  received'[r] # <<>> /\ Last(received'[r]).status \in 200..399
    BY DEF SuccessMeansReceived
  <2>1. r # run /\ result[r] = "delivered"
    BY <1>1, <1>9 DEF TypeOK
  <2> QED BY <1>3, <2>1 DEF SuccessMeansReceived
<1>14. SettledIsFinal'
  <2> SUFFICES ASSUME NEW r \in Runs, NEW i \in DOMAIN received'[r],
                      received'[r][i].status \in 200..499
               PROVE  i = Len(received'[r])
    BY DEF SettledIsFinal
  <2>1. CASE r # run
    BY <1>3, <2>1 DEF SettledIsFinal
  <2>2. CASE r = run
    BY <1>7, <2>2 DEF Progress
  <2> QED BY <2>1, <2>2
<1> QED BY <1>4, <1>10, <1>11, <1>12, <1>13, <1>14

\* The POST and the close() that follows it.
LEMMA PostSteps ==
    ASSUME HttpInv, Post
    PROVE  HttpInv'
<1> USE DEF HttpInv
<1>1. CASE PostRaises
  <2>1. PICK words \in Errors : RetryOrRaise([category |-> "none", words |-> words])
    BY <1>1 DEF PostRaises
  <2>2. 0 \in {0} \cup Statuses /\ 0 \notin 200..499
    OBVIOUS
  <2> QED BY <1>1, <2>1, <2>2, UnsettledStep DEF PostRaises
<1>2. CASE PostRefused
  <2>1. PICK s \in Statuses :
           /\ s >= 400
           /\ Receive(s)
           /\ RetryOrRaise(Marked(IF s >= 500 THEN "remote_5xx" ELSE "remote_4xx"))
    BY <1>2 DEF PostRefused
  <2>2. s \in {0} \cup Statuses /\ s \in Nat
    BY HttpAssumption
  <2>3. IsRetryable(Marked(IF s >= 500 THEN "remote_5xx" ELSE "remote_4xx"), "http")
           => s \notin 200..499
    BY <2>2, ClientErrorsEnd
  <2> QED BY <1>2, <2>1, <2>2, <2>3, UnsettledStep DEF PostRefused
<1>3. CASE PostAccepted
  <2>1. PICK s \in Statuses : s < 400 /\ Receive(s)
    BY <1>3 DEF PostAccepted
  <2>2. s \in {0} \cup Statuses /\ s \in 200..399
    BY <2>1, HttpAssumption
  <2>3. /\ run \in Runs /\ result[run] = "none" /\ body = sent
        /\ pc = "post" /\ pc' = "close"
        /\ run' = run /\ sent' = sent /\ body' = body /\ result' = result
    BY <1>3 DEF PostAccepted, Progress, caller
  <2> DEFINE q == [body |-> body, status |-> s]
  <2>4. /\ received' \in [Runs -> Seq(Request)]
        /\ received'[run] = Append(received[run], q)
        /\ \A r \in Runs : r # run => received'[r] = received[r]
    BY <2>1, <2>2, <2>3, ReceiveStep
  <2>5. received[run] \in Seq(Request) /\ q \in Request
    BY <2>2, <2>3 DEF TypeOK, Request
  <2>6. q.body = sent /\ q.status = s
    BY <2>3
  <2> HIDE DEF q
  <2>7. /\ Len(received'[run]) = Len(received[run]) + 1
        /\ received'[run][Len(received[run]) + 1] = q
        /\ \A i \in 1..Len(received[run]) : received'[run][i] = received[run][i]
        /\ Len(received[run]) \in Nat
        /\ DOMAIN received[run] = 1..Len(received[run])
        /\ DOMAIN received'[run] = 1..Len(received'[run])
    BY <2>4, <2>5, AppendProperties
  <2>8. \A i \in DOMAIN received'[run] :
           \/ i \in DOMAIN received[run] /\ received'[run][i] = received[run][i]
           \/ i = Len(received'[run]) /\ received'[run][i] = q
    BY <2>7
  <2>9. TypeOK'
    BY <1>3, <2>3, <2>4 DEF PostAccepted, TypeOK, caller
  <2>10. Whole'
    BY <2>3, <2>6, <2>8 DEF Whole
  <2>11. Progress'
    <3>1. received'[run] # <<>> /\ Last(received'[run]) = q
      BY <2>7 DEF Last
    <3> QED BY <2>2, <2>3, <2>6, <3>1 DEF Progress
  <2>12. Future'
    BY <2>3, <2>4 DEF Future, Runs, TypeOK
  <2>13. SuccessMeansReceived'
    BY <2>3, <2>4 DEF SuccessMeansReceived
  <2>14. SettledIsFinal'
    <3> SUFFICES ASSUME NEW r \in Runs, NEW i \in DOMAIN received'[r],
                        received'[r][i].status \in 200..499
                 PROVE  i = Len(received'[r])
      BY DEF SettledIsFinal
    <3>1. CASE r # run
      BY <2>4, <3>1 DEF SettledIsFinal
    <3>2. CASE r = run
      BY <2>3, <2>8, <3>2 DEF Progress
    <3> QED BY <3>1, <3>2
  <2> QED BY <2>9, <2>10, <2>11, <2>12, <2>13, <2>14
<1>4. CASE CloseClient
  <2>1. PICK outcome \in {"delivered", "failed"} : Ends(outcome)
    BY <1>4 DEF CloseClient
  <2>2. /\ pc = "close" /\ pc' = "idle"
        /\ result' = [result EXCEPT ![run] = outcome]
        /\ UNCHANGED <<attempts, caller, client, body, received>>
    BY <1>4, <2>1 DEF CloseClient, Ends
  <2>3. run \in Runs /\ received[run] # <<>> /\ Last(received[run]).status \in 200..399
    BY <2>2 DEF Progress
  <2>4. TypeOK'
    BY <2>2 DEF TypeOK, caller, client
  <2>5. Progress' /\ Future' /\ Whole'
    BY <2>2, <2>3 DEF Progress, Future, Whole, caller, Runs, TypeOK
  <2>6. SuccessMeansReceived'
    BY <2>2, <2>3 DEF SuccessMeansReceived, TypeOK
  <2> QED BY <2>2, <2>4, <2>5, <2>6 DEF SettledIsFinal
<1> QED BY <1>1, <1>2, <1>3, <1>4 DEF Post

\* The inductive invariant holds of every state of every behaviour.
THEOREM HttpInvariant == Spec => []HttpInv
<1>1. HttpInv /\ UNCHANGED vars => HttpInv'
  <2> SUFFICES ASSUME HttpInv, UNCHANGED vars PROVE HttpInv'
    OBVIOUS
  <2>1. TypeOK'
    BY DEF vars, caller, client, HttpInv, TypeOK
  <2>4. Progress'
    BY DEF vars, caller, client, HttpInv, Progress
  <2>2. Future' /\ (run \in Runs => Whole)'
    BY DEF vars, caller, HttpInv, Future, Whole
  <2>3. SuccessMeansReceived' /\ SettledIsFinal'
    BY HistoryKept DEF vars, HttpInv
  <2> QED BY <2>1, <2>2, <2>3, <2>4 DEF HttpInv
<1>2. HttpInv /\ [Next]_vars => HttpInv'
  BY <1>1, CallerSteps, PostSteps DEF Next
<1> QED BY <1>2, HttpInit, PTL DEF Spec

\* However often the body is posted, each copy is all chunks of the run and of
\* no other, and nothing leaves the client before finalize().
THEOREM EveryCopyIsWhole == Spec => []CopiesAreWhole
<1>1. HttpInv => CopiesAreWhole
  BY DEF HttpInv, TypeOK, Whole, CopiesAreWhole, RequestsOf, Runs
<1> QED BY <1>1, HttpInvariant, PTL

\* What finalize() reports as delivered was received and not refused.
THEOREM DeliveredWasReceived == Spec => []SuccessMeansReceived
<1>1. HttpInv => SuccessMeansReceived
  BY DEF HttpInv
<1> QED BY <1>1, HttpInvariant, PTL

\* No POST follows an answer that settles the delivery.
THEOREM NothingAfterSettlement == Spec => []SettledIsFinal
<1>1. HttpInv => SettledIsFinal
  BY DEF HttpInv
<1> QED BY <1>1, HttpInvariant, PTL
=============================================================================
