-------------------------- MODULE PipelineRunProofs --------------------------
(***************************************************************************)
(* Proofs about PipelineRun, for every set of items and worker             *)
(* configurations and every bound: type correctness, and that a SUCCESS    *)
(* report means a complete archive and a complete delivery of the same     *)
(* chunks, together with the invariants this rests on.                     *)
(***************************************************************************)
EXTENDS PipelineRun, TLAPS, FiniteSetTheorems, SequenceTheorems

-----------------------------------------------------------------------------
(* Lemmas about the operators of ItemDecision and about counting. *)

\* The effective issues of an item are as many as its raw ones, and what is
\* recorded of them is a list of diagnostics.
LEMMA RecordedType ==
    ASSUME NEW strategy, NEW issues \in Seq(RuleSeverity)
    PROVE  Recorded(Validate(strategy, issues)) \in Seq(DiagnosticSeverity)
<1> DEFINE v == Validate(strategy, issues)
<1>1. DOMAIN v.items = 1..Len(issues)
  BY DEF Validate
<1>2. \A x : NormalizeValidationSeverity(x) \in DiagnosticSeverity
  BY DEF NormalizeValidationSeverity, DiagnosticSeverity
<1>3. Recorded(v) = [i \in 1..Len(issues) |-> NormalizeValidationSeverity(v.items[i])]
  BY <1>1 DEF Recorded
<1> HIDE DEF v
<1>4. Recorded(v) \in [1..Len(issues) -> DiagnosticSeverity]
  BY <1>2, <1>3
<1> QED BY <1>4, LenProperties DEF v

LEMMA PlusType ==
    ASSUME NEW counts \in CountsType, NEW list \in Seq(DiagnosticSeverity)
    PROVE  Plus(counts, list) \in CountsType
<1>1. ASSUME NEW s \in DiagnosticSeverity
      PROVE  CountOf(s, list) \in Nat
  <2> DEFINE hits == {i \in DOMAIN list : list[i] = s}
  <2>1. DOMAIN list = 1..Len(list) /\ Len(list) \in Nat
    OBVIOUS
  <2>2. IsFiniteSet(1..Len(list))
    BY <2>1, FS_Interval
  <2>3. hits \subseteq 1..Len(list)
    BY <2>1
  <2>4. IsFiniteSet(hits)
    BY <2>2, <2>3, FS_Subset
  <2> QED BY <2>4, FS_CardinalityType DEF CountOf
<1> QED BY <1>1 DEF Plus, CountsType

-----------------------------------------------------------------------------
(* Type correctness *)

LEMMA InitialValues ==
    /\ ZeroCounts \in CountsType
    /\ ZeroUsage \in UsageType
    /\ NoFailure \in ContextType
    /\ Untouched \in ObjectType
    /\ NoReport \in ReportType
<1>1. ZeroCounts \in CountsType
  BY DEF ZeroCounts, CountsType
<1>2. ZeroUsage \in UsageType
  BY <1>1 DEF ZeroUsage, UsageType
<1>3. NoFailure \in ContextType
  BY DEF NoFailure, ContextType, FailedSteps, ReasonCodes
<1>4. Untouched \in ObjectType
  BY DEF Untouched, ObjectType
<1>5. NoReport \in ReportType
  BY <1>1, <1>2 DEF NoReport, ReportType, FailedSteps, ReasonCodes
<1> QED BY <1>1, <1>2, <1>3, <1>4, <1>5

\* The failure a step reports carries documented tokens.
LEMMA FailType ==
    ASSUME NEW step \in FailedSteps, NEW reason \in ReasonCodes, Fail(step, reason)
    PROVE  ctx' \in ContextType /\ pc' \in PC
BY DEF Fail, Failure, ContextType, PC

LEMMA PublishFailsType ==
    ASSUME PublishFails
    PROVE  ctx' \in ContextType /\ pc' \in PC
BY FailType DEF PublishFails, PublishReasons, FailedSteps, ReasonCodes

\* What one `next` on the payload changes, for any item.
LEMMA PullType ==
    ASSUME TypeOK, NEW item \in Items, PullItem(item)
    PROVE  TypeOK'
<1>1. item \in ItemType
  BY RunAssumption
<1>2. /\ pulled' \in Seq(Items) /\ usage' \in UsageType
      /\ worker' \in Workers /\ runs' \in 0..MaxRuns
      /\ archive' \in ObjectType /\ delivery' \in ObjectType /\ report' \in ReportType
  <2>1. Pull(item)
    BY DEF PullItem, PullNonMapping, PullThrowing, PullDropped, PullStopping, PullMapped
  <2>2. usage' \in UsageType
    <3>1. usage \in UsageType /\ usage' = [usage EXCEPT !.input = usage.input + 1]
      BY <2>1 DEF TypeOK, Pull
    <3>2. usage.input + 1 \in Nat
      BY <3>1 DEF UsageType
    <3> QED BY <3>1, <3>2 DEF UsageType
  <2> QED BY <2>1, <2>2 DEF TypeOK, Pull
<1>3. diags' \in CountsType
  <2> DEFINE list == Recorded(Verdict(item))
  <2>1. list \in Seq(DiagnosticSeverity)
    BY <1>1, RecordedType DEF Verdict, ItemType
  <2>2. "ERROR" \in DiagnosticSeverity
    BY DEF DiagnosticSeverity
  <2>3. <<"ERROR">> \in Seq(DiagnosticSeverity)
    BY <2>2
  <2>4. Append(list, "ERROR") \in Seq(DiagnosticSeverity)
    BY <2>1, <2>2, AppendProperties
  <2>5. [i \in 1..item.mappingIssues |-> "ERROR"] \in Seq(DiagnosticSeverity)
    <3>1. item.mappingIssues \in Nat
      BY <1>1 DEF ItemType
    <3>2. [i \in 1..item.mappingIssues |-> "ERROR"]
             \in [1..item.mappingIssues -> DiagnosticSeverity]
      BY <2>2
    <3> QED BY <3>1, <3>2
  <2>6. list \o [i \in 1..item.mappingIssues |-> "ERROR"] \in Seq(DiagnosticSeverity)
    BY <2>1, <2>5, ConcatProperties
  <2>7. \E l \in Seq(DiagnosticSeverity) : diags' = diags \/ diags' = Plus(diags, l)
    BY <2>1, <2>3, <2>4, <2>6
       DEF PullItem, PullNonMapping, PullThrowing, PullDropped, PullStopping, PullMapped
  <2> QED BY <2>7, PlusType DEF TypeOK
<1>4. /\ pc' \in PC /\ ctx' \in ContextType
      /\ chunk' \in Nat /\ chunks' \in Seq(Nat)
  <2>1. Fail("PUBLISH", "PUBLISH.ERROR") => PublishFails
    BY DEF PublishFails, PublishReasons
  <2>2. Len(pulled) + 1 \in Nat
    BY DEF TypeOK
  <2>3. CASE PublishFails /\ UNCHANGED <<chunk, chunks>>
    BY <2>3, PublishFailsType DEF TypeOK
  <2>4. CASE Dropped
    BY <2>4 DEF Dropped, TypeOK
  <2>5. CASE pc' = "finArchive" /\ UNCHANGED <<ctx, chunk, chunks>>
    BY <2>5 DEF TypeOK, PC
  <2>6. CASE Yield(Len(pulled) + 1) /\ UNCHANGED ctx
    BY <2>2, <2>6, AppendProperties DEF Yield, TypeOK, PC
  <2> QED
    BY <2>1, <2>3, <2>4, <2>5, <2>6
       DEF PullItem, PullNonMapping, PullThrowing, PullDropped, PullStopping, PullMapped
<1> QED BY <1>2, <1>3, <1>4 DEF TypeOK

LEMMA ObjectSteps ==
    ASSUME NEW object \in ObjectType, NEW c \in Nat
    PROVE  /\ [status |-> "open", data |-> <<>>] \in ObjectType
           /\ [object EXCEPT !.data = Append(@, c)] \in ObjectType
           /\ [object EXCEPT !.status = "complete"] \in ObjectType
<1>1. object.data \in Seq(Nat) /\ object.status \in {"none", "open", "complete"}
  BY DEF ObjectType
<1>2. Append(object.data, c) \in Seq(Nat)
  BY <1>1, AppendProperties
<1>3. [status |-> "open", data |-> <<>>] \in ObjectType
  <2>1. <<>> \in Seq(Nat)
    OBVIOUS
  <2> QED BY <2>1 DEF ObjectType
<1>4. [object EXCEPT !.data = Append(@, c)] \in ObjectType
  BY <1>2 DEF ObjectType
<1>5. [object EXCEPT !.status = "complete"] \in ObjectType
  BY DEF ObjectType
<1> QED BY <1>3, <1>4, <1>5

\* Every step preserves the type invariant. A failure of a publish call is
\* PublishFailsType, a step of the payload PullType.
THEOREM TypeCorrect == Spec => []TypeOK
<1>1. Init => TypeOK
  <2> SUFFICES ASSUME Init PROVE TypeOK
    OBVIOUS
  <2>1. 0 \in 0..MaxRuns
    BY RunAssumption
  <2> QED BY <2>1, InitialValues DEF Init, TypeOK, PC
<1>2. TypeOK /\ [Next]_vars => TypeOK'
  <2> SUFFICES ASSUME TypeOK, [Next]_vars PROVE TypeOK'
    OBVIOUS
  <2> USE DEF TypeOK
  <2>1. CASE StartRun
    <3>1. runs + 1 \in 0..MaxRuns
      BY <2>1, RunAssumption DEF StartRun
    <3> QED BY <2>1, <3>1, InitialValues DEF StartRun, PC
  <2>2. CASE Extract
    <3>1. /\ "INGESTION_EXTRACT" \in FailedSteps
          /\ {"INGESTION.EXTRACT_TIMEOUT", "INGESTION.EXTRACT_ERROR"} \subseteq ReasonCodes
      BY DEF FailedSteps, ReasonCodes
    <3>2. ctx' \in ContextType /\ pc' \in PC
      BY <2>2, <3>1, FailType DEF Extract, PC
    <3> QED BY <2>2, <3>2 DEF Extract
  <2>3. CASE Core
    <3>1. /\ {"CORE_BUILD", "INTERNAL"} \subseteq FailedSteps
          /\ {"CORE.CONTRACT_ERROR", "INTERNAL.ERROR"} \subseteq ReasonCodes
      BY DEF FailedSteps, ReasonCodes
    <3>2. ctx' \in ContextType /\ pc' \in PC
      BY <2>3, <3>1, FailType DEF Core, PC
    <3>3. <<"ERROR">> \in Seq(DiagnosticSeverity)
      BY DEF DiagnosticSeverity
    <3>4. diags' \in CountsType
      BY <2>3, <3>3, PlusType DEF Core
    <3> QED BY <2>3, <3>2, <3>4 DEF Core
  <2>4. CASE Gate
    <3>1. "CORE_BUILD" \in FailedSteps /\ "CORE.VALIDATION_FAILED" \in ReasonCodes
      BY DEF FailedSteps, ReasonCodes
    <3>2. ctx' \in ContextType /\ pc' \in PC
      BY <2>4, <3>1, FailType DEF Gate, PC
    <3> QED BY <2>4, <3>2 DEF Gate
  <2>5. CASE GateIndexError
    <3>1. [NoReport EXCEPT !.status = "raised"] \in ReportType
      BY InitialValues DEF ReportType
    <3> QED BY <2>5, <3>1 DEF GateIndexError, PC
  <2>6. CASE OpenArchive
    <3>1. ctx' \in ContextType /\ pc' \in PC
      BY <2>6, PublishFailsType DEF OpenArchive, PC
    <3>2. archive' \in ObjectType
      BY <2>6, ObjectSteps DEF OpenArchive
    <3> QED BY <2>6, <3>1, <3>2 DEF OpenArchive
  <2>7. CASE OpenClient
    <3>1. ctx' \in ContextType /\ pc' \in PC
      BY <2>7, PublishFailsType DEF OpenClient, PC
    <3>2. delivery' \in ObjectType
      BY <2>7, ObjectSteps DEF OpenClient
    <3> QED BY <2>7, <3>1, <3>2 DEF OpenClient
  <2>8. CASE WriteChunk
    <3>1. ctx' \in ContextType /\ pc' \in PC
      BY <2>8, PublishFailsType DEF WriteChunk, PC
    <3>2. archive' \in ObjectType
      BY <2>8, ObjectSteps DEF WriteChunk
    <3> QED BY <2>8, <3>1, <3>2 DEF WriteChunk
  <2>9. CASE SendChunk
    <3>1. ctx' \in ContextType /\ pc' \in PC
      BY <2>9, PublishFailsType DEF SendChunk, PC
    <3>2. delivery' \in ObjectType
      BY <2>9, ObjectSteps DEF SendChunk
    <3> QED BY <2>9, <3>1, <3>2 DEF SendChunk
  <2>10. CASE FinalizeArchive
    <3>1. ctx' \in ContextType /\ pc' \in PC
      BY <2>10, PublishFailsType DEF FinalizeArchive, PC
    <3>2. archive' \in ObjectType
      BY <2>10, ObjectSteps DEF FinalizeArchive
    <3> QED BY <2>10, <3>1, <3>2 DEF FinalizeArchive
  <2>11. CASE FinalizeClient
    <3>1. [ctx EXCEPT !.artifacts = <<chunks>>] \in ContextType
      <4>1. <<chunks>> \in Seq(Seq(Nat))
        OBVIOUS
      <4> QED BY <4>1 DEF ContextType
    <3>2. ctx' \in ContextType /\ pc' \in PC
      BY <2>11, <3>1, PublishFailsType DEF FinalizeClient, PC
    <3>3. delivery' \in ObjectType
      BY <2>11, ObjectSteps DEF FinalizeClient
    <3> QED BY <2>11, <3>2, <3>3 DEF FinalizeClient
  <2>12. CASE YieldHeader
    <3>1. Append(chunks, 0) \in Seq(Nat)
      BY AppendProperties
    <3> QED BY <2>12, <3>1 DEF YieldHeader, Yield, PC
  <2>13. CASE \E item \in Items : PullItem(item)
    BY <2>13, PullType
  <2>14. CASE EndOfFeed
    BY <2>14 DEF EndOfFeed, PC
  <2>15. CASE FeedThrows
    <3>1. "PUBLISH" \in FailedSteps /\ "PUBLISH.ERROR" \in ReasonCodes
      BY DEF FailedSteps, ReasonCodes
    <3>2. ctx' \in ContextType /\ pc' \in PC
      BY <2>15, <3>1, FailType DEF FeedThrows
    <3> QED BY <2>15, <3>2 DEF FeedThrows
  <2>16. CASE Report
    <3>1. usage' \in UsageType
      <4>1. usage \in UsageType /\ diags \in CountsType
        OBVIOUS
      <4>2. [s \in DiagnosticSeverity |-> usage.diagnostics[s] + diags[s]] \in CountsType
        BY <4>1 DEF UsageType, CountsType
      <4>3. /\ usage.errors \in Nat /\ usage.errors + 1 \in Nat
            /\ usage.artifacts \in Nat /\ usage.artifacts + Len(ctx.artifacts) \in Nat
            /\ usage.processed \in Nat /\ usage.processed + usage.input \in Nat
        BY <4>1 DEF UsageType, ContextType
      <4> QED BY <2>16, <4>1, <4>2, <4>3 DEF Report, UsageType
    <3>2. report' \in ReportType
      BY <2>16, <3>1 DEF Report, ReportType, ContextType
    <3> QED BY <2>16, <3>1, <3>2 DEF Report, PC
  <2>17. CASE UNCHANGED vars
    BY <2>17 DEF vars
  <2> QED
    BY <2>1, <2>2, <2>3, <2>4, <2>5, <2>6, <2>7, <2>8, <2>9, <2>10, <2>11, <2>12,
       <2>13, <2>14, <2>15, <2>16, <2>17 DEF Next, Running
<1> QED BY <1>1, <1>2, PTL DEF Spec

-----------------------------------------------------------------------------
(* The inductive invariant *)

Properties ==
    /\ StageInv
    /\ ContextInv
    /\ SuccessMeansDelivered
    /\ DeliveredIsArchived
    /\ EarlyFailureTouchesNothing

\* A publish call that raises in the middle of a run leaves a context whose
\* failed step is PUBLISH.
LEMMA PublishFailsStep ==
    ASSUME PublishFails
    PROVE  pc' = "report" /\ ctx'.failed_step = "PUBLISH"
BY DEF PublishFails, Fail, Failure

\* The steps of run() before publishing keep both destinations untouched.
LEMMA EarlySteps ==
    ASSUME TypeOK, Properties, StartRun \/ Extract \/ Core \/ Gate \/ GateIndexError
    PROVE  Properties'
<1> USE DEF Properties, StageInv, ContextInv, SuccessMeansDelivered, DeliveredIsArchived,
            EarlyFailureTouchesNothing, BeforePublish,
            Untouched, NoReport
<1>1. CASE StartRun
  BY <1>1 DEF StartRun, NoFailure
<1>2. CASE Extract
  BY <1>2 DEF Extract, Fail, Failure, NoFailure
<1>3. CASE Core
  BY <1>3 DEF Core, Fail, Failure, NoFailure
<1>4. CASE Gate
  BY <1>4 DEF Gate, Fail, Failure, NoFailure
<1>5. CASE GateIndexError
  BY <1>5 DEF GateIndexError
<1> QED BY <1>1, <1>2, <1>3, <1>4, <1>5

\* Appending a chunk to an open object.
LEMMA SendData ==
    ASSUME NEW object, NEW data, NEW c, Open(object, data)
    PROVE  [object EXCEPT !.data = Append(@, c)]
              = [status |-> "open", data |-> Append(data, c)]
BY DEF Open

\* The calls on the destinations.
LEMMA PublishSteps ==
    ASSUME TypeOK, Properties,
           OpenArchive \/ OpenClient \/ WriteChunk \/ SendChunk
              \/ FinalizeArchive \/ FinalizeClient
    PROVE  Properties'
<1> USE PublishFailsStep
    DEF Properties, StageInv, ContextInv, SuccessMeansDelivered, DeliveredIsArchived,
        EarlyFailureTouchesNothing, BeforePublish,
        Untouched, Open, Complete, NoReport
<1>1. CASE OpenArchive
  <2>1. /\ pc = "openArchive" /\ delivery = Untouched /\ chunks = <<>> /\ pulled = <<>>
        /\ UNCHANGED <<delivery, chunks, pulled, report>>
    BY <1>1 DEF OpenArchive
  <2>2. CASE pc' = "openClient" /\ archive' = [status |-> "open", data |-> <<>>] /\ UNCHANGED ctx
    BY <2>1, <2>2 DEF NoFailure
  <2>3. CASE PublishFails /\ UNCHANGED archive
    BY <2>1, <2>3
  <2> QED BY <1>1, <2>2, <2>3 DEF OpenArchive
<1>2. CASE OpenClient
  BY <1>2 DEF OpenClient
<1>3. CASE WriteChunk
  BY <1>3 DEF WriteChunk
<1>4. CASE SendChunk
  <2>1. /\ pc = "send"
        /\ Open(archive, chunks) /\ Open(delivery, delivery.data)
        /\ chunks = Append(delivery.data, chunk)
        /\ UNCHANGED <<archive, chunks, chunk, pulled, report>>
    BY <1>4 DEF SendChunk
  <2>2. CASE /\ pc' = "next" /\ UNCHANGED ctx
             /\ delivery' = [delivery EXCEPT !.data = Append(@, chunk)]
    <3>1. delivery' = [status |-> "open", data |-> Append(delivery.data, chunk)]
      <4>1. Open(delivery, delivery.data)
        BY <2>1
      <4> QED BY ONLY <2>2, <4>1, SendData, SMTT(30)
    <3>2. Open(delivery', chunks)
      BY <2>1, <3>1
    <3> QED BY <2>1, <2>2, <3>2 DEF NoFailure
  <2>3. CASE PublishFails /\ UNCHANGED delivery
    BY <2>1, <2>3
  <2> QED BY <1>4, <2>2, <2>3 DEF SendChunk
<1>5. CASE FinalizeArchive
  BY <1>5 DEF FinalizeArchive
<1>6. CASE FinalizeClient
  BY <1>6 DEF FinalizeClient, TypeOK, ContextType, NoFailure
<1> QED BY <1>1, <1>2, <1>3, <1>4, <1>5, <1>6

\* The payload: a chunk, nothing, the end of the stream, or an exception.
LEMMA PayloadSteps ==
    ASSUME TypeOK, Properties,
           YieldHeader \/ (\E item \in Items : PullItem(item)) \/ EndOfFeed \/ FeedThrows
    PROVE  Properties'
<1> USE DEF Properties, StageInv, ContextInv, SuccessMeansDelivered, DeliveredIsArchived,
            EarlyFailureTouchesNothing, BeforePublish,
            Untouched, Open, Complete, NoReport
<1>1. /\ pc = "next"
      /\ UNCHANGED <<archive, delivery, report>>
      /\ \/ PublishFails /\ UNCHANGED <<chunk, chunks>>
         \/ Dropped
         \/ pc' = "finArchive" /\ UNCHANGED <<ctx, chunk, chunks>>
         \/ (\E c : Yield(c)) /\ UNCHANGED ctx
  BY DEF PublishFails, PublishReasons, YieldHeader, PullItem, PullNonMapping, PullThrowing, PullDropped, PullStopping,
         PullMapped, Pull, EndOfFeed, FeedThrows
<1>2. CASE PublishFails /\ UNCHANGED <<chunk, chunks>>
  BY <1>1, <1>2, PublishFailsStep
<1>3. CASE Dropped
  BY <1>1, <1>3 DEF Dropped, NoFailure
<1>4. CASE pc' = "finArchive" /\ UNCHANGED <<ctx, chunk, chunks>>
  BY <1>1, <1>4 DEF NoFailure
<1>5. CASE (\E c : Yield(c)) /\ UNCHANGED ctx
  BY <1>1, <1>5 DEF Yield, NoFailure
<1> QED BY <1>1, <1>2, <1>3, <1>4, <1>5

LEMMA ReportStep ==
    ASSUME TypeOK, Properties, Report
    PROVE  Properties'
BY DEF Properties, StageInv, ContextInv, SuccessMeansDelivered, DeliveredIsArchived,
       EarlyFailureTouchesNothing, BeforePublish, Untouched,
       Open, Complete, Report

\* The inductive invariant holds of every state of every behaviour.
THEOREM RunInvariant == Spec => []RunInv
<1>1. Init => Properties
  BY DEF Init, Properties, StageInv, ContextInv, SuccessMeansDelivered,
         DeliveredIsArchived, EarlyFailureTouchesNothing,
         Untouched, NoReport, NoFailure
<1>2. TypeOK /\ Properties /\ [Next]_vars => Properties'
  <2> SUFFICES ASSUME TypeOK, Properties, [Next]_vars PROVE Properties'
    OBVIOUS
  <2>1. CASE UNCHANGED vars
    BY <2>1 DEF vars, Properties, StageInv, ContextInv, SuccessMeansDelivered,
           DeliveredIsArchived, EarlyFailureTouchesNothing,
           BeforePublish, Open, Complete
  <2> QED
    BY <2>1, EarlySteps, PublishSteps, PayloadSteps, ReportStep DEF Next, Running
<1>3. RunInv <=> TypeOK /\ Properties
  BY DEF RunInv, Properties
<1> QED BY <1>1, <1>2, <1>3, TypeCorrect, PTL DEF Spec

\* A SUCCESS report means that archive and delivery are complete and hold the
\* chunks of the report's artifact.
THEOREM SuccessDelivered == Spec => []SuccessMeansDelivered
<1>1. RunInv => SuccessMeansDelivered
  BY DEF RunInv
<1> QED BY <1>1, RunInvariant, PTL

\* Nothing is sent that was not archived, and what was delivered in full was archived
\* in full before.
THEOREM DeliveryArchived == Spec => []DeliveredIsArchived
<1>1. RunInv => DeliveredIsArchived
  BY DEF RunInv
<1> QED BY <1>1, RunInvariant, PTL

\* A failure before publishing leaves the destinations and the feed untouched.
THEOREM EarlyFailure == Spec => []EarlyFailureTouchesNothing
<1>1. RunInv => EarlyFailureTouchesNothing
  BY DEF RunInv
<1> QED BY <1>1, RunInvariant, PTL

-----------------------------------------------------------------------------
(* What becomes of the items of the feed: the inductive invariant *)

\* The collector holds the items of this run and nothing else until the report
\* closes it.
CountersInv == pc # "idle" => usage = [ZeroUsage EXCEPT !.input = Len(pulled)]

\* A chunk is the header, or the row of an item that was read.
RowsInv == \A i \in DOMAIN chunks : chunks[i] \in 0..Len(pulled)

\* While the feed is read on, no item read so far has a FAIL verdict.
ReadingInv ==
    pc \in {"next", "write", "send"} => \A n \in DOMAIN pulled : ~Stops(pulled[n])

SumOf(counts) == counts["ERROR"] + counts["WARN"] + counts["INFO"]

\* As long as nothing failed, each lost item is matched by a diagnostic.
LossInv == ctx.failed_step = "none" => Cardinality(LostItems) <= SumOf(diags)

FeedInv ==
    /\ CountersInv
    /\ RowsInv
    /\ ReadingInv
    /\ LossInv
    /\ UsageIsPerRun
    /\ StrictnessKeepsInvalidOut
    /\ FailStopIsFinal

\* Recording diagnostics never lowers the sum of the counts, and recording at
\* least one raises it.
LEMMA PlusGrows ==
    ASSUME NEW counts \in CountsType, NEW list \in Seq(DiagnosticSeverity)
    PROVE  /\ SumOf(counts) \in Nat
           /\ SumOf(Plus(counts, list)) \in Nat
           /\ SumOf(Plus(counts, list)) >= SumOf(counts)
           /\ list # <<>> => SumOf(Plus(counts, list)) >= SumOf(counts) + 1
<1> DEFINE Hits(s) == {i \in DOMAIN list : list[i] = s}
<1>1. DOMAIN list = 1..Len(list) /\ Len(list) \in Nat
  OBVIOUS
<1>2. ASSUME NEW s
      PROVE  /\ CountOf(s, list) \in Nat
             /\ Hits(s) # {} => CountOf(s, list) >= 1
  <2>1. IsFiniteSet(1..Len(list)) /\ Hits(s) \subseteq 1..Len(list)
    BY <1>1, FS_Interval
  <2>2. IsFiniteSet(Hits(s)) /\ Cardinality(Hits(s)) \in Nat
    BY <2>1, FS_Subset, FS_CardinalityType
  <2>3. Cardinality(Hits(s)) = 0 <=> Hits(s) = {}
    BY <2>2, FS_EmptySet
  <2> QED BY <2>2, <2>3 DEF CountOf
<1>3. {"ERROR", "WARN", "INFO"} = DiagnosticSeverity
  BY DEF DiagnosticSeverity
<1>4. /\ counts["ERROR"] \in Nat /\ counts["WARN"] \in Nat /\ counts["INFO"] \in Nat
      /\ Plus(counts, list)["ERROR"] = counts["ERROR"] + CountOf("ERROR", list)
      /\ Plus(counts, list)["WARN"] = counts["WARN"] + CountOf("WARN", list)
      /\ Plus(counts, list)["INFO"] = counts["INFO"] + CountOf("INFO", list)
  BY <1>3 DEF Plus, CountsType
<1>5. ASSUME list # <<>>
      PROVE  \E s \in DiagnosticSeverity : Hits(s) # {}
  <2>1. 1 \in DOMAIN list /\ list[1] \in DiagnosticSeverity
    BY <1>1, <1>5
  <2> QED BY <2>1
<1>6. list # <<>> => \/ CountOf("ERROR", list) >= 1
                    \/ CountOf("WARN", list) >= 1
                    \/ CountOf("INFO", list) >= 1
  BY <1>2, <1>3, <1>5
<1>7. CountOf("ERROR", list) \in Nat /\ CountOf("WARN", list) \in Nat /\ CountOf("INFO", list) \in Nat
  BY <1>2
<1>8. /\ SumOf(counts) \in Nat
      /\ SumOf(Plus(counts, list)) = SumOf(counts)
            + (CountOf("ERROR", list) + CountOf("WARN", list) + CountOf("INFO", list))
  <2>2. SumOf(Plus(counts, list)) = (counts["ERROR"] + CountOf("ERROR", list))
                                       + (counts["WARN"] + CountOf("WARN", list))
                                       + (counts["INFO"] + CountOf("INFO", list))
    BY ONLY <1>4, Zenon DEF SumOf
  <2>3. SumOf(counts) = counts["ERROR"] + counts["WARN"] + counts["INFO"]
    BY DEF SumOf
  <2> DEFINE ce == counts["ERROR"]
             cw == counts["WARN"]
             ci == counts["INFO"]
             e == CountOf("ERROR", list)
             w == CountOf("WARN", list)
             i == CountOf("INFO", list)
  <2>4. ce \in Nat /\ cw \in Nat /\ ci \in Nat /\ e \in Nat /\ w \in Nat /\ i \in Nat
    BY <1>4, <1>7
  <2> HIDE DEF ce, cw, ci, e, w, i
  <2>5. ce + cw + ci \in Nat /\ (ce + e) + (cw + w) + (ci + i) = (ce + cw + ci) + (e + w + i)
    BY ONLY <2>4
  <2> QED BY ONLY <2>2, <2>3, <2>5, Zenon DEF ce, cw, ci, e, w, i
<1> QED BY <1>6, <1>7, <1>8

\* An item that passes validation under a strictness that rejects errors has no
\* issue that counts as one.
LEMMA PassedIsValid ==
    ASSUME NEW strategy, NEW issues \in Seq(RuleSeverity),
           strategy # "warn_only", strategy \in StrictnessMode,
           Validate(strategy, issues).decision \in {"PASS", "WARN"}
    PROVE  ~Occurs("FAIL", issues) /\ ~Occurs("DROP", issues)
<1>1. CASE issues = <<>>
  BY <1>1 DEF Occurs
<1>2. CASE issues # <<>> /\ strategy = "none"
  BY <1>2 DEF Validate, DecisionWithoutPolicies
<1>3. CASE issues # <<>> /\ strategy # "none"
  <2> DEFINE errors     == [i \in DOMAIN issues |-> ToDiagnosticSeverity(issues[i])]
             strictness == ApplyStrictness(strategy, errors)
             effective  == [i \in DOMAIN issues |->
                               FromStrictnessDiagnostic(strictness.diagnostics[i],
                                                        strictness.drop_invalid)]
  <2>1. Validate(strategy, issues).decision = DecisionFromStrictness(strictness, effective)
    BY <1>3 DEF Validate
  <2> HIDE DEF effective
  <2>2. ~strictness.should_fail /\ ~strictness.drop_invalid
    BY <2>1 DEF DecisionFromStrictness
  <2>3. strategy \in {"fail_on_error", "drop_invalid"}
    BY <1>3 DEF StrictnessMode
  <2>4. ~Occurs("ERROR", errors)
    BY <2>2, <2>3 DEF ApplyStrictness
  <2>5. \A i \in DOMAIN issues : issues[i] = "WARN"
    BY <2>4 DEF Occurs, ToDiagnosticSeverity
  <2> QED BY <2>5 DEF Occurs
<1> QED BY <1>1, <1>2, <1>3

\* An item without issues passes.
LEMMA NoIssuesPass ==
    ASSUME NEW strategy
    PROVE  Validate(strategy, <<>>).decision = "PASS"
BY DEF Validate

\* Reading one more item loses at most that item, and not even it if it is a row
\* of the feed or was skipped by fault isolation.
LEMMA LostItemsStep ==
    ASSUME TypeOK, NEW item \in Items, pulled' = Append(pulled, item), worker' = worker,
           chunks' = chunks \/ chunks' = Append(chunks, Len(pulled) + 1)
    PROVE  /\ Cardinality(LostItems) \in Nat
           /\ Cardinality(LostItems') \in Nat
           /\ Cardinality(LostItems') <= Cardinality(LostItems) + 1
           /\ chunks' = Append(chunks, Len(pulled) + 1)
                 => Cardinality(LostItems') <= Cardinality(LostItems)
           /\ Throws(item) /\ worker.isolation \notin {"FAIL_FAST", "none"}
                 => Cardinality(LostItems') <= Cardinality(LostItems)
<1> DEFINE next == Len(pulled) + 1
<1>1. /\ Len(pulled) \in Nat /\ DOMAIN pulled = 1..Len(pulled)
      /\ Len(pulled') = next /\ DOMAIN pulled' = 1..next
      /\ pulled'[next] = item
      /\ \A n \in 1..Len(pulled) : pulled'[n] = pulled[n]
  BY AppendProperties DEF TypeOK
<1>2. \A x : (Throws(x) <=> Throws(x)')
  BY DEF Throws, Verdict
<1>3. \A n \in 1..Len(pulled) : Skipped(n) <=> Skipped(n)'
  BY <1>1, <1>2 DEF Skipped
<1>4. Rows \subseteq Rows' /\ (chunks' = Append(chunks, next) => next \in Rows')
  <2>1. /\ chunks \in Seq(Nat) /\ next \in Nat /\ next # 0
        /\ DOMAIN chunks = 1..Len(chunks) /\ Len(chunks) \in Nat
    BY <1>1 DEF TypeOK
  <2>2. CASE chunks' = chunks
    <3>1. Len(Append(chunks, next)) = Len(chunks) + 1
      BY <2>1, AppendProperties
    <3>2. chunks # Append(chunks, next)
      <4> SUFFICES ASSUME chunks = Append(chunks, next) PROVE FALSE
        OBVIOUS
      <4>1. Len(chunks) = Len(chunks) + 1
        BY <3>1
      <4> QED BY <2>1, <4>1
    <3> QED BY <2>2, <3>2 DEF Rows
  <2>3. CASE chunks' = Append(chunks, next)
    <3>1. /\ DOMAIN chunks' = 1..Len(chunks) + 1
          /\ chunks'[Len(chunks) + 1] = next
          /\ \A i \in 1..Len(chunks) : chunks'[i] = chunks[i]
      BY <2>1, <2>3, AppendProperties
    <3> QED BY <2>1, <3>1 DEF Rows
  <2> QED BY <2>2, <2>3
<1>5. IsFiniteSet(LostItems) /\ Cardinality(LostItems) \in Nat
  <2>1. LostItems \subseteq 1..Len(pulled) /\ IsFiniteSet(1..Len(pulled))
    BY <1>1, FS_Interval DEF LostItems
  <2> QED BY <2>1, FS_Subset, FS_CardinalityType
<1>6. LostItems' \subseteq LostItems \cup {next}
  <2> SUFFICES ASSUME NEW n \in LostItems', n # next
               PROVE  n \in LostItems
    OBVIOUS
  <2>1. n \in 1..next /\ n \notin Rows' /\ ~Skipped(n)'
    BY <1>1 DEF LostItems
  <2>2. n \in 1..Len(pulled)
    BY <1>1, <2>1
  <2> QED BY <1>1, <1>3, <1>4, <2>1, <2>2 DEF LostItems
<1>7. /\ IsFiniteSet(LostItems \cup {next})
      /\ Cardinality(LostItems \cup {next}) <= Cardinality(LostItems) + 1
      /\ Cardinality(LostItems \cup {next}) \in Nat
  BY <1>5, FS_AddElement, FS_CardinalityType, SMTT(30)
<1>8. /\ Cardinality(LostItems') \in Nat
      /\ Cardinality(LostItems') <= Cardinality(LostItems \cup {next})
  BY <1>6, <1>7, FS_Subset, FS_CardinalityType
<1>9. ASSUME next \notin LostItems'
      PROVE  Cardinality(LostItems') <= Cardinality(LostItems)
  <2>1. LostItems' \subseteq LostItems
    BY <1>6, <1>9
  <2> QED BY <1>5, <2>1, FS_Subset
<1>10. chunks' = Append(chunks, next) => next \notin LostItems'
  BY <1>4 DEF LostItems
<1>11. Throws(item) /\ worker.isolation \notin {"FAIL_FAST", "none"} => next \notin LostItems'
  BY <1>1, <1>2 DEF LostItems, Skipped
<1> QED BY <1>5, <1>7, <1>8, <1>9, <1>10, <1>11

\* Before anything of the feed is read there is nothing to say about items.
LEMMA EmptyFeedStep ==
    ASSUME pulled' = <<>>, chunks' = <<>>, diags' \in CountsType,
           pc' # "idle" => usage' = ZeroUsage,
           report'.status \notin {"SUCCESS", "FAILED"}
    PROVE  FeedInv'
<1>1. CountersInv'
  <2>1. [ZeroUsage EXCEPT !.input = 0] = ZeroUsage /\ Len(pulled') = 0
    BY DEF ZeroUsage
  <2> QED BY <2>1 DEF CountersInv
<1>2. LossInv'
  <2>1. LostItems' = {}
    BY DEF LostItems
  <2>2. Cardinality(LostItems') = 0
    BY <2>1, FS_EmptySet
  <2>3. <<>> \in Seq(DiagnosticSeverity)
    OBVIOUS
  <2>4. SumOf(diags') \in Nat
    BY <2>3, PlusGrows
  <2>5. SumOf(diags)' = SumOf(diags')
    BY DEF SumOf
  <2> QED BY <2>2, <2>4, <2>5 DEF LossInv
<1>3. RowsInv' /\ ReadingInv' /\ UsageIsPerRun' /\ StrictnessKeepsInvalidOut' /\ FailStopIsFinal'
  BY DEF RowsInv, ReadingInv, UsageIsPerRun, StrictnessKeepsInvalidOut, FailStopIsFinal
<1> QED BY <1>1, <1>2, <1>3 DEF FeedInv

\* A call that reads nothing of the feed and leaves the report alone.
LEMMA QuietStep ==
    ASSUME FeedInv, UNCHANGED <<worker, usage, diags, chunks, pulled, report>>,
           pc # "idle",
           pc' \in {"next", "write", "send"} =>
               pc \in {"next", "write", "send"} \/ pulled = <<>>,
           ctx'.failed_step = "none" => ctx.failed_step = "none"
    PROVE  FeedInv'
<1> USE DEF FeedInv
<1>1. \A x : Stops(x) <=> Stops(x)'
  BY DEF Stops, Verdict
<1>2. LostItems' = LostItems
  BY DEF LostItems, Rows, Skipped, Throws, Verdict
<1>3. CountersInv' /\ RowsInv' /\ UsageIsPerRun' /\ StrictnessKeepsInvalidOut'
  BY DEF CountersInv, RowsInv, UsageIsPerRun, StrictnessKeepsInvalidOut
<1>4. LossInv'
  BY <1>2 DEF LossInv, SumOf
<1>5. ReadingInv'
  BY <1>1 DEF ReadingInv
<1>6. FailStopIsFinal'
  BY <1>1, <1>5 DEF FailStopIsFinal, ReadingInv
<1> QED BY <1>3, <1>4, <1>5, <1>6

\* run() up to publishing, and the opening of the two destinations.
LEMMA BeforeFeedSteps ==
    ASSUME RunInv, FeedInv,
           StartRun \/ Extract \/ Core \/ Gate \/ GateIndexError \/ OpenArchive \/ OpenClient,
           TypeOK'
    PROVE  FeedInv'
<1>1. CASE StartRun
  BY <1>1, EmptyFeedStep DEF StartRun, NoReport, TypeOK
<1>2. CASE Extract \/ Core \/ Gate \/ OpenArchive
  <2>1. /\ pc \in {"extract", "core", "gate", "openArchive"}
        /\ UNCHANGED <<usage, chunks, pulled, report>>
    BY <1>2 DEF Extract, Core, Gate, OpenArchive
  <2>2. pulled = <<>> /\ chunks = <<>> /\ usage = ZeroUsage /\ report = NoReport
    BY <2>1 DEF RunInv, StageInv, ContextInv, BeforePublish
  <2> QED BY <2>1, <2>2, EmptyFeedStep DEF NoReport, TypeOK
<1>3. CASE GateIndexError
  <2>1. pulled = <<>> /\ chunks = <<>> /\ report'.status = "raised" /\ pc' = "idle"
    BY <1>3 DEF GateIndexError, RunInv, StageInv, BeforePublish, NoReport
  <2> QED BY <1>3, <2>1, EmptyFeedStep DEF GateIndexError, TypeOK
<1>4. CASE OpenClient
  <2>1. pulled = <<>> /\ ctx.failed_step = "none" /\ pc = "openClient"
    BY <1>4 DEF OpenClient, RunInv, StageInv, ContextInv, NoFailure
  <2> QED BY <1>4, <2>1, QuietStep DEF OpenClient
<1> QED BY <1>1, <1>2, <1>3, <1>4

\* The calls on the destinations once the feed is being read, and the end of
\* the feed.
LEMMA DestinationSteps ==
    ASSUME RunInv, FeedInv,
           WriteChunk \/ SendChunk \/ FinalizeArchive \/ FinalizeClient
              \/ EndOfFeed \/ FeedThrows
    PROVE  FeedInv'
<1>1. ctx = NoFailure /\ ctx.failed_step = "none"
  BY DEF WriteChunk, SendChunk, FinalizeArchive, FinalizeClient, EndOfFeed, FeedThrows,
         RunInv, ContextInv, NoFailure
<1>2. UNCHANGED <<worker, usage, diags, chunks, pulled, report>> /\ pc # "idle"
  BY DEF WriteChunk, SendChunk, FinalizeArchive, FinalizeClient, EndOfFeed, FeedThrows
<1>3. pc' \in {"next", "write", "send"} => pc \in {"next", "write", "send"}
  BY PublishFailsStep
     DEF WriteChunk, SendChunk, FinalizeArchive, FinalizeClient, EndOfFeed, FeedThrows, Fail
<1> QED BY <1>1, <1>2, <1>3, QuietStep

\* An item with issues leaves at least one diagnostic.
LEMMA RecordedNotEmpty ==
    ASSUME NEW strategy, NEW issues \in Seq(RuleSeverity), issues # <<>>
    PROVE  Recorded(Validate(strategy, issues)) # <<>>
<1>1. DOMAIN Validate(strategy, issues).items = 1..Len(issues)
  BY DEF Validate
<1>2. 1 \in 1..Len(issues)
  OBVIOUS
<1>3. 1 \in DOMAIN Recorded(Validate(strategy, issues))
  BY <1>1, <1>2 DEF Recorded
<1> QED BY <1>3

\* What one `next` on the payload means for the loss of items.
LEMMA PullLoss ==
    ASSUME RunInv, FeedInv, NEW item \in Items, PullItem(item)
    PROVE  LossInv'
<1> USE DEF RunInv
<1>1. /\ pulled' = Append(pulled, item) /\ worker' = worker
      /\ item \in ItemType /\ ctx.failed_step = "none"
      /\ chunks' = chunks \/ chunks' = Append(chunks, Len(pulled) + 1)
  BY RunAssumption
     DEF PullItem, PullNonMapping, PullThrowing, PullDropped, PullStopping, PullMapped, Pull,
         Dropped, Yield, ContextInv, NoFailure
<1> DEFINE lost  == Cardinality(LostItems)
           lost2 == Cardinality(LostItems')
<1>2. /\ lost \in Nat /\ lost2 \in Nat /\ lost2 <= lost + 1
      /\ chunks' = Append(chunks, Len(pulled) + 1) => lost2 <= lost
      /\ Throws(item) /\ worker.isolation \notin {"FAIL_FAST", "none"} => lost2 <= lost
  BY <1>1, LostItemsStep
<1>3. lost <= SumOf(diags) /\ diags \in CountsType
  BY <1>1 DEF FeedInv, LossInv, TypeOK
<1> HIDE DEF lost, lost2
<1>4. SUFFICES ASSUME ctx'.failed_step = "none"
               PROVE  lost2 <= SumOf(diags')
  BY DEF LossInv, SumOf, lost2
<1> DEFINE list == Recorded(Verdict(item))
<1>5. /\ list \in Seq(DiagnosticSeverity)
      /\ item.issues # <<>> => list # <<>>
  BY <1>1, RecordedType, RecordedNotEmpty DEF Verdict, ItemType
<1>6. Verdict(item).decision # "PASS" => item.issues # <<>>
  BY NoIssuesPass DEF Verdict
<1> HIDE DEF list
<1>7. ASSUME NEW l \in Seq(DiagnosticSeverity), diags' = Plus(diags, l)
      PROVE  /\ lost2 <= lost => lost2 <= SumOf(diags')
             /\ l # <<>> => lost2 <= SumOf(diags')
  <2> DEFINE a == SumOf(diags)
             b == SumOf(Plus(diags, l))
  <2>1. a \in Nat /\ b \in Nat /\ b >= a /\ (l # <<>> => b >= a + 1)
    BY <1>3, PlusGrows
  <2>2. lost <= a
    BY <1>3
  <2> HIDE DEF a, b
  <2>3. (lost2 <= lost => lost2 <= b) /\ (l # <<>> => lost2 <= b)
    BY <1>2, <2>1, <2>2
  <2> QED BY <1>7, <2>3 DEF b
<1>8. CASE PullNonMapping(item)
  <2>1. <<"ERROR">> \in Seq(DiagnosticSeverity) /\ <<"ERROR">> # <<>>
    BY DEF DiagnosticSeverity
  <2> QED BY <1>7, <1>8, <2>1 DEF PullNonMapping
<1>9. CASE PullThrowing(item)
  <2>1. lost2 <= lost
    BY <1>2, <1>4, <1>9, PublishFailsStep DEF PullThrowing, Throws, Reraises
  <2>2. CASE diags' = diags
    <3> DEFINE a == SumOf(diags)
    <3>1. lost <= a /\ a \in Nat
      BY <1>3, <1>5, PlusGrows
    <3> HIDE DEF a
    <3>2. lost2 <= a
      BY <1>2, <2>1, <3>1
    <3> QED BY <2>2, <3>2 DEF a
  <2>3. CASE diags' = Plus(diags, list)
    BY <1>5, <1>7, <2>1, <2>3
  <2> QED BY <1>9, <2>2, <2>3 DEF PullThrowing, list
<1>10. CASE PullDropped(item)
  BY <1>5, <1>6, <1>7, <1>10 DEF PullDropped, list
<1>11. CASE PullStopping(item)
  <2>1. Append(list, "ERROR") \in Seq(DiagnosticSeverity) /\ Append(list, "ERROR") # <<>>
    BY <1>5, AppendProperties DEF DiagnosticSeverity
  <2> QED BY <1>7, <1>11, <2>1 DEF PullStopping, list
<1>12. CASE PullMapped(item)
  <2> DEFINE mapping == [i \in 1..item.mappingIssues |-> "ERROR"]
  <2>1. mapping \in Seq(DiagnosticSeverity)
    <3>1. item.mappingIssues \in Nat /\ mapping \in [1..item.mappingIssues -> DiagnosticSeverity]
      BY <1>1 DEF ItemType, DiagnosticSeverity
    <3> QED BY <3>1
  <2>2. diags' = Plus(diags, list \o mapping)
    BY <1>12 DEF PullMapped, list
  <2> HIDE DEF mapping
  <2>3. list \o mapping \in Seq(DiagnosticSeverity)
    BY <1>5, <2>1, ConcatProperties
  <2>4. lost2 <= lost
    <3>1. ~Fail("PUBLISH", "PUBLISH.ERROR")
      BY <1>4 DEF Fail, Failure
    <3> QED BY <1>2, <1>12, <3>1 DEF PullMapped, Yield
  <2> QED BY <1>7, <2>2, <2>3, <2>4
<1> QED BY <1>8, <1>9, <1>10, <1>11, <1>12 DEF PullItem

\* One `next` on the payload preserves the invariant.
LEMMA PullStep ==
    ASSUME RunInv, FeedInv, NEW item \in Items, PullItem(item)
    PROVE  FeedInv'
<1> USE DEF RunInv, FeedInv
<1> DEFINE next == Len(pulled) + 1
           Valid(x) == /\ x.isMapping /\ x.raises = "never"
                       /\ worker.strictness # "warn_only" =>
                             ~Occurs("FAIL", x.issues) /\ ~Occurs("DROP", x.issues)
<1>1. /\ pc = "next" /\ Pull(item) /\ worker' = worker /\ report' = NoReport
      /\ pulled' = Append(pulled, item) /\ item \in ItemType /\ worker \in WorkerType
  BY RunAssumption
     DEF PullItem, PullNonMapping, PullThrowing, PullDropped, PullStopping, PullMapped, Pull,
         ContextInv, TypeOK
<1>2. /\ Len(pulled) \in Nat /\ DOMAIN pulled = 1..Len(pulled)
      /\ Len(pulled') = next /\ DOMAIN pulled' = 1..next
      /\ pulled'[next] = item
      /\ \A n \in 1..Len(pulled) : pulled'[n] = pulled[n]
  BY <1>1, AppendProperties DEF TypeOK
<1>3. \/ chunks' = chunks
      \/ chunks' = Append(chunks, next) /\ Valid(item)
  <2>1. CASE PullMapped(item)
    <3>1. worker.strictness # "warn_only" =>
             ~Occurs("FAIL", item.issues) /\ ~Occurs("DROP", item.issues)
      BY <1>1, <2>1, PassedIsValid DEF PullMapped, Verdict, ItemType, WorkerType
    <3> QED BY <2>1, <3>1 DEF PullMapped, Yield
  <2> QED
    BY <2>1 DEF PullItem, PullNonMapping, PullThrowing, PullDropped, PullStopping, Dropped
<1>4. \A i \in DOMAIN chunks' :
         \/ i \in DOMAIN chunks /\ chunks'[i] = chunks[i]
         \/ chunks'[i] = next /\ Valid(item)
  <2>1. CASE chunks' = chunks
    BY <2>1
  <2>2. CASE chunks' = Append(chunks, next) /\ Valid(item)
    <3>1. chunks \in Seq(Nat) /\ next \in Nat
      BY <1>2 DEF TypeOK
    <3> HIDE DEF next
    <3> QED BY <2>2, <3>1, AppendProperties
  <2> QED BY <1>3, <2>1, <2>2
<1>5. CountersInv'
  <2>1. usage' = [usage EXCEPT !.input = Len(pulled) + 1]
    <3>1. usage = [ZeroUsage EXCEPT !.input = Len(pulled)] /\ usage.input = Len(pulled)
      BY <1>1 DEF CountersInv, ZeroUsage
    <3> QED BY <1>1, <3>1 DEF Pull
  <2> QED BY <1>1, <1>2, <2>1 DEF CountersInv, ZeroUsage
<1>6. RowsInv'
  BY <1>2, <1>4 DEF RowsInv
<1>7. \A x : Stops(x) <=> Stops(x)'
  BY <1>1 DEF Stops, Verdict
<1>8. pc' \in {"next", "write", "send"} => ~Stops(item)
  BY DEF PullItem, PullNonMapping, PullThrowing, PullDropped, PullStopping, PullMapped, Stops
<1>9. \A n \in 1..Len(pulled) : ~Stops(pulled[n])
  BY <1>1, <1>2 DEF ReadingInv
<1>10. ReadingInv'
  BY <1>2, <1>7, <1>8, <1>9 DEF ReadingInv
<1>11. FailStopIsFinal'
  BY <1>2, <1>7, <1>8, <1>9 DEF FailStopIsFinal
<1>12. UsageIsPerRun'
  BY <1>1 DEF UsageIsPerRun, NoReport
<1>13. StrictnessKeepsInvalidOut'
  <2> SUFFICES ASSUME NEW i \in DOMAIN chunks', chunks'[i] > 0
               PROVE  Valid(pulled'[chunks'[i]])
    BY <1>1 DEF StrictnessKeepsInvalidOut
  <2>1. CASE i \in DOMAIN chunks /\ chunks'[i] = chunks[i]
    <3>1. chunks[i] \in 1..Len(pulled)
      BY <1>2, <2>1 DEF RowsInv
    <3> QED BY <1>2, <2>1, <3>1 DEF StrictnessKeepsInvalidOut
  <2>2. CASE chunks'[i] = next /\ Valid(item)
    BY <1>2, <2>2
  <2> QED BY <1>4, <2>1, <2>2
<1>14. LossInv'
  BY PullLoss
<1> QED BY <1>5, <1>6, <1>10, <1>11, <1>12, <1>13, <1>14

\* The header is no row of an item.
LEMMA HeaderStep ==
    ASSUME RunInv, FeedInv, YieldHeader
    PROVE  FeedInv'
<1> USE DEF RunInv, FeedInv
<1>1. /\ pc = "next" /\ pc' = "write" /\ chunks = <<>> /\ chunks' = Append(chunks, 0)
      /\ UNCHANGED <<worker, ctx, diags, usage, pulled, report>>
  BY DEF YieldHeader, HeaderPending, Yield
<1>2. chunks' = <<0>> /\ DOMAIN chunks' = {1} /\ chunks'[1] = 0
  BY <1>1
<1>3. \A x : Stops(x) <=> Stops(x)'
  BY <1>1 DEF Stops, Verdict
<1>4. LostItems' = LostItems
  <2>1. Rows = {} /\ Rows' = {}
    BY <1>1, <1>2 DEF Rows
  <2> QED BY <1>1, <2>1 DEF LostItems, Skipped, Throws, Verdict
<1>5. LossInv'
  BY <1>1, <1>4 DEF LossInv, SumOf
<1>6. RowsInv'
  BY <1>1, <1>2 DEF RowsInv, TypeOK
<1>7. CountersInv' /\ UsageIsPerRun'
  BY <1>1 DEF CountersInv, UsageIsPerRun
<1>8. ReadingInv' /\ FailStopIsFinal'
  BY <1>1, <1>3 DEF ReadingInv, FailStopIsFinal
<1>9. StrictnessKeepsInvalidOut'
  BY <1>2 DEF StrictnessKeepsInvalidOut
<1> QED BY <1>5, <1>6, <1>7, <1>8, <1>9

\* The report takes the counters of the run over.
LEMMA ReportCounters ==
    ASSUME RunInv, FeedInv, Report
    PROVE  FeedInv'
<1> USE DEF RunInv, FeedInv
<1>1. /\ pc = "report" /\ pc' = "idle"
      /\ UNCHANGED <<worker, ctx, diags, chunks, pulled>>
  BY DEF Report
<1>2. usage = [ZeroUsage EXCEPT !.input = Len(pulled)]
  BY <1>1 DEF CountersInv
<1>3. /\ usage.input = Len(pulled) /\ usage.errors = 0 /\ usage.artifacts = 0
      /\ usage.diagnostics = ZeroCounts
  BY <1>2 DEF ZeroUsage
<1>4. UsageIsPerRun'
  <2>1. report'.usage = usage'
    BY DEF Report
  <2>2. usage'.input = Len(pulled)
    BY <1>2, <1>3 DEF Report
  <2>3. usage'.diagnostics = diags
    <3>1. usage'.diagnostics = [s \in DiagnosticSeverity |-> usage.diagnostics[s] + diags[s]]
      BY <1>2 DEF Report, ZeroUsage
    <3>2. \A s \in DiagnosticSeverity : diags[s] \in Nat /\ usage.diagnostics[s] = 0
      BY <1>3 DEF TypeOK, CountsType, ZeroCounts
    <3>3. \A s \in DiagnosticSeverity : usage.diagnostics[s] + diags[s] = diags[s]
      BY <3>2
    <3>4. usage'.diagnostics = [s \in DiagnosticSeverity |-> diags[s]]
      BY <3>1, <3>3
    <3> QED BY <3>4 DEF TypeOK, CountsType
  <2>4. usage'.errors + usage'.artifacts = 1
    <3>1. CASE ctx.failed_step # "none"
      <4>1. usage'.errors = 1 /\ usage'.artifacts = 0
        BY <1>2, <1>3, <3>1 DEF Report, ZeroUsage
      <4> QED BY <4>1
    <3>2. CASE ctx.failed_step = "none"
      <4>1. ctx.artifacts = <<chunks>> /\ Len(ctx.artifacts) = 1
        BY <1>1, <3>2 DEF StageInv
      <4>2. usage'.errors = 0 /\ usage'.artifacts = 1
        BY <1>2, <1>3, <3>2, <4>1 DEF Report, ZeroUsage
      <4> QED BY <4>2
    <3> QED BY <3>1, <3>2
  <2> QED BY <1>1, <2>1, <2>2, <2>3, <2>4 DEF UsageIsPerRun
<1>5. LossInv'
  <2>1. LostItems' = LostItems
    BY <1>1 DEF LostItems, Rows, Skipped, Throws, Verdict
  <2> QED BY <1>1, <2>1 DEF LossInv, SumOf
<1>6. FailStopIsFinal' /\ ReadingInv'
  BY <1>1 DEF FailStopIsFinal, ReadingInv, Stops, Verdict
<1> QED
  BY <1>1, <1>4, <1>5, <1>6 DEF CountersInv, RowsInv, StrictnessKeepsInvalidOut

\* Every state of every behaviour satisfies the invariant about the items.
THEOREM FeedInvariant == Spec => []FeedInv
<1>1. Init => FeedInv
  <2> SUFFICES ASSUME Init PROVE FeedInv
    OBVIOUS
  <2>1. /\ pulled = <<>> /\ chunks = <<>> /\ pc = "idle" /\ report = NoReport
        /\ diags = ZeroCounts
    BY DEF Init
  <2>2. LostItems = {} /\ Cardinality(LostItems) = 0
    <3>1. LostItems = {}
      BY <2>1 DEF LostItems
    <3> QED BY <3>1, FS_EmptySet
  <2>3. SumOf(diags) = 0
    BY <2>1 DEF SumOf, ZeroCounts, DiagnosticSeverity
  <2> QED
    BY <2>1, <2>2, <2>3
       DEF FeedInv, CountersInv, RowsInv, ReadingInv, LossInv, UsageIsPerRun,
           StrictnessKeepsInvalidOut, FailStopIsFinal, NoReport
<1>2. RunInv /\ TypeOK' /\ FeedInv /\ [Next]_vars => FeedInv'
  <2> SUFFICES ASSUME RunInv, TypeOK', FeedInv, [Next]_vars PROVE FeedInv'
    OBVIOUS
  <2>1. CASE UNCHANGED vars
    <3>1. LostItems' = LostItems
      BY <2>1 DEF vars, LostItems, Rows, Skipped, Throws, Verdict
    <3> QED
      BY <2>1, <3>1
         DEF vars, FeedInv, CountersInv, RowsInv, ReadingInv, LossInv, SumOf, UsageIsPerRun,
             StrictnessKeepsInvalidOut, FailStopIsFinal, Stops, Verdict
  <2> QED
    BY <2>1, BeforeFeedSteps, DestinationSteps, PullStep, HeaderStep, ReportCounters
       DEF Next, Running
<1> QED BY <1>1, <1>2, TypeCorrect, RunInvariant, PTL DEF Spec

\* The counters of a report are those of its own run, although the runs of a
\* worker share one collector.
THEOREM CountersPerRun == Spec => []UsageIsPerRun
<1>1. FeedInv => UsageIsPerRun
  BY DEF FeedInv
<1> QED BY <1>1, FeedInvariant, PTL

\* Under a strictness that rejects errors no invalid item becomes a row.
THEOREM InvalidStaysOut == Spec => []StrictnessKeepsInvalidOut
<1>1. FeedInv => StrictnessKeepsInvalidOut
  BY DEF FeedInv
<1> QED BY <1>1, FeedInvariant, PTL

\* An item with a FAIL verdict is the last one a run reads.
THEOREM FailStopEnds == Spec => []FailStopIsFinal
<1>1. FeedInv => FailStopIsFinal
  BY DEF FeedInv
<1> QED BY <1>1, FeedInvariant, PTL

\* In a successful run the items that are neither rows nor skipped by fault isolation
\* are no more than the diagnostics its report has.
THEOREM LossIsReported == Spec => []NoSilentLoss
<1>1. RunInv /\ FeedInv => NoSilentLoss
  <2> SUFFICES ASSUME RunInv, FeedInv, report.status = "SUCCESS"
               PROVE  Cardinality(LostItems) <= diags["ERROR"] + diags["WARN"] + diags["INFO"]
    BY DEF NoSilentLoss
  <2>1. ctx.failed_step = "none"
    BY DEF RunInv, SuccessMeansDelivered
  <2> QED BY <2>1 DEF FeedInv, LossInv, SumOf
<1> QED BY <1>1, RunInvariant, FeedInvariant, PTL
=============================================================================
