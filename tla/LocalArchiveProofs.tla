-------------------------- MODULE LocalArchiveProofs --------------------------
(***************************************************************************)
(* Proofs about LocalArchive, for every number of runs, chunks, seconds    *)
(* and crashes: that what finalize() told its caller stays true through    *)
(* every later run and crash, that a power failure takes a name away but   *)
(* never a part of a file, and that the archiver implements the contract   *)
(* of Archive.                                                             *)
(***************************************************************************)
EXTENDS LocalArchive, TLAPS, SequenceTheorems

-----------------------------------------------------------------------------
(* The inductive invariant *)

\* A file holds no more than the chunks of one run, and no more of it is synced
\* than there is.
FileOK(f) == f \in File /\ f.synced <= Len(f.data) /\ Len(f.data) <= MaxChunks

\* Every chunk of the run is in its file, and on the disk.
OnDisk(r) == Whole(r, files[r].data) /\ files[r].synced = Len(files[r].data)

\* A file that was promoted is on the disk, as is one that finalize() told of.
FilesInv ==
    \A r \in Runs :
        /\ FileOK(files[r])
        /\ entry[r] = "final" \/ r \in reported \cup preserved => OnDisk(r)

\* Where the chunks of the current run are at each stage.
StageInv ==
    /\ pc # "idle" => run \in Runs /\ run \notin reported \cup preserved
    /\ pc \in {"writing", "flush"} => entry[run] = "temp" /\ Whole(run, files[run].data \o buffer)
    /\ pc \in {"sync", "close", "permit", "replace"} =>
          entry[run] = "temp" /\ buffer = <<>> /\ Whole(run, files[run].data)
    /\ pc \in {"close", "permit", "replace"} => OnDisk(run)
    /\ pc = "permit_final" => entry[run] = "final" /\ buffer = <<>>

\* Where the files that finalize() told of are.
EntryInv ==
    /\ \A r \in reported \ undone : entry[r] = "final"
    /\ \A r \in preserved \ undone : entry[r] = "temp"

\* A run that was not started has written nothing and told nothing.
FutureInv ==
    \A r \in Runs : r > run =>
        /\ count[r] = 0 /\ r \notin reported \cup preserved
        /\ files[r] = EmptyFile /\ entry[r] = "none"

LocalInv ==
    /\ TypeOK
    /\ FilesInv
    /\ StageInv
    /\ EntryInv
    /\ FutureInv

-----------------------------------------------------------------------------
(* Lemmas about chunks and files. *)

\* Writing out a part of the buffer keeps the file and the rest of the buffer in
\* one piece.
LEMMA SpillParts ==
    ASSUME NEW d \in Seq(Chunk), NEW b \in Seq(Chunk), NEW k \in 0..Len(b)
    PROVE  /\ d \o SubSeq(b, 1, k) \in Seq(Chunk)
           /\ Len(d \o SubSeq(b, 1, k)) <= Len(d \o b)
           /\ Len(d) <= Len(d \o SubSeq(b, 1, k))
           /\ SubSeq(b, k + 1, Len(b)) \in Seq(Chunk)
           /\ (d \o SubSeq(b, 1, k)) \o SubSeq(b, k + 1, Len(b)) = d \o b
<1> DEFINE head == SubSeq(b, 1, k)
           tail == SubSeq(b, k + 1, Len(b))
<1>1. Len(b) \in Nat /\ Len(d) \in Nat /\ \A i \in 1..Len(b) : b[i] \in Chunk
  OBVIOUS
<1>2. head \in Seq(Chunk) /\ Len(head) = k
  BY <1>1, SubSeqProperties
<1>3. tail \in Seq(Chunk) /\ Len(tail) = Len(b) - k
  <2>1. \A i \in (k + 1)..Len(b) : b[i] \in Chunk
    BY <1>1
  <2>2. k + 1 \in Int /\ Len(b) \in Int
    BY <1>1
  <2>3. tail \in Seq(Chunk) /\ Len(tail) = IF k + 1 <= Len(b) THEN Len(b) - (k + 1) + 1 ELSE 0
    BY <2>1, <2>2, SubSeqProperties
  <2> QED BY <1>1, <2>3
<1>4. head \o tail = b
  <2>1. 1 \in 1..(Len(b) + 1) /\ k \in (1 - 1)..Len(b) /\ Len(b) \in k..Len(b)
    BY <1>1
  <2>2. head \o tail = SubSeq(b, 1, Len(b))
    BY <2>1, ConcatAdjacentSubSeq
  <2> QED BY <2>2, SubSeqFull
<1> HIDE DEF head, tail
<1>5. (d \o head) \o tail = d \o b
  <2>1. (d \o head) \o tail = d \o (head \o tail)
    BY <1>2, <1>3, ConcatAssociative, SMTT(30)
  <2> QED BY <1>4, <2>1
<1>6. /\ d \o head \in Seq(Chunk) /\ Len(d \o head) = Len(d) + k
      /\ Len(d \o b) = Len(d) + Len(b)
  BY <1>2, ConcatProperties
<1>7. /\ Len(d \o head) <= Len(d \o b) /\ Len(d) <= Len(d \o head)
  BY <1>1, <1>6
<1> QED BY <1>3, <1>5, <1>6, <1>7 DEF head, tail

LEMMA AppendToBuffer ==
    ASSUME NEW d \in Seq(Chunk), NEW b \in Seq(Chunk), NEW c \in Chunk
    PROVE  d \o Append(b, c) = Append(d \o b, c)
<1>1. Append(b, c) = b \o <<c>> /\ <<c>> \in Seq(Chunk)
  BY AppendIsConcat
<1>2. d \o b \in Seq(Chunk) /\ Append(d \o b, c) = (d \o b) \o <<c>>
  BY ConcatProperties, AppendIsConcat
<1> QED BY <1>1, <1>2, ConcatAssociative

\* The chunks of a run, and one more.
LEMMA WholeGrows ==
    ASSUME NEW r \in Runs, count[r] \in Nat, count'[r] = count[r] + 1,
           NEW data, Whole(r, data)
    PROVE  Append(data, [run |-> r, n |-> count[r] + 1])
              = [n \in 1..count'[r] |-> [run |-> r, n |-> n]]
<1> DEFINE m == count[r]
           c == [run |-> r, n |-> m + 1]
<1>1. data = [n \in 1..m |-> [run |-> r, n |-> n]]
  BY DEF Whole
<1>2. m \in Nat
  OBVIOUS
<1> HIDE DEF m
<1>3. Len(data) = m /\ \A n \in 1..m : data[n] = [run |-> r, n |-> n]
  BY <1>1, <1>2
<1>4. Append(data, c) = [n \in 1..(m + 1) |-> IF n = m + 1 THEN c ELSE data[n]]
  BY <1>2, <1>3
<1>5. \A n \in 1..(m + 1) : (IF n = m + 1 THEN c ELSE data[n]) = [run |-> r, n |-> n]
  BY <1>2, <1>3
<1> QED BY <1>4, <1>5 DEF m

\* A run writes at most MaxChunks chunks.
LEMMA WholeLength ==
    ASSUME TypeOK, NEW r \in Runs, NEW data, Whole(r, data)
    PROVE  Len(data) = count[r] /\ Len(data) <= MaxChunks
BY LocalAssumption DEF TypeOK, Whole

\* What a power failure leaves of a file: all of it, if it was synced.
LEMMA RemainsOK ==
    ASSUME NEW f, FileOK(f), NEW g \in Remains(f)
    PROVE  FileOK(g) /\ (f.synced = Len(f.data) => g = f)
<1>1. /\ f \in File /\ f.data \in Seq(Chunk) /\ f.synced \in Nat /\ Len(f.data) \in Nat
      /\ Len(f.data) <= MaxChunks /\ \A i \in 1..Len(f.data) : f.data[i] \in Chunk
  BY DEF FileOK, File
<1>2. PICK k \in f.synced..Len(f.data) : g = [data |-> SubSeq(f.data, 1, k), synced |-> k]
  BY DEF Remains
<1>3. k \in Nat /\ k <= Len(f.data)
  BY <1>1, <1>2
<1>4. SubSeq(f.data, 1, k) \in Seq(Chunk) /\ Len(SubSeq(f.data, 1, k)) = k
  <2>1. \A i \in 1..k : f.data[i] \in Chunk
    BY <1>1, <1>3
  <2> QED BY <1>3, <2>1, SubSeqProperties
<1>5. k \in 0..MaxChunks
  BY <1>1, <1>3, LocalAssumption
<1>6. g \in File /\ g.synced = k /\ Len(g.data) = k
  BY <1>2, <1>4, <1>5 DEF File
<1>7. FileOK(g)
  BY <1>3, <1>5, <1>6 DEF FileOK
<1>8. ASSUME f.synced = Len(f.data) PROVE g = f
  <2>1. k = Len(f.data)
    BY <1>1, <1>2, <1>8
  <2>2. SubSeq(f.data, 1, k) = f.data
    BY <1>1, <2>1, SubSeqFull
  <2>3. f = [data |-> f.data, synced |-> f.synced]
    BY <1>1 DEF File
  <2> QED BY <1>2, <1>8, <2>1, <2>2, <2>3
<1> QED BY <1>7, <1>8

\* Writing out a part of a buffer to the file of the run.
LEMMA SpilledStep ==
    ASSUME TypeOK, FilesInv, run \in Runs,
           NEW b \in Seq(Chunk), NEW k \in 0..Len(b),
           Len(files[run].data \o b) <= MaxChunks, files' = Spilled(b, k)
    PROVE  /\ files' \in [Runs -> File]
           /\ FileOK(files'[run])
           /\ files'[run].data = files[run].data \o SubSeq(b, 1, k)
           /\ \A r \in Runs : r # run => files'[r] = files[r]
<1> DEFINE f == files[run]
           new == f.data \o SubSeq(b, 1, k)
           g == [f EXCEPT !.data = new]
<1>1. /\ f \in File /\ f.data \in Seq(Chunk) /\ f.synced \in 0..MaxChunks
      /\ f.synced <= Len(f.data)
  BY DEF FilesInv, FileOK, File
<1>2. /\ new \in Seq(Chunk) /\ Len(new) <= Len(f.data \o b) /\ Len(f.data) <= Len(new)
  BY <1>1, SpillParts
<1>3. f.data \o b \in Seq(Chunk)
  BY <1>1, ConcatProperties
<1>4. Len(new) \in Nat /\ Len(f.data) \in Nat /\ Len(f.data \o b) \in Nat
  BY <1>1, <1>2, <1>3, LenProperties
<1>5. files' = [files EXCEPT ![run] = g]
  BY DEF Spilled
<1> HIDE DEF new
<1>6. g \in File /\ g.data = new /\ g.synced = f.synced
  BY <1>1, <1>2 DEF File
<1>7. Len(new) <= MaxChunks /\ f.synced <= Len(new)
  BY <1>1, <1>2, <1>4, LocalAssumption
<1>8. FileOK(g)
  BY <1>6, <1>7 DEF FileOK
<1> HIDE DEF g
<1> QED BY <1>5, <1>6, <1>8 DEF TypeOK, new

-----------------------------------------------------------------------------
(* Invariance *)

LEMMA LocalInit == Init => LocalInv
<1> SUFFICES ASSUME Init PROVE LocalInv
  OBVIOUS
<1>1. finalized \in BOOLEAN
  BY Zenon DEF Init
<1>2. 1 \in Names /\ 0 \in 0..MaxRuns /\ 0 \in 0..MaxChunks /\ 0 \in 0..MaxCrashes
  BY LocalAssumption DEF Names
<1>3. FileOK(EmptyFile)
  BY LocalAssumption DEF FileOK, File, EmptyFile
<1>4. EmptyFile \in File
  BY <1>3 DEF FileOK
<1>5. TypeOK
  BY <1>1, <1>2, <1>4 DEF Init, TypeOK, Entries
<1>6. FilesInv
  BY <1>3 DEF Init, FilesInv
<1> QED
  BY <1>5, <1>6 DEF Init, LocalInv, StageInv, EntryInv, FutureInv

\* What a step on the file of the current run leaves as it is.
LEMMA FileStep ==
    ASSUME LocalInv, pc # "idle", UNCHANGED <<clock, directory, reported, preserved>>,
           \A r \in Runs : r # run => files'[r] = files[r] /\ count'[r] = count[r],
           FileOK(files'[run]), entry[run] # "final" \/ UNCHANGED <<files, count>>
    PROVE  FilesInv' /\ EntryInv' /\ FutureInv'
<1> USE DEF LocalInv, clock, directory
<1>1. run \in Runs /\ run \notin reported \cup preserved
  BY DEF StageInv
<1>2. FilesInv'
  BY <1>1 DEF FilesInv, OnDisk, Whole
<1>3. FutureInv'
  BY <1>1 DEF FutureInv, Runs, TypeOK
<1> QED BY <1>2, <1>3 DEF EntryInv

\* open(): a new run; its temporary file may not have come to be.
LEMMA OpenStep ==
    ASSUME LocalInv, Open
    PROVE  LocalInv'
<1> USE DEF LocalInv
<1>1. /\ pc = "idle" /\ run' = run + 1 /\ run < MaxRuns /\ second' \in second..MaxSecond
      /\ nameOf' = [nameOf EXCEPT ![run'] = second'] /\ buffer' = <<>>
      /\ UNCHANGED <<count, files, settled, undone, reported, preserved, crashes>>
  BY DEF Open
<1>2. /\ run \in 0..MaxRuns /\ run' \in 0..MaxRuns /\ run' \in Runs /\ run' > run
      /\ second' \in Names
  BY <1>1, LocalAssumption DEF TypeOK, Runs, Names
<1>3. finalized' \in BOOLEAN
  BY Zenon DEF Open
<1>4. \/ pc' = "writing" /\ entry' = [entry EXCEPT ![run'] = "temp"]
      \/ pc' = "idle" /\ entry' = entry
  BY <1>1 DEF Open
<1>5. /\ count[run'] = 0 /\ run' \notin reported \cup preserved /\ files[run'] = EmptyFile
      /\ entry[run'] = "none"
  BY <1>2 DEF FutureInv
<1>6. /\ entry' \in [Runs -> Entries] /\ entry'[run'] # "final"
      /\ \A r \in Runs : r # run' => entry'[r] = entry[r]
      /\ pc' = "writing" => entry'[run'] = "temp"
  BY <1>2, <1>4, <1>5 DEF TypeOK, Entries
<1>7. TypeOK'
  <2>1. nameOf' \in [Runs -> Names]
    BY <1>1, <1>2 DEF TypeOK
  <2>2. <<>> \in Seq(Chunk) /\ pc' \in {"idle", "writing"} \cup Stages
    BY <1>4
  <2> QED BY <1>1, <1>2, <1>3, <1>6, <2>1, <2>2 DEF TypeOK
<1>8. FilesInv'
  BY <1>1, <1>2, <1>6 DEF FilesInv, OnDisk, Whole
<1>9. StageInv'
  <2>1. EmptyFile.data \o <<>> = <<>>
    BY DEF EmptyFile
  <2>2. Whole(run, files[run].data \o buffer)'
    BY <1>1, <1>5, <2>1 DEF Whole
  <2> QED BY <1>1, <1>2, <1>4, <1>5, <1>6, <2>2 DEF StageInv
<1>10. FutureInv'
  <2> SUFFICES ASSUME NEW r \in Runs, r > run'
               PROVE  r > run /\ r # run'
    BY <1>1, <1>6 DEF FutureInv
  <2> QED BY <1>1, <1>2 DEF Runs
<1>11. EntryInv'
  BY <1>1, <1>5, <1>6 DEF EntryInv, TypeOK
<1> QED BY <1>7, <1>8, <1>9, <1>10, <1>11

\* write_chunk(), and a call of publish() that raises.
LEMMA WritingSteps ==
    ASSUME LocalInv, WriteChunk \/ GiveUp
    PROVE  LocalInv'
<1> USE DEF LocalInv
<1>1. /\ pc \in {"writing", "flush"} /\ run \in Runs /\ run \notin reported \cup preserved
      /\ files[run] \in File /\ entry[run] = "temp" /\ buffer \in Seq(Chunk)
      /\ files[run].data \in Seq(Chunk)
      /\ Whole(run, files[run].data \o buffer)
  BY DEF WriteChunk, GiveUp, StageInv, TypeOK, File
<1> DEFINE d == files[run].data
<1>2. CASE GiveUp
  <2>1. PICK k \in 0..Len(buffer) : files' = Spilled(buffer, k)
    BY <1>2 DEF GiveUp
  <2>2. /\ pc' = "idle" /\ buffer' = <<>>
        /\ UNCHANGED <<clock, count, finalized, directory, reported, preserved, crashes>>
    BY <1>2 DEF GiveUp
  <2>3. Len(d \o buffer) <= MaxChunks
    BY <1>1, WholeLength
  <2>4. /\ files' \in [Runs -> File] /\ FileOK(files'[run])
        /\ \A r \in Runs : r # run => files'[r] = files[r]
    BY <1>1, <2>1, <2>3, SpilledStep
  <2>5. TypeOK'
    <3>1. <<>> \in Seq(Chunk)
      OBVIOUS
    <3> QED BY <2>2, <2>4, <3>1 DEF TypeOK, clock, directory
  <2>6. FilesInv' /\ EntryInv' /\ FutureInv'
    BY <1>1, <2>2, <2>4, FileStep
  <2> QED BY <2>2, <2>5, <2>6 DEF StageInv
<1>3. CASE WriteChunk
  <2> DEFINE c == [run |-> run, n |-> count[run] + 1]
             data == Append(buffer, c)
  <2>1. /\ pc = "writing" /\ pc' = "writing" /\ count[run] < MaxChunks
        /\ count' = [count EXCEPT ![run] = @ + 1]
        /\ UNCHANGED <<clock, finalized, directory, reported, preserved, crashes>>
    BY <1>3 DEF WriteChunk
  <2>2. /\ count[run] \in Nat /\ count'[run] = count[run] + 1
        /\ count' \in [Runs -> 0..MaxChunks]
        /\ \A r \in Runs : r # run => count'[r] = count[r]
    BY <1>1, <2>1, LocalAssumption DEF TypeOK
  <2>3. PICK k \in {0, Len(data)} :
           files' = Spilled(data, k) /\ buffer' = SubSeq(data, k + 1, Len(data))
    BY <1>3, <2>2 DEF WriteChunk
  <2>4. c \in Chunk
    BY <1>1, <2>1, <2>2, LocalAssumption DEF Chunk
  <2>5. data \in Seq(Chunk) /\ Len(data) \in Nat
    BY <1>1, <2>4, AppendProperties
  <2>6. k \in 0..Len(data)
    BY <2>5
  <2>7. d \o data = Append(d \o buffer, c)
    BY <1>1, <2>4, AppendToBuffer
  <2>8. d \o data = [n \in 1..count'[run] |-> [run |-> run, n |-> n]]
    BY <1>1, <2>2, <2>7, WholeGrows
  <2>9. Len(d \o data) <= MaxChunks
    <3> DEFINE m == count'[run]
    <3>1. m \in Nat /\ m <= MaxChunks
      BY <1>1, <2>2, LocalAssumption
    <3>2. d \o data = [n \in 1..m |-> [run |-> run, n |-> n]]
      BY <2>8
    <3> HIDE DEF m, data, d
    <3> QED BY <3>1, <3>2
  <2> HIDE DEF data
  <2>10. /\ files' \in [Runs -> File]
         /\ files'[run] \in File /\ FileOK(files'[run])
         /\ files'[run].data = d \o SubSeq(data, 1, k)
         /\ \A r \in Runs : r # run => files'[r] = files[r]
    BY <1>1, <2>3, <2>5, <2>6, <2>9, SpilledStep
  <2>11. buffer' \in Seq(Chunk) /\ files'[run].data \o buffer' = d \o data
    <3>1. d \in Seq(Chunk) /\ data \in Seq(Chunk) /\ k \in 0..Len(data)
      BY <1>1, <2>5, <2>6
    <3> HIDE DEF d
    <3>2. /\ SubSeq(data, k + 1, Len(data)) \in Seq(Chunk)
          /\ (d \o SubSeq(data, 1, k)) \o SubSeq(data, k + 1, Len(data)) = d \o data
      BY <3>1, SpillParts
    <3> QED BY <2>3, <2>10, <3>2
  <2>12. TypeOK'
    BY <2>1, <2>2, <2>10, <2>11 DEF TypeOK, clock, directory
  <2>13. FilesInv' /\ EntryInv' /\ FutureInv'
    BY <1>1, <2>1, <2>2, <2>10, FileStep
  <2>14. StageInv'
    <3>1. Whole(run, files[run].data \o buffer)'
      BY <2>1, <2>8, <2>11 DEF Whole, clock
    <3>2. run' = run /\ entry' = entry /\ reported' = reported /\ preserved' = preserved
      BY <2>1 DEF clock, directory
    <3> QED BY <1>1, <2>1, <2>10, <3>1, <3>2 DEF StageInv
  <2> QED BY <2>12, <2>13, <2>14
<1> QED BY <1>2, <1>3

\* finalize() up to the promotion of the file, and the stages that may raise.
LEMMA FinalizeSteps ==
    ASSUME LocalInv, Finalize \/ Flush \/ Sync \/ Close \/ Permit \/ StageFails
    PROVE  LocalInv'
<1> USE DEF LocalInv
<1>1. /\ pc # "idle" /\ run \in Runs /\ run \notin reported \cup preserved
      /\ UNCHANGED <<clock, count, reported, preserved, crashes, directory, finalized>>
      /\ FileOK(files[run]) /\ buffer \in Seq(Chunk)
      /\ pc' \in {"idle", "flush", "sync", "close", "permit", "replace"}
  BY DEF Finalize, Flush, Sync, Close, Permit, StageFails, At, others, directory, StageInv, FilesInv, TypeOK
<1>2. CASE Finalize \/ Close \/ Permit \/ StageFails
  <2>1. UNCHANGED <<files, buffer>>
    BY <1>2 DEF Finalize, Close, Permit, StageFails
  <2>2. TypeOK'
    BY <1>1, <2>1 DEF TypeOK, clock, directory, Stages
  <2>3. StageInv'
    BY <1>1, <1>2, <2>1 DEF Finalize, Close, Permit, StageFails, At, StageInv, OnDisk, Whole, clock
  <2> QED BY <1>1, <2>1, <2>2, <2>3, FileStep
<1>3. CASE Flush
  <2>1. /\ pc = "flush" /\ pc' = "sync" /\ files' = Spilled(buffer, Len(buffer)) /\ buffer' = <<>>
    BY <1>3 DEF Flush, At
  <2>2. /\ files[run] \in File /\ entry[run] = "temp" /\ files[run].data \in Seq(Chunk)
        /\ Whole(run, files[run].data \o buffer)
    BY <1>1, <2>1 DEF StageInv, FileOK, File
  <2>3. Len(buffer) \in 0..Len(buffer) /\ SubSeq(buffer, 1, Len(buffer)) = buffer
    BY <1>1, SubSeqFull, LenProperties
  <2>4. Len(files[run].data \o buffer) <= MaxChunks
    BY <1>1, <2>2, WholeLength
  <2>5. /\ files' \in [Runs -> File]
        /\ files'[run] \in File /\ FileOK(files'[run])
        /\ files'[run].data = files[run].data \o buffer
        /\ \A r \in Runs : r # run => files'[r] = files[r]
    BY <1>1, <2>1, <2>2, <2>3, <2>4, SpilledStep
  <2>6. TypeOK'
    <3>1. <<>> \in Seq(Chunk)
      OBVIOUS
    <3> QED BY <1>1, <2>1, <2>5, <3>1 DEF TypeOK, clock, directory, Stages
  <2>7. StageInv'
    BY <1>1, <2>1, <2>2, <2>5 DEF StageInv, OnDisk, Whole, clock, directory
  <2> QED BY <1>1, <2>2, <2>5, <2>6, <2>7, FileStep
<1>4. CASE Sync
  <2> DEFINE f == files[run]
             g == [f EXCEPT !.synced = Len(f.data)]
  <2>1. /\ pc = "sync" /\ pc' = "close" /\ files' = [files EXCEPT ![run] = g] /\ buffer' = buffer
    BY <1>4 DEF Sync, At
  <2>2. /\ f \in File /\ f.data \in Seq(Chunk) /\ Len(f.data) \in Nat
        /\ buffer = <<>> /\ Whole(run, f.data) /\ entry[run] = "temp"
    BY <1>1, <2>1 DEF StageInv, FileOK, File
  <2>3. Len(f.data) \in 0..MaxChunks
    BY <1>1, <2>2, WholeLength, LocalAssumption
  <2>4. g \in File /\ g.data = f.data /\ g.synced = Len(f.data)
    BY <2>2, <2>3 DEF File
  <2>5. FileOK(g)
    BY <2>3, <2>4 DEF FileOK
  <2> HIDE DEF g
  <2>6. /\ files' \in [Runs -> File] /\ files'[run] = g
        /\ \A r \in Runs : r # run => files'[r] = files[r]
    BY <1>1, <2>1, <2>4 DEF TypeOK
  <2>7. TypeOK'
    BY <1>1, <2>1, <2>6 DEF TypeOK, clock, directory, Stages
  <2>8. StageInv'
    BY <1>1, <2>1, <2>2, <2>4, <2>6 DEF StageInv, OnDisk, Whole, clock, directory
  <2> QED BY <1>1, <2>2, <2>5, <2>6, <2>7, <2>8, FileStep
<1> QED BY <1>2, <1>3, <1>4

\* The promotion of the file, and what finalize() then tells its caller.
LEMMA PromotionSteps ==
    ASSUME LocalInv, Replace \/ ReplaceFails \/ PermitFinal
    PROVE  LocalInv'
<1> USE DEF LocalInv
<1>1. /\ run \in Runs /\ run \notin reported \cup preserved /\ pc # "idle"
      /\ UNCHANGED <<clock, count, crashes, buffer, files, settled, undone>>
  BY DEF Replace, ReplaceFails, PermitFinal, At, others, clock, directory, StageInv
<1>2. \A r \in reported \cup preserved : r \in Runs /\ r < run
  BY <1>1 DEF FutureInv, TypeOK, Runs
<1>3. CASE Replace
  <2>1. /\ pc = "replace" /\ pc' = "permit_final" /\ UNCHANGED <<reported, preserved>>
        /\ entry' = [entry EXCEPT ![run] = "final"]
    BY <1>3 DEF Replace, At, others
  <2>2. buffer = <<>> /\ OnDisk(run)
    BY <2>1 DEF StageInv
  <2>3. /\ entry' \in [Runs -> Entries] /\ entry'[run] = "final"
        /\ \A r \in Runs : r # run => entry'[r] = entry[r]
    BY <1>1, <2>1 DEF TypeOK, Entries
  <2>4. TypeOK'
    <3>1. finalized' \in BOOLEAN
      BY <1>3, Zenon DEF Replace
    <3> QED BY <1>1, <2>1, <2>3, <3>1 DEF TypeOK, clock, Stages
  <2>5. FilesInv'
    BY <1>1, <2>1, <2>2, <2>3 DEF FilesInv, OnDisk, Whole
  <2>6. StageInv'
    BY <1>1, <2>1, <2>2, <2>3 DEF StageInv, clock
  <2>7. FutureInv'
    BY <1>1, <2>1, <2>3 DEF FutureInv, clock, Runs
  <2>8. EntryInv'
    BY <1>1, <1>2, <2>1, <2>3 DEF EntryInv
  <2> QED BY <2>4, <2>5, <2>6, <2>7, <2>8
<1>4. CASE ReplaceFails
  <2>1. /\ pc = "replace" /\ pc' = "idle" /\ preserved' = preserved \cup {run}
        /\ UNCHANGED <<finalized, entry, reported>>
    BY <1>4 DEF ReplaceFails, At, directory
  <2>2. OnDisk(run) /\ entry[run] = "temp"
    BY <2>1 DEF StageInv
  <2>3. TypeOK'
    BY <1>1, <2>1 DEF TypeOK, clock
  <2>4. FilesInv'
    BY <1>1, <2>1, <2>2 DEF FilesInv, OnDisk, Whole
  <2>5. FutureInv'
    BY <1>1, <2>1 DEF FutureInv, clock, Runs
  <2> QED BY <1>1, <2>1, <2>2, <2>3, <2>4, <2>5 DEF StageInv, EntryInv
<1>5. CASE PermitFinal
  <2>1. /\ pc = "permit_final" /\ pc' = "idle" /\ reported' = reported \cup {run}
        /\ UNCHANGED <<finalized, entry, preserved>>
    BY <1>5 DEF PermitFinal, At, directory
  <2>2. OnDisk(run) /\ entry[run] = "final"
    BY <1>1, <2>1 DEF StageInv, FilesInv
  <2>3. TypeOK'
    BY <1>1, <2>1 DEF TypeOK, clock
  <2>4. FilesInv'
    BY <1>1, <2>1, <2>2 DEF FilesInv, OnDisk, Whole
  <2>5. FutureInv'
    BY <1>1, <2>1 DEF FutureInv, clock, Runs
  <2> QED BY <1>1, <2>1, <2>2, <2>3, <2>4, <2>5 DEF StageInv, EntryInv
<1> QED BY <1>3, <1>4, <1>5

\* What a power failure leaves of the files and their entries: what was on the disk
\* is whole, and an entry that changed is one it took back.
LEMMA PowerFailure ==
    ASSUME TypeOK, FilesInv, PowerFails
    PROVE  /\ files' \in [Runs -> File] /\ entry' \in [Runs -> Entries]
           /\ \A r \in Runs : FileOK(files'[r]) /\ (OnDisk(r) => files'[r] = files[r])
           /\ \A r \in Runs : entry'[r] = entry[r]
                              \/ (r > settled /\ r \in undone' /\ entry'[r] \in {"none", "temp"})
           /\ \A r \in Runs : entry[r] = "none" => entry'[r] = "none"
<1>1. DOMAIN files' = Runs /\ files' = [r \in Runs |-> files'[r]]
      /\ \A r \in Runs : files'[r] \in Remains(files[r])
  BY DEF PowerFails
<1>2. \A r \in Runs : FileOK(files[r])
  BY DEF FilesInv
<1>3. \A r \in Runs : FileOK(files'[r]) /\ (OnDisk(r) => files'[r] = files[r])
  BY <1>1, <1>2, RemainsOK DEF OnDisk
<1>4. files' \in [Runs -> File]
  BY <1>1, <1>3 DEF FileOK
<1>5. entry' \in [Runs -> Entries] /\ \A r \in Runs : entry'[r] \in Restored(r)
  BY DEF PowerFails
<1>6. \A r \in Runs : entry'[r] # entry[r] => r \in undone'
  BY DEF PowerFails
<1>7. settled \in Nat /\ \A r \in Runs : r \in Nat
  BY DEF TypeOK, Runs
<1> QED BY <1>3, <1>4, <1>5, <1>6, <1>7 DEF Restored

\* A crash, of the process or of the machine: the synced files stay as they are.
LEMMA CrashStep ==
    ASSUME LocalInv, ProcessDies \/ PowerFails
    PROVE  LocalInv'
<1> USE DEF LocalInv
<1>1. /\ pc' = "idle" /\ buffer' = <<>> /\ crashes < MaxCrashes /\ crashes' = crashes + 1
      /\ UNCHANGED <<clock, count, reported, preserved>>
  BY DEF ProcessDies, PowerFails, Dies
<1>2. finalized' \in BOOLEAN
  BY Zenon DEF ProcessDies, PowerFails, Dies
<1>3. <<>> \in Seq(Chunk) /\ crashes' \in 0..MaxCrashes
  BY <1>1, LocalAssumption DEF TypeOK
<1>4. StageInv'
  BY <1>1 DEF StageInv
<1>5. CASE ProcessDies
  <2>1. UNCHANGED <<files, entry, settled, undone>>
    BY <1>5 DEF ProcessDies, directory
  <2>2. TypeOK'
    BY <1>1, <1>2, <1>3, <2>1 DEF TypeOK, clock
  <2>3. FilesInv' /\ FutureInv' /\ EntryInv'
    BY <1>1, <2>1 DEF FilesInv, OnDisk, Whole, FutureInv, EntryInv, clock
  <2> QED BY <1>4, <2>2, <2>3
<1>6. CASE PowerFails
  <2>1. /\ files' \in [Runs -> File] /\ entry' \in [Runs -> Entries]
        /\ \A r \in Runs : FileOK(files'[r]) /\ (OnDisk(r) => files'[r] = files[r])
        /\ \A r \in Runs : entry'[r] = entry[r]
                           \/ (r > settled /\ r \in undone' /\ entry'[r] \in {"none", "temp"})
        /\ \A r \in Runs : entry[r] = "none" => entry'[r] = "none"
    BY <1>6, PowerFailure
  <2>2. settled' = run /\ undone \subseteq undone' /\ undone' \subseteq Runs
    BY <1>6 DEF PowerFails, TypeOK
  <2>3. TypeOK'
    BY <1>1, <1>2, <1>3, <2>1, <2>2 DEF TypeOK, clock
  <2>4. FilesInv'
    <3> SUFFICES ASSUME NEW r \in Runs, entry'[r] = "final" \/ r \in reported \cup preserved
                 PROVE  OnDisk(r)'
      BY <1>1, <2>1 DEF FilesInv
    <3>1. OnDisk(r)
      BY <2>1 DEF FilesInv
    <3> QED BY <1>1, <2>1, <3>1 DEF OnDisk, Whole
  <2>5. FutureInv'
    <3> SUFFICES ASSUME NEW r \in Runs, r > run
                 PROVE  files'[r] = EmptyFile /\ entry'[r] = "none"
      BY <1>1 DEF FutureInv, clock
    <3>1. files[r] = EmptyFile /\ entry[r] = "none" /\ count[r] = 0
      BY DEF FutureInv
    <3>2. OnDisk(r)
      BY <3>1 DEF OnDisk, Whole, EmptyFile
    <3> QED BY <2>1, <3>1, <3>2
  <2>6. EntryInv'
    BY <1>1, <2>1, <2>2 DEF EntryInv, TypeOK
  <2> QED BY <1>4, <2>3, <2>4, <2>5, <2>6
<1> QED BY <1>5, <1>6

\* The inductive invariant holds of every state of every behaviour.
THEOREM LocalInvariant == Spec => []LocalInv
<1>1. LocalInv /\ UNCHANGED vars => LocalInv'
  <2> SUFFICES ASSUME LocalInv, UNCHANGED vars PROVE LocalInv'
    OBVIOUS
  <2> USE DEF vars, clock, directory, LocalInv
  <2>1. TypeOK'
    BY DEF TypeOK
  <2>2. FilesInv' /\ FutureInv' /\ EntryInv'
    BY DEF FilesInv, OnDisk, Whole, FutureInv, EntryInv
  <2>3. StageInv'
    BY DEF StageInv, OnDisk, Whole
  <2> QED BY <2>1, <2>2, <2>3
<1>2. LocalInv /\ [Next]_vars => LocalInv'
  BY <1>1, OpenStep, WritingSteps, FinalizeSteps, PromotionSteps, CrashStep DEF Next
<1> QED BY <1>2, LocalInit, PTL DEF Spec

-----------------------------------------------------------------------------
(* Final names *)

\* The file of run r has the final name n, and none promoted later has.
Named(r, n) == entry[r] = "final" /\ nameOf[r] = n
Top(r, n)   == Named(r, n) /\ \A s \in Runs : s > r => ~Named(s, n)

\* What a final name leads to.
NamesInv ==
    \A n \in Names :
        /\ \A r \in Runs : Top(r, n) => Final(n) = files[r].data
        /\ (\A r \in Runs : ~Top(r, n)) => Final(n) = NoObject

\* A final name leads to the file of the run promoted last under it.
LEMMA FinalNames == LocalInv => NamesInv
<1> SUFFICES ASSUME LocalInv, NEW n \in Names
             PROVE  /\ \A r \in Runs : Top(r, n) => Final(n) = files[r].data
                    /\ (\A r \in Runs : ~Top(r, n)) => Final(n) = NoObject
  BY DEF NamesInv
<1>1. run \in Nat /\ \A r \in Runs : r \in Nat /\ (entry[r] = "final" => r <= run)
  BY DEF LocalInv, TypeOK, FutureInv, Runs
<1>2. ASSUME NEW r \in Runs PROVE Holds(r, n) <=> Top(r, n)
  <2>1. ASSUME Top(r, n) PROVE Holds(r, n)
    <3>1. ASSUME NEW s \in (r + 1)..run PROVE s \in Runs /\ s > r
      BY <1>1, LocalAssumption DEF Runs, LocalInv, TypeOK
    <3> QED BY <2>1, <3>1 DEF Top, Named, Holds
  <2>2. ASSUME Holds(r, n) PROVE Top(r, n)
    <3>1. ASSUME NEW s \in Runs, s > r, Named(s, n) PROVE FALSE
      <4>1. s \in (r + 1)..run
        BY <1>1, <3>1 DEF Named
      <4> QED BY <2>2, <3>1, <4>1 DEF Holds, Named
    <3> QED BY <2>2, <3>1 DEF Top, Named, Holds
  <2> QED BY <2>1, <2>2
<1>3. ASSUME NEW r \in Runs, NEW s \in Runs, Top(r, n), Top(s, n) PROVE r = s
  BY <1>1, <1>3 DEF Top
<1>4. ASSUME NEW r \in Runs, Top(r, n) PROVE Final(n) = files[r].data
  <2>1. PICK q : q = CHOOSE s \in Runs : Holds(s, n)
    OBVIOUS
  <2>2. q \in Runs /\ Holds(q, n)
    BY <1>2, <1>4, <2>1, Zenon
  <2>3. q = r
    BY <1>2, <1>3, <1>4, <2>2
  <2>4. Final(n) = files[q].data
    BY <2>1, <2>2, Zenon DEF Final
  <2> QED BY <2>3, <2>4
<1>5. ASSUME \A r \in Runs : ~Top(r, n) PROVE Final(n) = NoObject
  BY <1>2, <1>5, Zenon DEF Final
<1> QED BY <1>4, <1>5

\* The same after a step.
LEMMA NextNames == LocalInv' => NamesInv'
BY FinalNames, PTL

\* A name leads to what it led to, if the same runs have it and their files are as
\* they were.
LEMMA SameNames ==
    ASSUME LocalInv, LocalInv', NEW n \in Names,
           \A r \in Runs : Named(r, n)' <=> Named(r, n),
           \A r \in Runs : entry[r] = "final" => files'[r] = files[r]
    PROVE  Final(n)' = Final(n)
<1>1. NamesInv /\ NamesInv'
  BY FinalNames, NextNames
<1>2. \A r \in Runs : Top(r, n)' <=> Top(r, n)
  BY DEF Top
<1>3. CASE \E r \in Runs : Top(r, n)
  <2>1. PICK r \in Runs : Top(r, n)
    BY <1>3
  <2>2. Final(n) = files[r].data /\ Final(n)' = files'[r].data /\ entry[r] = "final"
    BY <1>1, <1>2, <2>1 DEF NamesInv, Top, Named
  <2> QED BY <2>2
<1>4. CASE \A r \in Runs : ~Top(r, n)
  BY <1>1, <1>2, <1>4 DEF NamesInv
<1> QED BY <1>3, <1>4

\* A location that was returned, and a temporary file said to be kept, hold the
\* chunks of their run through later runs and crashes; a power failure takes away
\* the name or nothing.
THEOREM ToldSurvives == Spec => []WhatWasToldSurvives
<1>1. LocalInv => ReportedSurvives
  <2> SUFFICES ASSUME LocalInv, NEW r \in reported
               PROVE  /\ Whole(r, files[r].data)
                      /\ r \notin undone /\ (\A s \in (r + 1)..run : nameOf[s] # nameOf[r]) =>
                            Whole(r, Final(nameOf[r]))
    BY DEF ReportedSurvives
  <2>1. r \in Runs /\ nameOf[r] \in Names /\ Whole(r, files[r].data)
    BY DEF LocalInv, TypeOK, FilesInv, OnDisk
  <2>2. ASSUME r \notin undone, \A s \in (r + 1)..run : nameOf[s] # nameOf[r]
        PROVE  Whole(r, Final(nameOf[r]))
    <3>1. ASSUME NEW s \in Runs, s > r, Named(s, nameOf[r]) PROVE FALSE
      <4>1. s <= run
        BY <3>1 DEF LocalInv, FutureInv, Named, TypeOK, Runs
      <4>2. s \in (r + 1)..run
        BY <2>1, <3>1, <4>1 DEF LocalInv, TypeOK, Runs
      <4> QED BY <2>2, <3>1, <4>2 DEF Named
    <3>2. Top(r, nameOf[r])
      BY <2>2, <3>1 DEF Top, Named, LocalInv, EntryInv
    <3>3. Final(nameOf[r]) = files[r].data
      BY <2>1, <3>2, FinalNames DEF NamesInv
    <3> QED BY <2>1, <3>3
  <2> QED BY <2>1, <2>2
<1>2. LocalInv => PreservedIsWhole
  BY DEF LocalInv, TypeOK, FilesInv, OnDisk, EntryInv, PreservedIsWhole
<1> QED BY <1>1, <1>2, LocalInvariant, PTL DEF WhatWasToldSurvives

-----------------------------------------------------------------------------
(* The contract of Archive *)

\* A chunk goes to the end of what the run wrote, wherever the runtime puts it.
LEMMA AcceptedGrows ==
    ASSUME LocalInv, WriteChunk
    PROVE  \E c \in Chunk : Accepted' = Append(Accepted, c)
<1> DEFINE d == files[run].data
           c == [run |-> run, n |-> count[run] + 1]
           data == Append(buffer, c)
<1>1. /\ pc = "writing" /\ pc' = "writing" /\ run \in Runs /\ run' = run /\ count[run] < MaxChunks
      /\ count' = [count EXCEPT ![run] = @ + 1]
  BY DEF WriteChunk, clock, LocalInv, StageInv
<1>2. files[run] \in File /\ d \in Seq(Chunk) /\ buffer \in Seq(Chunk) /\ files \in [Runs -> File]
  BY <1>1 DEF LocalInv, TypeOK, File
<1>3. count[run] \in Nat /\ count'[run] = count[run] + 1
  BY <1>1, LocalAssumption DEF LocalInv, TypeOK
<1>4. c \in Chunk
  BY <1>1, <1>3, LocalAssumption DEF Chunk
<1>5. data \in Seq(Chunk)
  BY <1>2, <1>4, AppendProperties
<1>6. PICK k \in {0, Len(data)} :
         files' = Spilled(data, k) /\ buffer' = SubSeq(data, k + 1, Len(data))
  BY <1>3 DEF WriteChunk
<1>7. d \o data = Append(d \o buffer, c)
  BY <1>2, <1>4, AppendToBuffer
<1>8. k \in 0..Len(data)
  BY <1>5
<1> HIDE DEF data, c
<1>9. files'[run].data = d \o SubSeq(data, 1, k)
  BY <1>1, <1>2, <1>6 DEF Spilled, File
<1> HIDE DEF d
<1>10. (d \o SubSeq(data, 1, k)) \o SubSeq(data, k + 1, Len(data)) = d \o data
  BY <1>2, <1>5, <1>8, SpillParts
<1>11. Accepted = d \o buffer /\ Accepted' = files'[run].data \o buffer'
  BY <1>1 DEF Accepted, d
<1> QED BY <1>4, <1>6, <1>7, <1>9, <1>10, <1>11

\* A power failure leaves under a name what it had, or another run's whole object.
LEMMA PowerStep ==
    ASSUME LocalInv, LocalInv', PowerFails
    PROVE  TakesBack
<1> USE DEF LocalInv
<1>1. /\ pc' = "idle" /\ settled' = run /\ UNCHANGED <<clock, count, reported>>
  BY DEF PowerFails, Dies
<1>2. phase' = "closed" /\ Accepted' = <<>>
  BY <1>1 DEF phase, Accepted
<1>3. /\ \A r \in Runs : OnDisk(r) => files'[r] = files[r]
      /\ \A r \in Runs : entry'[r] = entry[r]
                         \/ (r > settled /\ r \in undone' /\ entry'[r] \in {"none", "temp"})
  BY PowerFailure
<1>4. ASSUME NEW n \in Names
      PROVE  \/ Final(n)' = Final(n)
             \/ /\ \E r \in undone' : nameOf[r] = n /\ r > settled
                /\ \/ Final(n)' = NoObject
                   \/ \E r \in Runs : nameOf[r] = n /\ Whole(r, Final(n)')
  <2>1. CASE \A r \in Runs : Named(r, n) => entry'[r] = "final"
    <3>1. \A r \in Runs : Named(r, n)' <=> Named(r, n)
      BY <1>1, <1>3, <2>1 DEF Named, clock
    <3>2. \A r \in Runs : entry[r] = "final" => files'[r] = files[r]
      BY <1>3 DEF FilesInv
    <3> QED BY <3>1, <3>2, SameNames
  <2>2. CASE \E r \in Runs : Named(r, n) /\ entry'[r] # "final"
    <3>1. \E r \in undone' : nameOf[r] = n /\ r > settled
      BY <1>3, <2>2 DEF Named
    <3>2. CASE \A r \in Runs : ~Top(r, n)'
      <4>1. Final(n)' = NoObject
        BY <3>2, NextNames DEF NamesInv
      <4> QED BY <3>1, <4>1
    <3>3. CASE \E r \in Runs : Top(r, n)'
      <4>1. PICK r \in Runs : Top(r, n)'
        BY <3>3
      <4>2. Final(n)' = files'[r].data
        BY <4>1, NextNames DEF NamesInv
      <4>3. nameOf[r] = n /\ entry'[r] = "final"
        BY <1>1, <4>1 DEF Top, Named, clock
      <4>4. Whole(r, files'[r].data)
        <5>1. OnDisk(r)'
          BY <4>3 DEF FilesInv
        <5> QED BY <1>1, <5>1 DEF OnDisk, Whole
      <4> QED BY <3>1, <4>2, <4>3, <4>4
    <3> QED BY <3>2, <3>3
  <2> QED BY <2>1, <2>2
<1> QED BY <1>1, <1>2, <1>4 DEF TakesBack

\* Every step is a step of the contract, one that a power failure takes back, or
\* none.
LEMMA ContractStep ==
    ASSUME LocalInv, LocalInv', Next
    PROVE  [Contract!Next \/ TakesBack]_(Contract!vars)
<1> USE DEF LocalInv
<1>1. pc # "idle" => run \in Runs /\ run \notin reported /\ name = nameOf[run] /\ name \in Names
                     /\ files[run] \in File /\ files[run].data \in Seq(Chunk)
  BY LocalAssumption DEF StageInv, name, Runs, TypeOK, File
<1>2. <<>> \in Seq(Chunk) /\ \A s \in Seq(Chunk) : s \o <<>> = s
  OBVIOUS
<1> DEFINE objects == [n \in Names |-> Final(n)]
           told == IF run \in reported THEN "stored" ELSE "none"
<1>3. ASSUME UNCHANGED <<clock, entry>>, \A r \in Runs : entry[r] = "final" => files'[r] = files[r]
      PROVE  \A n \in Names : Final(n)' = Final(n)
  <2>1. \A n \in Names : \A r \in Runs : Named(r, n)' <=> Named(r, n)
    BY <1>3 DEF Named, clock
  <2> QED BY <1>3, <2>1, SameNames
<1>4. ASSUME UNCHANGED <<clock, entry>>, entry[run] = "temp", pc # "idle",
             \A r \in Runs : r # run => files'[r] = files[r]
      PROVE  objects' = objects
  <2>1. \A n \in Names : Final(n)' = Final(n)
    BY <1>3, <1>4
  <2> QED BY <2>1
<1>5. ASSUME UNCHANGED <<clock, entry, files>> PROVE objects' = objects
  <2>1. \A n \in Names : Final(n)' = Final(n)
    BY <1>3, <1>5
  <2> QED BY <2>1
<1> HIDE DEF objects
<1>6. ASSUME pc # "idle", pc' # "idle", phase' = phase, UNCHANGED <<clock, reported>>,
             objects' = objects, Accepted' = Accepted
      PROVE  UNCHANGED Contract!vars
  BY <1>6 DEF Contract!vars, name, clock, objects
<1>7. ASSUME pc # "idle", pc' = "idle", UNCHANGED <<clock, reported>>, objects' = objects
      PROVE  Contract!GiveUp
  <2>1. phase # "closed" /\ phase' = "closed" /\ Accepted' = <<>> /\ name' = name /\ told' = told
    BY <1>7 DEF phase, Accepted, name, clock
  <2> QED BY <1>7, <2>1 DEF Contract!GiveUp, objects
<1>8. CASE Open
  <2>1. /\ pc = "idle" /\ run' = run + 1 /\ run < MaxRuns /\ second' \in second..MaxSecond
        /\ nameOf' = [nameOf EXCEPT ![run'] = second'] /\ buffer' = <<>>
        /\ UNCHANGED <<files, reported>>
        /\ \/ pc' = "writing" /\ entry' = [entry EXCEPT ![run'] = "temp"]
           \/ pc' = "idle" /\ entry' = entry
    BY <1>8 DEF Open
  <2>2. run' \in Runs /\ run' > run /\ run' # 0 /\ second' \in Names
    BY <2>1, LocalAssumption DEF TypeOK, Runs, Names
  <2>3. name' = second' /\ name' \in Names
    BY <2>1, <2>2 DEF name, TypeOK
  <2>4. told' = "none" /\ phase = "closed" /\ Accepted = <<>>
    BY <2>1, <2>2 DEF FutureInv, phase, Accepted
  <2>5. objects' = objects
    <3>1. entry[run'] = "none" /\ entry'[run'] # "final"
      BY <2>1, <2>2 DEF FutureInv, TypeOK
    <3>2. \A r \in Runs : r # run' => entry'[r] = entry[r] /\ nameOf'[r] = nameOf[r]
      BY <2>1 DEF TypeOK
    <3>3. \A n \in Names : \A r \in Runs : Named(r, n)' <=> Named(r, n)
      BY <3>1, <3>2 DEF Named
    <3>4. \A n \in Names : Final(n)' = Final(n)
      BY <2>1, <3>3, SameNames
    <3> QED BY <3>4 DEF objects
  <2>6. CASE pc' = "idle"
    <3>1. phase' = "closed" /\ Accepted' = <<>>
      BY <2>6 DEF phase, Accepted
    <3> QED BY <2>3, <2>4, <2>5, <3>1 DEF Contract!Next, Contract!Name, objects
  <2>7. CASE pc' = "writing"
    <3>1. files'[run'].data = <<>>
      BY <2>1, <2>2 DEF FutureInv, EmptyFile
    <3>2. phase' = "open" /\ Accepted' = <<>>
      BY <1>2, <2>1, <2>7, <3>1 DEF phase, Accepted
    <3> QED BY <2>3, <2>4, <2>5, <3>2 DEF Contract!Next, Contract!Open, objects
  <2> QED BY <2>1, <2>6, <2>7
<1>9. CASE WriteChunk
  <2>1. /\ pc = "writing" /\ pc' = "writing" /\ UNCHANGED <<clock, entry, reported>>
        /\ entry[run] = "temp"
    BY <1>9 DEF WriteChunk, directory, StageInv
  <2>2. \A r \in Runs : r # run => files'[r] = files[r]
    BY <1>9 DEF WriteChunk, Spilled, TypeOK
  <2>3. \E c \in Chunk : Accepted' = Append(Accepted, c)
    BY <1>9, AcceptedGrows
  <2>4. phase = "open" /\ phase' = "open" /\ name' = name /\ told' = told
    BY <2>1 DEF phase, name, clock
  <2>5. objects' = objects
    BY <1>4, <2>1, <2>2
  <2> QED BY <2>3, <2>4, <2>5 DEF Contract!Next, Contract!Write, objects
<1>10. CASE GiveUp
  <2>1. /\ pc # "idle" /\ pc' = "idle" /\ UNCHANGED <<clock, entry, reported>> /\ entry[run] = "temp"
    BY <1>10 DEF GiveUp, directory, StageInv
  <2>2. \A r \in Runs : r # run => files'[r] = files[r]
    BY <1>10 DEF GiveUp, Spilled, TypeOK
  <2>3. objects' = objects
    BY <1>4, <2>1, <2>2
  <2> QED BY <1>7, <2>1, <2>3 DEF Contract!Next
<1>11. CASE ReplaceFails \/ StageFails
  <2>1. pc # "idle" /\ pc' = "idle" /\ UNCHANGED <<clock, entry, files, reported>>
    BY <1>11 DEF ReplaceFails, StageFails, At, others, directory
  <2>2. objects' = objects
    BY <1>5, <2>1
  <2> QED BY <1>7, <2>1, <2>2 DEF Contract!Next
<1>12. CASE Finalize
  <2>1. /\ pc = "writing" /\ pc' = "flush"
        /\ UNCHANGED <<clock, entry, files, reported, buffer>>
    BY <1>12 DEF Finalize, At, others
  <2>2. /\ phase = "open" /\ phase' = "finalizing" /\ name' = name /\ Accepted' = Accepted
        /\ told' = told
    BY <2>1 DEF phase, name, clock, Accepted
  <2>3. objects' = objects
    BY <1>5, <2>1
  <2> QED BY <2>2, <2>3 DEF Contract!Next, Contract!Finalize, objects
<1>13. CASE Flush
  <2>1. /\ pc = "flush" /\ pc' = "sync" /\ files' = Spilled(buffer, Len(buffer)) /\ buffer' = <<>>
        /\ UNCHANGED <<clock, entry, reported>> /\ entry[run] = "temp"
    BY <1>13 DEF Flush, At, others, StageInv
  <2>2. buffer \in Seq(Chunk) /\ SubSeq(buffer, 1, Len(buffer)) = buffer
    BY SubSeqFull DEF TypeOK
  <2>3. /\ files'[run].data = files[run].data \o buffer
        /\ \A r \in Runs : r # run => files'[r] = files[r]
    BY <1>1, <2>1, <2>2 DEF Spilled, TypeOK, File
  <2>4. files[run].data \o buffer \in Seq(Chunk)
    BY <1>1, <2>1, <2>2, ConcatProperties
  <2>5. Accepted' = Accepted
    BY <1>2, <2>1, <2>3, <2>4 DEF Accepted, clock
  <2>6. objects' = objects
    BY <1>4, <2>1, <2>3
  <2> QED BY <1>6, <2>1, <2>5, <2>6 DEF phase
<1>14. CASE Sync
  <2>1. /\ pc = "sync" /\ pc' = "close" /\ buffer' = buffer /\ entry[run] = "temp"
        /\ files' = [files EXCEPT ![run].synced = Len(files[run].data)]
        /\ UNCHANGED <<clock, entry, reported>>
    BY <1>14 DEF Sync, At, others, StageInv
  <2>2. /\ files'[run].data = files[run].data
        /\ \A r \in Runs : r # run => files'[r] = files[r]
    BY <1>1, <2>1 DEF TypeOK, File
  <2>3. Accepted' = Accepted
    BY <2>1, <2>2 DEF Accepted, clock
  <2>4. objects' = objects
    BY <1>4, <2>1, <2>2
  <2> QED BY <1>6, <2>1, <2>3, <2>4 DEF phase
<1>15. CASE Close \/ Permit
  <2>1. /\ pc \in {"close", "permit"} /\ pc' \in {"permit", "replace"}
        /\ UNCHANGED <<clock, entry, reported, files, buffer>>
    BY <1>15 DEF Close, Permit, At, others
  <2>2. Accepted' = Accepted
    BY <2>1 DEF Accepted, clock
  <2>3. objects' = objects
    BY <1>5, <2>1
  <2> QED BY <1>6, <2>1, <2>2, <2>3 DEF phase
<1>16. CASE Replace
  <2>1. /\ pc = "replace" /\ pc' = "permit_final" /\ buffer = <<>> /\ buffer' = <<>>
        /\ entry' = [entry EXCEPT ![run] = "final"]
        /\ UNCHANGED <<clock, reported, files>>
    BY <1>16 DEF Replace, At, others, StageInv
  <2>2. name' = name /\ phase = "finalizing" /\ phase' = "finalizing" /\ told' = told
    BY <2>1 DEF name, clock, phase
  <2>3. Accepted = files[run].data /\ Accepted' = files[run].data
    BY <1>1, <1>2, <2>1 DEF Accepted, clock
  <2>4. ASSUME NEW n \in Names, n = name PROVE Final(n)' = files[run].data
    <3>1. ASSUME NEW s \in Runs, s > run PROVE entry'[s] # "final"
      BY <1>1, <2>1, <3>1 DEF FutureInv, TypeOK, Runs
    <3>2. entry'[run] = "final" /\ nameOf'[run] = name
      BY <1>1, <2>1 DEF TypeOK, clock
    <3>3. \A r \in Runs : r = run => Top(r, n)'
      BY <1>1, <2>1, <2>4, <3>1, <3>2 DEF Top, Named
    <3> QED BY <1>1, <2>1, <3>3, NextNames DEF NamesInv
  <2>5. ASSUME NEW n \in Names, n # name PROVE Final(n)' = Final(n)
    <3>1. \A r \in Runs : Named(r, n)' <=> Named(r, n)
      BY <1>1, <2>1, <2>5 DEF Named, clock, TypeOK
    <3> QED BY <2>1, <3>1, SameNames
  <2>6. objects' = [objects EXCEPT ![name] = Accepted]
    BY <1>1, <2>1, <2>3, <2>4, <2>5 DEF objects
  <2> QED BY <2>2, <2>3, <2>6 DEF Contract!Next, Contract!Store, Contract!Stored, objects
<1>17. CASE PermitFinal
  <2>1. /\ pc = "permit_final" /\ pc' = "idle" /\ reported' = reported \cup {run}
        /\ UNCHANGED <<clock, entry, files>> /\ buffer = <<>> /\ entry[run] = "final"
    BY <1>17 DEF PermitFinal, At, directory, StageInv
  <2>2. Accepted = files[run].data
    BY <1>1, <1>2, <2>1 DEF Accepted
  <2>3. Final(name) = files[run].data
    <3>1. \A s \in Runs : s > run => entry[s] # "final"
      BY DEF FutureInv
    <3>2. Top(run, name)
      BY <1>1, <2>1, <3>1 DEF Top, Named
    <3> QED BY <1>1, <2>1, <3>2, FinalNames DEF NamesInv
  <2>4. objects' = [objects EXCEPT ![name] = Accepted]
    <3>1. objects' = objects
      BY <1>5, <2>1
    <3> QED BY <1>1, <2>1, <2>2, <2>3, <3>1 DEF objects
  <2>5. phase = "finalizing" /\ phase' = "closed" /\ Accepted' = <<>> /\ name' = name /\ told' = "stored"
    BY <2>1 DEF phase, Accepted, name, clock
  <2> QED BY <2>4, <2>5 DEF Contract!Next, Contract!Return, Contract!Stored, objects
<1>18. CASE ProcessDies
  <2>1. pc' = "idle" /\ UNCHANGED <<clock, entry, files, reported>>
    BY <1>18 DEF ProcessDies, Dies, directory
  <2>2. objects' = objects
    BY <1>5, <2>1
  <2>3. CASE pc = "idle"
    BY <2>1, <2>2, <2>3 DEF Contract!vars, phase, Accepted, name, clock, objects
  <2>4. CASE pc # "idle"
    BY <1>7, <2>1, <2>2, <2>4 DEF Contract!Next
  <2> QED BY <2>3, <2>4
<1>19. CASE PowerFails
  BY <1>19, PowerStep
<1> QED
  BY <1>8, <1>9, <1>10, <1>11, <1>12, <1>13, <1>14, <1>15, <1>16, <1>17, <1>18, <1>19 DEF Next

\* LocalArchiver implements Archive, through failures and crashes: the initial
\* states map to initial states, and every step to a step of the contract or to
\* none; a power failure, which the contract does not have, may also take back an
\* object that was stored, as a whole.
THEOREM ImplementsArchive == Spec => ArchiveContract
<1>1. Init => Contract!Init
  <2> SUFFICES ASSUME Init PROVE Contract!Init
    OBVIOUS
  <2>1. /\ phase = "closed" /\ name = 1 /\ 1 \in Names /\ Accepted = <<>> /\ run \notin reported
        /\ \A n \in Names : Final(n) = NoObject
    BY LocalAssumption DEF Init, phase, name, Names, Accepted, Final, Holds
  <2> QED BY <2>1 DEF Contract!Init
<1>2. LocalInv /\ LocalInv' /\ [Next]_vars => [Contract!Next \/ TakesBack]_(Contract!vars)
  <2>1. LocalInv /\ LocalInv' /\ UNCHANGED vars => UNCHANGED Contract!vars
    <3> SUFFICES ASSUME LocalInv, LocalInv', UNCHANGED vars PROVE UNCHANGED Contract!vars
      OBVIOUS
    <3>1. \A n \in Names : \A r \in Runs : Named(r, n)' <=> Named(r, n)
      BY DEF vars, clock, directory, Named
    <3>2. \A n \in Names : Final(n)' = Final(n)
      BY <3>1, SameNames DEF vars
    <3> QED BY <3>2 DEF vars, clock, directory, Contract!vars, phase, name, Accepted
  <2> QED BY <2>1, ContractStep
<1> QED BY <1>1, <1>2, LocalInvariant, PTL DEF Spec, ArchiveContract
=============================================================================
