---------------------------- MODULE S3ArchiveProofs ----------------------------
(***************************************************************************)
(* Proofs about S3Archive, for every number of runs, chunks, seconds and   *)
(* retries, every set of chunk sizes and every minimum size of a part:     *)
(* finalize() completes no upload the store must refuse, and no upload is  *)
(* left open at a store that answers. How much a buffer holds (SizeOf) is  *)
(* a fold, of which the proofs need nothing but that it is a function of   *)
(* the data.                                                               *)
(***************************************************************************)
EXTENDS S3Archive, TLAPS, SequenceTheorems, WellFoundedInduction

-----------------------------------------------------------------------------
(* The inductive invariant *)

Upload == [key : {0} \cup Keys, parts : Seq(Seq(Chunk))]
Part   == [number : 1..(MaxChunks + 1), data : Seq(Chunk)]

\* Every retry of create_multipart_upload may leave an upload behind.
MadeInv ==
    /\ made <= run * (MaxRetries + 1)
    /\ pc = "create" => made <= (run - 1) * (MaxRetries + 1) + attempts

\* What each stage of the cycle says of the archiver's own state.
CycleInv ==
    /\ pc # "idle" => run \in Runs /\ ~finalized /\ result = "none"
    /\ pc \in {"create", "ready"} => ~finishing
    /\ pc \in {"complete", "put"} => finishing
    /\ pc \notin {"idle", "part"} => pending = <<>>
    /\ pc # "idle" /\ finishing => buffer = <<>>
    /\ pc = "create" => partNumber = 0 /\ buffer = <<>>
    /\ pc \in {"create", "put"} => parts = <<>>
    /\ pc = "ready" => partNumber = Len(parts) /\ partNumber <= count
    /\ pc = "part" => /\ partNumber = Len(parts) + 1
                      /\ partNumber <= IF finishing THEN count + 1 ELSE count

\* The parts listed are numbered without a gap, and only the last one sent may be
\* below the minimum.
PartsInv ==
    /\ pc \in {"ready", "part", "complete"} => \A i \in DOMAIN parts : parts[i].number = i
    /\ pc \in {"ready", "part"} => \A i \in DOMAIN parts : SizeOf(parts[i].data) >= MinPartSize
    /\ pc = "complete" =>
          \A i \in DOMAIN parts : i < Len(parts) => SizeOf(parts[i].data) >= MinPartSize
    /\ pc = "part" /\ ~finishing => SizeOf(pending) >= MinPartSize

\* The store has every part listed, and at most the one being sent besides.
UploadInv ==
    pc \in {"ready", "part"} \/ (pc = "complete" /\ IsOpen(uploadId)) =>
        /\ uploadId \in Uploads
        /\ uploads[uploadId].key = key
        /\ Len(uploads[uploadId].parts) >= Len(parts)
        /\ pc # "complete" => Len(uploads[uploadId].parts) <= partNumber
        /\ \A i \in DOMAIN parts : uploads[uploadId].parts[i] = parts[i].data

\* A store that answers has no upload open but the archiver's own, whose key the
\* archiver still has when it aborts it.
LeftInv ==
    reliable =>
        /\ \A u \in Uploads : IsOpen(u) => u = uploadId /\ uploads[u].key = key
        /\ finalized \/ pc \in {"create", "put"} => \A u \in Uploads : ~IsOpen(u)

S3Inv ==
    /\ TypeOK
    /\ MadeInv
    /\ CycleInv
    /\ PartsInv
    /\ UploadInv
    /\ LeftInv

-----------------------------------------------------------------------------
(* What FlattenSeq computes. The library's induction is over an operator; the *)
(* least number of a set gives it over a set.                                 *)

LEMMA SetInduction ==
    ASSUME NEW S, 0 \in S, \A n \in Nat : n \in S => n + 1 \in S
    PROVE  \A n \in Nat : n \in S
<1> DEFINE R == OpToRel(<, Nat)
           T == Nat \ S
<1>1. ASSUME NEW x \in Nat, NEW y \in Nat, y < x PROVE <<y, x>> \in R
  BY <1>1 DEF OpToRel
<1>2. IsWellFoundedOn(R, Nat)
  BY NatLessThanWellFounded, Zenon DEF OpToRel
<1> HIDE DEF R
<1> SUFFICES ASSUME T # {} PROVE FALSE
  OBVIOUS
<1>3. PICK x \in T : \A y \in T : ~ (<<y, x>> \in R)
  <2>1. T \subseteq Nat /\ T # {}
    OBVIOUS
  <2> HIDE DEF T
  <2> QED BY <1>2, <2>1, WFMin
<1>4. x \in Nat /\ x # 0
  OBVIOUS
<1>5. x - 1 \in Nat /\ x - 1 < x /\ (x - 1) + 1 = x
  BY <1>4
<1>6. x - 1 \in S
  BY <1>1, <1>3, <1>4, <1>5
<1> QED BY <1>4, <1>5, <1>6

\* g[i] is the first i of the sequences s in one.
Flattens(g, s, n) == g = [i \in 1..n |-> IF i = 1 THEN s[i] ELSE g[i-1] \o s[i]]

LEMMA FlattensExists ==
    ASSUME NEW s
    PROVE  \A n \in Nat : \E g : Flattens(g, s, n)
<1> DEFINE S == {n \in Nat : \E g : Flattens(g, s, n)}
<1>1. 0 \in S
  <2>1. Flattens([i \in 1..0 |-> <<>>], s, 0)
    BY DEF Flattens
  <2> QED BY <2>1
<1>2. ASSUME NEW n \in Nat, NEW g, Flattens(g, s, n)
      PROVE  \E h : Flattens(h, s, n + 1)
  <2> DEFINE h == [i \in 1..(n + 1) |-> IF i = 1 THEN s[i] ELSE g[i-1] \o s[i]]
  <2>1. \A i \in 1..n : g[i] = h[i]
    <3>1. \A i \in 1..n : g[i] = IF i = 1 THEN s[i] ELSE g[i-1] \o s[i]
      BY <1>2 DEF Flattens
    <3>2. \A i \in 1..n : h[i] = IF i = 1 THEN s[i] ELSE g[i-1] \o s[i]
      OBVIOUS
    <3> HIDE DEF h
    <3> QED BY <3>1, <3>2
  <2>2. \A i \in 1..(n + 1) : i # 1 => i - 1 \in 1..n
    OBVIOUS
  <2>3. \A i \in 1..(n + 1) :
           (IF i = 1 THEN s[i] ELSE g[i-1] \o s[i]) = (IF i = 1 THEN s[i] ELSE h[i-1] \o s[i])
    BY <2>1, <2>2
  <2>4. h = [i \in 1..(n + 1) |-> IF i = 1 THEN s[i] ELSE h[i-1] \o s[i]]
    <3> DEFINE e(i) == IF i = 1 THEN s[i] ELSE h[i-1] \o s[i]
    <3>1. h = [i \in 1..(n + 1) |-> h[i]] /\ \A i \in 1..(n + 1) : h[i] = e(i)
      BY <2>3
    <3> HIDE DEF h, e
    <3>2. h = [i \in 1..(n + 1) |-> e(i)]
      BY <3>1
    <3> QED BY <3>2 DEF e
  <2> HIDE DEF h
  <2> QED BY <2>4 DEF Flattens
<1>3. \A n \in Nat : n \in S => n + 1 \in S
  BY <1>2
<1> HIDE DEF S
<1>4. \A n \in Nat : n \in S
  BY <1>1, <1>3, SetInduction
<1> QED BY <1>4 DEF S

\* What is flattened depends on the sequences taken, and no others.
LEMMA FlattensAgree ==
    ASSUME NEW s, NEW t, NEW g, NEW h, NEW m \in Nat, \A i \in 1..m : s[i] = t[i],
           Flattens(g, s, m) /\ Flattens(h, t, m + 1)
    PROVE  \A i \in 1..m : g[i] = h[i]
<1> DEFINE S == {k \in Nat : k \in 1..m => g[k] = h[k]}
<1>1. 0 \in S
  OBVIOUS
<1>2. ASSUME NEW k \in Nat, k \in S PROVE k + 1 \in S
  <2> SUFFICES ASSUME k + 1 \in 1..m PROVE g[k + 1] = h[k + 1]
    OBVIOUS
  <2>1. k + 1 \in 1..(m + 1) /\ (k + 1) - 1 = k
    OBVIOUS
  <2>2. g[k + 1] = IF k + 1 = 1 THEN s[k + 1] ELSE g[(k + 1) - 1] \o s[k + 1]
    BY DEF Flattens
  <2>3. h[k + 1] = IF k + 1 = 1 THEN t[k + 1] ELSE h[(k + 1) - 1] \o t[k + 1]
    BY <2>1 DEF Flattens
  <2>4. k + 1 # 1 => g[k] = h[k]
    BY <1>2
  <2>5. s[k + 1] = t[k + 1]
    OBVIOUS
  <2> QED BY <2>1, <2>2, <2>3, <2>4, <2>5
<1> HIDE DEF S
<1>3. \A k \in Nat : k \in S
  BY <1>1, <1>2, SetInduction
<1> QED BY <1>3 DEF S

LEMMA FlattensTyped ==
    ASSUME NEW S, NEW s, NEW n \in Nat, \A i \in 1..n : s[i] \in Seq(S),
           NEW g, Flattens(g, s, n)
    PROVE  \A i \in 1..n : g[i] \in Seq(S)
<1> DEFINE T == {k \in Nat : k \in 1..n => g[k] \in Seq(S)}
<1>1. 0 \in T
  OBVIOUS
<1>2. ASSUME NEW k \in Nat, k \in T PROVE k + 1 \in T
  <2> SUFFICES ASSUME k + 1 \in 1..n PROVE g[k + 1] \in Seq(S)
    OBVIOUS
  <2>1. g[k + 1] = IF k + 1 = 1 THEN s[k + 1] ELSE g[(k + 1) - 1] \o s[k + 1]
    BY DEF Flattens
  <2>2. (k + 1) - 1 = k /\ (k + 1 # 1 => g[k] \in Seq(S)) /\ s[k + 1] \in Seq(S)
    BY <1>2
  <2>3. k + 1 # 1 => g[k] \o s[k + 1] \in Seq(S)
    BY <2>2, ConcatProperties
  <2> QED BY <2>1, <2>2, <2>3
<1> HIDE DEF T
<1>3. \A k \in Nat : k \in T
  BY <1>1, <1>2, SetInduction
<1> QED BY <1>3 DEF T

\* FlattenSeq is the last of them.
LEMMA FlattenSeqIs ==
    ASSUME NEW S, NEW s \in Seq(Seq(S)), s # <<>>
    PROVE  \E g : Flattens(g, s, Len(s)) /\ FlattenSeq(s) = g[Len(s)]
<1> DEFINE n == Len(s)
           g == CHOOSE f : Flattens(f, s, n)
<1>1. n \in Nat /\ n # 0
  BY EmptySeq
<1>2. FlattenSeq(s) = g[n]
  BY <1>1 DEF FlattenSeq, Flattens
<1> HIDE DEF n
<1>3. \E f : Flattens(f, s, n)
  BY <1>1, FlattensExists
<1>4. Flattens(g, s, n)
  BY <1>3
<1> QED BY <1>2, <1>4 DEF n

\* One more sequence goes to the end.
LEMMA FlattenAppend ==
    ASSUME NEW S, NEW s \in Seq(Seq(S)), NEW x \in Seq(S)
    PROVE  /\ FlattenSeq(s) \in Seq(S)
           /\ FlattenSeq(Append(s, x)) = FlattenSeq(s) \o x
<1> DEFINE t == Append(s, x)
           n == Len(s)
<1>1. /\ n \in Nat /\ t \in Seq(Seq(S)) /\ t # <<>> /\ Len(t) = n + 1 /\ t[n + 1] = x
      /\ \A i \in 1..n : s[i] = t[i] /\ s[i] \in Seq(S)
  BY AppendProperties
<1>2. FlattenSeq(<<>>) = <<>>
  BY DEF FlattenSeq
<1>3. PICK h : Flattens(h, t, n + 1) /\ FlattenSeq(t) = h[n + 1]
  BY <1>1, FlattenSeqIs
<1>4. h[n + 1] = IF n + 1 = 1 THEN t[n + 1] ELSE h[(n + 1) - 1] \o t[n + 1]
  <2>1. n \in Nat /\ n + 1 \in 1..(n + 1)
    BY <1>1
  <2> HIDE DEF n, t
  <2>2. Flattens(h, t, n + 1)
    BY <1>3
  <2> QED BY <2>1, <2>2 DEF Flattens
<1>5. CASE s = <<>>
  <2>1. n = 0 /\ FlattenSeq(s) = <<>>
    BY <1>2, <1>5
  <2> QED BY <1>1, <1>3, <1>4, <2>1
<1>6. CASE s # <<>>
  <2>1. n # 0 /\ n \in 1..n /\ n + 1 # 1 /\ (n + 1) - 1 = n /\ n <= n + 1 /\ n + 1 \in Nat
    BY <1>1, <1>6, EmptySeq
  <2>2. PICK g : Flattens(g, s, n) /\ FlattenSeq(s) = g[n]
    BY <1>6, FlattenSeqIs
  <2> HIDE DEF n, t
  <2>3. g[n] = h[n]
    <3>1. n \in Nat /\ \A i \in 1..n : s[i] = t[i]
      BY <1>1
    <3>2. Flattens(g, s, n) /\ Flattens(h, t, n + 1)
      BY <1>3, <2>2
    <3>3. \A i \in 1..n : g[i] = h[i]
      BY <3>1, <3>2, FlattensAgree
    <3> QED BY <2>1, <3>3
  <2>4. g[n] \in Seq(S)
    BY <1>1, <2>1, <2>2, FlattensTyped
  <2> QED BY <1>1, <1>3, <1>4, <2>1, <2>2, <2>3, <2>4 DEF t
<1> QED BY <1>5, <1>6

-----------------------------------------------------------------------------
(* The data of the parts, and what the store makes of them. *)

Data == [i \in DOMAIN parts |-> parts[i].data]

LEMMA DataTyped ==
    ASSUME TypeOK
    PROVE  Data \in Seq(Seq(Chunk)) /\ Len(Data) = Len(parts)
<1>1. parts \in Seq(Part)
  BY DEF TypeOK, Part
<1>2. Len(parts) \in Nat /\ DOMAIN parts = 1..Len(parts) /\ \A i \in 1..Len(parts) : parts[i] \in Part
  BY <1>1
<1>3. Data \in [1..Len(parts) -> Seq(Chunk)]
  BY <1>2 DEF Data, Part
<1> QED BY <1>2, <1>3, IsASeq, LenProperties

\* An upload the store completes holds the data the archiver listed.
LEMMA AssembledIs ==
    ASSUME Completable
    PROVE  Assembled = FlattenSeq(Data)
<1>1. \A i \in DOMAIN parts : uploads[uploadId].parts[parts[i].number] = parts[i].data
  BY DEF Completable, Valid
<1>2. [i \in DOMAIN parts |-> uploads[uploadId].parts[parts[i].number]] = Data
  BY <1>1 DEF Data
<1> QED BY <1>2 DEF Assembled

-----------------------------------------------------------------------------
(* Invariance *)

LEMMA S3Init == Init => S3Inv
<1> SUFFICES ASSUME Init PROVE S3Inv
  OBVIOUS
<1>1. finishing \in BOOLEAN /\ finalized \in BOOLEAN /\ reliable \in BOOLEAN
  BY Zenon DEF Init
<1>2. /\ 1 \in Keys /\ 0 \in 0..MaxRuns /\ 0 \in 0..MaxChunks /\ 0 \in 0..MaxRetries
      /\ 0 \in 0..(MaxChunks + 1) /\ MaxRetries + 1 \in Nat /\ 0 * (MaxRetries + 1) = 0
  BY S3Assumption DEF Keys
<1>3. NoUpload \in Upload /\ NoUpload.key = 0
  BY DEF NoUpload, Upload
<1>4. /\ pc = "idle" /\ attempts = 0 /\ run = 0 /\ count = 0 /\ second = 1 /\ keyOf = [r \in Runs |-> 1]
      /\ uploadId = 0 /\ parts = <<>> /\ partNumber = 0 /\ buffer = <<>> /\ pending = <<>>
      /\ result = "none" /\ uploads = [u \in Uploads |-> NoUpload] /\ made = 0
      /\ objects = [k \in Keys |-> NoObject]
  BY DEF Init
<1>5. TypeOK
  BY <1>1, <1>2, <1>3, <1>4 DEF TypeOK, Upload
<1>6. \A u \in Uploads : ~IsOpen(u)
  BY <1>3, <1>4 DEF IsOpen
<1> QED
  BY <1>2, <1>4, <1>5, <1>6 DEF S3Inv, MadeInv, CycleInv, PartsInv, UploadInv, LeftInv

\* Aborting removes the upload the archiver names, or nothing.
LEMMA AbortedIs ==
    ASSUME NEW ups \in [Uploads -> Upload], NEW a \in Aborted(ups)
    PROVE  /\ a \in [Uploads -> Upload]
           /\ \A u \in Uploads : a[u] = ups[u] \/ (u = uploadId /\ a[u] = NoUpload)
           /\ reliable /\ uploadId \in Uploads /\ ups[uploadId].key = key => a[uploadId] = NoUpload
<1>1. NoUpload \in Upload
  BY DEF NoUpload, Upload
<1> DEFINE named == {u \in {uploadId} \ {0} : ups[u].key = key}
           gone == [u \in Uploads |-> IF u \in named THEN NoUpload ELSE ups[u]]
<1>2. a = gone \/ (~reliable /\ a = ups)
  BY DEF Aborted
<1>3. 0 \notin Uploads
  BY DEF Uploads
<1> QED BY <1>1, <1>2, <1>3

\* The upload an attempt at create_multipart_upload may leave is one of the
\* model's.
LEMMA MadeBounds ==
    ASSUME S3Inv, pc = "create"
    PROVE  /\ made \in Nat /\ made + 1 \in Uploads
           /\ made + 1 <= (run - 1) * (MaxRetries + 1) + (attempts + 1)
           /\ made + 1 <= run * (MaxRetries + 1)
<1> DEFINE K == MaxRetries + 1
<1>1. /\ K \in Nat /\ MaxRuns \in Nat /\ attempts \in Nat /\ attempts <= MaxRetries /\ attempts + 1 <= K
      /\ run \in Nat /\ run >= 1 /\ run <= MaxRuns
  BY S3Assumption DEF S3Inv, TypeOK, CycleInv, Runs
<1>2. made \in Nat /\ made <= (run - 1) * K + attempts
  BY DEF S3Inv, TypeOK, MadeInv, Uploads
<1> HIDE DEF K
<1>3. run * K = (run - 1) * K + K /\ (run - 1) * K \in Nat
  BY <1>1
<1>4. run * K <= MaxRuns * K /\ MaxRuns * K \in Nat /\ run * K \in Nat
  <2>1. MaxRuns - run \in Nat /\ MaxRuns = run + (MaxRuns - run)
    BY <1>1
  <2>2. MaxRuns * K = run * K + (MaxRuns - run) * K /\ (MaxRuns - run) * K \in Nat /\ run * K \in Nat
    BY <1>1, <2>1
  <2> QED BY <2>2
<1> DEFINE P == (run - 1) * K
           Q == run * K
           M == MaxRuns * K
<1>5. P \in Nat /\ Q = P + K /\ Q <= M /\ M \in Nat /\ made <= P + attempts
  BY <1>2, <1>3, <1>4
<1> HIDE DEF P, Q, M
<1>6. made + 1 <= P + (attempts + 1) /\ made + 1 <= Q /\ made + 1 \in 1..M
  BY <1>1, <1>2, <1>5
<1> QED BY <1>2, <1>6 DEF P, Q, M, K, Uploads

\* open(): the archiver aborts what the last run left, then asks for an upload.
LEMMA OpenStep ==
    ASSUME S3Inv, Open
    PROVE  S3Inv'
<1> USE DEF S3Inv
<1>1. /\ pc = "idle" /\ pc' = "create" /\ run' = run + 1 /\ run < MaxRuns /\ attempts' = 0
      /\ second' \in second..MaxSecond /\ keyOf' = [keyOf EXCEPT ![run'] = second'] /\ count' = 0
      /\ parts' = <<>> /\ partNumber' = 0 /\ buffer' = <<>> /\ pending' = <<>> /\ result' = "none"
      /\ UNCHANGED <<uploadId, made, objects, reliable>>
      /\ uploads' \in (IF uploadId # 0 /\ ~finalized THEN Aborted(uploads) ELSE {uploads})
  BY DEF Open, Returns
<1>2. ~finalized' /\ finalized' \in BOOLEAN /\ ~finishing' /\ finishing' \in BOOLEAN
  BY Zenon DEF Open
<1>3. run \in 0..MaxRuns /\ run' \in Runs /\ second' \in Keys /\ run' \in 0..MaxRuns
  BY <1>1, S3Assumption DEF TypeOK, Runs, Keys
<1>4. uploads \in [Uploads -> Upload]
  BY DEF TypeOK, Upload
<1>5. /\ uploads' \in [Uploads -> Upload]
      /\ \A u \in Uploads : uploads'[u] = uploads[u] \/ (u = uploadId /\ uploads'[u] = NoUpload)
      /\ uploadId \in Uploads /\ ~finalized /\ reliable /\ uploads[uploadId].key = key =>
            uploads'[uploadId] = NoUpload
  <2>1. 0 \notin Uploads
    BY DEF Uploads
  <2>2. CASE uploads' = uploads /\ ~(uploadId # 0 /\ ~finalized)
    BY <1>4, <2>1, <2>2
  <2>3. CASE uploads' \in Aborted(uploads)
    BY <1>4, <2>3, AbortedIs
  <2> QED BY <1>1, <2>2, <2>3
<1>6. TypeOK'
  <2>1. <<>> \in Seq(Chunk) /\ <<>> \in Seq([number : 1..(MaxChunks + 1), data : Seq(Chunk)])
    OBVIOUS
  <2>2. 0 \in 0..MaxRetries /\ 0 \in 0..MaxChunks /\ 0 \in 0..(MaxChunks + 1)
    BY S3Assumption
  <2>3. keyOf' \in [Runs -> Keys]
    BY <1>1, <1>3 DEF TypeOK
  <2> QED BY <1>1, <1>2, <1>3, <1>5, <2>1, <2>2, <2>3 DEF TypeOK, Upload
<1>7. MadeInv'
  <2> DEFINE K == MaxRetries + 1
  <2>1. K \in Nat /\ run \in Nat /\ made <= run * K /\ made \in Nat
    BY <1>3, S3Assumption DEF MadeInv, TypeOK, Uploads
  <2> HIDE DEF K
  <2>2. (run + 1) * K = run * K + K /\ run * K \in Nat /\ (run + 1) - 1 = run
    BY <2>1
  <2> DEFINE Q == run * K
  <2>3. Q \in Nat /\ made <= Q /\ (run + 1) * K = Q + K
    BY <2>1, <2>2
  <2> HIDE DEF Q
  <2>4. made <= Q + K /\ made <= Q + 0
    BY <2>1, <2>3
  <2> QED BY <1>1, <2>2, <2>3, <2>4 DEF MadeInv, K, Q
<1>8. CycleInv' /\ PartsInv' /\ UploadInv'
  BY <1>1, <1>2, <1>3 DEF CycleInv, PartsInv, UploadInv
<1>9. LeftInv'
  <2> SUFFICES ASSUME reliable, NEW u \in Uploads PROVE ~IsOpen(u)'
    BY <1>1 DEF LeftInv, IsOpen
  <2>1. IsOpen(u) => u = uploadId /\ uploads[u].key = key /\ ~finalized
    BY DEF LeftInv
  <2>2. NoUpload.key = 0
    BY DEF NoUpload
  <2> QED BY <1>5, <2>1, <2>2 DEF IsOpen
<1> QED BY <1>6, <1>7, <1>8, <1>9

\* A failed attempt: the call is tried again, or the run is over. Nothing but the
\* store changes.
LEMMA FailsStep ==
    ASSUME S3Inv, pc # "idle", NEW ups \in [Uploads -> Upload], NEW aborts \in BOOLEAN,
           Fails(ups, aborts), reliable => ups = uploads,
           UNCHANGED reliable, made' \in {0} \cup Uploads,
           objects' \in [Keys -> Seq(Chunk) \cup {NoObject}]
    PROVE  /\ UNCHANGED <<finishing, cycle, local, result>>
           /\ \/ pc' = pc /\ attempts' = attempts + 1 /\ uploads' = ups
              \/ pc' = "idle" /\ attempts' = attempts
           /\ TypeOK' /\ CycleInv' /\ PartsInv' /\ LeftInv'
<1> USE DEF S3Inv
<1>1. UNCHANGED <<finishing, cycle, local, result>>
  BY DEF Fails
<1>2. \/ pc' = pc /\ attempts' = attempts + 1 /\ attempts < MaxRetries /\ uploads' = ups
      \/ pc' = "idle" /\ attempts' = attempts /\ uploads' \in Aborted(ups) \cup {ups}
  BY DEF Fails, Retry
<1>3. /\ uploads' \in [Uploads -> Upload]
      /\ \A u \in Uploads : uploads'[u] = ups[u] \/ uploads'[u] = NoUpload
  BY <1>2, AbortedIs
<1>4. attempts' \in 0..MaxRetries
  BY <1>2, S3Assumption DEF TypeOK
<1>5. TypeOK'
  BY <1>1, <1>2, <1>3, <1>4 DEF TypeOK, Upload, cycle, local
<1>6. CycleInv'
  BY <1>1, <1>2 DEF CycleInv, cycle, local
<1>7. PartsInv'
  BY <1>1, <1>2 DEF PartsInv, local
<1>8. LeftInv'
  <2> SUFFICES ASSUME reliable, NEW u \in Uploads
               PROVE  /\ IsOpen(u)' => (u = uploadId /\ uploads[u].key = key)'
                      /\ (finalized \/ pc \in {"create", "put"})' => ~IsOpen(u)'
    BY DEF LeftInv
  <2>1. /\ IsOpen(u) => u = uploadId /\ uploads[u].key = key
        /\ finalized \/ pc \in {"create", "put"} => ~IsOpen(u)
    BY DEF LeftInv
  <2>2. uploads'[u] = uploads[u] \/ uploads'[u].key = 0
    BY <1>3 DEF NoUpload
  <2> QED BY <1>1, <1>2, <2>1, <2>2 DEF IsOpen, cycle, local, key
<1> QED BY <1>1, <1>2, <1>5, <1>6, <1>7, <1>8

\* create_multipart_upload: whichever way it ends, at most one upload more.
LEMMA CreateSteps ==
    ASSUME S3Inv, CreateDone \/ CreateFails
    PROVE  S3Inv'
<1> USE DEF S3Inv
<1>1. /\ pc = "create" /\ run \in Runs /\ ~finalized /\ ~finishing /\ parts = <<>> /\ partNumber = 0
      /\ objects' = objects /\ reliable' = reliable
  BY DEF CreateDone, CreateFails, CycleInv
<1>2. /\ made \in Nat /\ made + 1 \in Uploads
      /\ made + 1 <= (run - 1) * (MaxRetries + 1) + (attempts + 1)
      /\ made + 1 <= run * (MaxRetries + 1)
  BY <1>1, MadeBounds
<1>3. key = keyOf[run] /\ key \in Keys /\ key # 0
  BY <1>1, S3Assumption DEF key, Runs, Keys, TypeOK
<1> DEFINE new == [key |-> key, parts |-> <<>>]
<1>4. new \in Upload /\ Created = [uploads EXCEPT ![made + 1] = new] /\ Created \in [Uploads -> Upload]
  <2>1. <<>> \in Seq(Seq(Chunk))
    OBVIOUS
  <2>2. new \in Upload
    BY <1>3, <2>1 DEF Upload
  <2> QED BY <2>2 DEF Created, TypeOK, Upload
<1>5. uploads \in [Uploads -> Upload] /\ made \in {0} \cup Uploads
  BY DEF TypeOK, Upload
<1>6. CASE CreateDone
  <2>1. /\ pc' = "ready" /\ attempts' = 0 /\ uploads' = Created /\ made' = made + 1 /\ uploadId' = made'
        /\ UNCHANGED <<finishing, cycle, parts, partNumber, buffer, pending, finalized, result>>
    BY <1>6 DEF CreateDone, Returns
  <2>2. /\ uploads'[uploadId'] = new
        /\ \A u \in Uploads : u # uploadId' => uploads'[u] = uploads[u]
    BY <1>2, <1>4, <1>5, <2>1
  <2>3. new.key = key /\ new.parts = <<>>
    OBVIOUS
  <2> HIDE DEF new
  <2>4. TypeOK'
    <3>1. 0 \in 0..MaxRetries
      BY S3Assumption
    <3> QED BY <1>1, <1>2, <1>4, <2>1, <3>1 DEF TypeOK, Upload, cycle
  <2>5. MadeInv'
    BY <1>2, <2>1 DEF MadeInv, cycle
  <2>6. CycleInv'
    <3>1. count \in Nat /\ Len(parts) = 0
      BY <1>1 DEF TypeOK
    <3> QED BY <1>1, <2>1, <3>1 DEF CycleInv, cycle
  <2>7. PartsInv'
    BY <1>1, <2>1 DEF PartsInv
  <2>8. UploadInv'
    <3>1. Len(new.parts) >= Len(parts)
      BY <1>1, <2>3
    <3> QED BY <1>1, <1>2, <2>1, <2>2, <2>3, <3>1 DEF UploadInv, cycle, key
  <2>9. LeftInv'
    <3> SUFFICES ASSUME reliable PROVE LeftInv'
      BY <1>1 DEF LeftInv
    <3>1. \A u \in Uploads : ~IsOpen(u)
      BY <1>1 DEF LeftInv
    <3>2. \A u \in Uploads : u # uploadId' => ~IsOpen(u)'
      BY <2>2, <3>1 DEF IsOpen
    <3> QED BY <1>1, <2>1, <2>2, <2>3, <3>2 DEF LeftInv, cycle, key
  <2> QED BY <2>4, <2>5, <2>6, <2>7, <2>8, <2>9
<1>7. CASE CreateFails
  <2>1. PICK ups \in [Uploads -> Upload] :
           /\ Fails(ups, FALSE) /\ (reliable => ups = uploads)
           /\ made' = made \/ made' = made + 1
    BY <1>4, <1>5, <1>7 DEF CreateFails
  <2>2. made' \in {0} \cup Uploads
    BY <1>2, <1>5, <2>1
  <2>3. objects' \in [Keys -> Seq(Chunk) \cup {NoObject}]
    BY <1>1 DEF TypeOK
  <2>4. /\ UNCHANGED <<finishing, cycle, local, result>>
        /\ \/ pc' = pc /\ attempts' = attempts + 1
           \/ pc' = "idle" /\ attempts' = attempts
        /\ TypeOK' /\ CycleInv' /\ PartsInv' /\ LeftInv'
    BY <1>1, <2>1, <2>2, <2>3, FailsStep
  <2>5. UploadInv'
    BY <1>1, <2>4 DEF UploadInv
  <2>6. MadeInv'
    <3> DEFINE P == (run - 1) * (MaxRetries + 1)
               Q == run * (MaxRetries + 1)
    <3>1. made \in Nat /\ made + 1 <= P + (attempts + 1) /\ made + 1 <= Q /\ run' = run /\ attempts \in Nat
      BY <1>2, <2>4 DEF cycle, TypeOK
    <3>2. P \in Int /\ Q \in Int
      BY <1>1, S3Assumption DEF Runs
    <3>3. MadeInv' = (made' <= Q /\ (pc' = "create" => made' <= P + attempts'))
      BY <3>1 DEF MadeInv
    <3> HIDE DEF P, Q
    <3>4. made' <= Q /\ (pc' = "create" => made' <= P + attempts')
      BY <1>1, <2>1, <2>4, <3>1, <3>2
    <3> QED BY <3>3, <3>4
  <2> QED BY <2>4, <2>5, <2>6
<1> QED BY <1>6, <1>7

\* write_chunk() up to the upload of a part, finalize() up to its first call on
\* the store, and a call of publish() that raises elsewhere.
LEMMA LocalSteps ==
    ASSUME S3Inv, WriteChunk \/ Finalize \/ GiveUp
    PROVE  S3Inv'
<1> USE DEF S3Inv
<1>1. /\ pc = "ready" /\ run \in Runs /\ ~finalized /\ ~finishing /\ pending = <<>>
      /\ partNumber = Len(parts) /\ partNumber <= count /\ result = "none"
      /\ UNCHANGED <<run, second, keyOf, uploadId, parts, finalized, result, made, objects, reliable>>
      /\ attempts' = attempts
  BY DEF WriteChunk, Finalize, GiveUp, CycleInv, cycle, local, store
<1>2. /\ uploads \in [Uploads -> Upload] /\ buffer \in Seq(Chunk) /\ count \in 0..MaxChunks
      /\ parts \in Seq(Part) /\ Len(parts) \in Nat /\ MaxChunks \in Nat /\ partNumber \in Nat
      /\ run \in Nat /\ made \in Nat
  BY S3Assumption DEF TypeOK, Upload, Part, Runs, Uploads
<1>3. pc' # "create" => MadeInv'
  BY <1>1 DEF MadeInv
<1>4. CASE WriteChunk
  <2>1. /\ count < MaxChunks /\ count' = count + 1 /\ uploads' = uploads /\ finishing' = finishing
    BY <1>4 DEF WriteChunk, store
  <2>2. PICK size \in Sizes :
           LET data == Append(buffer, [run |-> run, n |-> count + 1, size |-> size]) IN
           IF SizeOf(data) >= MinPartSize
           THEN StartPart(data) /\ buffer' = <<>>
           ELSE buffer' = data /\ UNCHANGED <<pc, pending, partNumber>>
    BY <1>4 DEF WriteChunk
  <2> DEFINE c == [run |-> run, n |-> count + 1, size |-> size]
             data == Append(buffer, c)
  <2>3. count + 1 \in 1..MaxChunks /\ count' \in 0..MaxChunks
    BY <1>2, <2>1
  <2>4. c \in Chunk
    BY <1>1, <2>3 DEF Chunk
  <2>5. data \in Seq(Chunk) /\ <<>> \in Seq(Chunk)
    BY <1>2, <2>4
  <2> HIDE DEF c
  <2>6. \/ /\ SizeOf(data) >= MinPartSize /\ pc' = "part" /\ pending' = data
           /\ partNumber' = partNumber + 1 /\ buffer' = <<>>
        \/ buffer' = data /\ pc' = "ready" /\ pending' = <<>> /\ partNumber' = partNumber
    BY <1>1, <2>2 DEF StartPart, c
  <2> HIDE DEF data
  <2>7. partNumber' \in 0..(MaxChunks + 1) /\ partNumber' <= count'
    BY <1>1, <1>2, <2>1, <2>6
  <2>8. TypeOK'
    BY <1>1, <2>1, <2>3, <2>5, <2>6, <2>7 DEF TypeOK
  <2>9. CycleInv'
    BY <1>1, <1>2, <2>1, <2>6, <2>7 DEF CycleInv
  <2>10. PartsInv'
    BY <1>1, <2>1, <2>6 DEF PartsInv
  <2>11. UploadInv'
    <3>1. /\ uploadId \in Uploads /\ uploads[uploadId].key = key
          /\ Len(uploads[uploadId].parts) >= Len(parts)
          /\ \A i \in DOMAIN parts : uploads[uploadId].parts[i] = parts[i].data
      BY <1>1 DEF UploadInv
    <3>2. Len(uploads[uploadId].parts) <= partNumber'
      <4>1. Len(uploads[uploadId].parts) <= partNumber /\ Len(uploads[uploadId].parts) \in Nat
        BY <1>1, <1>2, <3>1 DEF UploadInv, Upload
      <4> QED BY <1>2, <2>6, <4>1
    <3> QED BY <1>1, <2>1, <2>6, <3>1, <3>2 DEF UploadInv, key
  <2>12. LeftInv'
    BY <1>1, <2>1, <2>6 DEF LeftInv, IsOpen, key
  <2> QED BY <1>3, <2>6, <2>8, <2>9, <2>10, <2>11, <2>12
<1>5. CASE Finalize
  <2>1. count' = count /\ finishing' /\ buffer' = <<>> /\ finishing' \in BOOLEAN
    BY <1>5, Zenon DEF Finalize, cycle
  <2>2. \/ /\ pc' = "part" /\ pending' = buffer /\ partNumber' = partNumber + 1 /\ uploads' = uploads
        \/ /\ parts = <<>> /\ pc' = "put" /\ uploads' \in Aborted(uploads)
           /\ pending' = pending /\ partNumber' = partNumber
        \/ /\ parts # <<>> /\ pc' = "complete" /\ uploads' = uploads
           /\ pending' = pending /\ partNumber' = partNumber
    BY <1>5 DEF Finalize, StartPart
  <2>3. /\ uploads' \in [Uploads -> Upload]
        /\ \A u \in Uploads : uploads'[u] = uploads[u] \/ uploads'[u] = NoUpload
        /\ pc' = "put" /\ reliable /\ uploads[uploadId].key = key /\ uploadId \in Uploads =>
              uploads'[uploadId] = NoUpload
    BY <1>2, <2>2, AbortedIs
  <2>4. TypeOK'
    <3>1. partNumber' \in 0..(MaxChunks + 1)
      BY <1>1, <1>2, <2>2
    <3>2. <<>> \in Seq(Chunk)
      OBVIOUS
    <3> QED BY <1>1, <1>2, <2>1, <2>2, <2>3, <3>1, <3>2 DEF TypeOK, Upload
  <2>5. CycleInv'
    <3>1. pc' = "part" => partNumber' = Len(parts') + 1 /\ partNumber' <= count' + 1
      BY <1>1, <1>2, <2>1, <2>2
    <3> QED BY <1>1, <2>1, <2>2, <3>1 DEF CycleInv
  <2>6. PartsInv'
    BY <1>1, <2>1, <2>2 DEF PartsInv
  <2>7. UploadInv'
    <3> SUFFICES ASSUME pc' # "put" PROVE UploadInv'
      BY DEF UploadInv
    <3>1. /\ uploadId \in Uploads /\ uploads[uploadId].key = key
          /\ Len(uploads[uploadId].parts) >= Len(parts)
          /\ \A i \in DOMAIN parts : uploads[uploadId].parts[i] = parts[i].data
      BY <1>1 DEF UploadInv
    <3>2. Len(uploads[uploadId].parts) <= partNumber'
      <4>1. Len(uploads[uploadId].parts) <= partNumber /\ Len(uploads[uploadId].parts) \in Nat
        BY <1>1, <1>2, <3>1 DEF UploadInv, Upload
      <4> QED BY <1>2, <2>2, <4>1
    <3>3. uploads' = uploads
      BY <2>2
    <3> QED BY <1>1, <3>1, <3>2, <3>3 DEF UploadInv, key
  <2>8. LeftInv'
    <3> SUFFICES ASSUME reliable PROVE LeftInv'
      BY <1>1 DEF LeftInv
    <3>1. \A u \in Uploads : IsOpen(u) => u = uploadId /\ uploads[u].key = key
      BY DEF LeftInv
    <3>2. \A u \in Uploads : IsOpen(u)' => IsOpen(u) /\ uploads'[u] = uploads[u] /\ pc' # "put"
      BY <2>3, <3>1 DEF IsOpen, NoUpload
    <3> QED BY <1>1, <2>2, <3>1, <3>2 DEF LeftInv, key
  <2> QED BY <1>3, <2>2, <2>4, <2>5, <2>6, <2>7, <2>8
<1>6. CASE GiveUp
  <2>1. pc' = "idle" /\ UNCHANGED <<finishing, count, partNumber, buffer, pending, uploads>>
    BY <1>6 DEF GiveUp, cycle, local, store
  <2>2. TypeOK'
    BY <1>1, <2>1 DEF TypeOK
  <2> QED
    BY <1>1, <1>3, <2>1, <2>2 DEF CycleInv, PartsInv, UploadInv, LeftInv, IsOpen, key
<1> QED BY <1>4, <1>5, <1>6

\* The store after it took the part that is being sent, for the first time or
\* once more.
LEMMA WithPartIs ==
    ASSUME S3Inv, pc = "part"
    PROVE  /\ WithPart \in [Uploads -> Upload] /\ uploadId \in Uploads
           /\ \A u \in Uploads : u # uploadId => WithPart[u] = uploads[u]
           /\ WithPart[uploadId].key = key
           /\ Len(WithPart[uploadId].parts) = partNumber
           /\ WithPart[uploadId].parts[partNumber] = pending
           /\ \A i \in DOMAIN parts : WithPart[uploadId].parts[i] = parts[i].data
<1> USE DEF S3Inv
<1> DEFINE up == uploads[uploadId]
           old == up.parts
           m == IF partNumber > Len(old) THEN partNumber ELSE Len(old)
           new == [i \in 1..m |-> IF i = partNumber THEN pending ELSE old[i]]
           f == [up EXCEPT !.parts = new]
<1>1. /\ uploadId \in Uploads /\ up.key = key /\ Len(old) >= Len(parts) /\ Len(old) <= partNumber
      /\ \A i \in DOMAIN parts : old[i] = parts[i].data
      /\ partNumber = Len(parts) + 1 /\ run \in Runs
  BY DEF UploadInv, CycleInv
<1>2. uploads \in [Uploads -> Upload] /\ pending \in Seq(Chunk) /\ parts \in Seq(Part)
  BY DEF TypeOK, Upload, Part
<1>3. up \in Upload /\ old \in Seq(Seq(Chunk)) /\ up.key \in {0} \cup Keys
  BY <1>1, <1>2 DEF Upload
<1>4. Len(old) \in Nat /\ Len(parts) \in Nat /\ DOMAIN parts = 1..Len(parts)
      /\ \A i \in 1..Len(old) : old[i] \in Seq(Chunk)
  BY <1>2, <1>3
<1>5. WithPart = [uploads EXCEPT ![uploadId] = f]
  BY DEF WithPart
<1> HIDE DEF up, old
<1>6. /\ m = partNumber /\ partNumber \in Nat /\ partNumber \in 1..m
      /\ \A i \in 1..m : i = partNumber \/ i \in 1..Len(parts)
      /\ \A i \in 1..Len(parts) : i \in 1..m /\ i # partNumber /\ i \in 1..Len(old)
  BY <1>1, <1>4
<1> HIDE DEF m
<1>7. /\ \A i \in 1..m : new[i] \in Seq(Chunk)
      /\ new[partNumber] = pending
      /\ \A i \in 1..Len(parts) : new[i] = old[i]
  BY <1>2, <1>4, <1>6
<1>8. new \in Seq(Seq(Chunk)) /\ Len(new) = partNumber
  <2>1. new \in [1..m -> Seq(Chunk)] /\ m \in Nat
    BY <1>6, <1>7
  <2> QED BY <1>6, <2>1, IsASeq, LenProperties
<1> HIDE DEF new
<1>9. f \in Upload /\ f.key = up.key /\ f.parts = new
  BY <1>3, <1>8 DEF Upload
<1> HIDE DEF f
<1>10. /\ WithPart \in [Uploads -> Upload] /\ WithPart[uploadId] = f
       /\ \A u \in Uploads : u # uploadId => WithPart[u] = uploads[u]
  BY <1>1, <1>2, <1>5, <1>9
<1> QED BY <1>1, <1>4, <1>7, <1>8, <1>9, <1>10

\* upload_part: the store takes the part and the archiver lists it, or it is sent
\* again, or the upload is aborted.
LEMMA PartSteps ==
    ASSUME S3Inv, PartDone \/ PartFails
    PROVE  S3Inv'
<1> USE DEF S3Inv
<1>1. /\ pc = "part" /\ run \in Runs /\ ~finalized /\ result = "none"
      /\ partNumber = Len(parts) + 1 /\ partNumber <= IF finishing THEN count + 1 ELSE count
      /\ (finishing => buffer = <<>>) /\ uploadId \in Uploads /\ uploads[uploadId].key = key
      /\ objects' = objects /\ reliable' = reliable /\ made' = made
  BY DEF PartDone, PartFails, CycleInv, UploadInv
<1>2. /\ uploads \in [Uploads -> Upload] /\ pending \in Seq(Chunk) /\ parts \in Seq(Part)
      /\ Len(parts) \in Nat /\ count \in 0..MaxChunks /\ MaxChunks \in Nat /\ finishing \in BOOLEAN
  BY S3Assumption DEF TypeOK, Upload, Part
<1>3. /\ WithPart \in [Uploads -> Upload]
      /\ \A u \in Uploads : u # uploadId => WithPart[u] = uploads[u]
      /\ WithPart[uploadId].key = key
      /\ Len(WithPart[uploadId].parts) = partNumber
      /\ WithPart[uploadId].parts[partNumber] = pending
      /\ \A i \in DOMAIN parts : WithPart[uploadId].parts[i] = parts[i].data
  BY <1>1, WithPartIs
<1> HIDE DEF S3Inv
<1>4. CASE PartDone
  <2> DEFINE p == [number |-> partNumber, data |-> pending]
  <2>1. /\ pc' = (IF finishing THEN "complete" ELSE "ready") /\ attempts' = 0 /\ uploads' = WithPart
        /\ parts' = Append(parts, p) /\ pending' = <<>>
        /\ UNCHANGED <<finishing, cycle, uploadId, partNumber, buffer, finalized, result>>
    BY <1>4 DEF PartDone, Returns
  <2>2. partNumber \in 1..(MaxChunks + 1)
    BY <1>1, <1>2
  <2>3. p \in Part /\ p.number = partNumber /\ p.data = pending
    BY <1>2, <2>2 DEF Part
  <2> HIDE DEF p
  <2>4. /\ parts' \in Seq(Part) /\ Len(parts') = partNumber /\ DOMAIN parts' = 1..partNumber
        /\ parts'[partNumber] = p
        /\ \A i \in 1..partNumber : i # partNumber => i \in DOMAIN parts /\ parts'[i] = parts[i]
    <3>1. /\ parts' \in Seq(Part) /\ Len(parts') = Len(parts) + 1
          /\ \A i \in 1..Len(parts) : parts'[i] = parts[i]
          /\ parts'[Len(parts) + 1] = p
      BY <1>2, <2>1, <2>3, AppendProperties
    <3> QED BY <1>1, <1>2, <3>1
  <2>5. TypeOK'
    <3>1. 0 \in 0..MaxRetries /\ <<>> \in Seq(Chunk)
      BY S3Assumption
    <3>2. pc' \in {"ready", "complete"}
      BY <2>1
    <3> QED BY <1>1, <1>3, <2>1, <2>4, <3>1, <3>2 DEF S3Inv, TypeOK, Upload, Part, cycle
  <2>6. MadeInv'
    BY <1>1, <2>1 DEF S3Inv, MadeInv, cycle
  <2>7. CycleInv'
    <3>1. pc' = "ready" => ~finishing /\ partNumber <= count
      BY <1>1, <2>1
    <3> QED BY <1>1, <1>2, <2>1, <2>4, <3>1 DEF CycleInv, cycle
  <2>8. PartsInv'
    <3>1. \A i \in DOMAIN parts : parts[i].number = i /\ SizeOf(parts[i].data) >= MinPartSize
      BY <1>1 DEF S3Inv, PartsInv
    <3>2. ~finishing => SizeOf(pending) >= MinPartSize
      BY <1>1 DEF S3Inv, PartsInv
    <3>3. \A i \in DOMAIN parts' : parts'[i].number = i
      BY <2>3, <2>4, <3>1
    <3>4. \A i \in DOMAIN parts' : i # partNumber => SizeOf(parts'[i].data) >= MinPartSize
      BY <2>4, <3>1
    <3>5. pc' = "ready" => \A i \in DOMAIN parts' : SizeOf(parts'[i].data) >= MinPartSize
      BY <2>1, <2>3, <2>4, <3>2, <3>4
    <3>6. \A i \in DOMAIN parts' : i < Len(parts') => SizeOf(parts'[i].data) >= MinPartSize
      BY <2>2, <2>4, <3>4
    <3>7. pc' \in {"ready", "complete"}
      BY <2>1
    <3> QED BY <3>3, <3>5, <3>6, <3>7 DEF PartsInv
  <2>9. UploadInv'
    <3>1. \A i \in DOMAIN parts' : uploads'[uploadId].parts[i] = parts'[i].data
      BY <1>3, <2>1, <2>3, <2>4
    <3>2. Len(uploads'[uploadId].parts) >= Len(parts') /\ Len(uploads'[uploadId].parts) <= partNumber
      BY <1>3, <2>1, <2>2, <2>4
    <3> QED BY <1>1, <1>3, <2>1, <3>1, <3>2 DEF UploadInv, cycle, key
  <2>10. LeftInv'
    <3>1. reliable => \A u \in Uploads : IsOpen(u)' => u = uploadId
      BY <1>3, <2>1 DEF S3Inv, LeftInv, IsOpen
    <3> QED BY <1>1, <1>3, <2>1, <3>1 DEF LeftInv, IsOpen, cycle, key
  <2> QED BY <2>5, <2>6, <2>7, <2>8, <2>9, <2>10 DEF S3Inv
<1>5. CASE PartFails
  <2>1. PICK ups \in {uploads, WithPart} : Fails(ups, TRUE) /\ (reliable => ups = uploads)
    BY <1>5 DEF PartFails
  <2>2. ups \in [Uploads -> Upload] /\ made \in {0} \cup Uploads
        /\ objects' \in [Keys -> Seq(Chunk) \cup {NoObject}]
    BY <1>1, <1>2, <1>3, <2>1 DEF S3Inv, TypeOK
  <2>3. /\ UNCHANGED <<finishing, cycle, local, result>>
        /\ \/ pc' = pc /\ attempts' = attempts + 1 /\ uploads' = ups
           \/ pc' = "idle" /\ attempts' = attempts
        /\ TypeOK' /\ CycleInv' /\ PartsInv' /\ LeftInv'
    BY <1>1, <2>1, <2>2, FailsStep
  <2>4. MadeInv'
    BY <1>1, <2>3 DEF S3Inv, MadeInv, cycle
  <2>5. UploadInv'
    <3> SUFFICES ASSUME uploads' = ups, pc' = pc PROVE UploadInv'
      BY <2>3 DEF UploadInv
    <3>1. CASE ups = uploads
      BY <1>1, <2>3, <3>1 DEF S3Inv, UploadInv, cycle, local, key
    <3>2. CASE ups = WithPart
      <4>1. Len(WithPart[uploadId].parts) >= Len(parts) /\ Len(WithPart[uploadId].parts) <= partNumber
        BY <1>1, <1>2, <1>3
      <4> QED BY <1>1, <1>3, <2>3, <3>2, <4>1 DEF UploadInv, cycle, local, key
    <3> QED BY <2>1, <3>1, <3>2
  <2> QED BY <2>3, <2>4, <2>5 DEF S3Inv
<1> QED BY <1>4, <1>5

\* Completing the upload, or putting an empty object.
LEMMA FinalSteps ==
    ASSUME S3Inv, CompleteDone \/ CompleteFails \/ PutDone \/ PutFails
    PROVE  S3Inv'
<1>1. /\ pc \in {"complete", "put"} /\ run \in Runs /\ ~finalized /\ result = "none" /\ finishing
      /\ buffer = <<>> /\ pending = <<>> /\ made' = made /\ reliable' = reliable
  BY DEF S3Inv, CompleteDone, CompleteFails, PutDone, PutFails, Finished, CycleInv
<1>2. /\ uploads \in [Uploads -> Upload] /\ Completed \in [Uploads -> Upload]
      /\ uploadId \in Uploads => Completed[uploadId] = NoUpload
      /\ \A u \in Uploads : u # uploadId => Completed[u] = uploads[u]
  <2>1. NoUpload \in Upload
    BY DEF NoUpload, Upload
  <2> QED BY <2>1 DEF S3Inv, TypeOK, Upload, Completed
<1>3. MadeInv'
  <2>1. run' = run /\ pc' # "create"
    BY <1>1 DEF CompleteDone, CompleteFails, PutDone, PutFails, Finished, Returns, Fails, cycle
  <2> QED BY <1>1, <2>1 DEF S3Inv, MadeInv
<1>4. objects' \in [Keys -> Seq(Chunk) \cup {NoObject}]
  <2>1. objects \in [Keys -> Seq(Chunk) \cup {NoObject}] /\ <<>> \in Seq(Chunk)
    BY DEF S3Inv, TypeOK
  <2>2. CASE Completable /\ objects' = [objects EXCEPT ![key] = Assembled]
    <3>1. Assembled = FlattenSeq(Data)
      BY <2>2, AssembledIs
    <3>2. Data \in Seq(Seq(Chunk))
      BY DataTyped DEF S3Inv
    <3>3. FlattenSeq(Data) \in Seq(Chunk)
      BY <2>1, <3>2, FlattenAppend
    <3> QED BY <2>1, <2>2, <3>1, <3>3
  <2>3. CASE objects' = objects \/ objects' = [objects EXCEPT ![key] = <<>>]
    BY <2>1, <2>3
  <2> QED BY <2>2, <2>3 DEF CompleteDone, CompleteFails, PutDone, PutFails
<1>5. CASE CompleteDone \/ PutDone
  <2>1. /\ pc' = "idle" /\ attempts' = 0 /\ result' = "stored" /\ finalized'
        /\ UNCHANGED <<finishing, cycle, uploadId, parts, partNumber, buffer, pending>>
    BY <1>5 DEF CompleteDone, PutDone, Finished, Returns
  <2>2. \/ pc = "complete" /\ uploads' = Completed /\ uploads[uploadId].key = key
        \/ pc = "put" /\ uploads' = uploads
    BY <1>5 DEF CompleteDone, PutDone, Completable
  <2>3. TypeOK'
    <3>1. finalized' \in BOOLEAN
      BY <1>5, Zenon DEF CompleteDone, PutDone, Finished
    <3>2. 0 \in 0..MaxRetries
      BY S3Assumption
    <3> QED BY <1>1, <1>2, <1>4, <2>1, <2>2, <3>1, <3>2 DEF S3Inv, TypeOK, Upload, cycle
  <2>4. CycleInv' /\ PartsInv' /\ UploadInv'
    BY <2>1 DEF CycleInv, PartsInv, UploadInv
  <2>5. LeftInv'
    <3> SUFFICES ASSUME reliable, NEW u \in Uploads PROVE ~IsOpen(u)'
      BY <1>1 DEF LeftInv
    <3>1. (IsOpen(u) => u = uploadId) /\ (pc = "put" => ~IsOpen(u))
      BY DEF S3Inv, LeftInv
    <3> QED BY <1>2, <2>2, <3>1 DEF IsOpen, NoUpload
  <2> QED BY <1>3, <2>3, <2>4, <2>5 DEF S3Inv
<1>6. CASE CompleteFails \/ PutFails
  <2>1. PICK ups \in {uploads, Completed} :
           /\ Fails(ups, TRUE) \/ Fails(ups, FALSE)
           /\ ups # uploads => ~reliable /\ pc = "complete" /\ Completable
    <3>1. CASE CompleteFails
      BY <3>1 DEF CompleteFails
    <3>2. CASE PutFails
      BY <3>2 DEF PutFails
    <3> QED BY <1>6, <3>1, <3>2
  <2>2. ups \in [Uploads -> Upload] /\ made \in {0} \cup Uploads
    BY <1>2, <2>1 DEF S3Inv, TypeOK
  <2>3. /\ UNCHANGED <<finishing, cycle, local, result>>
        /\ \/ pc' = pc /\ attempts' = attempts + 1 /\ uploads' = ups
           \/ pc' = "idle" /\ attempts' = attempts
        /\ TypeOK' /\ CycleInv' /\ PartsInv' /\ LeftInv'
    BY <1>1, <1>4, <2>1, <2>2, FailsStep
  <2>4. UploadInv'
    <3> SUFFICES ASSUME uploads' = ups, pc' = pc, pc = "complete", uploads'[uploadId].key # 0
                 PROVE UploadInv'
      BY <1>1, <2>3 DEF UploadInv, IsOpen, local
    <3>1. CASE ups = uploads
      BY <2>3, <3>1 DEF S3Inv, UploadInv, IsOpen, cycle, local, key
    <3>2. CASE ups # uploads /\ ups = Completed
      <4>1. key # 0 /\ uploads[uploadId].key = key
        BY <1>1, <2>1, <3>2, S3Assumption DEF Completable, key, Runs, Keys, S3Inv, TypeOK
      <4>2. uploadId \in Uploads /\ Completed[uploadId].key = 0
        BY <1>2, <4>1 DEF S3Inv, UploadInv, IsOpen, NoUpload
      <4> QED BY <3>2, <4>2
    <3> QED BY <2>1, <3>1, <3>2
  <2> QED BY <1>3, <2>3, <2>4 DEF S3Inv
<1> QED BY <1>5, <1>6

\* The inductive invariant holds of every state of every behaviour.
THEOREM S3Invariant == Spec => []S3Inv
<1>1. ASSUME S3Inv, UNCHANGED vars PROVE S3Inv'
  <2> USE <1>1 DEF vars, cycle, local, store, S3Inv
  <2>1. TypeOK'
    BY DEF TypeOK
  <2>2. MadeInv' /\ CycleInv'
    BY DEF MadeInv, CycleInv
  <2>3. PartsInv' /\ UploadInv' /\ LeftInv'
    BY DEF PartsInv, UploadInv, LeftInv, IsOpen, key
  <2> QED BY <2>1, <2>2, <2>3
<1>2. S3Inv /\ [Next]_vars => S3Inv'
  BY <1>1, OpenStep, CreateSteps, LocalSteps, PartSteps, FinalSteps DEF Next, Attempt
<1> QED BY <1>2, S3Init, PTL DEF Spec

\* finalize() asks the store to complete no upload that it must refuse: the parts
\* listed are the store's, ascending, and none but the last is too small.
THEOREM CompletesValidUploads == Spec => []CompletionIsValid
<1>1. S3Inv => CompletionIsValid
  <2> SUFFICES ASSUME S3Inv, pc = "complete", IsOpen(uploadId)
               PROVE  uploads[uploadId].key = key /\ Valid
    BY DEF CompletionIsValid
  <2> DEFINE sent == uploads[uploadId].parts
  <2>1. /\ uploads[uploadId].key = key /\ Len(sent) >= Len(parts) /\ uploadId \in Uploads
        /\ \A i \in DOMAIN parts : sent[i] = parts[i].data
    BY DEF S3Inv, UploadInv
  <2>2. parts \in Seq(Part) /\ sent \in Seq(Seq(Chunk))
    BY <2>1 DEF S3Inv, TypeOK, Part
  <2>3. /\ DOMAIN parts = 1..Len(parts) /\ DOMAIN sent = 1..Len(sent)
        /\ Len(parts) \in Nat /\ Len(sent) \in Nat
    BY <2>2
  <2>4. /\ \A i \in DOMAIN parts : parts[i].number = i
        /\ \A i \in DOMAIN parts : i < Len(parts) => SizeOf(parts[i].data) >= MinPartSize
    BY DEF S3Inv, PartsInv
  <2>5. ASSUME NEW i \in DOMAIN parts
        PROVE  /\ i \in DOMAIN sent
               /\ i < Len(parts) => i + 1 \in DOMAIN parts /\ i < i + 1
    BY <2>1, <2>3
  <2> HIDE DEF sent
  <2>6. Valid
    BY <2>1, <2>4, <2>5 DEF Valid, sent
  <2> QED BY <2>1, <2>6
<1> QED BY <1>1, S3Invariant, PTL

\* At a store that answers, no upload is open but the one of the current run, and
\* none once finalize() returned.
THEOREM UploadsAreAborted == Spec => []NoUploadLeft
<1>1. S3Inv => NoUploadLeft
  BY DEF S3Inv, LeftInv, NoUploadLeft, OpenUploads
<1> QED BY <1>1, S3Invariant, PTL

-----------------------------------------------------------------------------
(* The contract of Archive *)

\* What is in parts, in the part being sent and in the buffer, in one.
LEMMA AcceptedIs ==
    ASSUME S3Inv
    PROVE  /\ Accepted = IF phase = "closed" THEN <<>> ELSE FlattenSeq(Data) \o pending \o buffer
           /\ FlattenSeq(Data) \in Seq(Chunk) /\ pending \in Seq(Chunk) /\ buffer \in Seq(Chunk)
           /\ pc \in {"complete", "put"} => Accepted = FlattenSeq(Data)
           /\ pc = "put" => Accepted = <<>>
<1>1. Accepted = IF phase = "closed" THEN <<>> ELSE FlattenSeq(Data) \o pending \o buffer
  BY DEF Accepted, Data
<1>2. pending \in Seq(Chunk) /\ buffer \in Seq(Chunk) /\ <<>> \in Seq(Chunk)
  BY DEF S3Inv, TypeOK
<1>3. FlattenSeq(Data) \in Seq(Chunk)
  <2>1. Data \in Seq(Seq(Chunk))
    BY DataTyped DEF S3Inv
  <2> QED BY <1>2, <2>1, FlattenAppend
<1>4. ASSUME pc \in {"complete", "put"} PROVE Accepted = FlattenSeq(Data)
  <2>1. pending = <<>> /\ buffer = <<>> /\ phase = "finalizing"
    BY <1>4 DEF S3Inv, CycleInv, phase
  <2>2. FlattenSeq(Data) \o <<>> = FlattenSeq(Data)
    BY <1>3
  <2> QED BY <1>1, <2>1, <2>2
<1>5. ASSUME pc = "put" PROVE FlattenSeq(Data) = <<>>
  <2>1. parts = <<>>
    BY <1>5 DEF S3Inv, CycleInv
  <2>2. Data = <<>>
    BY <2>1 DEF Data
  <2> QED BY <2>2 DEF FlattenSeq
<1> QED BY <1>1, <1>2, <1>3, <1>4, <1>5

\* A part that was taken leaves what the run wrote as it is.
LEMMA PartKeepsAccepted ==
    ASSUME S3Inv, PartDone
    PROVE  FlattenSeq(Data)' \o pending' \o buffer' = FlattenSeq(Data) \o pending \o buffer
<1> DEFINE p == [number |-> partNumber, data |-> pending]
<1>1. parts' = Append(parts, p) /\ pending' = <<>> /\ buffer' = buffer
  BY DEF PartDone
<1>2. parts \in Seq(Part) /\ pending \in Seq(Chunk) /\ p.data = pending
  BY DEF S3Inv, TypeOK, Part
<1>3. Data \in Seq(Seq(Chunk)) /\ Len(Data) = Len(parts)
  BY DataTyped DEF S3Inv
<1> HIDE DEF p
<1>4. Data' = Append(Data, pending)
  <2>1. /\ DOMAIN parts' = 1..(Len(parts) + 1) /\ Len(parts) \in Nat /\ DOMAIN parts = 1..Len(parts)
        /\ \A i \in 1..Len(parts) : parts'[i] = parts[i]
        /\ parts'[Len(parts) + 1] = p
    BY <1>1, <1>2
  <2>2. Data' = [i \in 1..(Len(parts) + 1) |-> parts'[i].data]
    BY <2>1 DEF Data
  <2>3. Append(Data, pending) = [i \in 1..(Len(parts) + 1) |-> IF i = Len(parts) + 1 THEN pending ELSE Data[i]]
    <3> DEFINE n == Len(parts)
               d == Data
    <3>1. d \in Seq(Seq(Chunk)) /\ Len(d) = n
      BY <1>3
    <3> DEFINE t == Append(d, pending)
    <3> HIDE DEF n, d
    <3>2. /\ t \in Seq(Seq(Chunk)) /\ Len(t) = n + 1 /\ t[n + 1] = pending /\ n \in Nat
          /\ \A i \in 1..n : t[i] = d[i]
      BY <1>2, <3>1, AppendProperties
    <3> HIDE DEF t
    <3>3. t = [i \in 1..(n + 1) |-> t[i]]
      BY <3>2
    <3>4. \A i \in 1..(n + 1) : t[i] = IF i = n + 1 THEN pending ELSE d[i]
      BY <3>2
    <3>5. t = [i \in 1..(n + 1) |-> IF i = n + 1 THEN pending ELSE d[i]]
      BY <3>3, <3>4
    <3> QED BY <3>5 DEF n, d, t
  <2>4. \A i \in 1..Len(parts) : Data[i] = parts[i].data
    BY <2>1 DEF Data
  <2>5. \A i \in 1..(Len(parts) + 1) :
           parts'[i].data = IF i = Len(parts) + 1 THEN pending ELSE Data[i]
    <3> SUFFICES ASSUME NEW i \in 1..(Len(parts) + 1)
                 PROVE  parts'[i].data = IF i = Len(parts) + 1 THEN pending ELSE Data[i]
      OBVIOUS
    <3>1. i # Len(parts) + 1 => i \in 1..Len(parts)
      BY <2>1
    <3> QED BY <1>2, <2>1, <2>4, <3>1
  <2> QED BY <2>2, <2>3, <2>5
<1>5. FlattenSeq(Data') = FlattenSeq(Data) \o pending /\ FlattenSeq(Data) \in Seq(Chunk)
  BY <1>2, <1>3, <1>4, FlattenAppend
<1>6. (FlattenSeq(Data) \o pending) \o <<>> = FlattenSeq(Data) \o pending
  BY <1>2, <1>5
<1> QED BY <1>1, <1>5, <1>6

\* Every step is a step of the contract, or none.
LEMMA ContractStep ==
    ASSUME S3Inv, Next
    PROVE  [Contract!Next]_(Contract!vars)
<1> DEFINE flat == FlattenSeq(Data)
<1>1. /\ Accepted = (IF phase = "closed" THEN <<>> ELSE flat \o pending \o buffer)
      /\ Accepted' = (IF phase' = "closed" THEN <<>> ELSE FlattenSeq(Data)' \o pending' \o buffer')
      /\ flat \in Seq(Chunk) /\ pending \in Seq(Chunk) /\ buffer \in Seq(Chunk)
      /\ pc \in {"complete", "put"} => Accepted = flat
      /\ pc = "put" => Accepted = <<>>
  BY AcceptedIs DEF Accepted, Data
<1>2. key \in Keys /\ (pc # "idle" => result = "none")
  BY S3Assumption DEF S3Inv, TypeOK, CycleInv, key, Runs, Keys
<1>3. objects \in [Keys -> Seq(Chunk) \cup {NoObject}]
  BY DEF S3Inv, TypeOK
<1> HIDE DEF flat
\* A failed attempt, after which the store may have the object.
<1>4. ASSUME NEW ups, NEW aborts, Fails(ups, aborts), pc \notin {"idle", "create"},
             \/ objects' = objects
             \/ pc \in {"complete", "put"} /\ objects' = [objects EXCEPT ![key] = Accepted]
      PROVE  [Contract!Next]_(Contract!vars)
  <2>1. UNCHANGED <<finishing, cycle, local, result>> /\ pc' \in {pc, "idle"}
    BY <1>4 DEF Fails
  <2>2. key' = key /\ Data' = Data /\ result' = result
    BY <2>1 DEF key, cycle, Data, local
  <2>3. CASE pc' = "idle"
    <3>1. phase # "closed" /\ phase' = "closed" /\ Accepted' = <<>>
      BY <1>1, <1>4, <2>3 DEF phase
    <3>2. objects' = objects \/ (phase = "finalizing" /\ objects' = [objects EXCEPT ![key] = Accepted])
      BY <1>4 DEF phase
    <3> QED BY <2>2, <3>1, <3>2 DEF Contract!Next, Contract!GiveUp, Contract!Stored
  <2>4. CASE pc' = pc
    <3>1. phase' = phase
      BY <2>1, <2>4 DEF phase
    <3>2. Accepted' = Accepted
      BY <1>1, <2>1, <2>2, <3>1 DEF local, flat
    <3>3. CASE objects' = objects
      BY <2>2, <3>1, <3>2, <3>3 DEF Contract!vars
    <3>4. CASE pc \in {"complete", "put"} /\ objects' = [objects EXCEPT ![key] = Accepted]
      <4>1. phase = "finalizing"
        BY <3>4 DEF phase
      <4> QED BY <2>2, <3>1, <3>2, <3>4, <4>1 DEF Contract!Next, Contract!Store, Contract!Stored
    <3> QED BY <1>4, <3>3, <3>4
  <2> QED BY <2>1, <2>3, <2>4
<1>5. CASE Open
  <2>1. /\ pc = "idle" /\ pc' = "create" /\ result' = "none" /\ objects' = objects
        /\ run' = run + 1 /\ run < MaxRuns /\ second' \in second..MaxSecond
        /\ keyOf' = [keyOf EXCEPT ![run'] = second']
    BY <1>5 DEF Open, Returns
  <2>2. run' \in Runs /\ run' # 0 /\ second' \in Keys
    BY <2>1, S3Assumption DEF S3Inv, TypeOK, Runs, Keys
  <2>3. key' \in Keys
    BY <2>1, <2>2 DEF key, S3Inv, TypeOK
  <2>4. phase = "closed" /\ phase' = "closed" /\ Accepted = <<>> /\ Accepted' = <<>>
    BY <1>1, <2>1 DEF phase
  <2> QED BY <2>1, <2>3, <2>4 DEF Contract!Next, Contract!Name
<1>6. CASE CreateDone
  <2>1. /\ pc = "create" /\ pc' = "ready" /\ objects' = objects
        /\ UNCHANGED <<finishing, cycle, parts, buffer, pending, result>>
        /\ parts = <<>> /\ buffer = <<>> /\ pending = <<>>
    BY <1>6 DEF CreateDone, Returns, S3Inv, CycleInv
  <2>2. Data' = <<>> /\ FlattenSeq(<<>>) = <<>> /\ <<>> \o <<>> \o <<>> = <<>>
    <3>1. FlattenSeq(<<>>) = <<>>
      BY DEF FlattenSeq
    <3> QED BY <2>1, <3>1 DEF Data
  <2>3. phase = "closed" /\ phase' = "open" /\ Accepted = <<>> /\ Accepted' = <<>> /\ key' = key
    BY <1>1, <2>1, <2>2 DEF phase, key, cycle
  <2> QED BY <1>2, <2>1, <2>3 DEF Contract!Next, Contract!Open
<1>7. CASE CreateFails
  <2>1. /\ pc = "create" /\ pc' \in {"create", "idle"} /\ objects' = objects
        /\ UNCHANGED <<cycle, result>>
    BY <1>7 DEF CreateFails, Fails
  <2>2. phase = "closed" /\ phase' = "closed" /\ Accepted = <<>> /\ Accepted' = <<>> /\ key' = key
    BY <1>1, <2>1 DEF phase, key, cycle
  <2> QED BY <2>1, <2>2 DEF Contract!vars
<1>8. CASE WriteChunk
  <2>1. /\ pc = "ready" /\ pc' \in {"ready", "part"} /\ ~finishing /\ pending = <<>>
        /\ count < MaxChunks /\ run \in Runs
        /\ UNCHANGED <<finishing, run, keyOf, parts, result, objects>>
    BY <1>8 DEF WriteChunk, S3Inv, CycleInv, StartPart, store
  <2>2. count + 1 \in 1..MaxChunks
    BY <2>1, S3Assumption DEF S3Inv, TypeOK
  <2>3. PICK size \in Sizes :
           LET data == Append(buffer, [run |-> run, n |-> count + 1, size |-> size]) IN
           IF SizeOf(data) >= MinPartSize
           THEN StartPart(data) /\ buffer' = <<>>
           ELSE buffer' = data /\ UNCHANGED <<pc, pending, partNumber>>
    BY <1>8 DEF WriteChunk
  <2> DEFINE c == [run |-> run, n |-> count + 1, size |-> size]
  <2>4. c \in Chunk
    BY <2>1, <2>2 DEF Chunk
  <2> HIDE DEF c
  <2>5. \/ pending' = Append(buffer, c) /\ buffer' = <<>>
        \/ buffer' = Append(buffer, c) /\ pending' = <<>>
    BY <2>1, <2>3 DEF StartPart, c
  <2>6. flat \o pending' \o buffer' = Append(flat \o pending \o buffer, c)
    <3>1. Append(buffer, c) \in Seq(Chunk) /\ flat \o <<>> = flat
      BY <1>1, <2>4
    <3>2. flat \o pending' \o buffer' = flat \o Append(buffer, c)
      <4>1. flat \o Append(buffer, c) \in Seq(Chunk)
        BY <1>1, <3>1, ConcatProperties
      <4>2. flat \o Append(buffer, c) \o <<>> = flat \o Append(buffer, c)
        BY <4>1
      <4> QED BY <2>5, <3>1, <4>2
    <3>3. flat \o Append(buffer, c) = Append(flat \o buffer, c)
      <4>1. Append(buffer, c) = buffer \o <<c>> /\ <<c>> \in Seq(Chunk)
        BY <1>1, <2>4, AppendIsConcat
      <4>2. flat \o buffer \in Seq(Chunk)
        BY <1>1, ConcatProperties
      <4>3. Append(flat \o buffer, c) = (flat \o buffer) \o <<c>>
        BY <2>4, <4>2, AppendIsConcat
      <4>4. (flat \o buffer) \o <<c>> = flat \o (buffer \o <<c>>)
        BY <1>1, <4>1, ConcatAssociative
      <4> QED BY <4>1, <4>3, <4>4
    <3> QED BY <2>1, <3>1, <3>2, <3>3
  <2>7. phase = "open" /\ phase' = "open" /\ key' = key /\ Data' = Data
    BY <2>1 DEF phase, key, Data
  <2>8. Accepted' = Append(Accepted, c)
    BY <1>1, <2>6, <2>7 DEF flat
  <2> QED BY <2>1, <2>4, <2>7, <2>8 DEF Contract!Next, Contract!Write
<1>9. CASE Finalize
  <2>1. /\ pc = "ready" /\ ~finishing /\ pc' \in {"part", "put", "complete"} /\ finishing'
        /\ pending = <<>> /\ buffer' = <<>>
        /\ UNCHANGED <<cycle, parts, result, objects>>
        /\ pending' = buffer
    BY <1>9 DEF Finalize, StartPart, S3Inv, CycleInv
  <2>2. flat \o <<>> = flat /\ flat \o buffer \in Seq(Chunk)
    BY <1>1, ConcatProperties
  <2>3. flat \o pending' \o buffer' = flat \o pending \o buffer
    BY <2>1, <2>2
  <2>4. phase = "open" /\ phase' = "finalizing" /\ key' = key /\ Data' = Data
    BY <2>1 DEF phase, key, cycle, Data
  <2>5. Accepted' = Accepted
    BY <1>1, <2>3, <2>4 DEF flat
  <2> QED BY <2>1, <2>4, <2>5 DEF Contract!Next, Contract!Finalize
<1>10. CASE GiveUp
  <2>1. pc = "ready" /\ pc' = "idle" /\ UNCHANGED <<cycle, result, store>>
    BY <1>10 DEF GiveUp
  <2>2. phase = "open" /\ phase' = "closed" /\ key' = key /\ Accepted' = <<>> /\ objects' = objects
        /\ result' = result
    BY <1>1, <2>1 DEF phase, key, cycle, store
  <2> QED BY <2>2 DEF Contract!Next, Contract!GiveUp
<1>11. CASE PartDone
  <2>1. /\ pc = "part" /\ pc' = (IF finishing THEN "complete" ELSE "ready")
        /\ UNCHANGED <<finishing, cycle, result, objects>>
    BY <1>11 DEF PartDone, Returns
  <2>2. phase' = phase /\ phase # "closed" /\ key' = key
    BY <2>1 DEF phase, key, cycle
  <2>3. Accepted' = Accepted
    BY <1>1, <1>11, <2>2, PartKeepsAccepted DEF flat
  <2> QED BY <2>1, <2>2, <2>3 DEF Contract!vars
<1>12. CASE PartFails
  <2>1. pc = "part" /\ objects' = objects /\ \E ups : Fails(ups, TRUE)
    BY <1>12 DEF PartFails
  <2> QED BY <1>4, <2>1
<1>13. Completable => Assembled = FlattenSeq(Data)
  BY AssembledIs
<1>14. CASE CompleteDone \/ PutDone
  <2>1. /\ pc \in {"complete", "put"} /\ pc' = "idle" /\ result' = "stored" /\ UNCHANGED cycle
    BY <1>14 DEF CompleteDone, PutDone, Finished, Returns
  <2>2. objects' = [objects EXCEPT ![key] = Accepted]
    BY <1>1, <1>13, <1>14 DEF CompleteDone, PutDone, flat
  <2>3. phase = "finalizing" /\ phase' = "closed" /\ Accepted' = <<>> /\ key' = key
    BY <1>1, <2>1 DEF phase, key, cycle
  <2> QED BY <2>1, <2>2, <2>3 DEF Contract!Next, Contract!Return, Contract!Stored
<1>15. CASE CompleteFails
  <2>1. /\ pc = "complete"
        /\ \/ Fails(uploads, TRUE) /\ objects' = objects
           \/ Fails(Completed, TRUE) /\ objects' = [objects EXCEPT ![key] = Accepted]
    BY <1>1, <1>13, <1>15 DEF CompleteFails, flat
  <2> QED BY <1>4, <2>1
<1>16. CASE PutFails
  <2>1. /\ pc = "put" /\ Fails(uploads, FALSE)
        /\ objects' = objects \/ objects' = [objects EXCEPT ![key] = Accepted]
    BY <1>1, <1>16 DEF PutFails
  <2> QED BY <1>4, <2>1
<1> QED
  BY <1>5, <1>6, <1>7, <1>8, <1>9, <1>10, <1>11, <1>12, <1>14, <1>15, <1>16 DEF Next, Attempt

\* S3Archiver implements Archive, whatever calls fail and whichever answers are
\* lost: the initial states map to initial states, and every step to a step of the
\* contract or to none.
THEOREM ImplementsArchive == Spec => ArchiveContract
<1>1. Init => Contract!Init
  <2> SUFFICES ASSUME Init PROVE Contract!Init
    OBVIOUS
  <2>1. /\ pc = "idle" /\ run = 0 /\ result = "none" /\ objects = [k \in Keys |-> NoObject]
    BY DEF Init
  <2>2. phase = "closed" /\ key = 1 /\ 1 \in Keys /\ Accepted = <<>>
    BY <2>1, S3Assumption DEF phase, key, Keys, Accepted
  <2> QED BY <2>1, <2>2 DEF Contract!Init
<1>2. S3Inv /\ [Next]_vars => [Contract!Next]_(Contract!vars)
  <2>1. UNCHANGED vars => UNCHANGED Contract!vars
    BY DEF vars, cycle, local, store, Contract!vars, phase, key, Accepted
  <2> QED BY <2>1, ContractStep
<1> QED BY <1>1, <1>2, S3Invariant, PTL DEF Spec, ArchiveContract, Contract!Spec
=============================================================================
