------------------------------ MODULE S3Archive ------------------------------
(***************************************************************************)
(* S3Archiver over consecutive runs, with the object store it uploads to.  *)
(* S3CompatArchiver is the same class with an endpoint and credentials.    *)
(*                                                                         *)
(* The archiver is called by one thread, so a step is one attempt of one   *)
(* call on the store, or the code between two of them. The store may       *)
(* refuse a call, or carry it out and lose the answer; execute_with_retry  *)
(* tries a call again while its budget lasts and the error is retryable.   *)
(* Aborting an upload is a single attempt whose errors are swallowed.      *)
(***************************************************************************)
EXTENDS Naturals, Sequences, SequencesExt

CONSTANTS
    MaxRuns,      \* bound: calls of open()
    MaxChunks,    \* bound: chunks of one run
    MaxSecond,    \* bound: the clock that object keys are made of
    Sizes,        \* sizes a chunk may have
    MinPartSize,  \* _MIN_PART_SIZE
    MaxRetries    \* TransportPolicy.max_retries

ASSUME S3Assumption ==
    /\ MaxRuns \in Nat \ {0}
    /\ MaxChunks \in Nat
    /\ MaxSecond \in Nat \ {0}
    /\ Sizes \subseteq Nat \ {0}
    /\ MinPartSize \in Nat \ {0}
    /\ MaxRetries \in Nat

Runs    == 1..MaxRuns
Keys    == 1..MaxSecond
Uploads == 1..(MaxRuns * (MaxRetries + 1))
Chunk   == [run : Runs, n : 1..MaxChunks, size : Sizes]

NoUpload == [key |-> 0, parts |-> <<>>]
NoObject == <<[run |-> 0, n |-> 0, size |-> 0]>>

VARIABLES
    pc,           \* the call on the store that is being made, or where the caller is
    finishing,    \* the call is made by finalize()
    attempts,     \* execute_with_retry: retries of the current call
    run,          \* calls of open()
    count,        \* chunks written in this run
    second,       \* the clock
    keyOf,        \* self._object_key, as each run set it
    uploadId,     \* self._upload_id, 0 for None
    parts,        \* self._parts: number and ETag, which is to say data, of each part
    partNumber,   \* self._part_number
    buffer,       \* self._buffer
    pending,      \* the data of the part being uploaded
    finalized,    \* self._finalized
    result,       \* whether the last finalize() returned
    uploads,      \* the store: its open multipart uploads
    reliable,     \* the store: it loses no answer and carries out every abort
    made,         \* the store: uploads created so far
    objects       \* the store: its objects

cycle == <<run, count, second, keyOf>>
store == <<uploads, made, objects, reliable>>
local == <<uploadId, parts, partNumber, buffer, pending, finalized>>
vars  == <<pc, finishing, attempts, cycle, local, result, store>>

TypeOK ==
    /\ pc \in {"idle", "create", "ready", "part", "complete", "put"}
    /\ finishing \in BOOLEAN
    /\ attempts \in 0..MaxRetries
    /\ run \in 0..MaxRuns
    /\ count \in 0..MaxChunks
    /\ second \in Keys
    /\ keyOf \in [Runs -> Keys]
    /\ uploadId \in {0} \cup Uploads
    /\ parts \in Seq([number : 1..(MaxChunks + 1), data : Seq(Chunk)])
    /\ partNumber \in 0..(MaxChunks + 1)
    /\ buffer \in Seq(Chunk)
    /\ pending \in Seq(Chunk)
    /\ finalized \in BOOLEAN
    /\ result \in {"none", "stored"}
    /\ uploads \in [Uploads -> [key : {0} \cup Keys, parts : Seq(Seq(Chunk))]]
    /\ reliable \in BOOLEAN
    /\ made \in {0} \cup Uploads
    /\ objects \in [Keys -> Seq(Chunk) \cup {NoObject}]

Init ==
    /\ pc = "idle" /\ finishing = FALSE /\ attempts = 0
    /\ run = 0 /\ count = 0 /\ second = 1 /\ keyOf = [r \in Runs |-> 1]
    /\ uploadId = 0 /\ parts = <<>> /\ partNumber = 0
    /\ buffer = <<>> /\ pending = <<>> /\ finalized = FALSE
    /\ result = "none"
    /\ uploads = [u \in Uploads |-> NoUpload]
    /\ reliable \in BOOLEAN
    /\ made = 0
    /\ objects = [k \in Keys |-> NoObject]

key == IF run = 0 THEN 1 ELSE keyOf[run]
IsOpen(u) == uploads[u].key # 0
SizeOf(data) == FoldLeft(LAMBDA sum, c : sum + c.size, 0, data)
-----------------------------------------------------------------------------
(* _abort_upload and execute_with_retry *)

\* Variant: nothing is aborted.
AbortedNever(ups) == {ups}

\* The uploads after one attempt at abort_multipart_upload, whose errors are
\* swallowed. The store knows an upload by its key and its id.
Aborted(ups) ==
    LET named == {u \in {uploadId} \ {0} : ups[u].key = key}
        gone  == [u \in Uploads |-> IF u \in named THEN NoUpload ELSE ups[u]]
    IN {gone} \cup (IF reliable THEN {} ELSE {ups})

Retry == attempts < MaxRetries /\ attempts' = attempts + 1

\* The attempt fails, refused or with its answer lost, and leaves the store with
\* these uploads. A retryable error within the budget is tried again; any other
\* makes the call of publish() raise, after aborting the upload if it is to.
Fails(ups, aborts) ==
    /\ \/ Retry /\ UNCHANGED pc /\ uploads' = ups
       \/ /\ pc' = "idle"
          /\ UNCHANGED attempts
          /\ uploads' \in (IF aborts THEN Aborted(ups) ELSE {ups})
    /\ UNCHANGED <<finishing, cycle, local, result>>

\* The call returns.
Returns(where) == pc' = where /\ attempts' = 0
-----------------------------------------------------------------------------
(* open() *)

Open ==
    /\ pc = "idle"
    /\ run < MaxRuns
    /\ uploads' \in (IF uploadId # 0 /\ ~finalized THEN Aborted(uploads) ELSE {uploads})
    /\ second' \in second..MaxSecond
    /\ run' = run + 1
    /\ count' = 0
    /\ keyOf' = [keyOf EXCEPT ![run'] = second']
    /\ finalized' = FALSE
    /\ parts' = <<>>
    /\ partNumber' = 0
    /\ buffer' = <<>>
    /\ pending' = <<>>
    /\ finishing' = FALSE
    /\ result' = "none"
    /\ Returns("create")
    /\ UNCHANGED <<uploadId, made, objects, reliable>>

Created == [uploads EXCEPT ![made + 1] = [key |-> key, parts |-> <<>>]]

CreateDone ==
    /\ pc = "create"
    /\ Returns("ready")
    /\ uploads' = Created
    /\ made' = made + 1
    /\ uploadId' = made'
    /\ UNCHANGED <<finishing, cycle, parts, partNumber, buffer, pending, finalized,
                   result, objects, reliable>>

CreateFails ==
    /\ pc = "create"
    /\ \/ Fails(uploads, FALSE) /\ UNCHANGED made
       \/ ~reliable /\ Fails(Created, FALSE) /\ made' = made + 1
    /\ UNCHANGED <<objects, reliable>>
-----------------------------------------------------------------------------
(* write_chunk() *)

StartPart(data) ==
    /\ pc' = "part"
    /\ pending' = data
    /\ partNumber' = partNumber + 1

\* publish() raises in another call and leaves the archiver as it is.
GiveUp ==
    /\ pc = "ready"
    /\ pc' = "idle"
    /\ UNCHANGED <<finishing, attempts, cycle, local, result, store>>

\* Variant: a full buffer is uploaded without the chunk that filled it.
WriteChunkLate ==
    /\ pc = "ready"
    /\ count < MaxChunks
    /\ \E size \in Sizes :
          LET c == [run |-> run, n |-> count + 1, size |-> size] IN
          IF SizeOf(buffer) + size >= MinPartSize
          THEN StartPart(buffer) /\ buffer' = <<c>>
          ELSE /\ buffer' = Append(buffer, c)
               /\ UNCHANGED <<pc, pending, partNumber>>
    /\ count' = count + 1
    /\ UNCHANGED <<finishing, attempts, run, second, keyOf, uploadId, parts,
                   finalized, result, store>>

\* The chunk is buffered; a buffer that reached the minimum is uploaded as a part.
WriteChunk ==
    /\ pc = "ready"
    /\ count < MaxChunks
    /\ \E size \in Sizes :
          LET data == Append(buffer, [run |-> run, n |-> count + 1, size |-> size]) IN
          IF SizeOf(data) >= MinPartSize
          THEN StartPart(data) /\ buffer' = <<>>
          ELSE /\ buffer' = data
               /\ UNCHANGED <<pc, pending, partNumber>>
    /\ count' = count + 1
    /\ UNCHANGED <<finishing, attempts, run, second, keyOf, uploadId, parts,
                   finalized, result, store>>

\* The store keeps the data of a part under its number, the last upload wins.
WithPart ==
    [uploads EXCEPT ![uploadId].parts =
        [i \in 1..(IF partNumber > Len(@) THEN partNumber ELSE Len(@)) |->
            IF i = partNumber THEN pending ELSE @[i]]]

PartDone ==
    /\ pc = "part"
    /\ Returns(IF finishing THEN "complete" ELSE "ready")
    /\ uploads' = WithPart
    /\ parts' = Append(parts, [number |-> partNumber, data |-> pending])
    /\ pending' = <<>>
    /\ UNCHANGED <<finishing, cycle, uploadId, partNumber, buffer, finalized,
                   result, made, objects, reliable>>

PartFails ==
    /\ pc = "part"
    /\ \/ Fails(uploads, TRUE)
       \/ ~reliable /\ Fails(WithPart, TRUE)
    /\ UNCHANGED <<made, objects, reliable>>
-----------------------------------------------------------------------------
(* finalize() *)

\* Variant: what is left in the buffer is not uploaded when there are parts.
FinalizeForgetsRest ==
    /\ pc = "ready"
    /\ finishing' = TRUE
    /\ buffer' = <<>>
    /\ \/ buffer # <<>> /\ parts = <<>> /\ StartPart(buffer) /\ UNCHANGED uploads
       \/ /\ buffer = <<>> /\ parts = <<>>
          /\ pc' = "put"
          /\ uploads' \in Aborted(uploads)
          /\ UNCHANGED <<pending, partNumber>>
       \/ /\ parts # <<>>
          /\ pc' = "complete"
          /\ UNCHANGED <<pending, partNumber, uploads>>
    /\ UNCHANGED <<attempts, cycle, uploadId, parts, finalized, result, made, objects, reliable>>

\* What is left becomes the last part. Without any part the upload is aborted
\* and an empty object is put.
Finalize ==
    /\ pc = "ready"
    /\ finishing' = TRUE
    /\ buffer' = <<>>
    /\ \/ buffer # <<>> /\ StartPart(buffer) /\ UNCHANGED uploads
       \/ /\ buffer = <<>> /\ parts = <<>>
          /\ pc' = "put"
          /\ uploads' \in Aborted(uploads)
          /\ UNCHANGED <<pending, partNumber>>
       \/ /\ buffer = <<>> /\ parts # <<>>
          /\ pc' = "complete"
          /\ UNCHANGED <<pending, partNumber, uploads>>
    /\ UNCHANGED <<attempts, cycle, uploadId, parts, finalized, result, made, objects, reliable>>

\* What the store assembles: the listed parts, in the order of the list.
Assembled ==
    FlattenSeq([i \in DOMAIN parts |-> uploads[uploadId].parts[parts[i].number]])

\* The store has the listed parts with these ETags, numbered in ascending order,
\* none but the last below the minimum: otherwise it refuses to complete.
Valid ==
    \A i \in DOMAIN parts :
        /\ parts[i].number \in DOMAIN uploads[uploadId].parts
        /\ parts[i].data = uploads[uploadId].parts[parts[i].number]
        /\ i < Len(parts) =>
              /\ parts[i].number < parts[i + 1].number
              /\ SizeOf(parts[i].data) >= MinPartSize

Completable == uploads[uploadId].key = key /\ Valid

Completed == [uploads EXCEPT ![uploadId] = NoUpload]

Finished ==
    /\ Returns("idle")
    /\ finalized' = TRUE
    /\ result' = "stored"
    /\ UNCHANGED <<finishing, cycle, uploadId, parts, partNumber, buffer, pending, made,
                   reliable>>

CompleteDone ==
    /\ pc = "complete"
    /\ Completable
    /\ objects' = [objects EXCEPT ![key] = Assembled]
    /\ uploads' = Completed
    /\ Finished

CompleteFails ==
    /\ pc = "complete"
    /\ \/ Fails(uploads, TRUE) /\ UNCHANGED objects
       \/ /\ ~reliable
          /\ Completable
          /\ Fails(Completed, TRUE)
          /\ objects' = [objects EXCEPT ![key] = Assembled]
    /\ UNCHANGED <<made, reliable>>

PutDone ==
    /\ pc = "put"
    /\ objects' = [objects EXCEPT ![key] = <<>>]
    /\ Finished
    /\ UNCHANGED uploads

PutFails ==
    /\ pc = "put"
    /\ Fails(uploads, FALSE)
    /\ \/ UNCHANGED objects
       \/ ~reliable /\ objects' = [objects EXCEPT ![key] = <<>>]
    /\ UNCHANGED <<made, reliable>>
-----------------------------------------------------------------------------
Attempt ==
    \/ CreateDone \/ CreateFails \/ PartDone \/ PartFails
    \/ CompleteDone \/ CompleteFails \/ PutDone \/ PutFails

Next == Open \/ WriteChunk \/ Finalize \/ GiveUp \/ Attempt

Spec == Init /\ [][Next]_vars
-----------------------------------------------------------------------------
(* Properties *)

phase ==
    IF pc \in {"idle", "create"} THEN "closed"
    ELSE IF pc = "ready" \/ (pc = "part" /\ ~finishing) THEN "open"
    ELSE "finalizing"

\* The chunks written: those in parts, in the part being sent, in the buffer.
Accepted ==
    IF phase = "closed" THEN <<>>
    ELSE FlattenSeq([i \in DOMAIN parts |-> parts[i].data]) \o pending \o buffer

Contract == INSTANCE Archive WITH
    Names <- Keys, Chunks <- Chunk, name <- key, written <- Accepted, stored <- objects

\* S3Archiver keeps the contract publish() relies on: whatever calls fail,
\* whichever answers are lost and however often parts are sent again, an object
\* appears only in finalize(), and holds exactly the chunks of its run in order.
ArchiveContract == Contract!Spec

\* finalize() never asks the store to complete an upload it must refuse: the
\* parts listed are there, contiguous, and none but the last is too small.
CompletionIsValid ==
    pc = "complete" /\ IsOpen(uploadId) => uploads[uploadId].key = key /\ Valid

OpenUploads == {u \in Uploads : IsOpen(u)}

\* A store that answers has at most the upload of the current run open, and none
\* once finalize() returned: abandoned uploads are aborted by the next open().
NoUploadLeft ==
    reliable => /\ OpenUploads \subseteq {uploadId}
                /\ finalized => OpenUploads = {}
=============================================================================
