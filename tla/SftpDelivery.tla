---------------------------- MODULE SftpDelivery ----------------------------
(***************************************************************************)
(* SftpDeliveryClient over consecutive runs, with the server it writes to. *)
(*                                                                         *)
(* Writes are pipelined: an error of one surfaces in a later write or in   *)
(* close(), whose errors finalize() swallows. Only the connection is       *)
(* retried. Every operation on the session may fail, with or without       *)
(* having been carried out.                                                *)
(***************************************************************************)
EXTENDS Naturals, Sequences

CONSTANTS
    MaxRuns,          \* bound: calls of open()
    MaxChunks,        \* bound: chunks of one run
    MaxRetries        \* SftpTransportPolicy.max_retries

ASSUME SftpAssumption ==
    /\ MaxRuns \in Nat \ {0}
    /\ MaxChunks \in Nat
    /\ MaxRetries \in Nat

Runs   == 1..MaxRuns
Chunk  == [run : Runs, n : 1..MaxChunks]
NoFile == <<[run |-> 0, n |-> 0]>>

VARIABLES
    setup,      \* the client's configuration and the kind of server
    pc,         \* the operation that is being made, or where the caller is
    attempts,   \* execute_with_retry: retries of the connection
    run,        \* calls of open()
    count,      \* chunks sent in this run
    sftp,       \* self._sftp is not None
    tmpPath,    \* self._tmp_path: the run it was made for, 0 for None
    finalized,  \* self._finalized
    result,     \* how the last run ended for the caller
    temps,      \* the server: the temporary file of each run
    target      \* the server: the file at remote_path

client == <<sftp, tmpPath, finalized>>
server == <<temps, target>>
vars   == <<setup, pc, attempts, run, count, client, result, server>>

\* atomicWrite: SftpClientIaC.atomic_write; storesAll: the server stores every chunk
\* it is sent; reliable: it carries out every other operation on an open session;
\* overwrites: it renames onto an existing file.
Setups == [{"atomicWrite", "storesAll", "reliable", "overwrites"} -> BOOLEAN]

TypeOK ==
    /\ setup \in Setups
    /\ pc \in {"idle", "connect", "create", "sending", "close", "rename"}
    /\ attempts \in 0..MaxRetries
    /\ run \in 0..MaxRuns
    /\ count \in 0..MaxChunks
    /\ sftp \in BOOLEAN
    /\ tmpPath \in 0..MaxRuns
    /\ finalized \in BOOLEAN
    /\ result \in {"none", "failed", "stored"}
    /\ temps \in [Runs -> Seq(Chunk) \cup {NoFile}]
    /\ target \in Seq(Chunk) \cup {NoFile}

Init ==
    /\ setup \in Setups
    /\ pc = "idle" /\ attempts = 0 /\ run = 0 /\ count = 0
    /\ sftp = FALSE /\ tmpPath = 0 /\ finalized = FALSE
    /\ result = "none"
    /\ temps = [r \in Runs |-> NoFile]
    /\ target = NoFile
-----------------------------------------------------------------------------
(* _close_connection *)

\* The temporary files after one attempt to remove the one of _tmp_path.
Cleaned ==
    LET gone == IF tmpPath = 0 \/ ~sftp THEN temps
                ELSE [temps EXCEPT ![tmpPath] = NoFile]
    IN {gone} \cup (IF setup.reliable THEN {} ELSE {temps})

\* Everything is closed whatever fails. _tmp_path is kept without a session.
Disconnect ==
    /\ temps' \in Cleaned
    /\ tmpPath' = IF sftp THEN 0 ELSE tmpPath
    /\ sftp' = FALSE

\* The call raises: publish() leaves the client as it is.
Fails ==
    /\ pc' = "idle"
    /\ result' = "failed"
-----------------------------------------------------------------------------
(* open() *)

\* Variant: an abandoned connection is forgotten.
OpenForgets ==
    /\ pc = "idle"
    /\ run < MaxRuns
    /\ sftp' = FALSE
    /\ finalized' = FALSE
    /\ pc' = "connect"
    /\ attempts' = 0
    /\ run' = run + 1
    /\ count' = 0
    /\ result' = "none"
    /\ UNCHANGED <<setup, tmpPath, server>>

Open ==
    /\ pc = "idle"
    /\ run < MaxRuns
    /\ IF sftp /\ ~finalized THEN Disconnect ELSE UNCHANGED <<sftp, tmpPath, temps>>
    /\ finalized' = FALSE
    /\ pc' = "connect"
    /\ attempts' = 0
    /\ run' = run + 1
    /\ count' = 0
    /\ result' = "none"
    /\ UNCHANGED <<setup, target>>

\* _tmp_path is set before the file is opened.
Connect ==
    /\ pc = "connect"
    /\ pc' = "create"
    /\ sftp' = TRUE
    /\ tmpPath' = IF setup.atomicWrite THEN run ELSE 0
    /\ UNCHANGED <<setup, attempts, run, count, finalized, result, server>>

Retry == attempts < MaxRetries /\ attempts' = attempts + 1

\* The connection fails: it is tried again if the error is retryable and the budget
\* lasts, or open() raises.
ConnectFails ==
    /\ pc = "connect"
    /\ \/ Retry /\ UNCHANGED <<pc, result>>
       \/ Fails /\ UNCHANGED attempts
    /\ UNCHANGED <<setup, run, count, client, server>>

\* Variant: the file is opened for appending.
Appended ==
    IF setup.atomicWrite
    THEN temps' = [temps EXCEPT ![run] = <<>>] /\ UNCHANGED target
    ELSE /\ target' = IF target = NoFile THEN <<>> ELSE target
         /\ UNCHANGED temps

\* The file at open_path becomes, or is created, empty.
Truncated ==
    IF setup.atomicWrite
    THEN temps' = [temps EXCEPT ![run] = <<>>] /\ UNCHANGED target
    ELSE target' = <<>> /\ UNCHANGED temps

Create ==
    /\ pc = "create"
    /\ pc' = "sending"
    /\ Truncated
    /\ UNCHANGED <<setup, attempts, run, count, client, result>>

CreateFails ==
    /\ pc = "create"
    /\ UNCHANGED server \/ (~setup.reliable /\ Truncated)
    /\ Fails
    /\ UNCHANGED <<setup, attempts, run, count, client>>
-----------------------------------------------------------------------------
(* send_chunk() and finalize() *)

\* A chunk is stored at the end of the file, or it is not and nobody knows yet.
SendChunk ==
    /\ pc = "sending"
    /\ ~finalized
    /\ count < MaxChunks
    /\ count' = count + 1
    /\ LET c == [run |-> run, n |-> count'] IN
       \/ /\ setup.atomicWrite
          /\ temps' = [temps EXCEPT ![run] = Append(@, c)]
          /\ UNCHANGED target
       \/ /\ ~setup.atomicWrite
          /\ target' = Append(target, c)
          /\ UNCHANGED temps
       \/ ~setup.storesAll /\ UNCHANGED server
    /\ UNCHANGED <<setup, pc, attempts, run, client, result>>

\* A write raises, or another call of publish() does.
GiveUp ==
    /\ pc = "sending"
    /\ Fails
    /\ UNCHANGED <<setup, attempts, run, count, client, server>>

Finalize ==
    /\ pc = "sending"
    /\ ~finalized
    /\ pc' = "close"
    /\ UNCHANGED <<setup, attempts, run, count, client, result, server>>

Delivered ==
    /\ pc' = "idle"
    /\ finalized' = TRUE
    /\ result' = "stored"

\* close() is done, whatever it raised; without a temporary file so is finalize().
CloseFile ==
    /\ pc = "close"
    /\ IF tmpPath # 0
       THEN pc' = "rename" /\ UNCHANGED <<client, result, temps>>
       ELSE Delivered /\ Disconnect
    /\ UNCHANGED <<setup, attempts, run, count, target>>

Renamable == temps[tmpPath] # NoFile /\ (target = NoFile \/ setup.overwrites)

\* Variant: the file is renamed before its last chunk is in it.
RenameEarly ==
    /\ pc = "rename"
    /\ Renamable
    /\ target' = SubSeq(temps[tmpPath], 1, Len(temps[tmpPath]) - 1)
    /\ temps' = [temps EXCEPT ![tmpPath] = NoFile]
    /\ tmpPath' = 0
    /\ sftp' = FALSE
    /\ Delivered
    /\ UNCHANGED <<setup, attempts, run, count>>

Rename ==
    /\ pc = "rename"
    /\ Renamable
    /\ target' = temps[tmpPath]
    /\ temps' = [temps EXCEPT ![tmpPath] = NoFile]
    /\ tmpPath' = 0
    /\ sftp' = FALSE
    /\ Delivered
    /\ UNCHANGED <<setup, attempts, run, count>>

\* The temporary file is removed, best-effort, and finalize() raises.
RenameFails ==
    /\ pc = "rename"
    /\ \/ /\ ~Renamable \/ ~setup.reliable
          /\ temps' \in Cleaned
          /\ UNCHANGED target
       \/ /\ ~setup.reliable
          /\ Renamable
          /\ target' = temps[tmpPath]
          /\ temps' = [temps EXCEPT ![tmpPath] = NoFile]
    /\ Fails
    /\ tmpPath' = 0
    /\ sftp' = FALSE
    /\ UNCHANGED <<setup, attempts, run, count, finalized>>
-----------------------------------------------------------------------------
Operation ==
    \/ Connect \/ ConnectFails \/ Create \/ CreateFails
    \/ CloseFile \/ Rename \/ RenameFails

Next == Open \/ SendChunk \/ GiveUp \/ Finalize \/ Operation

Spec == Init /\ [][Next]_vars
-----------------------------------------------------------------------------
(* Properties *)

phase ==
    IF pc \in {"idle", "connect", "create"} THEN "closed"
    ELSE IF pc = "sending" THEN "open" ELSE "finalizing"

Sent == [n \in 1..count |-> [run |-> run, n |-> n]]

Contract == INSTANCE Archive WITH
    Names <- {1}, Chunks <- Chunk, NoObject <- NoFile, name <- 1,
    written <- IF phase = "closed" THEN <<>> ELSE Sent,
    stored <- [n \in {1} |-> target],
    result <- IF result = "stored" THEN "stored" ELSE "none"

Atomic == setup.atomicWrite /\ setup.storesAll

\* With atomic_write, and as long as the server stores what it is sent, the file
\* at remote_path changes only in finalize(), in one step, to the chunks of the
\* run, whatever else fails: the contract archivers keep.
DeliveryContract ==
    /\ Atomic => Contract!Init
    /\ [][Atomic => [Contract!Next]_(Contract!vars)]_vars

\* While a server carries out what it is asked, no temporary file of an earlier
\* run is left once a new run is opened, however the earlier runs ended.
OldTempsAreGone ==
    setup.reliable /\ pc # "idle" => \A r \in 1..(run - 1) : temps[r] = NoFile

\* Without atomic_write the file at remote_path is cut short while a run writes to
\* it, but it never holds chunks of two runs, nor any out of order.
TargetIsOneRun ==
    target # NoFile => \A i, j \in DOMAIN target :
        target[i].run = target[j].run /\ (i < j => target[i].n < target[j].n)
=============================================================================
