---------------------------- MODULE LocalArchive ----------------------------
(***************************************************************************)
(* LocalArchiver over consecutive runs, with the directory it writes to.   *)
(*                                                                         *)
(* finalize() is one step per system call, because each may raise and      *)
(* because the process may die between any two: its archiver is then       *)
(* rebuilt with nothing but the directory left. A power failure also takes *)
(* data that was not synced, and any change of the directory since the     *)
(* last one: nothing syncs the directory. That it keeps what was synced,   *)
(* and takes a rename back as a whole or not at all, is assumed of the     *)
(* file system. A temporary file is named by the run that created it, a    *)
(* final one by the second of its time stamp.                              *)
(***************************************************************************)
EXTENDS Naturals, Sequences, SequencesExt

CONSTANTS
    MaxRuns,    \* bound: calls of open()
    MaxChunks,  \* bound: chunks of one run
    MaxSecond,  \* bound: the clock that file names are made of
    MaxCrashes  \* bound: crashes

ASSUME LocalAssumption ==
    /\ MaxRuns \in Nat \ {0}
    /\ MaxChunks \in Nat
    /\ MaxSecond \in Nat \ {0}
    /\ MaxCrashes \in Nat

Runs     == 1..MaxRuns
Names    == 1..MaxSecond
Chunk    == [run : Runs, n : 1..MaxChunks]
NoObject == <<[run |-> 0, n |-> 0]>>

\* data: what the file holds; synced: how much of it is on the disk.
File      == [data : Seq(Chunk), synced : 0..MaxChunks]
EmptyFile == [data |-> <<>>, synced |-> 0]

\* Where the directory has the file of a run: nowhere, under the run's temporary
\* name, or under its final name (where a later run may have replaced it).
Entries == {"none", "temp", "final"}

VARIABLES
    pc,         \* where finalize() is, or the caller
    run,        \* calls of open()
    count,      \* chunks written in each run
    second,     \* the clock
    nameOf,     \* self._final_path, as each run set it
    buffer,     \* data in the buffer of self._tmp_handle
    finalized,  \* self._finalized
    files,      \* the file of each run
    entry,      \* where the directory has it
    settled,    \* runs before the last power failure: what is left of them is on the disk
    reported,   \* the runs whose finalize() returned a location
    preserved,  \* the runs whose finalize() told that the temp file is preserved
    undone,     \* history: the runs whose entry a power failure took back
    crashes     \* crashes so far

clock     == <<run, second, nameOf>>
directory == <<entry, settled, undone>>
vars      == <<pc, clock, count, buffer, finalized, files, directory, reported, preserved,
               crashes>>

Stages == {"flush", "sync", "close", "permit", "replace", "permit_final"}

TypeOK ==
    /\ pc \in {"idle", "writing"} \cup Stages
    /\ run \in 0..MaxRuns
    /\ count \in [Runs -> 0..MaxChunks]
    /\ second \in Names
    /\ nameOf \in [Runs -> Names]
    /\ buffer \in Seq(Chunk)
    /\ finalized \in BOOLEAN
    /\ files \in [Runs -> File]
    /\ entry \in [Runs -> Entries]
    /\ settled \in 0..MaxRuns
    /\ reported \subseteq Runs
    /\ preserved \subseteq Runs
    /\ undone \subseteq Runs
    /\ crashes \in 0..MaxCrashes

Init ==
    /\ pc = "idle" /\ run = 0 /\ count = [r \in Runs |-> 0] /\ second = 1
    /\ nameOf = [r \in Runs |-> 1]
    /\ buffer = <<>> /\ finalized = FALSE
    /\ files = [r \in Runs |-> EmptyFile]
    /\ entry = [r \in Runs |-> "none"] /\ settled = 0
    /\ reported = {} /\ preserved = {} /\ undone = {} /\ crashes = 0

name == IF run = 0 THEN 1 ELSE nameOf[run]
-----------------------------------------------------------------------------
(* open() and write_chunk() *)

\* The name is settled first; creating the temporary file may raise.
Open ==
    /\ pc = "idle"
    /\ run < MaxRuns
    /\ run' = run + 1
    /\ second' \in second..MaxSecond
    /\ nameOf' = [nameOf EXCEPT ![run'] = second']
    /\ finalized' = FALSE
    /\ buffer' = <<>>
    /\ \/ /\ pc' = "writing"
          /\ entry' = [entry EXCEPT ![run'] = "temp"]
       \/ UNCHANGED <<pc, entry>>
    /\ UNCHANGED <<count, files, settled, undone, reported, preserved, crashes>>

\* The file of the run after the buffer was written out up to position k.
Spilled(data, k) == [files EXCEPT ![run].data = @ \o SubSeq(data, 1, k)]

\* The chunk goes to the buffer, which the runtime may write out.
WriteChunk ==
    /\ pc = "writing"
    /\ count[run] < MaxChunks
    /\ count' = [count EXCEPT ![run] = @ + 1]
    /\ LET data == Append(buffer, [run |-> run, n |-> count'[run]]) IN
       \E k \in {0, Len(data)} :
          /\ files' = Spilled(data, k)
          /\ buffer' = SubSeq(data, k + 1, Len(data))
    /\ UNCHANGED <<pc, clock, finalized, directory, reported, preserved, crashes>>

\* A call of publish() raises, one of these included: part of the buffer may have
\* been written out.
GiveUp ==
    /\ pc \in {"writing", "flush"}
    /\ pc' = "idle"
    /\ buffer' = <<>>
    /\ \E k \in 0..Len(buffer) : files' = Spilled(buffer, k)
    /\ UNCHANGED <<clock, count, finalized, directory, reported, preserved, crashes>>
-----------------------------------------------------------------------------
(* finalize() *)

At(stage, next) == pc = stage /\ pc' = next

others == <<clock, count, settled, undone, reported, preserved, crashes>>

Finalize ==
    /\ ~finalized
    /\ At("writing", "flush")
    /\ UNCHANGED <<others, buffer, finalized, files, entry>>

Flush ==
    /\ At("flush", "sync")
    /\ files' = Spilled(buffer, Len(buffer))
    /\ buffer' = <<>>
    /\ UNCHANGED <<others, finalized, entry>>

\* Variant: the data is left to the operating system.
SyncNothing ==
    /\ At("sync", "close")
    /\ UNCHANGED <<others, files, buffer, finalized, entry>>

Sync ==
    /\ At("sync", "close")
    /\ files' = [files EXCEPT ![run].synced = Len(files[run].data)]
    /\ UNCHANGED <<others, buffer, finalized, entry>>

Close ==
    /\ At("close", "permit")
    /\ UNCHANGED <<others, buffer, finalized, files, entry>>

Permit ==
    /\ At("permit", "replace")
    /\ UNCHANGED <<others, buffer, finalized, files, entry>>

\* os.replace: the file has its final name, and the directory is not synced.
Replace ==
    /\ At("replace", "permit_final")
    /\ entry' = [entry EXCEPT ![run] = "final"]
    /\ finalized' = TRUE
    /\ UNCHANGED <<others, buffer, files>>

\* Variant: the temporary file is removed when it cannot be promoted.
ReplaceFailsClean ==
    /\ At("replace", "idle")
    /\ preserved' = preserved \cup {run}
    /\ entry' = [entry EXCEPT ![run] = "none"]
    /\ UNCHANGED <<clock, count, buffer, finalized, files, settled, undone, reported, crashes>>

\* The temporary file is kept, and the error tells its path.
ReplaceFails ==
    /\ At("replace", "idle")
    /\ preserved' = preserved \cup {run}
    /\ UNCHANGED <<clock, count, buffer, finalized, files, directory, reported, crashes>>

PermitFinal ==
    /\ At("permit_final", "idle")
    /\ reported' = reported \cup {run}
    /\ UNCHANGED <<clock, count, buffer, finalized, files, directory, preserved, crashes>>

\* fsync, close or a chmod raises, the last one after the file was promoted.
StageFails ==
    /\ pc \in {"sync", "close", "permit", "permit_final"}
    /\ pc' = "idle"
    /\ UNCHANGED <<others, buffer, finalized, files, entry>>
-----------------------------------------------------------------------------
(* Crashes *)

\* The process dies, alone or with the machine; a new worker starts.
Dies ==
    /\ crashes < MaxCrashes
    /\ crashes' = crashes + 1
    /\ pc' = "idle"
    /\ buffer' = <<>>
    /\ finalized' = FALSE
    /\ UNCHANGED <<clock, count, reported, preserved>>

ProcessDies == Dies /\ UNCHANGED <<files, directory>>

\* What a power failure may leave of a file: the synced data and any more of it.
Remains(f) == {[data |-> SubSeq(f.data, 1, k), synced |-> k] : k \in f.synced..Len(f.data)}

\* Where it may leave the file of a run: as it is, promotion taken back, or its
\* creation too, unless an earlier power failure left it there.
Restored(r) ==
    IF r <= settled \/ entry[r] = "none" THEN {entry[r]}
    ELSE {"none", "temp", entry[r]}

PowerFails ==
    /\ Dies
    /\ files' \in {f \in [Runs -> UNION {Remains(files[r]) : r \in Runs}] :
                     \A r \in Runs : f[r] \in Remains(files[r])}
    /\ entry' \in {e \in [Runs -> Entries] : \A r \in Runs : e[r] \in Restored(r)}
    /\ settled' = run
    /\ undone' = undone \cup {r \in Runs : entry'[r] # entry[r]}
-----------------------------------------------------------------------------
Next ==
    \/ Open \/ WriteChunk \/ GiveUp
    \/ Finalize \/ Flush \/ Sync \/ Close \/ Permit
    \/ Replace \/ ReplaceFails \/ PermitFinal \/ StageFails
    \/ ProcessDies \/ PowerFails

Spec == Init /\ [][Next]_vars
-----------------------------------------------------------------------------
(* Properties *)

Whole(r, data) == data = [n \in 1..count[r] |-> [run |-> r, n |-> n]]

\* The final name n leads to the file of run r: none promoted later replaced it.
Holds(r, n) ==
    /\ entry[r] = "final"
    /\ nameOf[r] = n
    /\ \A s \in (r + 1)..run : ~(entry[s] = "final" /\ nameOf[s] = n)

Final(n) ==
    IF \E r \in Runs : Holds(r, n)
    THEN files[CHOOSE r \in Runs : Holds(r, n)].data
    ELSE NoObject

phase ==
    IF pc = "idle" THEN "closed" ELSE IF pc = "writing" THEN "open" ELSE "finalizing"

\* The chunks written: those in the file and in the buffer.
Accepted == IF pc = "idle" THEN <<>> ELSE files[run].data \o buffer

Contract == INSTANCE Archive WITH
    Chunks <- Chunk, written <- Accepted,
    stored <- [n \in Names |-> Final(n)],
    result <- IF run \in reported THEN "stored" ELSE "none"

\* What the contract does not have: a power failure ends what is under way, and a
\* name whose promotions it takes back has the object of another run, or none.
TakesBack ==
    /\ settled' = run /\ phase' = "closed" /\ Accepted' = <<>>
    /\ UNCHANGED <<clock, reported>>
    /\ \A n \in Names :
          \/ Final(n)' = Final(n)
          \/ /\ \E r \in undone' : nameOf[r] = n /\ r > settled
             /\ \/ Final(n)' = NoObject
                \/ \E r \in Runs : nameOf[r] = n /\ Whole(r, Final(n)')

\* LocalArchiver keeps the contract publish() relies on, through failures of any
\* system call and crashes: a final file appears only in finalize(), and holds
\* exactly the chunks of its run from then on. A power failure may take it away
\* again (see the README), but never a part of it.
ArchiveContract ==
    Contract!Init /\ [][Contract!Next \/ TakesBack]_(Contract!vars)

\* A location that finalize() returned holds the chunks of its run for good,
\* unless a later run has the same name or a power failure took the promotion
\* back; what that left of the file is whole.
ReportedSurvives ==
    \A r \in reported :
        /\ entry[r] # "none" => Whole(r, files[r].data)
        /\ r \notin undone /\ (\A s \in (r + 1)..run : nameOf[s] # nameOf[r]) =>
              Whole(r, Final(nameOf[r]))

\* "On replace failure the temp file is preserved": it holds every chunk of its
\* run, synced, and nothing takes it away but a power failure that undoes its
\* creation.
PreservedIsWhole ==
    \A r \in preserved :
        /\ r \notin undone => entry[r] = "temp"
        /\ entry[r] # "none" => Whole(r, files[r].data) /\ files[r].synced = Len(files[r].data)

\* What finalize() told its caller stays true through every later run and crash:
\* the location it returned, and the file its error said is kept. A power failure
\* may take a name away, never a part of the file.
WhatWasToldSurvives == ReportedSurvives /\ PreservedIsWhole
=============================================================================
