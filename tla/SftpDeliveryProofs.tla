-------------------------- MODULE SftpDeliveryProofs --------------------------
(***************************************************************************)
(* Proofs about SftpDelivery, for every number of runs, chunks and retries *)
(* and every kind of server: that temporary files of earlier runs are      *)
(* removed, that the file at remote_path holds chunks of one run only, and *)
(* that with atomic_write the client implements the contract of Archive.   *)
(***************************************************************************)
EXTENDS SftpDelivery, TLAPS, SequenceTheorems

-----------------------------------------------------------------------------
(* The inductive invariant *)

\* The connection, the path of the temporary file and the place in the calls.
SessionInv ==
    /\ pc # "idle" => run \in Runs /\ result = "none"
    /\ pc \in {"create", "sending", "close", "rename"} => sftp
    /\ pc = "connect" => ~sftp /\ ~finalized
    /\ pc \in {"connect", "create"} => count = 0
    /\ pc = "rename" => setup.atomicWrite
    /\ sftp => run \in Runs /\ ~finalized /\ tmpPath = (IF setup.atomicWrite THEN run ELSE 0)
    /\ ~sftp => tmpPath = 0

\* On a reliable server the only temporary file is the one of the open session.
TempsInv ==
    setup.reliable =>
        \A r \in Runs : temps[r] # NoFile => r = run /\ sftp /\ setup.atomicWrite

\* Chunks of one run, in order.
Ordered(data) ==
    \A i, j \in DOMAIN data : data[i].run = data[j].run /\ (i < j => data[i].n < data[j].n)

\* Chunks this run has sent.
OfRun(data) == \A i \in DOMAIN data : data[i].run = run /\ data[i].n <= count

\* The file that is being written.
Written == IF setup.atomicWrite THEN temps[run] ELSE target

FileInv ==
    pc \in {"sending", "close", "rename"} =>
        /\ Written \in Seq(Chunk) /\ Ordered(Written) /\ OfRun(Written)
        /\ Atomic => Written = Sent

SftpInv ==
    /\ TypeOK
    /\ SessionInv
    /\ TempsInv
    /\ FileInv
    /\ TargetIsOneRun

-----------------------------------------------------------------------------
(* Lemmas about files and about the session. *)

LEMMA NoFileIsNoSequence == NoFile \notin Seq(Chunk)
<1> SUFFICES ASSUME NoFile \in Seq(Chunk) PROVE FALSE
  OBVIOUS
<1>1. NoFile[1] \in Chunk
  BY DEF NoFile
<1> QED BY <1>1, SftpAssumption DEF NoFile, Chunk, Runs

\* A chunk after those sent so far keeps the file in order.
LEMMA AppendChunk ==
    ASSUME run \in Runs, count \in Nat, count + 1 \in 1..MaxChunks,
           NEW data \in Seq(Chunk), Ordered(data), OfRun(data)
    PROVE  LET c == [run |-> run, n |-> count + 1] IN
           /\ c \in Chunk
           /\ Append(data, c) \in Seq(Chunk)
           /\ Ordered(Append(data, c))
           /\ \A i \in DOMAIN Append(data, c) :
                 Append(data, c)[i].run = run /\ Append(data, c)[i].n <= count + 1
<1> DEFINE c == [run |-> run, n |-> count + 1]
           new == Append(data, c)
<1>1. c \in Chunk /\ c.run = run /\ c.n = count + 1
  BY DEF Chunk
<1> HIDE DEF c
<1>2. /\ new \in Seq(Chunk)
      /\ Len(data) \in Nat /\ DOMAIN data = 1..Len(data)
      /\ DOMAIN new = 1..(Len(data) + 1)
      /\ new[Len(data) + 1] = c
      /\ \A i \in 1..Len(data) : new[i] = data[i] /\ data[i] \in Chunk
  BY <1>1, AppendProperties
<1> HIDE DEF new
<1>3. \A i \in 1..Len(data) : data[i].run = run /\ data[i].n <= count /\ data[i].n \in Nat
  BY <1>2 DEF OfRun, Chunk
<1>4. \A i \in 1..(Len(data) + 1) : new[i].run = run /\ new[i].n <= count + 1
  <2> TAKE i \in 1..(Len(data) + 1)
  <2>1. CASE i = Len(data) + 1
    BY <1>1, <1>2, <2>1
  <2>2. CASE i \in 1..Len(data)
    BY <1>2, <1>3, <2>2
  <2> QED BY <1>2, <2>1, <2>2
<1>5. \A i, j \in 1..(Len(data) + 1) : i < j => new[i].n < new[j].n
  <2> SUFFICES ASSUME NEW i \in 1..(Len(data) + 1), NEW j \in 1..(Len(data) + 1), i < j
               PROVE  new[i].n < new[j].n
    OBVIOUS
  <2>1. i \in 1..Len(data) /\ new[i] = data[i]
    BY <1>2
  <2>2. CASE j = Len(data) + 1
    BY <1>1, <1>2, <1>3, <2>1, <2>2
  <2>3. CASE j \in 1..Len(data)
    BY <1>2, <2>1, <2>3 DEF Ordered
  <2> QED BY <1>2, <2>2, <2>3
<1>6. Ordered(new)
  BY <1>2, <1>4, <1>5 DEF Ordered
<1> QED BY <1>1, <1>2, <1>4, <1>6 DEF new, c

\* The list of the chunks sent, and one more.
LEMMA SentGrows ==
    ASSUME count \in Nat, count' = count + 1, run' = run
    PROVE  Sent' = Append(Sent, [run |-> run, n |-> count + 1])
<1> DEFINE c == [run |-> run, n |-> count + 1]
<1>1. Sent' = [n \in 1..(count + 1) |-> [run |-> run, n |-> n]]
  BY DEF Sent
<1>2. Len(Sent) = count /\ \A n \in 1..count : Sent[n] = [run |-> run, n |-> n]
  BY DEF Sent
<1>3. Append(Sent, c) = [n \in 1..(count + 1) |-> IF n = count + 1 THEN c ELSE Sent[n]]
  BY <1>2
<1>4. \A n \in 1..(count + 1) : (IF n = count + 1 THEN c ELSE Sent[n]) = [run |-> run, n |-> n]
  BY <1>2
<1> QED BY <1>1, <1>3, <1>4

LEMMA NothingSent == count = 0 => Sent = <<>>
BY DEF Sent

\* The temporary files after _close_connection.
LEMMA CleanedTemps ==
    ASSUME TypeOK, SessionInv, NEW files \in Cleaned
    PROVE  /\ files \in [Runs -> Seq(Chunk) \cup {NoFile}]
           /\ \A r \in Runs : files[r] = temps[r] \/ files[r] = NoFile
           /\ setup.reliable /\ sftp /\ setup.atomicWrite => files[run] = NoFile
<1>1. files = temps \/ (tmpPath # 0 /\ sftp /\ files = [temps EXCEPT ![tmpPath] = NoFile])
  BY DEF Cleaned
<1>2. tmpPath # 0 /\ sftp => tmpPath = run /\ run \in Runs
  BY DEF SessionInv
<1>3. setup.reliable /\ sftp /\ setup.atomicWrite => files = [temps EXCEPT ![run] = NoFile]
  <2>1. sftp /\ setup.atomicWrite => tmpPath = run /\ run # 0
    BY SftpAssumption DEF SessionInv, Runs
  <2> QED BY <2>1 DEF Cleaned
<1> QED BY <1>1, <1>2, <1>3 DEF TypeOK, SessionInv

-----------------------------------------------------------------------------
(* Invariance *)

LEMMA SftpInit == Init => SftpInv
<1> SUFFICES ASSUME Init PROVE SftpInv
  OBVIOUS
<1>1. sftp \in BOOLEAN /\ finalized \in BOOLEAN
  BY Zenon DEF Init
<1>2. TypeOK
  BY <1>1, SftpAssumption DEF Init, TypeOK
<1>3. ~sftp /\ tmpPath = 0 /\ pc = "idle" /\ (\A r \in Runs : temps[r] = NoFile) /\ target = NoFile
  BY DEF Init
<1> QED BY <1>2, <1>3 DEF SftpInv, SessionInv, TempsInv, FileInv, TargetIsOneRun

\* open(): the session an abandoned run left, and the file it was writing, go.
LEMMA OpenStep ==
    ASSUME SftpInv, Open
    PROVE  SftpInv'
<1> USE DEF SftpInv
<1>1. /\ pc = "idle" /\ pc' = "connect" /\ run' = run + 1 /\ count' = 0 /\ attempts' = 0
      /\ result' = "none" /\ setup' = setup /\ target' = target /\ run < MaxRuns
  BY DEF Open
<1>2. run \in 0..MaxRuns /\ run' \in 0..MaxRuns /\ run' \in Runs
  BY <1>1, SftpAssumption DEF TypeOK, Runs
<1>3. ~finalized'
  BY DEF Open
<1>4. CASE sftp /\ ~finalized
  <2>1. temps' \in Cleaned /\ tmpPath' = 0 /\ ~sftp'
    BY <1>4 DEF Open, Disconnect
  <2>2. /\ temps' \in [Runs -> Seq(Chunk) \cup {NoFile}]
        /\ \A r \in Runs : temps'[r] = temps[r] \/ temps'[r] = NoFile
        /\ setup.reliable /\ setup.atomicWrite => temps'[run] = NoFile
    BY <1>4, <2>1, CleanedTemps
  <2>3. TypeOK'
    <3>1. sftp' \in BOOLEAN /\ finalized' \in BOOLEAN
      BY <1>3, <2>1, <1>4, Zenon DEF Open, Disconnect
    <3> QED BY <1>1, <1>2, <2>1, <2>2, <3>1, SftpAssumption DEF TypeOK
  <2>4. TempsInv'
    BY <1>1, <2>1, <2>2 DEF TempsInv
  <2> QED BY <1>1, <1>2, <1>3, <2>1, <2>3, <2>4 DEF SessionInv, FileInv, TargetIsOneRun
<1>5. CASE ~(sftp /\ ~finalized)
  <2>1. UNCHANGED <<sftp, tmpPath, temps>> /\ ~sftp
    BY <1>5 DEF Open, SessionInv
  <2>2. TypeOK'
    <3>1. sftp' \in BOOLEAN /\ finalized' \in BOOLEAN
      BY <1>3, <2>1, Zenon DEF Open, TypeOK
    <3> QED BY <1>1, <1>2, <2>1, <3>1, SftpAssumption DEF TypeOK
  <2> QED
    BY <1>1, <1>2, <1>3, <2>1, <2>2 DEF SessionInv, TempsInv, FileInv, TargetIsOneRun
<1> QED BY <1>4, <1>5

\* The rest of open(): the connection and the file.
LEMMA ConnectSteps ==
    ASSUME SftpInv, Connect \/ ConnectFails \/ Create \/ CreateFails
    PROVE  SftpInv'
<1> USE DEF SftpInv
<1>1. CASE Connect
  <2>1. TypeOK'
    <3>1. sftp' \in BOOLEAN
      BY <1>1, Zenon DEF Connect
    <3> QED BY <1>1, <3>1, SftpAssumption DEF Connect, TypeOK, server, SessionInv, Runs
  <2>2. SessionInv'
    <3>1. pc = "connect" /\ run \in Runs /\ ~sftp /\ count = 0 /\ sftp' /\ result = "none"
      BY <1>1 DEF Connect, SessionInv
    <3>2. ~finalized
      BY <1>1, <3>1 DEF Connect, SessionInv
    <3> QED BY <1>1, <3>1, <3>2 DEF Connect, SessionInv
  <2>3. TempsInv'
    BY <1>1 DEF Connect, TempsInv, SessionInv, server
  <2> QED BY <1>1, <2>1, <2>2, <2>3 DEF Connect, FileInv, TargetIsOneRun, server
<1>2. CASE ConnectFails
  <2>1. TypeOK'
    BY <1>2, SftpAssumption DEF ConnectFails, Retry, Fails, TypeOK, client, server
  <2> QED
    BY <1>2, <2>1
       DEF ConnectFails, Retry, Fails, SessionInv, TempsInv, FileInv, TargetIsOneRun, client, server
<1>3. ASSUME Truncated, pc = "create", UNCHANGED <<setup, run, count, sftp>>
      PROVE  /\ temps' \in [Runs -> Seq(Chunk) \cup {NoFile}]
             /\ target' \in Seq(Chunk) \cup {NoFile}
             /\ \A r \in Runs : temps'[r] = temps[r] \/ (r = run /\ setup.atomicWrite)
             /\ (IF setup.atomicWrite THEN temps'[run] ELSE target') = <<>>
             /\ TargetIsOneRun'
  <2>1. run \in Runs /\ <<>> \in Seq(Chunk)
    BY <1>3 DEF SessionInv
  <2>2. CASE setup.atomicWrite
    BY <1>3, <2>1, <2>2 DEF Truncated, TypeOK, TargetIsOneRun
  <2>3. CASE ~setup.atomicWrite
    BY <1>3, <2>1, <2>3 DEF Truncated, TypeOK, TargetIsOneRun
  <2> QED BY <2>2, <2>3
<1>4. CASE Create
  <2>1. /\ Truncated /\ pc = "create" /\ pc' = "sending" /\ sftp /\ run \in Runs /\ count = 0
        /\ UNCHANGED <<setup, attempts, run, count, sftp, tmpPath, finalized, result>>
    BY <1>4 DEF Create, SessionInv, client
  <2>2. TypeOK'
    BY <1>3, <2>1 DEF TypeOK
  <2>3. SessionInv' /\ TempsInv'
    BY <1>3, <2>1 DEF SessionInv, TempsInv
  <2>4. FileInv'
    <3>1. Written' = <<>>
      BY <1>3, <2>1 DEF Written
    <3>2. Sent' = <<>>
      BY <2>1, NothingSent DEF Sent
    <3> QED BY <3>1, <3>2 DEF FileInv, Ordered, OfRun
  <2> QED BY <1>3, <2>1, <2>2, <2>3, <2>4
<1>5. CASE CreateFails
  <2>1. /\ pc = "create" /\ pc' = "idle" /\ result' = "failed" /\ sftp
        /\ UNCHANGED <<setup, attempts, run, count, sftp, tmpPath, finalized>>
    BY <1>5 DEF CreateFails, Fails, SessionInv, client
  <2>2. CASE UNCHANGED server
    BY <2>1, <2>2 DEF server, TypeOK, SessionInv, TempsInv, FileInv, TargetIsOneRun
  <2>3. CASE ~setup.reliable /\ Truncated
    BY <1>3, <2>1, <2>3 DEF TypeOK, SessionInv, TempsInv, FileInv
  <2> QED BY <1>5, <2>2, <2>3 DEF CreateFails
<1> QED BY <1>1, <1>2, <1>4, <1>5

\* send_chunk(), and a call of publish() that raises.
LEMMA SendingSteps ==
    ASSUME SftpInv, SendChunk \/ GiveUp \/ Finalize
    PROVE  SftpInv'
<1> USE DEF SftpInv
<1>1. CASE GiveUp \/ Finalize
  <2>1. /\ pc = "sending" /\ UNCHANGED <<setup, attempts, run, count, client, server>>
        /\ \/ pc' = "idle" /\ result' = "failed"
           \/ pc' = "close" /\ result' = result
    BY <1>1 DEF GiveUp, Finalize, Fails
  <2>2. TypeOK' /\ SessionInv'
    BY <2>1 DEF TypeOK, SessionInv, client, server
  <2>3. FileInv'
    BY <2>1 DEF FileInv, Written, Ordered, OfRun, Atomic, Sent, server
  <2> QED BY <2>1, <2>2, <2>3 DEF TempsInv, TargetIsOneRun, client, server
<1>2. CASE SendChunk
  <2> DEFINE c == [run |-> run, n |-> count + 1]
  <2>1. /\ pc = "sending" /\ sftp /\ run \in Runs /\ count' = count + 1
        /\ count \in Nat /\ count + 1 \in 1..MaxChunks
        /\ UNCHANGED <<setup, pc, attempts, run, sftp, tmpPath, finalized, result>>
    BY <1>2, SftpAssumption DEF SendChunk, SessionInv, TypeOK, client
  <2>2. Written \in Seq(Chunk) /\ Ordered(Written) /\ OfRun(Written) /\ (Atomic => Written = Sent)
    BY <2>1 DEF FileInv
  <2>3. /\ Append(Written, c) \in Seq(Chunk)
        /\ Ordered(Append(Written, c))
        /\ \A i \in DOMAIN Append(Written, c) :
              Append(Written, c)[i].run = run /\ Append(Written, c)[i].n <= count + 1
    BY <2>1, <2>2, AppendChunk
  <2>4. Sent' = Append(Sent, c)
    BY <2>1, SentGrows
  <2>5. \/ /\ setup.atomicWrite /\ temps' = [temps EXCEPT ![run] = Append(Written, c)]
           /\ target' = target
        \/ /\ ~setup.atomicWrite /\ target' = Append(Written, c) /\ temps' = temps
        \/ ~setup.storesAll /\ temps' = temps /\ target' = target
    BY <1>2, <2>1 DEF SendChunk, server, Written, TypeOK
  <2> HIDE DEF c
  <2>6. \/ Written' = Append(Written, c)
        \/ ~setup.storesAll /\ Written' = Written
    BY <2>1, <2>5 DEF Written, TypeOK
  <2>7. TypeOK'
    <3>1. /\ temps' \in [Runs -> Seq(Chunk) \cup {NoFile}]
          /\ target' \in Seq(Chunk) \cup {NoFile}
      BY <2>3, <2>5 DEF TypeOK
    <3>2. count' \in 0..MaxChunks
      BY <2>1, SftpAssumption
    <3> QED BY <2>1, <3>1, <3>2 DEF TypeOK
  <2>8. SessionInv' /\ TempsInv'
    BY <2>1, <2>5 DEF SessionInv, TempsInv, TypeOK
  <2>9. FileInv'
    <3>1. Written' \in Seq(Chunk) /\ Ordered(Written') /\ (Atomic' => Written' = Sent')
      BY <2>1, <2>2, <2>3, <2>4, <2>6 DEF Atomic
    <3>2. \A i \in DOMAIN Written : Written[i].run = run /\ Written[i].n <= count + 1
      <4>1. ASSUME NEW data \in Seq(Chunk), NEW i \in DOMAIN data
            PROVE  data[i].n \in Nat
        <5>1. data[i] \in Chunk
          OBVIOUS
        <5> QED BY <5>1 DEF Chunk
      <4> QED BY <2>1, <2>2, <4>1 DEF OfRun
    <3>3. \A i \in DOMAIN Written' : Written'[i].run = run' /\ Written'[i].n <= count'
      BY <2>1, <2>3, <2>6, <3>2
    <3> QED BY <3>1, <3>3 DEF FileInv, OfRun, Ordered
  <2>10. TargetIsOneRun'
    BY <2>3, <2>5 DEF TargetIsOneRun, Ordered
  <2> QED BY <2>7, <2>8, <2>9, <2>10
<1> QED BY <1>1, <1>2

\* finalize(): the file is closed, and renamed with atomic_write.
LEMMA FinalizeSteps ==
    ASSUME SftpInv, CloseFile \/ Rename \/ RenameFails
    PROVE  SftpInv'
<1> USE DEF SftpInv
<1>1. CASE CloseFile
  <2>1. /\ pc = "close" /\ sftp /\ run \in Runs
        /\ UNCHANGED <<setup, attempts, run, count, target>>
    BY <1>1 DEF CloseFile, SessionInv
  <2>2. CASE tmpPath # 0
    <3>1. pc' = "rename" /\ UNCHANGED <<sftp, tmpPath, finalized, result, temps>>
      BY <1>1, <2>2 DEF CloseFile, client
    <3>2. TypeOK' /\ SessionInv' /\ TempsInv' /\ TargetIsOneRun'
      BY <2>1, <2>2, <3>1 DEF TypeOK, SessionInv, TempsInv, TargetIsOneRun
    <3>3. FileInv'
      BY <2>1, <3>1 DEF FileInv, Written, Ordered, OfRun, Atomic, Sent
    <3> QED BY <3>2, <3>3
  <2>3. CASE tmpPath = 0
    <3>1. pc' = "idle" /\ result' = "stored" /\ temps' = temps /\ tmpPath' = 0
      BY <1>1, <2>3 DEF CloseFile, Delivered, Disconnect, Cleaned
    <3>2. ~sftp' /\ sftp' \in BOOLEAN /\ finalized' \in BOOLEAN
      BY <1>1, <2>3, Zenon DEF CloseFile, Delivered, Disconnect
    <3>3. ~setup.atomicWrite
      BY <2>1, <2>3, SftpAssumption DEF SessionInv, Runs
    <3>4. TypeOK' /\ SessionInv' /\ TempsInv' /\ TargetIsOneRun'
      BY <2>1, <3>1, <3>2, <3>3 DEF TypeOK, SessionInv, TempsInv, TargetIsOneRun
    <3> QED BY <3>1, <3>4 DEF FileInv
  <2> QED BY <2>2, <2>3
<1>2. ASSUME pc = "rename", target' = temps[tmpPath], temps' = [temps EXCEPT ![tmpPath] = NoFile]
      PROVE  /\ tmpPath = run /\ run \in Runs
             /\ temps' \in [Runs -> Seq(Chunk) \cup {NoFile}]
             /\ target' \in Seq(Chunk) \cup {NoFile}
             /\ \A r \in Runs : temps'[r] = NoFile \/ (r # run /\ temps'[r] = temps[r])
             /\ TargetIsOneRun'
  <2>1. tmpPath = run /\ run \in Runs
    BY <1>2 DEF SessionInv
  <2>2. target' = Written
    BY <1>2, <2>1 DEF Written, SessionInv
  <2> QED BY <1>2, <2>1, <2>2 DEF TypeOK, FileInv, TargetIsOneRun, Ordered
<1>3. CASE Rename
  <2>1. /\ pc = "rename" /\ target' = temps[tmpPath] /\ temps' = [temps EXCEPT ![tmpPath] = NoFile]
        /\ pc' = "idle" /\ result' = "stored" /\ tmpPath' = 0
        /\ UNCHANGED <<setup, attempts, run, count>>
    BY <1>3 DEF Rename, Delivered
  <2>2. ~sftp' /\ sftp' \in BOOLEAN /\ finalized' \in BOOLEAN
    BY <1>3, Zenon DEF Rename, Delivered
  <2>3. TypeOK' /\ SessionInv' /\ TempsInv'
    <3>1. TypeOK'
      BY <1>2, <2>1, <2>2, SftpAssumption DEF TypeOK
    <3>2. SessionInv' /\ TempsInv'
      BY <1>2, <2>1, <2>2 DEF SessionInv, TempsInv
    <3> QED BY <3>1, <3>2
  <2> QED BY <1>2, <2>1, <2>3 DEF FileInv
<1>4. CASE RenameFails
  <2>1. /\ pc = "rename" /\ pc' = "idle" /\ result' = "failed" /\ tmpPath' = 0
        /\ sftp /\ setup.atomicWrite
        /\ UNCHANGED <<setup, attempts, run, count, finalized>>
    BY <1>4 DEF RenameFails, Fails, SessionInv
  <2>2. ~sftp' /\ sftp' \in BOOLEAN
    BY <1>4, Zenon DEF RenameFails
  <2>3. CASE temps' \in Cleaned /\ target' = target
    <3>1. /\ temps' \in [Runs -> Seq(Chunk) \cup {NoFile}]
          /\ \A r \in Runs : temps'[r] = temps[r] \/ temps'[r] = NoFile
          /\ setup.reliable => temps'[run] = NoFile
      BY <2>1, <2>3, CleanedTemps
    <3>2. TypeOK' /\ SessionInv' /\ TempsInv'
      <4>1. TypeOK'
        BY <2>1, <2>2, <2>3, <3>1, SftpAssumption DEF TypeOK
      <4>2. SessionInv' /\ TempsInv'
        BY <2>1, <2>2, <2>3, <3>1 DEF SessionInv, TempsInv
      <4> QED BY <4>1, <4>2
    <3> QED BY <2>1, <2>3, <3>2 DEF FileInv, TargetIsOneRun
  <2>4. CASE target' = temps[tmpPath] /\ temps' = [temps EXCEPT ![tmpPath] = NoFile]
    <3>1. TypeOK' /\ SessionInv' /\ TempsInv'
      <4>1. TypeOK'
        BY <1>2, <2>1, <2>2, <2>4, SftpAssumption DEF TypeOK
      <4>2. SessionInv' /\ TempsInv'
        BY <1>2, <2>1, <2>2, <2>4 DEF SessionInv, TempsInv
      <4> QED BY <4>1, <4>2
    <3> QED BY <1>2, <2>1, <2>4, <3>1 DEF FileInv
  <2> QED BY <1>4, <2>3, <2>4 DEF RenameFails
<1> QED BY <1>1, <1>3, <1>4

\* The inductive invariant holds of every state of every behaviour.
THEOREM SftpInvariant == Spec => []SftpInv
<1>1. SftpInv /\ UNCHANGED vars => SftpInv'
  BY DEF vars, client, server, SftpInv, TypeOK, SessionInv, TempsInv, FileInv, Written, Ordered,
         OfRun, Atomic, Sent, TargetIsOneRun
<1>2. SftpInv /\ [Next]_vars => SftpInv'
  BY <1>1, OpenStep, ConnectSteps, SendingSteps, FinalizeSteps DEF Next, Operation
<1> QED BY <1>2, SftpInit, PTL DEF Spec

\* On a server that carries out what it is asked, no temporary file of an earlier
\* run outlives the next open().
THEOREM NoOldTemps == Spec => []OldTempsAreGone
<1>1. SftpInv => OldTempsAreGone
  <2> SUFFICES ASSUME SftpInv, setup.reliable, pc # "idle", NEW r \in 1..(run - 1)
               PROVE  temps[r] = NoFile
    BY DEF OldTempsAreGone
  <2>1. run \in Runs /\ r \in Runs /\ r # run
    BY SftpAssumption DEF SftpInv, SessionInv, Runs
  <2> QED BY <2>1 DEF SftpInv, TempsInv
<1> QED BY <1>1, SftpInvariant, PTL

\* The file at remote_path holds chunks of one run, in order.
THEOREM OneRunAtTarget == Spec => []TargetIsOneRun
<1>1. SftpInv => TargetIsOneRun
  BY DEF SftpInv
<1> QED BY <1>1, SftpInvariant, PTL

-----------------------------------------------------------------------------
(* The contract of Archive *)

\* A stage the contract does not tell apart from the next one.
LEMMA ContractStutter ==
    ASSUME UNCHANGED <<target, count, run>>, phase' = phase,
           result' = "stored" <=> result = "stored"
    PROVE  UNCHANGED Contract!vars
BY DEF Contract!vars, Sent, phase

\* Every step is a step of the contract, or none.
LEMMA ContractStep ==
    ASSUME SftpInv, Next, Atomic
    PROVE  [Contract!Next]_(Contract!vars)
<1> USE DEF SftpInv
<1>1. setup.atomicWrite /\ setup.storesAll
  BY DEF Atomic
<1>2. CASE Open
  <2>1. pc = "idle" /\ pc' = "connect" /\ result' = "none" /\ target' = target
    BY <1>2 DEF Open
  <2> QED BY <2>1 DEF phase, Contract!Next, Contract!Name
<1>3. CASE Connect \/ ConnectFails \/ CreateFails
  <2>1. /\ pc \in {"connect", "create"} /\ pc' \in {"create", "connect", "idle"}
        /\ result = "none" /\ result' \in {"none", "failed"}
        /\ UNCHANGED <<target, count, run>>
    BY <1>1, <1>3 DEF Connect, ConnectFails, CreateFails, Truncated, Retry, Fails, server, SessionInv
  <2> QED BY <2>1, ContractStutter DEF phase
<1>4. CASE Create
  <2>1. /\ pc = "create" /\ pc' = "sending" /\ target' = target /\ count = 0 /\ count' = 0
        /\ result = "none" /\ result' = "none"
    BY <1>1, <1>4 DEF Create, Truncated, SessionInv
  <2>2. Sent' = <<>>
    BY <2>1, NothingSent DEF Sent
  <2> QED BY <2>1, <2>2 DEF phase, Contract!Next, Contract!Open
<1>5. CASE SendChunk
  <2>1. /\ pc = "sending" /\ pc' = "sending" /\ target' = target /\ result' = result
        /\ run \in Runs /\ run' = run
        /\ count \in Nat /\ count' = count + 1 /\ count + 1 \in 1..MaxChunks
    BY <1>1, <1>5, SftpAssumption DEF SendChunk, SessionInv, TypeOK
  <2>2. Sent' = Append(Sent, [run |-> run, n |-> count + 1])
    BY <2>1, SentGrows
  <2>3. [run |-> run, n |-> count + 1] \in Chunk
    BY <2>1 DEF Chunk
  <2>4. \E c \in Chunk : Sent' = Append(Sent, c)
    BY <2>2, <2>3
  <2> QED BY <2>1, <2>4 DEF phase, Contract!Next, Contract!Write
<1>6. CASE GiveUp
  <2>1. /\ pc = "sending" /\ pc' = "idle" /\ target' = target
        /\ result = "none" /\ result' = "failed"
    BY <1>6 DEF GiveUp, Fails, SessionInv, server
  <2> QED BY <2>1 DEF phase, Contract!Next, Contract!GiveUp
<1>7. CASE Finalize
  <2>1. /\ pc = "sending" /\ pc' = "close" /\ UNCHANGED <<target, count, run, result>>
    BY <1>7 DEF Finalize, server
  <2>2. Sent' = Sent
    BY <2>1 DEF Sent
  <2> QED BY <2>1, <2>2 DEF phase, Contract!Next, Contract!Finalize
<1>8. CASE CloseFile
  <2>1. pc = "close" /\ tmpPath # 0
    BY <1>1, <1>8, SftpAssumption DEF CloseFile, SessionInv, Runs
  <2>2. pc' = "rename" /\ UNCHANGED <<target, count, run, result>>
    BY <1>8, <2>1 DEF CloseFile
  <2> QED BY <2>1, <2>2, ContractStutter DEF phase
<1>9. ASSUME pc = "rename" PROVE temps[tmpPath] = Sent
  <2>1. sftp /\ tmpPath = run
    BY <1>1, <1>9 DEF SessionInv
  <2> QED BY <1>1, <1>9, <2>1 DEF FileInv, Written, Atomic
<1>10. CASE Rename
  <2>1. pc = "rename" /\ pc' = "idle" /\ target' = Sent /\ result' = "stored"
    BY <1>9, <1>10 DEF Rename, Delivered
  <2>2. [n \in {1} |-> target]' = [[n \in {1} |-> target] EXCEPT ![1] = Sent]
    BY <2>1
  <2> QED BY <2>1, <2>2 DEF phase, Contract!Next, Contract!Return, Contract!Stored
<1>11. CASE RenameFails
  <2>1. /\ pc = "rename" /\ pc' = "idle" /\ result = "none" /\ result' = "failed"
        /\ target' = target \/ target' = Sent
    BY <1>9, <1>11 DEF RenameFails, Fails, SessionInv
  <2>2. \/ [n \in {1} |-> target]' = [n \in {1} |-> target]
        \/ [n \in {1} |-> target]' = [[n \in {1} |-> target] EXCEPT ![1] = Sent]
    BY <2>1
  <2> QED BY <2>1, <2>2 DEF phase, Contract!Next, Contract!GiveUp, Contract!Stored
<1> QED
  BY <1>2, <1>3, <1>4, <1>5, <1>6, <1>7, <1>8, <1>10, <1>11 DEF Next, Operation

\* With atomic_write, and a server that stores what it is sent, the client
\* implements Archive: the initial states map to initial states, and every step
\* to a step of the contract or to none.
THEOREM ImplementsArchive == Spec => DeliveryContract
<1>1. Init => (Atomic => Contract!Init)
  <2> SUFFICES ASSUME Init PROVE Contract!Init
    OBVIOUS
  <2>1. phase = "closed" /\ target = NoFile /\ result = "none"
    BY DEF Init, phase
  <2> QED BY <2>1 DEF Contract!Init
<1>2. SftpInv /\ [Next]_vars => [Atomic => [Contract!Next]_(Contract!vars)]_vars
  BY ContractStep
<1> QED BY <1>1, <1>2, SftpInvariant, PTL DEF Spec, DeliveryContract
=============================================================================
