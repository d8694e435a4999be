------------------------ MODULE PrintPipelineProofs ------------------------
(***************************************************************************)
(* Proofs about the printer's pipeline, for any number of goroutines, jobs *)
(* and connections: every variable keeps its type, nothing in the clear is *)
(* left behind, and "delivered" means printed and wiped.                   *)
(***************************************************************************)
EXTENDS PrintPipeline, FiniteSetTheorems, TLAPS

----------------------------------------------------------------------------
(* What a step does, point by point.                                       *)

\* The goroutines other than w stay where they are.
Others(w) ==
    \A u \in Worker : u # w => stage'[u] = stage[u] /\ memory'[u] = memory[u]

\* The file of w's job becomes f, and no other changes.
Becomes(w, f) ==
    file'[job[w]] = f /\ \A j \in Job : j # job[w] => file'[j] = file[j]

\* The file of w's job, if there is one, stays for good.
Stays(w) ==
    /\ UNCHANGED file
    /\ spoilt' = IF file[job[w]] = None THEN spoilt ELSE spoilt \cup {job[w]}

\* The file of w's job is removed.
Unlinks(w) == Becomes(w, None) /\ spoilt' = spoilt \ {job[w]}

\* processJob has returned.
Returned(w, outcome) == stage'[w] = outcome /\ memory'[w] = {}

Boots == UNCHANGED <<faults, conn, job, epoch, stage, memory, file, spoilt, prints, sent>>

Stops ==
    /\ "stop" \in faults /\ boot' = "stopped"
    /\ \A w \in Worker :
         /\ memory'[w] = {}
         /\ stage'[w] = stage[w] \/ (stage[w] \notin {"idle", "over"} /\ stage'[w] = "killed")
         /\ stage[w] \notin {"idle", "over"} => stage'[w] = "killed"
    /\ UNCHANGED <<faults, job, file, spoilt, prints, sent>>

Receives(w, j) ==
    /\ stage[w] = "idle" /\ stage'[w] = "fetch" /\ Others(w)
    /\ job'[w] = j /\ \A u \in Worker : u # w => job'[u] = job[u]
    /\ Cardinality(Frames(j)) < Copies
    /\ UNCHANGED <<faults, boot, secrets, memory, file, spoilt, prints, sent>>

Advances(w) ==
    /\ stage[w] \in {"fetch", "stalled", "decode", "unwrap", "decrypt"} /\ Others(w)
    /\ stage'[w] \in {"stalled", "decode", "unwrap", "decrypt", "create"} \/ Returned(w, "failed")
    /\ UNCHANGED <<faults, boot, secrets, job, file, spoilt, prints, sent>>

Creates(w) ==
    /\ stage[w] = "create" /\ Others(w)
    /\ \/ stage'[w] = "write" /\ Becomes(w, "partial")
       \/ Returned(w, "failed") /\ UNCHANGED file
    /\ UNCHANGED <<faults, boot, secrets, job, spoilt, prints, sent>>

Writes(w) ==
    /\ stage[w] = "write" /\ Others(w)
    /\ \/ /\ stage'[w] = "print" /\ UNCHANGED spoilt
          /\ Becomes(w, IF file[job[w]] = None THEN None ELSE "whole")
       \/ Returned(w, "failed") /\ Stays(w)
    /\ UNCHANGED <<faults, boot, secrets, job, prints, sent>>

Prints(w) ==
    /\ stage[w] = "print" /\ stage'[w] = "remove" /\ Others(w)
    /\ prints' \in [Job -> Nat] /\ (DevMode \/ prints'[job[w]] > 0)
    /\ \A j \in Job : prints'[j] >= prints[j]
    /\ prints'[job[w]] <= prints[job[w]] + 1
    /\ \A j \in Job : j # job[w] => prints'[j] = prints[j]
    /\ UNCHANGED <<faults, boot, secrets, job, file, spoilt, sent>>

Jams(w) ==
    /\ stage[w] = "print" /\ Others(w)
    /\ \/ stage'[w] = "hung" /\ UNCHANGED <<file, spoilt>>
       \/ Returned(w, "failed") /\ (Unlinks(w) \/ Stays(w))
    /\ UNCHANGED <<faults, boot, secrets, job, prints, sent>>

Removes(w) ==
    /\ stage[w] = "remove" /\ Others(w)
    /\ \/ Returned(w, "delivered") /\ Unlinks(w)
       \/ Returned(w, "failed") /\ Stays(w)
    /\ UNCHANGED <<faults, boot, secrets, job, prints, sent>>

Reports(w) ==
    /\ stage[w] \in {"delivered", "failed"} /\ stage'[w] = "over" /\ Others(w)
    /\ \A u \in Worker : <<u, "delivered">> \in sent' =>
         <<u, "delivered">> \in sent \/ (u = w /\ stage[w] = "delivered")
    /\ UNCHANGED <<faults, boot, secrets, job, memory, file, spoilt, prints>>

Moves ==
    \/ Boots \/ Stops \/ UNCHANGED <<faults, boot, secrets, job, stage, memory, file, spoilt, prints, sent>>
    \/ \E w \in Worker : \/ \E j \in Job : Receives(w, j)
                         \/ Advances(w) \/ Creates(w) \/ Writes(w) \/ Prints(w)
                         \/ Jams(w) \/ Removes(w) \/ Reports(w)

\* The types, but for the bound on prints, which takes a count.
Types ==
    /\ faults \in Environments
    /\ boot \in BootStage /\ secrets \subseteq Secrets
    /\ conn \in 1..MaxConn
    /\ job \in [Worker -> Job \cup {None}] /\ epoch \in [Worker -> 0..MaxConn]
    /\ stage \in [Worker -> Stage] /\ memory \in [Worker -> SUBSET Buffers]
    /\ file \in [Job -> {None, "partial", "whole"}] /\ spoilt \subseteq Job
    /\ prints \in [Job -> Nat]
    /\ sent \subseteq Worker \X {"delivered", "failed"}

LEMMA TypesAre == TypeOK => Types
  BY PipelineAssumption DEF TypeOK, Types

----------------------------------------------------------------------------
(* Each action makes its move and keeps the types.                         *)

LEMMA GotoIs ==
  ASSUME Types, NEW w \in Worker, NEW s \in Stage, Goto(w, s)
  PROVE  /\ stage' \in [Worker -> Stage] /\ stage'[w] = s
         /\ \A u \in Worker : u # w => stage'[u] = stage[u]
  BY DEF Goto, Types

LEMMA ReturnIs ==
  ASSUME Types, NEW w \in Worker, NEW s \in Stage, Return(w, s)
  PROVE  /\ stage' \in [Worker -> Stage] /\ memory' \in [Worker -> SUBSET Buffers]
         /\ Returned(w, s) /\ Others(w)
  <1>1. /\ stage' \in [Worker -> Stage] /\ stage'[w] = s
        /\ \A u \in Worker : u # w => stage'[u] = stage[u]
    BY GotoIs DEF Return
  <1>2. memory' = [memory EXCEPT ![w] = {}]
    BY DEF Return
  <1>3. /\ memory' \in [Worker -> SUBSET Buffers] /\ memory'[w] = {}
        /\ \A u \in Worker : u # w => memory'[u] = memory[u]
    BY <1>2 DEF Types
  <1> QED BY <1>1, <1>3 DEF Returned, Others

LEMMA BootIs ==
  ASSUME Types, LoadConfig \/ LoadDocKey
  PROVE  Types' /\ Boots
  <1>1. ASSUME NEW from, NEW to \in BootStage, NEW held \in SUBSET Secrets, Boot(from, to, held)
        PROVE  Types' /\ Boots
    <2>1. "dead" \in BootStage /\ {} \in SUBSET Secrets
      BY DEF BootStage
    <2>2. boot' \in BootStage /\ secrets' \in SUBSET Secrets
      BY <1>1, <2>1 DEF Boot
    <2>3. UNCHANGED <<faults, conn, job, epoch, stage, memory, file, spoilt, prints, sent>>
      BY <1>1 DEF Boot, workers
    <2> QED BY <2>2, <2>3 DEF Types, Boots
  <1>2. secrets \in SUBSET Secrets
    BY DEF Types
  <1>3. /\ (secrets \ {"env"}) \cup {"string", "pass"} \in SUBSET Secrets
        /\ secrets \cup {"der"} \in SUBSET Secrets
        /\ secrets \cup {"dk", "block"} \in SUBSET Secrets
        /\ (secrets \ {"dk"}) \cup {"der"} \in SUBSET Secrets
        /\ secrets \ (IF "plain" \in faults THEN {"pass"} ELSE {"pass", "der"}) \in SUBSET Secrets
    BY <1>2 DEF Secrets
  <1>4. {"passphrase", "read", "parse", "derive", "decrypt", "up"} \subseteq BootStage
    BY DEF BootStage
  <1> QED
    BY <1>1, <1>2, <1>3, <1>4 DEF LoadConfig, LoadDocKey, TakePassphrase, ReadKey, DeriveKey,
                                  DecryptKey, ParseKey

LEMMA StopIs ==
  ASSUME Types, Stop
  PROVE  Types' /\ Stops
  <1>1. /\ "stop" \in faults /\ boot' = "stopped" /\ secrets' = {}
        /\ stage' = [w \in Worker |-> IF stage[w] \in {"idle", "over"} THEN stage[w] ELSE "killed"]
        /\ memory' = [w \in Worker |-> {}]
        /\ UNCHANGED <<faults, conn, job, epoch, file, spoilt, prints, sent>>
    BY DEF Stop
  <1>2. "stopped" \in BootStage /\ "killed" \in Stage
    BY DEF BootStage, Stage
  <1>3. stage' \in [Worker -> Stage] /\ memory' \in [Worker -> SUBSET Buffers]
    BY <1>1, <1>2 DEF Types
  <1>4. Types'
    BY <1>1, <1>2, <1>3 DEF Types
  <1>5. Stops
    BY <1>1 DEF Stops
  <1> QED BY <1>4, <1>5

LEMMA ReceiveIs ==
  ASSUME Types, NEW w \in Worker, NEW j \in Job, Receive(w, j)
  PROVE  Types' /\ Receives(w, j)
  <1>1. /\ stage[w] = "idle" /\ Cardinality(Frames(j)) < Copies
        /\ job' = [job EXCEPT ![w] = j] /\ epoch' = [epoch EXCEPT ![w] = conn]
        /\ UNCHANGED <<faults, boot, secrets, conn, memory, file, spoilt, prints, sent>>
    BY DEF Receive, bootVars
  <1>2. /\ stage' \in [Worker -> Stage] /\ stage'[w] = "fetch"
        /\ \A u \in Worker : u # w => stage'[u] = stage[u]
    <2>1. "fetch" \in Stage
      BY DEF Stage
    <2> QED BY <2>1, GotoIs DEF Receive
  <1>3. conn \in 0..MaxConn
    BY PipelineAssumption DEF Types
  <1>4. /\ job' \in [Worker -> Job \cup {None}] /\ epoch' \in [Worker -> 0..MaxConn]
        /\ job'[w] = j /\ \A u \in Worker : u # w => job'[u] = job[u]
    BY <1>1, <1>3 DEF Types
  <1>5. Types'
    BY <1>1, <1>2, <1>4 DEF Types
  <1>6. Receives(w, j)
    BY <1>1, <1>2, <1>4 DEF Receives, Others
  <1> QED BY <1>5, <1>6

LEMMA AdvanceIs ==
  ASSUME Types, NEW w \in Worker,
         FetchBlob(w) \/ Stall(w) \/ DecodeKey(w) \/ DecryptAESKey(w) \/ DecryptDocument(w)
  PROVE  Types' /\ Advances(w)
  <1>1. ASSUME NEW from \in {"fetch", "stalled", "decode", "unwrap", "decrypt"}, NEW buffer \in Buffers,
               NEW to \in {"decode", "unwrap", "decrypt", "create"}, NEW works, NEW fails,
               Obtain(w, from, buffer, to, works, fails)
        PROVE  Types' /\ Advances(w)
    <2>0. to \in Stage /\ "failed" \in Stage
      BY DEF Stage
    <2>1. /\ stage[w] \in {"fetch", "stalled", "decode", "unwrap", "decrypt"}
          /\ UNCHANGED <<faults, boot, secrets, conn, job, epoch, file, spoilt, prints, sent>>
      BY <1>1 DEF Obtain, bootVars
    <2>2. CASE Goto(w, to) /\ memory' = [memory EXCEPT ![w] = @ \cup {buffer}]
      <3>1. /\ stage' \in [Worker -> Stage] /\ stage'[w] = to
            /\ \A u \in Worker : u # w => stage'[u] = stage[u]
        BY <2>0, <2>2, GotoIs
      <3>2. /\ memory' \in [Worker -> SUBSET Buffers]
            /\ \A u \in Worker : u # w => memory'[u] = memory[u]
        BY <2>2 DEF Types
      <3> QED BY <2>1, <3>1, <3>2 DEF Types, Advances, Others
    <2>3. CASE Return(w, "failed")
      <3>1. /\ stage' \in [Worker -> Stage] /\ memory' \in [Worker -> SUBSET Buffers]
            /\ Returned(w, "failed") /\ Others(w)
        BY <2>0, <2>3, ReturnIs
      <3> QED BY <2>1, <3>1 DEF Types, Advances
    <2> QED BY <1>1, <2>2, <2>3 DEF Obtain
  <1>2. {"blob", "wrapped", "aes", "pdf"} \subseteq Buffers
    BY DEF Buffers
  <1>3. CASE FetchBlob(w)
    BY <1>1, <1>2, <1>3 DEF FetchBlob
  <1>4. CASE DecodeKey(w)
    BY <1>1, <1>2, <1>4 DEF DecodeKey
  <1>5. CASE DecryptAESKey(w)
    BY <1>1, <1>2, <1>5 DEF DecryptAESKey
  <1>6. CASE DecryptDocument(w)
    BY <1>1, <1>2, <1>6 DEF DecryptDocument
  <1>7. CASE Stall(w)
    <2>1. /\ stage[w] = "fetch" /\ Goto(w, "stalled")
          /\ UNCHANGED <<faults, boot, secrets, conn, job, epoch, memory, file, spoilt, prints, sent>>
      BY <1>7 DEF Stall, bootVars
    <2>2. "stalled" \in Stage
      BY DEF Stage
    <2>3. stage' \in [Worker -> Stage] /\ stage'[w] = "stalled" /\ Others(w)
      BY <2>1, <2>2, GotoIs DEF Others
    <2> QED BY <2>1, <2>3 DEF Types, Advances
  <1> QED BY <1>3, <1>4, <1>5, <1>6, <1>7

LEMMA FileIs ==
  ASSUME Types, WorkersHaveJobs, NEW w \in Worker, stage[w] # "idle",
         NEW f \in {None, "partial", "whole"}, file' = [file EXCEPT ![job[w]] = f]
  PROVE  file' \in [Job -> {None, "partial", "whole"}] /\ Becomes(w, f)
  <1>1. job[w] \in Job
    BY DEF WorkersHaveJobs
  <1> QED BY <1>1 DEF Types, Becomes

LEMMA UnlinkIs ==
  ASSUME Types, WorkersHaveJobs, NEW w \in Worker, stage[w] # "idle",
         Unlink(job[w]) \/ UnlinkFails(job[w])
  PROVE  /\ file' \in [Job -> {None, "partial", "whole"}] /\ spoilt' \subseteq Job
         /\ Unlink(job[w]) => Unlinks(w)
         /\ UnlinkFails(job[w]) => Stays(w)
  <1>1. job[w] \in Job /\ spoilt \subseteq Job
    BY DEF WorkersHaveJobs, Types
  <1>2. CASE Unlink(job[w])
    <2>1. file' \in [Job -> {None, "partial", "whole"}] /\ Becomes(w, None)
      BY <1>2, FileIs DEF Unlink
    <2> QED BY <1>1, <1>2, <2>1 DEF Unlink, Unlinks, UnlinkFails, Stays
  <1>3. CASE UnlinkFails(job[w]) /\ ~Unlink(job[w])
    BY <1>1, <1>3 DEF UnlinkFails, Stays, Types
  <1> QED BY <1>2, <1>3

\* A step of w that goes on to another stage with its buffers as they are.
LEMMA GoOnIs ==
  ASSUME Types, NEW w \in Worker, NEW s \in Stage, Goto(w, s), UNCHANGED memory
  PROVE  /\ stage' \in [Worker -> Stage] /\ memory' \in [Worker -> SUBSET Buffers]
         /\ stage'[w] = s /\ Others(w)
  BY GotoIs DEF Types, Others

LEMMA CreateIs ==
  ASSUME Types, WorkersHaveJobs, NEW w \in Worker, CreateFile(w)
  PROVE  Types' /\ Creates(w)
  <1>0. "failed" \in Stage /\ "write" \in Stage
    BY DEF Stage
  <1>1. /\ stage[w] = "create"
        /\ UNCHANGED <<faults, boot, secrets, conn, job, epoch, spoilt, prints, sent>>
    BY DEF CreateFile, bootVars
  <1>2. CASE file' = [file EXCEPT ![job[w]] = "partial"] /\ Goto(w, "write") /\ UNCHANGED memory
    <2>1. file' \in [Job -> {None, "partial", "whole"}] /\ Becomes(w, "partial")
      BY <1>1, <1>2, FileIs
    <2>2. /\ stage' \in [Worker -> Stage] /\ memory' \in [Worker -> SUBSET Buffers]
          /\ stage'[w] = "write" /\ Others(w)
      BY <1>0, <1>2, GoOnIs
    <2> QED BY <1>1, <2>1, <2>2 DEF Types, Creates
  <1>3. CASE Return(w, "failed") /\ UNCHANGED file
    <2>1. /\ stage' \in [Worker -> Stage] /\ memory' \in [Worker -> SUBSET Buffers]
          /\ Returned(w, "failed") /\ Others(w)
      BY <1>0, <1>3, ReturnIs
    <2> QED BY <1>1, <1>3, <2>1 DEF Types, Creates
  <1> QED BY <1>2, <1>3 DEF CreateFile

LEMMA WriteIs ==
  ASSUME Types, WorkersHaveJobs, NEW w \in Worker, WriteFile(w)
  PROVE  Types' /\ Writes(w)
  <1>0. "failed" \in Stage /\ "print" \in Stage
    BY DEF Stage
  <1>1. /\ stage[w] = "write" /\ job[w] \in Job
        /\ UNCHANGED <<faults, boot, secrets, conn, job, epoch, prints, sent>>
    BY DEF WriteFile, bootVars, WorkersHaveJobs
  <1> DEFINE f == IF file[job[w]] = None THEN None ELSE "whole"
  <1>2. CASE /\ file' = [file EXCEPT ![job[w]] = IF @ = None THEN None ELSE "whole"]
             /\ Goto(w, "print") /\ UNCHANGED <<memory, spoilt>>
    <2>1. f \in {None, "partial", "whole"} /\ file' = [file EXCEPT ![job[w]] = f]
      BY <1>1, <1>2 DEF Types
    <2>2. file' \in [Job -> {None, "partial", "whole"}] /\ Becomes(w, f)
      BY <1>1, <2>1, FileIs
    <2>3. /\ stage' \in [Worker -> Stage] /\ memory' \in [Worker -> SUBSET Buffers]
          /\ stage'[w] = "print" /\ Others(w)
      BY <1>0, <1>2, GoOnIs
    <2> QED BY <1>1, <1>2, <2>2, <2>3 DEF Types, Writes
  <1>3. CASE Return(w, "failed") /\ Stays(w)
    <2>1. /\ stage' \in [Worker -> Stage] /\ memory' \in [Worker -> SUBSET Buffers]
          /\ Returned(w, "failed") /\ Others(w)
      BY <1>0, <1>3, ReturnIs
    <2>2. file' = file /\ spoilt' \subseteq Job
      BY <1>1, <1>3 DEF Types, Stays
    <2> QED BY <1>1, <1>3, <2>1, <2>2 DEF Types, Writes
  <1> QED BY <1>2, <1>3 DEF WriteFile, Stays

LEMMA PrintIs ==
  ASSUME Types, WorkersHaveJobs, NEW w \in Worker, PrintFile(w)
  PROVE  Types' /\ (Prints(w) \/ Jams(w))
  <1>0. "failed" \in Stage /\ "remove" \in Stage
    BY DEF Stage
  <1>1. /\ stage[w] = "print" /\ job[w] \in Job
        /\ UNCHANGED <<faults, boot, secrets, conn, job, epoch, sent>>
    BY DEF PrintFile, bootVars, WorkersHaveJobs
  <1>2. CASE /\ Goto(w, "remove") /\ UNCHANGED <<memory, file, spoilt>>
             /\ prints' = IF DevMode THEN prints ELSE [prints EXCEPT ![job[w]] = @ + 1]
    <2>1. /\ prints' \in [Job -> Nat]
          /\ DevMode \/ prints'[job[w]] > 0
          /\ \A j \in Job : prints'[j] >= prints[j]
          /\ prints'[job[w]] <= prints[job[w]] + 1
          /\ \A j \in Job : j # job[w] => prints'[j] = prints[j]
      BY <1>1, <1>2 DEF Types
    <2>2. /\ stage' \in [Worker -> Stage] /\ memory' \in [Worker -> SUBSET Buffers]
          /\ stage'[w] = "remove" /\ Others(w)
      BY <1>0, <1>2, GoOnIs
    <2> QED BY <1>1, <1>2, <2>1, <2>2 DEF Types, Prints
  <1>3. CASE /\ Return(w, "failed") /\ UNCHANGED prints
             /\ Unlink(job[w]) \/ UnlinkFails(job[w])
    <2>1. /\ stage' \in [Worker -> Stage] /\ memory' \in [Worker -> SUBSET Buffers]
          /\ Returned(w, "failed") /\ Others(w)
      BY <1>0, <1>3, ReturnIs
    <2>2. /\ file' \in [Job -> {None, "partial", "whole"}] /\ spoilt' \subseteq Job
          /\ Unlinks(w) \/ Stays(w)
      BY <1>1, <1>3, UnlinkIs
    <2> QED BY <1>1, <1>3, <2>1, <2>2 DEF Types, Jams
  <1> QED BY <1>2, <1>3 DEF PrintFile

LEMMA HangIs ==
  ASSUME Types, NEW w \in Worker, Hang(w)
  PROVE  Types' /\ Jams(w)
  <1>1. /\ stage[w] = "print" /\ Goto(w, "hung")
        /\ UNCHANGED <<faults, boot, secrets, conn, job, epoch, memory, file, spoilt, prints, sent>>
    BY DEF Hang, bootVars
  <1>2. "hung" \in Stage
    BY DEF Stage
  <1>3. /\ stage' \in [Worker -> Stage] /\ stage'[w] = "hung" /\ Others(w)
    BY <1>1, <1>2, GoOnIs
  <1> QED BY <1>1, <1>3 DEF Types, Jams

LEMMA RemoveIs ==
  ASSUME Types, WorkersHaveJobs, NEW w \in Worker, RemoveFile(w)
  PROVE  Types' /\ Removes(w)
  <1>0. "failed" \in Stage /\ "delivered" \in Stage
    BY DEF Stage
  <1>1. /\ stage[w] = "remove"
        /\ UNCHANGED <<faults, boot, secrets, conn, job, epoch, prints, sent>>
    BY DEF RemoveFile, bootVars
  <1>2. CASE Unlink(job[w]) /\ Return(w, "delivered")
    <2>1. /\ file' \in [Job -> {None, "partial", "whole"}] /\ spoilt' \subseteq Job /\ Unlinks(w)
      BY <1>1, <1>2, UnlinkIs
    <2>2. /\ stage' \in [Worker -> Stage] /\ memory' \in [Worker -> SUBSET Buffers]
          /\ Returned(w, "delivered") /\ Others(w)
      BY <1>0, <1>2, ReturnIs
    <2> QED BY <1>1, <2>1, <2>2 DEF Types, Removes
  <1>3. CASE /\ (file[job[w]] = None /\ UNCHANGED <<file, spoilt>>) \/ UnlinkFails(job[w])
             /\ Return(w, "failed")
    <2>1. /\ stage' \in [Worker -> Stage] /\ memory' \in [Worker -> SUBSET Buffers]
          /\ Returned(w, "failed") /\ Others(w)
      BY <1>0, <1>3, ReturnIs
    <2>2. /\ file' \in [Job -> {None, "partial", "whole"}] /\ spoilt' \subseteq Job /\ Stays(w)
      <3>1. CASE UnlinkFails(job[w])
        BY <1>1, <3>1, UnlinkIs
      <3>2. CASE file[job[w]] = None /\ UNCHANGED <<file, spoilt>>
        BY <3>2 DEF Types, Stays
      <3> QED BY <1>3, <3>1, <3>2
    <2> QED BY <1>1, <2>1, <2>2 DEF Types, Removes
  <1> QED BY <1>2, <1>3 DEF RemoveFile

LEMMA ReportIs ==
  ASSUME Types, NEW w \in Worker, Report(w)
  PROVE  Types' /\ Reports(w)
  <1>1. /\ stage[w] \in {"delivered", "failed"} /\ Goto(w, "over")
        /\ sent' = sent \/ sent' = sent \cup {<<w, stage[w]>>}
        /\ UNCHANGED <<faults, boot, secrets, conn, job, epoch, memory, file, spoilt, prints>>
    BY DEF Report, bootVars
  <1>2. "over" \in Stage
    BY DEF Stage
  <1>3. /\ stage' \in [Worker -> Stage] /\ stage'[w] = "over" /\ Others(w)
    BY <1>1, <1>2, GoOnIs
  <1>4. sent' \subseteq Worker \X {"delivered", "failed"}
    BY <1>1 DEF Types
  <1>5. \A u \in Worker : <<u, "delivered">> \in sent' =>
          <<u, "delivered">> \in sent \/ (u = w /\ stage[w] = "delivered")
    BY <1>1
  <1> QED BY <1>1, <1>3, <1>4, <1>5 DEF Types, Reports

\* Every step is one of these moves and keeps the types.
LEMMA StepMoves ==
  ASSUME Types, WorkersHaveJobs, [Next]_vars
  PROVE  Types' /\ Moves
  <1>1. CASE LoadConfig \/ LoadDocKey
    BY <1>1, BootIs DEF Moves
  <1>2. CASE Stop
    BY <1>2, StopIs DEF Moves
  <1>3. ASSUME NEW w \in Worker, NEW j \in Job, Receive(w, j) PROVE Types' /\ Moves
    BY <1>3, ReceiveIs DEF Moves
  <1>4. ASSUME NEW w \in Worker, Work(w) \/ Stall(w) \/ Hang(w) PROVE Types' /\ Moves
    BY <1>4, AdvanceIs, CreateIs, WriteIs, PrintIs, HangIs, RemoveIs, ReportIs DEF Work, Moves
  <1>5. CASE Reconnect
    <2>1. conn' \in 1..MaxConn
      BY <1>5, PipelineAssumption DEF Reconnect, Types
    <2>2. UNCHANGED <<faults, boot, secrets, job, epoch, stage, memory, file, spoilt, prints, sent>>
      BY <1>5 DEF Reconnect, bootVars
    <2> QED BY <2>1, <2>2 DEF Types, Moves
  <1>6. CASE UNCHANGED vars
    BY <1>6 DEF vars, bootVars, Types, Moves
  <1> QED BY <1>1, <1>2, <1>3, <1>4, <1>5, <1>6 DEF Next

----------------------------------------------------------------------------
(* The invariant, part by part.                                            *)

\* What loadDocKey holds.
LEMMA KeyStep ==
  ASSUME Types, KeyStages, [Next]_vars
  PROVE  KeyStages'
  <1>1. CASE LoadConfig
    BY <1>1 DEF LoadConfig, Boot, KeyStages
  <1>2. CASE TakePassphrase
    BY <1>2 DEF TakePassphrase, Boot, KeyStages
  <1>3. CASE ReadKey
    <2>1. CASE "plain" \in faults
      BY <1>3, <2>1 DEF ReadKey, Boot, KeyStages
    <2>2. CASE "plain" \notin faults
      BY <1>3, <2>2 DEF ReadKey, Boot, KeyStages
    <2> QED BY <2>1, <2>2
  <1>4. CASE DeriveKey
    BY <1>4 DEF DeriveKey, Boot, KeyStages
  <1>5. CASE DecryptKey
    BY <1>5 DEF DecryptKey, Boot, KeyStages
  <1>6. CASE ParseKey
    <2>1. CASE "plain" \in faults
      BY <1>6, <2>1 DEF ParseKey, Boot, KeyStages
    <2>2. CASE "plain" \notin faults
      BY <1>6, <2>2 DEF ParseKey, Boot, KeyStages
    <2> QED BY <2>1, <2>2
  <1>7. CASE Stop
    BY <1>7 DEF Stop, KeyStages
  <1>8. CASE UNCHANGED <<faults, boot, secrets>>
    BY <1>8 DEF KeyStages
  <1>9. ASSUME NEW w \in Worker, Work(w) \/ Stall(w) \/ Hang(w) \/ \E j \in Job : Receive(w, j)
        PROVE  UNCHANGED <<faults, boot, secrets>>
    BY <1>9 DEF Work, FetchBlob, DecodeKey, DecryptAESKey, DecryptDocument, Obtain, CreateFile,
                WriteFile, PrintFile, RemoveFile, Report, Stall, Hang, Receive, bootVars
  <1>10. Reconnect \/ UNCHANGED vars => UNCHANGED <<faults, boot, secrets>>
    BY DEF Reconnect, vars, bootVars
  <1> QED
    BY <1>1, <1>2, <1>3, <1>4, <1>5, <1>6, <1>7, <1>8, <1>9, <1>10 DEF Next, LoadDocKey

\* A goroutine has its job from the frame on.
LEMMA JobsStep ==
  ASSUME Types, WorkersHaveJobs, Moves
  PROVE  WorkersHaveJobs'
  <1>1. CASE Boots \/ Stops
             \/ UNCHANGED <<faults, boot, secrets, job, stage, memory, file, spoilt, prints, sent>>
    BY <1>1 DEF Boots, Stops, WorkersHaveJobs
  <1>2. ASSUME NEW w \in Worker, NEW j \in Job, Receives(w, j) PROVE WorkersHaveJobs'
    BY <1>2 DEF Receives, Others, WorkersHaveJobs
  <1>3. ASSUME NEW w \in Worker, stage[w] # "idle", stage'[w] # "idle", Others(w), UNCHANGED job
        PROVE  WorkersHaveJobs'
    BY <1>3 DEF Others, WorkersHaveJobs
  <1>4. ASSUME NEW w \in Worker, \/ Advances(w) \/ Creates(w) \/ Writes(w) \/ Prints(w)
                                 \/ Jams(w) \/ Removes(w) \/ Reports(w)
        PROVE  stage[w] # "idle" /\ stage'[w] # "idle" /\ Others(w) /\ UNCHANGED job
    BY <1>4 DEF Advances, Creates, Writes, Prints, Jams, Removes, Reports, Returned
  <1> QED BY <1>1, <1>2, <1>3, <1>4 DEF Moves

\* No buffer outlives processJob.
LEMMA BuffersStep ==
  ASSUME Types, BuffersWiped, Moves
  PROVE  BuffersWiped'
  <1>1. CASE Boots \/ Stops
             \/ UNCHANGED <<faults, boot, secrets, job, stage, memory, file, spoilt, prints, sent>>
    BY <1>1 DEF Boots, Stops, BuffersWiped, Settled
  <1>2. ASSUME NEW w \in Worker, NEW j \in Job, Receives(w, j) PROVE BuffersWiped'
    BY <1>2 DEF Receives, Others, BuffersWiped, Settled
  <1>3. ASSUME NEW w \in Worker, Others(w),
               \/ stage'[w] \notin {"idle", "delivered", "failed", "over"}
               \/ memory'[w] = {}
        PROVE  BuffersWiped'
    BY <1>3 DEF Others, BuffersWiped, Settled
  <1>4. ASSUME NEW w \in Worker, \/ Advances(w) \/ Creates(w) \/ Writes(w) \/ Prints(w)
                                 \/ Jams(w) \/ Removes(w)
        PROVE  /\ Others(w)
               /\ \/ stage'[w] \notin {"idle", "delivered", "failed", "over"}
                  \/ memory'[w] = {}
    BY <1>4 DEF Advances, Creates, Writes, Prints, Jams, Removes, Returned
  <1>5. ASSUME NEW w \in Worker, Reports(w) PROVE BuffersWiped'
    BY <1>5 DEF Reports, Others, BuffersWiped, Settled
  <1> QED BY <1>1, <1>2, <1>3, <1>4, <1>5 DEF Moves

\* A file has a goroutine that will remove it.
LEMMA FilesStep ==
  ASSUME Types, WorkersHaveJobs, FilesHaveOwners, Moves
  PROVE  FilesHaveOwners'
  <1> DEFINE Owner(u, j) ==
               job[u] = j /\ stage[u] \in {"write", "print", "hung", "remove", "killed"}
  <1> SUFFICES ASSUME NEW i \in Job, i \notin spoilt', file'[i] # None
               PROVE  \E u \in Worker : Owner(u, i)'
    BY DEF FilesHaveOwners, Frames
  <1>1. ASSUME i \notin spoilt, file[i] # None PROVE \E u \in Worker : Owner(u, i)
    BY <1>1 DEF FilesHaveOwners, Frames
  <1>2. CASE Boots \/ UNCHANGED <<faults, boot, secrets, job, stage, memory, file, spoilt, prints, sent>>
    BY <1>1, <1>2 DEF Boots
  <1>3. CASE Stops
    BY <1>1, <1>3 DEF Stops
  <1>4. ASSUME NEW w \in Worker, NEW j \in Job, Receives(w, j)
        PROVE  \E u \in Worker : Owner(u, i)'
    <2>1. PICK u \in Worker : Owner(u, i)
      BY <1>1, <1>4 DEF Receives
    <2>2. u # w
      BY <1>4, <2>1 DEF Receives
    <2> QED BY <1>4, <2>1, <2>2 DEF Receives, Others
  \* A goroutine that holds no file leaves the owners what they are.
  <1>5. ASSUME NEW w \in Worker, Advances(w) \/ Reports(w)
        PROVE  \E u \in Worker : Owner(u, i)'
    <2>0. /\ stage[w] \notin {"write", "print", "hung", "remove", "killed"}
          /\ Others(w) /\ UNCHANGED <<job, file, spoilt>>
      BY <1>5 DEF Advances, Reports
    <2>1. PICK u \in Worker : Owner(u, i)
      BY <1>1, <2>0
    <2>2. u # w
      BY <2>0, <2>1
    <2> QED BY <2>0, <2>1, <2>2 DEF Others
  \* One that holds its job's file goes on with it, or removes it.
  <1>6. ASSUME NEW w \in Worker, Others(w), UNCHANGED job, i \notin spoilt, file[i] # None,
               \/ stage'[w] \in {"write", "print", "hung", "remove", "killed"}
               \/ stage[w] \notin {"write", "print", "hung", "remove", "killed"}
               \/ job[w] # i
        PROVE  \E u \in Worker : Owner(u, i)'
    <2>1. PICK u \in Worker : Owner(u, i)
      BY <1>1, <1>6
    <2> QED BY <1>6, <2>1 DEF Others
  <1>7. ASSUME NEW w \in Worker, Creates(w)
        PROVE  \E u \in Worker : Owner(u, i)'
    <2>0. UNCHANGED spoilt
      BY <1>7 DEF Creates
    <2>1. CASE stage'[w] = "write" /\ Becomes(w, "partial") /\ job[w] = i
      BY <1>7, <2>1 DEF Creates
    <2>2. CASE stage'[w] = "write" /\ Becomes(w, "partial") /\ job[w] # i
      <3>1. file'[i] = file[i]
        BY <2>2 DEF Becomes
      <3> QED BY <1>6, <1>7, <2>0, <2>2, <3>1 DEF Creates
    <2>3. CASE Returned(w, "failed") /\ UNCHANGED file
      BY <1>6, <1>7, <2>0, <2>3 DEF Creates
    <2> QED BY <1>7, <2>1, <2>2, <2>3 DEF Creates
  \* A file that stays is not this one, nor one that is removed.
  <1>s. ASSUME NEW w \in Worker, Others(w), UNCHANGED job, Stays(w) \/ Unlinks(w)
        PROVE  \E u \in Worker : Owner(u, i)'
    <2>1. job[w] # i /\ i \notin spoilt /\ file[i] # None
      BY <1>s DEF Stays, Unlinks, Becomes
    <2> QED BY <1>6, <1>s, <2>1
  <1>8. ASSUME NEW w \in Worker, Writes(w)
        PROVE  \E u \in Worker : Owner(u, i)'
    <2>1. CASE /\ stage'[w] = "print" /\ UNCHANGED spoilt
               /\ Becomes(w, IF file[job[w]] = None THEN None ELSE "whole")
      <3>1. file[i] # None /\ i \notin spoilt
        BY <2>1 DEF Becomes
      <3> QED BY <1>6, <1>8, <2>1, <3>1 DEF Writes
    <2>2. CASE Stays(w)
      BY <1>8, <1>s, <2>2 DEF Writes
    <2> QED BY <1>8, <2>1, <2>2 DEF Writes
  <1>9. ASSUME NEW w \in Worker, Prints(w)
        PROVE  \E u \in Worker : Owner(u, i)'
    BY <1>6, <1>9 DEF Prints
  <1>10. ASSUME NEW w \in Worker, Jams(w)
         PROVE  \E u \in Worker : Owner(u, i)'
    <2>1. CASE stage'[w] = "hung" /\ UNCHANGED <<file, spoilt>>
      BY <1>6, <1>10, <2>1 DEF Jams
    <2>2. CASE Unlinks(w) \/ Stays(w)
      BY <1>10, <1>s, <2>2 DEF Jams
    <2> QED BY <1>10, <2>1, <2>2 DEF Jams
  <1>11. ASSUME NEW w \in Worker, Removes(w)
         PROVE  \E u \in Worker : Owner(u, i)'
    BY <1>11, <1>s DEF Removes
  <1> QED
    BY <1>2, <1>3, <1>4, <1>5, <1>7, <1>8, <1>9, <1>10, <1>11 DEF Moves

\* Sets of goroutines are finite, and grow as they should.
LEMMA Counting ==
  ASSUME NEW S \in SUBSET Worker, NEW T \in SUBSET Worker
  PROVE  /\ Cardinality(S) \in Nat /\ Cardinality(T) \in Nat
         /\ S \subseteq T => Cardinality(S) <= Cardinality(T)
         /\ \A w \in Worker : w \notin S /\ T = S \cup {w} => Cardinality(T) = Cardinality(S) + 1
  <1>1. IsFiniteSet(S) /\ IsFiniteSet(T)
    BY PipelineAssumption, FS_Subset
  <1>2. Cardinality(S) \in Nat /\ Cardinality(T) \in Nat
    BY <1>1, FS_CardinalityType
  <1>3. S \subseteq T => Cardinality(S) <= Cardinality(T)
    BY <1>1, FS_Subset
  <1>4. ASSUME NEW w \in Worker, w \notin S, T = S \cup {w}
        PROVE  Cardinality(T) = Cardinality(S) + 1
    BY <1>1, <1>4, FS_AddElement
  <1> QED BY <1>2, <1>3, <1>4

\* No more frames of a job than were sent, and no more prints than goroutines
\* that got past lp.
LEMMA CountStep ==
  ASSUME Types, WorkersHaveJobs, PrintsCounted, Moves
  PROVE  PrintsCounted'
  <1> DEFINE Done == {"remove", "delivered", "failed", "over", "killed"}
             F(j) == {w \in Worker : job[w] = j}
             G(j) == {w \in Worker : job'[w] = j}
             T(j) == {w \in Worker : job[w] = j /\ stage[w] \in Done}
             U(j) == {w \in Worker : job'[w] = j /\ stage'[w] \in Done}
  <1>0. \A j \in Job : /\ Cardinality(F(j)) <= Copies /\ prints[j] <= Cardinality(T(j))
                       /\ prints[j] \in Nat
    <2>1. \A j \in Job : Frames(j) = F(j) /\ Through(j) = T(j)
      BY DEF Frames, Through
    <2> QED BY <2>1 DEF PrintsCounted, Types
  <1> SUFFICES ASSUME NEW j \in Job
               PROVE  Cardinality(G(j)) <= Copies /\ prints'[j] <= Cardinality(U(j))
    <2>1. \A j \in Job : Frames(j)' = G(j) /\ Through(j)' = U(j)
      BY DEF Frames, Through
    <2> QED BY <2>1 DEF PrintsCounted
  <1>c. Copies \in Nat
    BY PipelineAssumption
  <1>1. CASE G(j) = F(j) /\ T(j) \subseteq U(j) /\ prints'[j] = prints[j]
    <2>1. Cardinality(T(j)) <= Cardinality(U(j)) /\ Cardinality(T(j)) \in Nat /\ Cardinality(U(j)) \in Nat
      BY <1>1, Counting
    <2>2. Cardinality(G(j)) <= Copies
      BY <1>0, <1>1
    <2>3. prints[j] <= Cardinality(T(j)) /\ prints[j] \in Nat /\ prints'[j] = prints[j]
      BY <1>0, <1>1
    <2> HIDE DEF G, T, U
    <2> QED BY <2>1, <2>2, <2>3
  <1>2. CASE Boots \/ Stops
             \/ UNCHANGED <<faults, boot, secrets, job, stage, memory, file, spoilt, prints, sent>>
    <2>1. G(j) = F(j) /\ T(j) \subseteq U(j) /\ prints'[j] = prints[j]
      BY <1>2 DEF Boots, Stops
    <2> QED BY <1>1, <2>1
  <1>3. ASSUME NEW w \in Worker, \/ Advances(w) \/ Creates(w) \/ Writes(w)
                                 \/ Jams(w) \/ Removes(w) \/ Reports(w)
        PROVE  G(j) = F(j) /\ T(j) \subseteq U(j) /\ prints'[j] = prints[j]
    <2>1. /\ Others(w) /\ UNCHANGED <<job, prints>>
          /\ stage[w] \in Done => stage'[w] \in Done
      BY <1>3 DEF Advances, Creates, Writes, Jams, Removes, Reports, Returned
    <2> QED BY <2>1 DEF Others
  <1>4. ASSUME NEW w \in Worker, Prints(w)
        PROVE  Cardinality(G(j)) <= Copies /\ prints'[j] <= Cardinality(U(j))
    <2>1. /\ stage[w] = "print" /\ stage'[w] = "remove" /\ Others(w)
          /\ prints'[job[w]] <= prints[job[w]] + 1
          /\ j # job[w] => prints'[j] = prints[j]
          /\ job' = job
      BY <1>4 DEF Prints
    <2>2. CASE j = job[w]
      <3>1. G(j) = F(j) /\ w \notin T(j) /\ U(j) = T(j) \cup {w}
        BY <2>1, <2>2 DEF Others
      <3>2. Cardinality(U(j)) = Cardinality(T(j)) + 1 /\ Cardinality(T(j)) \in Nat
        BY <3>1, Counting
      <3>3. prints'[j] \in Nat
        BY <1>4 DEF Prints
      <3>4. prints'[j] <= prints[j] + 1
        BY <2>1, <2>2
      <3>5. Cardinality(G(j)) <= Copies
        BY <1>0, <3>1
      <3>6. prints[j] <= Cardinality(T(j)) /\ prints[j] \in Nat
        BY <1>0
      <3> HIDE DEF G, T, U
      <3> QED BY <3>2, <3>3, <3>4, <3>5, <3>6
    <2>3. CASE j # job[w]
      <3>1. G(j) = F(j) /\ T(j) \subseteq U(j)
        BY <2>1, <2>3 DEF Others
      <3> QED BY <1>1, <2>1, <2>3, <3>1
    <2> QED BY <2>2, <2>3
  <1>5. ASSUME NEW w \in Worker, NEW i \in Job, Receives(w, i)
        PROVE  Cardinality(G(j)) <= Copies /\ prints'[j] <= Cardinality(U(j))
    <2>1. /\ stage[w] = "idle" /\ stage'[w] = "fetch" /\ Others(w) /\ job[w] = None
          /\ job'[w] = i /\ \A u \in Worker : u # w => job'[u] = job[u]
          /\ prints' = prints
      BY <1>5 DEF Receives, WorkersHaveJobs
    <2>2. None \notin Job
      BY PipelineAssumption DEF None
    <2>3. T(j) \subseteq U(j)
      BY <2>1 DEF Others
    <2>4. CASE j # i
      <3>1. G(j) = F(j)
        BY <2>1, <2>2, <2>4
      <3> QED BY <1>1, <2>1, <2>3, <3>1
    <2>5. CASE j = i
      <3>1. w \notin F(j) /\ G(j) = F(j) \cup {w}
        BY <2>1, <2>2, <2>5
      <3>2. Cardinality(G(j)) = Cardinality(F(j)) + 1 /\ Cardinality(F(j)) \in Nat
        BY <3>1, Counting
      <3>3. Cardinality(F(j)) < Copies
        BY <1>5, <2>5 DEF Receives, Frames
      <3>4. /\ Cardinality(T(j)) <= Cardinality(U(j))
            /\ Cardinality(T(j)) \in Nat /\ Cardinality(U(j)) \in Nat
        BY <2>3, Counting
      <3>5. Cardinality(G(j)) <= Copies
        BY <1>c, <3>2, <3>3
      <3>6. prints[j] <= Cardinality(T(j)) /\ prints[j] \in Nat /\ prints'[j] = prints[j]
        BY <1>0, <2>1
      <3> HIDE DEF G, T, U
      <3> QED BY <3>4, <3>5, <3>6
    <2> QED BY <2>4, <2>5
  <1> QED BY <1>1, <1>2, <1>3, <1>4, <1>5 DEF Moves

\* Behind a "delivered" there is a print, and no file.
LEMMA DeliveredStep ==
  ASSUME Types, WorkersHaveJobs, DeliveredIsDone, Moves
  PROVE  DeliveredIsDone'
  <1> DEFINE Says(v) == stage[v] = "delivered" \/ <<v, "delivered">> \in sent
             Alone(v) == \A u \in Worker : job[u] = job[v] => u = v
  <1> SUFFICES ASSUME NEW v \in Worker
               PROVE  /\ <<v, "delivered">> \in sent' => stage'[v] = "over"
                      /\ stage'[v] = "remove" \/ Says(v)' => DevMode \/ prints'[job'[v]] > 0
                      /\ Says(v)' /\ Alone(v)' => file'[job'[v]] = None
    <2>1. \A v \in Worker : (Frames(job[v]) = {v})' <=> Alone(v)'
      BY DEF Frames
    <2> QED BY <2>1 DEF DeliveredIsDone
  <1>0. /\ <<v, "delivered">> \in sent => stage[v] = "over"
        /\ stage[v] = "remove" \/ Says(v) => DevMode \/ prints[job[v]] > 0
        /\ Says(v) /\ Alone(v) => file[job[v]] = None
    <2>1. (Frames(job[v]) = {v}) <=> Alone(v)
      BY DEF Frames
    <2> QED BY <2>1 DEF DeliveredIsDone
  <1>p. \A j \in Job : prints[j] \in Nat
    BY DEF Types
  <1>1. CASE Boots \/ UNCHANGED <<faults, boot, secrets, job, stage, memory, file, spoilt, prints, sent>>
    BY <1>0, <1>1 DEF Boots
  <1>2. CASE Stops
    <2>1. UNCHANGED <<job, file, spoilt, prints, sent>>
      BY <1>2 DEF Stops
    <2>2. /\ stage'[v] = stage[v] \/ stage'[v] = "killed"
          /\ stage[v] = "over" => stage'[v] = "over"
      BY <1>2 DEF Stops
    <2> QED BY <1>0, <2>1, <2>2
  <1>3. ASSUME NEW w \in Worker, NEW i \in Job, Receives(w, i)
        PROVE  /\ <<v, "delivered">> \in sent' => stage'[v] = "over"
               /\ stage'[v] = "remove" \/ Says(v)' => DevMode \/ prints'[job'[v]] > 0
               /\ Says(v)' /\ Alone(v)' => file'[job'[v]] = None
    <2>1. /\ stage[w] = "idle" /\ stage'[w] = "fetch" /\ Others(w) /\ job[w] = None
          /\ \A u \in Worker : u # w => job'[u] = job[u]
          /\ UNCHANGED <<file, spoilt, prints, sent>>
      BY <1>3 DEF Receives, WorkersHaveJobs
    <2>2. CASE v = w
      BY <1>0, <2>1, <2>2
    <2>3. CASE v # w
      <3>1. stage'[v] = stage[v] /\ job'[v] = job[v] /\ (Says(v)' <=> Says(v))
        BY <2>1, <2>3 DEF Others
      <3>2. ASSUME Says(v), Alone(v)' PROVE Alone(v)
        <4>1. job[v] \in Job
          BY <1>0, <3>2 DEF WorkersHaveJobs
        <4>2. job[v] # job[w]
          BY <2>1, <4>1, PipelineAssumption DEF None
        <4> QED BY <2>1, <3>1, <3>2, <4>2
      <3> QED BY <1>0, <2>1, <3>1, <3>2
    <2> QED BY <2>2, <2>3
  \* Another goroutine can touch only the file of its own job.
  <1>4. ASSUME NEW w \in Worker, w # v,
               \/ Advances(w) \/ Creates(w) \/ Writes(w) \/ Prints(w)
               \/ Jams(w) \/ Removes(w) \/ Reports(w)
        PROVE  /\ <<v, "delivered">> \in sent' => stage'[v] = "over"
               /\ stage'[v] = "remove" \/ Says(v)' => DevMode \/ prints'[job'[v]] > 0
               /\ Says(v)' /\ Alone(v)' => file'[job'[v]] = None
    <2>1. job' = job /\ stage'[v] = stage[v]
      BY <1>4 DEF Advances, Creates, Writes, Prints, Jams, Removes, Reports, Others
    <2>2. <<v, "delivered">> \in sent' => <<v, "delivered">> \in sent
      BY <1>4 DEF Advances, Creates, Writes, Prints, Jams, Removes, Reports
    <2>3. \A j \in Job : prints'[j] >= prints[j] /\ prints'[j] \in Int
      <3>1. CASE Prints(w)
        BY <3>1 DEF Prints
      <3>2. CASE prints' = prints
        BY <1>p, <3>2
      <3> QED
        BY <1>4, <3>1, <3>2 DEF Advances, Creates, Writes, Jams, Removes, Reports
    <2>4. \A j \in Job : j # job[w] => file'[j] = file[j]
      BY <1>4 DEF Advances, Creates, Writes, Prints, Jams, Removes, Reports, Becomes, Unlinks, Stays
    <2>5. stage[v] = "remove" \/ Says(v) => job[v] \in Job
      BY <1>0 DEF WorkersHaveJobs
    <2>6. Alone(v) => job[v] # job[w]
      BY <1>4
    <2> QED BY <1>0, <1>p, <2>1, <2>2, <2>3, <2>4, <2>5, <2>6
  <1>5. CASE \/ Advances(v) \/ Creates(v) \/ Writes(v) \/ Jams(v)
    <2>1. /\ job' = job /\ sent' = sent
          /\ stage'[v] \notin {"remove", "delivered"} /\ stage[v] # "over"
      BY <1>5 DEF Advances, Creates, Writes, Jams, Returned
    <2> QED BY <1>0, <2>1
  <1>6. CASE Prints(v)
    BY <1>0, <1>6 DEF Prints
  <1>7. CASE Removes(v)
    <2>1. /\ UNCHANGED <<job, sent, prints>> /\ stage[v] = "remove"
          /\ \/ stage'[v] = "delivered" /\ file'[job[v]] = None
             \/ stage'[v] = "failed"
      BY <1>7 DEF Removes, Returned, Becomes, Unlinks
    <2> QED BY <1>0, <2>1
  <1>8. CASE Reports(v)
    BY <1>0, <1>8 DEF Reports
  <1> QED
    BY <1>1, <1>2, <1>3, <1>4, <1>5, <1>6, <1>7, <1>8 DEF Moves

----------------------------------------------------------------------------
(* The theorems.                                                           *)

LEMMA InitPipeline == Init => Types /\ PipelineInv
  <1> SUFFICES ASSUME Init PROVE Types /\ PipelineInv
    OBVIOUS
  <1>1. Types
    BY PipelineAssumption DEF Init, Types, BootStage, Secrets, Stage, None
  <1>2. WorkersHaveJobs /\ KeyStages /\ BuffersWiped /\ FilesHaveOwners /\ DeliveredIsDone
    BY DEF Init, WorkersHaveJobs, KeyStages, BuffersWiped, FilesHaveOwners, DeliveredIsDone
  <1>3. PrintsCounted
    <2>0. None \notin Job
      BY PipelineAssumption DEF None
    <2>1. ASSUME NEW j \in Job PROVE Frames(j) = {} /\ Through(j) = {} /\ prints[j] = 0
      BY <2>0 DEF Init, Frames, Through
    <2>2. Cardinality({}) = 0 /\ Copies \in Nat
      BY FS_EmptySet, PipelineAssumption
    <2> QED BY <2>1, <2>2 DEF PrintsCounted
  <1> QED BY <1>1, <1>2, <1>3 DEF PipelineInv

LEMMA PipelineStep == Types /\ PipelineInv /\ [Next]_vars => Types' /\ PipelineInv'
  <1> SUFFICES ASSUME Types, PipelineInv, [Next]_vars PROVE Types' /\ PipelineInv'
    OBVIOUS
  <1>1. Types' /\ Moves
    BY StepMoves DEF PipelineInv
  <1> QED
    BY <1>1, KeyStep, JobsStep, BuffersStep, FilesStep, CountStep, DeliveredStep DEF PipelineInv

\* Every variable stays in its range; in particular no document comes out of the
\* printer more often than dispatch frames of it came down.
THEOREM TypeCorrect == Spec => []TypeOK
  <1>1. Types /\ PipelineInv => TypeOK
    <2> SUFFICES ASSUME Types, PipelineInv PROVE prints \in [Job -> 0..Copies]
      BY DEF Types, TypeOK
    <2>1. ASSUME NEW j \in Job PROVE prints[j] \in 0..Copies
      <3>1. Through(j) \subseteq Frames(j) /\ Through(j) \in SUBSET Worker /\ Frames(j) \in SUBSET Worker
        BY DEF Through, Frames
      <3>2. /\ Cardinality(Through(j)) <= Cardinality(Frames(j))
            /\ Cardinality(Through(j)) \in Nat /\ Cardinality(Frames(j)) \in Nat
        BY <3>1, Counting
      <3> QED BY <3>2, PipelineAssumption DEF PipelineInv, PrintsCounted, Types
    <2> QED BY <2>1 DEF Types
  <1> QED
    BY <1>1, InitPipeline, PipelineStep, PTL DEF Spec

\* No document is left behind: when no goroutine works on a job its file is gone,
\* for any number of goroutines that trip over each other's files and whatever
\* fails, but for a file whose write or unlink failed itself; and of the key's
\* material only the passphrase's string, pbkdf2Key's working block, or a key that
\* was never encrypted, is left when the first job comes.
THEOREM NothingIsLeft == Spec => []NoResidue
  <1>1. Types /\ PipelineInv => NoResidue
    <2> SUFFICES ASSUME Types, PipelineInv PROVE NoResidue
      OBVIOUS
    <2>1. ASSUME NEW j \in Job \ spoilt, \A w \in Frames(j) : Settled(w)
          PROVE  file[j] = None
      BY <2>1 DEF PipelineInv, FilesHaveOwners, Settled
    <2> QED BY <2>1 DEF PipelineInv, KeyStages, NoResidue
  <1> QED
    BY <1>1, InitPipeline, PipelineStep, PTL DEF Spec

\* "delivered" is only ever reported for a document that came out and is wiped: of
\* a job with one frame, even if the tmpfs, lp or the unlink fails (processJob: a
\* nil return is the license to send "delivered").
THEOREM DeliveredMeansWiped == Spec => []DeliveredIsWiped
  <1>1. Types /\ PipelineInv => DeliveredIsWiped
    BY DEF PipelineInv, DeliveredIsDone, BuffersWiped, Settled, DeliveredIsWiped
  <1> QED
    BY <1>1, InitPipeline, PipelineStep, PTL DEF Spec
============================================================================
