--------------------------- MODULE PrintPipeline ---------------------------
(***************************************************************************)
(* The printer's decrypt, print and wipe pipeline.  Every dispatch frame   *)
(* gets a goroutine that runs handleDispatch and processJob; they share    *)
(* the tmpfs, where a job's file is named after the job, and the           *)
(* connection, whose context ends when it breaks.  The same job may come   *)
(* down twice (module Dispatch), so two goroutines may share a file.       *)
(* Before any of that the process loads its document key with a passphrase *)
(* from the environment; it ends with a signal, whatever its goroutines    *)
(* are doing.                                                              *)
(***************************************************************************)
EXTENDS Naturals, FiniteSets

CONSTANTS
    Worker,      \* goroutines of dispatch frames
    Job,
    Openable,    \* the jobs whose key and ciphertext this printer can open
    DevMode,     \* cfg.DevMode: everything but the lp call
    MaxConn,     \* bound: connections made
    Copies,      \* bound: dispatch frames of one job
    Environments  \* the sets of faults to consider: subsets of FaultKinds

\* "break"   the connection breaks
\* "fetch"   the blob cannot be fetched
\* "stall"   the blob server stops answering and keeps the connection open
\* "open"    the tmpfs file cannot be created
\* "short"   the tmpfs is full before the file is written
\* "lp"      lp fails
\* "unlink"  the file cannot be removed
\* "hang"    lp never returns
\* "boot"    configuration, passphrase or key file are not as they should be
\* "plain"   the key file holds an unencrypted key
\* "stop"    the process is told to stop
FaultKinds == {"break", "fetch", "stall", "open", "short", "lp", "unlink", "hang", "boot", "plain",
               "stop"}

ASSUME PipelineAssumption ==
    /\ IsFiniteSet(Worker) /\ "none" \notin Job
    /\ Openable \subseteq Job /\ DevMode \in BOOLEAN
    /\ MaxConn \in Nat \ {0} /\ Copies \in Nat /\ Environments \subseteq SUBSET FaultKinds

VARIABLES
    faults,  \* what may go wrong in this behaviour, chosen at the start
    boot,    \* how far main is
    secrets, \* key material in the clear: the variable, the string read from it, the
             \* passphrase's copy, the derived key, pbkdf2Key's working block, the
             \* decrypted PKCS#8
    conn,    \* the number of the current connection
    job,     \* the job of each goroutine
    epoch,   \* the connection its frame came from
    stage,   \* where it is
    memory,  \* the sensitive buffers it holds in the clear
    file,    \* the tmpfs file of each job
    spoilt,  \* history: the jobs with a file whose write or unlink failed last
    prints,  \* how often each job came out of the printer
    sent     \* final status frames that were written to a live connection

bootVars == <<boot, secrets>>
vars == <<faults, bootVars, conn, job, epoch, stage, memory, file, spoilt, prints, sent>>

None    == "none"
Stage   == {"idle", "fetch", "stalled", "decode", "unwrap", "decrypt", "create", "write",
            "print", "hung", "remove", "delivered", "failed", "over", "killed"}
BootStage == {"config", "passphrase", "read", "derive", "decrypt", "parse", "up", "dead",
              "stopped"}
Secrets == {"env", "string", "pass", "dk", "block", "der"}
Buffers == {"blob", "wrapped", "aes", "pdf"}

\* Every variable stays in its range; no more frames of a job than were sent.
TypeOK ==
    /\ faults \in Environments
    /\ boot \in BootStage /\ secrets \subseteq Secrets
    /\ conn \in 1..MaxConn
    /\ job \in [Worker -> Job \cup {None}] /\ epoch \in [Worker -> 0..MaxConn]
    /\ stage \in [Worker -> Stage] /\ memory \in [Worker -> SUBSET Buffers]
    /\ file \in [Job -> {None, "partial", "whole"}] /\ spoilt \subseteq Job
    /\ prints \in [Job -> 0..Copies]
    /\ sent \subseteq Worker \X {"delivered", "failed"}

Init ==
    /\ faults \in Environments
    /\ boot = "config" /\ secrets = {"env"} /\ conn = 1
    /\ job = [w \in Worker |-> None] /\ epoch = [w \in Worker |-> 0]
    /\ stage = [w \in Worker |-> "idle"] /\ memory = [w \in Worker |-> {}]
    /\ file = [j \in Job |-> None] /\ spoilt = {} /\ prints = [j \in Job |-> 0]
    /\ sent = {}

Goto(w, s)   == stage' = [stage EXCEPT ![w] = s]
Cancelled(w) == epoch[w] # conn
Frames(j)    == {w \in Worker : job[w] = j}

\* processJob returns: its defers zero every buffer, and only then does
\* handleDispatch report the outcome.
Return(w, outcome) ==
    /\ Goto(w, outcome) /\ memory' = [memory EXCEPT ![w] = {}]

\* os.Remove works, or an existing file stays where it is.
Unlink(j) == file' = [file EXCEPT ![j] = None] /\ spoilt' = spoilt \ {j}
UnlinkFails(j) ==
    /\ "unlink" \in faults /\ UNCHANGED file
    /\ spoilt' = IF file[j] = None THEN spoilt ELSE spoilt \cup {j}

\* A step of processJob that fills one buffer, or fails.
Obtain(w, from, buffer, to, works, fails) ==
    /\ stage[w] = from
    /\ \/ works /\ Goto(w, to) /\ memory' = [memory EXCEPT ![w] = @ \cup {buffer}]
       \/ fails /\ Return(w, "failed")
    /\ UNCHANGED <<faults, bootVars, conn, job, epoch, file, spoilt, prints, sent>>

----------------------------------------------------------------------------
(* main: loadConfig, then loadDocKey, then runClient.                      *)

workers == <<conn, job, epoch, stage, memory, file, spoilt, prints, sent>>

\* A step on the way, or log.Fatal, which ends the process and its memory.
Boot(from, to, held) ==
    /\ boot = from
    /\ \/ boot' = to /\ secrets' = held
       \/ "boot" \in faults /\ boot' = "dead" /\ secrets' = {}
    /\ UNCHANGED <<faults, workers>>

LoadConfig == Boot("config", "passphrase", secrets)

\* The variable is unset as soon as it is read.  The string it was read into
\* cannot be wiped; only the copy that is made of it can.
TakePassphrase == Boot("passphrase", "read", (secrets \ {"env"}) \cup {"string", "pass"})

\* ReadFile, pem.Decode, and the type of the block.
ReadKey ==
    IF "plain" \in faults THEN Boot("read", "parse", secrets \cup {"der"})
                          ELSE Boot("read", "derive", secrets)

\* decryptPBES2: the parameters are checked and pbkdf2Key runs; then the key is
\* decrypted and its padding checked, and the derived key is zeroed.
DeriveKey == Boot("derive", "decrypt", secrets \cup {"dk", "block"})
DecryptKey == Boot("decrypt", "parse", (secrets \ {"dk"}) \cup {"der"})

\* ParsePKCS8PrivateKey; the defers zero what was decrypted, and the passphrase.
ParseKey == Boot("parse", "up", secrets \ (IF "plain" \in faults THEN {"pass"} ELSE {"pass", "der"}))

LoadDocKey == TakePassphrase \/ ReadKey \/ DeriveKey \/ DecryptKey \/ ParseKey

\* SIGTERM: runClient returns and main with it; nobody waits for the goroutines.
Stop ==
    /\ "stop" \in faults /\ boot = "up" /\ boot' = "stopped" /\ secrets' = {}
    /\ stage' = [w \in Worker |-> IF stage[w] \in {"idle", "over"} THEN stage[w] ELSE "killed"]
    /\ memory' = [w \in Worker |-> {}]
    /\ UNCHANGED <<faults, conn, job, epoch, file, spoilt, prints, sent>>

----------------------------------------------------------------------------
(* processJob.                                                             *)

\* readLoop starts handleDispatch, which sends "printing".
Receive(w, j) ==
    /\ boot = "up" /\ stage[w] = "idle" /\ Cardinality(Frames(j)) < Copies
    /\ job' = [job EXCEPT ![w] = j] /\ epoch' = [epoch EXCEPT ![w] = conn]
    /\ Goto(w, "fetch")
    /\ UNCHANGED <<faults, bootVars, conn, memory, file, spoilt, prints, sent>>

\* fetchBlob, under the connection's context.
FetchBlob(w) ==
    \/ Obtain(w, "fetch", "blob", "decode", ~Cancelled(w), Cancelled(w) \/ "fetch" \in faults)
    \/ Obtain(w, "stalled", "blob", "decode", FALSE, Cancelled(w))

\* http.DefaultClient has no timeout: a server that goes silent holds the request
\* as long as the connection lives.
Stall(w) ==
    /\ "stall" \in faults /\ stage[w] = "fetch" /\ Goto(w, "stalled")
    /\ UNCHANGED <<faults, bootVars, conn, job, epoch, memory, file, spoilt, prints, sent>>

\* The base64 of encrypted_key is the cloud's own encoding and always decodes.
DecodeKey(w)     == Obtain(w, "decode", "wrapped", "unwrap", TRUE, FALSE)
DecryptAESKey(w) == Obtain(w, "unwrap", "aes", "decrypt", TRUE, job[w] \notin Openable)
DecryptDocument(w) ==
    Obtain(w, "decrypt", "pdf", "create", job[w] \in Openable, job[w] \notin Openable)

\* os.WriteFile opens the file and truncates it ...
CreateFile(w) ==
    /\ stage[w] = "create"
    /\ \/ file' = [file EXCEPT ![job[w]] = "partial"] /\ Goto(w, "write") /\ UNCHANGED memory
       \/ "open" \in faults /\ Return(w, "failed") /\ UNCHANGED file
    /\ UNCHANGED <<faults, bootVars, conn, job, epoch, spoilt, prints, sent>>

\* ... and writes the document.  A file that another goroutine has unlinked in
\* between is written all the same, under no name.
WriteFile(w) ==
    /\ stage[w] = "write"
    /\ \/ /\ file' = [file EXCEPT ![job[w]] = IF @ = None THEN None ELSE "whole"]
          /\ Goto(w, "print") /\ UNCHANGED <<memory, spoilt>>
       \/ /\ "short" \in faults /\ Return(w, "failed") /\ UNCHANGED file
          /\ spoilt' = IF file[job[w]] = None THEN spoilt ELSE spoilt \cup {job[w]}
    /\ UNCHANGED <<faults, bootVars, conn, job, epoch, prints, sent>>

\* printDocument: lp needs the file.  If it fails the file is removed and any
\* error of that is logged.
LpFails(w) == ~DevMode /\ (file[job[w]] = None \/ "lp" \in faults)
PrintKeepsFile(w) ==
    /\ stage[w] = "print"
    /\ \/ /\ DevMode \/ file[job[w]] # None
          /\ Goto(w, "remove") /\ UNCHANGED <<memory, file, spoilt>>
          /\ prints' = IF DevMode THEN prints ELSE [prints EXCEPT ![job[w]] = @ + 1]
       \/ LpFails(w) /\ Return(w, "failed") /\ UNCHANGED <<file, spoilt, prints>>
    /\ UNCHANGED <<faults, bootVars, conn, job, epoch, sent>>
PrintFile(w) ==
    /\ stage[w] = "print"
    /\ \/ /\ DevMode \/ file[job[w]] # None
          /\ Goto(w, "remove") /\ UNCHANGED <<memory, file, spoilt>>
          /\ prints' = IF DevMode THEN prints ELSE [prints EXCEPT ![job[w]] = @ + 1]
       \/ /\ LpFails(w) /\ Return(w, "failed") /\ UNCHANGED prints
          /\ Unlink(job[w]) \/ UnlinkFails(job[w])
    /\ UNCHANGED <<faults, bootVars, conn, job, epoch, sent>>

\* lp is run without a context: nothing ends it.
Hang(w) ==
    /\ "hang" \in faults /\ ~DevMode /\ stage[w] = "print" /\ Goto(w, "hung")
    /\ UNCHANGED <<faults, bootVars, conn, job, epoch, memory, file, spoilt, prints, sent>>

\* os.Remove: no file is an error too, and an error is a failed job.
RemoveIgnored(w) ==
    /\ stage[w] = "remove" /\ Return(w, "delivered")
    /\ Unlink(job[w]) \/ UnlinkFails(job[w])
    /\ UNCHANGED <<faults, bootVars, conn, job, epoch, prints, sent>>
RemoveFile(w) ==
    /\ stage[w] = "remove"
    /\ \/ file[job[w]] # None /\ Unlink(job[w]) /\ Return(w, "delivered")
       \/ /\ \/ file[job[w]] = None /\ UNCHANGED <<file, spoilt>>
             \/ UnlinkFails(job[w])
          /\ Return(w, "failed")
    /\ UNCHANGED <<faults, bootVars, conn, job, epoch, prints, sent>>

----------------------------------------------------------------------------
(* Reporting, and the connection.                                          *)

\* send: the frame goes to the connection the dispatch came from, or nowhere.
ReportDelivered(w) ==
    /\ stage[w] \in {"delivered", "failed"} /\ Goto(w, "over")
    /\ sent' = IF Cancelled(w) \/ stage[w] = "failed" THEN sent ELSE sent \cup {<<w, stage[w]>>}
    /\ UNCHANGED <<faults, bootVars, conn, job, epoch, memory, file, spoilt, prints>>
ReportLate(w) ==
    /\ stage[w] \in {"delivered", "failed"} /\ Goto(w, "over")
    /\ sent' = IF Cancelled(w) THEN sent ELSE sent \cup {<<w, stage'[w]>>}
    /\ UNCHANGED <<faults, bootVars, conn, job, epoch, memory, file, spoilt, prints>>
Report(w) ==
    /\ stage[w] \in {"delivered", "failed"} /\ Goto(w, "over")
    /\ sent' = IF Cancelled(w) THEN sent ELSE sent \cup {<<w, stage[w]>>}
    /\ UNCHANGED <<faults, bootVars, conn, job, epoch, memory, file, spoilt, prints>>

\* The connection breaks and runClient makes another.
Reconnect ==
    /\ "break" \in faults /\ boot = "up" /\ conn < MaxConn /\ conn' = conn + 1
    /\ UNCHANGED <<faults, bootVars, job, epoch, stage, memory, file, spoilt, prints, sent>>

Work(w) ==
    \/ FetchBlob(w) \/ DecodeKey(w) \/ DecryptAESKey(w) \/ DecryptDocument(w)
    \/ CreateFile(w) \/ WriteFile(w) \/ PrintFile(w) \/ RemoveFile(w) \/ Report(w)

Next == \/ LoadConfig \/ LoadDocKey \/ Stop
        \/ \E w \in Worker : Work(w) \/ Stall(w) \/ Hang(w) \/ \E j \in Job : Receive(w, j)
        \/ Reconnect

Spec == Init /\ [][Next]_vars
FairSpec == Spec /\ \A w \in Worker : WF_vars(Work(w))

----------------------------------------------------------------------------
(* Properties.                                                             *)

Settled(w) == stage[w] \in {"idle", "delivered", "failed", "over"}

\* No document is left behind: once no goroutine works on a job there is no file
\* of it, on any path and however goroutines of the same job trip over each
\* other's files ("it must not outlive this function on any path", processJob).
\* A file stays in two cases only, and until a later frame of the job removes it:
\* its unlink failed, or os.WriteFile failed half way, since that path returns
\* without removing what was written.  Of the key's material the first job finds
\* the passphrase's string and pbkdf2Key's working block, which nothing wipes, and
\* a key that was never encrypted.
NoResidue ==
    /\ \A j \in Job \ spoilt : (\A w \in Frames(j) : Settled(w)) => file[j] = None
    /\ boot = "up" =>
          secrets \subseteq {"string", "block"} \cup (IF "plain" \in faults THEN {"der"} ELSE {})

\* "delivered" is only ever reported for a document that came out whole and is
\* wiped: of a job with one frame, even if the tmpfs, lp or the unlink fails
\* ("a nil return is the caller's license to send delivered", processJob).
DeliveredIsWiped ==
    \A w \in Worker :
      (stage[w] = "delivered" \/ <<w, "delivered">> \in sent) /\ Frames(job[w]) = {w} =>
        /\ file[job[w]] = None /\ memory[w] = {}
        /\ DevMode \/ prints[job[w]] > 0

\* The cloud learns how every dispatch ended, unless the connection it came from
\* has gone (handleDispatch sends "delivered" or "failed" on every path), the
\* process was stopped, or this one goroutine, and no other, waits: for lp, which
\* nothing ends, or for a silent blob server, which only the end of the connection
\* ends.  Once the connection has gone no goroutine waits for the blob any more.
EndIsReported ==
    \A w \in Worker :
      /\ stage[w] = "fetch" ~> \/ Cancelled(w) \/ stage[w] \in {"hung", "stalled", "killed"}
                              \/ \E s \in {"delivered", "failed"} : <<w, s>> \in sent
      /\ stage[w] \in {"fetch", "stalled"} /\ Cancelled(w)
            ~> stage[w] \in {"over", "hung", "killed"}

----------------------------------------------------------------------------
(* Why they hold: an inductive invariant.                                  *)

WorkersHaveJobs == \A w \in Worker : IF stage[w] = "idle" THEN job[w] = None ELSE job[w] \in Job

\* A document comes out once for each goroutine that got past lp, and no more
\* goroutines have a job than frames of it came down.
Through(j) == {w \in Frames(j) : stage[w] \in {"remove", "delivered", "failed", "over", "killed"}}
PrintsCounted ==
    \A j \in Job : Cardinality(Frames(j)) <= Copies /\ prints[j] <= Cardinality(Through(j))

\* What loadDocKey holds at each of its steps.
KeyStages ==
    /\ boot \in {"config", "passphrase"} => secrets \subseteq {"env"}
    /\ boot \in {"read", "derive"} => secrets \subseteq {"string", "pass"}
    /\ boot = "decrypt" => secrets \subseteq {"string", "pass", "dk", "block"}
    /\ boot \in {"derive", "decrypt"} => "plain" \notin faults
    /\ boot = "parse" => /\ secrets \subseteq {"string", "pass", "block", "der"}
                         /\ "plain" \in faults => secrets \subseteq {"string", "pass", "der"}
    /\ boot = "up" =>
          secrets \subseteq {"string", "block"} \cup (IF "plain" \in faults THEN {"der"} ELSE {})

BuffersWiped == \A w \in Worker : Settled(w) => memory[w] = {}

\* A file in the tmpfs has a goroutine that will remove it, unless that hangs or
\* was killed, or it is one that stayed.
FilesHaveOwners ==
    \A j \in Job \ spoilt : file[j] # None =>
        \E w \in Frames(j) : stage[w] \in {"write", "print", "hung", "remove", "killed"}

\* Behind a "delivered" there is a print, and no file that another frame of the
\* same job has not made.
DeliveredIsDone ==
    \A w \in Worker :
        /\ <<w, "delivered">> \in sent => stage[w] = "over"
        /\ stage[w] \in {"remove", "delivered"} \/ <<w, "delivered">> \in sent
              => DevMode \/ prints[job[w]] > 0
        /\ (stage[w] = "delivered" \/ <<w, "delivered">> \in sent) /\ Frames(job[w]) = {w}
              => file[job[w]] = None

PipelineInv == /\ WorkersHaveJobs /\ PrintsCounted /\ KeyStages /\ BuffersWiped
               /\ FilesHaveOwners /\ DeliveredIsDone
============================================================================
