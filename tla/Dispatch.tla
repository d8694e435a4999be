------------------------------ MODULE Dispatch ------------------------------
(***************************************************************************)
(* The dispatch path of the cloud tier: how a submitted job gets from      *)
(* POST /jobs to exactly one dispatch frame on its printer's socket.       *)
(*                                                                         *)
(* Actors: one request goroutine per job (handlers.CreateJob calling       *)
(* dispatch.TryDispatch), one dispatcher goroutine per cloud node          *)
(* (Dispatcher.Run calling Retry), the printer-link hub (onStatus) and the *)
(* printer unit (one handleDispatch goroutine per dispatch frame).  They   *)
(* share the jobs row and its row lock (Postgres), the jobs:pending stream *)
(* with its consumer group, the cached printer state and the dispatch      *)
(* channel (Redis), and the ciphertext blob (MinIO).                       *)
(*                                                                         *)
(* Every call to one of these services is a step of its own, so the actors *)
(* interleave between any two of them.  What may go wrong is chosen by the *)
(* variable faults, a member of the constant Environments.                 *)
(***************************************************************************)
EXTENDS Naturals, FiniteSets, Sequences

CONSTANTS
    Job,              \* jobs; a job also names the request goroutine that creates it
    Node,             \* cloud nodes; a node also names its consumer in the group
    Mailbox,          \* printer units
    MailboxOf,        \* the mailbox a job is routed to (its JobRef.MailboxID)
    Environments,  \* the sets of faults to consider: subsets of FaultKinds
    BatchSize,        \* Count of XREADGROUP and XAUTOCLAIM (10 in the code)
    Page,             \* entries one XAUTOCLAIM looks at (10 * Count in Redis)
    MaxDrainBatches,  \* maxDrainBatches (20 in the code)
    MaxFrames,        \* bound: dispatch frames that reach a printer, per job
    None              \* no worker, no job

Worker == Job \cup Node

(***************************************************************************)
(* "db"         a Postgres statement fails and changes nothing             *)
(* "commitLost" COMMIT is applied but reported as failed                   *)
(* "redis"      a Redis command fails and changes nothing                  *)
(* "ackLost"    PUBLISH is performed but reported as failed                *)
(* "minio"      presigning, or deleting, a blob fails                      *)
(* "crash"      a node or a request dies between two calls                 *)
(* "link"       a printer's socket breaks, noticed at once or later        *)
(* "slow"       an entry passes claimMinIdle while a live node still has   *)
(*              it in the batch it is working through                      *)
(* A cancelled request context, or handleTimeout, makes every later call   *)
(* of the attempt fail: "db", "redis" and "minio" choose call by call and  *)
(* so include that case.                                                   *)
(***************************************************************************)
FaultKinds == {"db", "commitLost", "redis", "ackLost", "minio", "crash", "link", "slow"}

ASSUME ActorsAssumption ==
    /\ Job \cap Node = {}
    /\ None \notin Worker
    /\ MailboxOf \in [Job -> Mailbox]

ASSUME BoundsAssumption ==
    /\ Environments \subseteq SUBSET FaultKinds
    /\ BatchSize \in Nat \ {0} /\ Page \in Nat \ {0}
    /\ MaxDrainBatches \in Nat \ {0}
    /\ MaxFrames \in Nat \ {0}

VARIABLES
    faults,  \* what may go wrong in this behaviour, chosen at the start
    \* Postgres
    row,     \* jobs.status, "none" before InsertJob
    lock,    \* the worker whose claim transaction holds the row's lock
    audit,   \* the set of audit_events actions recorded for the job
    \* Redis: jobs:pending and the consumer group "dispatchers"
    entry,   \* the job's stream entry: "none", "new", "pel" or "acked"
    owner,   \* the consumer whose PEL holds the entry
    aged,    \* the PEL entry has been idle for at least claimMinIdle
    \* Redis: the printer
    open,    \* eligible(mailbox, slot) as the cached printer state answers it
    link,    \* who listens on mailbox:<id>:dispatch: "down", "up" or "stale"
    bell,    \* an unread mailbox:*:available event in the node's subscription
    \* MinIO
    blob,    \* the job's ciphertext still exists
    \* workers
    pc,      \* where a request or a dispatcher is
    cur,     \* the job it has in hand
    reply,   \* what POST /jobs answered
    phase,   \* what a dispatcher's Run loop is doing
    batch,   \* entries a dispatcher has read but not handled yet
    rounds,  \* XREADGROUP calls left in this drain
    \* printer unit
    frame,   \* the state of each dispatch frame that a hub has relayed
    sent,    \* how many there are
    cut,     \* the frames whose socket is gone
    up,      \* status frames sent by the printer and not yet read by the hub
    todo     \* what onStatus has still to do for a report it has stored

rowVars     == <<row, lock, audit>>
streamVars  == <<entry, owner, aged>>
stateVars   == <<open, link, bell>>
loopVars    == <<phase, batch, rounds>>
attemptVars == <<pc, cur, reply>>
printerVars == <<frame, sent, cut, up, todo>>
vars == <<faults, rowVars, streamVars, stateVars, blob, attemptVars, loopVars, printerVars>>

----------------------------------------------------------------------------
(* Vocabulary.                                                             *)

Status == {"none", "submitted", "queued", "dispatching", "printing", "delivered", "failed"}

\* The statuses LockJobForDispatch selects.
ClaimableAlsoDispatching == {"submitted", "queued", "dispatching"}
Claimable == {"submitted", "queued"}

AttemptPC == {"eligible", "claim", "mark", "presign", "publish",
              "revertBlocked", "revertError", "audit"}
RequestPC == {"idle", "inserted", "enqueue", "done"} \cup AttemptPC
DispatcherPC == {"down", "loop", "ack"} \cup AttemptPC

\* After the claim committed and before the attempt has returned.
Window == {"presign", "publish", "revertBlocked", "revertError", "audit"}

AuditAction == {"job_submitted", "job_dispatched", "job_printing",
                "job_delivered", "job_failed", "blob_deleted"}

\* What onStatus has left to do: delete the blob, record its deletion.
Errand == {"wipe", "record"}

FrameStage == {"none", "wire", "started", "fetched", "printed", "failed", "lost"}

\* Entries no consumer has read yet, entries XAUTOCLAIM may take over.
NewEntries  == {j \in Job : entry[j] = "new"}
AgedEntries == {j \in Job : entry[j] = "pel" /\ aged[j]}

\* What one XREADGROUP or XAUTOCLAIM call returns out of S: Count entries, or all.
Batches(S) ==
    {B \in SUBSET S : Cardinality(B) = IF Cardinality(S) < BatchSize
                                         THEN Cardinality(S) ELSE BatchSize}

\* The job is in the batch of a running dispatcher, or in its hands.
Held(j) == \E n \in Node : j \in batch[n] \/ cur[n] = j

----------------------------------------------------------------------------
RowType ==
    /\ row    \in [Job -> Status]
    /\ lock   \in [Job -> Worker \cup {None}]
    /\ audit  \in [Job -> SUBSET AuditAction]
    /\ blob   \in [Job -> BOOLEAN]

StreamType ==
    /\ entry  \in [Job -> {"none", "new", "pel", "acked"}]
    /\ owner  \in [Job -> Node \cup {None}]
    /\ aged   \in [Job -> BOOLEAN]

StateType ==
    /\ open   \in [Mailbox -> BOOLEAN]
    /\ link   \in [Mailbox -> {"down", "up", "stale"}]
    /\ bell   \in [Node -> BOOLEAN]

AttemptType ==
    /\ pc     \in [Worker -> RequestPC \cup DispatcherPC]
    /\ cur    \in [Worker -> Job \cup {None}]
    /\ reply  \in [Job -> {"none", "queued", "dispatching", "error"}]

LoopType ==
    /\ phase  \in [Node -> {"select", "reclaim", "drain"}]
    /\ batch  \in [Node -> SUBSET Job]
    /\ rounds \in [Node -> 0..MaxDrainBatches]

PrinterType ==
    /\ frame  \in [Job -> [1..MaxFrames -> FrameStage]]
    /\ sent   \in [Job -> 0..MaxFrames]
    /\ cut    \in [Job -> SUBSET (1..MaxFrames)]
    /\ up     \in [Job -> Seq({"printing", "delivered", "failed"})]
    /\ todo   \in [Job -> SUBSET Errand]

\* Every variable stays in its range.
TypeOK ==
    /\ faults \in Environments /\ RowType /\ StreamType /\ StateType
    /\ AttemptType /\ LoopType /\ PrinterType

\* No job submitted, every node in Run's first drain, no printer connected.
Init ==
    /\ faults \in Environments
    /\ row    = [j \in Job |-> "none"]
    /\ lock   = [j \in Job |-> None]
    /\ audit  = [j \in Job |-> {}]
    /\ entry  = [j \in Job |-> "none"]
    /\ owner  = [j \in Job |-> None]
    /\ aged   = [j \in Job |-> FALSE]
    /\ open   = [m \in Mailbox |-> FALSE]
    /\ link   = [m \in Mailbox |-> "down"]
    /\ bell   = [n \in Node |-> FALSE]
    /\ blob   = [j \in Job |-> TRUE]
    /\ pc     = [w \in Worker |-> IF w \in Job THEN "idle" ELSE "loop"]
    /\ cur    = [w \in Worker |-> IF w \in Job THEN w ELSE None]
    /\ reply  = [j \in Job |-> "none"]
    /\ phase  = [n \in Node |-> "drain"]
    /\ batch  = [n \in Node |-> {}]
    /\ rounds = [n \in Node |-> MaxDrainBatches]
    /\ frame  = [j \in Job |-> [k \in 1..MaxFrames |-> "none"]]
    /\ sent   = [j \in Job |-> 0]
    /\ cut    = [j \in Job |-> {}]
    /\ up     = [j \in Job |-> <<>>]
    /\ todo   = [j \in Job |-> {}]

----------------------------------------------------------------------------
(* CreateJob, up to the call of TryDispatch.                               *)

\* InsertJob: the row appears as 'submitted'.  The blob was uploaded before.
InsertJob(j) ==
    /\ pc[j] = "idle"
    /\ row' = [row EXCEPT ![j] = "submitted"]
    /\ pc' = [pc EXCEPT ![j] = "inserted"]
    /\ UNCHANGED <<faults, lock, audit, streamVars, stateVars, blob, cur, reply, loopVars, printerVars>>

\* The job_submitted audit event.  If it cannot be written the request answers
\* 500 and never dispatches.
AuditSubmitted(j) ==
    /\ pc[j] = "inserted"
    /\ \/ /\ audit' = [audit EXCEPT ![j] = @ \cup {"job_submitted"}]
          /\ pc' = [pc EXCEPT ![j] = "eligible"]
          /\ UNCHANGED <<faults, reply>>
       \/ /\ "db" \in faults
          /\ pc' = [pc EXCEPT ![j] = "done"]
          /\ reply' = [reply EXCEPT ![j] = "error"]
          /\ UNCHANGED <<faults, audit>>
    /\ UNCHANGED <<faults, row, lock, streamVars, stateVars, blob, cur, loopVars, printerVars>>

----------------------------------------------------------------------------
(* What the two callers of attemptDispatch do with its outcome.            *)

\* TryDispatch: a blocked job still has to be enqueued, anything else is the
\* answer of the request ("settled" is reported as "dispatching").
TryDispatch(w, outcome) ==
    /\ w \in Job
    /\ pc' = [pc EXCEPT ![w] = IF outcome = "blocked" THEN "enqueue" ELSE "done"]
    /\ reply' = IF outcome = "blocked" THEN reply
                ELSE [reply EXCEPT ![w] = IF outcome = "error" THEN "error" ELSE "dispatching"]
    /\ UNCHANGED <<faults, cur>>

\* Retry and handle: the entry is acknowledged unless the job is still blocked
\* or the attempt failed; those stay in the PEL.
RetryAcksBlocked(w, outcome) ==
    /\ w \in Node
    /\ pc' = [pc EXCEPT ![w] = IF outcome = "error" THEN "loop" ELSE "ack"]
    /\ cur' = [cur EXCEPT ![w] = IF outcome = "error" THEN None ELSE @]
    /\ UNCHANGED <<faults, reply>>
Retry(w, outcome) ==
    /\ w \in Node
    /\ pc' = [pc EXCEPT ![w] = IF outcome \in {"blocked", "error"} THEN "loop" ELSE "ack"]
    /\ cur' = [cur EXCEPT ![w] = IF outcome \in {"blocked", "error"} THEN None ELSE @]
    /\ UNCHANGED <<faults, reply>>

Return(w, outcome) == TryDispatch(w, outcome) \/ Retry(w, outcome)

Goto(w, label) == pc' = [pc EXCEPT ![w] = label] /\ UNCHANGED <<faults, cur, reply>>

----------------------------------------------------------------------------
(* attemptDispatch, one step per call to Postgres, MinIO or Redis.         *)

\* eligible: reads the cached printer state; an error counts as not eligible.
CheckEligible(w) ==
    /\ pc[w] = "eligible"
    /\ \/ open[MailboxOf[cur[w]]] /\ Goto(w, "claim")
       \/ (~open[MailboxOf[cur[w]]] \/ "redis" \in faults) /\ Return(w, "blocked")
    /\ UNCHANGED <<faults, rowVars, streamVars, stateVars, blob, loopVars, printerVars>>

\* LockJobForDispatch: SELECT ... FOR UPDATE NOWAIT over the claimable rows.
\* claimSettled when the row is not claimable, claimLost when it is locked.
LockJobForDispatch(w) ==
    LET j == cur[w] IN
    /\ pc[w] = "claim"
    /\ \/ /\ row[j] \in Claimable /\ lock[j] = None
          /\ lock' = [lock EXCEPT ![j] = w]
          /\ Goto(w, "mark")
       \/ /\ row[j] \in Claimable /\ lock[j] # None
          /\ Return(w, "blocked") /\ UNCHANGED <<faults, lock>>
       \/ /\ row[j] \notin Claimable
          /\ Return(w, "settled") /\ UNCHANGED <<faults, lock>>
       \/ /\ "db" \in faults
          /\ Return(w, "error") /\ UNCHANGED <<faults, lock>>
    /\ UNCHANGED <<faults, row, audit, streamVars, stateVars, blob, loopVars, printerVars>>

\* MarkJobDispatching and COMMIT: the row changes and its lock goes away in
\* one step; a failure rolls back.
MarkJobDispatching(w) ==
    LET j == cur[w] IN
    /\ pc[w] = "mark"
    /\ lock' = [lock EXCEPT ![j] = None]
    /\ \/ row' = [row EXCEPT ![j] = "dispatching"] /\ Goto(w, "presign")
       \/ "commitLost" \in faults /\ row' = [row EXCEPT ![j] = "dispatching"] /\ Return(w, "error")
       \/ "db" \in faults /\ UNCHANGED row /\ Return(w, "error")
    /\ UNCHANGED <<faults, audit, streamVars, stateVars, blob, loopVars, printerVars>>

\* PresignedReadURL and marshalling the frame.
Presign(w) ==
    /\ pc[w] = "presign"
    /\ \/ Goto(w, "publish")
       \/ "minio" \in faults /\ Goto(w, "revertError")
    /\ UNCHANGED <<faults, rowVars, streamVars, stateVars, blob, loopVars, printerVars>>

\* The subscribed node's pumpDispatch relays what it receives to its socket.
\* A subscription whose socket is already dead receives the message and drops it.
Relay(j) ==
    /\ sent[j] < MaxFrames
    /\ sent' = [sent EXCEPT ![j] = @ + 1]
    /\ frame' = [frame EXCEPT ![j][sent[j] + 1] =
                   IF link[MailboxOf[j]] = "up" THEN "wire" ELSE "lost"]

\* PUBLISH mailbox:<id>:dispatch and the number of receivers it reports.
Publish(w) ==
    LET j == cur[w] IN
    /\ pc[w] = "publish"
    /\ \/ /\ link[MailboxOf[j]] # "down"
          /\ Relay(j) /\ Goto(w, "audit")
       \/ /\ link[MailboxOf[j]] = "down"
          /\ Goto(w, "revertBlocked") /\ UNCHANGED <<faults, sent, frame>>
       \/ /\ "redis" \in faults
          /\ Goto(w, "revertError") /\ UNCHANGED <<faults, sent, frame>>
       \/ /\ "ackLost" \in faults
          /\ Relay(j) /\ Goto(w, "revertError")
    /\ UNCHANGED <<faults, rowVars, streamVars, stateVars, blob, loopVars, cut, up, todo>>

\* RequeueJob: UPDATE ... SET status = 'queued', whatever the status is now.
\* Like every UPDATE it waits for a claim transaction that holds the row lock.
RequeueDropped(j) == lock[j] = None /\ UNCHANGED <<faults, row>>
RequeueAsSentinel(j) == lock[j] = None /\ row' = [row EXCEPT ![j] = "blocked"]
RequeueAsSubmitted(j) == lock[j] = None /\ row' = [row EXCEPT ![j] = "submitted"]
RequeueJob(j) == lock[j] = None /\ row' = [row EXCEPT ![j] = "queued"]

\* The revert after receivers == 0; its failure is returned to the caller.
RevertBlocked(w) ==
    /\ pc[w] = "revertBlocked"
    /\ \/ RequeueJob(cur[w]) /\ Return(w, "blocked")
       \/ "db" \in faults /\ UNCHANGED row /\ Return(w, "error")
    /\ UNCHANGED <<faults, lock, audit, streamVars, stateVars, blob, loopVars, printerVars>>

\* The best-effort revert after an error; its own failure is dropped.
RevertError(w) ==
    /\ pc[w] = "revertError"
    /\ RequeueJob(cur[w]) \/ ("db" \in faults /\ UNCHANGED row)
    /\ Return(w, "error")
    /\ UNCHANGED <<faults, lock, audit, streamVars, stateVars, blob, loopVars, printerVars>>

\* The job_dispatched audit event; a failure is only logged.
AuditDispatched(w) ==
    /\ pc[w] = "audit"
    /\ \/ audit' = [audit EXCEPT ![cur[w]] = @ \cup {"job_dispatched"}]
       \/ "db" \in faults /\ UNCHANGED audit
    /\ Return(w, "dispatched")
    /\ UNCHANGED <<faults, row, lock, streamVars, stateVars, blob, loopVars, printerVars>>

Attempt(w) ==
    \/ CheckEligible(w) \/ LockJobForDispatch(w) \/ MarkJobDispatching(w)
    \/ Presign(w) \/ Publish(w) \/ RevertBlocked(w) \/ RevertError(w) \/ AuditDispatched(w)

----------------------------------------------------------------------------
(* The end of TryDispatch and the dispatcher's loop.                       *)

\* enqueue: XADD jobs:pending.  A failure answers 500 and leaves no entry.
Enqueue(j) ==
    /\ pc[j] = "enqueue"
    /\ pc' = [pc EXCEPT ![j] = "done"]
    /\ \/ /\ entry' = [entry EXCEPT ![j] = "new"]
          /\ reply' = [reply EXCEPT ![j] = "queued"]
       \/ /\ "redis" \in faults
          /\ reply' = [reply EXCEPT ![j] = "error"]
          /\ UNCHANGED <<faults, entry>>
    /\ UNCHANGED <<faults, rowVars, owner, aged, stateVars, blob, cur, loopVars, printerVars>>

\* Run's select: an available event starts a drain ...
Available(n) ==
    /\ pc[n] = "loop" /\ phase[n] = "select" /\ bell[n]
    /\ bell' = [bell EXCEPT ![n] = FALSE]
    /\ phase' = [phase EXCEPT ![n] = "drain"]
    /\ rounds' = [rounds EXCEPT ![n] = MaxDrainBatches]
    /\ UNCHANGED <<faults, rowVars, streamVars, open, link, blob, attemptVars, batch, printerVars>>

\* ... and the sweep tick a reclaim followed by a drain.
SweepDrainsOnly(n) ==
    /\ pc[n] = "loop" /\ phase[n] = "select"
    /\ phase' = [phase EXCEPT ![n] = "drain"]
    /\ rounds' = [rounds EXCEPT ![n] = MaxDrainBatches]
    /\ UNCHANGED <<faults, rowVars, streamVars, stateVars, blob, attemptVars, batch, printerVars>>
Sweep(n) ==
    /\ pc[n] = "loop" /\ phase[n] = "select"
    /\ phase' = [phase EXCEPT ![n] = "reclaim"]
    /\ UNCHANGED <<faults, rowVars, streamVars, stateVars, blob, attemptVars, batch, rounds, printerVars>>

\* drain: one XREADGROUP of entries no consumer was given yet.
ReadGroup(n) ==
    /\ pc[n] = "loop" /\ phase[n] = "drain" /\ batch[n] = {}
    /\ rounds[n] > 0 /\ NewEntries # {}
    /\ \E B \in Batches(NewEntries) :
         /\ batch' = [batch EXCEPT ![n] = B]
         /\ entry' = [j \in Job |-> IF j \in B THEN "pel" ELSE entry[j]]
         /\ owner' = [j \in Job |-> IF j \in B THEN n ELSE owner[j]]
    /\ rounds' = [rounds EXCEPT ![n] = @ - 1]
    /\ UNCHANGED <<faults, rowVars, aged, stateVars, blob, attemptVars, phase, printerVars>>

\* drain returns: nothing new, the batch cap, or a Redis error.
EndDrain(n) ==
    /\ pc[n] = "loop" /\ phase[n] = "drain" /\ batch[n] = {}
    /\ NewEntries = {} \/ rounds[n] = 0 \/ "redis" \in faults
    /\ phase' = [phase EXCEPT ![n] = "select"]
    /\ UNCHANGED <<faults, rowVars, streamVars, stateVars, blob, attemptVars, batch, rounds, printerVars>>

\* reclaim: one XAUTOCLAIM.  The entry changes owner and its idle time restarts.
AutoClaim(n) ==
    /\ pc[n] = "loop" /\ phase[n] = "reclaim" /\ batch[n] = {}
    /\ AgedEntries # {}
    /\ \E B \in Batches(AgedEntries) :
         /\ batch' = [batch EXCEPT ![n] = B]
         /\ owner' = [j \in Job |-> IF j \in B THEN n ELSE owner[j]]
         /\ aged'  = [j \in Job |-> aged[j] /\ j \notin B]
    /\ UNCHANGED <<faults, rowVars, entry, stateVars, blob, attemptVars, phase, rounds, printerVars>>

\* One XAUTOCLAIM may look at a whole page of entries that are not old enough.
EmptyPage == Cardinality({j \in Job : entry[j] = "pel" /\ ~aged[j]}) >= Page

\* reclaim returns: the cursor is through, a page had nothing, or a Redis error.
EndReclaim(n) ==
    /\ pc[n] = "loop" /\ phase[n] = "reclaim" /\ batch[n] = {}
    /\ AgedEntries = {} \/ EmptyPage \/ "redis" \in faults
    /\ phase' = [phase EXCEPT ![n] = "drain"]
    /\ rounds' = [rounds EXCEPT ![n] = MaxDrainBatches]
    /\ UNCHANGED <<faults, rowVars, streamVars, stateVars, blob, attemptVars, batch, printerVars>>

\* handle: take the next message of the batch and call Retry.
Handle(n, j) ==
    /\ pc[n] = "loop" /\ j \in batch[n]
    /\ batch' = [batch EXCEPT ![n] = @ \ {j}]
    /\ cur' = [cur EXCEPT ![n] = j]
    /\ pc' = [pc EXCEPT ![n] = "eligible"]
    /\ UNCHANGED <<faults, rowVars, streamVars, stateVars, blob, reply, phase, rounds, printerVars>>

\* XACK: the entry leaves whichever PEL holds it.  A failure is only logged.
Ack(n) ==
    /\ pc[n] = "ack"
    /\ \/ entry' = [entry EXCEPT ![cur[n]] = "acked"]
       \/ "redis" \in faults /\ UNCHANGED entry
    /\ pc' = [pc EXCEPT ![n] = "loop"]
    /\ cur' = [cur EXCEPT ![n] = None]
    /\ UNCHANGED <<faults, rowVars, owner, aged, stateVars, blob, reply, loopVars, printerVars>>

Dispatcher(n) ==
    \/ Available(n) \/ Sweep(n) \/ ReadGroup(n) \/ EndDrain(n)
    \/ AutoClaim(n) \/ EndReclaim(n) \/ Ack(n) \/ \E j \in Job : Handle(n, j)

----------------------------------------------------------------------------
(* Time and crashes.                                                       *)

\* claimMinIdle passes for a pending entry.  Unless "slow" is allowed, a live
\* node works through its batch faster than that.
Age(j) ==
    /\ entry[j] = "pel" /\ ~aged[j]
    /\ "slow" \in faults \/ ~Held(j)
    /\ aged' = [aged EXCEPT ![j] = TRUE]
    /\ UNCHANGED <<faults, rowVars, entry, owner, stateVars, blob, attemptVars, loopVars, printerVars>>

\* The process of a node dies: Postgres rolls back its open transaction, Redis
\* keeps its PEL.
ReleaseLocks(w) == lock' = [j \in Job |-> IF lock[j] = w THEN None ELSE lock[j]]

CrashNode(n) ==
    /\ "crash" \in faults /\ pc[n] # "down"
    /\ pc' = [pc EXCEPT ![n] = "down"]
    /\ cur' = [cur EXCEPT ![n] = None]
    /\ batch' = [batch EXCEPT ![n] = {}]
    /\ bell' = [bell EXCEPT ![n] = FALSE]
    /\ ReleaseLocks(n)
    /\ UNCHANGED <<faults, row, audit, streamVars, open, link, blob, reply, phase, rounds, printerVars>>

\* ... and takes the requests it was serving with it: they never answer.
CrashRequest(j) ==
    /\ "crash" \in faults /\ pc[j] \notin {"idle", "done"}
    /\ pc' = [pc EXCEPT ![j] = "done"]
    /\ ReleaseLocks(j)
    /\ UNCHANGED <<faults, row, audit, streamVars, stateVars, blob, cur, reply, loopVars, printerVars>>

\* A node (re)starts: Run subscribes and drains once.
StartNode(n) ==
    /\ pc[n] = "down"
    /\ pc' = [pc EXCEPT ![n] = "loop"]
    /\ phase' = [phase EXCEPT ![n] = "drain"]
    /\ rounds' = [rounds EXCEPT ![n] = MaxDrainBatches]
    /\ UNCHANGED <<faults, rowVars, streamVars, stateVars, blob, cur, reply, batch, printerVars>>

----------------------------------------------------------------------------
(* The printer link and the printer unit.                                  *)

\* What the link does to the cached state and to the subscription is the contract
\* of module DispatchChannel, which PrinterLink is checked to keep.
Channel == INSTANCE DispatchChannel WITH breaks <- "link" \in faults

\* Nothing but the cached state and the subscription changes.
ChannelOnly ==
    UNCHANGED <<faults, rowVars, streamVars, bell, blob, attemptVars, loopVars, printerVars>>

\* Hub.Accept subscribes for a connected printer, or for one that has gone ...
Connect(m) == Channel!Subscribe(m) /\ ChannelOnly
ConnectDead(m) == Channel!SubscribeDead(m) /\ ChannelOnly

\* ... and then seeds the cached state: the slot has room or not.
SeedState(m) == Channel!Cache(m) /\ ChannelOnly

\* A state frame refreshes the cache and, the unit always reporting "idle",
\* publishes mailbox:<id>:available.
StateFrame(m) ==
    /\ Channel!Cache(m)
    /\ bell' = [n \in Node |-> pc[n] # "down"]
    /\ UNCHANGED <<faults, rowVars, streamVars, blob, attemptVars, loopVars, printerVars>>

\* mailbox:<id>:state expires.
ExpireState(m) == Channel!Expire(m) /\ ChannelOnly

\* The socket breaks.  Frames on the wire are lost in both directions, a job
\* already being processed goes on but can no longer report.
BreakLink(m) ==
    /\ Channel!Break(m)
    /\ frame' = [j \in Job |-> [k \in 1..MaxFrames |->
                   IF MailboxOf[j] = m /\ frame[j][k] = "wire" THEN "lost" ELSE frame[j][k]]]
    /\ cut' = [j \in Job |-> IF MailboxOf[j] = m THEN 1..sent[j] ELSE cut[j]]
    /\ up' = [j \in Job |-> IF MailboxOf[j] = m THEN <<>> ELSE up[j]]
    /\ UNCHANGED <<faults, rowVars, streamVars, bell, blob, attemptVars, loopVars, sent, todo>>

\* The handler of a socket that is gone ends, and its subscription with it.
NoticeBreak(m) == Channel!NoticeBreak(m) /\ ChannelOnly

\* The frame's send closure: nothing is written to a dead connection.
Send(j, k, status) ==
    up' = IF k \in cut[j] THEN up ELSE [up EXCEPT ![j] = Append(@, status)]

\* readLoop hands a dispatch frame to a goroutine, which reports "printing".
StartPrinting(j, k) ==
    /\ frame[j][k] = "wire"
    /\ frame' = [frame EXCEPT ![j][k] = "started"]
    /\ Send(j, k, "printing")
    /\ UNCHANGED <<faults, rowVars, streamVars, stateVars, blob, attemptVars, loopVars, sent, cut, todo>>

\* processJob: the ciphertext is fetched into memory ...
FetchBlob(j, k) ==
    /\ frame[j][k] = "started" /\ blob[j]
    /\ frame' = [frame EXCEPT ![j][k] = "fetched"]
    /\ UNCHANGED <<faults, rowVars, streamVars, stateVars, blob, attemptVars, loopVars, sent, cut, up, todo>>

\* ... decrypted and printed, and the job reported delivered ...
FinishPrinting(j, k) ==
    /\ frame[j][k] = "fetched"
    /\ frame' = [frame EXCEPT ![j][k] = "printed"]
    /\ Send(j, k, "delivered")
    /\ UNCHANGED <<faults, rowVars, streamVars, stateVars, blob, attemptVars, loopVars, sent, cut, todo>>

\* ... or any of its steps fails.
FailWithoutReturn(j, k) ==
    /\ frame[j][k] \in {"started", "fetched"}
    /\ frame' = [frame EXCEPT ![j][k] = "failed"]
    /\ up' = IF k \in cut[j] THEN up ELSE [up EXCEPT ![j] = @ \o <<"failed", "delivered">>]
    /\ UNCHANGED <<faults, rowVars, streamVars, stateVars, blob, attemptVars, loopVars, sent, cut, todo>>
FailPrinting(j, k) ==
    /\ frame[j][k] \in {"started", "fetched"}
    /\ frame' = [frame EXCEPT ![j][k] = "failed"]
    /\ Send(j, k, "failed")
    /\ UNCHANGED <<faults, rowVars, streamVars, stateVars, blob, attemptVars, loopVars, sent, cut, todo>>

HandleDispatch(j, k) ==
    StartPrinting(j, k) \/ FetchBlob(j, k) \/ FinishPrinting(j, k) \/ FailPrinting(j, k)

StatusAction == [printing |-> "job_printing", delivered |-> "job_delivered", failed |-> "job_failed"]

\* The blob goes with the job's last use for it.
DeletesWhenOver(s) == s \in {"delivered", "failed"}
DeletesBlob(s) == s = "delivered"

\* Hub.onStatus, first UpdateJobStatus: unconditional, but it waits for a claim's
\* row lock.  A failed update ends the handler.  The audit event goes with it: it
\* may be missing, and nobody reads it (the PUBLISH that follows is StatusStream's).
\* A socket's frames are handled one by one; after a break the next socket's
\* handler may overlap the last one's.
OnStatus(j) ==
    /\ up[j] # <<>> /\ lock[j] = None
    /\ todo[j] = {} \/ "link" \in faults
    /\ up' = [up EXCEPT ![j] = Tail(@)]
    /\ \/ LET s == Head(up[j]) IN
          /\ row' = [row EXCEPT ![j] = s]
          /\ todo' = [todo EXCEPT ![j] = @ \cup (IF DeletesBlob(s) THEN {"wipe"} ELSE {})]
          /\ \/ audit' = [audit EXCEPT ![j] = @ \cup {StatusAction[s]}]
             \/ faults \cap {"db", "crash"} # {} /\ UNCHANGED audit
       \/ "db" \in faults /\ UNCHANGED <<row, audit, todo>>
    /\ UNCHANGED <<faults, lock, blob, streamVars, stateVars, attemptVars, loopVars, frame, sent, cut>>

\* Then, for a delivered job, deleteDeliveredBlob, which ends if the deletion fails ...
DeleteBlob(j) ==
    /\ "wipe" \in todo[j]
    /\ \/ /\ blob' = [blob EXCEPT ![j] = FALSE]
          /\ todo' = [todo EXCEPT ![j] = (@ \ {"wipe"}) \cup {"record"}]
       \/ /\ "minio" \in faults
          /\ todo' = [todo EXCEPT ![j] = @ \ {"wipe"}]
          /\ UNCHANGED blob
    /\ UNCHANGED <<faults, rowVars, streamVars, stateVars, attemptVars, loopVars, frame, sent, cut, up>>

\* ... and SetJobBlobDeleted with its audit event.
RecordDeletion(j) ==
    /\ "record" \in todo[j]
    /\ \/ audit' = [audit EXCEPT ![j] = @ \cup {"blob_deleted"}]
       \/ "db" \in faults /\ UNCHANGED audit
    /\ todo' = [todo EXCEPT ![j] = @ \ {"record"}]
    /\ UNCHANGED <<faults, row, lock, blob, streamVars, stateVars, attemptVars, loopVars, frame, sent, cut, up>>

\* The node that holds the printer's socket dies between two of these calls.
CrashHandler(j) ==
    /\ "crash" \in faults /\ todo[j] # {}
    /\ todo' = [todo EXCEPT ![j] = {}]
    /\ UNCHANGED <<faults, rowVars, blob, streamVars, stateVars, attemptVars, loopVars, frame, sent, cut, up>>

Handler(j) ==
    OnStatus(j) \/ DeleteBlob(j) \/ RecordDeletion(j) \/ CrashHandler(j)

Printer(m) ==
    \/ Connect(m) \/ ConnectDead(m) \/ SeedState(m) \/ StateFrame(m)
    \/ ExpireState(m) \/ BreakLink(m) \/ NoticeBreak(m)

----------------------------------------------------------------------------
Next ==
    \/ \E j \in Job : \/ InsertJob(j) \/ AuditSubmitted(j) \/ Enqueue(j)
                      \/ CrashRequest(j) \/ Age(j) \/ Handler(j)
                      \/ \E k \in 1..MaxFrames : HandleDispatch(j, k)
    \/ \E w \in Worker : Attempt(w)
    \/ \E n \in Node : Dispatcher(n) \/ CrashNode(n) \/ StartNode(n)
    \/ \E m \in Mailbox : Printer(m)

Spec == Init /\ [][Next]_vars

(***************************************************************************)
(* Fairness.  A goroutine that can take its next step takes it; Go's       *)
(* select picks among ready cases at random, so neither the available      *)
(* channel nor the sweep ticker starves; pending entries grow old; a       *)
(* printer keeps dialling and keeps sending state frames while connected,  *)
(* and its frames are processed in order.                                  *)
(***************************************************************************)
Working(n) ==
    \/ Attempt(n) \/ Ack(n) \/ ReadGroup(n) \/ EndDrain(n) \/ AutoClaim(n) \/ EndReclaim(n)
    \/ \E j \in Job : Handle(n, j)

WorkerFairness ==
    /\ \A j \in Job : WF_vars(AuditSubmitted(j) \/ Attempt(j) \/ Enqueue(j))
    /\ \A n \in Node : WF_vars(Working(n)) /\ SF_vars(Available(n))
    /\ \A m \in Mailbox : WF_vars(Connect(m) \/ NoticeBreak(m) \/ (link[m] = "up" /\ StateFrame(m)))

SweepFairness ==
    /\ \A n \in Node : SF_vars(Sweep(n))
    /\ \A j \in Job : WF_vars(Age(j))

FairSpec == Spec /\ WorkerFairness /\ SweepFairness

----------------------------------------------------------------------------
(* Safety.                                                                 *)

\* No job is printed by two dispatch frames: README.md's claim for the row lock
\* (attemptDispatch, claimJob).  It takes a PUBLISH whose reply is not lost: the
\* row lock cannot know of a frame whose claim was reverted.
NeverPrintedTwice ==
    "ackLost" \notin faults =>
        \A j \in Job : \A k, l \in 1..MaxFrames :
            frame[j][k] = "printed" /\ frame[j][l] = "printed" => k = l

\* A job whose POST /jobs was accepted, and which is still to be dispatched, has
\* a stream entry that some dispatcher will read or reclaim (TryDispatch, Retry,
\* handle): an entry is only acknowledged for a job that needs it no more.  It
\* takes live nodes that handle a batch within claimMinIdle: a reclaim that
\* overtakes one takes its claim for settled, although it may yet be reverted.
AcceptedIsNotOrphaned ==
    "slow" \notin faults =>
        \A j \in Job :
            reply[j] \in {"queued", "dispatching"} /\ row[j] \in Claimable
                => entry[j] \in {"new", "pel"}

\* The ciphertext is deleted, or about to be.
Spent(j) == ~blob[j] \/ "wipe" \in todo[j]

\* The ciphertext is deleted only for a job that is delivered and stays so
\* (onStatus, deleteDeliveredBlob), so no later attempt finds its blob gone; and a
\* delivered job's ciphertext does go, unless MinIO refuses or the process dies
\* between UpdateJobStatus and DeleteBlob: nothing takes that up again.
BlobKeptUntilDelivered ==
    "ackLost" \notin faults =>
        \A j \in Job : /\ ~blob[j] => row[j] = "delivered"
                       /\ row[j] = "delivered" /\ ~Spent(j) => faults \cap {"minio", "crash"} # {}

\* A job recorded as delivered really came out of the printer (onStatus applies
\* what handleDispatch reported, never something older or invented).
DeliveredWasPrinted ==
    \A j \in Job : row[j] = "delivered" => \E k \in 1..MaxFrames : frame[j][k] = "printed"

\* Somebody is moving a claimed job on: the worker that claimed it, its printer,
\* or a status frame that is still to be read.
Driven(j) ==
    \/ \E w \in Worker : cur[w] = j /\ pc[w] \in Window
    \/ \E k \in 1..MaxFrames : frame[j][k] \in {"wire", "started", "fetched"}
    \/ up[j] # <<>>

\* Its frame, or what the printer would report of it, was lost with a socket.
Lost(j) == \E k \in 1..MaxFrames : frame[j][k] = "lost" \/ k \in cut[j]

\* A claimed job is never left with nobody driving it (the reverts of
\* attemptDispatch exist for this), as long as processes and Postgres hold and its
\* frame was not lost with a socket: no broken link stalls a job whose frame is not
\* out yet, nor one whose socket is another.
ClaimedIsDriven ==
    faults \subseteq {"redis", "minio", "slow", "link"} =>
        \A j \in Job : row[j] \in {"dispatching", "printing"} => Driven(j) \/ Lost(j)

\* plans/03-scaling.md on a crashed node: "No dispatch is lost -- unacknowledged
\* jobs remain in the Redis Stream PEL and are reclaimed via XAUTOCLAIM": a
\* queued job caught in mid-dispatch is driven by someone or still has its entry.
NoDispatchLost ==
    \A j \in Job : reply[j] = "queued" /\ row[j] = "dispatching"
                      => Driven(j) \/ sent[j] > 0 \/ entry[j] \in {"new", "pel"}

\* jobs.status moves along the graph of db/schema.sql, wherever no statement fails
\* (the next one would skip its step) and no PUBLISH reply is lost (a status could
\* arrive after the revert): elsewhere nothing is claimed, and nothing observed.
Observed == IF faults \cap {"db", "ackLost"} = {} THEN row ELSE [j \in Job |-> "none"]
Lifecycle == INSTANCE JobLifecycle WITH status <- Observed
FollowsLifecycle == Lifecycle!Spec

----------------------------------------------------------------------------
(***************************************************************************)
(* The inductive invariants behind NeverPrintedTwice and                   *)
(* AcceptedIsNotOrphaned; DispatchProofs proves both for all values.       *)
(***************************************************************************)

\* Before the attempt knows that its frame is out.
Unpublished == {"presign", "publish", "revertBlocked", "revertError"}

\* The row lock belongs to the one worker between LockJobForDispatch and COMMIT,
\* and nobody moves the row meanwhile.
LockIsHeldInClaim ==
    /\ \A j \in Job : lock[j] # None =>
          pc[lock[j]] = "mark" /\ cur[lock[j]] = j /\ row[j] \in Claimable
    /\ \A w \in Worker : pc[w] = "mark" => lock[cur[w]] = w

\* A worker that has claimed and not yet published is alone with its job, whose
\* row still says so.
ClaimIsExclusive ==
    /\ \A w \in Worker : pc[w] \in Unpublished =>
          row[cur[w]] = "dispatching" /\ sent[cur[w]] = 0
    /\ \A v, w \in Worker :
          pc[v] \in Unpublished /\ pc[w] \in Unpublished /\ cur[v] = cur[w] => v = w

\* Nothing was sent for a job that can still be claimed, and what a printer does
\* or reports goes back to a frame that was sent.
FramesFollowClaims ==
    /\ \A j \in Job : row[j] \in Claimable \cup {"none"} => sent[j] = 0
    /\ \A j \in Job : sent[j] <= 1
    /\ \A j \in Job : sent[j] = 0 => up[j] = <<>>
    /\ \A j \in Job : \A k \in 1..MaxFrames : frame[j][k] # "none" => k <= sent[j]

\* A worker inside attemptDispatch, or about to acknowledge, has a job in hand;
\* a request only has its own.
HandsAreFull ==
    /\ \A w \in Worker : pc[w] \in AttemptPC \cup {"ack"} => cur[w] \in Job
    /\ \A j \in Job : cur[j] = j /\ pc[j] \in RequestPC
    /\ \A n \in Node : pc[n] \in DispatcherPC
    /\ \A j \in Job : pc[j] = "idle" => row[j] = "none"

\* At most one dispatch frame per job leaves the cloud.
FrameInv == HandsAreFull /\ LockIsHeldInClaim /\ ClaimIsExclusive /\ FramesFollowClaims
OneFrameInv == "ackLost" \notin faults => FrameInv

\* A dispatcher's batch and the job in its hands are its own, fresh PEL entries.
HoldersOwnEntries ==
    \A n \in Node, j \in Job :
        /\ j \in batch[n] => entry[j] = "pel" /\ owner[j] = n /\ ~aged[j] /\ cur[n] # j
        /\ cur[n] = j => entry[j] = "pel" /\ owner[j] = n /\ ~aged[j]

\* Only an entry that was read grows old.
NewIsYoung == \A j \in Job : entry[j] \in {"none", "new"} => ~aged[j]

\* A request that has not answered has no stream entry yet.
RequestComesFirst ==
    \A j \in Job : pc[j] # "done" => entry[j] = "none" /\ reply[j] = "none"

\* From the claim to the acknowledgement the job is not claimable.
ClaimIsStable ==
    /\ \A w \in Worker : pc[w] \in {"presign", "publish", "audit"} => row[cur[w]] \notin Claimable
    /\ \A n \in Node : pc[n] = "ack" => row[cur[n]] \notin Claimable

\* A dispatcher between two messages has nothing in hand.
HandsAreEmpty == \A n \in Node : pc[n] \in {"loop", "down"} => cur[n] = None

\* Nothing was sent for a job that does not exist.
IdleIsSilent ==
    \A j \in Job : pc[j] = "idle" => up[j] = <<>> /\ \A k \in 1..MaxFrames : frame[j][k] = "none"

\* The entry of an accepted job outlives the job's need for it.
EntryInv ==
    /\ HandsAreFull /\ HandsAreEmpty /\ HoldersOwnEntries /\ NewIsYoung /\ RequestComesFirst
    /\ ClaimIsStable /\ IdleIsSilent
NotOrphanedInv == "slow" \notin faults => EntryInv /\ AcceptedIsNotOrphaned

----------------------------------------------------------------------------
(* Liveness.                                                               *)

\* A job accepted into the queue is eventually claimed once its mailbox stays
\* connected with room in the slot (Dispatcher.Run, drain, reclaim).
Ready(j) == open[MailboxOf[j]] /\ link[MailboxOf[j]] = "up"

QueuedIsClaimed ==
    \A j \in Job : <>[]Ready(j) => [](reply[j] = "queued" => <>(row[j] \notin Claimable))
=============================================================================
