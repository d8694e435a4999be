--------------------------- MODULE ConsumerGroup ---------------------------
(***************************************************************************)
(* Membership of the consumer group "dispatchers" on jobs:pending.  A node *)
(* becomes a consumer by reading, and leaves by removing itself when it    *)
(* shuts down or by being reaped by another node once it has been idle for *)
(* reapMinIdle.  XGROUP DELCONSUMER discards whatever the consumer still   *)
(* has pending, so both paths look first, with an XPENDING of their own.   *)
(*                                                                         *)
(* Module Dispatch models what an attempt does; here an attempt is one     *)
(* step with its outcome.  A node runs two goroutines: main, which starts  *)
(* and stops the process, and the loop, which is Dispatcher.Run.           *)
(*                                                                         *)
(* Names that module Shutdown has as well begin with Group here, so that a *)
(* node's membership and its end can be reasoned about side by side.       *)
(***************************************************************************)
EXTENDS Naturals, FiniteSets

CONSTANTS
    Node,        \* consumer names: NODE_ID, by default the host name
    Entry,       \* messages of jobs:pending
    Count,       \* Count of XREADGROUP and XAUTOCLAIM (10 in the code)
    Page,        \* entries one XAUTOCLAIM looks at (10 * Count in Redis)
    MaxStarts,   \* bound: processes that run under one name.  1: every process
                 \* has a name of its own; 2: a container restarted in place
    GroupEnvironments,  \* the sets of faults to consider: subsets of GroupFaultKinds
    None

\* "crash"  a process dies without its shutdown sequence
\* "pause"  a running process does nothing for reapMinIdle
\* "redis"  a Redis command fails and changes nothing
\* "grace"  the shutdown deadline passes before the loop has returned
GroupFaultKinds == {"crash", "pause", "redis", "grace"}

ASSUME GroupAssumption ==
    /\ Count \in Nat \ {0} /\ Page \in Nat \ {0} /\ MaxStarts \in Nat
    /\ GroupEnvironments \subseteq SUBSET GroupFaultKinds
    /\ None \notin Node \cup Entry

VARIABLES
    groupFaults,  \* what may go wrong in this behaviour, chosen at the start
    \* Redis
    group,     \* the consumer group exists
    place,     \* where an entry is: see Places
    owner,     \* the consumer whose PEL holds it
    aged,      \* entries pending for claimMinIdle
    raced,     \* history: entries a consumer was given while it was being deleted
    consumer,  \* the group's consumers
    stale,     \* those idle for reapMinIdle
    \* nodes
    process,   \* where the process is
    starts,    \* how many processes have run under the name
    reader,    \* where Dispatcher.Run is
    batch,     \* messages it has read and not handled
    passed,    \* messages its XAUTOCLAIM cursor has gone past
    acking,    \* the message it is about to XACK
    seen,      \* stale consumers of its last XINFO, still to look at
    target,    \* the consumer it has found drained
    done       \* entries whose job was dispatched, or has settled

streamVars == <<group, place, owner, aged, raced>>
memberVars == <<consumer, stale>>
procVars == <<process, starts>>
loopVars == <<reader, batch, passed, acking, seen, target>>
groupVars == <<groupFaults, streamVars, memberVars, procVars, loopVars, done>>

\* "early" entries precede the group's start, "$" when it was created, and are
\* never delivered; "discarded" ones were pending for a consumer when it was
\* deleted.
Places == {"absent", "early", "new", "pending", "acked", "discarded"}
Mains  == {"down", "start", "run", "wait", "pending", "delete", "off"}
Loops  == {"none", "select", "drain", "reclaim", "sweepDrain", "xinfo", "reap",
           "delete", "returned"}

Serving(n)   == process[n] \notin {"down", "start"}

\* Every variable stays in its range, and no node serves or reads without the
\* group, which EnsureGroup makes first.
GroupTypeOK ==
    /\ groupFaults \in GroupEnvironments
    /\ group \in BOOLEAN /\ \A n \in Node : Serving(n) => group
    /\ place \in [Entry -> Places]
    /\ owner \in [Entry -> Node \cup {None}]
    /\ aged \subseteq Entry /\ raced \subseteq Entry
    /\ consumer \subseteq Node /\ stale \subseteq Node
    /\ process \in [Node -> Mains]
    /\ starts \in [Node -> 0..MaxStarts]
    /\ reader \in [Node -> Loops]
    /\ batch  \in [Node -> SUBSET Entry]
    /\ passed \in [Node -> SUBSET Entry]
    /\ acking \in [Node -> Entry \cup {None}]
    /\ seen   \in [Node -> SUBSET Node]
    /\ target \in [Node -> Node \cup {None}]
    /\ done \subseteq Entry

GroupInit ==
    /\ groupFaults \in GroupEnvironments
    /\ group = FALSE
    /\ place = [e \in Entry |-> "absent"]
    /\ owner = [e \in Entry |-> None]
    /\ aged = {} /\ raced = {} /\ consumer = {} /\ stale = {} /\ done = {}
    /\ process = [n \in Node |-> "down"]
    /\ starts = [n \in Node |-> 0]
    /\ reader = [n \in Node |-> "none"]
    /\ batch  = [n \in Node |-> {}]
    /\ passed = [n \in Node |-> {}]
    /\ acking = [n \in Node |-> None]
    /\ seen   = [n \in Node |-> {}]
    /\ target = [n \in Node |-> None]

Pending(c)   == {e \in Entry : place[e] = "pending" /\ owner[e] = c}
\* dispatchCtx is cancelled: every Redis call on it fails.
Cancelled(n) == process[n] \notin {"start", "run"}
Running(n)   == reader[n] \notin {"none", "returned"}
ReaderAt(n, l) == reader' = [reader EXCEPT ![n] = l]

----------------------------------------------------------------------------
(* The process: main.go.                                                   *)

Start(n) ==
    /\ process[n] = "down" /\ starts[n] < MaxStarts
    /\ starts' = [starts EXCEPT ![n] = @ + 1]
    /\ process' = [process EXCEPT ![n] = "start"]
    /\ UNCHANGED <<groupFaults, streamVars, memberVars, loopVars, done>>

\* EnsureGroup, before the loop and the listeners are started; BUSYGROUP is
\* fine, any other error is fatal.
EnsureGroupUnchecked(n) ==
    /\ process[n] = "start" /\ process' = [process EXCEPT ![n] = "run"] /\ ReaderAt(n, "drain")
    /\ group' = TRUE \/ ("redis" \in groupFaults /\ UNCHANGED group)
    /\ UNCHANGED <<groupFaults, place, owner, aged, raced, memberVars, starts, batch, passed, acking,
                   seen, target, done>>
EnsureGroup(n) ==
    /\ process[n] = "start"
    /\ \/ group' = TRUE /\ process' = [process EXCEPT ![n] = "run"] /\ ReaderAt(n, "drain")
       \/ "redis" \in groupFaults /\ process' = [process EXCEPT ![n] = "down"] /\ UNCHANGED <<group, reader>>
    /\ UNCHANGED <<groupFaults, place, owner, aged, raced, memberVars, starts, batch, passed, acking,
                   seen, target, done>>

\* A request on a serving node enqueues a job that is blocked.
XAdd(e) ==
    /\ place[e] = "absent" /\ \E n \in Node : Serving(n)
    /\ place' = [place EXCEPT ![e] = IF group THEN "new" ELSE "early"]
    /\ UNCHANGED <<groupFaults, group, owner, aged, raced, memberVars, procVars, loopVars, done>>

\* SIGTERM: stopDispatcher.
Stop(n) ==
    /\ process[n] = "run"
    /\ process' = [process EXCEPT ![n] = "wait"]
    /\ UNCHANGED <<groupFaults, streamVars, memberVars, starts, loopVars, done>>

\* waitFor the loop.  If the deadline passes first, RemoveConsumer runs on an
\* expired context and does nothing.
WaitForNothing(n) ==
    /\ process[n] = "wait"
    /\ process' = [process EXCEPT ![n] = "pending"]
    /\ UNCHANGED <<groupFaults, streamVars, memberVars, starts, loopVars, done>>
WaitForLoop(n) ==
    /\ process[n] = "wait"
    /\ \/ reader[n] = "returned" /\ process' = [process EXCEPT ![n] = "pending"]
       \/ "grace" \in groupFaults /\ process' = [process EXCEPT ![n] = "off"]
    /\ UNCHANGED <<groupFaults, streamVars, memberVars, starts, loopVars, done>>

\* RemoveConsumer: XPENDING ...
RemoveAnyway(n) ==
    /\ process[n] = "pending"
    /\ process' = [process EXCEPT ![n] = "delete"]
    /\ UNCHANGED <<groupFaults, streamVars, memberVars, starts, loopVars, done>>
RemoveConsumer(n) ==
    /\ process[n] = "pending"
    /\ \/ Pending(n) = {} /\ process' = [process EXCEPT ![n] = "delete"]
       \/ (Pending(n) # {} \/ "redis" \in groupFaults) /\ process' = [process EXCEPT ![n] = "off"]
    /\ UNCHANGED <<groupFaults, streamVars, memberVars, starts, loopVars, done>>

\* XGROUP DELCONSUMER c: its PEL goes with it.
DelConsumer(c) ==
    /\ consumer' = consumer \ {c} /\ stale' = stale \ {c}
    /\ place' = [e \in Entry |-> IF e \in Pending(c) THEN "discarded" ELSE place[e]]
    /\ owner' = [e \in Entry |-> IF e \in Pending(c) THEN None ELSE owner[e]]
    /\ aged' = aged \ Pending(c)

\* ... and XGROUP DELCONSUMER.
RemoveSelf(n) ==
    /\ process[n] = "delete"
    /\ \/ DelConsumer(n)
       \/ "redis" \in groupFaults /\ UNCHANGED <<place, owner, aged, memberVars>>
    /\ process' = [process EXCEPT ![n] = "off"]
    /\ UNCHANGED <<groupFaults, group, raced, starts, loopVars, done>>

\* The end of the process, and of the loop if it was still running.
Die(n) ==
    /\ process' = [process EXCEPT ![n] = "down"] /\ ReaderAt(n, "none")
    /\ batch' = [batch EXCEPT ![n] = {}]
    /\ passed' = [passed EXCEPT ![n] = {}]
    /\ acking' = [acking EXCEPT ![n] = None]
    /\ seen' = [seen EXCEPT ![n] = {}]
    /\ target' = [target EXCEPT ![n] = None]
    /\ UNCHANGED <<groupFaults, streamVars, memberVars, starts, done>>

End(n) == process[n] = "off" /\ Die(n)

Crash(n) == "crash" \in groupFaults /\ process[n] # "down" /\ Die(n)

----------------------------------------------------------------------------
(* The loop: Dispatcher.Run.                                               *)

\* Run's select: an available event starts a drain, the ticker a sweep (reclaim,
\* drain, reap), and the cancelled context ends the loop.
Available(n) ==
    /\ reader[n] = "select" /\ ~Cancelled(n) /\ ReaderAt(n, "drain")
    /\ UNCHANGED <<groupFaults, streamVars, memberVars, procVars, batch, passed, acking, seen, target, done>>

Sweep(n) ==
    /\ reader[n] = "select" /\ ~Cancelled(n) /\ ReaderAt(n, "reclaim")
    /\ UNCHANGED <<groupFaults, streamVars, memberVars, procVars, batch, passed, acking, seen, target, done>>

Return(n) ==
    /\ reader[n] = "select" /\ Cancelled(n) /\ ReaderAt(n, "returned")
    /\ UNCHANGED <<groupFaults, streamVars, memberVars, procVars, batch, passed, acking, seen, target, done>>

AfterDrain(n)   == IF reader[n] = "drain" THEN "select" ELSE "xinfo"
AtLeisure(n)    == batch[n] = {} /\ acking[n] = None
Batches(S)      == {B \in SUBSET S : B # {} /\ Cardinality(B) <= Count}
Touch(n)        == consumer' = consumer \cup {n} /\ stale' = stale \ {n}
\* m has seen c's PEL empty, and is about to delete c.
Deleting(m, c)  == target[m] = c \/ (m = c /\ process[m] = "delete")
Deliver(n, B) ==
    /\ batch' = [batch EXCEPT ![n] = B]
    /\ place' = [e \in Entry |-> IF e \in B THEN "pending" ELSE place[e]]
    /\ owner' = [e \in Entry |-> IF e \in B THEN n ELSE owner[e]]
    /\ aged' = aged \ B
    /\ raced' = IF \E m \in Node : Deleting(m, n) THEN raced \cup B ELSE raced

\* drain: XREADGROUP of ">" ...
ReadGroup(n) ==
    /\ reader[n] \in {"drain", "sweepDrain"} /\ AtLeisure(n) /\ ~Cancelled(n)
    /\ \E B \in Batches({e \in Entry : place[e] = "new"}) : Deliver(n, B)
    /\ Touch(n)
    /\ UNCHANGED <<groupFaults, group, procVars, reader, passed, acking, seen, target, done>>

\* ... until it returns nothing or fails, or maxDrainBatches is reached.
EndDrain(n) ==
    /\ reader[n] \in {"drain", "sweepDrain"} /\ AtLeisure(n)
    /\ \/ ~Cancelled(n) /\ Touch(n)
       \/ (Cancelled(n) \/ "redis" \in groupFaults) /\ UNCHANGED memberVars
    /\ ReaderAt(n, AfterDrain(n))
    /\ UNCHANGED <<groupFaults, streamVars, procVars, batch, passed, acking, seen, target, done>>

\* reclaim: XAUTOCLAIM of the entries that have aged, whoever they are with,
\* from the cursor of the last call on.
AutoClaimOwn(n) ==
    /\ reader[n] = "reclaim" /\ AtLeisure(n) /\ ~Cancelled(n)
    /\ \E B \in Batches((aged \cap Pending(n)) \ passed[n]) :
         Deliver(n, B) /\ passed' = [passed EXCEPT ![n] = @ \cup B]
    /\ Touch(n)
    /\ UNCHANGED <<groupFaults, group, procVars, reader, acking, seen, target, done>>
AutoClaim(n) ==
    /\ reader[n] = "reclaim" /\ AtLeisure(n) /\ ~Cancelled(n)
    /\ \E B \in Batches(aged \ passed[n]) :
         Deliver(n, B) /\ passed' = [passed EXCEPT ![n] = @ \cup B]
    /\ Touch(n)
    /\ UNCHANGED <<groupFaults, group, procVars, reader, acking, seen, target, done>>

\* The pass ends with the cursor, or with a page of entries none of which has
\* aged, whatever lies behind it.
EmptyPage(n) ==
    Cardinality({e \in Entry : place[e] = "pending"} \ (aged \cup passed[n])) >= Page
EndReclaim(n) ==
    /\ reader[n] = "reclaim" /\ AtLeisure(n)
    /\ \/ ~Cancelled(n) /\ (aged \subseteq passed[n] \/ EmptyPage(n)) /\ Touch(n)
       \/ (Cancelled(n) \/ "redis" \in groupFaults) /\ UNCHANGED memberVars
    /\ ReaderAt(n, "sweepDrain")
    /\ passed' = [passed EXCEPT ![n] = {}]
    /\ UNCHANGED <<groupFaults, streamVars, procVars, batch, acking, seen, target, done>>

\* After a message, a cancelled context ends the batch.
Rest(n, e) == batch' = [batch EXCEPT ![n] = IF Cancelled(n) THEN {} ELSE @ \ {e}]

\* handle: the attempt runs to its end, cancelled or not.  A blocked or failed
\* one leaves the message where it is.
HandleBlocked(n, e) ==
    /\ e \in batch[n] /\ acking[n] = None
    /\ Rest(n, e)
    /\ UNCHANGED <<groupFaults, streamVars, memberVars, procVars, reader, passed, acking, seen, target, done>>

HandleDone(n, e) ==
    /\ e \in batch[n] /\ acking[n] = None
    /\ done' = done \cup {e}
    /\ acking' = [acking EXCEPT ![n] = e]
    /\ UNCHANGED <<groupFaults, streamVars, memberVars, procVars, reader, batch, passed, seen, target>>

\* ack: XACK, by whoever holds the message; an entry no PEL holds is left alone.
Ack(n) ==
    /\ acking[n] # None
    /\ LET e == acking[n] IN
         /\ \/ /\ place' = [place EXCEPT ![e] = IF @ = "pending" THEN "acked" ELSE @]
               /\ owner' = [owner EXCEPT ![e] = None]
               /\ aged' = aged \ {e}
            \/ "redis" \in groupFaults /\ UNCHANGED <<place, owner, aged>>
         /\ Rest(n, e)
    /\ acking' = [acking EXCEPT ![n] = None]
    /\ UNCHANGED <<groupFaults, group, raced, memberVars, procVars, reader, passed, seen, target, done>>

\* ReapStaleConsumers: XINFO CONSUMERS ...
XInfo(n) ==
    /\ reader[n] = "xinfo"
    /\ \/ /\ ~Cancelled(n)
          /\ seen' = [seen EXCEPT ![n] = {c \in stale \ {n} : Pending(c) = {}}]
          /\ ReaderAt(n, "reap")
       \/ (Cancelled(n) \/ "redis" \in groupFaults) /\ ReaderAt(n, "select") /\ UNCHANGED seen
    /\ UNCHANGED <<groupFaults, streamVars, memberVars, procVars, batch, passed, acking, target, done>>

\* ... deleteConsumerIfDrained: XPENDING ...
FoundDrained(n, c) == ~Cancelled(n) /\ Pending(c) = {}
Reap(n, c) ==
    /\ reader[n] = "reap" /\ c \in seen[n]
    /\ seen' = [seen EXCEPT ![n] = @ \ {c}]
    /\ \/ FoundDrained(n, c) /\ target' = [target EXCEPT ![n] = c] /\ ReaderAt(n, "delete")
       \/ (~FoundDrained(n, c) \/ "redis" \in groupFaults) /\ UNCHANGED <<target, reader>>
    /\ UNCHANGED <<groupFaults, streamVars, memberVars, procVars, batch, passed, acking, done>>

\* ... XGROUP DELCONSUMER.
ReapDelete(n) ==
    /\ reader[n] = "delete"
    /\ \/ ~Cancelled(n) /\ DelConsumer(target[n])
       \/ (Cancelled(n) \/ "redis" \in groupFaults) /\ UNCHANGED <<place, owner, aged, memberVars>>
    /\ target' = [target EXCEPT ![n] = None]
    /\ ReaderAt(n, "reap")
    /\ UNCHANGED <<groupFaults, group, raced, procVars, batch, passed, acking, seen, done>>

EndReap(n) ==
    /\ reader[n] = "reap" /\ seen[n] = {}
    /\ ReaderAt(n, "select")
    /\ UNCHANGED <<groupFaults, streamVars, memberVars, procVars, batch, passed, acking, seen, target, done>>

Loop(n) ==
    \/ Return(n) \/ ReadGroup(n) \/ EndDrain(n) \/ AutoClaim(n) \/ EndReclaim(n)
    \/ \E e \in Entry : HandleBlocked(n, e) \/ HandleDone(n, e)
    \/ Ack(n) \/ XInfo(n) \/ (\E c \in Node : Reap(n, c)) \/ ReapDelete(n) \/ EndReap(n)

ShutDown(n) == WaitForLoop(n) \/ RemoveConsumer(n) \/ RemoveSelf(n) \/ End(n)

----------------------------------------------------------------------------
(* Time.                                                                   *)

\* claimMinIdle passes for a pending entry.
Age(e) ==
    /\ place[e] = "pending" /\ e \notin aged
    /\ aged' = aged \cup {e}
    /\ UNCHANGED <<groupFaults, group, place, owner, raced, memberVars, procVars, loopVars, done>>

\* reapMinIdle passes for a consumer.  A running loop reads at least once per
\* sweep interval, five times as often.
GoStale(c) ==
    /\ c \in consumer \ stale
    /\ ~Running(c) \/ "pause" \in groupFaults
    /\ stale' = stale \cup {c}
    /\ UNCHANGED <<groupFaults, streamVars, consumer, procVars, loopVars, done>>

GroupNext ==
    \/ \E n \in Node : Start(n) \/ EnsureGroup(n) \/ Stop(n) \/ ShutDown(n) \/ Crash(n)
                     \/ Available(n) \/ Sweep(n) \/ Loop(n)
    \/ \E e \in Entry : XAdd(e) \/ Age(e)
    \/ \E c \in Node : GoStale(c)

GroupSpec == GroupInit /\ [][GroupNext]_groupVars

\* A node that can take a step takes one, time passes, and its ticker fires again
\* and again: a sweep, once started, reaches its reaper.
GroupFairSpec ==
    /\ GroupSpec
    /\ \A n \in Node : /\ WF_groupVars(EnsureGroup(n) \/ ShutDown(n) \/ Loop(n))
                       /\ SF_groupVars(Sweep(n))
                       /\ WF_groupVars(GoStale(n))
    /\ \A e \in Entry : WF_groupVars(Age(e))

----------------------------------------------------------------------------
(* Properties.                                                             *)

\* Deleting consumers destroys no work but in one window: an entry that went with a
\* consumer was given to it after its deleter had seen its PEL empty, and for that
\* the consumer must have read again after it was idle for reapMinIdle: a process
\* that was paused, or one that came back under its name (ReapStaleConsumers:
\* "reaping can never destroy work that XAUTOCLAIM is about to reclaim";
\* RemoveConsumer's doc comment).
Revived(c) == "pause" \in groupFaults \/ starts[c] > 1
NothingDestroyed ==
    /\ \A e \in Entry : place[e] = "discarded" => e \in raced
    /\ raced # {} => \E c \in Node : Revived(c)

\* What makes it so: what a consumer about to be deleted has pending it was given
\* since, and one that was found stale runs only if it was revived.
DeletesOnlyTheDrained ==
    \A n, c \in Node : Deleting(n, c) => Pending(c) \subseteq raced
Over(c) == starts[c] > 0 /\ process[c] # "start" /\ ~Running(c)
StaleIsOver ==
    \A c \in Node : \/ c \in stale
                    \/ \E n \in Node : c \in seen[n] \/ Deleting(n, c)
                    => Over(c) \/ Revived(c)
Members ==
    \A c \in consumer : /\ starts[c] > 0
                        /\ process[c] # "start" \/ Revived(c)
LifeCycle ==
    \A n \in Node : /\ process[n] \in {"down", "start"} => reader[n] = "none"
                    /\ process[n] \in {"pending", "delete"} => reader[n] = "returned"
                    /\ process[n] # "down" => starts[n] > 0
                    /\ reader[n] = "delete" => target[n] \in Node
GroupInv ==
    DeletesOnlyTheDrained /\ StaleIsOver /\ Members /\ LifeCycle /\ NothingDestroyed

\* No entry precedes the group: EnsureGroup starts it at "$", which would skip
\* whatever is in the stream already, but no node serves requests before it.
NoneSkipped == \A e \in Entry : place[e] # "early"

\* The group loses no entry, neither at its creation (EnsureGroup) nor when a
\* consumer is deleted (RemoveConsumer, ReapStaleConsumers).
NothingLost == NoneSkipped /\ NothingDestroyed

\* The consumer of a node that is reading is never deleted (reapMinIdle: "a
\* healthy node is never within an order of magnitude of this threshold"; "the
\* loop is idle, so what remains in its PEL is final"), neither by its own main
\* nor by another node, unless it was found stale under that name before: then the
\* reaper's DELCONSUMER may hit the process that has come back.
ReadersStay ==
    [][\A n \in Node : n \in consumer \ consumer' /\ Running(n) => Revived(n)]_groupVars

\* The group comes to reflect the live nodes: the consumer of a process that is
\* gone is removed eventually, its pending entries reclaimed first, as long as
\* some node runs.
Gone(c) == c \in consumer /\ process[c] = "down"
GoneIsRemoved ==
    groupFaults \subseteq {"crash"} =>
        \A c \in Node : Gone(c) ~> (~Gone(c) \/ \A n \in Node : ~Running(n))
=============================================================================
