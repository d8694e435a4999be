---------------------------- MODULE PrinterLink ----------------------------
(***************************************************************************)
(* The socket between one printer unit and the cloud tier, and the cached  *)
(* printer state that dispatch decides by.  The printer dials, registers,  *)
(* reports its slot occupancy after every delivery and on every keepalive  *)
(* tick, and dials again when the connection fails, to whichever node      *)
(* answers.  Each connection has a handler goroutine on its node           *)
(* (Hub.Accept), which may outlive the connection.  The printer's status   *)
(* word is "idle" from newSlotState on and never changes, so a state is    *)
(* just an occupancy.                                                      *)
(***************************************************************************)
EXTENDS Naturals, Sequences

CONSTANTS
    Node,      \* cloud nodes
    Job,       \* jobs for the printer's one slot
    MaxSlot,   \* Max of the slot (5 in the code)
    MaxConns,  \* bound: connections the printer opens
    MaxWire,   \* bound: unread frames of a connection
    Environments  \* the sets of faults to consider: subsets of FaultKinds

\* "link"   a connection breaks; frames on their way are lost
\* "late"   a handler reads the register frame of a connection that has broken
\* "crash"  a node dies
\* "redis"  a Redis command fails and changes nothing
\* "restart" the printer's process dies and is started again
FaultKinds == {"link", "late", "crash", "redis", "restart"}

ASSUME LinkAssumption ==
    /\ MaxSlot \in Nat \ {0} /\ MaxConns \in Nat /\ MaxWire \in Nat
    /\ Environments \subseteq SUBSET FaultKinds

Conn == 1..MaxConns
Occupancy == 0..MaxSlot

VARIABLES
    faults,  \* what may go wrong in this behaviour, chosen at the start
    \* printer
    opened,    \* connections dialled so far; the last is the newest
    cur,       \* the live one, 0 if there is none
    occ,       \* slotState: the slot's current count
    kept,      \* the snapshot its keepalive has taken and not sent, if any
    filled,    \* pieces in the compartment
    \* cloud
    at,        \* the node a connection goes to
    hub,       \* where the connection's Accept is
    wire,      \* frames the printer sent and Accept has not read: occupancies
    registry,  \* each node's Registry entry for the mailbox, 0 if none
    subs,      \* connections subscribed to mailbox:<id>:dispatch
    cache,     \* mailbox:<id>:state: the empty set, or the one cached occupancy
    \* jobs
    job,       \* see JobStage
    via,       \* the connection its dispatch frame came over
    count      \* the occupancy recordDelivery returned for it

printerVars == <<opened, cur, occ, kept, filled>>
cloudVars   == <<at, hub, wire, registry, subs, cache>>
jobVars     == <<job, via, count>>
vars == <<faults, printerVars, cloudVars, jobVars>>

HubStage == {"none", "register", "added", "subscribed", "serving", "ended", "closing", "gone"}
JobStage == {"waiting", "eligible", "printing", "printed", "recorded", "done", "lost"}

\* Every variable stays in its range.
TypeOK ==
    /\ faults \in Environments
    /\ opened \in 0..MaxConns /\ cur \in 0..MaxConns
    /\ occ \in Occupancy /\ kept \subseteq Occupancy /\ filled \in Nat
    /\ at \in [Conn -> Node] /\ hub \in [Conn -> HubStage]
    /\ wire \in [Conn -> Seq(Occupancy)]
    /\ registry \in [Node -> 0..MaxConns]
    /\ subs \subseteq Conn /\ cache \subseteq Occupancy
    /\ job \in [Job -> JobStage] /\ via \in [Job -> 0..MaxConns] /\ count \in [Job -> Occupancy]

Init ==
    /\ faults \in Environments
    /\ opened = 0 /\ cur = 0 /\ occ = 0 /\ kept = {} /\ filled = 0
    /\ at \in [Conn -> Node]
    /\ hub = [k \in Conn |-> "none"] /\ wire = [k \in Conn |-> <<>>]
    /\ registry = [n \in Node |-> 0] /\ subs = {} /\ cache = {}
    /\ job = [j \in Job |-> "waiting"] /\ via = [j \in Job |-> 0] /\ count = [j \in Job |-> 0]

Goto(k, stage) == hub' = [hub EXCEPT ![k] = stage]
Redis == "redis" \in faults

----------------------------------------------------------------------------
(* The printer's connection: runClient, connectAndServe, runKeepalive.     *)

\* Dial, then the register frame and a first state frame, both with the
\* snapshot taken before.
Dial ==
    /\ cur = 0 /\ opened < MaxConns
    /\ opened' = opened + 1 /\ cur' = opened + 1
    /\ Goto(opened + 1, "register")
    /\ wire' = [wire EXCEPT ![opened + 1] = <<occ, occ>>]
    /\ UNCHANGED <<faults, occ, kept, filled, at, registry, subs, cache, jobVars>>

\* The socket is closed at the printer's end; the handler's end finds out later.
\* The last frames may not have got through, except a register frame already read.
Disconnect ==
    /\ cur # 0
    /\ cur' = 0 /\ kept' = {}
    /\ \E i \in (IF hub[cur] \in {"added", "subscribed"} THEN 1 ELSE 0)..Len(wire[cur]) :
         wire' = [wire EXCEPT ![cur] = SubSeq(@, 1, i)]
    /\ UNCHANGED <<faults, opened, filled, at, hub, registry, subs, cache>>

Break == "link" \in faults /\ Disconnect /\ UNCHANGED <<occ, jobVars>>

\* The printer restarts: newSlotState counts from zero whatever the compartment
\* holds, and the jobs in the old process's hands are gone.
InHand(j) == job[j] \in {"printing", "printed", "recorded"}
Restart ==
    /\ "restart" \in faults
    /\ \/ Disconnect
       \/ cur = 0 /\ (occ # 0 \/ \E j \in Job : InHand(j))
          /\ UNCHANGED <<faults, opened, cur, kept, filled, cloudVars>>
    /\ occ' = 0
    /\ job' = [j \in Job |-> IF InHand(j) THEN "lost" ELSE job[j]]
    /\ UNCHANGED <<via, count>>

\* runKeepalive, a tick: take a snapshot ...
KeepalivePing == cur # 0 /\ UNCHANGED <<faults, vars>>
Keepalive ==
    /\ cur # 0 /\ kept = {}
    /\ kept' = {occ}
    /\ UNCHANGED <<faults, opened, cur, occ, filled, cloudVars, jobVars>>

\* ... and send it.
KeepaliveSend ==
    /\ \E o \in kept : wire' = [wire EXCEPT ![cur] = Append(@, o)]
    /\ Len(wire[cur]) < MaxWire
    /\ kept' = {}
    /\ UNCHANGED <<faults, opened, cur, occ, filled, at, hub, registry, subs, cache, jobVars>>

----------------------------------------------------------------------------
(* The handler of a connection: Hub.Accept.                                *)

\* The register frame is read (it stays in front of wire until it is used), and
\* Registry.Add replaces whatever entry there was.
Register(k) ==
    /\ hub[k] = "register" /\ wire[k] # <<>>
    /\ k = cur \/ "late" \in faults
    /\ registry' = [registry EXCEPT ![at[k]] = k]
    /\ Goto(k, "added")
    /\ UNCHANGED <<faults, printerVars, at, wire, subs, cache, jobVars>>

\* SUBSCRIBE, and its acknowledgement; pumpDispatch is started.
Subscribe(k) ==
    /\ hub[k] = "added"
    /\ \/ subs' = subs \cup {k} /\ Goto(k, "subscribed")
       \/ Redis /\ Goto(k, "ended") /\ UNCHANGED subs
    /\ UNCHANGED <<faults, printerVars, at, wire, registry, cache, jobVars>>

\* SetPrinterState from a frame; a failure is only logged.
Cached(k) ==
    /\ \/ cache' = {Head(wire[k])}
       \/ Redis /\ UNCHANGED cache
    /\ wire' = [wire EXCEPT ![k] = Tail(@)]

\* The cache is seeded from the register frame.
SeedFirst(k) ==
    /\ hub[k] = "added" /\ wire[k] # <<>> /\ Cached(k)
    /\ \/ Goto(k, "serving") /\ subs' = subs \cup {k}
       \/ UNCHANGED <<hub, subs>>
    /\ UNCHANGED <<faults, printerVars, at, registry, jobVars>>
Seed(k) ==
    /\ hub[k] = "subscribed" /\ Cached(k) /\ Goto(k, "serving")
    /\ UNCHANGED <<faults, printerVars, at, registry, subs, jobVars>>

\* readLoop and onState.
ReadState(k) ==
    /\ hub[k] = "serving" /\ wire[k] # <<>> /\ Cached(k)
    /\ UNCHANGED <<faults, printerVars, at, hub, registry, subs, jobVars>>

\* A read fails: the connection is closed and nothing is left to read.
ReadError(k) ==
    /\ k # cur
    /\ \/ hub[k] = "register" /\ (wire[k] = <<>> \/ "late" \notin faults) /\ Goto(k, "gone")
       \/ hub[k] = "serving" /\ wire[k] = <<>> /\ Goto(k, "ended")
    /\ UNCHANGED <<faults, printerVars, at, wire, registry, subs, cache, jobVars>>

\* The deferred calls, last first: the subscription and its pump ...
Unsubscribe(k) ==
    /\ hub[k] = "ended"
    /\ subs' = subs \ {k} /\ Goto(k, "closing")
    /\ UNCHANGED <<faults, printerVars, at, wire, registry, cache, jobVars>>

\* ... then Registry.Remove, of the handler's own entry only.  CloseNow makes
\* the printer's end fail, if it had not yet.
RemoveAny(k, entry) == 0
Remove(k, entry) == IF entry = k THEN 0 ELSE entry
Deregister(k) ==
    /\ hub[k] = "closing"
    /\ registry' = [registry EXCEPT ![at[k]] = Remove(k, @)]
    /\ Goto(k, "gone")
    /\ wire' = [wire EXCEPT ![k] = <<>>]
    /\ cur' = (IF k = cur THEN 0 ELSE cur)
    /\ kept' = (IF k = cur THEN {} ELSE kept)
    /\ UNCHANGED <<faults, opened, occ, filled, at, subs, cache, jobVars>>

Accept(k) ==
    \/ Register(k) \/ Subscribe(k) \/ Seed(k) \/ ReadState(k)
    \/ ReadError(k) \/ Unsubscribe(k) \/ Deregister(k)

\* A node dies with its handlers; the sockets close.
Crash(n) ==
    /\ "crash" \in faults /\ \E k \in Conn : at[k] = n /\ hub[k] \notin {"none", "gone"}
    /\ LET dead == {k \in Conn : at[k] = n /\ hub[k] # "none"} IN
         /\ hub' = [k \in Conn |-> IF k \in dead THEN "gone" ELSE hub[k]]
         /\ wire' = [k \in Conn |-> IF k \in dead THEN <<>> ELSE wire[k]]
         /\ subs' = subs \ dead
         /\ cur' = (IF cur \in dead THEN 0 ELSE cur)
         /\ kept' = (IF cur \in dead THEN {} ELSE kept)
    /\ registry' = [registry EXCEPT ![n] = 0]
    /\ UNCHANGED <<faults, opened, occ, filled, at, cache, jobVars>>

\* 90 seconds without a frame.  A connected printer sends one every 30.
Connected == cur # 0 /\ hub[cur] = "serving"
Expire ==
    /\ cache # {} /\ ~Connected
    /\ cache' = {}
    /\ UNCHANGED <<faults, printerVars, at, hub, wire, registry, subs, jobVars>>

----------------------------------------------------------------------------
(* A job: what module Dispatch says in detail, as far as the link sees it. *)

\* eligible: the cached occupancy leaves room; an unknown one does not.
Eligible(j) ==
    /\ job[j] = "waiting" /\ \E o \in cache : o < MaxSlot
    /\ job' = [job EXCEPT ![j] = "eligible"]
    /\ UNCHANGED <<faults, printerVars, cloudVars, via, count>>

\* PUBLISH mailbox:<id>:dispatch, relayed by every subscriber's pumpDispatch;
\* only the live connection's write reaches the printer.
Publish(j) ==
    /\ job[j] = "eligible"
    /\ \/ subs = {} /\ job' = [job EXCEPT ![j] = "waiting"] /\ UNCHANGED via
       \/ /\ cur \in subs
          /\ job' = [job EXCEPT ![j] = "printing"] /\ via' = [via EXCEPT ![j] = cur]
       \/ /\ subs # {} /\ cur \notin subs
          /\ job' = [job EXCEPT ![j] = "lost"] /\ UNCHANGED <<faults, via>>
    /\ UNCHANGED <<faults, printerVars, cloudVars, count>>

\* handleDispatch: the document is printed, or processing fails ...
PrintDocument(j) ==
    /\ job[j] = "printing"
    /\ \/ filled' = filled + 1 /\ job' = [job EXCEPT ![j] = "printed"]
       \/ UNCHANGED filled /\ job' = [job EXCEPT ![j] = "done"]
    /\ UNCHANGED <<faults, opened, cur, occ, kept, cloudVars, via, count>>

\* ... recordDelivery counts it, up to the maximum ...
RecordUncapped(j) ==
    /\ job[j] = "printed"
    /\ occ' = occ + 1 /\ count' = [count EXCEPT ![j] = occ + 1]
    /\ job' = [job EXCEPT ![j] = "recorded"]
    /\ UNCHANGED <<faults, opened, cur, kept, filled, cloudVars, via>>
RecordForgets(j) ==
    /\ job[j] = "printed"
    /\ count' = [count EXCEPT ![j] = IF occ < MaxSlot THEN occ + 1 ELSE occ]
    /\ job' = [job EXCEPT ![j] = "recorded"]
    /\ UNCHANGED <<faults, printerVars, cloudVars, via>>
RecordDelivery(j) ==
    /\ job[j] = "printed"
    /\ LET o == IF occ < MaxSlot THEN occ + 1 ELSE occ IN
         occ' = o /\ count' = [count EXCEPT ![j] = o]
    /\ job' = [job EXCEPT ![j] = "recorded"]
    /\ UNCHANGED <<faults, opened, cur, kept, filled, cloudVars, via>>

\* ... and the state frame is sent over the connection the job came over.
SendState(j) ==
    /\ job[j] = "recorded"
    /\ \/ via[j] # cur /\ UNCHANGED wire
       \/ /\ via[j] = cur /\ Len(wire[cur]) < MaxWire
          /\ wire' = [wire EXCEPT ![cur] = Append(@, count[j])]
    /\ job' = [job EXCEPT ![j] = "done"]
    /\ UNCHANGED <<faults, printerVars, at, hub, registry, subs, cache, via, count>>

Work(j) == PrintDocument(j) \/ RecordDelivery(j) \/ SendState(j)

Next ==
    \/ Dial \/ Break \/ Restart \/ Keepalive \/ KeepaliveSend \/ Expire
    \/ \E k \in Conn : Accept(k)
    \/ \E n \in Node : Crash(n)
    \/ \E j \in Job : Eligible(j) \/ Publish(j) \/ Work(j)

Spec == Init /\ [][Next]_vars

\* Goroutines keep running, the printer keeps dialling, and its ticker keeps
\* ticking.  Nothing makes a job come, or a connection break.
FairSpec ==
    /\ Spec
    /\ WF_vars(Dial) /\ WF_vars(Keepalive) /\ WF_vars(KeepaliveSend)
    /\ \A k \in Conn : WF_vars(Accept(k))
    /\ \A j \in Job : WF_vars(Work(j)) /\ WF_vars(Publish(j))

----------------------------------------------------------------------------
(* Properties.                                                             *)

\* The Registry holds the live socket, whatever happens to older ones (Remove
\* "guards against a slow teardown of an old connection clobbering a newer
\* reconnect"): Hub.Close can only say goodbye to the sockets it finds there.  Add
\* is not guarded: a handler that reads its register frame when its connection is
\* already gone would replace the newer entry.
LiveIsRegistered ==
    "late" \notin faults /\ cur # 0 /\ hub[cur] \in {"added", "subscribed", "serving"}
        => registry[at[cur]] = cur

\* What dispatch may expect of the link (module DispatchChannel): the cache is
\* written only while a dispatch PUBLISH finds a subscriber (Accept: "once
\* mailbox:<id>:state is visible, the dispatch subscription is guaranteed already
\* active"), by whichever handler, and a subscriber goes away only with its socket.
Listening ==
    IF cur # 0 /\ cur \in subs THEN "up" ELSE IF subs # {} THEN "stale" ELSE "down"
Channel == INSTANCE DispatchChannel WITH
    Mailbox <- {"mailbox"},
    breaks <- faults \cap {"link", "crash", "restart"} # {},
    open <- [m \in {"mailbox"} |-> \E o \in cache : o < MaxSlot],
    link <- [m \in {"mailbox"} |-> Listening]
KeepsTheChannel == Channel!Spec

\* A stale cache errs on one side only: what it says is never more than the
\* printer has counted, whichever connection the frame came over and however
\* late it was sent or read, and never more than the compartment holds although
\* a restarted printer counts from zero.  No job is held back by a slot that has
\* room.
Counted == IF filled < MaxSlot THEN filled ELSE MaxSlot
CacheNeverAhead ==
    \A o \in cache : o <= Counted /\ ("restart" \notin faults => o <= occ)

\* The cache comes to tell how full the compartment is, as far as the printer's
\* process has counted, once the connection is stable: although frames of older
\* connections are read late, snapshots are sent after newer ones, and a delivery
\* may be recorded when its connection is gone.
Settled == Connected /\ \A j \in Job : job[j] \notin {"printed", "recorded"}
Truth == IF "restart" \in faults THEN occ ELSE Counted
CacheConverges == "redis" \notin faults => (<>[]Settled => <>[](cache = {Truth}))
=============================================================================
