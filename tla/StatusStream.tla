---------------------------- MODULE StatusStream ----------------------------
(***************************************************************************)
(* How a sender watches a job: Hub.onStatus writes each reported status to *)
(* Postgres and publishes it on job:<id>:status; StreamJob, on whichever   *)
(* node the browser reached, subscribes, sends a snapshot of the row and   *)
(* relays what the channel delivers; the portal page shows the last status *)
(* it was sent.  One job, any number of viewers.                           *)
(***************************************************************************)
EXTENDS Naturals, Sequences

CONSTANTS
    Viewer,      \* open tracking pages
    Credential,  \* what each viewer presents: see Credentials
    Guest,       \* the job was submitted without an account
    Environments,  \* the sets of faults to consider: subsets of FaultKinds
    MaxReopen,   \* bound: how often a viewer's page is opened
    MaxFrames    \* bound: status frames a printer sends about the job

\* "drain"  the viewer's node shuts down
\* "gone"   the browser goes away
\* "redis"  SUBSCRIBE fails
\* "lost"   a PUBLISH fails, or its message does not reach a subscriber
\* "db"     a read of the row, or onStatus' UPDATE of it, fails
\* "twice"  the job is dispatched again although a printer has it
FaultKinds == {"drain", "gone", "redis", "lost", "db", "twice"}

\* A bearer token of the job's sender, one of another sender, the right guest
\* token, a wrong one, nothing.
Credentials == {"owner", "stranger", "token", "wrongToken", "none"}

ASSUME ViewersAssumption ==
    /\ Credential \in [Viewer -> Credentials]
    /\ Guest \in BOOLEAN
    /\ Environments \subseteq SUBSET FaultKinds
    /\ MaxReopen \in Nat /\ MaxFrames \in Nat

VARIABLES
    faults,  \* what may go wrong in this behaviour, chosen at the start
    row,     \* jobs.status
    frames,  \* how many status frames onStatus has been called with
    hub,     \* the status onStatus has written and not yet published, or "idle"
    at,      \* where the viewer's StreamJob call is
    queue,   \* messages its subscription has received and not relayed
    snap,    \* the status StreamJob has read and not yet written
    shown,   \* the status the page shows, "none" before the first event
    reply,   \* the HTTP status of the viewer's request, 0 before there is one
    opens,   \* how often the page was opened
    missed   \* history: the subscribers the last publication did not reach

vars == <<faults, row, frames, hub, at, queue, snap, shown, reply, opens, missed>>

Waiting  == {"submitted", "queued", "dispatching"}
Terminal == {"delivered", "failed"}
Reported == {"printing"} \cup Terminal

\* "closed" no request; "subscribe" authorized; "read" subscribed; "write" the
\* row has been read; "stream" in the relay loop; "ended" the response is over;
\* "lost" the page has given up.
Place == {"closed", "subscribe", "read", "write", "stream", "ended", "lost"}

\* A page without the right credential is neither streamed to nor shows anything.
StrangersSeeNothing ==
    \A v \in Viewer : Credential[v] \notin {"owner", "token"} =>
        shown[v] = "none" /\ at[v] \in {"closed", "ended", "lost"}

\* Every variable stays in its range.
TypeOK ==
    /\ faults \in Environments
    /\ row   \in Waiting \cup Reported
    /\ frames \in 0..MaxFrames
    /\ hub   \in {"idle"} \cup Reported
    /\ at    \in [Viewer -> Place]
    /\ queue \in [Viewer -> Seq(Reported)]
    /\ snap  \in [Viewer -> {"none"} \cup Waiting \cup Reported]
    /\ shown \in [Viewer -> {"none"} \cup Waiting \cup Reported]
    /\ reply \in [Viewer -> {0, 200, 401, 403, 404, 500}]
    /\ opens \in [Viewer -> 0..MaxReopen]
    /\ missed \in SUBSET Viewer
    /\ StrangersSeeNothing

Init ==
    /\ faults \in Environments
    /\ row = "submitted" /\ frames = 0 /\ hub = "idle"
    /\ at    = [v \in Viewer |-> "closed"]
    /\ queue = [v \in Viewer |-> <<>>]
    /\ snap  = [v \in Viewer |-> "none"]
    /\ shown = [v \in Viewer |-> "none"]
    /\ reply = [v \in Viewer |-> 0]
    /\ opens = [v \in Viewer |-> 0]
    /\ missed = {}

----------------------------------------------------------------------------
(* The job.                                                                *)

\* Claims and reverts of the dispatch path; none of them is published.  RequeueJob
\* looks at no status: a revert after a hand-over that had gone through requeues
\* the job of a printer at work.
Dispatch(s) ==
    /\ row # s /\ s \in Waiting \ {"submitted"}
    /\ (row \in Waiting /\ frames = 0) \/ "twice" \in faults
    /\ row' = s
    /\ UNCHANGED <<faults, frames, hub, at, queue, snap, shown, reply, opens, missed>>

\* onStatus, the UPDATE, whatever the row says; when it fails the frame is dropped.
\* (The audit event that follows is written or not; nobody reads it here.)  A
\* printer's frames for a job arrive in order over one socket and are handled one
\* after the other; the frames of two prints come in any order.
UpdateJobStatus(s) ==
    /\ hub = "idle" /\ frames < MaxFrames
    /\ \/ frames = 0 /\ row = "dispatching" /\ s = "printing"
       \/ frames = 1 /\ s \in Terminal
       \/ "twice" \in faults /\ s \in Reported /\ row # "submitted"
    /\ frames' = frames + 1
    /\ \/ row' = s /\ hub' = s /\ missed' = {}
       \/ "db" \in faults /\ UNCHANGED <<row, hub, missed>>
    /\ UNCHANGED <<faults, at, queue, snap, shown, reply, opens>>

\* From the acknowledged SUBSCRIBE to the end of the handler.
SubscribedLate(v) == at[v] = "stream"
Subscribed(v) == at[v] \in {"read", "write", "stream"}

\* onStatus, PUBLISH job:<id>:status: the result is not looked at.
PublishStatus ==
    /\ hub # "idle"
    /\ \E deaf \in SUBSET {v \in Viewer : Subscribed(v)} :
          /\ deaf # {} => "lost" \in faults
          /\ queue' = [v \in Viewer |-> IF Subscribed(v) /\ v \notin deaf
                                        THEN Append(queue[v], hub) ELSE queue[v]]
          /\ missed' = missed \cup deaf
    /\ hub' = "idle"
    /\ UNCHANGED <<faults, row, frames, at, snap, shown, reply, opens>>

----------------------------------------------------------------------------
(* StreamJob.                                                              *)

\* authorizeStream: the sender who owns the job, or the matching guest token.
AuthorizedBearer(v) == IF Guest THEN Credential[v] = "token"
                                ELSE Credential[v] \in {"owner", "stranger"}
Authorized(v) ==
    \/ ~Guest /\ Credential[v] = "owner"
    \/ Guest /\ Credential[v] = "token"

Refusal(v) ==
    CASE Credential[v] \in {"token", "wrongToken"} -> 403
      [] Credential[v] \in {"owner", "stranger"}   -> 404
      [] OTHER                                     -> 401

Answer(v, code) == reply' = [reply EXCEPT ![v] = code]
Goto(v, place) == at' = [at EXCEPT ![v] = place]

\* The page opens an EventSource, with nothing shown yet; GetJobForStream and
\* authorizeStream.
Open(v) ==
    /\ at[v] \in {"closed", "ended", "lost"} /\ opens[v] < MaxReopen
    /\ opens' = [opens EXCEPT ![v] = @ + 1]
    /\ shown' = [shown EXCEPT ![v] = "none"]
    /\ \/ Authorized(v) /\ Goto(v, "subscribe") /\ Answer(v, 0)
       \/ ~Authorized(v) /\ Goto(v, "ended") /\ Answer(v, Refusal(v))
       \/ "db" \in faults /\ Goto(v, "ended") /\ Answer(v, 500)
    /\ UNCHANGED <<faults, row, frames, hub, queue, snap, missed>>

\* SUBSCRIBE, waiting for its acknowledgement.
Subscribe(v) ==
    /\ at[v] = "subscribe"
    /\ queue' = [queue EXCEPT ![v] = <<>>] /\ missed' = missed \ {v}
    /\ \/ Goto(v, "read") /\ UNCHANGED reply
       \/ "redis" \in faults /\ Goto(v, "ended") /\ Answer(v, 500)
    /\ UNCHANGED <<faults, row, frames, hub, snap, shown, opens>>

\* writeSSE and the page's onmessage; a terminal status ends both sides.
EventKeepsStream(v, s) == shown' = [shown EXCEPT ![v] = s] /\ Goto(v, "stream")
Event(v, s) ==
    /\ shown' = [shown EXCEPT ![v] = s]
    /\ Goto(v, IF s \in Terminal THEN "ended" ELSE "stream")

\* The row is read again, now that the subscription is live ...
Snapshot(v) ==
    /\ at[v] = "read"
    /\ \/ /\ snap' = [snap EXCEPT ![v] = row]
          /\ Goto(v, "write") /\ UNCHANGED reply
       \/ "db" \in faults /\ Goto(v, "ended") /\ Answer(v, 500) /\ UNCHANGED snap
    /\ UNCHANGED <<faults, row, frames, hub, queue, shown, opens, missed>>

\* ... and sent as the first event.
WriteSnapshot(v) ==
    /\ at[v] = "write"
    /\ Event(v, snap[v]) /\ Answer(v, 200)
    /\ snap' = [snap EXCEPT ![v] = "none"]
    /\ UNCHANGED <<faults, row, frames, hub, queue, opens, missed>>

\* Then whatever the channel delivers.
Relay(v) ==
    /\ at[v] = "stream" /\ queue[v] # <<>>
    /\ Event(v, Head(queue[v]))
    /\ queue' = [queue EXCEPT ![v] = Tail(@)]
    /\ UNCHANGED <<faults, row, frames, hub, snap, reply, opens, missed>>

\* The node drains: the stream is closed before its job is over.
DrainStream(v) ==
    /\ "drain" \in faults /\ at[v] = "stream"
    /\ Goto(v, "ended")
    /\ UNCHANGED <<faults, row, frames, hub, queue, snap, shown, reply, opens, missed>>

\* The browser leaves; the request's context ends the handler.
ClientGone(v) ==
    /\ "gone" \in faults /\ at[v] \in {"subscribe", "read", "write", "stream"}
    /\ Goto(v, "closed")
    /\ UNCHANGED <<faults, row, frames, hub, queue, snap, shown, reply, opens, missed>>

\* The page's onerror: a response that ends before a terminal status makes it
\* close its EventSource, which therefore never reconnects.
OnError(v) ==
    /\ at[v] = "ended" /\ shown[v] \notin Terminal
    /\ Goto(v, "lost")
    /\ UNCHANGED <<faults, row, frames, hub, queue, snap, shown, reply, opens, missed>>

Stream(v) == Subscribe(v) \/ Snapshot(v) \/ WriteSnapshot(v) \/ Relay(v)

Next ==
    \/ \E s \in Waiting \cup Reported : Dispatch(s) \/ UpdateJobStatus(s)
    \/ PublishStatus
    \/ \E v \in Viewer : Open(v) \/ Stream(v) \/ DrainStream(v) \/ ClientGone(v) \/ OnError(v)

Spec == Init /\ [][Next]_vars

\* The handlers' goroutines keep running, and the hub finishes what it began.
\* Nothing makes a job progress or a viewer come.
FairSpec ==
    /\ Spec
    /\ WF_vars(PublishStatus)
    /\ \A v \in Viewer : WF_vars(Stream(v)) /\ WF_vars(OnError(v))

----------------------------------------------------------------------------
(* Properties.                                                             *)

\* A live stream misses nothing: the status a printer reported last is on the
\* page, or on its way there (StreamJob subscribes before it takes the snapshot; "a
\* transition that lands in the gap" would never be seen).  A publication that does
\* not reach a subscriber hides that one status from that one page.
OnItsWay(v, s) == hub = s \/ \E i \in 1..Len(queue[v]) : queue[v][i] = s
Knows(v, s) == s = row \/ OnItsWay(v, row) \/ v \in missed
NoGap ==
    \A v \in Viewer : at[v] = "stream" /\ row \in Reported => Knows(v, shown[v])

\* NoGap is not inductive: a relayed message must not replace a newer status.  What
\* a subscription received last is the row, an open stream has not shown the end,
\* and the snapshot in hand is covered like the page it will go to.
LastIsRow ==
    row \in Reported =>
        /\ hub \in {"idle", row}
        /\ \A v \in Viewer \ missed :
              hub = "idle" /\ Subscribed(v) /\ queue[v] # <<>> => queue[v][Len(queue[v])] = row
EndClosesStream ==
    \A v \in Viewer : /\ at[v] = "stream" => shown[v] \notin Terminal
                      /\ at[v] \in {"subscribe", "read", "write"} => shown[v] = "none"
SnapshotIsCovered ==
    \A v \in Viewer : at[v] = "write" /\ row \in Reported => Knows(v, snap[v])
StreamInv == LastIsRow /\ EndClosesStream /\ SnapshotIsCovered /\ NoGap

\* While it is open, a page never shows an earlier stage than it showed before,
\* although the snapshot and the channel overlap (StreamJob: "the worst case is
\* seeing the same transition twice").
Rank(s) == CASE s = "none" -> 0 [] s \in Waiting -> 1 [] s = "printing" -> 2 [] OTHER -> 3
NeverBack ==
    [][\A v \in Viewer : opens'[v] = opens[v] => Rank(shown'[v]) >= Rank(shown[v])]_vars

\* A viewer that is watching when its job ends is told so, unless it leaves: a
\* draining node does not change that ("EventSource reconnects on its own --
\* landing on a node that is not draining", StreamJob).
Watching(v) == at[v] \in {"read", "write", "stream"} /\ row \in Terminal
Told(v) == shown[v] \in Terminal \/ at[v] = "closed"
ToldOfTheEnd == \A v \in Viewer : Watching(v) ~> Told(v)

\* So it is where no node drains and the job is printed once: whatever the order
\* of subscription, snapshot and publication, an open stream comes to its end
\* (StreamJob's relay loop and the page's onmessage), unless the viewer was
\* answered 500 or the publication of the end itself did not reach it.
Excused(v) == reply[v] = 500 \/ v \in missed
ToldIfUndisturbed ==
    faults \cap {"drain", "twice"} = {} =>
        \A v \in Viewer : Watching(v) ~> Told(v) \/ Excused(v)
=============================================================================
