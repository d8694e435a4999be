------------------------- MODULE StatusStreamProofs -------------------------
(***************************************************************************)
(* Proofs about the job status stream, for any number of viewers, any      *)
(* credentials and any environment: every variable keeps its type, a live  *)
(* stream misses no reported status, and a page never goes back.           *)
(***************************************************************************)
EXTENDS StatusStream, SequenceTheorems, TLAPS

----------------------------------------------------------------------------
(* Types.                                                                  *)

LEMMA InitTypes == Init => TypeOK
  <1> SUFFICES ASSUME Init PROVE TypeOK
    OBVIOUS
  <1>1. queue \in [Viewer -> Seq(Reported)]
    <2>1. <<>> \in Seq(Reported)
      OBVIOUS
    <2> QED BY <2>1 DEF Init
  <1> QED
    BY <1>1, ViewersAssumption
    DEF Init, TypeOK, StrangersSeeNothing, Waiting, Reported, Terminal, Place

\* A queue keeps its type when a report is appended to it.
LEMMA PublishedQueue ==
  ASSUME TypeOK, PublishStatus
  PROVE  /\ queue' \in [Viewer -> Seq(Reported)]
         /\ hub \in Reported
  <1>1. hub \in Reported
    BY DEF PublishStatus, TypeOK
  <1>2. ASSUME NEW v \in Viewer PROVE Append(queue[v], hub) \in Seq(Reported)
    <2>1. queue[v] \in Seq(Reported)
      BY DEF TypeOK
    <2> QED BY <1>1, <2>1
  <1>3. queue \in [Viewer -> Seq(Reported)]
    BY DEF TypeOK
  <1>4. PICK deaf \in SUBSET {v \in Viewer : Subscribed(v)} :
           queue' = [v \in Viewer |-> IF Subscribed(v) /\ v \notin deaf
                                     THEN Append(queue[v], hub) ELSE queue[v]]
    BY DEF PublishStatus
  <1> QED BY <1>1, <1>2, <1>3, <1>4

\* What is relayed is a report, and the rest of the queue are reports.
LEMMA RelayedQueue ==
  ASSUME TypeOK, NEW v \in Viewer, queue[v] # <<>>
  PROVE  Head(queue[v]) \in Reported /\ Tail(queue[v]) \in Seq(Reported)
  <1>1. queue[v] \in Seq(Reported)
    BY DEF TypeOK
  <1> QED BY <1>1

\* What one viewer does leaves the other viewers where they are.
LEMMA OthersUntouched ==
  ASSUME TypeOK, NEW v \in Viewer, NEW w \in Viewer \ {v},
         Open(v) \/ Stream(v) \/ DrainStream(v) \/ ClientGone(v) \/ OnError(v)
  PROVE  /\ at'[w] = at[w] /\ queue'[w] = queue[w]
         /\ snap'[w] = snap[w] /\ shown'[w] = shown[w]
         /\ w \in missed => w \in missed'
  BY DEF TypeOK, Open, Stream, Subscribe, Snapshot, WriteSnapshot, Relay, Event,
         DrainStream, ClientGone, OnError, Goto

\* No viewer moves the job or its announcement.
LEMMA JobUntouched ==
  ASSUME NEW v \in Viewer,
         Open(v) \/ Stream(v) \/ DrainStream(v) \/ ClientGone(v) \/ OnError(v)
  PROVE  row' = row /\ hub' = hub /\ faults' = faults
  BY DEF Open, Stream, Subscribe, Snapshot, WriteSnapshot, Relay, DrainStream,
         ClientGone, OnError

\* A refused page is not streamed to.
LEMMA StrangersStay ==
  ASSUME TypeOK, NEW v \in Viewer,
         Open(v) \/ Stream(v) \/ DrainStream(v) \/ ClientGone(v) \/ OnError(v)
  PROVE  StrangersSeeNothing'
  <1>0. \A w \in Viewer \ {v} : shown'[w] = shown[w] /\ at'[w] = at[w]
    BY OthersUntouched
  <1>1. SUFFICES ASSUME Credential[v] \notin {"owner", "token"}
                 PROVE  shown'[v] = "none" /\ at'[v] \in {"closed", "ended", "lost"}
    <2>1. StrangersSeeNothing
      BY DEF TypeOK
    <2> QED BY <1>0, <2>1 DEF StrangersSeeNothing
  <1>2. shown[v] = "none" /\ at[v] \in {"closed", "ended", "lost"}
    BY <1>1 DEF StrangersSeeNothing, TypeOK
  <1>3. ~Stream(v) /\ ~DrainStream(v) /\ ~ClientGone(v)
    BY <1>2 DEF Stream, Subscribe, Snapshot, WriteSnapshot, Relay, DrainStream, ClientGone
  <1>4. CASE Open(v)
    BY <1>1, <1>4 DEF Open, Authorized, Goto, TypeOK
  <1>5. CASE OnError(v)
    BY <1>2, <1>5 DEF OnError, Goto, TypeOK
  <1> QED BY <1>3, <1>4, <1>5

\* Each action of a viewer's stream.
LEMMA ViewerTypes ==
  ASSUME TypeOK, NEW v \in Viewer,
         Open(v) \/ Stream(v) \/ DrainStream(v) \/ ClientGone(v) \/ OnError(v)
  PROVE  TypeOK'
  <1>0. ASSUME NEW place \in Place, Goto(v, place)
        PROVE  at' \in [Viewer -> Place]
    BY <1>0 DEF Goto, TypeOK
  <1>s. StrangersSeeNothing'
    BY StrangersStay
  <1>m. missed' \in SUBSET Viewer
    BY DEF Open, Stream, Subscribe, Snapshot, WriteSnapshot, Relay, DrainStream,
           ClientGone, OnError, TypeOK
  <1>00. ASSUME NEW code \in {0, 200, 401, 403, 404, 500}, Answer(v, code)
         PROVE  reply' \in [Viewer -> {0, 200, 401, 403, 404, 500}]
    BY <1>00 DEF Answer, TypeOK
  <1>1. CASE Open(v)
    <2>1. opens' \in [Viewer -> 0..MaxReopen]
      <3>1. opens[v] + 1 \in 0..MaxReopen
        BY <1>1, ViewersAssumption DEF Open, TypeOK
      <3> QED BY <1>1, <3>1 DEF Open, TypeOK
    <2>2. Refusal(v) \in {0, 200, 401, 403, 404, 500}
      BY DEF Refusal
    <2>3. at' \in [Viewer -> Place]
      BY <1>0, <1>1 DEF Open, Place
    <2>4. reply' \in [Viewer -> {0, 200, 401, 403, 404, 500}]
      BY <1>00, <1>1, <2>2 DEF Open
    <2>5. shown' \in [Viewer -> {"none"} \cup Waiting \cup Reported]
      BY <1>1 DEF Open, TypeOK
    <2> QED
      BY <1>s, <1>m, <1>1, <2>1, <2>3, <2>4, <2>5 DEF Open, TypeOK
  <1>2. CASE Subscribe(v)
    <2>1. queue' \in [Viewer -> Seq(Reported)]
      <3>1. <<>> \in Seq(Reported)
        OBVIOUS
      <3> QED BY <1>2, <3>1 DEF Subscribe, TypeOK
    <2>2. at' \in [Viewer -> Place]
      BY <1>0, <1>2 DEF Subscribe, Place
    <2>3. reply' \in [Viewer -> {0, 200, 401, 403, 404, 500}]
      BY <1>00, <1>2 DEF Subscribe, TypeOK
    <2> QED BY <1>s, <1>m, <1>2, <2>1, <2>2, <2>3 DEF Subscribe, TypeOK
  <1>3. CASE Snapshot(v)
    <2>1. at' \in [Viewer -> Place]
      BY <1>0, <1>3 DEF Snapshot, Place
    <2>2. reply' \in [Viewer -> {0, 200, 401, 403, 404, 500}]
      BY <1>00, <1>3 DEF Snapshot, TypeOK
    <2>3. snap' \in [Viewer -> {"none"} \cup Waiting \cup Reported]
      <3>1. snap \in [Viewer -> {"none"} \cup Waiting \cup Reported] /\ row \in Waiting \cup Reported
        BY DEF TypeOK
      <3>2. snap' = snap \/ snap' = [snap EXCEPT ![v] = row]
        BY <1>3 DEF Snapshot
      <3> QED BY <3>1, <3>2
    <2> QED BY <1>s, <1>m, <1>3, <2>1, <2>2, <2>3 DEF Snapshot, TypeOK
  <1>4. CASE WriteSnapshot(v)
    <2>1. at' \in [Viewer -> Place]
      BY <1>0, <1>4 DEF WriteSnapshot, Event, Place
    <2>2. reply' \in [Viewer -> {0, 200, 401, 403, 404, 500}]
      BY <1>00, <1>4 DEF WriteSnapshot
    <2>3. /\ snap' \in [Viewer -> {"none"} \cup Waiting \cup Reported]
          /\ shown' \in [Viewer -> {"none"} \cup Waiting \cup Reported]
      BY <1>4 DEF WriteSnapshot, Event, TypeOK
    <2> QED BY <1>s, <1>m, <1>4, <2>1, <2>2, <2>3 DEF WriteSnapshot, TypeOK
  <1>5. CASE Relay(v)
    <2>1. Head(queue[v]) \in Reported /\ Tail(queue[v]) \in Seq(Reported)
      BY <1>5, RelayedQueue DEF Relay
    <2>2. at' \in [Viewer -> Place]
      BY <1>0, <1>5 DEF Relay, Event, Place
    <2>3. /\ queue' \in [Viewer -> Seq(Reported)]
          /\ shown' \in [Viewer -> {"none"} \cup Waiting \cup Reported]
      BY <1>5, <2>1 DEF Relay, Event, TypeOK
    <2> QED BY <1>s, <1>m, <1>5, <2>2, <2>3 DEF Relay, TypeOK
  <1>6. CASE DrainStream(v) \/ ClientGone(v) \/ OnError(v)
    <2>1. at' \in [Viewer -> Place]
      BY <1>0, <1>6 DEF DrainStream, ClientGone, OnError, Place
    <2>2. UNCHANGED <<faults, row, frames, hub, queue, snap, shown, reply, opens, missed>>
      BY <1>6 DEF DrainStream, ClientGone, OnError
    <2> QED BY <1>s, <1>m, <2>1, <2>2 DEF TypeOK
  <1> QED
    BY <1>1, <1>2, <1>3, <1>4, <1>5, <1>6 DEF Stream

LEMMA TypesStep == TypeOK /\ [Next]_vars => TypeOK'
  <1> SUFFICES ASSUME TypeOK, [Next]_vars PROVE TypeOK'
    OBVIOUS
  <1>1. ASSUME NEW s \in Waiting \cup Reported, Dispatch(s) \/ UpdateJobStatus(s)
        PROVE  TypeOK'
    <2>1. frames' \in 0..MaxFrames
      BY <1>1, ViewersAssumption DEF Dispatch, UpdateJobStatus, TypeOK
    <2>2. StrangersSeeNothing'
      BY <1>1 DEF Dispatch, UpdateJobStatus, StrangersSeeNothing, TypeOK
    <2>3. /\ row' \in Waiting \cup Reported /\ hub' \in {"idle"} \cup Reported
          /\ missed' \in SUBSET Viewer
      BY <1>1 DEF Dispatch, UpdateJobStatus, TypeOK, Reported
    <2>4. UNCHANGED <<faults, at, queue, snap, shown, reply, opens>>
      BY <1>1 DEF Dispatch, UpdateJobStatus
    <2> QED BY <2>1, <2>2, <2>3, <2>4 DEF TypeOK
  <1>2. CASE PublishStatus
    <2>1. StrangersSeeNothing' /\ missed' \in SUBSET Viewer
      BY <1>2 DEF PublishStatus, StrangersSeeNothing, TypeOK
    <2> QED BY <1>2, <2>1, PublishedQueue DEF PublishStatus, TypeOK
  <1>3. CASE UNCHANGED vars
    BY <1>3 DEF vars, TypeOK, StrangersSeeNothing
  <1> QED
    BY <1>1, <1>2, <1>3, ViewerTypes DEF Next

\* Every variable stays in its range: what onStatus, StreamJob and the tracking
\* page do never leaves the states the model names.
THEOREM TypeCorrect == Spec => []TypeOK
  BY InitTypes, TypesStep, PTL DEF Spec

----------------------------------------------------------------------------
(* A live stream misses nothing.                                           *)

LEMMA InitStream == Init => StreamInv
  <1> SUFFICES ASSUME Init PROVE StreamInv
    OBVIOUS
  <1>2. row \notin Reported
    BY DEF Init, Reported, Terminal
  <1>3. LastIsRow
    BY <1>2 DEF LastIsRow
  <1> QED
    BY <1>2, <1>3 DEF Init, StreamInv, EndClosesStream, SnapshotIsCovered, NoGap

\* A message of the channel, before and after one is appended.
LEMMA AppendedReport ==
  ASSUME NEW q \in Seq(Reported), NEW h \in Reported
  PROVE  /\ Append(q, h) \in Seq(Reported)
         /\ Len(Append(q, h)) = Len(q) + 1
         /\ \A i \in 1..Len(q) : Append(q, h)[i] = q[i]
         /\ Append(q, h)[Len(q) + 1] = h
  OBVIOUS

\* A message of the channel, before and after the first is taken.
LEMMA TakenReport ==
  ASSUME NEW q \in Seq(Reported), q # <<>>
  PROVE  /\ Len(q) \in Nat /\ Len(q) >= 1 /\ Head(q) = q[1]
         /\ Len(Tail(q)) = Len(q) - 1
         /\ \A i \in 1..Len(Tail(q)) : Tail(q)[i] = q[i + 1]
  OBVIOUS

\* What PUBLISH does to a subscription: the status is the last message, or it is
\* missed.
LEMMA Published ==
  ASSUME TypeOK, PublishStatus, NEW v \in Viewer, Subscribed(v), v \notin missed'
  PROVE  /\ queue[v] \in Seq(Reported) /\ hub \in Reported /\ v \notin missed
         /\ queue'[v] = Append(queue[v], hub)
  <1>1. PICK deaf \in SUBSET {w \in Viewer : Subscribed(w)} :
           /\ queue' = [w \in Viewer |-> IF Subscribed(w) /\ w \notin deaf
                                         THEN Append(queue[w], hub) ELSE queue[w]]
           /\ missed' = missed \cup deaf
    BY DEF PublishStatus
  <1>2. v \notin deaf /\ v \notin missed
    BY <1>1
  <1>3. hub \in Reported /\ queue[v] \in Seq(Reported)
    BY PublishedQueue DEF TypeOK
  <1> QED BY <1>1, <1>2, <1>3

\* What a subscription received last is the row.
LEMMA LastStep ==
  ASSUME TypeOK, LastIsRow, [Next]_vars
  PROVE  LastIsRow'
  <1>1. ASSUME NEW s \in Waiting \cup Reported, Dispatch(s) PROVE LastIsRow'
    <2>1. row' \notin Reported
      BY <1>1 DEF Dispatch, Waiting, Reported, Terminal
    <2> QED BY <2>1 DEF LastIsRow
  <1>2. ASSUME NEW s \in Waiting \cup Reported, UpdateJobStatus(s) PROVE LastIsRow'
    <2>1. CASE row' = s /\ hub' = s
      <3>1. s \in Reported
        BY <1>2 DEF UpdateJobStatus, Reported
      <3>2. s # "idle"
        BY <3>1 DEF Reported, Terminal
      <3> QED BY <2>1, <3>2 DEF LastIsRow
    <2>2. CASE UNCHANGED <<row, hub, missed>>
      <3>1. queue' = queue /\ at' = at
        BY <1>2 DEF UpdateJobStatus
      <3> QED BY <2>2, <3>1 DEF LastIsRow, Subscribed
    <2> QED BY <1>2, <2>1, <2>2 DEF UpdateJobStatus
  <1>3. CASE PublishStatus
    <2>1. row' = row /\ hub' = "idle" /\ at' = at /\ hub # "idle"
      BY <1>3 DEF PublishStatus
    <2> SUFFICES ASSUME row \in Reported, NEW v \in Viewer, v \notin missed', Subscribed(v)
                 PROVE  queue'[v][Len(queue'[v])] = row
      BY <2>1 DEF LastIsRow, Subscribed
    <2>2. /\ queue[v] \in Seq(Reported) /\ hub \in Reported
          /\ queue'[v] = Append(queue[v], hub)
      BY <1>3, Published
    <2>3. hub = row
      BY <2>1 DEF LastIsRow
    <2> QED BY <2>2, <2>3, AppendedReport
  <1>4. ASSUME NEW v \in Viewer,
               Open(v) \/ Stream(v) \/ DrainStream(v) \/ ClientGone(v) \/ OnError(v)
        PROVE  LastIsRow'
    <2>1. row' = row /\ hub' = hub
      BY <1>4, JobUntouched
    <2> SUFFICES ASSUME row \in Reported, hub = "idle", NEW w \in Viewer, w \notin missed',
                        Subscribed(w)', queue'[w] # <<>>
                 PROVE  queue'[w][Len(queue'[w])] = row
      BY <2>1 DEF LastIsRow
    <2>2. CASE w # v
      <3>1. at'[w] = at[w] /\ queue'[w] = queue[w] /\ (w \in missed => w \in missed')
        BY <1>4, <2>2, OthersUntouched
      <3> QED BY <3>1 DEF LastIsRow, Subscribed
    <2>3. CASE w = v /\ Relay(v)
      <3>1. /\ at[v] = "stream" /\ queue[v] # <<>> /\ queue'[v] = Tail(queue[v]) /\ missed' = missed
        BY <2>3 DEF Relay, TypeOK
      <3>2. queue[v] \in Seq(Reported) /\ queue[v][Len(queue[v])] = row
        BY <2>3, <3>1 DEF TypeOK, LastIsRow, Subscribed
      <3>3. /\ Len(queue[v]) \in Nat /\ Len(queue[v]) >= 1
            /\ Len(Tail(queue[v])) = Len(queue[v]) - 1
            /\ \A i \in 1..Len(Tail(queue[v])) : Tail(queue[v])[i] = queue[v][i + 1]
        BY <3>1, <3>2, TakenReport
      <3>4. Len(queue'[v]) >= 1
        <4>1. queue'[v] \in Seq(Reported) /\ queue'[v] # <<>>
          BY <2>3, <3>1, <3>2
        <4> QED BY <4>1
      <3>5. Len(queue'[v]) \in 1..Len(Tail(queue[v])) /\ Len(queue'[v]) + 1 = Len(queue[v])
        BY <3>1, <3>3, <3>4
      <3> QED BY <2>3, <3>1, <3>2, <3>3, <3>5
    <2>4. CASE w = v /\ (Snapshot(v) \/ WriteSnapshot(v))
      <3>1. Subscribed(v) /\ queue'[v] = queue[v] /\ missed' = missed
        BY <2>4 DEF Snapshot, WriteSnapshot, Subscribed
      <3> QED BY <2>4, <3>1 DEF LastIsRow
    <2>5. CASE w = v /\ Subscribe(v)
      BY <2>5 DEF Subscribe, TypeOK
    <2>6. CASE w = v /\ (Open(v) \/ DrainStream(v) \/ ClientGone(v) \/ OnError(v))
      BY <2>6 DEF Open, DrainStream, ClientGone, OnError, Goto, Subscribed, TypeOK
    <2> QED BY <1>4, <2>2, <2>3, <2>4, <2>5, <2>6 DEF Stream
  <1>5. CASE UNCHANGED vars
    BY <1>5 DEF vars, LastIsRow, Subscribed
  <1> QED BY <1>1, <1>2, <1>3, <1>4, <1>5 DEF Next

\* A stream that shows the end is over, and one that has shown nothing yet is
\* still on its way to its snapshot.
LEMMA EndStep ==
  ASSUME TypeOK, EndClosesStream, [Next]_vars
  PROVE  EndClosesStream'
  <1>1. CASE UNCHANGED <<at, shown>>
    BY <1>1 DEF EndClosesStream
  <1>2. ASSUME NEW v \in Viewer,
               Open(v) \/ Stream(v) \/ DrainStream(v) \/ ClientGone(v) \/ OnError(v)
        PROVE  EndClosesStream'
    <2>1. CASE Open(v)
      BY <2>1 DEF Open, Goto, EndClosesStream, TypeOK
    <2>2. CASE Subscribe(v) \/ Snapshot(v) \/ DrainStream(v) \/ ClientGone(v) \/ OnError(v)
      BY <2>2 DEF Subscribe, Snapshot, DrainStream, ClientGone, OnError, Goto,
                  EndClosesStream, TypeOK
    <2>3. CASE WriteSnapshot(v) \/ Relay(v)
      <3>1. PICK s : Event(v, s)
        BY <2>3 DEF WriteSnapshot, Relay
      <3>2. shown'[v] = s /\ at'[v] \in {"ended", "stream"} /\ (s \in Terminal => at'[v] = "ended")
        BY <3>1 DEF Event, Goto, TypeOK
      <3>3. \A w \in Viewer \ {v} : shown'[w] = shown[w] /\ at'[w] = at[w]
        BY <1>2, OthersUntouched
      <3> QED BY <3>2, <3>3 DEF EndClosesStream
    <2> QED BY <1>2, <2>1, <2>2, <2>3 DEF Stream
  <1>3. ASSUME NEW s \in Waiting \cup Reported, Dispatch(s) \/ UpdateJobStatus(s)
        PROVE  EndClosesStream'
    BY <1>1, <1>3 DEF Dispatch, UpdateJobStatus
  <1>4. CASE PublishStatus
    BY <1>1, <1>4 DEF PublishStatus
  <1>5. CASE UNCHANGED vars
    BY <1>1, <1>5 DEF vars
  <1> QED BY <1>2, <1>3, <1>4, <1>5 DEF Next

\* A published status stays on its way to whoever is subscribed and reached.
LEMMA StillOnItsWay ==
  ASSUME TypeOK, PublishStatus,
         NEW v \in Viewer, Subscribed(v), v \notin missed', OnItsWay(v, row)
  PROVE  OnItsWay(v, row)'
  <1>1. hub \in Reported /\ queue[v] \in Seq(Reported)
    BY Published
  <1>2. queue'[v] = Append(queue[v], hub) /\ row' = row
    BY Published DEF PublishStatus
  <1>3. CASE hub = row
    <2>1. Len(queue[v]) + 1 \in 1..Len(queue'[v]) /\ queue'[v][Len(queue[v]) + 1] = row'
      BY <1>1, <1>2, <1>3, AppendedReport
    <2> QED BY <2>1 DEF OnItsWay
  <1>4. ASSUME NEW i \in 1..Len(queue[v]), queue[v][i] = row
        PROVE  OnItsWay(v, row)'
    <2>1. i \in 1..Len(queue'[v]) /\ queue'[v][i] = row'
      BY <1>1, <1>2, <1>4, AppendedReport
    <2> QED BY <2>1 DEF OnItsWay
  <1> QED BY <1>3, <1>4 DEF OnItsWay

\* The snapshot in hand, or the page, is covered.
Covered(v) ==
    /\ at[v] = "write" /\ row \in Reported => Knows(v, snap[v])
    /\ at[v] = "stream" /\ row \in Reported => Knows(v, shown[v])

LEMMA CoveredIs ==
  (SnapshotIsCovered /\ NoGap) <=> \A v \in Viewer : Covered(v)
  BY DEF SnapshotIsCovered, NoGap, Covered

\* A viewer's own step keeps it covered: the heart is Relay, which may replace
\* what the page shows only by the newest status or by one with the newest
\* behind it.
LEMMA OwnStep ==
  ASSUME TypeOK, LastIsRow, NEW v \in Viewer, Covered(v),
         Open(v) \/ Stream(v) \/ DrainStream(v) \/ ClientGone(v) \/ OnError(v)
  PROVE  Covered(v)'
  <1>1. row' = row /\ hub' = hub
    BY JobUntouched
  <1>2. CASE Open(v) \/ Subscribe(v) \/ DrainStream(v) \/ ClientGone(v) \/ OnError(v)
    <2>1. at'[v] \notin {"write", "stream"}
      BY <1>2 DEF Open, Subscribe, DrainStream, ClientGone, OnError, Goto, TypeOK
    <2> QED BY <2>1 DEF Covered
  <1>3. CASE Snapshot(v)
    <2>1. at'[v] # "stream" /\ (at'[v] = "write" => snap'[v] = row)
      BY <1>3 DEF Snapshot, Goto, TypeOK
    <2> QED BY <1>1, <2>1 DEF Covered, Knows
  <1>4. CASE WriteSnapshot(v)
    <2>1. /\ at[v] = "write" /\ at'[v] # "write" /\ shown'[v] = snap[v]
          /\ queue'[v] = queue[v] /\ missed' = missed
      BY <1>4 DEF WriteSnapshot, Event, Goto, TypeOK
    <2> QED BY <1>1, <2>1 DEF Covered, Knows, OnItsWay
  <1>5. CASE Relay(v)
    <2>1. /\ at[v] = "stream" /\ queue[v] # <<>> /\ at'[v] # "write"
          /\ shown'[v] = Head(queue[v]) /\ queue'[v] = Tail(queue[v]) /\ missed' = missed
      BY <1>5 DEF Relay, Event, Goto, TypeOK
    <2>2. queue[v] \in Seq(Reported)
      BY DEF TypeOK
    <2>3. /\ Len(queue[v]) \in Nat /\ Len(queue[v]) >= 1 /\ Head(queue[v]) = queue[v][1]
          /\ Len(queue'[v]) = Len(queue[v]) - 1
          /\ \A i \in 1..Len(queue'[v]) : queue'[v][i] = queue[v][i + 1]
      BY <2>1, <2>2, TakenReport
    <2> SUFFICES ASSUME row \in Reported, shown'[v] # row, v \notin missed, hub # row
                 PROVE  OnItsWay(v, row)'
      BY <1>1, <2>1 DEF Covered, Knows, OnItsWay
    <2>4. queue[v][Len(queue[v])] = row
      BY <2>1 DEF LastIsRow, Subscribed
    <2>5. Len(queue[v]) # 1
      BY <2>1, <2>3, <2>4
    <2>6. Len(queue'[v]) \in 1..Len(queue'[v]) /\ Len(queue'[v]) + 1 = Len(queue[v])
      <3>1. ASSUME NEW n \in Nat, n >= 1, n # 1, NEW m, m = n - 1
            PROVE  m \in 1..m /\ m + 1 = n
        BY ONLY <3>1
      <3>2. Len(queue[v]) \in Nat /\ Len(queue[v]) >= 1 /\ Len(queue'[v]) = Len(queue[v]) - 1
        BY ONLY <2>3
      <3> QED BY ONLY <2>5, <3>1, <3>2
    <2>7. queue'[v][Len(queue'[v])] = row'
      BY <1>1, <2>3, <2>4, <2>6
    <2> QED BY <2>6, <2>7 DEF OnItsWay
  <1> QED BY <1>2, <1>3, <1>4, <1>5 DEF Stream

LEMMA CoveredStep ==
  ASSUME TypeOK, StreamInv, [Next]_vars, NEW w \in Viewer
  PROVE  Covered(w)'
  <1>0. Covered(w)
    BY CoveredIs DEF StreamInv
  <1>1. ASSUME NEW s \in Waiting \cup Reported, Dispatch(s) \/ UpdateJobStatus(s)
        PROVE  Covered(w)'
    <2>1. CASE Dispatch(s)
      <3>1. row' \notin Reported
        BY <2>1 DEF Dispatch, Waiting, Reported, Terminal
      <3> QED BY <3>1 DEF Covered
    <2>2. CASE UpdateJobStatus(s) /\ hub' = row'
      BY <2>2 DEF Covered, Knows, OnItsWay
    <2>3. CASE UpdateJobStatus(s) /\ UNCHANGED <<row, hub, missed>>
      <3>1. UNCHANGED <<at, snap, shown, queue>>
        BY <2>3 DEF UpdateJobStatus
      <3> QED BY <1>0, <2>3, <3>1 DEF Covered, Knows, OnItsWay
    <2> QED BY <1>1, <2>1, <2>2, <2>3 DEF UpdateJobStatus
  <1>2. CASE PublishStatus
    <2>1. at' = at /\ snap' = snap /\ shown' = shown /\ row' = row
      BY <1>2 DEF PublishStatus
    <2>2. at[w] \in {"write", "stream"} /\ OnItsWay(w, row) /\ w \notin missed'
            => OnItsWay(w, row)'
      BY <1>2, StillOnItsWay DEF Subscribed
    <2>3. w \in missed => w \in missed'
      BY <1>2 DEF PublishStatus
    <2> QED BY <1>0, <2>1, <2>2, <2>3 DEF Covered, Knows
  <1>3. ASSUME NEW v \in Viewer,
               Open(v) \/ Stream(v) \/ DrainStream(v) \/ ClientGone(v) \/ OnError(v)
        PROVE  Covered(w)'
    <2>1. CASE v = w
      BY <1>0, <1>3, <2>1, OwnStep DEF StreamInv
    <2>2. CASE v # w
      <3>1. /\ at'[w] = at[w] /\ queue'[w] = queue[w] /\ (w \in missed => w \in missed')
            /\ snap'[w] = snap[w] /\ shown'[w] = shown[w]
        BY <1>3, <2>2, OthersUntouched
      <3>2. row' = row /\ hub' = hub
        BY <1>3, JobUntouched
      <3> QED BY <1>0, <3>1, <3>2 DEF Covered, Knows, OnItsWay
    <2> QED BY <2>1, <2>2
  <1>4. CASE UNCHANGED vars
    BY <1>0, <1>4 DEF vars, Covered, Knows, OnItsWay
  <1> QED BY <1>1, <1>2, <1>3, <1>4 DEF Next

LEMMA StreamStep == TypeOK /\ StreamInv /\ [Next]_vars => StreamInv'
  <1> SUFFICES ASSUME TypeOK, StreamInv, [Next]_vars PROVE StreamInv'
    OBVIOUS
  <1>1. LastIsRow' /\ EndClosesStream'
    BY LastStep, EndStep DEF StreamInv
  <1>2. \A w \in Viewer : Covered(w)'
    BY CoveredStep
  <1>3. (SnapshotIsCovered /\ NoGap)'
    BY <1>2 DEF SnapshotIsCovered, NoGap, Covered
  <1> QED BY <1>1, <1>3 DEF StreamInv

\* A live stream misses nothing: the status a printer reported last is on the page
\* of every open stream or on its way there, whatever the order of SUBSCRIBE,
\* snapshot and PUBLISH and of the reports (StreamJob subscribes before it takes
\* the snapshot), unless the publication of that very status missed that page.
THEOREM NothingIsMissed == Spec => []NoGap
  <1>1. StreamInv => NoGap
    BY DEF StreamInv
  <1> QED
    BY <1>1, InitTypes, TypesStep, InitStream, StreamStep, PTL DEF Spec

----------------------------------------------------------------------------
(* A page never goes back.                                                 *)

LEMMA RankRises ==
  ASSUME TypeOK, EndClosesStream, [Next]_vars, NEW w \in Viewer, opens'[w] = opens[w]
  PROVE  Rank(shown'[w]) >= Rank(shown[w])
  <1>0. \A s : Rank(s) \in 0..3
    BY DEF Rank
  <1>1. CASE shown'[w] = shown[w]
    BY <1>0, <1>1
  <1>2. CASE WriteSnapshot(w)
    <2>1. shown[w] = "none"
      BY <1>2 DEF WriteSnapshot, EndClosesStream
    <2>2. Rank(shown[w]) = 0
      BY <2>1 DEF Rank, Waiting
    <2> QED BY <1>0, <2>2
  <1>3. CASE Relay(w)
    <2>1. shown[w] \notin Terminal /\ shown[w] \in {"none"} \cup Waiting \cup Reported
      BY <1>3 DEF Relay, EndClosesStream, TypeOK
    <2>2. shown'[w] \in Reported
      BY <1>3, RelayedQueue DEF Relay, Event, TypeOK
    <2>3. Rank(shown[w]) \in 0..2
      BY <2>1 DEF Rank, Waiting, Reported
    <2>4. Rank(shown'[w]) \in 2..3
      BY <2>2 DEF Rank, Waiting, Reported, Terminal
    <2> QED BY <2>3, <2>4
  <1>4. CASE Open(w)
    <2>1. opens'[w] = opens[w] + 1 /\ opens[w] \in Nat
      BY <1>4 DEF Open, TypeOK
    <2> QED BY <2>1
  <1>5. ASSUME NEW s \in Waiting \cup Reported, Dispatch(s) \/ UpdateJobStatus(s)
        PROVE  shown' = shown
    BY <1>5 DEF Dispatch, UpdateJobStatus
  <1>6. PublishStatus \/ UNCHANGED vars => shown' = shown
    BY DEF PublishStatus, vars
  <1>7. ASSUME NEW v \in Viewer,
               Open(v) \/ Stream(v) \/ DrainStream(v) \/ ClientGone(v) \/ OnError(v)
        PROVE  \/ shown'[w] = shown[w]
               \/ WriteSnapshot(w) \/ Relay(w) \/ Open(w)
    <2>1. CASE v # w
      BY <1>7, <2>1, OthersUntouched
    <2>2. CASE v = w
      BY <1>7, <2>2 DEF Stream, Subscribe, Snapshot, DrainStream, ClientGone, OnError
    <2> QED BY <2>1, <2>2
  <1> QED
    BY <1>1, <1>2, <1>3, <1>4, <1>5, <1>6, <1>7 DEF Next

\* While it is open, a page never shows an earlier stage than it showed before,
\* although the snapshot and the channel overlap: the relay loop may repeat a
\* status but never undoes one (StreamJob: "the worst case is seeing the same
\* transition twice").
THEOREM PageNeverGoesBack == Spec => NeverBack
  <1>1. TypeOK /\ StreamInv /\ [Next]_vars
          => [\A v \in Viewer : opens'[v] = opens[v]
                                  => Rank(shown'[v]) >= Rank(shown[v])]_vars
    BY RankRises DEF StreamInv
  <1> QED
    BY <1>1, InitTypes, TypesStep, InitStream, StreamStep, PTL DEF Spec, NeverBack
=============================================================================
