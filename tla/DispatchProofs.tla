--------------------------- MODULE DispatchProofs ---------------------------
(***************************************************************************)
(* Theorems about Dispatch, for every set of jobs, nodes and mailboxes and *)
(* every bound: the types; that no job is printed twice while PUBLISH      *)
(* reports what it did; that a delivered row is of a printed job and a     *)
(* blob is kept until then; that jobs.status keeps to its life cycle; that *)
(* a claimed job is driven on and an accepted one keeps its entry.         *)
(***************************************************************************)
EXTENDS Dispatch, TLAPS

(* Updates of functions keep their type.                                   *)

\* One argument is remapped, within the range if it is in the domain at all.
LEMMA UpdateType ==
    ASSUME NEW A, NEW B, NEW f \in [A -> B], NEW a, NEW b, a \in A => b \in B
    PROVE  [f EXCEPT ![a] = b] \in [A -> B]
OBVIOUS

\* The same, two levels deep.
LEMMA UpdateType2 ==
    ASSUME NEW A, NEW B, NEW C, NEW f \in [A -> [B -> C]], NEW a, NEW b, NEW c \in C
    PROVE  [f EXCEPT ![a][b] = c] \in [A -> [B -> C]]
<1>1. a \in A => [f[a] EXCEPT ![b] = c] \in [B -> C]
  OBVIOUS
<1>2. QED
  BY <1>1

\* What follows the update in onStatus touches the blob and the audit trail only.
Cleans(j) == DeleteBlob(j) \/ RecordDeletion(j) \/ CrashHandler(j)

LEMMA CleaningIsQuiet ==
    ASSUME NEW j \in Job, Cleans(j)
    PROVE  /\ UNCHANGED <<row, lock, entry, owner, aged, open, link, bell>>
           /\ UNCHANGED <<pc, cur, reply, phase, batch, rounds, frame, sent, cut, up>>
BY DEF Cleans, DeleteBlob, RecordDeletion, CrashHandler, rowVars, streamVars, stateVars,
   attemptVars, loopVars

\* No step changes what may go wrong.
LEMMA FaultsStay == ASSUME [Next]_vars PROVE faults' = faults
<1>1. ASSUME NEW j \in Job, InsertJob(j) \/ AuditSubmitted(j) \/ Enqueue(j) \/ CrashRequest(j) \/ Age(j)
      PROVE faults' = faults
  BY <1>1 DEF InsertJob, AuditSubmitted, Enqueue, CrashRequest, Age
<1>2. ASSUME NEW j \in Job, Handler(j) PROVE faults' = faults
  BY <1>2 DEF Handler, OnStatus, DeleteBlob, RecordDeletion, CrashHandler
<1>3. ASSUME NEW j \in Job, NEW k \in 1..MaxFrames, HandleDispatch(j, k) PROVE faults' = faults
  BY <1>3 DEF HandleDispatch, StartPrinting, FetchBlob, FinishPrinting, FailPrinting
<1>4. ASSUME NEW w \in Worker, Attempt(w) PROVE faults' = faults
  BY <1>4 DEF Attempt, CheckEligible, LockJobForDispatch, MarkJobDispatching, Presign, Publish,
     RevertBlocked, RevertError, AuditDispatched
<1>5. ASSUME NEW n \in Node, Dispatcher(n) \/ CrashNode(n) \/ StartNode(n) PROVE faults' = faults
  BY <1>5 DEF Dispatcher, Available, Sweep, ReadGroup, EndDrain, AutoClaim, EndReclaim, Handle, Ack,
     CrashNode, StartNode
<1>6. ASSUME NEW m \in Mailbox, Printer(m) PROVE faults' = faults
  BY <1>6 DEF Printer, Connect, ConnectDead, SeedState, StateFrame, ExpireState, BreakLink,
     NoticeBreak, ChannelOnly
<1>7. QED
  BY <1>1, <1>2, <1>3, <1>4, <1>5, <1>6 DEF Next, vars

----------------------------------------------------------------------------
\* What the printer link may do to the cached state and the subscription.
ChannelMove(m) ==
    \/ Channel!Subscribe(m) \/ Channel!SubscribeDead(m) \/ Channel!Cache(m)
    \/ Channel!Expire(m) \/ Channel!Break(m) \/ Channel!NoticeBreak(m)

\* The program is well typed: every step of every actor keeps each variable in
\* the range that TypeOK gives it.
THEOREM TypeCorrect == Spec => []TypeOK
<1> USE ActorsAssumption, BoundsAssumption
<1>1. Init => TypeOK
  BY DEF Init, TypeOK, RowType, StreamType, StateType, AttemptType, LoopType, PrinterType,
         Worker, Status, RequestPC, DispatcherPC, FrameStage
<1>2. TypeOK /\ [Next]_vars => TypeOK'
  <2> SUFFICES ASSUME TypeOK, [Next]_vars PROVE TypeOK'
    OBVIOUS
  <2>0. faults' \in Environments
    BY FaultsStay DEF TypeOK
  <2> USE <2>0 DEF TypeOK
  <2>1. ASSUME NEW j \in Job, InsertJob(j) PROVE TypeOK'
    <3>1. RowType'
      BY <2>1 DEF InsertJob, RowType, AuditAction, Status
    <3>2. AttemptType'
      BY <2>1 DEF InsertJob, AttemptType, Worker, RequestPC, DispatcherPC, AttemptPC
    <3>3. QED
      BY <2>1, <3>1, <3>2 DEF InsertJob, StreamType, streamVars, StateType, stateVars,
         LoopType, loopVars, PrinterType, printerVars
  <2>2. ASSUME NEW j \in Job, AuditSubmitted(j) PROVE TypeOK'
    <3>1. RowType'
      BY <2>2 DEF AuditSubmitted, RowType, AuditAction, Status
    <3>2. AttemptType'
      BY <2>2 DEF AuditSubmitted, AttemptType, Worker, RequestPC, DispatcherPC, AttemptPC
    <3>3. QED
      BY <2>2, <3>1, <3>2 DEF AuditSubmitted, StreamType, streamVars, StateType, stateVars,
         LoopType, loopVars, PrinterType, printerVars
  <2>3. ASSUME NEW j \in Job, Enqueue(j) PROVE TypeOK'
    <3>1. StreamType'
      BY <2>3 DEF Enqueue, StreamType
    <3>2. AttemptType'
      BY <2>3 DEF Enqueue, AttemptType, Worker, RequestPC, DispatcherPC, AttemptPC
    <3>3. QED
      BY <2>3, <3>1, <3>2 DEF Enqueue, RowType, rowVars, StateType, stateVars, LoopType,
         loopVars, PrinterType, printerVars
  <2>4. ASSUME NEW j \in Job, CrashRequest(j) PROVE TypeOK'
    <3>1. RowType'
      BY <2>4 DEF CrashRequest, ReleaseLocks, RowType, AuditAction, Status
    <3>2. AttemptType'
      BY <2>4 DEF CrashRequest, ReleaseLocks, AttemptType, Worker, RequestPC, DispatcherPC,
         AttemptPC
    <3>3. QED
      BY <2>4, <3>1, <3>2 DEF CrashRequest, ReleaseLocks, StreamType, streamVars, StateType,
         stateVars, LoopType, loopVars, PrinterType, printerVars
  <2>5. ASSUME NEW j \in Job, Age(j) PROVE TypeOK'
    <3>1. StreamType'
      BY <2>5 DEF Age, StreamType
    <3>2. QED
      BY <2>5, <3>1 DEF Age, RowType, rowVars, StateType, stateVars, AttemptType, attemptVars,
         LoopType, loopVars, PrinterType, printerVars
  <2>6. ASSUME NEW j \in Job, OnStatus(j) PROVE TypeOK'
    <3>1. RowType'
      <4> DEFINE s == Head(up[j])
      <4>1. s \in {"printing", "delivered", "failed"}
        BY <2>6 DEF OnStatus, PrinterType
      <4>2. StatusAction[s] \in AuditAction /\ s \in Status
        BY <4>1 DEF StatusAction, AuditAction, Status
      <4>3. row' \in [Job -> Status] /\ lock' \in [Job -> Worker \cup {None}]
        BY <2>6, <4>2 DEF OnStatus, RowType
      <4>4. audit' \in [Job -> SUBSET AuditAction]
        <5>1. audit' = audit \/ \E X \in SUBSET AuditAction : audit' = [audit EXCEPT ![j] = X]
          BY <2>6, <4>2 DEF OnStatus, RowType
        <5>2. QED
          BY <5>1 DEF RowType
      <4>5. blob' \in [Job -> BOOLEAN]
        BY <2>6 DEF OnStatus, RowType
      <4>6. QED
        BY <4>3, <4>4, <4>5 DEF RowType
    <3>2. PrinterType'
      <4>1. todo' = todo \/ \E X \in SUBSET Errand : todo' = [todo EXCEPT ![j] = X]
        BY <2>6 DEF OnStatus, PrinterType, Errand
      <4>2. todo' \in [Job -> SUBSET Errand]
        BY <4>1 DEF PrinterType
      <4>3. up[j] # <<>> /\ up' = [up EXCEPT ![j] = Tail(@)] /\ UNCHANGED <<frame, sent, cut>>
        BY <2>6 DEF OnStatus
      <4>4. up' \in [Job -> Seq({"printing", "delivered", "failed"})]
        BY <4>3 DEF PrinterType
      <4>5. QED
        BY <4>2, <4>3, <4>4 DEF PrinterType
    <3>3. QED
      BY <2>6, <3>1, <3>2 DEF OnStatus, StreamType, streamVars, StateType, stateVars,
         AttemptType, attemptVars, LoopType, loopVars
  <2>6a. ASSUME NEW j \in Job, Cleans(j) PROVE TypeOK'
    <3>1. audit' = audit \/ \E X \in SUBSET AuditAction : audit' = [audit EXCEPT ![j] = X]
      BY <2>6a DEF Cleans, DeleteBlob, RecordDeletion, CrashHandler, rowVars, RowType, AuditAction
    <3>2. todo' = todo \/ \E X \in SUBSET Errand : todo' = [todo EXCEPT ![j] = X]
      BY <2>6a DEF Cleans, DeleteBlob, RecordDeletion, CrashHandler, PrinterType, Errand
    <3>3. blob' = blob \/ blob' = [blob EXCEPT ![j] = FALSE]
      BY <2>6a DEF Cleans, DeleteBlob, RecordDeletion, CrashHandler
    <3>4. RowType' /\ PrinterType'
      BY <2>6a, <3>1, <3>2, <3>3, CleaningIsQuiet DEF RowType, PrinterType
    <3>5. QED
      BY <2>6a, <3>4, CleaningIsQuiet DEF StreamType, StateType, AttemptType, LoopType
  <2>7. ASSUME NEW j \in Job, NEW k \in 1..MaxFrames, HandleDispatch(j, k) PROVE TypeOK'
    <3>1. PrinterType'
      <4>1. sent' = sent /\ cut' = cut /\ todo' = todo
        BY <2>7 DEF HandleDispatch, StartPrinting, FetchBlob, FinishPrinting, FailPrinting
      <4>2. \E x \in FrameStage : frame' = [frame EXCEPT ![j][k] = x]
        BY <2>7 DEF HandleDispatch, StartPrinting, FetchBlob, FinishPrinting, FailPrinting,
           FrameStage
      <4>3. \/ up' = up
            \/ \E x \in {"printing", "delivered", "failed"} : up' = [up EXCEPT ![j] = Append(@, x)]
        BY <2>7 DEF HandleDispatch, StartPrinting, FetchBlob, FinishPrinting, FailPrinting, Send
      <4>4. frame' \in [Job -> [1..MaxFrames -> FrameStage]]
        <5>1. frame \in [Job -> [1..MaxFrames -> FrameStage]]
          BY DEF PrinterType
        <5>2. QED
          BY <4>2, <5>1
      <4>5. up' \in [Job -> Seq({"printing", "delivered", "failed"})]
        <5>1. \A x \in {"printing", "delivered", "failed"} :
                Append(up[j], x) \in Seq({"printing", "delivered", "failed"})
          BY DEF PrinterType
        <5>2. QED
          BY <4>3, <5>1 DEF PrinterType
      <4>6. QED
        BY <4>1, <4>4, <4>5 DEF PrinterType
    <3>2. QED
      BY <2>7, <3>1 DEF HandleDispatch, StartPrinting, FetchBlob, FinishPrinting, FailPrinting,
         RowType, rowVars, StreamType, streamVars, StateType, stateVars, AttemptType,
         attemptVars, LoopType, loopVars
  <2>8. ASSUME NEW w \in Worker, CheckEligible(w) PROVE TypeOK'
    <3>1. AttemptType'
      BY <2>8 DEF CheckEligible, AttemptType, Worker, RequestPC, DispatcherPC, AttemptPC, Goto,
         Return, TryDispatch, Retry
    <3>2. QED
      BY <2>8, <3>1 DEF CheckEligible, RowType, rowVars, StreamType, streamVars, StateType,
         stateVars, LoopType, loopVars, PrinterType, printerVars
  <2>9. ASSUME NEW w \in Worker, LockJobForDispatch(w) PROVE TypeOK'
    <3>1. RowType'
      BY <2>9 DEF LockJobForDispatch, RowType, AuditAction, Status
    <3>2. AttemptType'
      BY <2>9 DEF LockJobForDispatch, AttemptType, Worker, RequestPC, DispatcherPC, AttemptPC,
         Goto, Return, TryDispatch, Retry
    <3>3. QED
      BY <2>9, <3>1, <3>2 DEF LockJobForDispatch, StreamType, streamVars, StateType, stateVars,
         LoopType, loopVars, PrinterType, printerVars
  <2>10. ASSUME NEW w \in Worker, MarkJobDispatching(w) PROVE TypeOK'
    <3>1. RowType'
      BY <2>10 DEF MarkJobDispatching, RowType, AuditAction, Status
    <3>2. AttemptType'
      BY <2>10 DEF MarkJobDispatching, AttemptType, Worker, RequestPC, DispatcherPC, AttemptPC,
         Goto, Return, TryDispatch, Retry
    <3>3. QED
      BY <2>10, <3>1, <3>2 DEF MarkJobDispatching, StreamType, streamVars, StateType,
         stateVars, LoopType, loopVars, PrinterType, printerVars
  <2>11. ASSUME NEW w \in Worker, Presign(w) PROVE TypeOK'
    <3>1. AttemptType'
      BY <2>11 DEF Presign, AttemptType, Worker, RequestPC, DispatcherPC, AttemptPC, Goto,
         Return, TryDispatch, Retry
    <3>2. QED
      BY <2>11, <3>1 DEF Presign, RowType, rowVars, StreamType, streamVars, StateType,
         stateVars, LoopType, loopVars, PrinterType, printerVars
  <2>12. ASSUME NEW w \in Worker, Publish(w) PROVE TypeOK'
    <3>1. AttemptType'
      BY <2>12 DEF Publish, AttemptType, Worker, RequestPC, DispatcherPC, AttemptPC, Goto,
         Return, TryDispatch, Retry
    <3>2. PrinterType'
      <4>1. cut' = cut /\ up' = up /\ todo' = todo
        BY <2>12 DEF Publish
      <4>2. \/ sent' = sent /\ frame' = frame
            \/ /\ sent[cur[w]] < MaxFrames
               /\ sent' = [sent EXCEPT ![cur[w]] = @ + 1]
               /\ \E s \in {"wire", "lost"} :
                     frame' = [frame EXCEPT ![cur[w]][sent[cur[w]] + 1] = s]
        BY <2>12 DEF Publish, Relay
      <4>3. sent' \in [Job -> 0..MaxFrames]
        <5>1. sent \in [Job -> 0..MaxFrames]
          BY DEF PrinterType
        <5>2. sent[cur[w]] < MaxFrames => (cur[w] \in Job => sent[cur[w]] + 1 \in 0..MaxFrames)
          BY <5>1
        <5>3. sent[cur[w]] < MaxFrames
                => [sent EXCEPT ![cur[w]] = sent[cur[w]] + 1] \in [Job -> 0..MaxFrames]
          BY <5>1, <5>2, UpdateType
        <5>4. QED
          BY <4>2, <5>1, <5>3
      <4>4. frame' \in [Job -> [1..MaxFrames -> FrameStage]]
        <5>1. {"wire", "lost"} \subseteq FrameStage
          BY DEF FrameStage
        <5>2. frame \in [Job -> [1..MaxFrames -> FrameStage]]
          BY DEF PrinterType
        <5> DEFINE i == sent[cur[w]] + 1
                   updated(s) == [frame EXCEPT ![cur[w]][i] = s]
        <5>3. ASSUME NEW s \in FrameStage PROVE updated(s) \in [Job -> [1..MaxFrames -> FrameStage]]
          BY <5>2, UpdateType2
        <5>4. frame' = frame \/ \E s \in {"wire", "lost"} : frame' = updated(s)
          BY <4>2
        <5> HIDE DEF updated
        <5>5. QED
          BY <5>1, <5>2, <5>3, <5>4
      <4>5. QED
        BY <4>1, <4>3, <4>4 DEF PrinterType
    <3>3. QED
      BY <2>12, <3>1, <3>2 DEF Publish, RowType, rowVars, StreamType, streamVars, StateType,
         stateVars, LoopType, loopVars
  <2>13. ASSUME NEW w \in Worker, RevertBlocked(w) PROVE TypeOK'
    <3>1. RowType'
      BY <2>13 DEF RevertBlocked, RequeueJob, RowType, AuditAction, Status
    <3>2. AttemptType'
      BY <2>13 DEF RevertBlocked, RequeueJob, AttemptType, Worker, RequestPC, DispatcherPC,
         AttemptPC, Goto, Return, TryDispatch, Retry
    <3>3. QED
      BY <2>13, <3>1, <3>2 DEF RevertBlocked, RequeueJob, StreamType, streamVars, StateType,
         stateVars, LoopType, loopVars, PrinterType, printerVars
  <2>14. ASSUME NEW w \in Worker, RevertError(w) PROVE TypeOK'
    <3>1. RowType'
      BY <2>14 DEF RevertError, RequeueJob, RowType, AuditAction, Status
    <3>2. AttemptType'
      BY <2>14 DEF RevertError, RequeueJob, AttemptType, Worker, RequestPC, DispatcherPC,
         AttemptPC, Goto, Return, TryDispatch, Retry
    <3>3. QED
      BY <2>14, <3>1, <3>2 DEF RevertError, RequeueJob, StreamType, streamVars, StateType,
         stateVars, LoopType, loopVars, PrinterType, printerVars
  <2>15. ASSUME NEW w \in Worker, AuditDispatched(w) PROVE TypeOK'
    <3>1. RowType'
      BY <2>15 DEF AuditDispatched, RowType, AuditAction, Status
    <3>2. AttemptType'
      BY <2>15 DEF AuditDispatched, AttemptType, Worker, RequestPC, DispatcherPC, AttemptPC,
         Goto, Return, TryDispatch, Retry
    <3>3. QED
      BY <2>15, <3>1, <3>2 DEF AuditDispatched, StreamType, streamVars, StateType, stateVars,
         LoopType, loopVars, PrinterType, printerVars
  <2>16. ASSUME NEW n \in Node, Available(n) PROVE TypeOK'
    <3>1. StateType'
      BY <2>16 DEF Available, StateType
    <3>2. LoopType'
      BY <2>16 DEF Available, LoopType
    <3>3. QED
      BY <2>16, <3>1, <3>2 DEF Available, RowType, rowVars, StreamType, streamVars,
         AttemptType, attemptVars, PrinterType, printerVars
  <2>17. ASSUME NEW n \in Node, Sweep(n) PROVE TypeOK'
    <3>1. LoopType'
      BY <2>17 DEF Sweep, LoopType
    <3>2. QED
      BY <2>17, <3>1 DEF Sweep, RowType, rowVars, StreamType, streamVars, StateType, stateVars,
         AttemptType, attemptVars, PrinterType, printerVars
  <2>18. ASSUME NEW n \in Node, ReadGroup(n) PROVE TypeOK'
    <3>1. StreamType'
      BY <2>18 DEF ReadGroup, StreamType, Batches, NewEntries
    <3>2. LoopType'
      BY <2>18 DEF ReadGroup, LoopType, Batches, NewEntries
    <3>3. QED
      BY <2>18, <3>1, <3>2 DEF ReadGroup, RowType, rowVars, StateType, stateVars, AttemptType,
         attemptVars, PrinterType, printerVars
  <2>19. ASSUME NEW n \in Node, EndDrain(n) PROVE TypeOK'
    <3>1. LoopType'
      BY <2>19 DEF EndDrain, LoopType
    <3>2. QED
      BY <2>19, <3>1 DEF EndDrain, RowType, rowVars, StreamType, streamVars, StateType,
         stateVars, AttemptType, attemptVars, PrinterType, printerVars
  <2>20. ASSUME NEW n \in Node, AutoClaim(n) PROVE TypeOK'
    <3>1. StreamType'
      BY <2>20 DEF AutoClaim, StreamType, Batches, AgedEntries
    <3>2. LoopType'
      BY <2>20 DEF AutoClaim, LoopType, Batches, AgedEntries
    <3>3. QED
      BY <2>20, <3>1, <3>2 DEF AutoClaim, RowType, rowVars, StateType, stateVars, AttemptType,
         attemptVars, PrinterType, printerVars
  <2>21. ASSUME NEW n \in Node, EndReclaim(n) PROVE TypeOK'
    <3>1. LoopType'
      BY <2>21 DEF EndReclaim, LoopType
    <3>2. QED
      BY <2>21, <3>1 DEF EndReclaim, RowType, rowVars, StreamType, streamVars, StateType,
         stateVars, AttemptType, attemptVars, PrinterType, printerVars
  <2>22. ASSUME NEW n \in Node, NEW j \in Job, Handle(n, j) PROVE TypeOK'
    <3>1. AttemptType'
      BY <2>22 DEF Handle, AttemptType, Worker, RequestPC, DispatcherPC, AttemptPC
    <3>2. LoopType'
      BY <2>22 DEF Handle, LoopType
    <3>3. QED
      BY <2>22, <3>1, <3>2 DEF Handle, RowType, rowVars, StreamType, streamVars, StateType,
         stateVars, PrinterType, printerVars
  <2>23. ASSUME NEW n \in Node, Ack(n) PROVE TypeOK'
    <3>1. StreamType'
      BY <2>23 DEF Ack, StreamType
    <3>2. AttemptType'
      BY <2>23 DEF Ack, AttemptType, Worker, RequestPC, DispatcherPC, AttemptPC
    <3>3. QED
      BY <2>23, <3>1, <3>2 DEF Ack, RowType, rowVars, StateType, stateVars, LoopType, loopVars,
         PrinterType, printerVars
  <2>24. ASSUME NEW n \in Node, CrashNode(n) PROVE TypeOK'
    <3>1. RowType'
      BY <2>24 DEF CrashNode, ReleaseLocks, RowType, AuditAction, Status
    <3>2. StateType'
      BY <2>24 DEF CrashNode, ReleaseLocks, StateType
    <3>3. AttemptType'
      BY <2>24 DEF CrashNode, ReleaseLocks, AttemptType, Worker, RequestPC, DispatcherPC, AttemptPC
    <3>4. LoopType'
      BY <2>24 DEF CrashNode, ReleaseLocks, LoopType
    <3>5. QED
      BY <2>24, <3>1, <3>2, <3>3, <3>4 DEF CrashNode, ReleaseLocks, StreamType, streamVars,
         PrinterType, printerVars
  <2>25. ASSUME NEW n \in Node, StartNode(n) PROVE TypeOK'
    <3>1. AttemptType'
      BY <2>25 DEF StartNode, AttemptType, Worker, RequestPC, DispatcherPC, AttemptPC
    <3>2. LoopType'
      BY <2>25 DEF StartNode, LoopType
    <3>3. QED
      BY <2>25, <3>1, <3>2 DEF StartNode, RowType, rowVars, StreamType, streamVars, StateType,
         stateVars, PrinterType, printerVars
  <2>26. ASSUME NEW m \in Mailbox, ChannelMove(m), UNCHANGED bell PROVE StateType'
    BY <2>26 DEF ChannelMove, StateType, Channel!Subscribe, Channel!SubscribeDead, Channel!Cache,
       Channel!Expire, Channel!Break, Channel!NoticeBreak, Channel!Becomes
  <2>27. ASSUME NEW m \in Mailbox, ChannelMove(m), ChannelOnly PROVE TypeOK'
    BY <2>26, <2>27 DEF ChannelOnly, RowType, rowVars, StreamType, streamVars, AttemptType,
       attemptVars, LoopType, loopVars, PrinterType, printerVars
  <2>28. ASSUME NEW m \in Mailbox,
                \/ Connect(m) \/ ConnectDead(m) \/ SeedState(m) \/ ExpireState(m) \/ NoticeBreak(m)
         PROVE TypeOK'
    BY <2>27, <2>28 DEF Connect, ConnectDead, SeedState, ExpireState, NoticeBreak, ChannelMove
  <2>29. ASSUME NEW m \in Mailbox, StateFrame(m) PROVE TypeOK'
    <3>1. StateType'
      BY <2>29 DEF StateFrame, StateType, Channel!Cache
    <3>2. QED
      BY <2>29, <3>1 DEF StateFrame, RowType, rowVars, StreamType, streamVars, AttemptType,
         attemptVars, LoopType, loopVars, PrinterType, printerVars
  <2>30. ASSUME NEW m \in Mailbox, BreakLink(m) PROVE TypeOK'
    <3>1. StateType'
      BY <2>26, <2>30 DEF BreakLink, ChannelMove
    <3>2. PrinterType'
      BY <2>30 DEF BreakLink, PrinterType, FrameStage
    <3>3. QED
      BY <2>30, <3>1, <3>2 DEF BreakLink, RowType, rowVars, StreamType, streamVars,
         AttemptType, attemptVars, LoopType, loopVars
  <2>31. CASE UNCHANGED vars
    BY <2>31 DEF vars, RowType, rowVars, StreamType, streamVars, StateType, stateVars,
       AttemptType, attemptVars, LoopType, loopVars, PrinterType, printerVars
  <2>32. QED
    BY <2>1, <2>2, <2>3, <2>4, <2>5, <2>6, <2>7, <2>8, <2>9, <2>10, <2>11, <2>12, <2>13, <2>14,
       <2>15, <2>16, <2>17, <2>18, <2>19, <2>20, <2>21, <2>22, <2>23, <2>24, <2>25, <2>28,
       <2>29, <2>30, <2>31, <2>6a DEF Next, Attempt, Dispatcher, Printer, Handler, Cleans
<1>3. QED
  BY <1>1, <1>2, PTL DEF Spec

----------------------------------------------------------------------------
(***************************************************************************)
(* At most one frame.  FrameInv is inductive: the row lock gives the       *)
(* claim to one worker, 'dispatching' keeps the others out until that      *)
(* worker has either published or reverted, and a revert is only reached   *)
(* by a worker whose frame did not leave.                                  *)
(***************************************************************************)
\* Only w moves.
OnlyMoves(w) == \A v \in Worker : v # w => pc'[v] = pc[v] /\ cur'[v] = cur[v]

\* w leaves attemptDispatch.
Leaves(w) ==
    /\ OnlyMoves(w)
    /\ w \in Job => pc'[w] \in {"enqueue", "done"} /\ cur'[w] = cur[w]
    /\ w \in Node => pc'[w] \in {"loop", "ack"}
    /\ pc'[w] = "ack" => cur'[w] = cur[w]

\* w goes to another place in attemptDispatch.
Reaches(w, label) == OnlyMoves(w) /\ pc'[w] = label /\ cur'[w] = cur[w]

\* A step within attemptDispatch moves only the worker that takes it.
LEMMA GotoEffect ==
    ASSUME AttemptType, NEW w \in Worker, NEW label, Goto(w, label)
    PROVE  Reaches(w, label)
BY DEF AttemptType, Goto, Reaches, OnlyMoves

\* So does the return of attemptDispatch to TryDispatch or to Retry.
LEMMA ReturnEffect ==
    ASSUME AttemptType, NEW w \in Worker, NEW outcome, Return(w, outcome)
    PROVE  Leaves(w)
<1>1. CASE w \in Job
  BY <1>1, ActorsAssumption DEF AttemptType, Return, TryDispatch, Retry, Leaves, OnlyMoves, Worker
<1>2. CASE w \in Node
  BY <1>2, ActorsAssumption DEF AttemptType, Return, TryDispatch, Retry, Leaves, OnlyMoves, Worker
<1>3. QED
  BY <1>1, <1>2 DEF Worker

\* Returning without having touched the row keeps the claims in order.
LEMMA LeaveKeepsOneFrame ==
    ASSUME TypeOK, FrameInv, NEW w \in Worker, Leaves(w), pc[w] \in AttemptPC \ {"mark"},
           UNCHANGED <<row, lock, sent, up, frame>>
    PROVE  FrameInv'
<1> USE ActorsAssumption DEF FrameInv
<1>0. cur[w] \in Job /\ (w \in Job => cur[w] = w)
  BY DEF HandsAreFull
<1>1. HandsAreFull'
  BY <1>0 DEF HandsAreFull, Leaves, OnlyMoves, Worker, AttemptPC, RequestPC, DispatcherPC
<1>2. LockIsHeldInClaim'
  BY DEF LockIsHeldInClaim, Leaves, OnlyMoves, Worker, TypeOK, RowType
<1>3. ClaimIsExclusive'
  BY DEF ClaimIsExclusive, Leaves, OnlyMoves, Worker, Unpublished
<1>4. FramesFollowClaims'
  BY DEF FramesFollowClaims
<1>5. QED
  BY <1>1, <1>2, <1>3, <1>4

\* So does going on within attemptDispatch.
LEMMA MoveKeepsOneFrame ==
    ASSUME TypeOK, FrameInv, NEW w \in Worker, NEW label \in AttemptPC \ {"mark"}, Reaches(w, label),
           pc[w] \in AttemptPC \ {"mark"}, label \in Unpublished => pc[w] \in Unpublished,
           UNCHANGED <<row, lock, sent, up, frame>>
    PROVE  FrameInv'
<1> USE ActorsAssumption DEF FrameInv
<1>0. cur[w] \in Job /\ (w \in Job => cur[w] = w)
  BY DEF HandsAreFull
<1>1. HandsAreFull'
  BY <1>0 DEF HandsAreFull, Reaches, OnlyMoves, Worker, AttemptPC, RequestPC, DispatcherPC
<1>2. LockIsHeldInClaim'
  BY DEF LockIsHeldInClaim, Reaches, OnlyMoves, Worker, TypeOK, RowType
<1>3. ClaimIsExclusive'
  BY DEF ClaimIsExclusive, Reaches, OnlyMoves, Worker
<1>4. FramesFollowClaims'
  BY DEF FramesFollowClaims
<1>5. QED
  BY <1>1, <1>2, <1>3, <1>4

\* Before the first job nothing is claimed and nothing was sent.
LEMMA OneFrameInit == Init => FrameInv
BY ActorsAssumption DEF Init, FrameInv, HandsAreFull, LockIsHeldInClaim, ClaimIsExclusive,
   FramesFollowClaims, Worker, AttemptPC, RequestPC, DispatcherPC, Unpublished, Claimable

\* Steps that leave the claims, the rows and the printer alone.
LEMMA QuietKeepsOneFrame ==
    ASSUME FrameInv, UNCHANGED <<row, lock, pc, cur, sent, up, frame>>
    PROVE  FrameInv'
BY DEF FrameInv, HandsAreFull, LockIsHeldInClaim, ClaimIsExclusive, FramesFollowClaims

\* A new row is claimable, and no frame of its job exists.
LEMMA InsertKeepsOneFrame ==
    ASSUME TypeOK, FrameInv, NEW j \in Job, InsertJob(j)
    PROVE  FrameInv'
BY ActorsAssumption DEF TypeOK, RowType, AttemptType, InsertJob, FrameInv, HandsAreFull,
   LockIsHeldInClaim,
   ClaimIsExclusive, FramesFollowClaims, Worker, AttemptPC, RequestPC, DispatcherPC, Unpublished, Claimable, printerVars

\* LockJobForDispatch: the lock is given to a worker only while it is free.
LEMMA LockKeepsOneFrame ==
    ASSUME TypeOK, FrameInv, NEW w \in Worker, LockJobForDispatch(w)
    PROVE  FrameInv'
<1> DEFINE j == cur[w]
<1> USE ActorsAssumption
<1>0. cur[w] \in Job /\ (w \in Job => cur[w] = w) /\ pc[w] = "claim"
  BY DEF FrameInv, HandsAreFull, LockJobForDispatch, AttemptPC
<1>1. UNCHANGED <<row, sent, up, frame>>
  BY DEF LockJobForDispatch, printerVars
<1>2. CASE lock' = lock /\ \E outcome \in {"blocked", "settled", "error"} : Return(w, outcome)
  <2>1. Leaves(w)
    BY <1>2, ReturnEffect DEF TypeOK
  <2>2. QED
    BY <1>0, <1>1, <1>2, <2>1, LeaveKeepsOneFrame DEF AttemptPC
<1>3. CASE row[j] \in Claimable /\ lock[j] = None /\ lock' = [lock EXCEPT ![j] = w] /\ Goto(w, "mark")
  <2> USE DEF FrameInv
  <2>1. Reaches(w, "mark")
    BY <1>3, GotoEffect DEF TypeOK
  <2>2. HandsAreFull'
    BY <1>0, <1>1, <2>1 DEF HandsAreFull, Reaches, OnlyMoves, Worker, AttemptPC, RequestPC,
       DispatcherPC
  <2>3. lock \in [Job -> Worker \cup {None}]
    BY DEF TypeOK, RowType
  <2>4. LockIsHeldInClaim'
    BY <1>0, <1>1, <1>3, <2>1, <2>3 DEF LockIsHeldInClaim, HandsAreFull, Reaches, OnlyMoves,
       AttemptPC
  <2>5. ClaimIsExclusive'
    BY <1>0, <1>1, <2>1 DEF ClaimIsExclusive, Reaches, OnlyMoves, Unpublished
  <2>6. FramesFollowClaims'
    BY <1>1 DEF FramesFollowClaims
  <2>7. QED
    BY <2>2, <2>4, <2>5, <2>6
<1>4. QED
  BY <1>2, <1>3 DEF LockJobForDispatch

\* MarkJobDispatching and COMMIT: the row was locked, so nobody else has claimed
\* it, and it was claimable, so nothing was sent for it.
LEMMA MarkKeepsOneFrame ==
    ASSUME TypeOK, FrameInv, NEW w \in Worker, MarkJobDispatching(w)
    PROVE  FrameInv'
<1> DEFINE j == cur[w]
<1> USE ActorsAssumption
<1>0. cur[w] \in Job /\ (w \in Job => cur[w] = w) /\ pc[w] = "mark"
  BY DEF FrameInv, HandsAreFull, MarkJobDispatching, AttemptPC
<1>1. UNCHANGED <<sent, up, frame>> /\ lock' = [lock EXCEPT ![j] = None]
  BY DEF MarkJobDispatching, printerVars
<1>2. \/ Reaches(w, "presign") /\ row' = [row EXCEPT ![j] = "dispatching"]
      \/ Leaves(w) /\ (row' = row \/ row' = [row EXCEPT ![j] = "dispatching"])
  BY GotoEffect, ReturnEffect DEF TypeOK, MarkJobDispatching
<1>3. lock[j] = w /\ row[j] \in Claimable /\ sent[j] = 0
  BY <1>0 DEF FrameInv, LockIsHeldInClaim, FramesFollowClaims
<1>4. \A v \in Worker : pc[v] \in Unpublished => cur[v] # j
  BY <1>0, <1>3 DEF FrameInv, ClaimIsExclusive, Claimable
<1>5. lock \in [Job -> Worker \cup {None}] /\ row \in [Job -> Status]
  BY DEF TypeOK, RowType
<1>6. \A i \in Job : i # j => row'[i] = row[i] /\ lock'[i] = lock[i]
  BY <1>1, <1>2, <1>5
<1>7. lock'[j] = None /\ row'[j] \in Claimable \cup {"dispatching"}
  BY <1>0, <1>1, <1>2, <1>3, <1>5
<1>8. pc'[w] # "mark" /\ OnlyMoves(w)
  BY <1>2 DEF Reaches, Leaves, Worker
<1> USE DEF FrameInv
<1>9. HandsAreFull'
  BY <1>0, <1>2, <1>3, <1>6 DEF HandsAreFull, Claimable, Reaches, Leaves, OnlyMoves, Worker,
     AttemptPC, RequestPC, DispatcherPC
<1>10. LockIsHeldInClaim'
  <2>1. \A v \in Worker : pc'[v] = "mark" => lock'[cur'[v]] = v
    BY <1>0, <1>3, <1>6, <1>8 DEF LockIsHeldInClaim, OnlyMoves, HandsAreFull, AttemptPC
  <2>2. \A i \in Job : lock'[i] # None =>
          pc'[lock'[i]] = "mark" /\ cur'[lock'[i]] = i /\ row'[i] \in Claimable
    BY <1>0, <1>3, <1>5, <1>6, <1>7, <1>8 DEF LockIsHeldInClaim, OnlyMoves
  <2>3. QED
    BY <2>1, <2>2 DEF LockIsHeldInClaim
<1>11. ClaimIsExclusive'
  <2>1. pc'[w] \in Unpublished => row'[j] = "dispatching" /\ cur'[w] = j
    BY <1>0, <1>2, <1>5 DEF Reaches, Leaves, Worker, Unpublished
  <2>2. \A v \in Worker : pc'[v] \in Unpublished => row'[cur'[v]] = "dispatching" /\ sent'[cur'[v]] = 0
    BY <1>0, <1>1, <1>3, <1>4, <1>6, <1>8, <2>1 DEF ClaimIsExclusive, OnlyMoves, HandsAreFull,
       Unpublished, AttemptPC
  <2>3. QED
    BY <1>4, <1>8, <2>1, <2>2 DEF ClaimIsExclusive, OnlyMoves
<1>12. FramesFollowClaims'
  BY <1>0, <1>1, <1>3, <1>6 DEF FramesFollowClaims
<1>13. QED
  BY <1>9, <1>10, <1>11, <1>12

\* PUBLISH: the frame is the job's first, and the worker, told so, never reverts.
\* This is where a lost reply would break the invariant.
LEMMA PublishKeepsOneFrame ==
    ASSUME TypeOK, FrameInv, "ackLost" \notin faults, NEW w \in Worker, Publish(w)
    PROVE  FrameInv'
<1> DEFINE j == cur[w]
<1> USE ActorsAssumption
<1>0. cur[w] \in Job /\ (w \in Job => cur[w] = w) /\ pc[w] = "publish"
  BY DEF FrameInv, HandsAreFull, Publish, AttemptPC
<1>1. UNCHANGED <<row, lock, up>>
  BY DEF Publish, rowVars
<1>2. CASE UNCHANGED <<sent, frame>>
  <2>1. \E label \in {"audit", "revertBlocked", "revertError"} : Reaches(w, label)
    BY GotoEffect DEF TypeOK, Publish
  <2>2. QED
    BY <1>0, <1>1, <1>2, <2>1, MoveKeepsOneFrame DEF AttemptPC, Unpublished
<1>3. CASE ~ UNCHANGED <<sent, frame>>
  <2>1. Relay(j) /\ Goto(w, "audit")
    BY <1>3 DEF Publish
  <2>2. Reaches(w, "audit")
    BY <2>1, GotoEffect DEF TypeOK
  <2>3. sent' = [sent EXCEPT ![j] = @ + 1] 
        /\ \E s \in {"wire", "lost"} : frame' = [frame EXCEPT ![j][sent[j] + 1] = s]
    BY <1>3, <2>1 DEF Relay
  <2>4. row[j] = "dispatching" /\ sent[j] = 0
    BY <1>0 DEF FrameInv, ClaimIsExclusive, Unpublished
  <2>5. sent \in [Job -> 0..MaxFrames] /\ frame \in [Job -> [1..MaxFrames -> FrameStage]]
    BY DEF TypeOK, PrinterType
  <2>6. sent'[j] = 1 /\ \A i \in Job : i # j => sent'[i] = sent[i] /\ frame'[i] = frame[i]
    BY <1>0, <2>3, <2>4, <2>5
  <2>7. \A k \in 1..MaxFrames : k # 1 => frame'[j][k] = frame[j][k]
    BY <1>0, <2>3, <2>4, <2>5
  <2> USE DEF FrameInv
  <2>8. HandsAreFull'
    BY <1>0, <1>1, <2>2 DEF HandsAreFull, Reaches, OnlyMoves, Worker, AttemptPC, RequestPC,
       DispatcherPC
  <2>9. LockIsHeldInClaim'
    BY <1>0, <1>1, <2>2 DEF LockIsHeldInClaim, Reaches, OnlyMoves, Worker, TypeOK, RowType
  <2>10. ClaimIsExclusive'
    <3>1. \A v \in Worker : v # w /\ pc[v] \in Unpublished => cur[v] # j
      BY <1>0 DEF ClaimIsExclusive, Unpublished
    <3>2. \A v \in Worker : pc'[v] \in Unpublished => v # w
      BY <2>2 DEF Reaches, Unpublished
    <3>3. \A v \in Worker : pc'[v] \in Unpublished => pc[v] \in Unpublished /\ cur'[v] = cur[v] /\ cur[v] \in Job \ {j}
      BY <2>2, <3>1, <3>2 DEF Reaches, OnlyMoves, HandsAreFull, Unpublished, AttemptPC
    <3>4. QED
      BY <1>1, <2>6, <3>3 DEF ClaimIsExclusive
  <2>11. FramesFollowClaims'
    <3>1. \A i \in Job : row'[i] \in Claimable \cup {"none"} => sent'[i] = 0
      BY <1>1, <2>4, <2>6 DEF FramesFollowClaims, Claimable
    <3>2. \A i \in Job : sent'[i] <= 1 /\ (sent'[i] = 0 => up'[i] = <<>>)
      BY <1>1, <2>6 DEF FramesFollowClaims
    <3>3. \A i \in Job : \A k \in 1..MaxFrames : frame'[i][k] # "none" => k <= sent'[i]
      <4>1. ASSUME NEW k \in 1..MaxFrames, frame'[j][k] # "none" PROVE k <= sent'[j]
        <5>1. CASE k = 1
          BY <5>1, <2>6
        <5>2. CASE k # 1
          BY <5>2, <1>0, <4>1, <2>4, <2>7 DEF FramesFollowClaims
        <5>3. QED
          BY <5>1, <5>2
      <4>2. QED
        BY <4>1, <2>6 DEF FramesFollowClaims
    <3>4. QED
      BY <3>1, <3>2, <3>3 DEF FramesFollowClaims
  <2>12. QED
    BY <2>8, <2>9, <2>10, <2>11
<1>4. QED
  BY <1>2, <1>3

\* RequeueJob: the reverting worker is alone with the job and has sent nothing,
\* so the row may become claimable again.
LEMMA RevertKeepsOneFrame ==
    ASSUME TypeOK, FrameInv, NEW w \in Worker, RevertBlocked(w) \/ RevertError(w)
    PROVE  FrameInv'
<1> DEFINE j == cur[w]
<1> USE ActorsAssumption
<1>0. cur[w] \in Job /\ (w \in Job => cur[w] = w) /\ pc[w] \in {"revertBlocked", "revertError"}
  BY DEF FrameInv, HandsAreFull, RevertBlocked, RevertError, AttemptPC
<1>1. UNCHANGED <<lock, sent, up, frame>>
  BY DEF RevertBlocked, RevertError, printerVars
<1>2. Leaves(w)
  BY ReturnEffect DEF TypeOK, RevertBlocked, RevertError
<1>3. CASE UNCHANGED row
  BY <1>0, <1>1, <1>2, <1>3, LeaveKeepsOneFrame DEF AttemptPC
<1>4. CASE ~ UNCHANGED row
  <2>1. lock[j] = None /\ row' = [row EXCEPT ![j] = "queued"]
    BY <1>4 DEF RevertBlocked, RevertError, RequeueJob
  <2>2. row \in [Job -> Status] /\ lock \in [Job -> Worker \cup {None}]
    BY DEF TypeOK, RowType
  <2>3. \A i \in Job : i # j => row'[i] = row[i]
    BY <2>1, <2>2
  <2> USE DEF FrameInv
  <2>4. row[j] = "dispatching" /\ sent[j] = 0
    BY <1>0 DEF ClaimIsExclusive, Unpublished
  <2>5. HandsAreFull'
    BY <1>0, <1>2, <2>3, <2>4 DEF HandsAreFull, Leaves, OnlyMoves, Worker, AttemptPC,
       RequestPC, DispatcherPC
  <2>6. LockIsHeldInClaim'
    <3>1. \A i \in Job : lock[i] # None => lock[i] # w /\ i # j
      BY <1>0, <2>1 DEF LockIsHeldInClaim
    <3>2. \A v \in Worker : pc'[v] = "mark" => v # w
      BY <1>2 DEF Leaves, Worker
    <3>3. QED
      BY <1>1, <1>2, <2>2, <2>3, <3>1, <3>2 DEF LockIsHeldInClaim, Leaves, OnlyMoves
  <2>7. ClaimIsExclusive'
    <3>1. \A v \in Worker : v # w /\ pc[v] \in Unpublished => cur[v] # j
      BY <1>0 DEF ClaimIsExclusive, Unpublished
    <3>2. \A v \in Worker : pc'[v] \in Unpublished => v # w
      BY <1>2 DEF Leaves, Unpublished, Worker
    <3>3. \A v \in Worker : pc'[v] \in Unpublished => pc[v] \in Unpublished /\ cur'[v] = cur[v] /\ cur[v] \in Job \ {j}
      BY <1>2, <3>1, <3>2 DEF Leaves, OnlyMoves, HandsAreFull, Unpublished, AttemptPC
    <3>4. QED
      BY <1>1, <2>3, <3>3 DEF ClaimIsExclusive
  <2>8. FramesFollowClaims'
    BY <1>1, <2>3, <2>4 DEF FramesFollowClaims
  <2>9. QED
    BY <2>5, <2>6, <2>7, <2>8
<1>5. QED
  BY <1>3, <1>4

\* onStatus: a status frame goes back to a dispatch frame that was sent, so no
\* worker is between the claim and PUBLISH and the new status is not claimable.
LEMMA StatusKeepsOneFrame ==
    ASSUME TypeOK, FrameInv, NEW j \in Job, OnStatus(j)
    PROVE  FrameInv'
<1> USE ActorsAssumption DEF FrameInv
<1>1. UNCHANGED <<lock, pc, cur, sent, frame>> /\ up[j] # <<>> /\ lock[j] = None
  BY DEF OnStatus, attemptVars
<1>2. up \in [Job -> Seq({"printing", "delivered", "failed"})] /\ row \in [Job -> Status]
      /\ sent \in [Job -> 0..MaxFrames]
  BY DEF TypeOK, PrinterType, RowType
<1>3. sent[j] # 0 /\ row[j] \notin Claimable \cup {"none"}
  BY <1>1, <1>2 DEF FramesFollowClaims
<1>4. Head(up[j]) \in {"printing", "delivered", "failed"}
  BY <1>1, <1>2
<1>5. (\A i \in Job : i # j => up'[i] = up[i] /\ row'[i] = row[i]) /\ row'[j] \notin Claimable \cup {"none"}
  <2>1. up' = [up EXCEPT ![j] = Tail(@)] /\ (row' = row \/ row' = [row EXCEPT ![j] = Head(up[j])])
    BY DEF OnStatus
  <2>2. QED
    BY <1>2, <1>3, <1>4, <2>1 DEF Claimable
<1>6. HandsAreFull'
  BY <1>1, <1>3, <1>5 DEF HandsAreFull
<1>7. LockIsHeldInClaim'
  BY <1>1, <1>5 DEF LockIsHeldInClaim
<1>8. ClaimIsExclusive'
  <2>1. \A v \in Worker : pc[v] \in Unpublished => cur[v] \in Job \ {j}
    BY <1>3 DEF ClaimIsExclusive, HandsAreFull, Unpublished, AttemptPC
  <2>2. QED
    BY <1>1, <1>5, <2>1 DEF ClaimIsExclusive
<1>9. FramesFollowClaims'
  BY <1>1, <1>3, <1>5 DEF FramesFollowClaims
<1>10. QED
  BY <1>6, <1>7, <1>8, <1>9

\* The printer works on frames that were sent.
LEMMA HandleKeepsOneFrame ==
    ASSUME TypeOK, FrameInv, NEW j \in Job, NEW k \in 1..MaxFrames, HandleDispatch(j, k)
    PROVE  FrameInv'
<1> USE DEF FrameInv
<1>1. UNCHANGED <<row, lock, pc, cur, sent>>
  BY DEF HandleDispatch, StartPrinting, FetchBlob, FinishPrinting, FailPrinting, rowVars,
     attemptVars
<1>2. frame[j][k] # "none"
  BY DEF HandleDispatch, StartPrinting, FetchBlob, FinishPrinting, FailPrinting
<1>3. \E x : frame' = [frame EXCEPT ![j][k] = x]
  BY DEF HandleDispatch, StartPrinting, FetchBlob, FinishPrinting, FailPrinting
<1>4. \A i \in Job : i # j => up'[i] = up[i]
  <2>1. up' = up \/ \E x : up' = [up EXCEPT ![j] = x]
    BY DEF HandleDispatch, StartPrinting, FetchBlob, FinishPrinting, FailPrinting, Send
  <2>2. QED
    BY <2>1 DEF TypeOK, PrinterType
<1>5. sent \in [Job -> 0..MaxFrames] /\ frame \in [Job -> [1..MaxFrames -> FrameStage]]
  BY DEF TypeOK, PrinterType
<1>6. k <= sent[j] /\ sent[j] # 0
  BY <1>2, <1>5, BoundsAssumption DEF FramesFollowClaims
<1>7. \A i \in Job, l \in 1..MaxFrames : (i # j \/ l # k) => frame'[i][l] = frame[i][l]
  BY <1>3, <1>5
<1>8. FramesFollowClaims'
  BY <1>1, <1>4, <1>6, <1>7 DEF FramesFollowClaims
<1>9. HandsAreFull' /\ LockIsHeldInClaim' /\ ClaimIsExclusive'
  BY <1>1 DEF HandsAreFull, LockIsHeldInClaim, ClaimIsExclusive
<1>10. QED
  BY <1>8, <1>9

\* A crash takes the worker out of attemptDispatch and releases its lock.
LEMMA CrashKeepsOneFrame ==
    ASSUME TypeOK, FrameInv, NEW w \in Worker,
           OnlyMoves(w), w \in Job => pc'[w] = "done" /\ cur'[w] = cur[w],
           w \in Node => pc'[w] = "down", ReleaseLocks(w),
           UNCHANGED <<row, sent, up, frame>>
    PROVE  FrameInv'
<1> USE ActorsAssumption DEF FrameInv
<1>1. HandsAreFull'
  BY DEF HandsAreFull, OnlyMoves, Worker, AttemptPC, RequestPC, DispatcherPC
<1>2. LockIsHeldInClaim'
  <2>1. \A i \in Job : lock'[i] = IF lock[i] = w THEN None ELSE lock[i]
    BY DEF ReleaseLocks
  <2>2. lock \in [Job -> Worker \cup {None}]
    BY DEF TypeOK, RowType
  <2>3. \A v \in Worker : pc'[v] = "mark" => v # w
    BY DEF Worker
  <2>4. \A v \in Worker : pc[v] = "mark" => cur[v] \in Job
    BY DEF HandsAreFull, AttemptPC
  <2>5. \A v \in Worker : pc'[v] = "mark" => lock'[cur'[v]] = v
    BY <2>1, <2>3, <2>4 DEF LockIsHeldInClaim, OnlyMoves
  <2>6. \A i \in Job : lock'[i] # None =>
          pc'[lock'[i]] = "mark" /\ cur'[lock'[i]] = i /\ row'[i] \in Claimable
    BY <2>1, <2>2 DEF LockIsHeldInClaim, OnlyMoves
  <2>7. QED
    BY <2>5, <2>6 DEF LockIsHeldInClaim
<1>3. ClaimIsExclusive'
  BY DEF ClaimIsExclusive, OnlyMoves, Worker, Unpublished
<1>4. FramesFollowClaims'
  BY DEF FramesFollowClaims
<1>5. QED
  BY <1>1, <1>2, <1>3, <1>4

\* Every step keeps at most one dispatch frame per job.
LEMMA OneFrameStep ==
    ASSUME TypeOK, FrameInv, "ackLost" \notin faults, [Next]_vars
    PROVE  FrameInv'
<1> USE ActorsAssumption
<1>1. ASSUME NEW j \in Job, AuditSubmitted(j) \/ Enqueue(j) PROVE FrameInv'
  <2>1. UNCHANGED <<row, lock, cur, sent, up, frame>>
    BY <1>1 DEF AuditSubmitted, Enqueue, rowVars, printerVars
  <2>2. j \in Worker /\ j \notin Node /\ pc[j] # "mark" /\ OnlyMoves(j) /\ pc'[j] \in {"eligible", "done"}
    BY <1>1, <2>1 DEF AuditSubmitted, Enqueue, OnlyMoves, Worker, TypeOK, AttemptType
  <2> USE DEF FrameInv
  <2>3. HandsAreFull'
    BY <2>1, <2>2 DEF HandsAreFull, OnlyMoves, Worker, AttemptPC, RequestPC, DispatcherPC
  <2>4. LockIsHeldInClaim'
    BY <2>1, <2>2 DEF LockIsHeldInClaim, OnlyMoves, TypeOK, RowType
  <2>5. ClaimIsExclusive' /\ FramesFollowClaims'
    BY <2>1, <2>2 DEF ClaimIsExclusive, FramesFollowClaims, OnlyMoves, Unpublished
  <2>6. QED
    BY <2>3, <2>4, <2>5
<1>2. ASSUME NEW j \in Job, CrashRequest(j) PROVE FrameInv'
  BY <1>2, CrashKeepsOneFrame DEF CrashRequest, OnlyMoves, Worker, TypeOK, AttemptType, printerVars
<1>3. ASSUME NEW n \in Node, CrashNode(n) PROVE FrameInv'
  BY <1>3, CrashKeepsOneFrame DEF CrashNode, OnlyMoves, Worker, TypeOK, AttemptType, printerVars
<1>4. ASSUME NEW w \in Worker, CheckEligible(w) PROVE FrameInv'
  <2>1. pc[w] = "eligible" /\ UNCHANGED <<row, lock, sent, up, frame>>
    BY <1>4 DEF CheckEligible, rowVars, printerVars
  <2>2. Reaches(w, "claim") \/ Leaves(w)
    BY <1>4, GotoEffect, ReturnEffect DEF CheckEligible, TypeOK
  <2>3. QED
    BY <2>1, <2>2, LeaveKeepsOneFrame, MoveKeepsOneFrame DEF AttemptPC, Unpublished
<1>5. ASSUME NEW w \in Worker, Presign(w) PROVE FrameInv'
  <2>1. pc[w] = "presign" /\ UNCHANGED <<row, lock, sent, up, frame>>
    BY <1>5 DEF Presign, rowVars, printerVars
  <2>2. Reaches(w, "publish") \/ Reaches(w, "revertError")
    BY <1>5, GotoEffect DEF Presign, TypeOK
  <2>3. QED
    BY <2>1, <2>2, MoveKeepsOneFrame DEF AttemptPC, Unpublished
<1>6. ASSUME NEW w \in Worker, AuditDispatched(w) PROVE FrameInv'
  <2>1. pc[w] = "audit" /\ UNCHANGED <<row, lock, sent, up, frame>>
    BY <1>6 DEF AuditDispatched, printerVars
  <2>2. Leaves(w)
    BY <1>6, ReturnEffect DEF AuditDispatched, TypeOK
  <2>3. QED
    BY <2>1, <2>2, LeaveKeepsOneFrame DEF AttemptPC
<1>7. ASSUME NEW w \in Worker, Attempt(w) PROVE FrameInv'
  BY <1>4, <1>5, <1>6, <1>7, LockKeepsOneFrame, MarkKeepsOneFrame, PublishKeepsOneFrame,
     RevertKeepsOneFrame
     DEF Attempt
<1>8. ASSUME NEW n \in Node, Ack(n) \/ StartNode(n) \/ \E j \in Job : Handle(n, j) PROVE FrameInv'
  <2>1. UNCHANGED <<row, lock, sent, up, frame>>
    BY <1>8 DEF Ack, StartNode, Handle, rowVars, printerVars
  <2>2. n \in Worker /\ n \notin Job /\ pc[n] \notin {"mark"} /\ OnlyMoves(n) /\ pc'[n] \in {"loop", "eligible"}
        /\ (pc'[n] = "eligible" => cur'[n] \in Job)
    BY <1>8 DEF Ack, StartNode, Handle, OnlyMoves, Worker, TypeOK, AttemptType
  <2> USE DEF FrameInv
  <2>3. HandsAreFull'
    BY <2>1, <2>2 DEF HandsAreFull, OnlyMoves, Worker, AttemptPC, RequestPC, DispatcherPC
  <2>4. LockIsHeldInClaim'
    BY <2>1, <2>2 DEF LockIsHeldInClaim, OnlyMoves, TypeOK, RowType
  <2>5. ClaimIsExclusive' /\ FramesFollowClaims'
    BY <2>1, <2>2 DEF ClaimIsExclusive, FramesFollowClaims, OnlyMoves, Unpublished
  <2>6. QED
    BY <2>3, <2>4, <2>5
<1>9. ASSUME NEW n \in Node, Available(n) \/ Sweep(n) \/ ReadGroup(n) \/ EndDrain(n) \/ AutoClaim(n) \/ EndReclaim(n)
      PROVE FrameInv'
  BY <1>9, QuietKeepsOneFrame DEF Available, Sweep, ReadGroup, EndDrain, AutoClaim, EndReclaim,
     rowVars, attemptVars, printerVars
<1>10. ASSUME NEW m \in Mailbox,
              \/ Connect(m) \/ ConnectDead(m) \/ SeedState(m) \/ StateFrame(m)
              \/ ExpireState(m) \/ NoticeBreak(m)
       PROVE FrameInv'
  BY <1>10, QuietKeepsOneFrame DEF Connect, ConnectDead, SeedState, StateFrame, ExpireState,
     NoticeBreak, ChannelOnly, rowVars, attemptVars, printerVars
<1>11. ASSUME NEW m \in Mailbox, BreakLink(m) PROVE FrameInv'
  <2>1. UNCHANGED <<row, lock, pc, cur, sent>>
    BY <1>11 DEF BreakLink, rowVars, attemptVars
  <2>2. \A j \in Job : up'[j] = <<>> \/ up'[j] = up[j]
    BY <1>11 DEF BreakLink
  <2>3. \A j \in Job : \A k \in 1..MaxFrames : frame'[j][k] # "none" => frame[j][k] # "none"
    BY <1>11 DEF BreakLink
  <2>4. QED
    BY <2>1, <2>2, <2>3 DEF FrameInv, HandsAreFull, LockIsHeldInClaim, ClaimIsExclusive,
       FramesFollowClaims
<1>12. ASSUME NEW j \in Job, Age(j) PROVE FrameInv'
  BY <1>12, QuietKeepsOneFrame DEF Age, rowVars, attemptVars, printerVars
<1>13. ASSUME NEW j \in Job, Handler(j) PROVE FrameInv'
  BY <1>13, StatusKeepsOneFrame, CleaningIsQuiet, QuietKeepsOneFrame DEF Handler, Cleans
<1>14. CASE UNCHANGED vars
  BY <1>14, QuietKeepsOneFrame DEF vars, rowVars, attemptVars, printerVars
<1>15. QED
  BY <1>1, <1>2, <1>3, <1>7, <1>8, <1>9, <1>10, <1>11, <1>12, <1>13, <1>14,
     InsertKeepsOneFrame, HandleKeepsOneFrame DEF Next, Dispatcher, Printer

----------------------------------------------------------------------------
\* While PUBLISH reports what it did, the row lock and the conditional claim of
\* claimJob let at most one dispatch frame per job out of the cloud, whatever
\* else fails, crashes or is late.
THEOREM OneFrame == Spec => []OneFrameInv
<1>1. Init => OneFrameInv
  BY OneFrameInit DEF OneFrameInv
<1>2. TypeOK /\ OneFrameInv /\ [Next]_vars => OneFrameInv'
  BY OneFrameStep, FaultsStay DEF OneFrameInv
<1>3. QED
  BY <1>1, <1>2, TypeCorrect, PTL DEF Spec

\* README.md's "a job is never printed twice" (attemptDispatch, claimJob,
\* handleDispatch), under the same condition on PUBLISH.
THEOREM PrintedOnce == Spec => []NeverPrintedTwice
<1>1. TypeOK /\ OneFrameInv => NeverPrintedTwice
  <2> SUFFICES ASSUME TypeOK, FrameInv, NEW j \in Job, NEW k \in 1..MaxFrames,
                      frame[j][k] = "printed"
               PROVE  k = 1
    BY DEF NeverPrintedTwice, OneFrameInv
  <2>1. sent[j] \in Nat /\ sent[j] <= 1
    BY DEF TypeOK, PrinterType, FrameInv, FramesFollowClaims
  <2>2. k <= sent[j]
    BY DEF FrameInv, FramesFollowClaims
  <2>3. QED
    BY <2>1, <2>2
<1>2. QED
  BY <1>1, OneFrame, TypeCorrect, PTL

----------------------------------------------------------------------------
(***************************************************************************)
(* What a step does to one job's row, blob, frames and reports.  The       *)
(* remaining invariants speak of one job at a time, and are proved over    *)
(* these cases.                                                            *)
(***************************************************************************)
SpentKept(i) ==
    /\ Spent(i)' => Spent(i)
    /\ faults \cap {"minio", "crash"} = {} => (Spent(i) => Spent(i)')
RowKept(i) == row'[i] = row[i] /\ SpentKept(i)
FramesKept(i) == sent'[i] = sent[i] /\ frame'[i] = frame[i] /\ cut'[i] = cut[i] /\ up'[i] = up[i]
InHand(i, labels) == \E w \in Worker : pc[w] \in labels /\ cur[w] = i

\* InsertJob, the COMMIT of a claim and RequeueJob write the row.
Writes(i) ==
    /\ SpentKept(i) /\ FramesKept(i)
    /\ \/ pc[i] = "idle" /\ row'[i] = "submitted"
       \/ InHand(i, {"mark"}) /\ row'[i] = "dispatching"
       \/ InHand(i, {"revertBlocked", "revertError"}) /\ row'[i] = "queued"

\* PUBLISH puts a frame on the wire, or gives it to a hub whose socket is gone.
Publishes(i) ==
    /\ InHand(i, {"publish"}) /\ RowKept(i) /\ cut'[i] = cut[i] /\ up'[i] = up[i]
    /\ sent[i] < MaxFrames /\ sent'[i] = sent[i] + 1
    /\ \E s \in {"wire", "lost"} : frame'[i] = [frame[i] EXCEPT ![sent[i] + 1] = s]

\* The printer's socket breaks.
Breaks(i) ==
    /\ "link" \in faults /\ RowKept(i) /\ sent'[i] = sent[i]
    /\ frame'[i] = [k \in 1..MaxFrames |-> IF frame[i][k] = "wire" THEN "lost" ELSE frame[i][k]]
    /\ cut'[i] = 1..sent[i] /\ up'[i] = <<>>

\* The printer works on frame k: it goes from one of the stages to another, and
\* that is reported or, a fetched document, is not.
Works(i, k) ==
    /\ RowKept(i) /\ sent'[i] = sent[i] /\ cut'[i] = cut[i]
    /\ \/ /\ frame[i][k] = "started" /\ frame'[i] = [frame[i] EXCEPT ![k] = "fetched"]
          /\ up'[i] = up[i]
       \/ \E t \in { <<"wire", "started", "printing">>, <<"fetched", "printed", "delivered">>,
                     <<"started", "failed", "failed">>, <<"fetched", "failed", "failed">> } :
            /\ frame[i][k] = t[1] /\ frame'[i] = [frame[i] EXCEPT ![k] = t[2]]
            /\ up'[i] = IF k \in cut[i] THEN up[i] ELSE Append(up[i], t[3])

\* onStatus applies a report, or Postgres refuses it.
Hears(i) ==
    /\ up[i] # <<>> /\ up'[i] = Tail(up[i])
    /\ sent'[i] = sent[i] /\ frame'[i] = frame[i] /\ cut'[i] = cut[i]
    /\ \/ /\ row'[i] = Head(up[i])
          /\ IF Head(up[i]) = "delivered" THEN Spent(i)' ELSE SpentKept(i)
       \/ "db" \in faults /\ RowKept(i)

JobMoves(i) ==
    \/ RowKept(i) /\ FramesKept(i)
    \/ Writes(i) \/ Publishes(i) \/ Breaks(i) \/ Hears(i) \/ \E k \in 1..MaxFrames : Works(i, k)

\* There are no other cases.
LEMMA StepMovesJobs == ASSUME TypeOK, [Next]_vars, NEW i \in Job PROVE JobMoves(i)
<1> USE DEF JobMoves
<1>0. ASSUME UNCHANGED <<blob, todo>> PROVE SpentKept(i)
  BY <1>0 DEF SpentKept, Spent
<1>1. ASSUME UNCHANGED <<row, blob, printerVars>> PROVE JobMoves(i)
  BY <1>0, <1>1 DEF printerVars, RowKept, FramesKept
<1>2. ASSUME NEW j \in Job, InsertJob(j) PROVE JobMoves(i)
  <2>1. pc[j] = "idle" /\ row' = [row EXCEPT ![j] = "submitted"] /\ UNCHANGED <<blob, printerVars>>
    BY <1>2 DEF InsertJob
  <2>2. QED
    BY <1>0, <2>1 DEF Writes, RowKept, FramesKept, printerVars, TypeOK, RowType
<1>3. ASSUME NEW w \in Worker, MarkJobDispatching(w) PROVE JobMoves(i)
  <2>1. /\ pc[w] = "mark" /\ UNCHANGED <<blob, printerVars>>
        /\ row' = row \/ row' = [row EXCEPT ![cur[w]] = "dispatching"]
    BY <1>3 DEF MarkJobDispatching
  <2>2. QED
    BY <1>0, <2>1 DEF Writes, InHand, RowKept, FramesKept, printerVars, TypeOK, RowType
<1>4. ASSUME NEW w \in Worker, RevertBlocked(w) \/ RevertError(w) PROVE JobMoves(i)
  <2>1. /\ pc[w] \in {"revertBlocked", "revertError"} /\ UNCHANGED <<blob, printerVars>>
        /\ row' = row \/ row' = [row EXCEPT ![cur[w]] = "queued"]
    BY <1>4 DEF RevertBlocked, RevertError, RequeueJob
  <2>2. QED
    BY <1>0, <2>1 DEF Writes, InHand, RowKept, FramesKept, printerVars, TypeOK, RowType
<1>5. ASSUME NEW w \in Worker, Publish(w) PROVE JobMoves(i)
  <2>1. pc[w] = "publish" /\ UNCHANGED <<row, cut, up>> /\ SpentKept(i)
    BY <1>0, <1>5 DEF Publish, rowVars
  <2>2. \/ UNCHANGED <<sent, frame>>
        \/ /\ sent[cur[w]] < MaxFrames
           /\ sent' = [sent EXCEPT ![cur[w]] = @ + 1]
           /\ \E s \in {"wire", "lost"} :
                 frame' = [frame EXCEPT ![cur[w]][sent[cur[w]] + 1] = s]
    BY <1>5 DEF Publish, Relay
  <2>3. sent \in [Job -> 0..MaxFrames] /\ frame \in [Job -> [1..MaxFrames -> FrameStage]]
    BY DEF TypeOK, PrinterType
  <2>4. CASE i # cur[w]
    BY <2>1, <2>2, <2>3, <2>4 DEF RowKept, FramesKept
  <2>5. CASE i = cur[w]
    BY <2>1, <2>2, <2>3, <2>5 DEF Publishes, InHand, RowKept, FramesKept
  <2>6. QED
    BY <2>4, <2>5
<1>6. ASSUME NEW m \in Mailbox, BreakLink(m) PROVE JobMoves(i)
  <2>1. "link" \in faults /\ UNCHANGED <<row, sent>> /\ SpentKept(i)
    BY <1>0, <1>6 DEF BreakLink, Channel!Break, rowVars
  <2>2. \/ FramesKept(i)
        \/ /\ frame'[i] = [k \in 1..MaxFrames |-> IF frame[i][k] = "wire" THEN "lost" ELSE frame[i][k]]
           /\ cut'[i] = 1..sent[i] /\ up'[i] = <<>>
    BY <1>6, <2>1 DEF BreakLink, FramesKept, TypeOK, PrinterType
  <2>3. QED
    BY <2>1, <2>2 DEF Breaks, RowKept
<1>7. ASSUME NEW j \in Job, NEW k \in 1..MaxFrames, HandleDispatch(j, k) PROVE JobMoves(i)
  <2>1. UNCHANGED <<row, sent, cut>> /\ SpentKept(i)
    BY <1>0, <1>7 DEF HandleDispatch, StartPrinting, FetchBlob, FinishPrinting, FailPrinting, rowVars
  <2>2. frame \in [Job -> [1..MaxFrames -> FrameStage]] /\ up \in [Job -> Seq({"printing", "delivered", "failed"})]
    BY DEF TypeOK, PrinterType
  <2>3. \/ /\ frame[j][k] = "started" /\ frame' = [frame EXCEPT ![j][k] = "fetched"]
           /\ up' = up
        \/ \E t \in { <<"wire", "started", "printing">>, <<"fetched", "printed", "delivered">>,
                      <<"started", "failed", "failed">>, <<"fetched", "failed", "failed">> } :
             /\ frame[j][k] = t[1] /\ frame' = [frame EXCEPT ![j][k] = t[2]]
             /\ up' = IF k \in cut[j] THEN up ELSE [up EXCEPT ![j] = Append(@, t[3])]
    BY <1>7 DEF HandleDispatch, StartPrinting, FetchBlob, FinishPrinting, FailPrinting, Send
  <2>4. CASE i # j
    BY <2>1, <2>2, <2>3, <2>4 DEF RowKept, FramesKept
  <2>5. CASE i = j
    BY <2>1, <2>2, <2>3, <2>5 DEF Works, RowKept
  <2>6. QED
    BY <2>4, <2>5
<1>8. ASSUME NEW j \in Job, OnStatus(j) PROVE JobMoves(i)
  <2>1. up[j] # <<>> /\ up' = [up EXCEPT ![j] = Tail(@)] /\ UNCHANGED <<sent, frame, cut>>
    BY <1>8 DEF OnStatus
  <2>2. row \in [Job -> Status] /\ up \in [Job -> Seq({"printing", "delivered", "failed"})]
        /\ todo \in [Job -> SUBSET Errand]
    BY DEF TypeOK, PrinterType, RowType
  <2>3. \/ /\ row' = [row EXCEPT ![j] = Head(up[j])]
           /\ todo' = [todo EXCEPT ![j] = @ \cup (IF Head(up[j]) = "delivered" THEN {"wipe"} ELSE {})]
        \/ "db" \in faults /\ UNCHANGED <<row, todo>>
    BY <1>8 DEF OnStatus, DeletesBlob
  <2>4. UNCHANGED blob
    BY <1>8 DEF OnStatus
  <2>5. CASE i # j
    <3>1. todo'[i] = todo[i] /\ row'[i] = row[i]
      BY <2>2, <2>3, <2>5
    <3>2. QED
      BY <2>1, <2>2, <2>4, <2>5, <3>1 DEF RowKept, FramesKept, SpentKept, Spent
  <2>6. CASE i = j
    <3>1. CASE UNCHANGED <<row, todo>> /\ "db" \in faults
      BY <1>0, <2>1, <2>2, <2>4, <2>6, <3>1 DEF Hears, RowKept
    <3>2. CASE /\ row' = [row EXCEPT ![j] = Head(up[j])]
               /\ todo' = [todo EXCEPT ![j] = @ \cup (IF Head(up[j]) = "delivered" THEN {"wipe"} ELSE {})]
      <4>1. /\ row'[i] = Head(up[i])
            /\ todo'[i] = todo[i] \cup (IF Head(up[i]) = "delivered" THEN {"wipe"} ELSE {})
        BY <2>2, <2>6, <3>2
      <4>2. IF Head(up[i]) = "delivered" THEN Spent(i)' ELSE SpentKept(i)
        BY <2>4, <4>1 DEF SpentKept, Spent
      <4>3. QED
        BY <2>1, <2>2, <2>6, <4>1, <4>2 DEF Hears
    <3>3. QED
      BY <2>3, <3>1, <3>2
  <2>7. QED
    BY <2>5, <2>6
<1>8a. ASSUME NEW j \in Job, Cleans(j) PROVE JobMoves(i)
  <2>1. blob \in [Job -> BOOLEAN] /\ todo \in [Job -> SUBSET Errand]
    BY DEF TypeOK, PrinterType, RowType
  <2>2. ASSUME DeleteBlob(j) PROVE SpentKept(i)
    <3>1. \/ blob' = [blob EXCEPT ![j] = FALSE] /\ "wipe" \in todo[j]
             /\ todo' = [todo EXCEPT ![j] = (@ \ {"wipe"}) \cup {"record"}]
          \/ blob' = blob /\ todo' = [todo EXCEPT ![j] = @ \ {"wipe"}] /\ "minio" \in faults
      BY <2>2 DEF DeleteBlob
    <3>2. QED
      BY <2>1, <3>1 DEF SpentKept, Spent
  <2>3. ASSUME RecordDeletion(j) PROVE SpentKept(i)
    <3>1. blob' = blob /\ todo' = [todo EXCEPT ![j] = @ \ {"record"}]
      BY <2>3 DEF RecordDeletion
    <3>2. QED
      BY <2>1, <3>1 DEF SpentKept, Spent
  <2>4. ASSUME CrashHandler(j) PROVE SpentKept(i)
    <3>1. blob' = blob /\ todo' = [todo EXCEPT ![j] = {}] /\ "crash" \in faults
      BY <2>4 DEF CrashHandler
    <3>2. QED
      BY <2>1, <3>1 DEF SpentKept, Spent
  <2>5. SpentKept(i)
    BY <1>8a, <2>2, <2>3, <2>4 DEF Cleans
  <2>6. QED
    BY <1>8a, <2>5, CleaningIsQuiet DEF RowKept, FramesKept
<1>9. ASSUME NEW j \in Job, AuditSubmitted(j) \/ Enqueue(j) \/ CrashRequest(j) \/ Age(j) PROVE JobMoves(i)
  BY <1>1, <1>9 DEF AuditSubmitted, Enqueue, CrashRequest, Age, rowVars
<1>10. ASSUME NEW w \in Worker, CheckEligible(w) \/ LockJobForDispatch(w) \/ Presign(w) \/ AuditDispatched(w)
       PROVE JobMoves(i)
  BY <1>1, <1>10 DEF CheckEligible, LockJobForDispatch, Presign, AuditDispatched, rowVars
<1>11. ASSUME NEW n \in Node, Dispatcher(n) \/ CrashNode(n) \/ StartNode(n) PROVE JobMoves(i)
  BY <1>1, <1>11 DEF Dispatcher, Available, Sweep, ReadGroup, EndDrain, AutoClaim, EndReclaim, Handle,
     Ack, CrashNode, StartNode, rowVars
<1>12. ASSUME NEW m \in Mailbox, Connect(m) \/ ConnectDead(m) \/ SeedState(m) \/ StateFrame(m)
                                 \/ ExpireState(m) \/ NoticeBreak(m)
       PROVE JobMoves(i)
  BY <1>1, <1>12 DEF Connect, ConnectDead, SeedState, StateFrame, ExpireState, NoticeBreak,
     ChannelOnly, rowVars
<1>13. CASE UNCHANGED vars
  BY <1>1, <1>13 DEF vars, rowVars
<1>14. QED
  BY <1>2, <1>3, <1>4, <1>5, <1>6, <1>7, <1>8, <1>8a, <1>9, <1>10, <1>11, <1>12, <1>13
     DEF Next, Attempt, Printer, Handler, Cleans

----------------------------------------------------------------------------
(* A job recorded as delivered was printed.                                *)

\* The printer says so only of what it printed, and a printed frame stays one: a
\* new frame does not take its place.
Claims(u) == \E n \in 1..Len(u) : u[n] = "delivered"
WasPrinted(i) == \E k \in 1..MaxFrames : frame[i][k] = "printed"
FramesWereSent(i) == \A k \in 1..MaxFrames : frame[i][k] # "none" => k <= sent[i]
PrintedInv ==
    \A i \in Job : FramesWereSent(i) /\ (row[i] = "delivered" \/ Claims(up[i]) => WasPrinted(i))

\* A queue of reports claims what its parts do.
LEMMA ClaimsFacts ==
    ASSUME NEW u \in Seq({"printing", "delivered", "failed"})
    PROVE  /\ ~Claims(<<>>)
           /\ \A x \in {"printing", "delivered", "failed"} :
                Claims(Append(u, x)) => Claims(u) \/ x = "delivered"
           /\ u # <<>> => (Claims(Tail(u)) => Claims(u)) /\ (Head(u) = "delivered" => Claims(u))
<1>1. ~Claims(<<>>)
  BY DEF Claims
<1>2. ASSUME NEW x \in {"printing", "delivered", "failed"}, Claims(Append(u, x)), x # "delivered"
      PROVE  Claims(u)
  <2>1. PICK n \in 1..Len(Append(u, x)) : Append(u, x)[n] = "delivered"
    BY <1>2 DEF Claims
  <2>2. n \in 1..(Len(u) + 1) /\ n # Len(u) + 1
    BY <1>2, <2>1
  <2>3. n \in 1..Len(u) /\ u[n] = "delivered"
    BY <2>1, <2>2
  <2>4. QED
    BY <2>3 DEF Claims
<1>3. ASSUME u # <<>> PROVE (Claims(Tail(u)) => Claims(u)) /\ (Head(u) = "delivered" => Claims(u))
  <2>1. Len(u) \in Nat \ {0} /\ Head(u) = u[1] /\ Len(Tail(u)) = Len(u) - 1
    BY <1>3
  <2>2. \A n \in 1..Len(Tail(u)) : Tail(u)[n] = u[n + 1] /\ n + 1 \in 1..Len(u)
    BY <1>3, <2>1
  <2>3. QED
    BY <2>1, <2>2 DEF Claims
<1>4. QED
  BY <1>1, <1>2, <1>3

LEMMA PrintedStep == ASSUME TypeOK, PrintedInv, [Next]_vars PROVE PrintedInv'
<1> SUFFICES ASSUME NEW i \in Job
             PROVE  FramesWereSent(i)' /\ ((row[i] = "delivered" \/ Claims(up[i])) => WasPrinted(i))'
  BY DEF PrintedInv
<1>0. /\ frame[i] \in [1..MaxFrames -> FrameStage] /\ sent[i] \in 0..MaxFrames
      /\ up[i] \in Seq({"printing", "delivered", "failed"})
      /\ FramesWereSent(i) /\ ((row[i] = "delivered" \/ Claims(up[i])) => WasPrinted(i))
  BY DEF TypeOK, PrinterType, PrintedInv
<1> USE BoundsAssumption DEF FramesWereSent, WasPrinted
<1>1. CASE RowKept(i) /\ FramesKept(i)
  BY <1>0, <1>1 DEF RowKept, FramesKept, Claims
<1>2. CASE Writes(i)
  BY <1>0, <1>2 DEF Writes, FramesKept, Claims
<1>3. CASE Publishes(i)
  <2>1. PICK s \in {"wire", "lost"} :
            \A k \in 1..MaxFrames : frame'[i][k] = IF k = sent[i] + 1 THEN s ELSE frame[i][k]
    BY <1>0, <1>3 DEF Publishes
  <2>2. FramesWereSent(i)'
    BY <1>0, <1>3, <2>1 DEF Publishes
  <2>3. WasPrinted(i) => WasPrinted(i)'
    BY <1>0, <2>1
  <2>4. QED
    BY <1>0, <1>3, <2>2, <2>3 DEF Publishes, RowKept, Claims
<1>4. CASE Breaks(i)
  <2>1. \A k \in 1..MaxFrames : frame'[i][k] = IF frame[i][k] = "wire" THEN "lost" ELSE frame[i][k]
    BY <1>4 DEF Breaks
  <2>2. WasPrinted(i) => WasPrinted(i)'
    BY <2>1
  <2>3. ~Claims(up'[i])
    BY <1>4, ClaimsFacts, <1>0 DEF Breaks
  <2>4. QED
    BY <1>0, <1>4, <2>1, <2>2, <2>3 DEF Breaks, RowKept, Claims
<1>5. CASE Hears(i)
  <2>1. Claims(up'[i]) \/ row'[i] = "delivered" => Claims(up[i]) \/ row[i] = "delivered"
    BY <1>0, <1>5, ClaimsFacts DEF Hears, RowKept
  <2>2. QED
    BY <1>0, <1>5, <2>1 DEF Hears, Claims
<1>6. ASSUME NEW k \in 1..MaxFrames, Works(i, k)
      PROVE  FramesWereSent(i)' /\ ((row[i] = "delivered" \/ Claims(up[i])) => WasPrinted(i))'
  <2>1. sent'[i] = sent[i] /\ row'[i] = row[i]
    BY <1>6 DEF Works, RowKept
  <2>2. ASSUME NEW y, frame[i][k] \notin {"none", "printed"}, frame'[i] = [frame[i] EXCEPT ![k] = y],
               Claims(up'[i]) => Claims(up[i]) \/ y = "printed"
        PROVE  FramesWereSent(i)' /\ ((row[i] = "delivered" \/ Claims(up[i])) => WasPrinted(i))'
    <3>1. \A l \in 1..MaxFrames : frame'[i][l] = IF l = k THEN y ELSE frame[i][l]
      BY <1>0, <2>2
    <3>2. FramesWereSent(i)'
      BY <1>0, <2>1, <2>2, <3>1
    <3>3. (WasPrinted(i) \/ y = "printed") => WasPrinted(i)'
      BY <2>2, <3>1
    <3>4. QED
      BY <1>0, <2>1, <2>2, <3>2, <3>3 DEF Claims
  <2>3. CASE /\ frame[i][k] = "started" /\ frame'[i] = [frame[i] EXCEPT ![k] = "fetched"]
             /\ up'[i] = up[i]
    BY <2>2, <2>3
  <2>4. ASSUME NEW t \in { <<"wire", "started", "printing">>, <<"fetched", "printed", "delivered">>,
                           <<"started", "failed", "failed">>, <<"fetched", "failed", "failed">> },
               frame[i][k] = t[1], frame'[i] = [frame[i] EXCEPT ![k] = t[2]],
               up'[i] = IF k \in cut[i] THEN up[i] ELSE Append(up[i], t[3])
        PROVE  FramesWereSent(i)' /\ ((row[i] = "delivered" \/ Claims(up[i])) => WasPrinted(i))'
    <3>1. /\ t[1] \notin {"none", "printed"} /\ t[3] \in {"printing", "delivered", "failed"}
          /\ t[3] = "delivered" => t[2] = "printed"
      OBVIOUS
    <3>2. Claims(up'[i]) => Claims(up[i]) \/ t[2] = "printed"
      BY <1>0, <2>4, <3>1, ClaimsFacts
    <3>3. QED
      BY <2>2, <2>4, <3>1, <3>2
  <2>5. QED
    BY <1>6, <2>3, <2>4 DEF Works
<1>7. QED
  BY <1>1, <1>2, <1>3, <1>4, <1>5, <1>6, StepMovesJobs DEF JobMoves

\* Whatever fails: a job whose row says delivered really came out of its printer
\* (handleDispatch reports after processJob, onStatus records what was reported).
THEOREM RecordsTellTheTruth == Spec => []DeliveredWasPrinted
<1>1. Init => PrintedInv
  BY DEF Init, PrintedInv, FramesWereSent, Claims
<1>2. PrintedInv => DeliveredWasPrinted
  BY DEF PrintedInv, WasPrinted, DeliveredWasPrinted
<1>3. QED
  BY <1>1, <1>2, PrintedStep, TypeCorrect, PTL DEF Spec

----------------------------------------------------------------------------
(* The story of a job with one frame: what its printer has still to say.   *)

\* Queues of at most two reports, which is all there are.
LEMMA ShortQueues ==
    /\ \A x : Append(<<>>, x) = <<x>> /\ Head(<<x>>) = x /\ Tail(<<x>>) = <<>> /\ <<x>> # <<>>
    /\ \A x, y : /\ Append(<<x>>, y) = <<x, y>> /\ Head(<<x, y>>) = x /\ Tail(<<x, y>>) = <<y>>
                 /\ <<x, y>> # <<>>
<1>1. ASSUME NEW x PROVE Append(<<>>, x) = <<x>> /\ Head(<<x>>) = x /\ Tail(<<x>>) = <<>> /\ <<x>> # <<>>
  OBVIOUS
<1>2. ASSUME NEW x, NEW y
      PROVE  /\ Append(<<x>>, y) = <<x, y>> /\ Head(<<x, y>>) = x /\ Tail(<<x, y>>) = <<y>>
             /\ <<x, y>> # <<>>
  <2>1. Append(<<x>>, y) = <<x, y>>
    <3>1. <<x, y>> = Append(<<x>>, y)
      OBVIOUS
    <3>2. QED
      BY <3>1
  <2>2. Head(<<x, y>>) = x /\ <<x, y>> # <<>>
    OBVIOUS
  <2>3. Tail(<<x, y>>) = <<y>>
    <3>1. <<x, y>> \in Seq({x, y}) /\ <<y>> \in Seq({x, y}) /\ Len(<<x, y>>) = 2 /\ Len(<<y>>) = 1
      OBVIOUS
    <3>2. Tail(<<x, y>>) \in Seq({x, y}) /\ Len(Tail(<<x, y>>)) = 1 /\ Tail(<<x, y>>)[1] = y
      BY <3>1
    <3>3. QED
      BY <3>1, <3>2
  <2>4. QED
    BY <2>1, <2>2, <2>3
<1>3. QED
  BY <1>1, <1>2

\* A row is written along the graph: by the worker that inserted, locked or claimed it.
LEMMA WritesFollowTheGraph ==
    ASSUME FrameInv, NEW i \in Job, Writes(i)
    PROVE  /\ <<row[i], row'[i]>> \in { <<"none", "submitted">>, <<"submitted", "dispatching">>,
                                        <<"queued", "dispatching">>, <<"dispatching", "queued">> }
           /\ sent[i] = 0
<1> USE ActorsAssumption DEF FrameInv
<1>1. CASE pc[i] = "idle" /\ row'[i] = "submitted"
  BY <1>1 DEF HandsAreFull, FramesFollowClaims
<1>2. CASE InHand(i, {"mark"}) /\ row'[i] = "dispatching"
  <2>1. PICK w \in Worker : pc[w] = "mark" /\ cur[w] = i
    BY <1>2 DEF InHand
  <2>2. lock[i] = w /\ w # None
    BY <2>1 DEF LockIsHeldInClaim
  <2>3. row[i] \in Claimable
    BY <2>2 DEF LockIsHeldInClaim
  <2>4. QED
    BY <1>2, <2>3 DEF Claimable, FramesFollowClaims
<1>3. CASE InHand(i, {"revertBlocked", "revertError"}) /\ row'[i] = "queued"
  <2>1. row[i] = "dispatching" /\ sent[i] = 0
    BY <1>3 DEF InHand, ClaimIsExclusive, Unpublished
  <2>2. QED
    BY <1>3, <2>1
<1>4. QED
  BY <1>1, <1>2, <1>3 DEF Writes

\* A frame is published for a claimed job that has none.
LEMMA FirstFrame ==
    ASSUME TypeOK, FrameInv, NEW i \in Job, Publishes(i)
    PROVE  /\ row[i] = "dispatching" /\ row'[i] = "dispatching" /\ sent[i] = 0 /\ sent'[i] = 1
           /\ frame[i][1] = "none" /\ frame'[i][1] \in {"wire", "lost"} /\ up[i] = <<>> /\ up'[i] = <<>>
           /\ SpentKept(i) /\ cut'[i] = cut[i]
<1> USE BoundsAssumption DEF FrameInv
<1>1. row[i] = "dispatching" /\ sent[i] = 0
  BY DEF Publishes, InHand, ClaimIsExclusive, Unpublished
<1>2. frame[i] \in [1..MaxFrames -> FrameStage] /\ 1 \in 1..MaxFrames
  BY DEF TypeOK, PrinterType
<1>3. frame[i][1] = "none"
  BY <1>1, <1>2 DEF FramesFollowClaims
<1>4. up[i] = <<>>
  BY <1>1 DEF FramesFollowClaims
<1>5. QED
  BY <1>1, <1>2, <1>3, <1>4 DEF Publishes, RowKept

\* The printer works on the only frame.
LEMMA OnlyFrame ==
    ASSUME TypeOK, FrameInv, NEW i \in Job, NEW k \in 1..MaxFrames, Works(i, k)
    PROVE  /\ k = 1 /\ RowKept(i) /\ cut'[i] = cut[i] /\ sent'[i] = sent[i]
           /\ \/ frame[i][1] = "started" /\ frame'[i][1] = "fetched" /\ up'[i] = up[i]
              \/ \E t \in { <<"wire", "started", "printing">>, <<"fetched", "printed", "delivered">>,
                            <<"started", "failed", "failed">>, <<"fetched", "failed", "failed">> } :
                   /\ frame[i][1] = t[1] /\ frame'[i][1] = t[2]
                   /\ up'[i] = IF 1 \in cut[i] THEN up[i] ELSE Append(up[i], t[3])
<1> USE BoundsAssumption
<1>1. frame[i] \in [1..MaxFrames -> FrameStage] /\ sent[i] \in 0..MaxFrames
  BY DEF TypeOK, PrinterType
<1>2. frame[i][k] # "none"
  BY DEF Works
<1>3. k = 1
  BY <1>1, <1>2 DEF FrameInv, FramesFollowClaims
<1>4. QED
  BY <1>1, <1>3 DEF Works

\* What is on its way to the hub goes with the stage of the frame, nothing follows
\* a report of the end, and a delivered job, no other, loses its blob.
Story(i) ==
    /\ frame[i][1] \in {"none", "wire", "lost"} => up[i] = <<>>
    /\ frame[i][1] \in {"started", "fetched"} => up[i] \in {<<>>, <<"printing">>}
    /\ frame[i][1] = "printed" => up[i] \in {<<>>, <<"delivered">>, <<"printing", "delivered">>}
    /\ frame[i][1] = "failed" => up[i] \in {<<>>, <<"failed">>, <<"printing", "failed">>}
    /\ row[i] = "delivered" => up[i] = <<>> /\ frame[i][1] = "printed"
    /\ row[i] = "failed" => up[i] = <<>> /\ frame[i][1] = "failed"
    /\ 1 \in cut[i] => up[i] = <<>>
    /\ Spent(i) => row[i] = "delivered"
    /\ faults \cap {"minio", "crash"} = {} => (row[i] = "delivered" => Spent(i))
StoryInv == "ackLost" \notin faults => \A i \in Job : Story(i)

LEMMA StoryStep ==
    ASSUME TypeOK, FrameInv, NEW i \in Job, Story(i), [Next]_vars
    PROVE  Story(i)'
<1> USE DEF Story
<1>0. frame[i] \in [1..MaxFrames -> FrameStage] /\ 1 \in 1..MaxFrames /\ faults' = faults
  BY BoundsAssumption, FaultsStay DEF TypeOK, PrinterType
<1>1. CASE RowKept(i) /\ FramesKept(i)
  BY <1>0, <1>1 DEF RowKept, FramesKept, SpentKept
<1>2. CASE Writes(i)
  <2>1. row[i] \notin {"delivered", "failed"} /\ row'[i] \notin {"delivered", "failed"}
    BY <1>2, WritesFollowTheGraph
  <2>2. QED
    BY <1>0, <1>2, <2>1 DEF Writes, FramesKept, SpentKept
<1>3. CASE Publishes(i)
  BY <1>0, <1>3, FirstFrame DEF SpentKept
<1>4. CASE Breaks(i)
  <2>1. frame'[i][1] = IF frame[i][1] = "wire" THEN "lost" ELSE frame[i][1]
    BY <1>0, <1>4 DEF Breaks
  <2>2. QED
    BY <1>0, <1>4, <2>1 DEF Breaks, RowKept, SpentKept
<1>5. CASE Hears(i)
  <2>1. row[i] \notin {"delivered", "failed"} /\ ~Spent(i)
    BY <1>5 DEF Hears
  <2>2. frame'[i][1] = frame[i][1] /\ up'[i] = Tail(up[i]) /\ up[i] # <<>>
    BY <1>5 DEF Hears
  <2>3. \/ row'[i] = Head(up[i]) /\ (IF Head(up[i]) = "delivered" THEN Spent(i)' ELSE ~Spent(i)')
        \/ row'[i] = row[i] /\ ~Spent(i)'
    BY <1>5, <2>1 DEF Hears, RowKept, SpentKept
  <2>4. frame[i][1] \in {"started", "fetched", "printed", "failed"}
    BY <1>0, <2>2 DEF FrameStage
  <2>5. CASE frame[i][1] \in {"started", "fetched"}
    <3>1. up[i] = <<"printing">>
      BY <2>2, <2>5
    <3>2. Head(up[i]) = "printing" /\ up'[i] = <<>>
      BY <2>2, <3>1, ShortQueues
    <3>3. QED
      BY <2>1, <2>2, <2>3, <2>5, <3>2
  <2>6. CASE frame[i][1] = "printed"
    <3>1. up[i] = <<"delivered">> \/ up[i] = <<"printing", "delivered">>
      BY <2>2, <2>6
    <3>2. CASE up[i] = <<"delivered">>
      <4>1. Head(up[i]) = "delivered" /\ up'[i] = <<>>
        BY <2>2, <3>2, ShortQueues
      <4>2. QED
        BY <2>1, <2>2, <2>3, <2>6, <4>1
    <3>3. CASE up[i] = <<"printing", "delivered">>
      <4>1. Head(up[i]) = "printing" /\ up'[i] = <<"delivered">> /\ up'[i] # <<>>
        BY <2>2, <3>3, ShortQueues
      <4>2. row'[i] \notin {"delivered", "failed"} /\ ~Spent(i)' /\ 1 \notin cut'[i]
        BY <1>5, <2>1, <2>3, <3>3, <4>1, ShortQueues DEF Hears
      <4>3. QED
        BY <2>1, <2>2, <2>6, <4>1, <4>2
    <3>4. QED
      BY <3>1, <3>2, <3>3
  <2>7. CASE frame[i][1] = "failed"
    <3>1. up[i] = <<"failed">> \/ up[i] = <<"printing", "failed">>
      BY <2>2, <2>7
    <3>2. CASE up[i] = <<"failed">>
      <4>1. Head(up[i]) = "failed" /\ up'[i] = <<>>
        BY <2>2, <3>2, ShortQueues
      <4>2. QED
        BY <2>1, <2>2, <2>3, <2>7, <4>1
    <3>3. CASE up[i] = <<"printing", "failed">>
      <4>1. Head(up[i]) = "printing" /\ up'[i] = <<"failed">> /\ up'[i] # <<>>
        BY <2>2, <3>3, ShortQueues
      <4>2. row'[i] \notin {"delivered", "failed"} /\ ~Spent(i)' /\ 1 \notin cut'[i]
        BY <1>5, <2>1, <2>3, <3>3, <4>1, ShortQueues DEF Hears
      <4>3. QED
        BY <2>1, <2>2, <2>7, <4>1, <4>2
    <3>4. QED
      BY <3>1, <3>2, <3>3
  <2>8. QED
    BY <2>4, <2>5, <2>6, <2>7
<1>6. ASSUME NEW k \in 1..MaxFrames, Works(i, k) PROVE Story(i)'
  <2>1. RowKept(i)
    BY <1>6, OnlyFrame
  <2>2. CASE frame[i][1] = "started" /\ frame'[i][1] = "fetched" /\ up'[i] = up[i]
    BY <1>6, <2>1, <2>2, <1>0, OnlyFrame DEF RowKept, SpentKept
  <2>3. ASSUME NEW t \in { <<"wire", "started", "printing">>, <<"fetched", "printed", "delivered">>,
                           <<"started", "failed", "failed">>, <<"fetched", "failed", "failed">> },
               frame[i][1] = t[1], frame'[i][1] = t[2],
               up'[i] = IF 1 \in cut[i] THEN up[i] ELSE Append(up[i], t[3])
        PROVE  Story(i)'
    <3>1. cut'[i] = cut[i]
      BY <1>6, OnlyFrame
    <3>2. row[i] \notin {"delivered", "failed"} /\ ~Spent(i)
      BY <1>0, <2>3
    <3>3. up[i] = <<>> \/ (up[i] = <<"printing">> /\ t[1] # "wire" /\ 1 \notin cut[i])
      BY <2>3
    <3>4. CASE up'[i] = <<>>
      BY <2>1, <2>3, <3>1, <3>2, <1>0, <3>4 DEF RowKept, SpentKept
    <3>5. CASE up[i] = <<>> /\ 1 \notin cut[i]
      <4>1. up'[i] = <<t[3]>>
        BY <2>3, <3>5, ShortQueues
      <4>2. QED
        BY <2>1, <2>3, <3>1, <3>2, <3>5, <1>0, <4>1 DEF RowKept, SpentKept
    <3>6. CASE up[i] = <<"printing">> /\ t[1] # "wire" /\ 1 \notin cut[i]
      <4>1. up'[i] = <<"printing", t[3]>>
        BY <2>3, <3>6, ShortQueues
      <4>2. <<t[2], t[3]>> \in {<<"printed", "delivered">>, <<"failed", "failed">>}
        BY <3>6
      <4>3. \/ frame'[i][1] = "printed" /\ up'[i] = <<"printing", "delivered">>
            \/ frame'[i][1] = "failed" /\ up'[i] = <<"printing", "failed">>
        BY <2>3, <4>1, <4>2
      <4>4. QED
        BY <2>1, <3>1, <3>2, <3>6, <1>0, <4>3 DEF RowKept, SpentKept
    <3>7. QED
      BY <2>3, <3>3, <3>4, <3>5, <3>6
  <2>4. QED
    BY <1>6, <2>2, <2>3, OnlyFrame
<1>7. QED
  BY <1>1, <1>2, <1>3, <1>4, <1>5, <1>6, StepMovesJobs DEF JobMoves

\* OneFrameInv and StoryInv together are inductive.
LEMMA StoriesAreTold == Spec => []StoryInv
<1>1. Init => StoryInv
  BY BoundsAssumption DEF Init, StoryInv, Story, Spent
<1>2. TypeOK /\ OneFrameInv /\ StoryInv /\ [Next]_vars => StoryInv'
  BY StoryStep, FaultsStay DEF StoryInv, OneFrameInv
<1>3. QED
  BY <1>1, <1>2, TypeCorrect, OneFrame, PTL DEF Spec

\* Nobody finds the blob of an undelivered job gone (onStatus, deleteDeliveredBlob):
\* no step takes a delivered job's row back, for its printer has said its last word
\* and no worker has the job in hand.
THEOREM BlobIsKept == Spec => []BlobKeptUntilDelivered
<1>1. StoryInv => BlobKeptUntilDelivered
  BY DEF StoryInv, Story, BlobKeptUntilDelivered, Spent
<1>2. QED
  BY <1>1, StoriesAreTold, PTL

----------------------------------------------------------------------------
(***************************************************************************)
(* jobs.status follows the graph.  The row and the reports on their way    *)
(* are one path of it, which ends where the frame is; the reports of a     *)
(* frame whose socket has gone are lost, and then the row stays where it   *)
(* is.                                                                     *)
(***************************************************************************)
Telling(i) ==
    /\ sent[i] = 0 => 1 \notin cut[i] /\ frame[i][1] = "none"
    /\ frame[i][1] = "wire" => 1 \notin cut[i] /\ row[i] = "dispatching"
    /\ frame[i][1] \in {"started", "fetched"} /\ 1 \notin cut[i] =>
         \/ row[i] = "dispatching" /\ up[i] = <<"printing">>
         \/ row[i] = "printing" /\ up[i] = <<>>
    /\ frame[i][1] \in {"printed", "failed"} /\ 1 \notin cut[i] =>
         \E end \in {"delivered", "failed"} :
            \/ row[i] = "dispatching" /\ up[i] = <<"printing", end>>
            \/ row[i] = "printing" /\ up[i] = <<end>>
            \/ row[i] = end /\ up[i] = <<>>
TellingInv == faults \cap {"db", "ackLost"} = {} => \A i \in Job : Telling(i)

LEMMA TellingStep ==
    ASSUME TypeOK, FrameInv, NEW i \in Job, Story(i), Telling(i), "db" \notin faults, [Next]_vars
    PROVE  /\ Telling(i)'
           /\ \/ row'[i] = row[i]
              \/ row[i] = "none" /\ row'[i] = "submitted"
              \/ <<row[i], row'[i]>> \in Lifecycle!Transition
<1>0. /\ frame[i] \in [1..MaxFrames -> FrameStage] /\ 1 \in 1..MaxFrames
      /\ sent[i] \in 0..MaxFrames /\ sent[i] <= 1
  BY BoundsAssumption DEF TypeOK, PrinterType, FrameInv, FramesFollowClaims
<1>1. CASE RowKept(i) /\ FramesKept(i)
  BY <1>1 DEF RowKept, FramesKept, Telling
<1>2. CASE Writes(i)
  <2>1. sent[i] = 0 /\ FramesKept(i)
    BY <1>2, WritesFollowTheGraph DEF Writes
  <2>2. Telling(i)'
    BY <2>1 DEF Telling, FramesKept
  <2>3. QED
    BY <1>2, <2>2, WritesFollowTheGraph DEF Lifecycle!Transition
<1>3. CASE Publishes(i)
  BY <1>3, FirstFrame DEF Telling
<1>4. CASE Breaks(i)
  <2>1. frame'[i][1] = IF frame[i][1] = "wire" THEN "lost" ELSE frame[i][1]
    BY <1>0, <1>4 DEF Breaks
  <2>2. cut'[i] = 1..sent[i] /\ row'[i] = row[i] /\ sent'[i] = sent[i]
    BY <1>4 DEF Breaks, RowKept
  <2>3. CASE sent[i] = 0
    BY <2>1, <2>2, <2>3 DEF Telling
  <2>4. CASE sent[i] = 1
    <3>1. 1 \in cut'[i]
      BY <2>2, <2>4
    <3>2. QED
      BY <2>1, <2>2, <2>4, <3>1 DEF Telling
  <2>5. QED
    BY <1>0, <2>3, <2>4
<1>5. CASE Hears(i)
  <2>1. /\ 1 \notin cut[i] /\ up[i] # <<>> /\ up'[i] = Tail(up[i]) /\ row'[i] = Head(up[i])
        /\ UNCHANGED <<sent[i], frame[i], cut[i]>>
    BY <1>5 DEF Hears, Story
  <2>2. frame[i][1] \in {"started", "fetched", "printed", "failed"}
    BY <1>0, <2>1 DEF Story, FrameStage
  <2>3. CASE frame[i][1] \in {"started", "fetched"}
    <3>1. row[i] = "dispatching" /\ up[i] = <<"printing">>
      BY <2>1, <2>3 DEF Telling
    <3>2. row'[i] = "printing" /\ up'[i] = <<>>
      BY <2>1, <3>1, ShortQueues
    <3>3. QED
      BY <2>1, <2>3, <3>1, <3>2 DEF Telling, Lifecycle!Transition
  <2>4. CASE frame[i][1] \in {"printed", "failed"}
    <3>1. PICK end \in {"delivered", "failed"} :
            \/ row[i] = "dispatching" /\ up[i] = <<"printing", end>>
            \/ row[i] = "printing" /\ up[i] = <<end>>
      BY <2>1, <2>4 DEF Telling
    <3>2. CASE row[i] = "dispatching" /\ up[i] = <<"printing", end>>
      <4>1. row'[i] = "printing" /\ up'[i] = <<end>>
        BY <2>1, <3>2, ShortQueues
      <4>2. QED
        BY <2>1, <2>4, <3>2, <4>1 DEF Telling, Lifecycle!Transition
    <3>3. CASE row[i] = "printing" /\ up[i] = <<end>>
      <4>1. row'[i] = end /\ up'[i] = <<>>
        BY <2>1, <3>3, ShortQueues
      <4>2. QED
        BY <2>1, <2>4, <3>3, <4>1 DEF Telling, Lifecycle!Transition
    <3>4. QED
      BY <3>1, <3>2, <3>3
  <2>5. QED
    BY <2>2, <2>3, <2>4
<1>6. ASSUME NEW k \in 1..MaxFrames, Works(i, k) PROVE Telling(i)' /\ row'[i] = row[i]
  <2>1. row'[i] = row[i] /\ cut'[i] = cut[i] /\ sent'[i] = sent[i]
    BY <1>6, OnlyFrame DEF RowKept
  <2>2. CASE frame[i][1] = "started" /\ frame'[i][1] = "fetched" /\ up'[i] = up[i]
    BY <2>1, <2>2 DEF Telling
  <2>3. ASSUME NEW t \in { <<"wire", "started", "printing">>, <<"fetched", "printed", "delivered">>,
                           <<"started", "failed", "failed">>, <<"fetched", "failed", "failed">> },
               frame[i][1] = t[1], frame'[i][1] = t[2],
               up'[i] = IF 1 \in cut[i] THEN up[i] ELSE Append(up[i], t[3])
        PROVE  Telling(i)'
    <3>0. t[2] \in {"started", "printed", "failed"} /\ t[1] # "none"
      OBVIOUS
    <3>1. CASE 1 \in cut[i]
      BY <2>1, <2>3, <3>0, <3>1 DEF Telling
    <3>2. CASE 1 \notin cut[i] /\ t[1] = "wire"
      <4>1. t[2] = "started" /\ t[3] = "printing" /\ up[i] = <<>> /\ row[i] = "dispatching"
        BY <2>3, <3>2 DEF Story, Telling
      <4>2. up'[i] = <<"printing">>
        BY <2>3, <3>2, <4>1, ShortQueues
      <4>3. QED
        BY <2>1, <2>3, <3>0, <3>2, <4>1, <4>2 DEF Telling
    <3>3. CASE 1 \notin cut[i] /\ t[1] # "wire"
      <4>1. t[1] \in {"started", "fetched"} /\ t[2] \in {"printed", "failed"} /\ t[3] \in {"delivered", "failed"}
        BY <3>3
      <4>2. CASE row[i] = "dispatching" /\ up[i] = <<"printing">>
        <5>1. up'[i] = <<"printing", t[3]>>
          BY <2>3, <3>3, <4>2, ShortQueues
        <5>2. QED
          BY <2>1, <2>3, <3>3, <4>1, <4>2, <5>1 DEF Telling
      <4>3. CASE row[i] = "printing" /\ up[i] = <<>>
        <5>1. up'[i] = <<t[3]>>
          BY <2>3, <3>3, <4>3, ShortQueues
        <5>2. QED
          BY <2>1, <2>3, <3>3, <4>1, <4>3, <5>1 DEF Telling
      <4>4. QED
        BY <2>3, <3>3, <4>1, <4>2, <4>3 DEF Telling
    <3>4. QED
      BY <3>1, <3>2, <3>3
  <2>4. QED
    BY <1>6, <2>1, <2>2, <2>3, OnlyFrame
<1>7. QED
  BY <1>1, <1>2, <1>3, <1>4, <1>5, <1>6, StepMovesJobs, FirstFrame DEF JobMoves, RowKept, Breaks

LEMMA PathsAreTold == Spec => []TellingInv
<1>1. Init => TellingInv
  BY BoundsAssumption DEF Init, TellingInv, Telling
<1>2. TypeOK /\ OneFrameInv /\ StoryInv /\ TellingInv /\ [Next]_vars => TellingInv'
  BY TellingStep, FaultsStay DEF TellingInv, StoryInv, OneFrameInv
<1>3. QED
  BY <1>1, <1>2, TypeCorrect, OneFrame, StoriesAreTold, PTL DEF Spec

\* A step writes at most one row.
LEMMA OneRowAtATime ==
    ASSUME TypeOK, [Next]_vars
    PROVE  row' = row \/ \E j \in Job : row' = [row EXCEPT ![j] = row'[j]]
<1>0. row \in [Job -> Status]
  BY DEF TypeOK, RowType
<1>1. ASSUME NEW j, NEW x, row' = [row EXCEPT ![j] = x]
      PROVE  row' = row \/ \E i \in Job : row' = [row EXCEPT ![i] = row'[i]]
  <2>1. CASE j \in Job
    <3>1. row'[j] = x
      BY <1>0, <1>1, <2>1
    <3>2. QED
      BY <1>1, <2>1, <3>1
  <2>2. CASE j \notin Job
    BY <1>0, <1>1, <2>2
  <2>3. QED
    BY <2>1, <2>2
<1>2. row' = row \/ \E j, x : row' = [row EXCEPT ![j] = x]
  <2>1. ASSUME NEW j \in Job, InsertJob(j) \/ OnStatus(j)
        PROVE  row' = row \/ \E i, x : row' = [row EXCEPT ![i] = x]
    BY <2>1 DEF InsertJob, OnStatus
  <2>2. ASSUME NEW w \in Worker, MarkJobDispatching(w) \/ RevertBlocked(w) \/ RevertError(w)
        PROVE  row' = row \/ \E i, x : row' = [row EXCEPT ![i] = x]
    BY <2>2 DEF MarkJobDispatching, RevertBlocked, RevertError, RequeueJob
  <2>3. ASSUME NEW j \in Job, AuditSubmitted(j) \/ Enqueue(j) \/ CrashRequest(j) \/ Age(j)
                              \/ \E k \in 1..MaxFrames : HandleDispatch(j, k)
        PROVE  row' = row
    BY <2>3 DEF AuditSubmitted, Enqueue, CrashRequest, Age, HandleDispatch, StartPrinting,
       FetchBlob, FinishPrinting, FailPrinting, rowVars
  <2>4. ASSUME NEW w \in Worker, CheckEligible(w) \/ LockJobForDispatch(w) \/ Presign(w) \/ Publish(w)
                                 \/ AuditDispatched(w)
        PROVE  row' = row
    BY <2>4 DEF CheckEligible, LockJobForDispatch, Presign, Publish, AuditDispatched, rowVars
  <2>5. ASSUME NEW n \in Node, Dispatcher(n) \/ CrashNode(n) \/ StartNode(n) PROVE row' = row
    BY <2>5 DEF Dispatcher, Available, Sweep, ReadGroup, EndDrain, AutoClaim, EndReclaim, Handle,
       Ack, CrashNode, StartNode, rowVars
  <2>6. ASSUME NEW m \in Mailbox, Printer(m) PROVE row' = row
    BY <2>6 DEF Printer, Connect, ConnectDead, SeedState, StateFrame, ExpireState, BreakLink,
       NoticeBreak, ChannelOnly, rowVars
  <2>7. CASE UNCHANGED vars
    BY <2>7 DEF vars, rowVars
  <2>8. ASSUME NEW j \in Job, Cleans(j) PROVE row' = row
    BY <2>8, CleaningIsQuiet
  <2>9. QED
    BY <2>1, <2>2, <2>3, <2>4, <2>5, <2>6, <2>7, <2>8 DEF Next, Attempt, Handler, Cleans
<1>3. QED
  BY <1>1, <1>2

\* The dispatch path implements the life cycle of db/schema.sql: jobs.status only
\* follows its edges, as long as no statement fails and no PUBLISH reply is lost.
THEOREM KeepsToLifecycle == Spec => FollowsLifecycle
<1>1. Init => Lifecycle!Init
  BY DEF Init, Lifecycle!Init, Observed
<1>2. TypeOK /\ OneFrameInv /\ StoryInv /\ TellingInv /\ [Next]_vars => [Lifecycle!Next]_Observed
  <2> SUFFICES ASSUME TypeOK, OneFrameInv, StoryInv, TellingInv, [Next]_vars
               PROVE  [Lifecycle!Next]_Observed
    OBVIOUS
  <2>1. CASE faults \cap {"db", "ackLost"} # {}
    <3>1. Observed' = Observed
      BY <2>1, FaultsStay DEF Observed
    <3>2. QED
      BY <3>1
  <2>2. CASE faults \cap {"db", "ackLost"} = {} /\ row' = row
    <3>1. Observed' = Observed
      BY <2>2, FaultsStay DEF Observed
    <3>2. QED
      BY <3>1
  <2>3. ASSUME faults \cap {"db", "ackLost"} = {}, NEW j \in Job, row' = [row EXCEPT ![j] = row'[j]], row' # row
        PROVE  Lifecycle!Next
    <3>1. Observed = row /\ Observed' = row'
      BY <2>3, FaultsStay DEF Observed
    <3>2. row'[j] # row[j]
      BY <2>3 DEF TypeOK, RowType
    <3>3. \/ row[j] = "none" /\ row'[j] = "submitted"
          \/ <<row[j], row'[j]>> \in Lifecycle!Transition
      BY <2>3, <3>2, TellingStep DEF TellingInv, StoryInv, OneFrameInv
    <3>4. CASE row[j] = "none" /\ row'[j] = "submitted"
      BY <2>3, <3>1, <3>4 DEF Lifecycle!Next, Lifecycle!Insert
    <3>5. ASSUME NEW e \in Lifecycle!Transition, e = <<row[j], row'[j]>> PROVE Lifecycle!Next
      <4>1. e[1] = row[j] /\ e[2] = row'[j]
        BY <3>5
      <4>2. Lifecycle!Step(j)
        BY <2>3, <3>1, <4>1 DEF Lifecycle!Step
      <4>3. QED
        BY <4>2 DEF Lifecycle!Next
    <3>6. QED
      BY <3>3, <3>4, <3>5
  <2>4. QED
    BY <2>1, <2>2, <2>3, OneRowAtATime
<1>3. QED
  BY <1>1, <1>2, TypeCorrect, OneFrame, StoriesAreTold, PathsAreTold, PTL
     DEF Spec, FollowsLifecycle, Lifecycle!Spec

----------------------------------------------------------------------------
(***************************************************************************)
(* Somebody drives a claimed job.  Before the frame is out it is the       *)
(* worker that claimed it, which does not let go of the job but by a       *)
(* revert; after that it is the printer, unless the frame is lost, and the *)
(* path of reports that TellingInv describes, unless the socket is.        *)
(***************************************************************************)
Calm == {"redis", "minio", "slow", "link"}
FrameIsKept(i) == sent[i] # 0 => frame[i][1] # "none"
ClaimIsHeld(i) ==
    sent[i] = 0 /\ row[i] \in {"dispatching", "printing"}
        => \E w \in Worker : pc[w] \in Unpublished /\ cur[w] = i
DrivenInv ==
    faults \subseteq Calm => (\A i \in Job : FrameIsKept(i)) /\ (\A i \in Job : ClaimIsHeld(i))

LEMMA FrameIsKeptStep ==
    ASSUME TypeOK, FrameInv, faults \subseteq Calm, NEW i \in Job, FrameIsKept(i), [Next]_vars
    PROVE  FrameIsKept(i)'
<1> USE DEF FrameIsKept
<1>1. CASE Breaks(i)
  <2>1. 1 \in 1..MaxFrames
    BY BoundsAssumption
  <2>2. QED
    BY <1>1, <2>1 DEF Breaks
<1>2. CASE (RowKept(i) /\ FramesKept(i)) \/ Writes(i) \/ Hears(i)
  BY <1>2 DEF Writes, Hears, FramesKept
<1>3. CASE Publishes(i)
  BY <1>3, FirstFrame
<1>4. ASSUME NEW k \in 1..MaxFrames, Works(i, k) PROVE FrameIsKept(i)'
  BY <1>4, OnlyFrame
<1>5. QED
  BY <1>1, <1>2, <1>3, <1>4, StepMovesJobs DEF JobMoves

\* A worker that has claimed nothing moves.
LEMMA OthersKeepClaims ==
    ASSUME NEW w \in Worker, OnlyMoves(w), pc[w] \notin Unpublished, NEW i \in Job, ClaimIsHeld(i),
           sent'[i] = sent[i], row'[i] = row[i] \/ row'[i] \notin {"dispatching", "printing"}
    PROVE  ClaimIsHeld(i)'
BY DEF OnlyMoves, ClaimIsHeld

LEMMA ClaimIsHeldStep ==
    ASSUME TypeOK, FrameInv, faults \subseteq Calm, NEW i \in Job, ClaimIsHeld(i), [Next]_vars
    PROVE  ClaimIsHeld(i)'
<1> USE ActorsAssumption
<1>0. /\ row \in [Job -> Status] /\ sent \in [Job -> 0..MaxFrames] /\ AttemptType
      /\ "db" \notin faults /\ "commitLost" \notin faults /\ "crash" \notin faults /\ "ackLost" \notin faults
  BY DEF TypeOK, RowType, PrinterType, Calm
<1>1. ASSUME UNCHANGED <<pc, cur, row, sent>> PROVE ClaimIsHeld(i)'
  BY <1>1 DEF ClaimIsHeld
<1>2. ASSUME NEW j \in Job, InsertJob(j) PROVE ClaimIsHeld(i)'
  <2>1. j \in Worker /\ OnlyMoves(j) /\ pc[j] \notin Unpublished
    BY <1>0, <1>2 DEF InsertJob, OnlyMoves, Worker, AttemptType, Unpublished
  <2>2. sent' = sent /\ (row'[i] = row[i] \/ row'[i] = "submitted")
    BY <1>0, <1>2 DEF InsertJob, printerVars
  <2>3. QED
    BY <2>1, <2>2, OthersKeepClaims
<1>3. ASSUME NEW j \in Job, AuditSubmitted(j) \/ Enqueue(j) PROVE ClaimIsHeld(i)'
  <2>1. j \in Worker /\ OnlyMoves(j) /\ pc[j] \notin Unpublished
    BY <1>0, <1>3 DEF AuditSubmitted, Enqueue, OnlyMoves, Worker, AttemptType, Unpublished
  <2>2. UNCHANGED <<sent, row>>
    BY <1>3 DEF AuditSubmitted, Enqueue, rowVars, printerVars
  <2>3. QED
    BY <2>1, <2>2, OthersKeepClaims
<1>4. ASSUME NEW n \in Node, Ack(n) \/ StartNode(n) \/ \E j \in Job : Handle(n, j) PROVE ClaimIsHeld(i)'
  <2>1. n \in Worker /\ OnlyMoves(n) /\ pc[n] \notin Unpublished
    BY <1>0, <1>4 DEF Ack, StartNode, Handle, OnlyMoves, Worker, AttemptType, Unpublished
  <2>2. UNCHANGED <<sent, row>>
    BY <1>4 DEF Ack, StartNode, Handle, rowVars, printerVars
  <2>3. QED
    BY <2>1, <2>2, OthersKeepClaims
<1>5. ASSUME NEW w \in Worker, CheckEligible(w) \/ LockJobForDispatch(w) \/ AuditDispatched(w)
      PROVE ClaimIsHeld(i)'
  <2>1. pc[w] \notin Unpublished /\ UNCHANGED <<sent, row>>
    BY <1>5 DEF CheckEligible, LockJobForDispatch, AuditDispatched, Unpublished, rowVars, printerVars
  <2>2. OnlyMoves(w)
    BY <1>0, <1>5, GotoEffect, ReturnEffect DEF CheckEligible, LockJobForDispatch, AuditDispatched,
       Reaches, Leaves
  <2>3. QED
    BY <2>1, <2>2, OthersKeepClaims
<1>6. ASSUME NEW w \in Worker, MarkJobDispatching(w) PROVE ClaimIsHeld(i)'
  <2>1. pc[w] = "mark" /\ row' = [row EXCEPT ![cur[w]] = "dispatching"] /\ Goto(w, "presign") /\ sent' = sent
    BY <1>0, <1>6 DEF MarkJobDispatching, printerVars
  <2>2. Reaches(w, "presign")
    BY <1>0, <2>1, GotoEffect
  <2>3. CASE cur[w] = i
    BY <2>2, <2>3 DEF Reaches, ClaimIsHeld, Unpublished
  <2>4. CASE cur[w] # i
    <3>1. row'[i] = row[i]
      BY <1>0, <2>1, <2>4
    <3>2. QED
      BY <2>1, <2>2, <3>1, OthersKeepClaims DEF Reaches, Unpublished
  <2>5. QED
    BY <2>3, <2>4
<1>7. ASSUME NEW w \in Worker, NEW label \in Unpublished, Reaches(w, label), UNCHANGED <<row, sent>>
      PROVE ClaimIsHeld(i)'
  BY <1>7 DEF Reaches, OnlyMoves, ClaimIsHeld
<1>8. ASSUME NEW w \in Worker, Presign(w) PROVE ClaimIsHeld(i)'
  <2>1. Reaches(w, "publish") \/ Reaches(w, "revertError")
    BY <1>0, <1>8, GotoEffect DEF Presign
  <2>2. UNCHANGED <<row, sent>>
    BY <1>8 DEF Presign, rowVars, printerVars
  <2>3. QED
    BY <1>7, <2>1, <2>2 DEF Unpublished
<1>9. ASSUME NEW w \in Worker, Publish(w) PROVE ClaimIsHeld(i)'
  <2>0. pc[w] = "publish" /\ cur[w] \in Job /\ UNCHANGED row
    BY <1>9 DEF Publish, FrameInv, HandsAreFull, AttemptPC, rowVars
  <2>1. CASE UNCHANGED sent /\ (Goto(w, "revertBlocked") \/ Goto(w, "revertError"))
    BY <1>0, <1>7, <2>0, <2>1, GotoEffect DEF Unpublished
  <2>2. CASE link[MailboxOf[cur[w]]] # "down" /\ Relay(cur[w]) /\ Goto(w, "audit")
    <3>2. sent' = [sent EXCEPT ![cur[w]] = @ + 1]
      BY <2>2 DEF Relay
    <3>3. Reaches(w, "audit")
      BY <1>0, <2>2, GotoEffect
    <3>4. CASE cur[w] = i
      <4>1. sent'[i] # 0
        BY <1>0, <3>2, <3>4
      <4>2. QED
        BY <4>1 DEF ClaimIsHeld
    <3>5. CASE cur[w] # i
      <4>1. sent'[i] = sent[i]
        BY <1>0, <3>2, <3>5
      <4>2. QED
        BY <2>0, <3>3, <3>5, <4>1 DEF Reaches, OnlyMoves, ClaimIsHeld
    <3>6. QED
      BY <3>4, <3>5
  <2>3. QED
    BY <1>0, <1>9, <2>1, <2>2 DEF Publish
<1>10. ASSUME NEW w \in Worker, RevertBlocked(w) \/ RevertError(w) PROVE ClaimIsHeld(i)'
  <2>1. row' = [row EXCEPT ![cur[w]] = "queued"] /\ sent' = sent
    BY <1>0, <1>10 DEF RevertBlocked, RevertError, RequeueJob, printerVars
  <2>2. OnlyMoves(w)
    BY <1>0, <1>10, ReturnEffect DEF RevertBlocked, RevertError, Leaves
  <2>3. CASE cur[w] = i
    <3>1. row'[i] = "queued"
      BY <1>0, <2>1, <2>3
    <3>2. QED
      BY <3>1 DEF ClaimIsHeld
  <2>4. CASE cur[w] # i
    <3>1. row'[i] = row[i]
      BY <1>0, <2>1, <2>4
    <3>2. QED
      BY <2>1, <2>2, <2>4, <3>1 DEF OnlyMoves, ClaimIsHeld
  <2>5. QED
    BY <2>3, <2>4
<1>11. ASSUME NEW j \in Job, OnStatus(j) PROVE ClaimIsHeld(i)'
  <2>1. UNCHANGED <<pc, cur, sent>> /\ up[j] # <<>>
    BY <1>11 DEF OnStatus, attemptVars
  <2>2. row'[i] = row[i] \/ i = j
    BY <1>0, <1>11 DEF OnStatus
  <2>3. sent[j] # 0
    BY <2>1 DEF FrameInv, FramesFollowClaims
  <2>4. QED
    BY <2>1, <2>2, <2>3 DEF ClaimIsHeld
<1>12. ASSUME NEW j \in Job, Age(j) \/ \E k \in 1..MaxFrames : HandleDispatch(j, k) PROVE ClaimIsHeld(i)'
  BY <1>1, <1>12 DEF Age, HandleDispatch, StartPrinting, FetchBlob, FinishPrinting, FailPrinting,
     rowVars, attemptVars, printerVars
<1>13. ASSUME NEW n \in Node, Available(n) \/ Sweep(n) \/ ReadGroup(n) \/ EndDrain(n) \/ AutoClaim(n) \/ EndReclaim(n)
       PROVE ClaimIsHeld(i)'
  BY <1>1, <1>13 DEF Available, Sweep, ReadGroup, EndDrain, AutoClaim, EndReclaim,
     rowVars, attemptVars, printerVars
<1>14. ASSUME NEW m \in Mailbox, Printer(m) PROVE ClaimIsHeld(i)'
  BY <1>1, <1>14 DEF Printer, Connect, ConnectDead, SeedState, StateFrame, ExpireState, BreakLink,
     NoticeBreak, ChannelOnly, rowVars, attemptVars, printerVars
<1>15. (\A j \in Job : ~CrashRequest(j)) /\ (\A n \in Node : ~CrashNode(n))
  BY <1>0 DEF CrashRequest, CrashNode
<1>16. CASE UNCHANGED vars
  BY <1>1, <1>16 DEF vars, rowVars, attemptVars, printerVars
<1>17. ASSUME NEW j \in Job, Cleans(j) PROVE ClaimIsHeld(i)'
  BY <1>1, <1>17, CleaningIsQuiet
<1>18. QED
  BY <1>2, <1>3, <1>4, <1>5, <1>6, <1>8, <1>9, <1>10, <1>11, <1>12, <1>13, <1>14, <1>15, <1>16, <1>17
     DEF Next, Attempt, Dispatcher, Handler, Cleans

\* The reverts of attemptDispatch leave no claimed job behind: as long as processes
\* and Postgres hold, whatever Redis and MinIO refuse, however late a dispatcher is
\* and whichever sockets break, its worker, its printer or a report on its way moves
\* it on, unless its own frame or report was lost with a socket.
THEOREM ClaimsAreDriven == Spec => []ClaimedIsDriven
<1>1. Init => DrivenInv
  BY DEF Init, DrivenInv, FrameIsKept, ClaimIsHeld
<1>2. TypeOK /\ OneFrameInv /\ DrivenInv /\ [Next]_vars => DrivenInv'
  <2> SUFFICES ASSUME TypeOK, OneFrameInv, DrivenInv, [Next]_vars, faults \subseteq Calm
               PROVE  (\A i \in Job : FrameIsKept(i)') /\ (\A i \in Job : ClaimIsHeld(i)')
    BY FaultsStay DEF DrivenInv
  <2>1. FrameInv
    BY DEF OneFrameInv, Calm
  <2>2. (\A i \in Job : FrameIsKept(i)) /\ (\A i \in Job : ClaimIsHeld(i))
    BY DEF DrivenInv
  <2>3. QED
    BY <2>1, <2>2, FrameIsKeptStep, ClaimIsHeldStep
<1>3. TypeOK /\ OneFrameInv /\ StoryInv /\ TellingInv /\ DrivenInv => ClaimedIsDriven
  <2> SUFFICES ASSUME TypeOK, OneFrameInv, StoryInv, TellingInv, DrivenInv, faults \subseteq Calm,
                      NEW j \in Job, row[j] \in {"dispatching", "printing"}
               PROVE  Driven(j) \/ Lost(j)
    BY DEF ClaimedIsDriven, Calm
  <2>1. FrameInv /\ Story(j) /\ Telling(j) /\ FrameIsKept(j) /\ ClaimIsHeld(j)
    BY DEF OneFrameInv, StoryInv, TellingInv, DrivenInv, Calm
  <2>2. frame[j][1] \in FrameStage /\ 1 \in 1..MaxFrames
    BY BoundsAssumption DEF TypeOK, PrinterType
  <2>3. CASE sent[j] = 0
    BY <2>1, <2>3 DEF ClaimIsHeld, Driven, Unpublished, Window
  <2>4. CASE sent[j] # 0 /\ frame[j][1] \in {"wire", "started", "fetched"}
    BY <2>2, <2>4 DEF Driven
  <2>5. CASE sent[j] # 0 /\ frame[j][1] \in {"printed", "failed"} /\ 1 \notin cut[j]
    <3>1. up[j] # <<>>
      BY <2>1, <2>5, ShortQueues DEF Telling
    <3>2. QED
      BY <3>1 DEF Driven
  <2>6. CASE frame[j][1] = "lost" \/ 1 \in cut[j]
    BY <2>2, <2>6 DEF Lost
  <2>7. QED
    BY <2>1, <2>2, <2>3, <2>4, <2>5, <2>6 DEF FrameIsKept, FrameStage
<1>4. QED
  BY <1>1, <1>2, <1>3, TypeCorrect, OneFrame, StoriesAreTold, PathsAreTold, PTL DEF Spec

----------------------------------------------------------------------------
(***************************************************************************)
(* An accepted job keeps its stream entry.  EntryInv says who may have a   *)
(* job in hand: its request before it has answered, or the one dispatcher  *)
(* whose fresh PEL entry it is.  So nobody reverts a claim behind the back *)
(* of a worker that takes the job for settled and acknowledges the entry.  *)
(***************************************************************************)
EntryFor(i) ==
    reply[i] \in {"queued", "dispatching"} /\ row[i] \in Claimable => entry[i] \in {"new", "pel"}
Busy == AttemptPC \cup {"ack"}

\* A job is in one worker's hands at most.
LEMMA OneHolder ==
    ASSUME EntryInv, NEW v \in Worker, NEW w \in Worker, pc[v] \in Busy, pc[w] \in Busy, cur[v] = cur[w]
    PROVE  v = w
<1> USE ActorsAssumption DEF EntryInv, Worker
<1>1. /\ v \in Job => cur[v] = v /\ pc[v] # "done"
      /\ w \in Job => cur[w] = w /\ pc[w] # "done"
      /\ cur[v] \in Job
  BY DEF HandsAreFull, Busy, AttemptPC
<1>2. /\ v \in Node => entry[cur[v]] = "pel" /\ owner[cur[v]] = v
      /\ w \in Node => entry[cur[w]] = "pel" /\ owner[cur[w]] = w
  BY <1>1 DEF HoldersOwnEntries
<1>3. QED
  BY <1>1, <1>2 DEF RequestComesFirst

\* Who has a job in hand has not its own request still to come.
LEMMA HeldIsNotIdle ==
    ASSUME EntryInv, NEW w \in Worker, pc[w] \in Busy
    PROVE  cur[w] \in Job /\ pc[cur[w]] # "idle"
BY ActorsAssumption DEF EntryInv, Worker, HandsAreFull, HoldersOwnEntries, RequestComesFirst, Busy, AttemptPC

\* A request does not start twice.
LEMMA IdleOnce == ASSUME TypeOK, [Next]_vars, NEW i \in Job, pc'[i] = "idle" PROVE pc[i] = "idle"
<1>0. pc \in [Worker -> RequestPC \cup DispatcherPC] /\ i \in Worker /\ Job \cap Node = {}
  BY ActorsAssumption DEF TypeOK, AttemptType, Worker
<1>1. ASSUME pc' = pc PROVE pc[i] = "idle"
  BY <1>1
<1>2. ASSUME NEW w, NEW label, pc' = [pc EXCEPT ![w] = label], label # "idle" PROVE pc[i] = "idle"
  BY <1>0, <1>2
<1>3. ASSUME NEW j \in Job, InsertJob(j) \/ AuditSubmitted(j) \/ Enqueue(j) \/ CrashRequest(j) PROVE pc[i] = "idle"
  BY <1>2, <1>3 DEF InsertJob, AuditSubmitted, Enqueue, CrashRequest
<1>4. ASSUME NEW j \in Job, Age(j) \/ Handler(j) \/ \E k \in 1..MaxFrames : HandleDispatch(j, k)
      PROVE pc[i] = "idle"
  BY <1>1, <1>4, CleaningIsQuiet DEF Age, OnStatus, HandleDispatch, StartPrinting, FetchBlob,
     FinishPrinting, FailPrinting, attemptVars, Handler, Cleans
<1>5. ASSUME NEW w \in Worker, NEW label, Goto(w, label), label # "idle" PROVE pc[i] = "idle"
  BY <1>2, <1>5 DEF Goto
<1>6. ASSUME NEW w \in Worker, NEW outcome, Return(w, outcome) PROVE pc[i] = "idle"
  BY <1>2, <1>6 DEF Return, TryDispatch, Retry
<1>7. ASSUME NEW w \in Worker, Attempt(w) PROVE pc[i] = "idle"
  BY <1>5, <1>6, <1>7 DEF Attempt, CheckEligible, LockJobForDispatch, MarkJobDispatching, Presign,
     Publish, RevertBlocked, RevertError, AuditDispatched
<1>8. ASSUME NEW n \in Node, CrashNode(n) \/ StartNode(n) \/ Ack(n) \/ \E j \in Job : Handle(n, j)
      PROVE pc[i] = "idle"
  BY <1>2, <1>8 DEF CrashNode, StartNode, Ack, Handle
<1>9. ASSUME NEW n \in Node, Available(n) \/ Sweep(n) \/ ReadGroup(n) \/ EndDrain(n) \/ AutoClaim(n) \/ EndReclaim(n)
      PROVE pc[i] = "idle"
  BY <1>1, <1>9 DEF Available, Sweep, ReadGroup, EndDrain, AutoClaim, EndReclaim, attemptVars
<1>10. ASSUME NEW m \in Mailbox, Printer(m) PROVE pc[i] = "idle"
  BY <1>1, <1>10 DEF Printer, Connect, ConnectDead, SeedState, StateFrame, ExpireState, BreakLink,
     NoticeBreak, ChannelOnly, attemptVars
<1>11. QED
  BY <1>1, <1>3, <1>4, <1>7, <1>8, <1>9, <1>10 DEF Next, Dispatcher, vars, attemptVars

LEMMA SilenceStep == ASSUME TypeOK, EntryInv, [Next]_vars PROVE IdleIsSilent'
<1> SUFFICES ASSUME NEW i \in Job, pc'[i] = "idle"
             PROVE  up'[i] = <<>> /\ \A k \in 1..MaxFrames : frame'[i][k] = "none"
  BY DEF IdleIsSilent
<1>1. pc[i] = "idle"
  BY IdleOnce
<1>2. up[i] = <<>> /\ \A k \in 1..MaxFrames : frame[i][k] = "none"
  BY <1>1 DEF EntryInv, IdleIsSilent
<1>3. ~Publishes(i)
  BY <1>1, HeldIsNotIdle DEF Publishes, InHand, Busy, AttemptPC
<1>4. ~Hears(i) /\ \A k \in 1..MaxFrames : ~Works(i, k)
  BY <1>2 DEF Hears, Works
<1>5. QED
  BY <1>2, <1>3, <1>4, StepMovesJobs DEF JobMoves, FramesKept, Writes, Breaks

\* All of the invariant but IdleIsSilent.
EntryCore ==
    /\ HandsAreFull /\ HandsAreEmpty /\ HoldersOwnEntries /\ NewIsYoung /\ RequestComesFirst
    /\ ClaimIsStable /\ \A i \in Job : EntryFor(i)

\* A step of attemptDispatch touches its own job's row and no entry; it goes on, or
\* returns, as claimed or settled only where the row is not claimable.
LEMMA AttemptKeepsEntry ==
    ASSUME TypeOK, EntryInv, EntryCore, NEW w \in Worker, pc[w] \in AttemptPC,
           UNCHANGED <<entry, owner, aged, batch>>,
           \A i \in Job : i # cur[w] => row'[i] = row[i],
           \/ \E label \in AttemptPC :
                /\ Goto(w, label)
                /\ label \in {"presign", "publish", "audit"} => row'[cur[w]] \notin Claimable
           \/ \E outcome \in {"blocked", "settled", "error", "dispatched"} :
                /\ Return(w, outcome)
                /\ outcome \in {"settled", "dispatched"} => row'[cur[w]] \notin Claimable
    PROVE  EntryCore'
<1> DEFINE j == cur[w]
<1> USE ActorsAssumption DEF EntryCore
<1>0. j \in Job /\ pc[j] # "idle" /\ AttemptType /\ pc[w] \in Busy /\ (w \in Job => j = w)
  BY HeldIsNotIdle DEF TypeOK, Busy, HandsAreFull
<1>1. \A v \in Worker : v # w /\ pc[v] \in Busy => cur[v] # j
  BY <1>0, OneHolder
<1>2. OnlyMoves(w) /\ \A i \in Job : i # w => reply'[i] = reply[i]
  <2>1. OnlyMoves(w)
    BY <1>0, GotoEffect, ReturnEffect DEF Reaches, Leaves
  <2>2. reply' = reply \/ \E x : reply' = [reply EXCEPT ![w] = x]
    BY DEF Goto, Return, TryDispatch, Retry
  <2>3. QED
    BY <1>0, <2>1, <2>2 DEF AttemptType
<1>3. w \in Job =>
        /\ cur'[w] = w
        /\ \/ pc'[w] \in AttemptPC \cup {"enqueue"} /\ reply'[w] = reply[w]
           \/ pc'[w] = "done" /\ reply'[w] \in {"error", "dispatching"}
              /\ (reply'[w] = "dispatching" => row'[w] \notin Claimable)
        /\ pc'[w] \in {"presign", "publish", "audit"} => row'[w] \notin Claimable
  BY <1>0 DEF AttemptType, Goto, Return, TryDispatch, Retry, Worker, AttemptPC
<1>4. w \in Node =>
        /\ cur'[w] = j \/ (cur'[w] = None /\ pc'[w] = "loop")
        /\ pc'[w] \in AttemptPC \cup {"loop", "ack"}
        /\ pc'[w] = "loop" => cur'[w] = None
        /\ pc'[w] \in {"presign", "publish", "audit", "ack"} => row'[j] \notin Claimable
  BY <1>0 DEF AttemptType, Goto, Return, TryDispatch, Retry, Worker, AttemptPC
<1>5. HandsAreFull'
  <2>1. \A v \in Worker : pc'[v] \in AttemptPC \cup {"ack"} => cur'[v] \in Job
    BY <1>0, <1>2, <1>3, <1>4 DEF OnlyMoves, HandsAreFull, Worker, AttemptPC
  <2>2. \A i \in Job : cur'[i] = i /\ pc'[i] \in RequestPC
    BY <1>2, <1>3 DEF OnlyMoves, HandsAreFull, Worker, RequestPC
  <2>3. \A n \in Node : pc'[n] \in DispatcherPC
    BY <1>2, <1>4 DEF OnlyMoves, HandsAreFull, Worker, DispatcherPC
  <2>4. \A i \in Job : pc'[i] = "idle" => row'[i] = "none"
    BY <1>0, <1>2, <1>3 DEF OnlyMoves, HandsAreFull, Worker, AttemptPC
  <2>5. QED
    BY <2>1, <2>2, <2>3, <2>4 DEF HandsAreFull
<1>6. HandsAreEmpty'
  BY <1>2, <1>4 DEF HandsAreEmpty, OnlyMoves, Worker, AttemptPC
<1>7. HoldersOwnEntries'
  BY <1>0, <1>2, <1>4 DEF HoldersOwnEntries, OnlyMoves, Worker
<1>8. NewIsYoung' /\ RequestComesFirst'
  BY <1>0, <1>2, <1>3 DEF NewIsYoung, RequestComesFirst, OnlyMoves, Worker, AttemptPC
<1>9. ClaimIsStable'
  <2>1. \A v \in Worker : v # w /\ pc'[v] \in Busy => pc[v] \in Busy /\ cur'[v] = cur[v] /\ row'[cur[v]] = row[cur[v]]
    BY <1>1, <1>2 DEF OnlyMoves, HandsAreFull, Busy
  <2>2. \A v \in Worker : v # w /\ pc'[v] \in {"presign", "publish", "audit"} => row'[cur'[v]] \notin Claimable
    BY <1>2, <2>1 DEF ClaimIsStable, OnlyMoves, Busy, AttemptPC
  <2>3. \A n \in Node : n # w /\ pc'[n] = "ack" => row'[cur'[n]] \notin Claimable
    BY <1>2, <2>1 DEF ClaimIsStable, OnlyMoves, Busy, Worker
  <2>4. QED
    BY <1>0, <1>3, <1>4, <2>2, <2>3 DEF ClaimIsStable, Worker
<1>10. ASSUME NEW i \in Job PROVE EntryFor(i)'
  <2>1. CASE i # j
    BY <1>0, <1>2, <2>1 DEF EntryFor
  <2>2. CASE i = j /\ w \in Node
    BY <1>0, <2>2 DEF EntryFor, HoldersOwnEntries
  <2>3. CASE i = j /\ w \in Job
    <3>1. i = w /\ reply[i] = "none"
      BY <1>0, <2>3 DEF RequestComesFirst, AttemptPC
    <3>2. QED
      BY <1>3, <2>3, <3>1 DEF EntryFor
  <2>4. QED
    BY <2>1, <2>2, <2>3 DEF Worker
<1>11. QED
  BY <1>5, <1>6, <1>7, <1>8, <1>9, <1>10

\* So every step of attemptDispatch keeps the invariant.
LEMMA AttemptStep ==
    ASSUME TypeOK, EntryInv, EntryCore, NEW w \in Worker, Attempt(w)
    PROVE  EntryCore'
<1> DEFINE j == cur[w]
<1>0. row \in [Job -> Status] /\ pc[w] \in AttemptPC
  BY DEF TypeOK, RowType, Attempt, CheckEligible, LockJobForDispatch, MarkJobDispatching, Presign, Publish,
     RevertBlocked, RevertError, AuditDispatched, AttemptPC
<1>1. j \in Job
  BY <1>0, HeldIsNotIdle DEF Busy
<1>2. UNCHANGED <<entry, owner, aged, batch>>
  BY DEF Attempt, CheckEligible, LockJobForDispatch, MarkJobDispatching, Presign, Publish,
     RevertBlocked, RevertError, AuditDispatched, streamVars, loopVars
<1>3. ASSUME NEW label \in AttemptPC, Goto(w, label), \A i \in Job : i # j => row'[i] = row[i],
             label \in {"presign", "publish", "audit"} => row'[j] \notin Claimable
      PROVE  EntryCore'
  BY <1>0, <1>2, <1>3, AttemptKeepsEntry
<1>4. ASSUME NEW outcome \in {"blocked", "settled", "error", "dispatched"}, Return(w, outcome),
             \A i \in Job : i # j => row'[i] = row[i],
             outcome \in {"settled", "dispatched"} => row'[j] \notin Claimable
      PROVE  EntryCore'
  BY <1>0, <1>2, <1>4, AttemptKeepsEntry
<1>5. pc[w] \in {"presign", "publish", "audit"} => row[j] \notin Claimable
  BY DEF EntryCore, ClaimIsStable
<1>6. CASE CheckEligible(w)
  <2>1. row' = row /\ (Goto(w, "claim") \/ Return(w, "blocked"))
    BY <1>6 DEF CheckEligible, rowVars
  <2>2. QED
    BY <1>3, <1>4, <2>1 DEF AttemptPC
<1>7. CASE LockJobForDispatch(w)
  <2>1. /\ row' = row
        /\ \/ Goto(w, "mark") \/ Return(w, "blocked") \/ Return(w, "error")
           \/ row[j] \notin Claimable /\ Return(w, "settled")
    BY <1>7 DEF LockJobForDispatch
  <2>2. QED
    BY <1>3, <1>4, <2>1 DEF AttemptPC
<1>8. CASE MarkJobDispatching(w)
  <2>1. \/ row' = [row EXCEPT ![j] = "dispatching"] /\ (Goto(w, "presign") \/ Return(w, "error"))
        \/ row' = row /\ Return(w, "error")
    BY <1>8 DEF MarkJobDispatching
  <2>2. (\A i \in Job : i # j => row'[i] = row[i]) /\ (Goto(w, "presign") => row'[j] \notin Claimable \/ Return(w, "error"))
    BY <1>0, <1>1, <2>1 DEF Claimable
  <2>3. QED
    BY <1>3, <1>4, <2>1, <2>2 DEF AttemptPC
<1>9. CASE Presign(w)
  <2>1. row' = row /\ pc[w] = "presign" /\ (Goto(w, "publish") \/ Goto(w, "revertError"))
    BY <1>9 DEF Presign, rowVars
  <2>2. QED
    BY <1>3, <1>5, <2>1 DEF AttemptPC
<1>10. CASE Publish(w)
  <2>1. row' = row /\ pc[w] = "publish" /\ (Goto(w, "audit") \/ Goto(w, "revertBlocked") \/ Goto(w, "revertError"))
    BY <1>10 DEF Publish, rowVars
  <2>2. QED
    BY <1>3, <1>5, <2>1 DEF AttemptPC
<1>11. CASE RevertBlocked(w) \/ RevertError(w)
  <2>1. (row' = [row EXCEPT ![j] = "queued"] \/ row' = row) /\ (Return(w, "blocked") \/ Return(w, "error"))
    BY <1>11 DEF RevertBlocked, RevertError, RequeueJob
  <2>2. \A i \in Job : i # j => row'[i] = row[i]
    BY <1>0, <2>1
  <2>3. QED
    BY <1>4, <2>1, <2>2
<1>12. CASE AuditDispatched(w)
  <2>1. row' = row /\ pc[w] = "audit" /\ Return(w, "dispatched")
    BY <1>12 DEF AuditDispatched
  <2>2. QED
    BY <1>4, <1>5, <2>1
<1>13. QED
  BY <1>6, <1>7, <1>8, <1>9, <1>10, <1>11, <1>12 DEF Attempt

\* The request up to TryDispatch and after it.
LEMMA RequestStep ==
    ASSUME TypeOK, EntryInv, EntryCore, NEW j \in Job,
           InsertJob(j) \/ AuditSubmitted(j) \/ Enqueue(j) \/ CrashRequest(j)
    PROVE  EntryCore'
<1> USE ActorsAssumption DEF EntryCore
<1>0. /\ pc \in [Worker -> RequestPC \cup DispatcherPC] /\ row \in [Job -> Status] /\ j \in Worker /\ j \notin Node
      /\ reply \in [Job -> {"none", "queued", "dispatching", "error"}]
      /\ entry \in [Job -> {"none", "new", "pel", "acked"}]
  BY DEF TypeOK, AttemptType, RowType, StreamType, Worker
<1>1. /\ UNCHANGED <<owner, aged, batch, cur>>
      /\ \A i \in Job : i # j => reply'[i] = reply[i] /\ row'[i] = row[i] /\ entry'[i] = entry[i]
      /\ \A v \in Worker : v # j => pc'[v] = pc[v]
  BY <1>0 DEF InsertJob, AuditSubmitted, Enqueue, CrashRequest, streamVars, loopVars, rowVars
<1>2. /\ pc[j] \notin {"done"} /\ entry[j] = "none" /\ reply[j] = "none" /\ cur[j] = j
  BY DEF InsertJob, AuditSubmitted, Enqueue, CrashRequest, RequestComesFirst, HandsAreFull
<1>3. \A n \in Node : cur[n] # j /\ j \notin batch[n]
  BY <1>2 DEF HoldersOwnEntries
<1>4. /\ pc'[j] \in {"inserted", "eligible", "done"}
      /\ entry'[j] \in {"none", "new"} /\ (entry'[j] = "new" => pc'[j] = "done")
      /\ reply'[j] # "none" => pc'[j] = "done"
      /\ reply'[j] = "queued" => entry'[j] = "new"
      /\ reply'[j] # "dispatching"
  BY <1>0, <1>2 DEF InsertJob, AuditSubmitted, Enqueue, CrashRequest, streamVars
<1>5. HandsAreFull'
  BY <1>0, <1>1, <1>2, <1>4 DEF HandsAreFull, RequestPC, AttemptPC, Worker
<1>6. HandsAreEmpty'
  BY <1>0, <1>1 DEF HandsAreEmpty, Worker
<1>7. HoldersOwnEntries'
  BY <1>1, <1>3 DEF HoldersOwnEntries
<1>8. NewIsYoung' /\ RequestComesFirst'
  <2>1. NewIsYoung'
    BY <1>1, <1>2 DEF NewIsYoung
  <2>2. RequestComesFirst'
    BY <1>1, <1>4 DEF RequestComesFirst, Worker
  <2>3. QED
    BY <2>1, <2>2
<1>9. ClaimIsStable'
  <2>1. \A v \in Worker : v # j /\ pc[v] \in Busy => cur[v] \in Job \ {j}
    BY <1>3 DEF HandsAreFull, Busy, Worker
  <2>2. QED
    BY <1>0, <1>1, <1>4, <2>1 DEF ClaimIsStable, Busy, AttemptPC, Worker
<1>10. \A i \in Job : EntryFor(i)'
  BY <1>1, <1>4 DEF EntryFor
<1>11. QED
  BY <1>5, <1>6, <1>7, <1>8, <1>9, <1>10

\* The dispatcher's loop, its crash and its restart, and the growing old of entries.
LEMMA LoopStep ==
    ASSUME TypeOK, EntryInv, EntryCore, "slow" \notin faults,
           \/ \E n \in Node : Dispatcher(n) \/ CrashNode(n) \/ StartNode(n)
           \/ \E j \in Job : Age(j)
    PROVE  EntryCore'
<1> USE ActorsAssumption DEF EntryCore
<1>0. /\ AttemptType /\ entry \in [Job -> {"none", "new", "pel", "acked"}]
      /\ owner \in [Job -> Node \cup {None}] /\ aged \in [Job -> BOOLEAN] /\ batch \in [Node -> SUBSET Job]
  BY DEF TypeOK, StreamType, LoopType
<1>1. row' = row /\ reply' = reply
  BY DEF Dispatcher, Available, Sweep, ReadGroup, EndDrain, AutoClaim, EndReclaim, Handle, Ack,
     CrashNode, StartNode, Age, rowVars, attemptVars
<1>2. ASSUME UNCHANGED <<pc, cur, entry, owner, aged, batch>> PROVE EntryCore'
  BY <1>1, <1>2 DEF HandsAreFull, HandsAreEmpty, HoldersOwnEntries, NewIsYoung, RequestComesFirst,
     ClaimIsStable, EntryFor
<1>3. ASSUME NEW n \in Node, Available(n) \/ Sweep(n) \/ EndDrain(n) \/ EndReclaim(n) PROVE EntryCore'
  BY <1>2, <1>3 DEF Available, Sweep, EndDrain, EndReclaim, streamVars, attemptVars
<1>4. ASSUME UNCHANGED <<pc, cur>> PROVE HandsAreFull' /\ HandsAreEmpty' /\ ClaimIsStable'
  BY <1>1, <1>4 DEF HandsAreFull, HandsAreEmpty, ClaimIsStable
<1>5. ASSUME NEW n \in Node, ReadGroup(n) PROVE EntryCore'
  <2>1. PICK B \in SUBSET NewEntries :
          /\ batch' = [batch EXCEPT ![n] = B]
          /\ entry' = [j \in Job |-> IF j \in B THEN "pel" ELSE entry[j]]
          /\ owner' = [j \in Job |-> IF j \in B THEN n ELSE owner[j]]
    BY <1>5 DEF ReadGroup, Batches
  <2>2. UNCHANGED <<pc, cur, aged>> /\ pc[n] = "loop" /\ cur[n] = None
    BY <1>5 DEF ReadGroup, attemptVars, HandsAreEmpty
  <2>3. \A j \in B : j \in Job /\ entry[j] = "new" /\ ~aged[j] /\ pc[j] = "done"
    BY DEF NewEntries, NewIsYoung, RequestComesFirst
  <2>4. HoldersOwnEntries'
    BY <1>0, <2>1, <2>2, <2>3 DEF HoldersOwnEntries, Worker
  <2>5. NewIsYoung' /\ RequestComesFirst'
    BY <1>1, <2>1, <2>2, <2>3 DEF NewIsYoung, RequestComesFirst
  <2>6. \A i \in Job : EntryFor(i)'
    BY <1>1, <2>1 DEF EntryFor
  <2>7. QED
    BY <1>4, <2>2, <2>4, <2>5, <2>6
<1>6. ASSUME NEW n \in Node, AutoClaim(n) PROVE EntryCore'
  <2>1. PICK B \in SUBSET AgedEntries :
          /\ batch' = [batch EXCEPT ![n] = B]
          /\ owner' = [j \in Job |-> IF j \in B THEN n ELSE owner[j]]
          /\ aged'  = [j \in Job |-> aged[j] /\ j \notin B]
    BY <1>6 DEF AutoClaim, Batches
  <2>2. UNCHANGED <<pc, cur, entry>> /\ pc[n] = "loop" /\ cur[n] = None
    BY <1>6 DEF AutoClaim, attemptVars, HandsAreEmpty
  <2>3. \A j \in B : j \in Job /\ entry[j] = "pel" /\ aged[j]
    BY DEF AgedEntries
  <2>4. HoldersOwnEntries'
    <3>1. \A j \in Job : /\ j \in B => ~aged'[j] /\ owner'[j] = n
                         /\ j \notin B => (aged'[j] <=> aged[j]) /\ owner'[j] = owner[j]
      BY <2>1
    <3>2. batch'[n] = B /\ \A l \in Node : l # n => batch'[l] = batch[l]
      BY <1>0, <2>1
    <3>3. ASSUME NEW l \in Node, NEW j \in Job, j \in batch'[l]
          PROVE  entry'[j] = "pel" /\ owner'[j] = l /\ ~aged'[j] /\ cur'[l] # j
      <4>1. CASE l = n
        BY <2>2, <2>3, <3>1, <3>2, <3>3, <4>1 DEF Worker
      <4>2. CASE l # n
        BY <2>2, <2>3, <3>1, <3>2, <3>3, <4>2 DEF HoldersOwnEntries
      <4>3. QED
        BY <4>1, <4>2
    <3>4. ASSUME NEW l \in Node, NEW j \in Job, cur'[l] = j
          PROVE  entry'[j] = "pel" /\ owner'[j] = l /\ ~aged'[j]
      BY <2>2, <2>3, <3>1, <3>4 DEF HoldersOwnEntries
    <3>5. QED
      BY <3>3, <3>4 DEF HoldersOwnEntries
  <2>5. NewIsYoung' /\ RequestComesFirst'
    BY <1>1, <2>1, <2>2 DEF NewIsYoung, RequestComesFirst
  <2>6. \A i \in Job : EntryFor(i)'
    BY <1>1, <2>2 DEF EntryFor
  <2>7. QED
    BY <1>4, <2>2, <2>4, <2>5, <2>6
<1>7. ASSUME NEW n \in Node, NEW j \in Job, Handle(n, j) PROVE EntryCore'
  <2>1. /\ pc[n] = "loop" /\ j \in batch[n] /\ batch' = [batch EXCEPT ![n] = @ \ {j}]
        /\ cur' = [cur EXCEPT ![n] = j] /\ pc' = [pc EXCEPT ![n] = "eligible"]
        /\ UNCHANGED <<entry, owner, aged>>
    BY <1>7 DEF Handle, streamVars
  <2>2. n \in Worker /\ n \notin Job /\ (\A v \in Worker : v # n => pc'[v] = pc[v] /\ cur'[v] = cur[v])
        /\ pc'[n] = "eligible" /\ cur'[n] = j
    BY <1>0, <2>1 DEF AttemptType, Worker
  <2>3. HandsAreFull' /\ HandsAreEmpty'
    BY <1>1, <2>2 DEF HandsAreFull, HandsAreEmpty, DispatcherPC, AttemptPC, Worker
  <2>4. HoldersOwnEntries'
    BY <1>0, <2>1, <2>2 DEF HoldersOwnEntries, Worker
  <2>5. NewIsYoung' /\ RequestComesFirst' /\ ClaimIsStable'
    BY <1>1, <2>1, <2>2 DEF NewIsYoung, RequestComesFirst, ClaimIsStable, Worker
  <2>6. \A i \in Job : EntryFor(i)'
    BY <1>1, <2>1 DEF EntryFor
  <2>7. QED
    BY <2>3, <2>4, <2>5, <2>6
<1>8. ASSUME NEW n \in Node, Ack(n) PROVE EntryCore'
  <2>1. /\ pc[n] = "ack"
        /\ entry' = [entry EXCEPT ![cur[n]] = "acked"] \/ entry' = entry
        /\ UNCHANGED <<owner, aged, batch>>
    BY <1>8 DEF Ack, loopVars
  <2>2. n \in Worker /\ n \notin Job /\ (\A v \in Worker : v # n => pc'[v] = pc[v] /\ cur'[v] = cur[v])
        /\ pc[n] = "ack" /\ pc'[n] = "loop" /\ cur'[n] = None
    BY <1>0, <1>8 DEF Ack, AttemptType, Worker
  <2>3. cur[n] \in Job /\ entry[cur[n]] = "pel" /\ owner[cur[n]] = n /\ row[cur[n]] \notin Claimable
    BY <2>2 DEF HandsAreFull, HoldersOwnEntries, ClaimIsStable
  <2>4. \A i \in Job : entry'[i] = entry[i] \/ (i = cur[n] /\ entry'[i] = "acked")
    BY <1>0, <1>8, <2>3 DEF Ack
  <2>5. HandsAreFull' /\ HandsAreEmpty'
    BY <1>1, <2>2 DEF HandsAreFull, HandsAreEmpty, DispatcherPC, AttemptPC, Worker
  <2>6. HoldersOwnEntries'
    <3>1. UNCHANGED <<owner, aged, batch>>
      BY <1>8 DEF Ack, loopVars
    <3>2. QED
      BY <1>0, <2>2, <2>3, <2>4, <3>1 DEF HoldersOwnEntries, Worker
  <2>7. NewIsYoung' /\ RequestComesFirst' /\ ClaimIsStable'
    <3>1. UNCHANGED aged /\ pc[cur[n]] = "done"
      BY <1>8, <2>3 DEF Ack, RequestComesFirst
    <3>2. QED
      BY <1>1, <2>2, <2>4, <3>1 DEF NewIsYoung, RequestComesFirst, ClaimIsStable, Worker
  <2>8. \A i \in Job : EntryFor(i)'
    BY <1>1, <2>3, <2>4 DEF EntryFor
  <2>9. QED
    BY <2>5, <2>6, <2>7, <2>8
<1>9. ASSUME NEW n \in Node, CrashNode(n) \/ StartNode(n) PROVE EntryCore'
  <2>1. /\ UNCHANGED <<entry, owner, aged>> /\ (batch' = batch \/ batch' = [batch EXCEPT ![n] = {}])
        /\ pc'[n] \in {"down", "loop"} /\ cur'[n] = None
        /\ n \in Worker /\ n \notin Job /\ (\A v \in Worker : v # n => pc'[v] = pc[v] /\ cur'[v] = cur[v])
    BY <1>0, <1>9 DEF CrashNode, StartNode, HandsAreEmpty, AttemptType, Worker, streamVars
  <2>2. HandsAreFull' /\ HandsAreEmpty'
    BY <1>1, <2>1 DEF HandsAreFull, HandsAreEmpty, DispatcherPC, AttemptPC, Worker
  <2>3. HoldersOwnEntries'
    BY <1>0, <2>1 DEF HoldersOwnEntries, Worker
  <2>4. NewIsYoung' /\ RequestComesFirst' /\ ClaimIsStable'
    BY <1>1, <2>1 DEF NewIsYoung, RequestComesFirst, ClaimIsStable, Worker
  <2>5. \A i \in Job : EntryFor(i)'
    BY <1>1, <2>1 DEF EntryFor
  <2>6. QED
    BY <2>2, <2>3, <2>4, <2>5
<1>10. ASSUME NEW j \in Job, Age(j) PROVE EntryCore'
  <2>1. /\ ~Held(j) /\ entry[j] = "pel" /\ UNCHANGED <<pc, cur, entry, owner, batch>>
        /\ aged' = [aged EXCEPT ![j] = TRUE]
    BY <1>10 DEF Age, attemptVars, loopVars
  <2>2. HoldersOwnEntries'
    BY <1>0, <2>1 DEF HoldersOwnEntries, Held
  <2>3. NewIsYoung' /\ RequestComesFirst'
    BY <1>0, <1>1, <2>1 DEF NewIsYoung, RequestComesFirst
  <2>4. \A i \in Job : EntryFor(i)'
    BY <1>1, <2>1 DEF EntryFor
  <2>5. QED
    BY <1>4, <2>1, <2>2, <2>3, <2>4
<1>11. QED
  BY <1>3, <1>5, <1>6, <1>7, <1>8, <1>9, <1>10 DEF Dispatcher

\* onStatus writes a status that is not claimable, of a job that exists.
LEMMA StatusStep ==
    ASSUME TypeOK, EntryInv, EntryCore, NEW j \in Job, OnStatus(j)
    PROVE  EntryCore'
<1>1. UNCHANGED <<pc, cur, reply, entry, owner, aged, batch>> /\ up[j] # <<>>
  BY DEF OnStatus, attemptVars, streamVars, loopVars
<1>2. up[j] \in Seq({"printing", "delivered", "failed"}) /\ row \in [Job -> Status]
  BY DEF TypeOK, PrinterType, RowType
<1>3. Head(up[j]) \in {"printing", "delivered", "failed"}
  BY <1>1, <1>2
<1>4. /\ \A i \in Job : i # j => row'[i] = row[i]
      /\ row'[j] = row[j] \/ row'[j] \notin Claimable
  BY <1>2, <1>3 DEF OnStatus, Claimable
<1>5. pc[j] # "idle"
  BY <1>1 DEF EntryInv, IdleIsSilent
<1> USE DEF EntryCore
<1>6. HandsAreFull'
  BY <1>1, <1>4, <1>5 DEF HandsAreFull
<1>7. ClaimIsStable'
  <2>1. \A w \in Worker : pc[w] \in Busy => cur[w] \in Job
    BY DEF HandsAreFull, Busy
  <2>2. QED
    BY <1>1, <1>4, <2>1 DEF ClaimIsStable, Busy, AttemptPC, Worker
<1>8. HandsAreEmpty' /\ HoldersOwnEntries' /\ NewIsYoung' /\ RequestComesFirst'
  BY <1>1 DEF HandsAreEmpty, HoldersOwnEntries, NewIsYoung, RequestComesFirst
<1>9. \A i \in Job : EntryFor(i)'
  BY <1>1, <1>4 DEF EntryFor
<1>10. QED
  BY <1>6, <1>7, <1>8, <1>9

\* Every step keeps the entries of accepted jobs.
LEMMA EntryStep ==
    ASSUME TypeOK, EntryInv, EntryCore, "slow" \notin faults, [Next]_vars
    PROVE  EntryCore'
<1>1. ASSUME UNCHANGED <<row, pc, cur, reply, entry, owner, aged, batch>> PROVE EntryCore'
  BY <1>1 DEF EntryCore, HandsAreFull, HandsAreEmpty, HoldersOwnEntries, NewIsYoung, RequestComesFirst,
     ClaimIsStable, EntryFor
<1>2. ASSUME NEW j \in Job, NEW k \in 1..MaxFrames, HandleDispatch(j, k) PROVE EntryCore'
  BY <1>1, <1>2 DEF HandleDispatch, StartPrinting, FetchBlob, FinishPrinting, FailPrinting,
     rowVars, streamVars, attemptVars, loopVars
<1>3. ASSUME NEW m \in Mailbox, Printer(m) PROVE EntryCore'
  BY <1>1, <1>3 DEF Printer, Connect, ConnectDead, SeedState, StateFrame, ExpireState, BreakLink,
     NoticeBreak, ChannelOnly, rowVars, streamVars, attemptVars, loopVars
<1>4. CASE UNCHANGED vars
  BY <1>1, <1>4 DEF vars, rowVars, streamVars, attemptVars, loopVars
<1>5. ASSUME NEW j \in Job, Cleans(j) PROVE EntryCore'
  BY <1>1, <1>5, CleaningIsQuiet
<1>6. QED
  BY <1>2, <1>3, <1>4, <1>5, AttemptStep, RequestStep, LoopStep, StatusStep DEF Next, Handler, Cleans

\* An accepted job that is still to be dispatched has a stream entry that some
\* dispatcher will read or reclaim, as long as a live node handles a batch within
\* claimMinIdle, whatever fails and whoever crashes (TryDispatch, Retry, handle).
THEOREM AcceptedHasEntry == Spec => []AcceptedIsNotOrphaned
<1>1. Init => NotOrphanedInv
  BY ActorsAssumption
     DEF Init, NotOrphanedInv, EntryInv, HandsAreFull, HandsAreEmpty, HoldersOwnEntries, NewIsYoung,
         RequestComesFirst, ClaimIsStable, IdleIsSilent, AcceptedIsNotOrphaned, Worker, AttemptPC,
         RequestPC, DispatcherPC
<1>2. TypeOK /\ NotOrphanedInv /\ [Next]_vars => NotOrphanedInv'
  <2> SUFFICES ASSUME TypeOK, NotOrphanedInv, [Next]_vars, "slow" \notin faults
               PROVE  EntryInv' /\ AcceptedIsNotOrphaned'
    BY FaultsStay DEF NotOrphanedInv
  <2>1. EntryInv /\ EntryCore
    BY DEF NotOrphanedInv, AcceptedIsNotOrphaned, EntryInv, EntryCore, EntryFor
  <2>2. EntryCore' /\ IdleIsSilent'
    BY <2>1, EntryStep, SilenceStep
  <2>3. QED
    BY <2>2 DEF EntryInv, EntryCore, EntryFor, AcceptedIsNotOrphaned
<1>3. NotOrphanedInv => AcceptedIsNotOrphaned
  BY DEF NotOrphanedInv, AcceptedIsNotOrphaned
<1>4. QED
  BY <1>1, <1>2, <1>3, TypeCorrect, PTL DEF Spec
=============================================================================
