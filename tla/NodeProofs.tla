----------------------------- MODULE NodeProofs -----------------------------
(***************************************************************************)
(* Proofs about the life of a cloud node, from its place in the consumer   *)
(* group to its exit.                                                      *)
(*                                                                         *)
(* Shutdown, for any requests, streams and printers: every variable keeps  *)
(* its type, a shutdown within its deadline cuts nothing off, and the      *)
(* delay of a printer that dials again is the doubling, capped.            *)
(*                                                                         *)
(* ConsumerGroup, for any nodes, names and entries: the types, that no     *)
(* entry precedes the group, and that deleting consumers destroys no work  *)
(* but what a revived consumer reads while it is being deleted.            *)
(***************************************************************************)
EXTENDS Shutdown, ConsumerGroup, TLAPS

\* What comes from outside: requests, streams and printers; the node stays as it is.
Traffic ==
    \/ \E r \in Request : Arrive(r) \/ Serve(r)
    \/ \E s \in Stream : OpenStream(s) \/ CloseStream(s) \/ DrainStream(s)
    \/ \E p \in Printer :
         Dial(p) \/ DialOther(p) \/ DialFails(p) \/ Accept(p) \/ GoAway(p) \/ CloseNow(p) \/ NoticeBreak(p)
    \/ \E x \in {"loop"} \cup Request \cup Printer : Wedge(x)

\* A step of main, of its loop or of the clock that ends nothing.
Sequence ==
    \/ Signal \/ StartDraining \/ StopDispatcher \/ WaitFor \/ ConsumerGroupStep \/ HubClose
    \/ HubClosed \/ ShutdownPublic \/ PublicDown \/ ShutdownInternal \/ LoopReturns \/ Deadline

LEMMA NextIs == Next => Traffic \/ Sequence \/ InternalDown \/ Kill
  BY DEF Next, RunShutdown, Traffic, Sequence

----------------------------------------------------------------------------
(* Types.                                                                  *)

LEMMA InitTypes == Init => TypeOK
  <1> SUFFICES ASSUME Init PROVE TypeOK
    OBVIOUS
  <1>1. attempt \in [Printer -> Nat]
    <2>1. 0 \in Nat /\ Attempts \subseteq Nat
      BY ShutdownAssumption
    <2>2. attempt \in [Printer -> Attempts] \/ attempt \in [Printer -> {0}]
      <3>1. attempt \in [Printer -> IF "outage" \in faults THEN Attempts ELSE {0}]
        BY DEF Init
      <3>2. CASE "outage" \in faults
        BY <3>1, <3>2
      <3>3. CASE "outage" \notin faults
        BY <3>1, <3>3
      <3> QED BY <3>2, <3>3
    <2> QED BY <2>1, <2>2
  <1>2. /\ faults \in Environments /\ main = "serving" /\ late = FALSE /\ drain = FALSE
        /\ public = TRUE /\ internal = TRUE /\ loop = "running"
        /\ req = [r \in Request |-> "none"] /\ stream = [s \in Stream |-> "none"]
        /\ printer = [p \in Printer |-> "away"] /\ dials = [p \in Printer |-> 0]
        /\ failed = [p \in Printer |-> 0] /\ closing = {} /\ wedged = {}
    BY DEF Init
  <1>3. 0 \in 0..MaxDial /\ 0 \in 0..MaxFail
    BY ShutdownAssumption
  <1> QED BY <1>1, <1>2, <1>3 DEF TypeOK, Steps

\* runClient counts one more attempt.
LEMMA FailedIs ==
  ASSUME TypeOK, NEW p \in Printer, Failed(p)
  PROVE  attempt' \in [Printer -> Nat]
  BY DEF TypeOK, Failed

LEMMA TrafficTypes ==
  ASSUME TypeOK, Traffic
  PROVE  TypeOK'
  <1> USE DEF node, dialVars, traffic
  <1>1. ASSUME NEW r \in Request, Arrive(r) \/ Serve(r) PROVE TypeOK'
    <2>1. req' \in [Request -> {"none", "open", "done", "cut"}]
      BY <1>1 DEF Arrive, Serve, TypeOK
    <2>2. UNCHANGED <<node, stream, printer, dialVars, closing, wedged>>
      BY <1>1 DEF Arrive, Serve
    <2> QED BY <2>1, <2>2 DEF TypeOK
  <1>2. ASSUME NEW s \in Stream, OpenStream(s) \/ CloseStream(s) \/ DrainStream(s) PROVE TypeOK'
    <2>1. stream' \in [Stream -> {"none", "open", "told", "done", "cut"}]
      BY <1>2 DEF OpenStream, CloseStream, DrainStream, TypeOK
    <2>2. UNCHANGED <<node, req, printer, dialVars, closing, wedged>>
      BY <1>2 DEF OpenStream, CloseStream, DrainStream
    <2> QED BY <2>1, <2>2 DEF TypeOK
  <1>3. ASSUME NEW p \in Printer, Dial(p) PROVE TypeOK'
    <2>1. dials[p] + 1 \in 0..MaxDial
      BY <1>3, ShutdownAssumption DEF Dial, TypeOK
    <2>2. /\ dials' \in [Printer -> 0..MaxDial]
          /\ printer' \in [Printer -> {"away", "accepted", "registered", "elsewhere", "cut"}]
      BY <1>3, <2>1 DEF Dial, TypeOK
    <2>3. UNCHANGED <<node, req, stream, failed, attempt, closing, wedged>>
      BY <1>3 DEF Dial
    <2> QED BY <2>2, <2>3 DEF TypeOK
  <1>4. ASSUME NEW p \in Printer, DialOther(p) \/ Accept(p) PROVE TypeOK'
    <2>1. printer' \in [Printer -> {"away", "accepted", "registered", "elsewhere", "cut"}]
      BY <1>4 DEF DialOther, Accept, TypeOK
    <2>2. UNCHANGED <<node, req, stream, dialVars, closing, wedged>>
      BY <1>4 DEF DialOther, Accept
    <2> QED BY <2>1, <2>2 DEF TypeOK
  <1>5. ASSUME NEW p \in Printer, DialFails(p) PROVE TypeOK'
    <2>1. failed[p] + 1 \in 0..MaxFail
      BY <1>5, ShutdownAssumption DEF DialFails, TypeOK
    <2>2. failed' \in [Printer -> 0..MaxFail]
      BY <1>5, <2>1 DEF DialFails, TypeOK
    <2>3. attempt' \in [Printer -> Nat]
      BY <1>5, FailedIs DEF DialFails
    <2>4. UNCHANGED <<node, req, stream, printer, dials, closing, wedged>>
      BY <1>5 DEF DialFails
    <2> QED BY <2>2, <2>3, <2>4 DEF TypeOK
  <1>6. ASSUME NEW p \in Printer, GoAway(p) \/ NoticeBreak(p) PROVE TypeOK'
    <2>1. /\ printer' \in [Printer -> {"away", "accepted", "registered", "elsewhere", "cut"}]
          /\ closing' \subseteq Printer
      BY <1>6 DEF GoAway, NoticeBreak, TypeOK
    <2>2. attempt' \in [Printer -> Nat]
      BY <1>6, FailedIs DEF GoAway, NoticeBreak
    <2>3. UNCHANGED <<node, req, stream, dials, failed, wedged>>
      BY <1>6 DEF GoAway, NoticeBreak
    <2> QED BY <2>1, <2>2, <2>3 DEF TypeOK
  <1>7. ASSUME NEW p \in Printer, CloseNow(p) PROVE TypeOK'
    <2>1. /\ printer' \in [Printer -> {"away", "accepted", "registered", "elsewhere", "cut"}]
          /\ closing' \subseteq Printer
      BY <1>7 DEF CloseNow, TypeOK
    <2>2. UNCHANGED <<node, req, stream, dialVars, wedged>>
      BY <1>7 DEF CloseNow
    <2> QED BY <2>1, <2>2 DEF TypeOK
  <1>8. ASSUME NEW x \in {"loop"} \cup Request \cup Printer, Wedge(x) PROVE TypeOK'
    <2>1. wedged' \subseteq {"loop"} \cup Request \cup Printer
      BY <1>8 DEF Wedge, TypeOK
    <2>2. UNCHANGED <<node, traffic, closing>>
      BY <1>8 DEF Wedge
    <2> QED BY <2>1, <2>2 DEF TypeOK
  <1> QED BY <1>1, <1>2, <1>3, <1>4, <1>5, <1>6, <1>7, <1>8 DEF Traffic

\* runShutdown closes the public listener first, so the order of the listeners
\* needs where main is.
LEMMA SequenceTypes ==
  ASSUME TypeOK, ListenersClosed, Sequence
  PROVE  TypeOK'
  <1>1. /\ main' \in Steps
        /\ late' \in BOOLEAN /\ drain' \in BOOLEAN /\ public' \in BOOLEAN /\ internal' \in BOOLEAN
    BY DEF Sequence, Signal, StartDraining, StopDispatcher, WaitFor, ConsumerGroupStep, HubClose,
           HubClosed, ShutdownPublic, PublicDown, ShutdownInternal, LoopReturns, Deadline, Goto,
           TypeOK, Steps
  <1>2. loop' \in {"running", "stopping", "done"} /\ closing' \subseteq Printer
    BY DEF Sequence, Signal, StartDraining, StopDispatcher, WaitFor, ConsumerGroupStep, HubClose,
           HubClosed, ShutdownPublic, PublicDown, ShutdownInternal, LoopReturns, Deadline, TypeOK
  <1>3. ~internal' => ~public'
    <2>1. CASE ShutdownInternal
      BY <2>1 DEF ShutdownInternal, ListenersClosed
    <2>2. CASE ShutdownPublic
      BY <2>2 DEF ShutdownPublic
    <2>3. CASE UNCHANGED <<public, internal>>
      BY <2>3 DEF TypeOK
    <2> QED
      BY <2>1, <2>2, <2>3
      DEF Sequence, Signal, StartDraining, StopDispatcher, WaitFor, ConsumerGroupStep, HubClose,
          HubClosed, PublicDown, LoopReturns, Deadline
  <1>4. UNCHANGED <<faults, req, stream, printer, dials, failed, attempt, wedged>>
    BY DEF Sequence, Signal, StartDraining, StopDispatcher, WaitFor, ConsumerGroupStep, HubClose,
           HubClosed, ShutdownPublic, PublicDown, ShutdownInternal, LoopReturns, Deadline,
           traffic, dialVars
  <1> QED BY <1>1, <1>2, <1>3, <1>4 DEF TypeOK

LEMMA ExitTypes ==
  ASSUME TypeOK, Exit
  PROVE  TypeOK'
  <1>1. /\ main' = "exited" /\ public' = FALSE /\ internal' = FALSE /\ closing' = {}
        /\ UNCHANGED <<faults, late, drain, loop, dials, failed, attempt, wedged>>
    BY DEF Exit, Goto, dialVars
  <1>2. req' \in [Request -> {"none", "open", "done", "cut"}]
    BY DEF Exit, TypeOK
  <1>3. stream' \in [Stream -> {"none", "open", "told", "done", "cut"}]
    BY DEF Exit, TypeOK
  <1>4. printer' \in [Printer -> {"away", "accepted", "registered", "elsewhere", "cut"}]
    BY DEF Exit, TypeOK
  <1> QED BY <1>1, <1>2, <1>3, <1>4 DEF TypeOK, Steps

LEMMA TypesStep == TypeOK /\ ListenersClosed /\ [Next]_vars => TypeOK'
  <1> SUFFICES ASSUME TypeOK, ListenersClosed, [Next]_vars PROVE TypeOK'
    OBVIOUS
  <1>1. CASE UNCHANGED vars
    BY <1>1 DEF vars, TypeOK
  <1> QED
    BY <1>1, NextIs, TrafficTypes, SequenceTypes, ExitTypes DEF InternalDown, Kill

----------------------------------------------------------------------------
(* A shutdown within its deadline cuts nothing off.                        *)

\* What is open after a step of the traffic was open before, or came in through
\* the public listener; nothing is cut.
LEMMA TrafficCutsNothing ==
  ASSUME TypeOK, Traffic
  PROVE  /\ UNCHANGED node
         /\ \A r \in Request : /\ req'[r] = "open" => req[r] = "open" \/ public
                               /\ req'[r] = "cut" => req[r] = "cut"
         /\ \A s \in Stream : /\ stream'[s] = "open" => stream[s] = "open" \/ public
                              /\ stream'[s] = "cut" => stream[s] = "cut"
  <1>1. ASSUME NEW r \in Request, Arrive(r) \/ Serve(r)
        PROVE  /\ UNCHANGED <<node, stream>>
               /\ \A q \in Request : /\ req'[q] = "open" => req[q] = "open" \/ public
                                     /\ req'[q] = "cut" => req[q] = "cut"
    BY <1>1 DEF Arrive, Serve, TypeOK
  <1>2. ASSUME NEW s \in Stream, OpenStream(s) \/ CloseStream(s) \/ DrainStream(s)
        PROVE  /\ UNCHANGED <<node, req>>
               /\ \A q \in Stream : /\ stream'[q] = "open" => stream[q] = "open" \/ public
                                    /\ stream'[q] = "cut" => stream[q] = "cut"
    BY <1>2 DEF OpenStream, CloseStream, DrainStream, TypeOK
  <1>3. ASSUME NEW p \in Printer, \/ Dial(p) \/ DialOther(p) \/ DialFails(p) \/ Accept(p)
                                  \/ GoAway(p) \/ CloseNow(p) \/ NoticeBreak(p)
        PROVE  UNCHANGED <<node, req, stream>>
    BY <1>3 DEF Dial, DialOther, DialFails, Accept, GoAway, CloseNow, NoticeBreak
  <1>4. ASSUME NEW x \in {"loop"} \cup Request \cup Printer, Wedge(x)
        PROVE  UNCHANGED <<node, req, stream>>
    BY <1>4 DEF Wedge, traffic
  <1> QED BY <1>1, <1>2, <1>3, <1>4 DEF Traffic

LEMMA TrafficStep ==
  ASSUME TypeOK, ShutdownInv, Traffic
  PROVE  ShutdownInv'
  <1>1. /\ main' = main /\ late' = late /\ public' = public /\ internal' = internal
        /\ faults' = faults
    BY TrafficCutsNothing DEF node
  <1>2. \A r \in Request : /\ req'[r] = "open" => req[r] = "open" \/ public
                           /\ req'[r] = "cut" => req[r] = "cut"
    BY TrafficCutsNothing
  <1>3. \A s \in Stream : /\ stream'[s] = "open" => stream[s] = "open" \/ public
                          /\ stream'[s] = "cut" => stream[s] = "cut"
    BY TrafficCutsNothing
  <1>4. ListenersClosed'
    BY <1>1 DEF ShutdownInv, ListenersClosed
  <1>5. Drained'
    BY <1>1, <1>2, <1>3 DEF ShutdownInv, ListenersClosed, Drained, InFlight
  <1>6. OnlyExitCuts' /\ NothingCut'
    BY <1>1, <1>2, <1>3 DEF ShutdownInv, OnlyExitCuts, NothingCut
  <1> QED BY <1>4, <1>5, <1>6 DEF ShutdownInv

LEMMA SequenceStep ==
  ASSUME TypeOK, ShutdownInv, Sequence
  PROVE  ShutdownInv'
  <1>1. main # "exited" /\ main' # "exited" /\ UNCHANGED <<req, stream>>
    <2>1. CASE LoopReturns \/ Deadline
      BY <2>1 DEF LoopReturns, Deadline, Alive, traffic
    <2>2. CASE ~(LoopReturns \/ Deadline)
      BY <2>2 DEF Sequence, Signal, StartDraining, StopDispatcher, WaitFor, ConsumerGroupStep,
                  HubClose, HubClosed, ShutdownPublic, PublicDown, ShutdownInternal, Goto, traffic
    <2> QED BY <2>1, <2>2
  <1>2. OnlyExitCuts' /\ NothingCut'
    BY <1>1 DEF ShutdownInv, OnlyExitCuts, NothingCut
  <1>3. ListenersClosed'
    <2>1. CASE LoopReturns \/ Deadline
      BY <2>1 DEF LoopReturns, Deadline, ShutdownInv, ListenersClosed
    <2>2. CASE Signal \/ StartDraining \/ StopDispatcher \/ WaitFor \/ ConsumerGroupStep \/ HubClose
               \/ HubClosed
      BY <2>2 DEF Signal, StartDraining, StopDispatcher, WaitFor, ConsumerGroupStep, HubClose,
                  HubClosed, Goto, ListenersClosed
    <2>3. CASE ShutdownPublic \/ PublicDown \/ ShutdownInternal
      BY <2>3 DEF ShutdownPublic, PublicDown, ShutdownInternal, Goto, ShutdownInv, ListenersClosed
    <2> QED BY <2>1, <2>2, <2>3 DEF Sequence
  <1>4. Drained'
    <2>1. CASE LoopReturns \/ Deadline
      BY <1>1, <2>1 DEF LoopReturns, Deadline, ShutdownInv, Drained, InFlight
    <2>2. CASE Signal \/ StartDraining \/ StopDispatcher \/ WaitFor \/ ConsumerGroupStep \/ HubClose
               \/ HubClosed \/ ShutdownPublic
      BY <2>2 DEF Signal, StartDraining, StopDispatcher, WaitFor, ConsumerGroupStep, HubClose,
                  HubClosed, ShutdownPublic, Goto, Drained
    <2>3. CASE PublicDown \/ ShutdownInternal
      BY <1>1, <2>3 DEF PublicDown, ShutdownInternal, Goto, ShutdownInv, Drained, InFlight
    <2> QED BY <2>1, <2>2, <2>3 DEF Sequence
  <1> QED BY <1>2, <1>3, <1>4 DEF ShutdownInv

\* The process ends: what is still open is cut, and within the deadline nothing is.
LEMMA ExitStep ==
  ASSUME TypeOK, ShutdownInv, InternalDown \/ Kill
  PROVE  ShutdownInv'
  <1>0. main # "exited" /\ Exit
    BY DEF InternalDown, Kill
  <1>1. /\ main' = "exited" /\ public' = FALSE /\ internal' = FALSE
        /\ UNCHANGED <<faults, late>>
    BY <1>0 DEF Exit, Goto
  <1>2. /\ \A r \in Request : req'[r] = "cut" => req[r] \in {"open", "cut"}
        /\ \A s \in Stream : stream'[s] = "cut" => stream[s] \in {"open", "cut"}
    BY <1>0 DEF Exit
  <1>3. NothingCut'
    <2>1. CASE Kill
      BY <1>1, <2>1 DEF Kill, NothingCut
    <2>2. CASE InternalDown
      <3>1. ~late => ~InFlight
        BY <2>2 DEF InternalDown, ShutdownInv, Drained
      <3> QED BY <1>0, <1>1, <1>2, <3>1 DEF ShutdownInv, OnlyExitCuts, InFlight, NothingCut
    <2> QED BY <2>1, <2>2
  <1> QED BY <1>1, <1>3 DEF ShutdownInv, ListenersClosed, Drained, OnlyExitCuts

LEMMA ShutdownStep == TypeOK /\ ShutdownInv /\ [Next]_vars => TypeOK' /\ ShutdownInv'
  <1> SUFFICES ASSUME TypeOK, ShutdownInv, [Next]_vars PROVE TypeOK' /\ ShutdownInv'
    OBVIOUS
  <1>1. TypeOK'
    BY TypesStep DEF ShutdownInv
  <1>2. CASE UNCHANGED vars
    <2>1. UNCHANGED <<faults, main, late, drain, public, internal, req, stream>>
      BY <1>2 DEF vars
    <2>2. ListenersClosed'
      BY <2>1 DEF ShutdownInv, ListenersClosed
    <2>3. Drained'
      BY <2>1 DEF ShutdownInv, Drained, InFlight
    <2>4. OnlyExitCuts' /\ NothingCut'
      BY <2>1 DEF ShutdownInv, OnlyExitCuts, NothingCut
    <2> QED BY <1>1, <2>2, <2>3, <2>4 DEF ShutdownInv
  <1>3. CASE Next
    <2>1. Traffic \/ Sequence \/ InternalDown \/ Kill
      BY <1>3, NextIs
    <2>2. CASE Traffic
      BY <1>1, <2>2, TrafficStep
    <2>3. CASE Sequence
      BY <1>1, <2>3, SequenceStep
    <2>4. CASE InternalDown \/ Kill
      BY <1>1, <2>4, ExitStep
    <2> QED BY <2>1, <2>2, <2>3, <2>4
  <1> QED BY <1>1, <1>2, <1>3

LEMMA InitShutdown == Init => TypeOK /\ ShutdownInv
  <1> SUFFICES ASSUME Init PROVE ShutdownInv
    BY InitTypes
  <1> QED
    BY DEF Init, ShutdownInv, ListenersClosed, Drained, OnlyExitCuts, NothingCut

\* Every variable stays in its range, and the internal listener never closes before
\* the public one, whenever the process is killed (main's order of steps).
THEOREM TypeCorrect == Spec => []TypeOK
  BY InitShutdown, ShutdownStep, PTL DEF Spec

\* A shutdown within its deadline cuts nothing off: however many requests and
\* streams are in flight and whenever they arrive, each request is answered and
\* each stream is ended by its client or told why (runShutdown's steps).
THEOREM ShutdownCutsNothing == Spec => []NothingCut
  <1>1. ShutdownInv => NothingCut
    BY DEF ShutdownInv
  <1> QED
    BY <1>1, InitShutdown, ShutdownStep, PTL DEF Spec
----------------------------------------------------------------------------
(* The delay before the next dial.                                         *)

\* The powers that the shifts of the first 31 attempts, and the bits that are left
\* of the later ones, come to.
LEMMA PowersOfTwo == \A k \in 0..30 : 2^k \in Nat \ {0}
  <1> DEFINE P == Nat \ {0}
  <1>1. /\ 2^0 \in P /\ 2^1 \in P /\ 2^2 \in P /\ 2^3 \in P /\ 2^4 \in P /\ 2^5 \in P
        /\ 2^6 \in P /\ 2^7 \in P /\ 2^8 \in P /\ 2^9 \in P /\ 2^10 \in P /\ 2^11 \in P
        /\ 2^12 \in P /\ 2^13 \in P /\ 2^14 \in P /\ 2^15 \in P /\ 2^16 \in P /\ 2^17 \in P
        /\ 2^18 \in P /\ 2^19 \in P /\ 2^20 \in P /\ 2^21 \in P /\ 2^22 \in P /\ 2^23 \in P
        /\ 2^24 \in P /\ 2^25 \in P /\ 2^26 \in P /\ 2^27 \in P /\ 2^28 \in P /\ 2^29 \in P
        /\ 2^30 \in P
    OBVIOUS
  <1> HIDE DEF P
  <1> SUFFICES ASSUME NEW k \in 0..30 PROVE 2^k \in P
    BY DEF P
  <1>2. \/ k = 0 \/ k = 1 \/ k = 2 \/ k = 3 \/ k = 4 \/ k = 5 \/ k = 6 \/ k = 7 \/ k = 8
        \/ k = 9 \/ k = 10 \/ k = 11 \/ k = 12 \/ k = 13 \/ k = 14 \/ k = 15 \/ k = 16
        \/ k = 17 \/ k = 18 \/ k = 19 \/ k = 20 \/ k = 21 \/ k = 22 \/ k = 23 \/ k = 24
        \/ k = 25 \/ k = 26 \/ k = 27 \/ k = 28 \/ k = 29 \/ k = 30
    OBVIOUS
  <1> QED BY <1>1, <1>2, Zenon

\* "base > maxBackoff", computed by division, is a comparison of the powers.
LEMMA DivisionCompares ==
  ASSUME NEW p \in Nat \ {0}, NEW m \in Nat
  PROVE  Second > (m * Second) \div p <=> p > m
  BY DEF Second

\* What backoffWithJitter computes in 64 bits is the doubling it documents, for
\* every attempt number: up to the maximum exactly, and past it the maximum, also
\* where the product has wrapped to a negative, a small or no number at all.
LEMMA DelayIsTheDoubling ==
  ASSUME NEW n \in Nat \ {0}
  PROVE  BackoffWithJitter(n) = Second * (IF n - 1 \in Doublings THEN 2^(n - 1) ELSE MaxBack)
  <1> DEFINE k == n - 1
  <1>0. k \in Nat /\ BackoffWithJitter(n) =
          IF Negative(k) \/ Kept(k) = 0 \/ Exceeds(k) THEN MaxBack * Second ELSE 2^k * Kept(k)
    BY DEF BackoffWithJitter
  <1> SUFFICES BackoffWithJitter(n) = Second * (IF k \in Doublings THEN 2^k ELSE MaxBack)
    OBVIOUS
  <1> HIDE DEF k
  <1>m. MaxBack \in Nat /\ Second \in Nat \ {0} /\ MaxBack * Second = Second * MaxBack
    BY ShutdownAssumption DEF Second
  <1>1. CASE k <= 30
    <2>0. k \in 0..30
      BY <1>0, <1>1
    <2>1. k \in 0..30 /\ 2^k \in Nat \ {0}
      BY <2>0, PowersOfTwo, Zenon
    <2>2. Kept(k) = Second /\ ~Negative(k)
      BY <2>1 DEF Kept, Negative
    <2>3. Exceeds(k) <=> 2^k > MaxBack
      <3>1. Exceeds(k) <=> Second > (MaxBack * Second) \div 2^k
        BY <2>1, <2>2 DEF Exceeds
      <3> QED BY <1>m, <2>1, <3>1, DivisionCompares
    <2>4. k \in Doublings <=> ~(2^k > MaxBack)
      BY <1>m, <2>1 DEF Doublings
    <2>5. 2^k * Second = Second * 2^k
      BY <1>m, <2>1
    <2>6. CASE 2^k > MaxBack
      BY <1>0, <1>m, <2>3, <2>4, <2>6
    <2>7. CASE ~(2^k > MaxBack)
      BY <1>0, <1>m, <2>2, <2>3, <2>4, <2>5, <2>7
    <2> QED BY <2>6, <2>7
  <1>2. CASE k > 30
    <2>1. k \notin Doublings
      BY <1>0, <1>2 DEF Doublings
    <2>2. Kept(k) \in Nat
      <3>1. CASE k \in 35..54
        <4>0. 55 - k \in 0..30
          BY <3>1
        <4>1. 2^(55 - k) \in Nat \ {0}
          BY <4>0, PowersOfTwo, Zenon
        <4>2. Second % 2^(55 - k) \in Nat
          BY <1>m, <4>1
        <4> QED BY <3>1, <4>2 DEF Kept
      <3>2. CASE k \notin 35..54
        BY <1>0, <1>m, <3>2 DEF Kept
      <3> QED BY <3>1, <3>2
    <2>3. Kept(k) = 0 \/ Exceeds(k)
      BY <1>0, <1>2, <2>2 DEF Exceeds
    <2> QED BY <1>0, <1>m, <2>1, <2>3
  <1> QED BY <1>0, <1>1, <1>2

\* However long a printer has been retrying, its next delay is drawn from the
\* interval that backoffWithJitter documents: no attempt number wraps into a small,
\* zero or negative one.
THEOREM DelayNeverWraps == Spec => []BackoffHolds
  <1>1. TypeOK => BackoffHolds
    <2> SUFFICES ASSUME TypeOK, NEW p \in Printer, attempt[p] > 0
                 PROVE  BackoffWithJitter(attempt[p]) = Second *
                   (IF attempt[p] - 1 \in Doublings THEN 2^(attempt[p] - 1) ELSE MaxBack)
      BY DEF BackoffHolds
    <2>1. attempt[p] \in Nat \ {0}
      BY DEF TypeOK
    <2> QED BY <2>1, DelayIsTheDoubling
  <1> QED
    BY <1>1, TypeCorrect, PTL

----------------------------------------------------------------------------
(* The consumer group.                                                     *)

\* No step changes what may go wrong.
LEMMA FaultsStay == ASSUME [GroupNext]_groupVars PROVE groupFaults' = groupFaults
<1>1. ASSUME NEW n \in Node, Start(n) \/ EnsureGroup(n) \/ Stop(n) \/ ShutDown(n) \/ Crash(n)
      PROVE groupFaults' = groupFaults
  BY <1>1 DEF Start, EnsureGroup, Stop, ShutDown, WaitForLoop, RemoveConsumer, RemoveSelf, End,
     Crash, Die
<1>2. ASSUME NEW n \in Node, Available(n) \/ Sweep(n) \/ Loop(n) PROVE groupFaults' = groupFaults
  BY <1>2 DEF Available, Sweep, Loop, Return, ReadGroup, EndDrain, AutoClaim, EndReclaim,
     HandleBlocked, HandleDone, Ack, XInfo, Reap, ReapDelete, EndReap
<1>3. ASSUME NEW e \in Entry, XAdd(e) \/ Age(e) PROVE groupFaults' = groupFaults
  BY <1>3 DEF XAdd, Age
<1>4. ASSUME NEW c \in Node, GoStale(c) PROVE groupFaults' = groupFaults
  BY <1>4 DEF GoStale
<1>5. QED
  BY <1>1, <1>2, <1>3, <1>4 DEF GroupNext, groupVars

\* Every variable keeps its type, whatever a node or Redis does.
THEOREM GroupTypeCorrect ==
    GroupSpec => []GroupTypeOK
<1> USE GroupAssumption DEF Serving
<1>1. GroupInit => GroupTypeOK
  <2> SUFFICES ASSUME GroupInit PROVE GroupTypeOK
    OBVIOUS
  <2>1. 0 \in 0..MaxStarts
    OBVIOUS
  <2>2. starts \in [Node -> 0..MaxStarts]
    BY <2>1 DEF GroupInit
  <2>3. QED
    BY <2>2 DEF GroupInit, GroupTypeOK, Places, Mains, Loops
<1>2. GroupTypeOK /\ [GroupNext]_groupVars => GroupTypeOK'
  <2> SUFFICES ASSUME GroupTypeOK, [GroupNext]_groupVars PROVE GroupTypeOK'
    OBVIOUS
  <2> USE DEF GroupTypeOK, Places, Mains, Loops, streamVars, memberVars, procVars, loopVars
  <2>1. ASSUME NEW n \in Node, Start(n) PROVE GroupTypeOK'
    <3>1. starts[n] + 1 \in 0..MaxStarts
      BY <2>1 DEF Start
    <3>2. starts' \in [Node -> 0..MaxStarts]
      BY <2>1, <3>1 DEF Start
    <3>3. QED
      BY <2>1, <3>2 DEF Start
  <2>2. ASSUME NEW n \in Node, EnsureGroup(n) PROVE GroupTypeOK'
    <3>1. group' \in BOOLEAN
      BY <2>2, Zenon DEF EnsureGroup
    <3>2. process' \in [Node -> Mains] /\ reader' \in [Node -> Loops]
      BY <2>2 DEF EnsureGroup, ReaderAt
    <3>3. QED
      BY <2>2, <3>1, <3>2 DEF EnsureGroup
  <2>3. ASSUME NEW n \in Node, Stop(n) PROVE GroupTypeOK'
    BY <2>3 DEF Stop
  <2>4. ASSUME NEW n \in Node, WaitForLoop(n) PROVE GroupTypeOK'
    BY <2>4 DEF WaitForLoop
  <2>5. ASSUME NEW n \in Node, RemoveConsumer(n) PROVE GroupTypeOK'
    BY <2>5 DEF RemoveConsumer
  <2>6. ASSUME NEW n \in Node, RemoveSelf(n) PROVE GroupTypeOK'
    BY <2>6 DEF RemoveSelf, DelConsumer
  <2>7. ASSUME NEW n \in Node, Die(n) PROVE GroupTypeOK'
    BY <2>7 DEF Die, ReaderAt
  <2>8. ASSUME NEW n \in Node, Available(n) \/ Sweep(n) \/ Return(n) PROVE GroupTypeOK'
    BY <2>8 DEF Available, Sweep, Return, ReaderAt
  <2>9. ASSUME NEW n \in Node, NEW B \in SUBSET Entry, Deliver(n, B)
        PROVE  /\ batch' \in [Node -> SUBSET Entry] /\ place' \in [Entry -> Places]
               /\ owner' \in [Entry -> Node \cup {None}] /\ aged' \subseteq Entry
               /\ raced' \subseteq Entry
    BY <2>9 DEF Deliver
  <2>10. ASSUME NEW n \in Node, ReadGroup(n) PROVE GroupTypeOK'
    BY <2>9, <2>10 DEF ReadGroup, Batches, Touch
  <2>11. ASSUME NEW n \in Node, EndDrain(n) PROVE GroupTypeOK'
    BY <2>11 DEF EndDrain, AfterDrain, ReaderAt, Touch
  <2>12. ASSUME NEW n \in Node, AutoClaim(n) PROVE GroupTypeOK'
    <3>1. PICK B \in SUBSET Entry : Deliver(n, B) /\ passed' = [passed EXCEPT ![n] = @ \cup B]
      BY <2>12 DEF AutoClaim, Batches
    <3>2. passed' \in [Node -> SUBSET Entry]
      BY <3>1
    <3>3. QED
      BY <2>9, <2>12, <3>1, <3>2 DEF AutoClaim, Touch
  <2>13. ASSUME NEW n \in Node, EndReclaim(n) PROVE GroupTypeOK'
    BY <2>13 DEF EndReclaim, ReaderAt, Touch
  <2>14. ASSUME NEW n \in Node, NEW e \in Entry, HandleBlocked(n, e) \/ HandleDone(n, e)
         PROVE GroupTypeOK'
    BY <2>14 DEF HandleBlocked, HandleDone, Rest
  <2>15. ASSUME NEW n \in Node, Ack(n) PROVE GroupTypeOK'
    BY <2>15 DEF Ack, Rest
  <2>16. ASSUME NEW n \in Node, XInfo(n) PROVE GroupTypeOK'
    BY <2>16 DEF XInfo, ReaderAt
  <2>17. ASSUME NEW n \in Node, NEW c \in Node, Reap(n, c) PROVE GroupTypeOK'
    BY <2>17 DEF Reap, ReaderAt
  <2>18. ASSUME NEW n \in Node, ReapDelete(n) PROVE GroupTypeOK'
    BY <2>18 DEF ReapDelete, DelConsumer, ReaderAt
  <2>19. ASSUME NEW n \in Node, EndReap(n) PROVE GroupTypeOK'
    BY <2>19 DEF EndReap, ReaderAt
  <2>20. ASSUME NEW e \in Entry, XAdd(e) \/ Age(e) PROVE GroupTypeOK'
    BY <2>20 DEF XAdd, Age
  <2>21. ASSUME NEW c \in Node, GoStale(c) PROVE GroupTypeOK'
    BY <2>21 DEF GoStale
  <2>22. CASE UNCHANGED groupVars
    BY <2>22 DEF groupVars
  <2>23. QED
    BY <2>1, <2>2, <2>3, <2>4, <2>5, <2>6, <2>7, <2>8, <2>10, <2>11, <2>12, <2>13, <2>14,
       <2>15, <2>16, <2>17, <2>18, <2>19, <2>20, <2>21, <2>22
       DEF GroupNext, ShutDown, End, Crash, Loop
<1>3. QED
  BY <1>1, <1>2, PTL DEF GroupSpec

----------------------------------------------------------------------------
\* EnsureGroup's "$" skips nothing: no node serves requests, so none enqueues a
\* job, before the group exists.
THEOREM DeliveredFromTheStart ==
    GroupSpec => []NoneSkipped
<1> DEFINE Inv == NoneSkipped
<1>1. GroupInit => Inv
  BY DEF GroupInit, NoneSkipped
<1>2. GroupTypeOK /\ Inv /\ [GroupNext]_groupVars => Inv'
  <2> SUFFICES ASSUME GroupTypeOK, Inv, [GroupNext]_groupVars PROVE Inv'
    OBVIOUS
  <2> USE DEF GroupTypeOK, NoneSkipped, Serving, Places, Mains, Loops,
              streamVars, memberVars, procVars, loopVars
  <2>1. ASSUME NEW n \in Node, Start(n) PROVE Inv'
    BY <2>1 DEF Start
  <2>2. ASSUME NEW n \in Node, EnsureGroup(n) PROVE Inv'
    BY <2>2 DEF EnsureGroup, ReaderAt
  <2>3. ASSUME NEW n \in Node, Stop(n) \/ WaitForLoop(n) \/ RemoveConsumer(n) PROVE Inv'
    BY <2>3 DEF Stop, WaitForLoop, RemoveConsumer
  <2>4. ASSUME NEW n \in Node, RemoveSelf(n) PROVE Inv'
    BY <2>4 DEF RemoveSelf, DelConsumer
  <2>5. ASSUME NEW n \in Node, Die(n) PROVE Inv'
    BY <2>5 DEF Die, ReaderAt
  <2>6. ASSUME NEW n \in Node, Available(n) \/ Sweep(n) \/ Return(n) PROVE Inv'
    BY <2>6 DEF Available, Sweep, Return
  <2>7. ASSUME NEW n \in Node, ReadGroup(n) \/ AutoClaim(n) PROVE Inv'
    BY <2>7 DEF ReadGroup, AutoClaim, Deliver, Batches
  <2>8. ASSUME NEW n \in Node, EndDrain(n) \/ EndReclaim(n) PROVE Inv'
    BY <2>8 DEF EndDrain, EndReclaim
  <2>9. ASSUME NEW n \in Node, NEW e \in Entry, HandleBlocked(n, e) \/ HandleDone(n, e) PROVE Inv'
    BY <2>9 DEF HandleBlocked, HandleDone
  <2>10. ASSUME NEW n \in Node, Ack(n) PROVE Inv'
    BY <2>10 DEF Ack
  <2>11. ASSUME NEW n \in Node, XInfo(n) \/ EndReap(n) PROVE Inv'
    BY <2>11 DEF XInfo, EndReap
  <2>12. ASSUME NEW n \in Node, NEW c \in Node, Reap(n, c) PROVE Inv'
    BY <2>12 DEF Reap
  <2>13. ASSUME NEW n \in Node, ReapDelete(n) PROVE Inv'
    BY <2>13 DEF ReapDelete, DelConsumer
  <2>14. ASSUME NEW e \in Entry, XAdd(e) \/ Age(e) PROVE Inv'
    BY <2>14 DEF XAdd, Age
  <2>15. ASSUME NEW c \in Node, GoStale(c) PROVE Inv'
    BY <2>15 DEF GoStale
  <2>16. CASE UNCHANGED groupVars
    BY <2>16 DEF groupVars
  <2>17. QED
    BY <2>1, <2>2, <2>3, <2>4, <2>5, <2>6, <2>7, <2>8, <2>9, <2>10, <2>11, <2>12, <2>13,
       <2>14, <2>15, <2>16 DEF GroupNext, ShutDown, End, Crash, Loop
<1>3. QED
  BY <1>1, <1>2, GroupTypeCorrect, PTL DEF GroupSpec

----------------------------------------------------------------------------
\* GroupInv is inductive: what is being deleted has only what it was given since,
\* and what was found stale runs again only if it was revived.
LEMMA GroupStep ==
    ASSUME GroupTypeOK, GroupInv, [GroupNext]_groupVars
    PROVE  GroupInv'
<1> USE GroupAssumption
<1> USE DEF GroupTypeOK, GroupInv, Places, Mains, Loops, streamVars, memberVars, procVars, loopVars
<1> USE DEF Members, LifeCycle, NothingDestroyed, StaleIsOver, DeletesOnlyTheDrained,
            Over, Running, Deleting, Revived
<1>1. ASSUME NEW n \in Node, Start(n) PROVE GroupInv'
  BY <1>1 DEF Start, Pending
<1>2. ASSUME NEW n \in Node, EnsureGroup(n) PROVE GroupInv'
  BY <1>2 DEF EnsureGroup, ReaderAt, Pending
<1>3. ASSUME NEW n \in Node, Stop(n) PROVE GroupInv'
  BY <1>3 DEF Stop, Pending
<1>4. ASSUME NEW n \in Node, WaitForLoop(n) PROVE GroupInv'
  BY <1>4 DEF WaitForLoop, Pending
<1>5. ASSUME NEW n \in Node, RemoveConsumer(n) PROVE GroupInv'
  BY <1>5 DEF RemoveConsumer, Pending
<1>6. ASSUME NEW n \in Node, RemoveSelf(n) PROVE GroupInv'
  BY <1>6 DEF RemoveSelf, DelConsumer, Pending
<1>7. ASSUME NEW n \in Node, Die(n) PROVE GroupInv'
  BY <1>7 DEF Die, ReaderAt, Pending
<1>8. ASSUME NEW n \in Node, Available(n) \/ Sweep(n) \/ Return(n) PROVE GroupInv'
  BY <1>8 DEF Available, Sweep, Return, ReaderAt, Pending
<1>10. ASSUME NEW n \in Node, ReadGroup(n) PROVE GroupInv'
  BY <1>10 DEF ReadGroup, Batches, Deliver, Touch, Pending
<1>11. ASSUME NEW n \in Node, EndDrain(n) PROVE GroupInv'
  BY <1>11 DEF EndDrain, AfterDrain, ReaderAt, Touch, Pending
<1>12. ASSUME NEW n \in Node, AutoClaim(n) PROVE GroupInv'
  BY <1>12 DEF AutoClaim, Batches, Deliver, Touch, Pending
<1>13. ASSUME NEW n \in Node, EndReclaim(n) PROVE GroupInv'
  BY <1>13 DEF EndReclaim, ReaderAt, Touch, Pending
<1>14. ASSUME NEW n \in Node, NEW e \in Entry, HandleBlocked(n, e) \/ HandleDone(n, e)
       PROVE GroupInv'
  BY <1>14 DEF HandleBlocked, HandleDone, Pending
<1>15. ASSUME NEW n \in Node, Ack(n) PROVE GroupInv'
  BY <1>15 DEF Ack, Pending
<1>16. ASSUME NEW n \in Node, XInfo(n) PROVE GroupInv'
  BY <1>16 DEF XInfo, ReaderAt, Pending
<1>17. ASSUME NEW n \in Node, NEW c \in Node, Reap(n, c) PROVE GroupInv'
  BY <1>17 DEF Reap, FoundDrained, ReaderAt, Pending
<1>18. ASSUME NEW n \in Node, ReapDelete(n) PROVE GroupInv'
  <2>1. target[n] \in Node /\ Pending(target[n]) \subseteq raced
    BY <1>18 DEF ReapDelete
  <2>2. /\ \A e \in Entry : \/ place'[e] = place[e] /\ owner'[e] = owner[e]
                            \/ place'[e] = "discarded" /\ e \in raced
        /\ raced' = raced /\ starts' = starts /\ groupFaults' = groupFaults
    BY <1>18, <2>1 DEF ReapDelete, DelConsumer
  <2>3. consumer' \subseteq consumer /\ stale' \subseteq stale
    BY <1>18 DEF ReapDelete, DelConsumer
  <2>4. QED
    BY <1>18, <2>2, <2>3 DEF ReapDelete, ReaderAt, Pending
<1>19. ASSUME NEW n \in Node, EndReap(n) PROVE GroupInv'
  BY <1>19 DEF EndReap, ReaderAt, Pending
<1>20. ASSUME NEW e \in Entry, XAdd(e) \/ Age(e) PROVE GroupInv'
  BY <1>20 DEF XAdd, Age, Pending
<1>21. ASSUME NEW c \in Node, GoStale(c) PROVE GroupInv'
  BY <1>21 DEF GoStale, Pending
<1>22. CASE UNCHANGED groupVars
  BY <1>22 DEF groupVars, Pending
<1>23. QED
  BY <1>1, <1>2, <1>3, <1>4, <1>5, <1>6, <1>7, <1>8, <1>10, <1>11, <1>12, <1>13, <1>14,
     <1>15, <1>16, <1>17, <1>18, <1>19, <1>20, <1>21, <1>22
     DEF GroupNext, ShutDown, End, Crash, Loop

\* It holds throughout.
LEMMA GroupInvariant == GroupSpec => []GroupInv
<1>1. GroupInit => GroupInv
  BY GroupAssumption DEF GroupInit, GroupInv, Members, LifeCycle, NothingDestroyed, StaleIsOver,
         DeletesOnlyTheDrained, Over, Running, Deleting
<1>2. GroupTypeOK /\ GroupInv /\ [GroupNext]_groupVars => GroupInv'
  BY GroupStep
<1>3. QED
  BY <1>1, <1>2, GroupTypeCorrect, PTL DEF GroupSpec

\* No entry is lost but in one window: none precedes the group (EnsureGroup's "$"),
\* and none goes with a consumer that RemoveConsumer or ReapStaleConsumers deletes,
\* unless the consumer was given it between the deleter's XPENDING and its
\* DELCONSUMER, which takes a process that was paused or that came back under its
\* name; for any number of processes under a name and whatever fails.
THEOREM LosesNothing == GroupSpec => []NothingLost
<1>0. GroupInv => NothingDestroyed
  BY DEF GroupInv
<1>1. NoneSkipped /\ NothingDestroyed => NothingLost
  BY DEF NothingLost
<1>2. QED
  BY <1>0, <1>1, DeliveredFromTheStart, GroupInvariant, PTL

\* The consumer of a loop that is still reading is never deleted, neither by its
\* own main, which has waited for the loop, nor by another node's reaper, unless
\* the reader was paused or has come back under the name.
THEOREM ReadersKeepTheirPlace == GroupSpec => ReadersStay
<1> DEFINE Stay == \A n \in Node : n \in consumer \ consumer' /\ Running(n) => Revived(n)
<1>1. GroupTypeOK /\ GroupInv /\ [GroupNext]_groupVars => [Stay]_groupVars
  <2> SUFFICES ASSUME GroupTypeOK, GroupInv, GroupNext PROVE Stay
    OBVIOUS
  <2> USE DEF streamVars, memberVars, procVars, loopVars
  <2>1. ASSUME NEW n \in Node, NEW c \in Node, Deleting(n, c) PROVE Running(c) => Revived(c)
    BY <2>1 DEF GroupInv, StaleIsOver, Over
  <2>2. ASSUME NEW n \in Node, RemoveSelf(n) PROVE Stay
    BY <2>1, <2>2 DEF RemoveSelf, DelConsumer, Deleting
  <2>3. ASSUME NEW n \in Node, ReapDelete(n) PROVE Stay
    BY <2>1, <2>3 DEF ReapDelete, DelConsumer, Deleting
  <2>4. ASSUME NEW n \in Node,
               \/ Start(n) \/ EnsureGroup(n) \/ Stop(n) \/ WaitForLoop(n) \/ RemoveConsumer(n)
               \/ Die(n) \/ Available(n) \/ Sweep(n) \/ Return(n) \/ Ack(n) \/ XInfo(n)
               \/ EndReap(n)
        PROVE  consumer' = consumer
    BY <2>4 DEF Start, EnsureGroup, Stop, WaitForLoop, RemoveConsumer, Die, Available, Sweep,
                Return, Ack, XInfo, EndReap
  <2>5. ASSUME NEW n \in Node, ReadGroup(n) \/ EndDrain(n) \/ AutoClaim(n) \/ EndReclaim(n)
        PROVE  consumer \subseteq consumer'
    BY <2>5 DEF ReadGroup, EndDrain, AutoClaim, EndReclaim, Touch
  <2>6. ASSUME NEW n \in Node, NEW c \in Node, Reap(n, c) PROVE consumer' = consumer
    BY <2>6 DEF Reap
  <2>7. ASSUME NEW n \in Node, NEW e \in Entry, HandleBlocked(n, e) \/ HandleDone(n, e)
        PROVE  consumer' = consumer
    BY <2>7 DEF HandleBlocked, HandleDone
  <2>8. ASSUME NEW e \in Entry, XAdd(e) \/ Age(e) PROVE consumer' = consumer
    BY <2>8 DEF XAdd, Age
  <2>9. ASSUME NEW c \in Node, GoStale(c) PROVE consumer' = consumer
    BY <2>9 DEF GoStale
  <2>10. QED
    BY <2>2, <2>3, <2>4, <2>5, <2>6, <2>7, <2>8, <2>9 DEF GroupNext, ShutDown, End, Crash, Loop
<1>2. QED
  BY <1>1, GroupTypeCorrect, GroupInvariant, PTL DEF GroupSpec, ReadersStay
=============================================================================
