----------------------------- MODULE Shutdown -----------------------------
(***************************************************************************)
(* The graceful shutdown of one cloud node: main's sequence of steps under *)
(* one deadline, the two listeners, the requests and status streams in     *)
(* flight, the dispatcher loop, and the printers that hold a socket to     *)
(* this node or dial it again.  http.Server.Shutdown waits for requests,   *)
(* does not end them, and does not know of hijacked sockets.  A printer's  *)
(* runClient dials for ever, after a delay that grows with every attempt;  *)
(* the count starts again only when the printer does.                      *)
(***************************************************************************)
EXTENDS Integers, FiniteSets

CONSTANTS
    Request,    \* ordinary requests of the public listener
    Stream,     \* GET /jobs/{id}/stream requests
    Printer,
    MaxBack,    \* RECONNECT_MAX_BACKOFF in seconds (30 by default)
    Attempts,   \* attempts a printer may have behind it after an outage
    MaxDial,    \* bound: connections a printer makes to this node
    MaxFail,    \* bound: its dials that fail
    Environments  \* the sets of faults to consider: subsets of FaultKinds

\* "deadline"  the grace period passes before the sequence is done
\* "wedge"     the dispatcher loop, a request or a socket's close handshake hangs
\* "redial"    a printer that lost its socket dials this very node again
\* "kill"      a second signal ends the process outright
\* "outage"    dials fail, and may have for long before the behaviour starts
FaultKinds == {"deadline", "wedge", "redial", "kill", "outage"}

ASSUME ShutdownAssumption ==
    /\ MaxBack \in 1..1000 /\ Attempts \subseteq Nat /\ MaxDial \in Nat /\ MaxFail \in Nat
    /\ Environments \subseteq SUBSET FaultKinds

VARIABLES
    faults,    \* what may go wrong in this behaviour, chosen at the start
    main,      \* the step of runShutdown that main is at
    late,      \* the shared deadline has passed
    drain,     \* the drain channel is closed
    public,    \* the public listener accepts
    internal,  \* the internal mTLS listener accepts
    loop,      \* the dispatcher loop
    req,       \* each request
    stream,    \* each stream
    printer,   \* where each printer's socket stands
    dials,     \* connections it has made to this node
    failed,    \* its dials that failed
    attempt,   \* runClient's count of the connections it has lost or not got
    closing,   \* the sockets Hub.Close has taken from the registry
    wedged     \* what hangs: "loop", a request, a printer's peer

vars == <<faults, main, late, drain, public, internal, loop, req, stream, printer, dials,
          failed, attempt, closing, wedged>>

Steps == {"serving", "signal-drain", "dispatcher-loop", "wait-loop", "consumer-group",
          "printer-sockets", "wait-sockets", "public-listener", "wait-public",
          "internal-listener", "wait-internal", "exited"}

\* Every variable stays in its range, and the listeners close in their order.
TypeOK ==
    /\ faults \in Environments
    /\ main \in Steps
    /\ late \in BOOLEAN /\ drain \in BOOLEAN /\ public \in BOOLEAN /\ internal \in BOOLEAN
    /\ loop \in {"running", "stopping", "done"}
    /\ req \in [Request -> {"none", "open", "done", "cut"}]
    /\ stream \in [Stream -> {"none", "open", "told", "done", "cut"}]
    /\ printer \in [Printer -> {"away", "accepted", "registered", "elsewhere", "cut"}]
    /\ dials \in [Printer -> 0..MaxDial] /\ failed \in [Printer -> 0..MaxFail]
    /\ attempt \in [Printer -> Nat]
    /\ closing \subseteq Printer
    /\ wedged \subseteq {"loop"} \cup Request \cup Printer
    /\ ~internal => ~public

Init ==
    /\ faults \in Environments
    /\ main = "serving" /\ late = FALSE /\ drain = FALSE
    /\ public = TRUE /\ internal = TRUE /\ loop = "running"
    /\ req = [r \in Request |-> "none"] /\ stream = [s \in Stream |-> "none"]
    /\ printer = [p \in Printer |-> "away"] /\ dials = [p \in Printer |-> 0]
    /\ failed = [p \in Printer |-> 0]
    /\ attempt \in [Printer -> IF "outage" \in faults THEN Attempts ELSE {0}]
    /\ closing = {} /\ wedged = {}

Alive == main # "exited"
dialVars == <<dials, failed, attempt>>
traffic == <<req, stream, printer, dialVars>>
node == <<faults, main, late, drain, public, internal, loop>>

----------------------------------------------------------------------------
(* Traffic.                                                                *)

\* The load balancer may still route here after the drain has begun.
Arrive(r) ==
    /\ public /\ req[r] = "none" /\ req' = [req EXCEPT ![r] = "open"]
    /\ UNCHANGED <<node, stream, printer, dialVars, closing, wedged>>
Serve(r) ==
    /\ Alive /\ req[r] = "open" /\ r \notin wedged /\ req' = [req EXCEPT ![r] = "done"]
    /\ UNCHANGED <<node, stream, printer, dialVars, closing, wedged>>

OpenStream(s) ==
    /\ public /\ stream[s] = "none" /\ stream' = [stream EXCEPT ![s] = "open"]
    /\ UNCHANGED <<node, req, printer, dialVars, closing, wedged>>

\* The client leaves, or the job ends: either may never happen.
CloseStream(s) ==
    /\ Alive /\ stream[s] = "open" /\ stream' = [stream EXCEPT ![s] = "done"]
    /\ UNCHANGED <<node, req, printer, dialVars, closing, wedged>>

\* StreamJob selects on Drain: it says so on the stream and returns.
StreamStays(s) == FALSE /\ UNCHANGED vars
DrainStream(s) ==
    /\ Alive /\ stream[s] = "open" /\ drain /\ stream' = [stream EXCEPT ![s] = "told"]
    /\ UNCHANGED <<node, req, printer, dialVars, closing, wedged>>

\* A printer's runClient dials this node: at any time before the shutdown, and
\* after it only as a re-dial that the balancer sends here.
Dial(p) ==
    /\ internal /\ printer[p] = "away" /\ dials[p] < MaxDial
    /\ main = "serving" \/ "redial" \in faults
    /\ printer' = [printer EXCEPT ![p] = "accepted"] /\ dials' = [dials EXCEPT ![p] = @ + 1]
    /\ UNCHANGED <<node, req, stream, failed, attempt, closing, wedged>>

\* ... or a surviving one.
DialOther(p) ==
    /\ printer[p] = "away" /\ printer' = [printer EXCEPT ![p] = "elsewhere"]
    /\ UNCHANGED <<node, req, stream, dialVars, closing, wedged>>

\* ... or nobody answers.  Either way connectAndServe has returned: one more attempt.
Failed(p) == attempt' = [attempt EXCEPT ![p] = @ + 1]
DialFails(p) ==
    /\ "outage" \in faults /\ printer[p] = "away" /\ failed[p] < MaxFail
    /\ failed' = [failed EXCEPT ![p] = @ + 1] /\ Failed(p)
    /\ UNCHANGED <<node, req, stream, printer, dials, closing, wedged>>

\* Hub.Accept reads the register frame and adds the socket to the registry.
Accept(p) ==
    /\ Alive /\ printer[p] = "accepted" /\ printer' = [printer EXCEPT ![p] = "registered"]
    /\ UNCHANGED <<node, req, stream, dialVars, closing, wedged>>

\* A going-away close: the printer sees it and re-dials.
GoAway(p) ==
    /\ Alive /\ p \in closing /\ p \notin wedged
    /\ printer' = [printer EXCEPT ![p] = "away"] /\ closing' = closing \ {p} /\ Failed(p)
    /\ UNCHANGED <<node, req, stream, dials, failed, wedged>>

\* A peer that never echoes the close frame is dropped hard after five seconds.
CloseNow(p) ==
    /\ Alive /\ p \in closing /\ p \in wedged
    /\ printer' = [printer EXCEPT ![p] = "cut"] /\ closing' = closing \ {p}
    /\ UNCHANGED <<node, req, stream, dialVars, wedged>>

\* Run's loop returns once stopped and done with what it was handling.
LoopReturns ==
    /\ Alive /\ loop = "stopping" /\ "loop" \notin wedged /\ loop' = "done"
    /\ UNCHANGED <<faults, main, late, drain, public, internal, traffic, closing, wedged>>

----------------------------------------------------------------------------
(* main after the signal: runShutdown's steps in order.                    *)

Goto(step) == main' = step

Signal ==
    /\ main = "serving" /\ Goto("signal-drain")
    /\ UNCHANGED <<faults, late, drain, public, internal, loop, traffic, closing, wedged>>

StartDraining ==
    /\ main = "signal-drain" /\ drain' = TRUE /\ Goto("dispatcher-loop")
    /\ UNCHANGED <<faults, late, public, internal, loop, traffic, closing, wedged>>

StopDispatcher ==
    /\ main = "dispatcher-loop" /\ loop' = (IF loop = "done" THEN "done" ELSE "stopping")
    /\ Goto("wait-loop")
    /\ UNCHANGED <<faults, late, drain, public, internal, traffic, closing, wedged>>

\* waitFor: the loop has returned, or the deadline has passed.
WaitFor ==
    /\ main = "wait-loop" /\ (loop = "done" \/ late) /\ Goto("consumer-group")
    /\ UNCHANGED <<faults, late, drain, public, internal, loop, traffic, closing, wedged>>

\* RemoveConsumer (module ConsumerGroup): bounded by the same deadline.
ConsumerGroupStep ==
    /\ main = "consumer-group" /\ Goto("printer-sockets")
    /\ UNCHANGED <<faults, late, drain, public, internal, loop, traffic, closing, wedged>>

\* Hub.Close snapshots the registry and starts a close of every socket in it ...
HubClose ==
    /\ main = "printer-sockets" /\ closing' = {p \in Printer : printer[p] = "registered"}
    /\ Goto("wait-sockets")
    /\ UNCHANGED <<faults, late, drain, public, internal, loop, traffic, wedged>>

\* ... and waits until they are done or the deadline has passed.
HubClosed ==
    /\ main = "wait-sockets" /\ (closing = {} \/ late) /\ Goto("public-listener")
    /\ UNCHANGED <<faults, late, drain, public, internal, loop, traffic, closing, wedged>>

ListenerStays ==
    /\ main = "public-listener" /\ drain' = TRUE /\ Goto("wait-public")
    /\ UNCHANGED <<faults, late, public, internal, loop, traffic, closing, wedged>>
\* server.Shutdown closes the listener (and runs startDraining once more) ...
ShutdownPublic ==
    /\ main = "public-listener" /\ public' = FALSE /\ drain' = TRUE /\ Goto("wait-public")
    /\ UNCHANGED <<faults, late, internal, loop, traffic, closing, wedged>>

\* ... and waits for the requests in flight, streams among them.
InFlight == (\E r \in Request : req[r] = "open") \/ (\E s \in Stream : stream[s] = "open")
PublicDownAtOnce ==
    /\ main = "wait-public" /\ Goto("internal-listener")
    /\ UNCHANGED <<faults, late, drain, public, internal, loop, traffic, closing, wedged>>
PublicDown ==
    /\ main = "wait-public" /\ (~InFlight \/ late) /\ Goto("internal-listener")
    /\ UNCHANGED <<faults, late, drain, public, internal, loop, traffic, closing, wedged>>

ShutdownInternal ==
    /\ main = "internal-listener" /\ internal' = FALSE /\ Goto("wait-internal")
    /\ UNCHANGED <<faults, late, drain, public, loop, traffic, closing, wedged>>

\* A process that ends severs what is still open.
Exit ==
    /\ Goto("exited") /\ public' = FALSE /\ internal' = FALSE
    /\ req' = [r \in Request |-> IF req[r] = "open" THEN "cut" ELSE req[r]]
    /\ stream' = [s \in Stream |-> IF stream[s] = "open" THEN "cut" ELSE stream[s]]
    /\ printer' = [p \in Printer |->
                     IF printer[p] \in {"accepted", "registered"} THEN "cut" ELSE printer[p]]
    /\ closing' = {}
    /\ UNCHANGED <<faults, late, drain, loop, dialVars, wedged>>

\* The internal listener has only hijacked connections: nothing to wait for.
InternalDown == main = "wait-internal" /\ Exit

Kill == "kill" \in faults /\ main \notin {"serving", "exited"} /\ Exit

Deadline ==
    /\ "deadline" \in faults /\ main \notin {"serving", "exited"} /\ ~late /\ late' = TRUE
    /\ UNCHANGED <<faults, main, drain, public, internal, loop, traffic, closing, wedged>>

Wedge(x) ==
    /\ "wedge" \in faults /\ Alive /\ x \notin wedged /\ wedged' = wedged \cup {x}
    /\ UNCHANGED <<node, traffic, closing>>

\* A printer whose socket died without a close learns of it from its read loop or
\* from a keepalive ping that is not answered.
NoticesNothing(p) == FALSE /\ UNCHANGED vars
NoticeBreak(p) ==
    /\ printer[p] = "cut" /\ printer' = [printer EXCEPT ![p] = "away"] /\ Failed(p)
    /\ UNCHANGED <<node, req, stream, dials, failed, closing, wedged>>

RunShutdown ==
    \/ StartDraining \/ StopDispatcher \/ WaitFor \/ ConsumerGroupStep \/ HubClose \/ HubClosed
    \/ ShutdownPublic \/ PublicDown \/ ShutdownInternal \/ InternalDown

Next ==
    \/ Signal \/ RunShutdown \/ LoopReturns \/ Deadline \/ Kill
    \/ \E r \in Request : Arrive(r) \/ Serve(r)
    \/ \E s \in Stream : OpenStream(s) \/ CloseStream(s) \/ DrainStream(s)
    \/ \E p \in Printer :
         Dial(p) \/ DialOther(p) \/ DialFails(p) \/ Accept(p) \/ GoAway(p) \/ CloseNow(p) \/ NoticeBreak(p)
    \/ \E x \in {"loop"} \cup Request \cup Printer : Wedge(x)

Spec == Init /\ [][Next]_vars

\* Code that is not wedged runs, and time passes.  Nothing is assumed of the
\* clients: a stream ends only if the node ends it.  A printer pings, and dials
\* until some node answers.
FairSpec ==
    /\ Spec /\ WF_vars(RunShutdown) /\ WF_vars(LoopReturns) /\ WF_vars(Deadline)
    /\ \A r \in Request : WF_vars(Serve(r))
    /\ \A s \in Stream : WF_vars(DrainStream(s))
    /\ \A p \in Printer : /\ WF_vars(Accept(p)) /\ WF_vars(GoAway(p) \/ CloseNow(p))
                        /\ WF_vars(NoticeBreak(p)) /\ WF_vars(DialOther(p))

----------------------------------------------------------------------------
(* The delay before the next dial: backoffWithJitter.  Durations are in    *)
(* units of 512 ns, of which a second has an odd number; the code computes *)
(* in int64 nanoseconds, which wrap.                                       *)

Second == 1953125

\* 1<<(attempt-1) * time.Second modulo 2^64, as 2^(attempt-1) times this number:
\* of the 21 bits of Second, those that still fit below bit 64.
Kept(k) == IF k >= 55 THEN 0 ELSE IF k <= 34 THEN Second ELSE Second % 2^(55 - k)

\* The product's sign bit is the highest bit that fits.
Negative(k) == k \in 34..54 /\ Kept(k) >= 2^(54 - k)

\* base > maxBackoff, for a product that is not negative.
Exceeds(k) == Kept(k) > (IF k > 30 THEN 0 ELSE (MaxBack * Second) \div 2^k)

\* The delay is random below this bound (full jitter); 0 if the bound is not positive.
BackoffUnsigned(n) ==
    LET k == IF n < 1 THEN 0 ELSE n - 1
    IN  CASE Negative(k) \/ Kept(k) = 0 -> 0
          [] Exceeds(k)                 -> MaxBack * Second
          [] OTHER                      -> 2^k * Kept(k)
BackoffWithJitter(n) ==
    LET k == IF n < 1 THEN 0 ELSE n - 1
    IN  IF Negative(k) \/ Kept(k) = 0 \/ Exceeds(k) THEN MaxBack * Second ELSE 2^k * Kept(k)

----------------------------------------------------------------------------
(* Properties.                                                             *)

\* A shutdown within its deadline cuts nothing off: every request is answered and
\* every stream is ended by its client or told why ("each step is the fix for a
\* specific way this process used to break the system", main.go).
NothingCut ==
    main = "exited" /\ ~late /\ "kill" \notin faults =>
        /\ \A r \in Request : req[r] # "cut"
        /\ \A s \in Stream : stream[s] # "cut"

\* A signalled node stops.  With nothing wedged it does so by itself, however long
\* its streams would last; with the deadline, even if everything hangs.
Stops == main = "signal-drain" ~> main = "exited"

\* Every printer of a node that goes away ends up on another one, also one whose
\* register frame is read after Hub.Close has taken its snapshot, and one that the
\* balancer sends back to this node while it shuts down ("the printer sees a clean
\* close and re-dials, landing on a surviving node", Hub.Close).
PrintersRehome == \A p \in Printer : main = "signal-drain" ~> printer[p] = "elsewhere"

\* The delay grows as 1 s, 2 s, 4 s, ... up to the maximum and stays there
\* (backoffWithJitter's doc comment), however long the printer has been retrying:
\* no attempt number wraps into a small, zero or negative delay.
Doublings == {k \in 0..30 : 2^k <= MaxBack}
BackoffHolds ==
    \A p \in Printer : attempt[p] > 0 =>
        BackoffWithJitter(attempt[p]) =
            Second * (IF attempt[p] - 1 \in Doublings THEN 2^(attempt[p] - 1) ELSE MaxBack)

----------------------------------------------------------------------------
(* Why NothingCut holds: an inductive invariant.                           *)

\* The listener is closed before main waits for what it has let in; once that is
\* over, within the deadline, nothing is open, and nothing can come.
ListenersClosed ==
    /\ main \in {"wait-public", "internal-listener", "wait-internal", "exited"} => ~public
    /\ main = "exited" => ~internal
Drained == main \in {"internal-listener", "wait-internal"} /\ ~late => ~InFlight
OnlyExitCuts ==
    main # "exited" =>
        (\A r \in Request : req[r] # "cut") /\ (\A s \in Stream : stream[s] # "cut")

ShutdownInv == ListenersClosed /\ Drained /\ OnlyExitCuts /\ NothingCut
===========================================================================
