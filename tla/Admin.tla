------------------------------- MODULE Admin -------------------------------
(***************************************************************************)
(* The ops dashboard: the three GET /admin handlers of the cloud tier, the *)
(* useAdminData hook of the portal's pages that calls them, and what       *)
(* changes under them while they read: senders insert jobs, the printer    *)
(* link moves their status and keeps a unit's liveness in two stores.      *)
(*                                                                         *)
(* No handler reads in a transaction: every query sees the tables as they  *)
(* are when it runs.  The hook may have several calls in flight, and takes *)
(* each answer as it comes.  The pages read disjoint state, so a behaviour *)
(* follows the page the operator has opened and what that page reads.      *)
(***************************************************************************)
EXTENDS Naturals, Sequences, SequencesExt, FiniteSets

CONSTANTS
    Job,
    PerPage,   \* PER_PAGE (50 in the code)
    TTL,       \* printerStateTTL in heartbeat intervals (3: 90 s and 30 s)
    MaxRows,   \* bound: jobs that are submitted while a page is open, by page
    MaxMoves,  \* bound: how far their statuses are past "waiting", by page
    MaxLoads,  \* bound: calls it makes, by page
    MaxDay,    \* bound: days that pass
    MaxClock,  \* bound: heartbeat intervals that pass
    Environments  \* the sets of faults to consider: subsets of FaultKinds

\* "reorder"  an answer overtakes an earlier one
\* "db"       a Postgres statement fails
\* "redis"    a Redis command fails
\* "slow"     an interval passes between the two writes of one frame
\* "expire"   the access token expires while the page is open
\* "week"     ... and so has the refresh cookie
\* "sender"   whoever opened the page has no admin role
\* "twice"    a job is printed twice: its statuses begin again
FaultKinds == {"reorder", "db", "redis", "slow", "expire", "week", "sender", "twice"}

Pages == {"jobs", "overview", "mailboxes"}

ASSUME AdminAssumption ==
    /\ IsFiniteSet(Job) /\ PerPage \in Nat \ {0} /\ TTL \in Nat \ {0}
    /\ MaxRows \in [Pages -> Nat] /\ MaxMoves \in [Pages -> Nat]
    /\ MaxLoads \in [Pages -> Nat \ {0}] /\ MaxDay \in Nat /\ MaxClock \in Nat \ {0}
    /\ Environments \subseteq SUBSET FaultKinds

VARIABLES
    faults,  \* what may go wrong in this behaviour, chosen at the start
    \* Postgres: jobs
    order,   \* the rows, newest first by created_at (no two at the same microsecond)
    status,  \* jobs.status, "none" before InsertJob
    on,      \* the day of delivered_at
    day,     \* the current UTC day
    \* one mailbox unit
    clock,   \* heartbeat intervals since the start
    up,      \* the unit is connected
    frame,   \* the frame the hub is handling: "none", "register", "state", "mirror"
    heard,   \* a frame came in this interval
    expiry,  \* when mailbox:<id>:state lapses (Redis)
    beat,    \* mailboxes.last_heartbeat_at, 0 if never (Postgres)
    \* the portal page
    view,    \* the page that is open, or "login"
    token,   \* the access token: "good", "expired" or "renewed"
    filter,  \* the status filter, "" for all
    page,    \* the page number
    calls,   \* load() calls in flight, oldest first
    loads,   \* how many were made
    data,    \* the answer on screen, in <<>> or <<answer>>
    error,   \* "none", "error" or "forbidden"
    \* a walk through the pages
    there,   \* the jobs there were when its first page was listed
    seen,    \* the jobs it has put on screen
    patient  \* it waits for every page; if not, there and seen are not kept

jobVars  == <<order, status, on, day>>
unitVars == <<clock, up, frame, heard, expiry, beat>>
walkVars == <<there, seen, patient>>
askVars  == <<view, filter, page, loads>>
pageVars == <<askVars, token, calls, data, error, walkVars>>
vars == <<faults, jobVars, unitVars, pageVars>>

\* "waiting" is any of submitted, queued and dispatching: the queue depth.
Status == {"waiting", "printing", "delivered", "failed"}
Filters == {"", "printing"}

----------------------------------------------------------------------------
(* What the queries answer.                                                *)

\* The rows that the WHERE clause keeps, by their place in order.
Matching(st) == {k \in DOMAIN order : st = "" \/ status[order[k]] = st}

\* AdminListJobs: ORDER BY created_at DESC LIMIT perPage OFFSET (page - 1) * perPage.
\* A row is on the page if as many kept rows precede it as the offset skips, or
\* fewer than perPage more.
Offset(p) == (p - 1) * PerPage
Above(st, k) == Cardinality({m \in Matching(st) : m < k})
AdminListJobs(st, p) ==
    LET OnPage(k) == Offset(p) <= Above(st, k) /\ Above(st, k) < Offset(p) + PerPage
    IN  {order[k] : k \in {m \in Matching(st) : OnPage(m)}}

AdminCountJobs(st) == Cardinality(Matching(st))

\* AdminCountDeliveredSince: here the jobs themselves, of which it gives the number.
AdminCountDeliveredSince(since) == {j \in Job : status[j] = "delivered" /\ on[j] >= since}

\* LookupPrinterState: the key is there until it lapses.
Live == expiry > clock

----------------------------------------------------------------------------
(* The hook's calls.                                                       *)

\* What a handler has read so far, by page.
Blank ==
    [jobs      |-> [rows |-> {}, n |-> 0, all |-> {}],
     overview  |-> [counts |-> [j \in Job |-> "none"], since |-> 0, done |-> {}],
     mailboxes |-> [beat |-> 0, live |-> FALSE, at |-> 0]]

\* One load(): what it asks for, with the token the page has then, how far its
\* handler is, and what that has read.
Call(f, p) ==
    [filter |-> f, page |-> p, bearer |-> token, stage |-> "guard", got |-> Blank[view]]

Stages == {"guard", "first", "second", "third", "ok", "error", "unauthorized", "forbidden"}

GotSet ==
    CASE view = "jobs"      -> [rows : SUBSET Job, n : 0..Cardinality(Job), all : SUBSET Job]
      [] view = "overview"  -> [counts : [Job -> Status \cup {"none"}], since : 0..MaxDay,
                                done : SUBSET Job]
      [] view = "mailboxes" -> [beat : 0..MaxClock, live : BOOLEAN, at : 0..MaxClock]
      [] OTHER              -> {}

Bearers == {"good", "expired", "renewed"}
PageNumbers == 1..(Cardinality(Job) + 1)
CallSet ==
    [filter : Filters, page : PageNumbers, bearer : Bearers, stage : Stages, got : GotSet]

\* Every variable stays in its range; the page asked for is one the pager offers.
TypeOK ==
    /\ faults \in Environments
    /\ order \in Seq(Job) /\ IsInjective(order)
    /\ status \in [Job -> Status \cup {"none"}]
    /\ \A j \in Job : status[j] = "none" <=> ~Contains(order, j)
    /\ on \in [Job -> 0..MaxDay] /\ day \in 0..MaxDay
    /\ clock \in 1..MaxClock /\ up \in BOOLEAN /\ heard \in BOOLEAN
    /\ frame \in {"none", "register", "state", "mirror"}
    /\ expiry \in 0..(MaxClock + TTL) /\ beat \in 0..MaxClock
    /\ view \in Pages \cup {"login"}
    /\ token \in Bearers /\ filter \in Filters /\ page \in PageNumbers
    /\ IF view = "login" THEN calls = <<>> ELSE calls \in Seq(CallSet) /\ data \in Seq(CallSet)
    /\ loads \in Nat /\ (view # "login" => loads <= MaxLoads[view])
    /\ error \in {"none", "error", "forbidden"}
    /\ there \subseteq Job /\ seen \subseteq Job /\ patient \in BOOLEAN

\* The page is mounted, and its effect makes the first call.
Init ==
    /\ faults \in Environments
    /\ order = <<>> /\ status = [j \in Job |-> "none"] /\ on = [j \in Job |-> 0] /\ day = 0
    /\ clock = 1 /\ up = FALSE /\ frame = "none" /\ heard = FALSE /\ expiry = 0 /\ beat = 0
    /\ view \in Pages
    /\ token = "good"
    /\ filter = "" /\ page = 1
    /\ calls = <<Call("", 1)>> /\ loads = 1 /\ data = <<>> /\ error = "none"
    /\ there = {} /\ seen = {} /\ patient = TRUE

----------------------------------------------------------------------------
(* What changes meanwhile: the jobs ...                                    *)

\* InsertJob.  created_at is the time the statement starts, so a row may become
\* visible after one that is newer.
InsertJob(j) ==
    /\ view # "login" /\ Len(order) < MaxRows[view] /\ status[j] = "none"
    /\ \E i \in 1..Min({2, Len(order) + 1}) : order' = InsertAt(order, i, j)
    /\ status' = [status EXCEPT ![j] = "waiting"]
    /\ UNCHANGED <<faults, on, day, unitVars, pageVars>>

Moves ==
    Cardinality({j \in Job : status[j] \notin {"none", "waiting"}})
      + Cardinality({j \in Job : status[j] \in {"delivered", "failed"}})

\* UpdateJobStatus writes what the printer's frame says, whatever the row had, and
\* delivered_at with 'delivered'.  The frames of one printing come in order, but the
\* statement for 'printing' may have failed; a second printing begins again.
Reported(j, s) ==
    \/ status[j] = "waiting" /\ s = "printing"
    \/ status[j] = "printing" /\ s \in {"delivered", "failed"}
    \/ "db" \in faults /\ status[j] = "waiting" /\ s \in {"delivered", "failed"}
    \/ "twice" \in faults /\ status[j] \in {"delivered", "failed"} /\ s = "printing"
UpdateJobStatus(j) ==
    /\ view # "login" /\ Moves < MaxMoves[view]
    /\ \E s \in Status :
         /\ Reported(j, s)
         /\ status' = [status EXCEPT ![j] = s]
         /\ on' = (IF s = "delivered" THEN [on EXCEPT ![j] = day] ELSE on)
    /\ UNCHANGED <<faults, order, day, unitVars, pageVars>>

\* A new UTC day.
Midnight ==
    /\ view = "overview" /\ day < MaxDay /\ day' = day + 1
    /\ UNCHANGED <<faults, order, status, on, unitVars, pageVars>>

----------------------------------------------------------------------------
(* ... and the unit, as the hub records it.                                *)

\* Hub.Accept has the register frame.
Connect ==
    /\ view = "mailboxes" /\ ~up /\ frame = "none"
    /\ up' = TRUE /\ frame' = "register" /\ heard' = TRUE
    /\ UNCHANGED <<faults, jobVars, clock, expiry, beat, pageVars>>

Disconnect ==
    /\ up /\ frame = "none" /\ up' = FALSE
    /\ UNCHANGED <<faults, jobVars, clock, frame, heard, expiry, beat, pageVars>>

\* runKeepalive's tick sends a state frame.
Heartbeat ==
    /\ up /\ frame = "none" /\ ~heard
    /\ frame' = "state" /\ heard' = TRUE
    /\ UNCHANGED <<faults, jobVars, clock, up, expiry, beat, pageVars>>

\* SetPrinterState.  onState returns if it fails, Accept goes on.
SetPrinterState ==
    /\ frame \in {"register", "state"}
    /\ \/ expiry' = clock + TTL /\ frame' = "mirror"
       \/ /\ "redis" \in faults /\ UNCHANGED expiry
          /\ frame' = (IF frame = "register" THEN "mirror" ELSE "none")
    /\ UNCHANGED <<faults, jobVars, clock, up, heard, beat, pageVars>>

\* mirrorLiveness: UpdateMailboxLiveness, a failure of which is only logged.
MirrorLiveness ==
    /\ frame = "mirror" /\ frame' = "none"
    /\ \/ beat' = clock
       \/ "db" \in faults /\ UNCHANGED beat
    /\ UNCHANGED <<faults, jobVars, clock, up, heard, expiry, pageVars>>

\* An interval passes.  A connected unit has sent its frame in every one.
Tick ==
    /\ view = "mailboxes" /\ clock < MaxClock
    /\ up => heard
    /\ frame = "none" \/ "slow" \in faults
    /\ clock' = clock + 1 /\ heard' = FALSE
    /\ UNCHANGED <<faults, jobVars, up, frame, expiry, beat, pageVars>>

----------------------------------------------------------------------------
(* The handlers: one query each step.                                      *)

Handled(i, stage, got) ==
    /\ calls' = [calls EXCEPT ![i].stage = stage, ![i].got = got]
    /\ UNCHANGED <<faults, jobVars, unitVars, askVars, token, data, error, walkVars>>

At(i, stage) == calls[i].stage = stage
Got(i) == calls[i].got

\* A query fails: 500.
Fail(i) ==
    /\ \/ "db" \in faults /\ \/ At(i, "first") \/ At(i, "second")
                             \/ At(i, "third") /\ view # "mailboxes"
       \/ "redis" \in faults /\ At(i, "third") /\ view = "mailboxes"
    /\ Handled(i, "error", Got(i))

RequireAdmin(i) ==
    /\ At(i, "guard")
    /\ Handled(i, IF calls[i].bearer = "expired" THEN "unauthorized"
                  ELSE IF "sender" \in faults THEN "forbidden" ELSE "first", Got(i))

\* AdminJobs: the rows, then their number.
AdminJobs(i) ==
    \/ /\ At(i, "first")
       /\ Handled(i, "second",
                  [Got(i) EXCEPT !.rows = AdminListJobs(calls[i].filter, calls[i].page),
                                 !.all = IF calls[i].page = 1 THEN ToSet(order) ELSE {}])
    \/ /\ At(i, "second")
       /\ Handled(i, "ok", [Got(i) EXCEPT !.n = AdminCountJobs(calls[i].filter)])

\* AdminSummary: the counts by status, the start of the day, the deliveries since.
AdminSummaryBackwards(i) ==
    \/ At(i, "first") /\ Handled(i, "second", [Got(i) EXCEPT !.since = day])
    \/ /\ At(i, "second")
       /\ Handled(i, "third", [Got(i) EXCEPT !.done = AdminCountDeliveredSince(Got(i).since)])
    \/ At(i, "third") /\ Handled(i, "ok", [Got(i) EXCEPT !.counts = status])
AdminSummary(i) ==
    \/ At(i, "first") /\ Handled(i, "second", [Got(i) EXCEPT !.counts = status])
    \/ At(i, "second") /\ Handled(i, "third", [Got(i) EXCEPT !.since = day])
    \/ /\ At(i, "third")
       /\ Handled(i, "ok", [Got(i) EXCEPT !.done = AdminCountDeliveredSince(Got(i).since)])

\* AdminMailboxes: the rows with their last heartbeat, the slots (which nothing
\* changes), then the unit's cached state; "offline" if there is none.
AdminMailboxesCacheFirst(i) ==
    \/ At(i, "first") /\ Handled(i, "second", [Got(i) EXCEPT !.live = Live, !.at = clock])
    \/ At(i, "second") /\ Handled(i, "third", Got(i))
    \/ At(i, "third") /\ Handled(i, "ok", [Got(i) EXCEPT !.beat = beat])
AdminMailboxes(i) ==
    \/ At(i, "first") /\ Handled(i, "second", [Got(i) EXCEPT !.beat = beat])
    \/ At(i, "second") /\ Handled(i, "third", Got(i))
    \/ At(i, "third") /\ Handled(i, "ok", [Got(i) EXCEPT !.live = Live, !.at = clock])

Handler(i) ==
    \/ RequireAdmin(i) \/ Fail(i)
    \/ view = "jobs" /\ AdminJobs(i)
    \/ view = "overview" /\ AdminSummary(i)
    \/ view = "mailboxes" /\ AdminMailboxes(i)

----------------------------------------------------------------------------
(* The page.                                                               *)

\* totalPages and the pager's buttons.
TotalPages(n) == IF n = 0 THEN 1 ELSE (n + PerPage - 1) \div PerPage
Shown == IF data = <<>> THEN 0 ELSE data[1].got.n
OnScreen == data # <<>> /\ data[1].filter = filter /\ data[1].page = page

AskWithoutLoad(f, p) ==
    /\ view = "jobs" /\ error # "forbidden"
    /\ filter' = f /\ page' = p
    /\ UNCHANGED <<faults, jobVars, unitVars, view, loads, token, calls, data, error, walkVars>>
\* filter or page is set: load changes with the path, and its effect calls it.
Ask(f, p) ==
    /\ view = "jobs" /\ error # "forbidden" /\ loads < MaxLoads[view]
    /\ filter' = f /\ page' = p
    /\ calls' = Append(calls, Call(f, p)) /\ loads' = loads + 1
    /\ patient' = (calls = <<>> /\ (p = 1 \/ (patient /\ OnScreen)))
    /\ there' = (IF patient' /\ p > 1 THEN there ELSE {})
    /\ seen' = (IF patient' /\ p > 1 THEN seen ELSE {})
    /\ UNCHANGED <<faults, jobVars, unitVars, view, token, data, error>>

NextPage == view = "jobs" /\ page < TotalPages(Shown) /\ Ask(filter, page + 1)
PrevPageUnbounded == view = "jobs" /\ Ask(filter, page - 1)
PrevPage == view = "jobs" /\ page > 1 /\ Ask(filter, page - 1)
OnFilter(f) == f # filter /\ Ask(f, 1)

\* The interval of the two pages that poll.
Poll ==
    /\ view \in {"overview", "mailboxes"} /\ loads < MaxLoads[view]
    /\ calls' = Append(calls, Call(filter, page)) /\ loads' = loads + 1
    /\ UNCHANGED <<faults, jobVars, unitVars, view, token, filter, page, data, error, walkVars>>

\* The answer of a call arrives; nothing ties it to what the page asks for now.
Arrives(i) == i = 1 \/ "reorder" \in faults

SetData(i) ==
    /\ Arrives(i) /\ At(i, "ok")
    /\ data' = <<calls[i]>> /\ error' = "none" /\ calls' = RemoveAt(calls, i)
    /\ IF view = "jobs" /\ patient
       THEN /\ there' = (IF calls[i].page = 1 THEN Got(i).all ELSE there)
            /\ seen' = (IF calls[i].page = 1 THEN {} ELSE seen) \cup Got(i).rows
       ELSE UNCHANGED <<there, seen>>
    /\ UNCHANGED <<faults, jobVars, unitVars, askVars, token, patient>>

SetError(i) ==
    /\ Arrives(i) /\ (At(i, "error") \/ At(i, "forbidden"))
    /\ error' = (IF error = "forbidden" THEN error ELSE calls[i].stage)
    /\ calls' = RemoveAt(calls, i)
    /\ UNCHANGED <<faults, jobVars, unitVars, askVars, token, data, walkVars>>

\* authFetch: 401, so refresh once and try again.  The new token is a new load,
\* which the effect calls as well.
AuthFetch(i) ==
    /\ Arrives(i) /\ At(i, "unauthorized") /\ "week" \notin faults /\ loads < MaxLoads[view]
    /\ token' = "renewed"
    /\ calls' = Append([calls EXCEPT ![i].stage = "guard", ![i].bearer = "renewed"],
                       [Call(filter, page) EXCEPT !.bearer = "renewed"])
    /\ loads' = loads + 1
    /\ UNCHANGED <<faults, jobVars, unitVars, view, filter, page, data, error, walkVars>>

\* The refresh fails as well: toLogin.
ToLogin(i) ==
    /\ Arrives(i) /\ At(i, "unauthorized") /\ "week" \in faults
    /\ view' = "login" /\ calls' = <<>>
    /\ UNCHANGED <<faults, jobVars, unitVars, token, filter, page, loads, data, error, walkVars>>

\* The access token expires, once, also for the calls that are on their way.
Expire ==
    /\ "expire" \in faults /\ token = "good" /\ token' = "expired"
    /\ calls' = [i \in DOMAIN calls |->
                   IF At(i, "guard") THEN [calls[i] EXCEPT !.bearer = "expired"] ELSE calls[i]]
    /\ UNCHANGED <<faults, jobVars, unitVars, askVars, data, error, walkVars>>

Hook(i) == SetData(i) \/ SetError(i) \/ AuthFetch(i) \/ ToLogin(i)

Next ==
    \/ \E j \in Job : InsertJob(j) \/ UpdateJobStatus(j)
    \/ Midnight \/ Expire
    \/ Connect \/ Disconnect \/ Heartbeat \/ SetPrinterState \/ MirrorLiveness \/ Tick
    \/ \E i \in DOMAIN calls : Handler(i) \/ Hook(i)
    \/ NextPage \/ PrevPage \/ Poll
    \/ \E f \in Filters : OnFilter(f)

Spec == Init /\ [][Next]_vars

----------------------------------------------------------------------------
(* Properties.                                                             *)

\* An operator who pages through all jobs from the first page to the last, waiting
\* for each, has seen every job there was when the walk began, although each page is
\* a query of its own and senders keep submitting: rows only ever move down.  (Under
\* a status filter they also leave the list, and paging by offset skips others.)
Walked ==
    /\ view = "jobs" /\ filter = "" /\ patient /\ OnScreen
    /\ page >= TotalPages(Shown)
PagesMissNone == Walked => there \subseteq seen

\* A job is on one of the overview's tiles (in queue, printing, failed, completed
\* today) unless it was delivered before today: the deliveries are counted after
\* the statuses, so a job that finishes between the two queries is counted twice
\* and never not at all.  (One that is printed a second time may be: it is no longer
\* 'delivered' when the deliveries are counted.)
OnATile(j, got) == got.counts[j] # "delivered" \/ j \in got.done \/ on[j] < got.since
TilesMissNone ==
    view = "overview" /\ "twice" \notin faults /\ data # <<>> =>
        \A j \in Job : data[1].got.counts[j] # "none" => OnATile(j, data[1].got)

\* What the dashboard shows leaves out no job that was there when it was asked.
NothingMissed == PagesMissNone /\ TilesMissNone

\* When nothing is in flight the table on screen is the one the filter and the page
\* number above it ask for, or an error says that it is not.  Answers must arrive in
\* the order of the calls: the hook does not drop those of an older path.
ShowsWhatIsAsked ==
    view = "jobs" /\ "reorder" \notin faults /\ calls = <<>> => OnScreen \/ error # "none"

\* A unit shown as offline is shown with a heartbeat at least as old as the lifetime
\* of the cached state, although the one is read from Postgres and the other from
\* Redis and the unit may register in between: the cache is written before the row
\* and read after it.
OfflineIsSilent ==
    view = "mailboxes" /\ faults \cap {"redis", "slow"} = {} =>
        \A i \in DOMAIN data :
            LET got == data[i].got
            IN  ~got.live /\ got.beat # 0 => got.at - got.beat >= TTL
----------------------------------------------------------------------------
(* Why they hold: an inductive invariant, by page.                         *)

\* jobs: the last call, if it arrives last, is for what the page asks, and while the
\* operator waits all are.
LastIsAsked ==
    /\ calls # <<>> /\ "reorder" \notin faults
         => calls[Len(calls)].filter = filter /\ calls[Len(calls)].page = page
    /\ patient => \A i \in DOMAIN calls : calls[i].filter = filter /\ calls[i].page = page

\* The rows among the first m: one that is not among them never comes up again.
Top(m) == {order[k] : k \in {l \in DOMAIN order : l <= m}}

\* What is there and not seen is below the pages that were listed, and the number
\* of jobs, which is read after them, says so.
Passed(some, known, p, n) ==
    some \cap Top(p * PerPage) \subseteq known /\ (n <= p * PerPage => some \subseteq known)
Walking == view = "jobs" /\ patient /\ filter = ""
WalkIsCovered ==
    Walking =>
        /\ there \cap Top(Offset(page)) \subseteq seen
        /\ OnScreen => Passed(there, seen, page, Shown)
ListsAreCovered ==
    Walking => \A i \in DOMAIN calls :
        LET some  == IF page = 1 THEN Got(i).all ELSE there
            known == IF page = 1 THEN Got(i).rows ELSE seen \cup Got(i).rows
        IN  /\ At(i, "second") => some \cap Top(page * PerPage) \subseteq known
            /\ At(i, "ok") => Passed(some, known, page, Got(i).n)
InTheTable ==
    /\ there \subseteq ToSet(order)
    /\ view = "jobs" => \A i \in DOMAIN calls : Got(i).all \subseteq ToSet(order)

\* overview: what was counted as delivered stays so, and its day with it.
CountsStand(got) == \A j \in Job : got.counts[j] = "delivered" => status[j] = "delivered"
Tiled(got) == \A j \in Job : got.counts[j] # "none" => OnATile(j, got)
CountsAreCovered ==
    view = "overview" /\ "twice" \notin faults =>
        /\ \A i \in DOMAIN calls : CountsStand(Got(i)) /\ (At(i, "ok") => Tiled(Got(i)))
        /\ \A i \in DOMAIN data : CountsStand(data[i].got) /\ Tiled(data[i].got)

\* mailboxes: the cached state outlives every heartbeat that Postgres has, by TTL.
Silent(got) == ~got.live /\ got.beat # 0 => got.at - got.beat >= TTL
CacheOutlives ==
    faults \cap {"redis", "slow"} = {} =>
        /\ frame = "mirror" => expiry = clock + TTL
        /\ expiry <= clock + TTL
        /\ beat # 0 => expiry >= beat + TTL
        /\ view = "mailboxes" => \A i \in DOMAIN calls :
              /\ (At(i, "second") \/ At(i, "third")) /\ Got(i).beat # 0 => expiry >= Got(i).beat + TTL
              /\ At(i, "ok") => Silent(Got(i))

AdminInv ==
    /\ LastIsAsked /\ WalkIsCovered /\ ListsAreCovered /\ InTheTable
    /\ CountsAreCovered /\ CacheOutlives /\ ShowsWhatIsAsked /\ OfflineIsSilent
=============================================================================
