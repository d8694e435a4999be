# Automail: TLA+ verification

Automail sends a document, encrypted in the sender's browser, to a physical
mailbox that prints it. A horizontally scaled cloud tier (Go) stores the
ciphertext, routes jobs and relays status; a printer unit (Go) behind every
mailbox decrypts, prints and wipes; a portal (Next.js) is the sender's side.
Postgres, Redis and MinIO hold everything the cloud nodes share.

This directory models that system in TLA+, checks small instances with TLC and
proves every safety result for every instance with TLAPS. `PROJECT.json` lists
runs, mutants, theorems, findings and, for every definition, the source lines
it models.

## 1. Inventory

| Component | State it keeps | Operations | Interacts with |
|---|---|---|---|
| Dispatch path: `dispatch/route.go`, `dispatch/dispatcher.go`, `CreateJob` | `jobs` row and its row lock, `jobs:pending` entry, PEL, batch in hand | TryDispatch, Retry, attemptDispatch (eligible, claim, presign, publish, revert, audit), enqueue, Run (available event, sweep), drain, reclaim, handle, ack | Postgres, Redis stream and pub/sub, MinIO, printer link |
| Job lifecycle: `db/schema.sql`, `db/queries.sql` | `jobs.status` | InsertJob, MarkJobDispatching, RequeueJob, UpdateJobStatus | everything that writes a row |
| Consumer group: `dispatch/dispatcher.go`, `main.go` | group, consumers, idle times, PELs | EnsureGroup, XREADGROUP, XAUTOCLAIM, XACK, RemoveConsumer, ReapStaleConsumers | Redis, the node's start and stop |
| Printer link: `link/`, `store/`, printer `wsclient.go`, `keepalive.go` | registry per node, dispatch subscription, cached printer state with its TTL, slot occupancy | Accept (register, subscribe, seed), readLoop, onState, teardown; dial, keepalive, recordDelivery | dispatch path, printer pipeline |
| Status stream: `StreamJob`, `onStatus`, `/track` and `/jobs/[id]` pages | subscription buffer, snapshot, what the page shows | authorize, subscribe, snapshot, relay, drain, EventSource handlers | Postgres, `job:<id>:status`, shutdown |
| Sessions: `handlers/auth.go`, `middleware.go`, `lib/auth.tsx` | `senders`, `refresh_tokens`, the cookie, access tokens per tab | Register, Login, Refresh, Logout, expiry | portal proxy, submission |
| Submission: `app/page.tsx`, `lib/api.ts`, `lib/encrypt.ts`, `recipients.go`, `CreateJob` | the form, onSubmit's closure, recipients and their slots, blobs, jobs | search, choose, submit (key, encrypt, upload URL, upload, create), show result | sessions, MinIO, dispatch path |
| Printer pipeline: `main.go`, `config.go`, `print.go`, `crypto.go` | passphrase and key material, plaintext buffers, tmpfs files | load the key; fetch, unwrap, decrypt, write, lp, remove, report; stop | printer link |
| Graceful shutdown: `main.go`, `shutdown.go`, `Hub.Close`, printer `runClient` | step, deadline, drain channel, listeners, a printer's attempts | six steps under one deadline; dial, fail, back off, dial elsewhere | dispatcher loop, streams, sockets |
| Admin dashboard: `handlers/admin.go`, `lib/admin.ts`, `app/admin/*` | calls in flight, the answer on screen, page and filter | AdminJobs, AdminSummary, AdminMailboxes query by query; poll, turn the page, filter, retry after 401 | Postgres, Redis, sessions, the hub's liveness mirror |
| History page | none of its own | one read-only query | Postgres |
| mTLS, pprof, printer health | configuration | start-up only | - |

What is hard here: a job's ownership is spread over a Postgres row, a Redis
stream entry and a frame on a socket, changed in separate calls by workers on
several nodes, each of which may fail, be lost or be followed by a crash;
printers reconnect between nodes while older handlers are still tearing down;
status travels over a lossy channel that is joined to a snapshot; the dashboard
joins queries that see different states of two stores; shutdown has to end things
that do not end by themselves; and on the printer no path may leave plaintext
behind. `PROJECT.json` lists these as hazards, each at its line,
with the properties aimed at it.

What makes each component correct: a job is printed at most once and an accepted
job is not forgotten (dispatch); a status never skips the documented graph
(lifecycle); deleting consumers destroys no work (group); the cache does not
promise what the channel cannot keep and follows the slot (link); a
watcher misses nothing and is told the end (stream); a refresh token that has
served is dead and logging out ends the session (sessions); a job is what its click asked
for, and can be tracked (submission); nothing is left behind, and 'delivered'
means printed and wiped (pipeline); a stopping node cuts nothing off, stops, and
loses its printers to other nodes (shutdown); what the dashboard shows leaves
nothing out and is what was asked for (admin).

## 2. Modules

Every call to a shared service is a step of its own, so actors interleave
between any two calls. What may go wrong in a behaviour is the variable `faults`,
chosen at the start from the constant `Environments` and named per module in
`FaultKinds`; a property that needs something to be absent says so in its own
statement (`"ackLost" \notin faults => ...`). Data is abstracted to what properties
tell apart: documents, keys and tokens are names, ciphertexts open or do not.

| Module | Models | Remarks |
|---|---|---|
| `Dispatch` | the dispatch path | Composes request goroutines, the dispatcher of each node, the hub's relay and `onStatus`, and the printer's goroutines. `pc` is a worker's place in `attemptDispatch`; `cur` the job it holds; `todo` what `onStatus` still has to do after its UPDATE (audit, publish, delete the blob), which other actors or a crash may come before. A job has at most one live stream entry, since `enqueue` is called at most once per job, so the entry is a field of the job. |
| `JobLifecycle` | the transition graph of `schema.sql:81-86` | Abstract specification; `Dispatch` implements it with `status <- row` (`FollowsLifecycle`). |
| `ConsumerGroup` | group membership | Two goroutines per node: `process` is where main is, `reader` where the dispatcher's loop is. A process may come back under its name. XAUTOCLAIM's cursor is modelled: a pass looks at `Page` entries at a time and may end at an empty page. `raced` notes what a consumer read after its deleter's XPENDING. Names that `Shutdown` has as well begin with Group. What an attempt does is abstracted to its outcome. |
| `PrinterLink` | one printer, its connections, its cached state | Connections are numbered; a handler may outlive its connection. The printer may restart, and then counts its slot from zero. The compartment is only ever filled: nothing in the code notices that mail is collected, so a collection changes no state of the program (`print.go:45-57`). |
| `DispatchChannel` | the contract between the two | Abstract specification: whether the cached state invites a dispatch, and whether the live socket, only dead ones or nobody listens on `mailbox:<id>:dispatch`. `PrinterLink` implements it (`KeepsTheChannel`); `Dispatch` takes its steps for the link's. |
| `StatusStream` | one job, several viewers | `hub` is the gap between the row's update and its publication; either may fail. The job may be printed twice, so that its statuses begin again. `missed` notes the pages that the latest publication did not reach. |
| `Session` | one account, several tabs, one cookie | Tokens are numbered in the order issued. `spent`, `late`, `orphans` and `left` note which tokens have served, which calls came after that, which exchanges were cut off, and whether the sender has logged out. |
| `Submission` | one composer page and its clicks | `held` is what onSubmit's closure captured, `selected`/`file` what the page shows now; `home` is the residents table, read by every query anew; CreateJob resolves, checks the blob, inserts, audits and dispatches in separate steps. `moved` and `stale` note the clicks whose recipient moved, or whose token had expired, before CreateJob looked. |
| `PrintPipeline` | one printer process | `epoch` is the connection whose context a goroutine runs under; `secrets` what key material is in the clear after each step of loading the key, the passphrase's immutable string included. A fetch may stall for as long as its connection lives. `spoilt` notes the jobs of which a failed write or unlink left a file. |
| `Shutdown` | one node going down, and its printers finding another | `wedged` is what hangs; `closing` the snapshot `Hub.Close` takes; `BackoffWithJitter` computes as int64 does. |
| `Admin` | the ops dashboard | A behaviour follows one open page: its calls, the handlers query by query, and what changes meanwhile (jobs, possibly skipping 'printing' or beginning again, or a unit's liveness in its two stores). |
| `MC*` | instances for TLC | Model values, symmetry sets, `MailboxOf`, `Credential`, `Home`, bounds by page. |
| `DispatchProofs`, `PrinterLinkProofs`, `StatusStreamProofs`, `SessionProofs`, `SubmissionProofs`, `PrintPipelineProofs`, `AdminProofs`, `NodeProofs` | theorems | Each extends the module it is about; `NodeProofs`, about a node's place in the group and its end, extends `Shutdown` and `ConsumerGroup`. The conjuncts of an inductive invariant stand at the end of that module, where TLC can be asked about them, or, if they only serve the proof, in the proof module. See section 5. |

How they compose. `Dispatch` holds everything a job touches: request goroutines,
dispatchers, relay, `onStatus` and the printer's goroutines; it knows the link only
through the steps of `DispatchChannel`. `PrinterLink` holds everything a connection
touches and abstracts a job to the stages the link sees; that it implements
`DispatchChannel` under every fault it models, for any number of connections, is
checked and proved, and makes the two halves one system. The mapping: `open` is "the cached occupancy leaves room", `link` is "up" if
the live connection's handler is subscribed, "stale" if only others are, and "down"
if nobody is; `breaks` is whether connections can be lost at all. `JobLifecycle` is
the second abstract specification, implemented by `Dispatch` (checked and proved). The remaining modules
share with these only what their headers say (a row's status, a stream's end, a
token) and are checked on their own.

Some definitions have a neighbour that stands before them and differs in one guard
or assignment (`Claimable` and `ClaimableAlsoDispatching`, `Seed` and `SeedFirst`).
The neighbour is what a plausible slip in that code would give; `PROJECT.json` lists
them as mutants, and putting one in the place of its original makes TLC find the
property violated. No specification uses them.

## 3. Runs

### Passing

| Run | Instance | Environments | Checks |
|---|---|---|---|
| `dispatch_safe` | 1 job, 2 nodes | db, commitLost, crash; crash, link; commitLost, slow; link, slow; db, slow; redis, minio, crash; redis, minio, slow; ackLost | TypeOK; NeverPrintedTwice, BlobKeptUntilDelivered, DeliveredWasPrinted, AcceptedIsNotOrphaned, ClaimedIsDriven; FollowsLifecycle: `Dispatch` implements `JobLifecycle`. |
| `dispatch_live` | 2 jobs, each with its mailbox, 1 node, batches of 1 | none | QueuedIsClaimed: the sweep retries what a blocked attempt left in the PEL, beyond a full batch. |
| `group` | 2 nodes, each started up to twice, 1 entry | crash; grace, redis; pause | GroupTypeOK; NothingLost (NoneSkipped and NothingDestroyed), ReadersStay; GoneIsRemoved. |
| `link` | 2 nodes, 2 connections, 2 jobs, a slot of 1 | link, late; redis; crash, restart | TypeOK; LiveIsRegistered, CacheNeverAhead; KeepsTheChannel: `PrinterLink` implements `DispatchChannel`; CacheConverges. |
| `stream` | 2 viewers, one with a wrong credential, 4 status frames | lost, gone, redis, db; drain, gone, lost, twice | TypeOK; NoGap, NeverBack; ToldIfUndisturbed. |
| `session` | 2 tabs whose calls overlap freely, 4 tokens | none; db, lost, expire, week | TypeOK; JarIsGood; SpentIsDead. |
| `submit` | 2 recipients of 2 mailboxes, 2 documents, 2 clicks | net, db; expire; move | TypeOK; SealedAsAsked, TrackableWhileFresh. |
| `pipeline` | 3 goroutines, 2 jobs (one unopenable), 2 connections | break, stall, hang; break, fetch, open, short, lp, unlink; boot, plain; boot, stop | TypeOK; NoResidue, DeliveredIsWiped; EndIsReported. |
| `shutdown` | 1 request, 2 streams, 1 printer with up to 65 attempts behind it | redial; outage; deadline, wedge, redial; deadline, wedge, kill | TypeOK; NothingCut; BackoffHolds, against the doubling it documents; Stops: by itself where nothing hangs, by the deadline where anything may; PrintersRehome. |
| `admin` | 3 jobs in pages of one; 2 jobs and a midnight; one unit, 4 intervals, a TTL of 2 | db; expire; twice; reorder, redis, slow; expire, week, sender | TypeOK; NothingMissed (PagesMissNone and TilesMissNone), ShowsWhatIsAsked, OfflineIsSilent. |

### Violated: what a comment or document says and the code does not do

| Run | Property | Trace in a sentence |
|---|---|---|
| `dispatch_v_crash` | NoDispatchLost | Crash between claim and PUBLISH; the reclaimer takes the 'dispatching' row for settled and acknowledges ("No dispatch is lost", `plans/03-scaling.md:168`). |
| `stream_v_drain` | ToldOfTheEnd | A drained stream makes the page close its EventSource, which therefore does not reconnect (`handlers/jobs.go:311-315` says it does). |

`PROJECT.json`'s findings quote the text each one contradicts.

### Limits of the properties

Each condition inside a property marks a place where the code does not do what a
comment or a document says without that condition. Dropping the condition makes
TLC produce the trace. Where it can, a condition excuses only the one job, click,
entry, token or page that the fault really hit, and the property still holds of all
the others in the same behaviour: a history variable (`cut`, `raced`, `missed`,
`late`, `orphans`, `moved`, `stale`, `spoilt`) says which these are.

| Property and its condition | What happens beyond it | The text |
|---|---|---|
| NeverPrintedTwice, without ackLost | PUBLISH is performed and its reply lost; the claim is reverted and the job is sent again (`route.go:242`). | "What guarantees a job is never printed twice is the Postgres row lock" (`README.md:132-133`) |
| AcceptedIsNotOrphaned, without slow | A reclaim overtakes a live node, acknowledges the entry as settled, and the overtaken node reverts its claim (`route.go:339`). | "no longer this node's concern, and never will be again" (`route.go:134-135`) |
| QueuedIsClaimed, with the sweep's fairness | Available events run `drain`, which reads only new entries, never those in a PEL (`dispatcher.go:125`). | "so the next mailbox:<id>:available event or XAUTOCLAIM sweep retries the same entry" (`dispatcher.go:168-170`) |
| FollowsLifecycle, without db and ackLost | The 'printing' update fails and the 'delivered' one succeeds (`hub.go:220`). | "Allowed status transitions (enforced in application logic)" (`db/schema.sql:81-86`) |
| ClaimedIsDriven, with processes, Postgres and replies that hold; a job whose own frame, or report, was lost with a socket is excused | The row stays 'dispatching': no code looks for such rows. That is so after a crash, after a revert that fails, and after a frame sent into a broken socket (`hub.go:284`). | - |
| BlobKeptUntilDelivered's second half, without minio and crash | A delivered job's blob stays: `onStatus` logs a failed delete and nothing tries again (`hub.go:257-264`). | - |
| NothingLost and ReadersStay, for an entry read by a revived consumer after its deleter's XPENDING | A container restarted under its NODE_ID, or a node that was paused for `reapMinIdle`, reads entries between the reaper's XPENDING and DELCONSUMER (`dispatcher.go:286`): these are destroyed. Nothing else is, however often processes come back. | "reaping can never destroy work that XAUTOCLAIM is about to reclaim" (`dispatcher.go:304-306`) |
| LiveIsRegistered, without late | A handler that reads its register frame late puts a dead connection over the live one (`registry.go:29`). | "the per-node map of mailbox_id -> live socket" (`registry.go:8`) |
| CacheConverges, up to `MaxSlot` | Nothing counts dispatches in flight, so a slot can be overfilled; the printer's count is capped and hides it (`route.go:283`). The state word never leaves "idle", so a printing printer is sent a second job (`print.go:31`). | "no new jobs are dispatched to it" (`plans/08-data-models.md:89`); "the printer must be idle" (`route.go:280-282`) |
| CacheConverges, CacheNeverAhead, with restart only as the new process counts | The count is memory of the printer's process: after a restart the cache says there is room in a full compartment (`print.go:34`). | - |
| TrackableWhileFresh, for clicks whose token lived when `optionalAuth` looked | `createJob` is not retried after a refresh and `optionalAuth` lets an expired token pass as nobody: the job is a guest's, and the page drops its token (`middleware.go:45`, `app/page.tsx:204-205`). | "Authenticated senders track from their account" (`app/page.tsx:187-188`) |
| SealedAsAsked's mailbox, for clicks whose own recipient did not move before the job was resolved | The recipient is resolved for the key and again for the job; a slot reassigned in between gives a job its printer cannot open (`jobs.go:97`). A later search does not clear the selected recipient either: the click still means the one selected. | - |
| SpentIsDead's first half, for refreshes sent after the exchange was committed | Two refreshes under way at once pass the check before either revokes, and both are answered with a new token (`auth.go:151`). | "The refresh token is single-use" (`auth.go:140-141`) |
| SpentIsDead's second half, for a Logout that was answered and that no refresh crossed | With an expired access token logout is refused and the cookie survives (`lib/auth.tsx:88`, `middleware.go:57-74`); a refresh that was under way puts its own cookie back after Logout has cleared the jar. | "Revokes the refresh token in the DB and clears the cookie" (`auth.go:180-181`) |
| JarIsGood, but for an exchange cut off after its revocation | Refresh revokes and then cannot issue, or its answer is lost: the cookie names a dead token and the session is over (`auth.go:161`). | - |
| NoGap and ToldIfUndisturbed, for pages that the publication reached | PUBLISH is fire and forget: whoever the last one does not reach sits on an open stream (`hub.go:236`). | - |
| ToldIfUndisturbed, without drain and twice | A drained page gives up (run `stream_v_drain`); a second printing moves the row on after the page was told its first end. | - |
| NoResidue's files, for jobs whose write and unlink did not fail | A write that fails half way leaves a partial file (`print.go:182`), until a later frame of the job removes it. | "any tmpfs file is removed" (`print.go:136-138`) |
| NoResidue's key material, but for the passphrase's string and pbkdf2Key's block | `os.Getenv` gives an immutable string that nothing can wipe (printer `main.go:46-49`); the working block of the key derivation is not wiped. | - |
| DeliveredIsWiped, for a job with one frame | Two goroutines of one job share a file name; one reports while the other has written it again. | - |
| NothingCut says nothing of printers | A printer that dials again, or is registered after `Hub.Close`'s snapshot, gets no goodbye and ends with the process (`hub.go:116`); PrintersRehome shows that it finds another node all the same. | "Close tells every printer connected to this node that the node is going away" (`hub.go:101-102`) |
| EndIsReported, NoResidue, with hang, stall and stop | `lp` runs without a context: a hung spooler keeps its goroutine and the file (`print.go:80`). The blob is fetched by `http.DefaultClient`, which has no timeout: a silent server holds the goroutine until the connection to the cloud is gone (`print.go:85-98`). SIGTERM does not wait for goroutines: a file being printed stays on the tmpfs (printer `main.go:38`). Each of these excuses its own goroutine only. | - |
| NothingMissed, without a filter, for rows with distinct created_at, and its tiles without twice | Under a status filter rows leave the list while pages are turned, and paging by offset skips others (`admin.go:67`); so may ties, since ORDER BY has no tie-break (`queries.sql:180`). A job printed a second time is no longer 'delivered' when the deliveries are counted. | - |
| ShowsWhatIsAsked, without reorder | `useAdminData` takes every answer as it comes: one of an older path can replace a newer one (`lib/admin.ts:53`). | - |
| OfflineIsSilent, without redis and slow | A state frame whose SET fails, or that takes an interval to handle, leaves the two stores apart. | - |

Smaller disagreements met while modelling, for which no property is stated:
`plans/07-ops-dashboard.md:47` says a unit is offline with "no heartbeat in last 2×
interval", while the cached state lives 90 s, three intervals of 30 s; a comment of
`AdminMailboxes` says that the status column of `mailboxes` is never updated, while
`mirrorLiveness` updates it; and the offset is clamped to 32 bits only after
`(page-1)*perPage`, which can wrap, is computed.  That two registrations at once can
both pass the check for an existing address is said by the code itself
(`auth.go:225-230`) and part of `Session`'s type invariant.

### Bounds, and why they suffice

- Two nodes: every race in the code is between two of {request, dispatcher,
  reclaimer, reaper}. One job is enough for the races over a row and its entry; two
  jobs meet only in batches, in the liveness run, where `BatchSize = 1` and
  `MaxDrainBatches = 1` (10 and 20 in the code) make both caps be met. The theorems
  of section 5 hold for any number of jobs.
- The environments of `dispatch_safe` pair the faults that interact (a crash with a
  lost commit, a slow node with a broken link) and keep each state space small;
  every property meets environments its condition admits.
- `MaxFrames = 2` in `dispatch_safe`: the second frame of a job is the error the property looks for.
  In the liveness run one frame per job (`MaxFrames = 1`) keeps the graph small.
- `MaxStarts = 2`: a container that restarts in place, under its old consumer name.
- `Page`, the entries one XAUTOCLAIM looks at, is 10 * Count in Redis. `Dispatch` has no
  cursor: a pass there may end, with aged entries left, whenever `Page` entries are not
  aged yet. It is 2 in `dispatch_live`, where all entries fit into one look, as up to
  100 do in Redis. `ConsumerGroup` has the cursor. With one entry
  TLC does not meet a pass that ends at an empty page before the last; the theorems
  about the group, which hold for any number of entries, do.
- `MaxFrames = 4` in `stream`: one printing and the beginning of another.
- `MaxMoves` in `Admin`: how many status changes happen while a page is open.
- `MaxConns`, `MaxWire`: an old, a current and a newer connection; a frame in
  flight behind another. `MaxSlot` is small so that the slot is filled.
- In `link` "link" and "late" are paired because a late handler needs a lost
  connection; crash and restart because each replaces what the other remembers.
- `Attempts` and `MaxFail`: between them every attempt number from 0 to 65 occurs,
  past the last shift that can change anything. The arithmetic is in units of 512 ns
  since TLC's integers have 32 bits; a second is an odd number of units, so the sign
  and the order of the 64-bit products are kept.
- `Admin`: the pages read disjoint state, so each has bounds of its own. A page of
  one row makes three jobs a walk of three pages; two calls in flight suffice for
  one answer to overtake another; one midnight separates "today" from before.
- `MaxReopen`, `MaxTok`, `MaxClick`, `MaxConn`, `Copies`, `MaxDial`: enough for
  one more round after everything has happened once.
- Deadlock is checked in `Dispatch`, whose dispatchers never stop. The others say
  `CHECK_DEADLOCK FALSE`: pages are closed, tokens and clicks run out, the process
  exits.

### Fairness

- A goroutine that can take a step takes it (WF on each worker's steps): nothing
  in the code parks one except the calls modelled as failing.
- `Available` and `Sweep` have SF: Go's `select` chooses among ready cases at
  random, so neither is starved by the other.
- Entries grow old and idle consumers go stale: time passes.
- In `ConsumerGroup` main and the loop each go on (WF on EnsureGroup, ShutDown and the
  loop's steps), and SF on the sweep's tick as above; nobody has to start a process.
- Printers keep dialling (`runClient` never gives up) and keep sending keepalives.
  While the link is up their state frames are handled (`Dispatch` asks for no more
  than that of a broken one).
- In `Shutdown`, requests are served and sockets answer unless wedged, and the
  deadline arrives; clients never have to leave a stream. A printer's read or ping
  fails on a socket that is gone, and it dials until another node answers: the
  balancer does not send it back to a closed listener for ever.
- In `StatusStream` nothing makes a job progress or a viewer come; what is written is
  published and relayed.
- In `PrintPipeline` a goroutine goes on unless it waits for `lp` or for a silent blob
  server: neither wait has to end, but a fetch does when its connection's context does.

## 4. What the models assume of external services

Postgres: statements are atomic, `FOR UPDATE NOWAIT` excludes, a lost connection
rolls back and releases the lock, a COMMIT may be applied and reported failed.
Redis: commands are atomic; pub/sub reaches the present subscribers once or not at
all; DELCONSUMER discards the PEL; XAUTOCLAIM takes entries idle for
`claimMinIdle`. MinIO: an upload is there once confirmed. The browser sends the
cookie that is in the jar when a request starts, and applies Set-Cookie when its
answer arrives. No two jobs of the
dashboard's table have the same created_at. `http.Server.Shutdown` waits for requests, does not cancel them and
ignores hijacked connections.

## 5. Proofs

Every safety invariant and action property of the passing runs is a theorem for
every value of the constants. The runs
show each on a small instance, with its mutant; the theorems carry it to any number
of jobs, nodes, connections, viewers, tabs, clicks, goroutines and requests. A
property's condition on `faults` is part of its statement, so a theorem holds in
every environment, and says nothing where section 3, limits, shows that the
condition is needed.

### Assumptions

A theorem rests on the named `ASSUME`s of its module, which TLC evaluates on every
run. They say that the bounds are numbers, that `Environments` are sets of
`FaultKinds` and that functions among the constants have their types. More than that:

- `Dispatch`: jobs and nodes, which both name workers, are apart, and `None` is neither;
  batches are not empty.
- `Session`: the tabs are finitely many (`TypeOK` bounds the accounts of one address
  by their number).
- `Submission`: `None`, which stands for a missing row, form field or request, is no
  member of the sets it is added to.
- `PrintPipeline`: goroutines are finitely many, "none" is no job, and there is at
  least one connection (`TypeOK` numbers them from 1).
- `Shutdown`: `MaxBack` is from 1 to 1000 seconds (RECONNECT_MAX_BACKOFF, 30 by
  default). Within that range whatever a shift beyond 30 leaves above zero exceeds the
  cap, which is how `Exceeds` compares products TLC could not hold.
- `Admin`: jobs are finitely many, since they are counted; `PerPage`, `TTL` and
  `MaxClock` are at least 1.
- `ConsumerGroup`: `Count` and `Page` are at least 1, and `None` is no node or entry.

### Inductive invariants

No property listed here is inductive as it stands, apart from `LiveIsRegistered`;
`BackoffHolds` follows from the types.

| Theorem | Property | What it needs besides the types |
|---|---|---|
| `DispatchProofs!PrintedOnce` | NeverPrintedTwice | `OneFrameInv` (theorem `OneFrame`), see below. |
| `DispatchProofs!RecordsTellTheTruth` | DeliveredWasPrinted | `PrintedInv`: a 'delivered' report on its way, like a delivered row, has a printed frame, and a frame is never sent into a place already used. |
| `DispatchProofs!BlobIsKept` | BlobKeptUntilDelivered | `StoryInv`, over `OneFrameInv`: a job's row, its frame, the reports on their way and the link's cuts tell one story; a row that is final has nothing on its way, and the delete that `onStatus` still has to do stands in `todo` (`Spent`). |
| `DispatchProofs!KeepsToLifecycle` | FollowsLifecycle (refinement of `JobLifecycle`) | `TellingInv`, over the two above: row and reports together are a prefix of the documented path, and a step maps to an edge or a stutter. |
| `DispatchProofs!ClaimsAreDriven` | ClaimedIsDriven | `DrivenInv`: before the frame is sent, the worker that claimed the row still has it in hand; after that the frame is kept, or lost with its socket (`Lost`), and `TellingInv` says who speaks next. |
| `DispatchProofs!AcceptedHasEntry` | AcceptedIsNotOrphaned | `NotOrphanedInv`: entries in a batch or in hand are fresh PEL entries of that dispatcher, so no other one can reclaim or acknowledge them; a claim in progress is stable; the request goroutine is first. |
| `NodeProofs!LosesNothing`, `!ReadersKeepTheirPlace` | NothingLost, ReadersStay | `GroupInv`, for any number of restarts and with pauses: what a consumer about to be deleted has pending was read after its deleter's XPENDING (`DeletesOnlyTheDrained`), and one found stale is over unless it was revived (`StaleIsOver`); over `Members` and `LifeCycle`. `GroupBeforeServing`: only a serving node adds entries, and it serves only after `EnsureGroup`. |
| `PrinterLinkProofs!LiveStaysRegistered` | LiveIsRegistered | Types only: `Remove` takes nothing but the handler's own entry. |
| `PrinterLinkProofs!NeverAhead` | CacheNeverAhead | `CountsPieces`: the count and the pieces not counted yet are at most what the compartment holds; and every frame on a wire, in a handler's or the keepalive's hands carries what `CacheNeverAhead` says of the cache. |
| `PrinterLinkProofs!KeepsToTheChannel` | KeepsTheChannel (refinement of `DispatchChannel`) | `ChannelInv`: subscribers are handlers between SUBSCRIBE and its deferred end, one past its last read has lost its socket, and without lost connections every handler serves the live one. |
| `StatusStreamProofs!NothingIsMissed`, `!PageNeverGoesBack` | NoGap, NeverBack | `StreamInv`: what a subscription received last is the row, unless the publication missed it; a final status ends the stream; between snapshot and its writing, the row is the snapshot or on its way. |
| `SessionProofs!JarStaysGood`, `!SpentTokensAreDead` | JarIsGood, SpentIsDead | `SessionInv`, with overlapping calls and every fault: what each call in flight carries was issued; a spent token stays revoked (`SpentAreDead`), so a call that comes late fails its check; a token between its issue and its reply is known to that call only (`OnlyInReply`). |
| `SubmissionProofs!JobsAreSealedAsAsked`, `!AcceptedIsTrackable` | SealedAsAsked, TrackableWhileFresh | `SubmissionInv`: closure, blob, request and handler each agree with the click they come from, as far as its recipient has not moved, and with what the page believes about the token, as long as that click's is fresh. |
| `PrintPipelineProofs!NothingIsLeft`, `!DeliveredMeansWiped` | NoResidue, DeliveredIsWiped | `PipelineInv`: the key material at each step of main, the buffers at each stage, a goroutine for every file of a job that is not spoilt (however many share its name), and a count of prints by frames that are through `lp`. |
| `NodeProofs!ShutdownCutsNothing` | NothingCut | `ShutdownInv`: each listener is closed from its step on; past `wait-public` within the deadline nothing is in flight; nothing is cut before the exit. |
| `NodeProofs!DelayNeverWraps` | BackoffHolds | `DelayIsTheDoubling`, a fact about the operator for every attempt number: up to a shift of 30 the product is exact and exceeds the cap exactly where the doubling does; beyond, what 64 bits keep of it is zero, negative or more than the cap. The powers in question are finitely many, so no induction is needed. |
| `AdminProofs!LeavesNothingOut` | NothingMissed | `WalkIsCovered`, `ListsAreCovered`, `InTheTable`: an insertion moves rows down and nothing moves one up, so what a walk has not seen is below the pages it has listed; the number of jobs is read after the rows, so the last page is not taken for the last too early. `CountsAreCovered`: unless a job is printed twice, what was counted as delivered stays so, with its day, until the deliveries are read. |
| `AdminProofs!ShowsWhatItSays` | ShowsWhatIsAsked | `LastIsAsked`: where answers keep their order, the last call in flight is for the filter and page chosen; every choice makes a call. |
| `AdminProofs!OfflineUnitsAreSilent` | OfflineIsSilent | `CacheOutlives`: the cached state outlives by TTL every heartbeat that the row has, or that a handler has read and not yet joined with the cache. |
| `TypeCorrect`, one per module (`GroupTypeCorrect` for `ConsumerGroup`) | TypeOK | In `PrintPipeline` and `Session` the count behind a bound (`PrintsCounted`, `AccountsBounded`), in `Submission` and `Shutdown` the whole invariant, in `PrinterLink` that a handler about to seed the cache has its register frame (`FrameToRead`); in `Admin` that no job is in the table twice, so that counts and page numbers are bounded by the jobs. |

`OneFrameInv` in more detail: `NeverPrintedTwice` needs that at most one frame was
ever sent (`FramesFollowClaims`); which needs that a worker about to publish is alone
and the row says 'dispatching' (`ClaimIsExclusive`); which needs that the row lock is
held exactly between lock and commit and that nobody moves the row meanwhile
(`LockIsHeldInClaim`); and that a worker in the attempt has a job in hand
(`HandsAreFull`). It holds unless a PUBLISH can be performed and reported as failed.

How the proofs are laid out. Init and Next are taken action by action. Where several
invariants of one module meet the same long actions, a first layer says once what
each action does, point by point, as a "move" (`JobMoves` in `DispatchProofs`, `Moves`
in `SubmissionProofs` and `PrintPipelineProofs`), and one lemma per conjunct then
takes the moves; the theorems only combine these lemmas. `AdminProofs` says instead of
each call after a step where it comes from: it was there before, perhaps a query
further, or it is fresh (`MovesTrace`). TLC has agreed to every
invariant of the table that stands in a component's module, as an invariant of that
module's run, before it was proved; no run keeps it, since what it is for is checked
there and it is proved.

What the attempts showed of the model: with `MaxConn = 0` the type invariant of
`PrintPipeline` was false in the initial state, and with infinitely many tabs or
goroutines two bounds had no meaning; likewise `MaxClock = 0` in `Admin`. The
assumptions now exclude these. In `Admin` the rows a query keeps are a set of places in
the table, and a page the rows with so many kept ones above them, which is what LIMIT
and OFFSET say and needs no induction over the table. No property turned out to be
false.

### Only model-checked

- Liveness (`QueuedIsClaimed`, `GoneIsRemoved`, `CacheConverges`, `ToldIfUndisturbed`,
  `EndIsReported`, `Stops`, `PrintersRehome`): fairness and ENABLED are out of the
  prover's reach.
- The two violated properties: their traces are TLC's.

## 6. Plan

Built, in order of importance: dispatch path and lifecycle; consumer group; status
stream; printer link; sessions; submission; printer pipeline; shutdown; then the
contract `DispatchChannel` that joins link and dispatch, the admin dashboard,
recipient search, key loading, the printer's restart, hang and stop, and its dial
loop with the backoff; then the proofs of section 5.

Left: a theorem that composes the two refinements, `Dispatch` with `PrinterLink` in the
place of `DispatchChannel`. Each half is proved against the contract; what is missing is
one state space in which a job's stage and the link's stages of it are the same variable.

## 7. Not modelled

- The history page, the health endpoints and the node header: a single read each.
- The collection of mail from a compartment: no code notices it.
- The numbers of the admin pages that repeat `PrinterLink`'s cached occupancy, and
  the clamps of page parameters the portal never sends.
- Cryptography itself (RSA-OAEP, AES, PBKDF2, bcrypt, JWT signatures):
  a ciphertext opens or it does not, a token is good, expired or absent.
- Malformed frames and stream entries: logged and dropped by the code, written by
  nothing in it.
- TLS configuration, pprof, deployment files, scripts, generated query code
  (its queries are modelled where an action issues them), layout and wording.
