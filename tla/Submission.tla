---------------------------- MODULE Submission ----------------------------
(***************************************************************************)
(* Submitting a document: the composer page of the portal, with its async  *)
(* onSubmit, and the handlers of the cloud that it calls.  The fields of   *)
(* the page stay editable while onSubmit runs, the access token may expire *)
(* under it, and a request may outlive the browser's interest in it.  Each *)
(* click on "Encrypt & send" has a number: its AES key, blob_ref and job   *)
(* are named after it, since each is made afresh.                          *)
(***************************************************************************)
EXTENDS Naturals

CONSTANTS
    Recipient, Mailbox, Doc,
    Home,       \* the mailbox of a recipient's slot at the start
    Matches,    \* what a search can ask for: the recipients that match the words
    MaxClick,   \* bound: clicks on "Encrypt & send"
    Environments,  \* the sets of faults to consider: subsets of FaultKinds
    None        \* no value

\* "net"     an await of onSubmit throws: a lost request or reply, an unreadable
\*           file, an upload URL past its 15 minutes
\* "db"      a call of CreateJob to Postgres, MinIO or TryDispatch fails
\* "expire"  the access token's 15 minutes pass
\* "move"    a recipient gets a slot of another mailbox, or leaves
FaultKinds == {"net", "db", "expire", "move"}

ASSUME SubmissionAssumption ==
    /\ Home \in [Recipient -> Mailbox] /\ Matches \subseteq SUBSET Recipient
    /\ None \notin Mailbox /\ None \notin Recipient /\ None \notin Doc
    /\ MaxClick \in Nat /\ Environments \subseteq SUBSET FaultKinds

VARIABLES
    faults,  \* what may go wrong in this behaviour, chosen at the start
    access,     \* the tab's access token
    home,       \* residents.slot_id: each recipient's mailbox, None if there is no row
    search,     \* what the search under way asks for, in {} or {query}
    results,    \* the recipients on the page
    selected,   \* the recipient chosen on the page
    file,       \* the document chosen on the page
    click,      \* clicks so far; the number of the current submission
    asked,      \* what the page showed when each click was made, and (history) the
                \* mailbox that the recipient had then
    page,       \* where onSubmit is
    held,       \* what onSubmit's closure holds: recipient, document, token
    pem,        \* the mailbox whose public key it has fetched
    blob,       \* blobs in object storage: the document and the AES key
    request,    \* the POST /jobs request of each click
    server,     \* where its CreateJob is
    mailbox,    \* the mailbox it resolved the recipient to
    job,        \* its row in jobs
    shown,      \* what the sender was told of it
    moved,      \* history: clicks whose recipient moved before CreateJob resolved it
    stale       \* history: clicks whose access token expired before OptionalAuth saw it

vars == <<faults, access, stale, home, moved, search, results, selected, file, click, asked, page, held,
          pem, blob, request, server, mailbox, job, shown>>
findVars == <<home, moved, search, results>>
pageVars == <<findVars, access, stale, selected, file, click, asked, held, pem, blob>>
serverVars == <<request, server, mailbox, job>>

Click  == 1..MaxClick
Places == {"idle", "key", "encrypt", "url", "upload", "create", "wait", "receipt", "account"}
Status == {"submitted", "queued", "dispatching"}
CallPlace == {"none", "auth", "resolve", "check", "insert", "audit", "dispatch", "reply", "over"}
Asked  == [to : Recipient, doc : Doc, at : Mailbox \cup {None}]
Held   == [to : Recipient, doc : Doc, token : BOOLEAN]
Blob   == [doc : Doc, key : Click]
Request == [to : Recipient, wrapped : Click, pem : Mailbox, blob : Click, token : BOOLEAN]
Job    == [mailbox : Mailbox, wrapped : Click, pem : Mailbox, blob : Click,
           owner : {"sender", "guest"}, status : Status]

ASSUME NoneAssumption == \A S \in {Asked, Held, Blob, Request, Job} : None \notin S

\* Every variable stays in its range.
TypeOK ==
    /\ faults \in Environments
    /\ access \in {"none", "valid", "expired"}
    /\ home \in [Recipient -> Mailbox \cup {None}]
    /\ search \subseteq Matches /\ results \subseteq Recipient
    /\ selected \in Recipient \cup {None} /\ file \in Doc \cup {None}
    /\ click \in 0..MaxClick
    /\ asked \in [Click -> Asked \cup {None}]
    /\ page \in Places
    /\ held \in Held \cup {None}
    /\ pem \in Mailbox \cup {None}
    /\ blob \in [Click -> Blob \cup {None}]
    /\ request \in [Click -> Request \cup {None}]
    /\ server \in [Click -> CallPlace]
    /\ mailbox \in [Click -> Mailbox \cup {None}]
    /\ job \in [Click -> Job \cup {None}]
    /\ shown \in [Click -> {"nothing", "error", "receipt", "account"}]
    /\ moved \subseteq Click /\ stale \subseteq Click

Init ==
    /\ faults \in Environments
    /\ access \in {"none", "valid"}
    /\ home = Home /\ search = {} /\ results = {}
    /\ selected = None /\ file = None /\ click = 0
    /\ asked = [c \in Click |-> None]
    /\ page = "idle" /\ held = None /\ pem = None
    /\ blob = [c \in Click |-> None]
    /\ request = [c \in Click |-> None]
    /\ server = [c \in Click |-> "none"]
    /\ job = [c \in Click |-> None]
    /\ mailbox = [c \in Click |-> None]
    /\ shown = [c \in Click |-> "nothing"]
    /\ moved = {} /\ stale = {}

----------------------------------------------------------------------------
(* The composer.                                                           *)

\* The page shows the composer, not a receipt or the account's page of a job.
Composing == page \notin {"receipt", "account"}

restOfPage == <<access, stale, selected, file, click, asked, page, held, pem, blob>>

\* onSearch.  The button is disabled while a search is under way, and works
\* while onSubmit runs.
OnSearch(q) ==
    /\ Composing /\ search = {} /\ search' = {q}
    /\ UNCHANGED <<faults, home, moved, results, restOfPage, serverVars, shown>>

\* The queries: a recipient with no slot is not found, and resolves to nothing.
ResolveRecipient(r) == home[r]
Found(q) == {r \in q : home[r] # None}

\* SearchRecipients answers, or the search fails.
SearchRecipients ==
    /\ \E q \in search : \/ results' = Found(q)
                         \/ "net" \in faults /\ UNCHANGED results
    /\ search' = {}
    /\ UNCHANGED <<faults, home, moved, restOfPage, serverVars, shown>>

\* A radio button of the search results; it works while onSubmit runs, too.  A
\* later search does not take the choice back.
Select(r) ==
    /\ Composing /\ r \in results /\ selected' = r
    /\ UNCHANGED <<faults, findVars, access, stale, file, click, asked, page, held, pem, blob, serverVars, shown>>

\* onPickFile: a file that is no PDF or too large empties the field.
OnPickFile(d) ==
    /\ Composing /\ file' = d
    /\ UNCHANGED <<faults, findVars, access, stale, selected, click, asked, page, held, pem, blob, serverVars, shown>>

\* The button is disabled while onSubmit runs or a field is empty.
OnSubmit ==
    /\ Composing /\ page = "idle" /\ selected # None /\ file # None /\ click < MaxClick
    /\ click' = click + 1
    /\ asked' = [asked EXCEPT ![click + 1] = [to |-> selected, doc |-> file, at |-> home[selected]]]
    /\ held' = [to |-> selected, doc |-> file, token |-> access # "none"]
    /\ page' = "key" /\ pem' = None
    /\ stale' = stale \cup (IF access = "expired" THEN {click + 1} ELSE {})
    /\ UNCHANGED <<faults, findVars, access, selected, file, blob, serverVars, shown>>

\* setError and setBusy(false); what was done stays done.
ShowError == page' = "idle" /\ shown' = [shown EXCEPT ![click] = "error"]

\* An await throws.
Throw ==
    /\ "net" \in faults /\ page \in Places \ {"idle", "receipt", "account"} /\ ShowError
    /\ UNCHANGED <<faults, pageVars, serverVars>>

\* getRecipientPublicKey and RecipientPublicKey.
FetchKeyUnchecked ==
    /\ page = "key" /\ page' = "encrypt"
    /\ pem' = ResolveRecipient(held.to)
    /\ UNCHANGED <<faults, findVars, access, stale, selected, file, click, asked, held, blob, serverVars, shown>>
FetchKey ==
    /\ page = "key"
    /\ \/ /\ ResolveRecipient(held.to) # None
          /\ pem' = ResolveRecipient(held.to) /\ page' = "encrypt" /\ UNCHANGED <<faults, shown>>
       \/ /\ ResolveRecipient(held.to) = None
          /\ ShowError /\ UNCHANGED <<faults, pem>>
    /\ UNCHANGED <<faults, findVars, access, stale, selected, file, click, asked, held, blob, serverVars>>

\* encryptDocument, with a new AES key; then UploadURL with a new blob_ref.
Encrypt ==
    /\ page = "encrypt" /\ page' = "url"
    /\ UNCHANGED <<faults, pageVars, serverVars, shown>>
RequestUploadURL ==
    /\ page = "url" /\ page' = "upload"
    /\ UNCHANGED <<faults, pageVars, serverVars, shown>>

\* uploadBlob: the ciphertext is stored under the click's blob_ref.
UploadCurrentFile ==
    /\ page = "upload"
    /\ blob' = [blob EXCEPT ![click] =
                  [doc |-> IF file = None THEN held.doc ELSE file, key |-> click]]
    /\ page' = "create"
    /\ UNCHANGED <<faults, findVars, access, stale, selected, file, click, asked, held, pem, serverVars, shown>>
UploadBlob ==
    /\ page = "upload"
    /\ blob' = [blob EXCEPT ![click] = [doc |-> held.doc, key |-> click]]
    /\ page' = "create"
    /\ UNCHANGED <<faults, findVars, access, stale, selected, file, click, asked, held, pem, serverVars, shown>>

\* createJob sends the request; the token is the one of the closure.
SendJob ==
    /\ page = "create" /\ page' = "wait"
    /\ request' = [request EXCEPT ![click] =
                     [to |-> held.to, wrapped |-> click, pem |-> pem, blob |-> click,
                      token |-> held.token]]
    /\ server' = [server EXCEPT ![click] = "auth"]
    /\ UNCHANGED <<faults, pageVars, mailbox, job, shown>>

----------------------------------------------------------------------------
(* POST /jobs.                                                             *)

Goto(c, place) == server' = [server EXCEPT ![c] = place]

\* WriteError: the request is over, and if the page still waits it throws.
Refuse(c) ==
    /\ Goto(c, "over")
    /\ IF page = "wait" /\ c = click THEN ShowError ELSE UNCHANGED <<faults, page, shown>>

\* optionalAuth lets a request with an expired token pass as a guest's: the
\* request keeps its token only if that is valid.
AlwaysGuest(c) ==
    /\ server[c] = "auth" /\ Goto(c, "resolve")
    /\ request' = [request EXCEPT ![c].token = FALSE]
    /\ UNCHANGED <<faults, pageVars, page, mailbox, job, shown>>
OptionalAuth(c) ==
    /\ server[c] = "auth" /\ Goto(c, "resolve")
    /\ request' = [request EXCEPT ![c].token = @ /\ access = "valid"]
    /\ UNCHANGED <<faults, pageVars, page, mailbox, job, shown>>

\* ResolveRecipient: once more, and nothing compares it with the key's mailbox.
Resolve(c) ==
    LET m == ResolveRecipient(request[c].to) IN
    /\ server[c] = "resolve"
    /\ \/ /\ m # None /\ mailbox' = [mailbox EXCEPT ![c] = m]
          /\ Goto(c, "check") /\ UNCHANGED <<page, shown>>
       \/ (m = None \/ "db" \in faults) /\ Refuse(c) /\ UNCHANGED mailbox
    /\ UNCHANGED <<faults, pageVars, request, job>>

\* BlobExists.
CheckBlob(c) ==
    /\ server[c] = "check"
    /\ \/ blob[request[c].blob] # None /\ Goto(c, "insert") /\ UNCHANGED <<page, shown>>
       \/ (blob[request[c].blob] = None \/ "db" \in faults) /\ Refuse(c)
    /\ UNCHANGED <<faults, pageVars, request, mailbox, job>>

\* InsertJob, with the sender's id or the hash of a new guest token.
InsertJob(c) ==
    /\ server[c] = "insert"
    /\ \/ /\ job' = [job EXCEPT ![c] =
                       [mailbox |-> mailbox[c], wrapped |-> request[c].wrapped,
                        pem |-> request[c].pem, blob |-> request[c].blob,
                        owner |-> IF request[c].token THEN "sender" ELSE "guest",
                        status |-> "submitted"]]
          /\ Goto(c, "audit") /\ UNCHANGED <<page, shown>>
       \/ "db" \in faults /\ Refuse(c) /\ UNCHANGED job
    /\ UNCHANGED <<faults, pageVars, request, mailbox>>

\* InsertAuditEvent "job_submitted".
Audit(c) ==
    /\ server[c] = "audit"
    /\ \/ Goto(c, "dispatch") /\ UNCHANGED <<page, shown>>
       \/ "db" \in faults /\ Refuse(c)
    /\ UNCHANGED <<faults, pageVars, request, mailbox, job>>

\* TryDispatch (module Dispatch has its steps): the job is handed to its printer
\* or queued; an error leaves the row at any point of the way.
TryDispatch(c) ==
    /\ server[c] = "dispatch"
    /\ \E s \in Status :
         /\ job' = [job EXCEPT ![c].status = s]
         /\ \/ s # "submitted" /\ Goto(c, "reply") /\ UNCHANGED <<page, shown>>
            \/ "db" \in faults /\ Refuse(c)
    /\ UNCHANGED <<faults, pageVars, request, mailbox>>

\* The 202.  A signed-in page goes to the account's page of the job and drops the
\* rest of the reply; a guest's page shows the token.
Reply(c) ==
    /\ server[c] = "reply" /\ Goto(c, "over")
    /\ \/ /\ page = "wait" /\ c = click
          /\ page' = IF held.token THEN "account" ELSE "receipt"
          /\ shown' = [shown EXCEPT ![c] = page']
       \/ ~(page = "wait" /\ c = click) /\ UNCHANGED <<page, shown>>
    /\ UNCHANGED <<faults, pageVars, request, mailbox, job>>

----------------------------------------------------------------------------

\* "Send another" keeps the recipient; a new visit to the composer keeps nothing.
SendAnother ==
    /\ ~Composing /\ page' = "idle" /\ file' = None
    /\ selected' = (IF page = "receipt" THEN selected ELSE None)
    /\ results' = (IF page = "receipt" THEN results ELSE {})
    /\ search' = (IF page = "receipt" THEN search ELSE {})
    /\ UNCHANGED <<faults, home, moved, access, stale, click, asked, held, pem, blob, serverVars, shown>>

AccessExpires ==
    /\ "expire" \in faults /\ access = "valid" /\ access' = "expired"
    /\ stale' = stale \cup {c \in Click : c <= click /\ server[c] \in {"none", "auth"}}
    /\ UNCHANGED <<faults, findVars, selected, file, click, asked, page, held, pem, blob, serverVars, shown>>

\* The operator reassigns a slot; each recipient moves once at most.
Move(r) ==
    /\ "move" \in faults /\ home[r] = Home[r]
    /\ \E m \in (Mailbox \cup {None}) \ {home[r]} : home' = [home EXCEPT ![r] = m]
    /\ moved' = moved \cup {c \in Click : asked[c] # None /\ asked[c].to = r /\ mailbox[c] = None}
    /\ UNCHANGED <<faults, search, results, restOfPage, serverVars, shown>>

Compose ==
    \/ \E q \in Matches : OnSearch(q)
    \/ SearchRecipients
    \/ \E r \in Recipient : Select(r)
    \/ \E d \in Doc \cup {None} : OnPickFile(d)
    \/ OnSubmit \/ SendAnother

Submit == Throw \/ FetchKey \/ Encrypt \/ RequestUploadURL \/ UploadBlob \/ SendJob

CreateJob(c) ==
    \/ OptionalAuth(c) \/ Resolve(c) \/ CheckBlob(c) \/ InsertJob(c)
    \/ Audit(c) \/ TryDispatch(c) \/ Reply(c)

Next ==
    \/ Compose \/ Submit \/ AccessExpires
    \/ \E c \in Click : CreateJob(c)
    \/ \E r \in Recipient : Move(r)

Spec == Init /\ [][Next]_vars

----------------------------------------------------------------------------
(* Properties.                                                             *)

\* What a click asked for is what its job does, whatever the sender edits or
\* searches while onSubmit runs and whichever requests are still under way: the job
\* names a blob that is stored and holds the document that was on the page, and
\* carries that blob's AES key; it goes to the mailbox that the chosen recipient had
\* at the click and the key is wrapped for that very mailbox, so the printer there
\* can open it.  The recipient is resolved twice, for the key and for the job, and
\* nothing compares the two: only a job whose own recipient moved in between, not
\* one of anybody else who moves, may be sealed for another mailbox.
SealedAsAsked ==
    \A c \in Click :
      job[c] # None =>
        LET j == job[c] IN
        /\ asked[c] # None /\ blob[j.blob] # None
        /\ blob[j.blob].doc = asked[c].doc /\ blob[j.blob].key = j.wrapped
        /\ c \notin moved => j.mailbox = asked[c].at /\ j.pem = asked[c].at

\* A sender who was told that the job is accepted can follow it: the account's
\* page opens the stream of a job of that account, a receipt shows the token of a
\* guest job ("Authenticated senders track from their account", app/page.tsx).
Trackable(c) ==
    /\ shown[c] = "account" => job[c].owner = "sender"
    /\ shown[c] = "receipt" => job[c].owner = "guest"

\* So it is for every click whose token was alive when OptionalAuth looked: what
\* that makes of the request is what the page believes, whatever else fails on the
\* way, and however many clicks lose their tokens (onSubmit, CreateJob).
TrackableWhileFresh == \A c \in Click \ stale : Trackable(c)

----------------------------------------------------------------------------
(* Why they hold: an inductive invariant.                                  *)

\* onSubmit's closure is what the page showed at the click, and holds what the
\* steps behind it have obtained.
Preparing == page \in {"key", "encrypt", "url", "upload", "create"}
ClosureHolds ==
    /\ click = 0 => page = "idle"
    /\ click # 0 => /\ held # None /\ asked[click] # None
                    /\ held.to = asked[click].to /\ held.doc = asked[click].doc
                    /\ pem # None /\ click \notin moved => pem = asked[click].at
    /\ Preparing => request[click] = None
    /\ page \in {"encrypt", "url", "upload", "create"} => pem # None
    /\ page = "create" => blob[click] # None
NotYetAsked ==
    \A c \in Click : c > click => blob[c] = None /\ request[c] = None /\ job[c] = None

\* Until CreateJob has resolved it, a recipient that has not moved is where it was.
HomesStay ==
    \A c \in Click \ moved :
        asked[c] # None /\ mailbox[c] = None => home[asked[c].to] = asked[c].at

\* Each stage has its predecessor's result, of the same click.
BlobsAsAsked ==
    \A c \in Click : blob[c] # None =>
        asked[c] # None /\ blob[c].doc = asked[c].doc /\ blob[c].key = c
RequestsAsAsked ==
    \A c \in Click : request[c] # None =>
        /\ blob[c] # None /\ asked[c] # None /\ request[c].to = asked[c].to
        /\ request[c].wrapped = c /\ request[c].blob = c
        /\ c \notin moved => request[c].pem = asked[c].at
CallsInHand ==
    \A c \in Click :
        /\ server[c] # "none" => request[c] # None
        /\ server[c] \in {"none", "auth", "resolve"} => mailbox[c] = None /\ job[c] = None
        /\ server[c] \in {"check", "insert"} => mailbox[c] # None /\ job[c] = None
        /\ server[c] \in {"audit", "dispatch", "reply"} => job[c] # None
ResolvedAsAsked ==
    \A c \in Click \ moved : mailbox[c] # None => mailbox[c] = asked[c].at
JobsAsAsked ==
    \A c \in Click : job[c] # None =>
        /\ blob[c] # None /\ asked[c] # None /\ job[c].wrapped = c /\ job[c].blob = c
        /\ c \notin moved => job[c].mailbox = asked[c].at /\ job[c].pem = asked[c].at

\* Page, request, job and what was shown agree on whether there is a token.
SignedIn == access = "valid"
PageAgrees ==
    click # 0 /\ click \notin stale =>
        /\ request[click] = None => (held.token <=> SignedIn)
        /\ request[click] # None => (held.token <=> request[click].token)
CallAgrees(c) ==
    /\ c \notin stale /\ server[c] = "auth" => (request[c].token <=> SignedIn)
    /\ job[c] # None => job[c].owner = IF request[c].token THEN "sender" ELSE "guest"
    /\ shown[c] \in {"account", "receipt"} => job[c] # None
    /\ c \notin stale => Trackable(c)
AgreeOnToken == PageAgrees /\ \A c \in Click : CallAgrees(c)

SubmissionInv == /\ ClosureHolds /\ NotYetAsked /\ HomesStay /\ BlobsAsAsked /\ RequestsAsAsked
                 /\ CallsInHand /\ ResolvedAsAsked /\ JobsAsAsked /\ AgreeOnToken
============================================================================
