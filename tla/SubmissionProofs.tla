-------------------------- MODULE SubmissionProofs --------------------------
(***************************************************************************)
(* Proofs about submission, for any recipients, documents, clicks and      *)
(* faults: every variable keeps its type, a job is sealed as its click     *)
(* asked, and a sender whose access token is alive can follow it.          *)
(***************************************************************************)
EXTENDS Submission, TLAPS

----------------------------------------------------------------------------
(* What a step does to the submissions, point by point.                    *)

\* Only the page moves on, falls back to the composer, or shows an error.
Turns ==
    /\ \/ page' = page \/ page' = "idle"
       \/ page = "encrypt" /\ page' = "url"
       \/ page = "url" /\ page' = "upload"
    /\ \A c \in Click : shown'[c] = shown[c] \/ shown'[c] = "error"
    /\ UNCHANGED <<faults, access, home, moved, stale, click, asked, held, pem, blob, request, server, mailbox, job>>

\* A click: the page's fields go into the closure.
Asks ==
    /\ click' = click + 1 /\ click' \in Click
    /\ asked'[click'] # None /\ held' # None
    /\ held'.to = asked'[click'].to /\ held'.doc = asked'[click'].doc
    /\ asked'[click'].at = home[held'.to]
    /\ stale \subseteq stale' /\ (access = "expired" => click' \in stale')
    /\ held'.token <=> access # "none"
    /\ \A c \in Click : c # click' => asked'[c] = asked[c]
    /\ page' = "key" /\ pem' = None
    /\ UNCHANGED <<faults, access, home, moved, blob, request, server, mailbox, job, shown>>

\* The recipient's key arrives.
Fetches ==
    /\ page = "key" /\ page' = "encrypt" /\ pem' = home[held.to] /\ pem' # None
    /\ UNCHANGED <<faults, access, home, moved, stale, click, asked, held, blob, request, server, mailbox, job, shown>>

\* The ciphertext is stored.
Uploads ==
    /\ page = "upload" /\ page' = "create" /\ click \in Click
    /\ blob'[click] # None /\ blob'[click].doc = held.doc /\ blob'[click].key = click
    /\ \A c \in Click : c # click => blob'[c] = blob[c]
    /\ UNCHANGED <<faults, access, home, moved, stale, click, asked, held, pem, request, server, mailbox, job, shown>>

\* The request is sent.
Sends ==
    /\ page = "create" /\ page' = "wait" /\ click \in Click
    /\ request'[click] # None /\ request'[click].to = held.to
    /\ request'[click].wrapped = click /\ request'[click].pem = pem
    /\ request'[click].blob = click /\ request'[click].token = held.token
    /\ server'[click] = "auth"
    /\ \A c \in Click : c # click => request'[c] = request[c] /\ server'[c] = server[c]
    /\ UNCHANGED <<faults, access, home, moved, stale, click, asked, held, pem, blob, mailbox, job, shown>>

\* The request loses a token that is not valid.
Auths(c) ==
    /\ server[c] = "auth" /\ server'[c] = "resolve" /\ request'[c] # None
    /\ request'[c].to = request[c].to /\ request'[c].wrapped = request[c].wrapped
    /\ request'[c].pem = request[c].pem /\ request'[c].blob = request[c].blob
    /\ request'[c].token <=> request[c].token /\ access = "valid"
    /\ \A d \in Click : d # c => request'[d] = request[d] /\ server'[d] = server[d]
    /\ UNCHANGED <<faults, access, home, moved, stale, click, asked, page, held, pem, blob, mailbox, job, shown>>

\* The recipient is resolved to its mailbox.
Resolves(c) ==
    /\ server[c] = "resolve" /\ server'[c] = "check"
    /\ mailbox'[c] = home[request[c].to] /\ mailbox'[c] # None
    /\ \A d \in Click : d # c => mailbox'[d] = mailbox[d] /\ server'[d] = server[d]
    /\ UNCHANGED <<faults, access, home, moved, stale, click, asked, page, held, pem, blob, request, job, shown>>

\* The row is inserted.
Inserts(c) ==
    /\ server[c] = "insert" /\ server'[c] = "audit" /\ job'[c] # None
    /\ job'[c].mailbox = mailbox[c] /\ job'[c].wrapped = request[c].wrapped
    /\ job'[c].pem = request[c].pem /\ job'[c].blob = request[c].blob
    /\ job'[c].owner = IF request[c].token THEN "sender" ELSE "guest"
    /\ \A d \in Click : d # c => job'[d] = job[d] /\ server'[d] = server[d]
    /\ UNCHANGED <<faults, access, home, moved, stale, click, asked, page, held, pem, blob, request, mailbox, shown>>

\* CreateJob goes on or refuses; a row keeps all but its status.
Proceeds(c) ==
    /\ server[c] \in {"resolve", "check", "insert", "audit", "dispatch"}
    /\ \/ server'[c] = "over"
       \/ server[c] = "check" /\ server'[c] = "insert"
       \/ server[c] \in {"audit", "dispatch"} /\ server'[c] \in {"dispatch", "reply"}
    /\ \A d \in Click : d # c => job'[d] = job[d] /\ server'[d] = server[d]
    /\ \/ job'[c] = job[c]
       \/ /\ job[c] # None /\ job'[c] # None
          /\ job'[c].mailbox = job[c].mailbox /\ job'[c].wrapped = job[c].wrapped
          /\ job'[c].pem = job[c].pem /\ job'[c].blob = job[c].blob
          /\ job'[c].owner = job[c].owner
    /\ page' = page \/ page' = "idle"
    /\ \A d \in Click : shown'[d] = shown[d] \/ shown'[d] = "error"
    /\ UNCHANGED <<faults, access, home, moved, stale, click, asked, held, pem, blob, request, mailbox>>

\* The 202 arrives, or nobody waits for it.
Replies(c) ==
    /\ server[c] = "reply" /\ server'[c] = "over"
    /\ \A d \in Click : d # c => shown'[d] = shown[d] /\ server'[d] = server[d]
    /\ \/ page' = page /\ shown'[c] = shown[c]
       \/ /\ page = "wait" /\ c = click /\ page' \in {"account", "receipt"}
          /\ page' = "account" <=> held.token
          /\ shown'[c] = page'
    /\ UNCHANGED <<faults, access, home, moved, stale, click, asked, held, pem, blob, request, mailbox, job>>

\* The access token expires: the clicks it served are stale unless their requests
\* are past OptionalAuth.
Expires ==
    /\ stale \subseteq stale'
    /\ \A c \in Click : c <= click /\ server[c] \in {"none", "auth"} => c \in stale'
    /\ UNCHANGED <<faults, home, moved, click, asked, page, held, pem, blob, request, server, mailbox, job, shown>>

\* A recipient moves under the clicks that CreateJob has not resolved.
Relocates ==
    /\ moved \subseteq moved'
    /\ \E r \in Recipient :
         /\ \A q \in Recipient : q # r => home'[q] = home[q]
         /\ \A c \in Click :
              asked[c] # None /\ asked[c].to = r /\ mailbox[c] = None => c \in moved'
    /\ UNCHANGED <<faults, access, stale, click, asked, page, held, pem, blob, request, server, mailbox, job, shown>>

Moves ==
    \/ Turns \/ Asks \/ Fetches \/ Uploads \/ Sends \/ Expires \/ Relocates
    \/ \E c \in Click : Auths(c) \/ Resolves(c) \/ Inserts(c) \/ Proceeds(c) \/ Replies(c)

----------------------------------------------------------------------------
(* Types, and what each action does.                                       *)

\* A composite value is never None.
LEMMA NotNone ==
  /\ \A x \in Asked : x # None
  /\ \A x \in Held : x # None
  /\ \A x \in Blob : x # None
  /\ \A x \in Request : x # None
  /\ \A x \in Job : x # None
  BY NoneAssumption

LEMMA InitTypes == Init => TypeOK
  BY SubmissionAssumption DEF Init, TypeOK, Places, CallPlace

\* The composer's own actions, and the page's steps without a result.
LEMMA TurnIs ==
  ASSUME TypeOK,
         \/ \E q \in Matches : OnSearch(q)
         \/ SearchRecipients
         \/ \E r \in Recipient : Select(r)
         \/ \E d \in Doc \cup {None} : OnPickFile(d)
         \/ SendAnother \/ Throw \/ Encrypt \/ RequestUploadURL \/ UNCHANGED vars
  PROVE  TypeOK' /\ Turns
  <1> USE DEF pageVars, findVars, serverVars, restOfPage
  <1>1. ASSUME NEW q \in Matches, OnSearch(q) PROVE TypeOK' /\ Turns
    BY <1>1 DEF OnSearch, TypeOK, Turns
  <1>2. CASE SearchRecipients
    <2>1. PICK q \in search : results' = Found(q) \/ UNCHANGED results
      BY <1>2 DEF SearchRecipients
    <2>2. q \subseteq Recipient
      BY SubmissionAssumption DEF TypeOK
    <2>3. results' \subseteq Recipient
      BY <2>1, <2>2 DEF Found, TypeOK
    <2>4. /\ search' = {}
          /\ UNCHANGED <<faults, home, moved, access, stale, selected, file, click, asked, page, held, pem,
                         blob, request, server, mailbox, job, shown>>
      BY <1>2 DEF SearchRecipients
    <2> QED BY <2>3, <2>4 DEF TypeOK, Turns
  <1>3. ASSUME NEW r \in Recipient, Select(r) PROVE TypeOK' /\ Turns
    BY <1>3 DEF Select, TypeOK, Turns
  <1>4. ASSUME NEW d \in Doc \cup {None}, OnPickFile(d) PROVE TypeOK' /\ Turns
    BY <1>4 DEF OnPickFile, TypeOK, Turns
  <1>5. CASE SendAnother
    BY <1>5 DEF SendAnother, TypeOK, Turns, Places
  <1>6. CASE Throw
    BY <1>6 DEF Throw, ShowError, TypeOK, Turns, Places
  <1>7. CASE Encrypt \/ RequestUploadURL
    BY <1>7 DEF Encrypt, RequestUploadURL, TypeOK, Turns, Places
  <1>8. CASE UNCHANGED vars
    BY <1>8 DEF vars, TypeOK, Turns
  <1> QED BY <1>1, <1>2, <1>3, <1>4, <1>5, <1>6, <1>7, <1>8

LEMMA AskIs ==
  ASSUME TypeOK, OnSubmit
  PROVE  TypeOK' /\ Asks
  <1> DEFINE a == [to |-> selected, doc |-> file, at |-> home[selected]]
             h == [to |-> selected, doc |-> file, token |-> access # "none"]
  <1>1. selected \in Recipient /\ file \in Doc
    BY DEF OnSubmit, TypeOK
  <1>2. a \in Asked /\ h \in Held
    BY <1>1 DEF Asked, Held, TypeOK
  <1>3. a # None /\ h # None
    BY <1>2, NotNone
  <1>4. click + 1 \in Click /\ click \in Nat /\ click + 1 \in 0..MaxClick
    BY SubmissionAssumption DEF OnSubmit, TypeOK, Click
  <1>5. /\ click' = click + 1 /\ asked' = [asked EXCEPT ![click + 1] = a] /\ held' = h
        /\ page' = "key" /\ pem' = None
        /\ UNCHANGED <<faults, home, moved, search, results, access, selected, file, blob, request,
                       server, mailbox, job, shown>>
        /\ stale' = stale \cup (IF access = "expired" THEN {click + 1} ELSE {})
    BY DEF OnSubmit, findVars, serverVars
  <1>6. /\ asked'[click'] = a /\ \A c \in Click : c # click' => asked'[c] = asked[c]
        /\ asked' \in [Click -> Asked \cup {None}]
    BY <1>2, <1>4, <1>5 DEF TypeOK
  <1>7. Asks
    BY <1>3, <1>4, <1>5, <1>6 DEF Asks
  <1>8. TypeOK'
    BY <1>2, <1>4, <1>5, <1>6 DEF TypeOK, Places
  <1> QED BY <1>7, <1>8

LEMMA FetchIs ==
  ASSUME TypeOK, ClosureHolds, FetchKey
  PROVE  TypeOK' /\ (Fetches \/ Turns)
  <1>0. page = "key" /\ click # 0 /\ held \in Held
    BY DEF FetchKey, ClosureHolds, TypeOK
  <1>1. held.to \in Recipient
    BY <1>0 DEF Held
  <1>2. UNCHANGED <<faults, home, moved, search, results, access, stale, selected, file, click, asked, held,
                    blob, request, server, mailbox, job>>
    BY DEF FetchKey, findVars, serverVars
  <1>3. CASE ResolveRecipient(held.to) # None
    <2>1. pem' = home[held.to] /\ pem' # None /\ page' = "encrypt" /\ UNCHANGED shown
      BY <1>3 DEF FetchKey, ResolveRecipient
    <2>2. pem' \in Mailbox \cup {None}
      BY <1>1, <2>1 DEF TypeOK
    <2> QED BY <1>0, <1>2, <2>1, <2>2 DEF TypeOK, Fetches, Places
  <1>4. CASE ResolveRecipient(held.to) = None
    <2>1. page' = "idle" /\ UNCHANGED pem /\ shown' = [shown EXCEPT ![click] = "error"]
      BY <1>4 DEF FetchKey, ShowError
    <2> QED BY <1>2, <2>1 DEF TypeOK, Turns, Places
  <1> QED BY <1>3, <1>4

LEMMA UploadIs ==
  ASSUME TypeOK, ClosureHolds, UploadBlob
  PROVE  TypeOK' /\ Uploads
  <1> DEFINE b == [doc |-> held.doc, key |-> click]
  <1>1. page = "upload" /\ click \in Click /\ held \in Held
    BY SubmissionAssumption DEF UploadBlob, ClosureHolds, TypeOK, Click
  <1>2. b \in Blob
    BY <1>1 DEF Held, Blob
  <1>3. /\ page' = "create" /\ blob' = [blob EXCEPT ![click] = b]
        /\ UNCHANGED <<faults, home, moved, search, results, access, stale, selected, file, click, asked, held,
                       pem, request, server, mailbox, job, shown>>
    BY DEF UploadBlob, findVars, serverVars
  <1>4. /\ blob'[click] = b /\ \A c \in Click : c # click => blob'[c] = blob[c]
        /\ blob' \in [Click -> Blob \cup {None}]
    BY <1>1, <1>2, <1>3 DEF TypeOK
  <1>5. b # None
    BY <1>2, NotNone
  <1>6. Uploads
    BY <1>1, <1>3, <1>4, <1>5 DEF Uploads
  <1>7. TypeOK'
    BY <1>3, <1>4 DEF TypeOK, Places
  <1> QED BY <1>6, <1>7

LEMMA SendIs ==
  ASSUME TypeOK, ClosureHolds, SendJob
  PROVE  TypeOK' /\ Sends
  <1> DEFINE q == [to |-> held.to, wrapped |-> click, pem |-> pem, blob |-> click,
                   token |-> held.token]
  <1>1. page = "create" /\ click \in Click /\ held \in Held /\ pem \in Mailbox
    BY SubmissionAssumption DEF SendJob, ClosureHolds, TypeOK, Click
  <1>2. q \in Request
    BY <1>1 DEF Held, Request
  <1>3. /\ page' = "wait" /\ request' = [request EXCEPT ![click] = q]
        /\ server' = [server EXCEPT ![click] = "auth"]
        /\ UNCHANGED <<faults, home, moved, search, results, access, stale, selected, file, click, asked, held,
                       pem, blob, mailbox, job, shown>>
    BY DEF SendJob, pageVars, findVars
  <1>4. /\ request'[click] = q /\ \A c \in Click : c # click => request'[c] = request[c]
        /\ request' \in [Click -> Request \cup {None}]
    BY <1>1, <1>2, <1>3 DEF TypeOK
  <1>5. /\ server'[click] = "auth" /\ \A c \in Click : c # click => server'[c] = server[c]
        /\ server' \in [Click -> CallPlace]
    BY <1>1, <1>3 DEF TypeOK, CallPlace
  <1>6. q # None
    BY <1>2, NotNone
  <1>7. Sends
    BY <1>1, <1>3, <1>4, <1>5, <1>6 DEF Sends
  <1>8. TypeOK'
    BY <1>3, <1>4, <1>5 DEF TypeOK, Places
  <1> QED BY <1>7, <1>8

\* Goto moves one CreateJob.
LEMMA GotoIs ==
  ASSUME TypeOK, NEW c \in Click, Goto(c, "resolve") \/ Goto(c, "check") \/ Goto(c, "insert") \/ Goto(c, "audit") \/ Goto(c, "dispatch")
                                  \/ Goto(c, "reply") \/ Goto(c, "over")
  PROVE  /\ server' \in [Click -> CallPlace]
         /\ \A d \in Click : d # c => server'[d] = server[d]
         /\ Goto(c, "resolve") => server'[c] = "resolve"
         /\ Goto(c, "check") => server'[c] = "check"
         /\ Goto(c, "insert") => server'[c] = "insert"
         /\ Goto(c, "audit") => server'[c] = "audit"
         /\ Goto(c, "dispatch") => server'[c] = "dispatch"
         /\ Goto(c, "reply") => server'[c] = "reply"
         /\ Goto(c, "over") => server'[c] = "over"
  BY DEF Goto, TypeOK, CallPlace

LEMMA AuthIs ==
  ASSUME TypeOK, CallsInHand, NEW c \in Click, OptionalAuth(c)
  PROVE  TypeOK' /\ Auths(c)
  <1> DEFINE q == [request[c] EXCEPT !.token = @ /\ access = "valid"]
  <1>1. server[c] = "auth" /\ request[c] \in Request
    BY DEF OptionalAuth, CallsInHand, TypeOK
  <1>2. /\ q \in Request /\ q.to = request[c].to /\ q.wrapped = request[c].wrapped
        /\ q.pem = request[c].pem /\ q.blob = request[c].blob
        /\ q.token <=> request[c].token /\ access = "valid"
    BY <1>1 DEF Request
  <1>3. /\ request' = [request EXCEPT ![c] = q]
        /\ UNCHANGED <<faults, home, moved, search, results, access, stale, selected, file, click, asked, page,
                       held, pem, blob, mailbox, job, shown>>
    BY DEF OptionalAuth, pageVars, findVars
  <1>4. /\ request'[c] = q /\ \A d \in Click : d # c => request'[d] = request[d]
        /\ request' \in [Click -> Request \cup {None}]
    BY <1>2, <1>3 DEF TypeOK
  <1>5. /\ server' \in [Click -> CallPlace]
        /\ \A d \in Click : d # c => server'[d] = server[d]
        /\ server'[c] = "resolve"
    BY GotoIs DEF OptionalAuth
  <1>6. q # None
    BY <1>2, NotNone
  <1>7. Auths(c)
    BY <1>1, <1>2, <1>3, <1>4, <1>5, <1>6 DEF Auths
  <1>8. TypeOK'
    BY <1>3, <1>4, <1>5 DEF TypeOK
  <1> QED BY <1>7, <1>8

\* WriteError ends the call, and may show an error.
LEMMA RefuseIs ==
  ASSUME TypeOK, NEW c \in Click, Refuse(c)
  PROVE  /\ server' \in [Click -> CallPlace]
         /\ \A d \in Click : d # c => server'[d] = server[d]
         /\ server'[c] = "over"
         /\ page' = page \/ page' = "idle"
         /\ \A d \in Click : shown'[d] = shown[d] \/ shown'[d] = "error"
         /\ page' \in Places
         /\ shown' \in [Click -> {"nothing", "error", "receipt", "account"}]
  <1>1. /\ server' \in [Click -> CallPlace]
        /\ \A d \in Click : d # c => server'[d] = server[d]
        /\ server'[c] = "over"
    BY GotoIs DEF Refuse
  <1>2. CASE page = "wait" /\ c = click
    <2>1. page' = "idle" /\ shown' = [shown EXCEPT ![click] = "error"]
      BY <1>2 DEF Refuse, ShowError
    <2> QED BY <1>1, <2>1 DEF TypeOK, Places
  <1>3. CASE ~(page = "wait" /\ c = click)
    <2>1. page' = page /\ shown' = shown
      BY <1>3 DEF Refuse
    <2> QED BY <1>1, <2>1 DEF TypeOK
  <1> QED BY <1>2, <1>3

\* A call that is refused goes on nowhere.
LEMMA RefusedIs ==
  ASSUME TypeOK, NEW c \in Click, Refuse(c),
         server[c] \in {"resolve", "check", "insert", "audit", "dispatch"},
         UNCHANGED <<faults, pageVars, request, mailbox, job>>
  PROVE  TypeOK' /\ Proceeds(c)
  <1>1. UNCHANGED <<faults, home, moved, search, results, access, stale, selected, file, click, asked,
                    held, pem, blob, request, mailbox, job>>
    BY DEF pageVars, findVars
  <1>2. Proceeds(c)
    BY <1>1, RefuseIs DEF Proceeds
  <1>3. server' \in [Click -> CallPlace] /\ page' \in Places
        /\ shown' \in [Click -> {"nothing", "error", "receipt", "account"}]
    BY RefuseIs
  <1>4. TypeOK'
    BY <1>1, <1>3 DEF TypeOK
  <1> QED BY <1>2, <1>4

LEMMA ResolveIs ==
  ASSUME TypeOK, CallsInHand, NEW c \in Click, Resolve(c)
  PROVE  TypeOK' /\ (Resolves(c) \/ Proceeds(c))
  <1> DEFINE m == ResolveRecipient(request[c].to)
  <1>0. UNCHANGED <<faults, home, moved, search, results, access, stale, selected, file, click, asked,
                    held, pem, blob, request, job>>
    BY DEF Resolve, pageVars, findVars
  <1>1. server[c] = "resolve" /\ request[c] \in Request
    BY DEF Resolve, CallsInHand, TypeOK
  <1>2. CASE Refuse(c) /\ UNCHANGED mailbox
    <2>1. UNCHANGED <<faults, pageVars, request, mailbox, job>>
      BY <1>2 DEF Resolve
    <2> QED BY <1>1, <1>2, <2>1, RefusedIs
  <1>3. CASE m # None /\ mailbox' = [mailbox EXCEPT ![c] = m] /\ Goto(c, "check")
             /\ UNCHANGED <<page, shown>>
    <2>1. m \in Mailbox /\ m = home[request[c].to]
      BY <1>1, <1>3 DEF ResolveRecipient, TypeOK, Request
    <2>2. /\ mailbox'[c] = m /\ \A d \in Click : d # c => mailbox'[d] = mailbox[d]
          /\ mailbox' \in [Click -> Mailbox \cup {None}]
      BY <1>3, <2>1 DEF TypeOK
    <2>3. /\ server' \in [Click -> CallPlace]
          /\ \A d \in Click : d # c => server'[d] = server[d]
          /\ server'[c] = "check"
      BY <1>3, GotoIs
    <2>4. Resolves(c)
      BY <1>0, <1>1, <1>3, <2>1, <2>2, <2>3 DEF Resolves
    <2>5. TypeOK'
      BY <1>0, <1>3, <2>2, <2>3 DEF TypeOK
    <2> QED BY <2>4, <2>5
  <1> QED BY <1>2, <1>3 DEF Resolve

LEMMA CheckIs ==
  ASSUME TypeOK, NEW c \in Click, CheckBlob(c)
  PROVE  TypeOK' /\ Proceeds(c)
  <1>0. UNCHANGED <<faults, pageVars, request, mailbox, job>> /\ server[c] = "check"
    BY DEF CheckBlob
  <1>1. CASE Refuse(c)
    BY <1>0, <1>1, RefusedIs
  <1>2. CASE Goto(c, "insert") /\ UNCHANGED <<page, shown>>
    <2>1. UNCHANGED <<faults, home, moved, search, results, access, stale, selected, file, click, asked,
                      held, pem, blob, request, mailbox, job, page, shown>>
      BY <1>0, <1>2 DEF pageVars, findVars
    <2>2. /\ server' \in [Click -> CallPlace]
          /\ \A d \in Click : d # c => server'[d] = server[d]
          /\ server'[c] = "insert"
      BY <1>2, GotoIs
    <2>3. Proceeds(c)
      BY <1>0, <2>1, <2>2 DEF Proceeds
    <2>4. TypeOK'
      BY <2>1, <2>2 DEF TypeOK
    <2> QED BY <2>3, <2>4
  <1> QED BY <1>1, <1>2 DEF CheckBlob

LEMMA InsertIs ==
  ASSUME TypeOK, CallsInHand, NEW c \in Click, InsertJob(c)
  PROVE  TypeOK' /\ (Inserts(c) \/ Proceeds(c))
  <1>0. UNCHANGED <<faults, home, moved, search, results, access, stale, selected, file, click, asked,
                    held, pem, blob, request, mailbox>>
    BY DEF InsertJob, pageVars, findVars
  <1>1. server[c] = "insert" /\ request[c] \in Request /\ mailbox[c] \in Mailbox
    BY DEF InsertJob, CallsInHand, TypeOK
  <1>2. CASE Refuse(c) /\ UNCHANGED job
    <2>1. UNCHANGED <<faults, pageVars, request, mailbox, job>>
      BY <1>2 DEF InsertJob
    <2> QED BY <1>1, <1>2, <2>1, RefusedIs
  <1>3. CASE ~(Refuse(c) /\ UNCHANGED job)
    <2> DEFINE j == [mailbox |-> mailbox[c], wrapped |-> request[c].wrapped,
                     pem |-> request[c].pem, blob |-> request[c].blob,
                     owner |-> IF request[c].token THEN "sender" ELSE "guest",
                     status |-> "submitted"]
    <2>1. /\ job' = [job EXCEPT ![c] = j] /\ Goto(c, "audit")
          /\ UNCHANGED <<page, shown>>
      BY <1>3 DEF InsertJob
    <2>3. j \in Job
      BY <1>1 DEF Job, Request, Status
    <2>4. /\ job'[c] = j /\ \A d \in Click : d # c => job'[d] = job[d]
          /\ job' \in [Click -> Job \cup {None}]
      BY <2>1, <2>3 DEF TypeOK
    <2>5. /\ server' \in [Click -> CallPlace]
          /\ \A d \in Click : d # c => server'[d] = server[d]
          /\ server'[c] = "audit"
      BY <2>1, GotoIs
    <2>6. j # None
      BY <2>3, NotNone
    <2>7. Inserts(c)
      BY <1>0, <1>1, <2>1, <2>4, <2>5, <2>6 DEF Inserts
    <2>8. TypeOK'
      BY <1>0, <2>1, <2>4, <2>5 DEF TypeOK
    <2> QED BY <2>7, <2>8
  <1> QED BY <1>2, <1>3 DEF InsertJob

LEMMA AuditIs ==
  ASSUME TypeOK, NEW c \in Click, Audit(c)
  PROVE  TypeOK' /\ Proceeds(c)
  <1>0. /\ server[c] = "audit"
        /\ UNCHANGED <<faults, home, moved, search, results, access, stale, selected, file, click, asked, held,
                       pem, blob, request, mailbox, job>>
    BY DEF Audit, pageVars, findVars
  <1>1. /\ server' \in [Click -> CallPlace]
        /\ \A d \in Click : d # c => server'[d] = server[d]
        /\ server'[c] \in {"dispatch", "over"}
        /\ page' = page \/ page' = "idle"
        /\ \A d \in Click : shown'[d] = shown[d] \/ shown'[d] = "error"
        /\ page' \in Places
        /\ shown' \in [Click -> {"nothing", "error", "receipt", "account"}]
    <2>1. CASE Refuse(c)
      BY <2>1, RefuseIs
    <2>2. CASE Goto(c, "dispatch") /\ UNCHANGED <<page, shown>>
      BY <2>2, GotoIs DEF TypeOK
    <2> QED BY <2>1, <2>2 DEF Audit
  <1> QED BY <1>0, <1>1 DEF Proceeds, TypeOK

LEMMA DispatchIs ==
  ASSUME TypeOK, CallsInHand, NEW c \in Click, TryDispatch(c)
  PROVE  TypeOK' /\ Proceeds(c)
  <1>0. /\ server[c] = "dispatch"
        /\ UNCHANGED <<faults, home, moved, search, results, access, stale, selected, file, click, asked, held,
                       pem, blob, request, mailbox>>
    BY DEF TryDispatch, pageVars, findVars
  <1>1. /\ server' \in [Click -> CallPlace]
        /\ \A d \in Click : d # c => server'[d] = server[d]
        /\ server'[c] \in {"reply", "over"}
        /\ page' = page \/ page' = "idle"
        /\ \A d \in Click : shown'[d] = shown[d] \/ shown'[d] = "error"
        /\ page' \in Places
        /\ shown' \in [Click -> {"nothing", "error", "receipt", "account"}]
    <2>1. CASE Refuse(c)
      BY <2>1, RefuseIs
    <2>2. CASE Goto(c, "reply") /\ UNCHANGED <<page, shown>>
      BY <2>2, GotoIs DEF TypeOK
    <2> QED BY <2>1, <2>2 DEF TryDispatch
  <1>2. PICK s \in Status : job' = [job EXCEPT ![c].status = s]
    BY DEF TryDispatch
  <1>3. job[c] \in Job
    BY <1>0 DEF CallsInHand, TypeOK
  <1> DEFINE j == [job[c] EXCEPT !.status = s]
  <1>4. /\ j \in Job /\ j.mailbox = job[c].mailbox /\ j.wrapped = job[c].wrapped
        /\ j.pem = job[c].pem /\ j.blob = job[c].blob /\ j.owner = job[c].owner
    BY <1>3 DEF Job
  <1>5. /\ job'[c] = j /\ \A d \in Click : d # c => job'[d] = job[d]
        /\ job' \in [Click -> Job \cup {None}]
    BY <1>2, <1>4 DEF TypeOK
  <1>6. j # None /\ job[c] # None
    BY <1>3, <1>4, NotNone
  <1>7. Proceeds(c)
    BY <1>0, <1>1, <1>4, <1>5, <1>6 DEF Proceeds
  <1>8. TypeOK'
    BY <1>0, <1>1, <1>5 DEF TypeOK
  <1> QED BY <1>7, <1>8

LEMMA ReplyIs ==
  ASSUME TypeOK, NEW c \in Click, Reply(c)
  PROVE  TypeOK' /\ Replies(c)
  <1>0. /\ server[c] = "reply"
        /\ UNCHANGED <<faults, home, moved, search, results, access, stale, selected, file, click, asked, held,
                       pem, blob, request, mailbox, job>>
    BY DEF Reply, pageVars, findVars
  <1>1. /\ server' \in [Click -> CallPlace]
        /\ \A d \in Click : d # c => server'[d] = server[d]
        /\ server'[c] = "over"
    BY GotoIs DEF Reply
  <1>2. CASE page = "wait" /\ c = click
    <2>1. page' = (IF held.token THEN "account" ELSE "receipt") /\ shown' = [shown EXCEPT ![c] = page']
      BY <1>2 DEF Reply
    <2>2. page' \in {"account", "receipt"} /\ (page' = "account" <=> held.token)
      BY <2>1
    <2>3. /\ shown'[c] = page' /\ \A d \in Click : d # c => shown'[d] = shown[d]
          /\ shown' \in [Click -> {"nothing", "error", "receipt", "account"}]
      BY <2>1, <2>2 DEF TypeOK
    <2>4. Replies(c)
      BY <1>0, <1>1, <1>2, <2>2, <2>3 DEF Replies
    <2>5. page' \in Places
      BY <2>2 DEF Places
    <2>6. TypeOK'
      BY <1>0, <1>1, <2>3, <2>5 DEF TypeOK
    <2> QED BY <2>4, <2>6
  <1>3. CASE ~(page = "wait" /\ c = click)
    <2>1. page' = page /\ shown' = shown
      BY <1>3 DEF Reply
    <2> QED BY <1>0, <1>1, <2>1 DEF TypeOK, Replies
  <1> QED BY <1>2, <1>3

LEMMA WorldIs ==
  ASSUME TypeOK, AccessExpires \/ \E r \in Recipient : Move(r)
  PROVE  TypeOK' /\ (Expires \/ Relocates)
  <1>1. CASE AccessExpires
    <2>1. /\ access' = "expired"
          /\ stale' = stale \cup {c \in Click : c <= click /\ server[c] \in {"none", "auth"}}
          /\ UNCHANGED <<faults, home, moved, search, results, selected, file, click, asked, page,
                         held, pem, blob, request, server, mailbox, job, shown>>
      BY <1>1 DEF AccessExpires, findVars, serverVars
    <2> QED BY <2>1 DEF TypeOK, Expires
  <1>2. ASSUME NEW r \in Recipient, Move(r) PROVE TypeOK' /\ Relocates
    <2>1. PICK m \in Mailbox \cup {None} : home' = [home EXCEPT ![r] = m]
      BY <1>2 DEF Move
    <2>2. /\ moved' = moved \cup
               {c \in Click : asked[c] # None /\ asked[c].to = r /\ mailbox[c] = None}
          /\ UNCHANGED <<faults, search, results, access, stale, selected, file, click, asked, page,
                         held, pem, blob, request, server, mailbox, job, shown>>
      BY <1>2 DEF Move, restOfPage, serverVars
    <2>3. home' \in [Recipient -> Mailbox \cup {None}]
      BY <2>1 DEF TypeOK
    <2>4. \A q \in Recipient : q # r => home'[q] = home[q]
      BY <2>1 DEF TypeOK
    <2>5. Relocates
      BY <2>2, <2>4 DEF Relocates
    <2>6. TypeOK'
      BY <2>2, <2>3 DEF TypeOK
    <2> QED BY <2>5, <2>6
  <1> QED BY <1>1, <1>2

\* Every step is one of these moves and keeps the types.
LEMMA StepMoves ==
  ASSUME TypeOK, ClosureHolds, CallsInHand, [Next]_vars
  PROVE  TypeOK' /\ Moves
  <1>1. CASE Compose
    BY <1>1, TurnIs, AskIs DEF Compose, Moves
  <1>2. CASE Submit
    BY <1>2, TurnIs, FetchIs, UploadIs, SendIs DEF Submit, Moves
  <1>3. ASSUME NEW c \in Click, CreateJob(c) PROVE TypeOK' /\ Moves
    BY <1>3, AuthIs, ResolveIs, CheckIs, InsertIs, AuditIs, DispatchIs, ReplyIs DEF CreateJob, Moves
  <1>4. CASE AccessExpires \/ \E r \in Recipient : Move(r)
    BY <1>4, WorldIs DEF Moves
  <1>5. CASE UNCHANGED vars
    BY <1>5, TurnIs DEF Moves
  <1> QED BY <1>1, <1>2, <1>3, <1>4, <1>5 DEF Next

----------------------------------------------------------------------------
(* The invariant, part by part.                                            *)

\* The closure keeps what the page showed at the click.
LEMMA ClosureStep ==
  ASSUME TypeOK, ClosureHolds, NotYetAsked, HomesStay, CallsInHand, Moves
  PROVE  ClosureHolds'
  <1>n. click \in Nat /\ (click # 0 => click \in Click) /\ \A c \in Click : c \in Nat
    BY SubmissionAssumption DEF TypeOK, Click
  <1>1. CASE Turns
    BY <1>n, <1>1 DEF Turns, ClosureHolds, NotYetAsked, HomesStay, CallsInHand, Preparing
  <1>2. CASE Asks
    BY <1>n, <1>2 DEF Asks, ClosureHolds, NotYetAsked, HomesStay, CallsInHand, Preparing
  <1>3. CASE Fetches
    <2>1. click # 0 /\ click \in Click /\ request[click] = None
      BY <1>n, <1>3 DEF Fetches, ClosureHolds, Preparing
    <2>2. mailbox[click] = None
      BY <2>1 DEF CallsInHand, TypeOK, CallPlace
    <2>3. held # None /\ asked[click] # None /\ held.to = asked[click].to /\ held.doc = asked[click].doc
      BY <2>1 DEF ClosureHolds
    <2>4. click \notin moved => home[held.to] = asked[click].at
      BY <2>1, <2>2, <2>3 DEF HomesStay
    <2> QED BY <1>3, <2>1, <2>3, <2>4 DEF Fetches, ClosureHolds, Preparing
  <1>4. CASE Uploads
    BY <1>n, <1>4 DEF Uploads, ClosureHolds, NotYetAsked, HomesStay, CallsInHand, Preparing
  <1>5. CASE Sends
    BY <1>n, <1>5 DEF Sends, ClosureHolds, NotYetAsked, HomesStay, CallsInHand, Preparing
  <1>6. CASE Expires
    BY <1>n, <1>6 DEF Expires, ClosureHolds, NotYetAsked, HomesStay, CallsInHand, Preparing
  <1>7. CASE Relocates
    BY <1>n, <1>7 DEF Relocates, ClosureHolds, NotYetAsked, HomesStay, CallsInHand, Preparing
  <1>8. ASSUME NEW c \in Click, Auths(c) \/ Resolves(c) \/ Inserts(c) \/ Proceeds(c) \/ Replies(c)
        PROVE  ClosureHolds'
    <2>1. CASE Auths(c)
      <3>1. Preparing => click # 0 /\ click # c
        BY <1>n, <2>1 DEF Auths, ClosureHolds, CallsInHand, Preparing
      <3>2. Preparing => request'[click] = None
        BY <1>n, <2>1, <3>1 DEF Auths, ClosureHolds
      <3> QED BY <2>1, <3>2 DEF Auths, ClosureHolds, Preparing
    <2>2. CASE Resolves(c)
      BY <1>n, <2>2 DEF Resolves, ClosureHolds, NotYetAsked, HomesStay, CallsInHand, Preparing
    <2>3. CASE Inserts(c)
      BY <1>n, <2>3 DEF Inserts, ClosureHolds, NotYetAsked, HomesStay, CallsInHand, Preparing
    <2>4. CASE Proceeds(c)
      BY <1>n, <2>4 DEF Proceeds, ClosureHolds, NotYetAsked, HomesStay, CallsInHand, Preparing
    <2>5. CASE Replies(c)
      BY <1>n, <2>5 DEF Replies, ClosureHolds, NotYetAsked, HomesStay, CallsInHand, Preparing
    <2> QED BY <1>8, <2>1, <2>2, <2>3, <2>4, <2>5
  <1> QED
    BY <1>1, <1>2, <1>3, <1>4, <1>5, <1>6, <1>7, <1>8 DEF Moves

\* Clicks to come have left nothing.
LEMMA NotYetStep ==
  ASSUME TypeOK, NotYetAsked, CallsInHand, Moves
  PROVE  NotYetAsked'
  <1>n. click \in Nat /\ \A c \in Click : c \in Nat
    BY SubmissionAssumption DEF TypeOK, Click
  <1>1. CASE Turns
    BY <1>n, <1>1 DEF Turns, NotYetAsked, CallsInHand
  <1>2. CASE Asks
    BY <1>n, <1>2 DEF Asks, NotYetAsked, CallsInHand
  <1>3. CASE Fetches
    BY <1>n, <1>3 DEF Fetches, NotYetAsked, CallsInHand
  <1>4. CASE Uploads
    <2>1. /\ UNCHANGED <<click, request, job>>
          /\ \A c \in Click : c # click => blob'[c] = blob[c]
      BY <1>4 DEF Uploads
    <2> QED BY <1>n, <2>1 DEF NotYetAsked
  <1>5. CASE Sends
    BY <1>n, <1>5 DEF Sends, NotYetAsked, CallsInHand
  <1>6. CASE Expires
    BY <1>n, <1>6 DEF Expires, NotYetAsked, CallsInHand
  <1>7. CASE Relocates
    BY <1>n, <1>7 DEF Relocates, NotYetAsked, CallsInHand
  <1>8. ASSUME NEW c \in Click, Auths(c) \/ Resolves(c) \/ Inserts(c) \/ Proceeds(c) \/ Replies(c)
        PROVE  NotYetAsked'
    <2>1. CASE Auths(c)
      BY <1>n, <2>1 DEF Auths, NotYetAsked, CallsInHand
    <2>2. CASE Resolves(c)
      BY <1>n, <2>2 DEF Resolves, NotYetAsked, CallsInHand
    <2>3. CASE Inserts(c)
      BY <1>n, <2>3 DEF Inserts, NotYetAsked, CallsInHand
    <2>4. CASE Proceeds(c)
      BY <1>n, <2>4 DEF Proceeds, NotYetAsked, CallsInHand
    <2>5. CASE Replies(c)
      BY <1>n, <2>5 DEF Replies, NotYetAsked, CallsInHand
    <2> QED BY <1>8, <2>1, <2>2, <2>3, <2>4, <2>5
  <1> QED
    BY <1>1, <1>2, <1>3, <1>4, <1>5, <1>6, <1>7, <1>8 DEF Moves

\* A recipient is where it was when a click chose it, unless it moved.
LEMMA HomesStep ==
  ASSUME TypeOK, HomesStay, ClosureHolds, Moves
  PROVE  HomesStay'
  <1>n. click \in Nat /\ \A c \in Click : c \in Nat
    BY SubmissionAssumption DEF TypeOK, Click
  <1>1. CASE Turns
    BY <1>n, <1>1 DEF Turns, HomesStay, ClosureHolds
  <1>2. CASE Asks
    BY <1>n, <1>2 DEF Asks, HomesStay, ClosureHolds
  <1>3. CASE Fetches
    BY <1>n, <1>3 DEF Fetches, HomesStay, ClosureHolds
  <1>4. CASE Uploads
    BY <1>n, <1>4 DEF Uploads, HomesStay, ClosureHolds
  <1>5. CASE Sends
    BY <1>n, <1>5 DEF Sends, HomesStay, ClosureHolds
  <1>6. CASE Expires
    BY <1>n, <1>6 DEF Expires, HomesStay, ClosureHolds
  <1>7. CASE Relocates
    <2>1. UNCHANGED <<asked, mailbox>> /\ moved \subseteq moved'
      BY <1>7 DEF Relocates
    <2>2. PICK r \in Recipient :
              /\ \A q \in Recipient : q # r => home'[q] = home[q]
              /\ \A c \in Click :
                   asked[c] # None /\ asked[c].to = r /\ mailbox[c] = None => c \in moved'
      BY <1>7 DEF Relocates
    <2>3. ASSUME NEW c \in Click, c \notin moved', asked[c] # None, mailbox[c] = None
          PROVE  home'[asked[c].to] = asked[c].at
      <3>1. asked[c].to \in Recipient
        BY <2>3 DEF TypeOK, Asked
      <3>2. asked[c].to # r /\ home[asked[c].to] = asked[c].at
        BY <2>1, <2>2, <2>3 DEF HomesStay
      <3> QED BY <2>2, <3>1, <3>2
    <2> QED BY <2>1, <2>3 DEF HomesStay
  <1>8. ASSUME NEW c \in Click, Auths(c) \/ Resolves(c) \/ Inserts(c) \/ Proceeds(c) \/ Replies(c)
        PROVE  HomesStay'
    <2>1. CASE Auths(c)
      BY <1>n, <2>1 DEF Auths, HomesStay, ClosureHolds
    <2>2. CASE Resolves(c)
      BY <1>n, <2>2 DEF Resolves, HomesStay, ClosureHolds
    <2>3. CASE Inserts(c)
      BY <1>n, <2>3 DEF Inserts, HomesStay, ClosureHolds
    <2>4. CASE Proceeds(c)
      BY <1>n, <2>4 DEF Proceeds, HomesStay, ClosureHolds
    <2>5. CASE Replies(c)
      BY <1>n, <2>5 DEF Replies, HomesStay, ClosureHolds
    <2> QED BY <1>8, <2>1, <2>2, <2>3, <2>4, <2>5
  <1> QED
    BY <1>1, <1>2, <1>3, <1>4, <1>5, <1>6, <1>7, <1>8 DEF Moves

\* A blob holds the document of its click.
LEMMA BlobsStep ==
  ASSUME TypeOK, ClosureHolds, NotYetAsked, BlobsAsAsked, Moves
  PROVE  BlobsAsAsked'
  <1>n. click \in Nat /\ \A c \in Click : c \in Nat
    BY SubmissionAssumption DEF TypeOK, Click
  <1>1. CASE Turns
    BY <1>n, <1>1 DEF Turns, ClosureHolds, NotYetAsked, BlobsAsAsked
  <1>2. CASE Asks
    BY <1>n, <1>2 DEF Asks, ClosureHolds, NotYetAsked, BlobsAsAsked
  <1>3. CASE Fetches
    BY <1>n, <1>3 DEF Fetches, ClosureHolds, NotYetAsked, BlobsAsAsked
  <1>4. CASE Uploads
    BY <1>n, <1>4 DEF Uploads, ClosureHolds, NotYetAsked, BlobsAsAsked
  <1>5. CASE Sends
    BY <1>n, <1>5 DEF Sends, ClosureHolds, NotYetAsked, BlobsAsAsked
  <1>6. CASE Expires
    BY <1>n, <1>6 DEF Expires, ClosureHolds, NotYetAsked, BlobsAsAsked
  <1>7. CASE Relocates
    BY <1>n, <1>7 DEF Relocates, ClosureHolds, NotYetAsked, BlobsAsAsked
  <1>8. ASSUME NEW c \in Click, Auths(c) \/ Resolves(c) \/ Inserts(c) \/ Proceeds(c) \/ Replies(c)
        PROVE  BlobsAsAsked'
    <2>1. CASE Auths(c)
      BY <1>n, <2>1 DEF Auths, ClosureHolds, NotYetAsked, BlobsAsAsked
    <2>2. CASE Resolves(c)
      BY <1>n, <2>2 DEF Resolves, ClosureHolds, NotYetAsked, BlobsAsAsked
    <2>3. CASE Inserts(c)
      BY <1>n, <2>3 DEF Inserts, ClosureHolds, NotYetAsked, BlobsAsAsked
    <2>4. CASE Proceeds(c)
      BY <1>n, <2>4 DEF Proceeds, ClosureHolds, NotYetAsked, BlobsAsAsked
    <2>5. CASE Replies(c)
      BY <1>n, <2>5 DEF Replies, ClosureHolds, NotYetAsked, BlobsAsAsked
    <2> QED BY <1>8, <2>1, <2>2, <2>3, <2>4, <2>5
  <1> QED
    BY <1>1, <1>2, <1>3, <1>4, <1>5, <1>6, <1>7, <1>8 DEF Moves

\* A request asks for what its click asked for.
LEMMA RequestsStep ==
  ASSUME TypeOK, ClosureHolds, NotYetAsked, CallsInHand, RequestsAsAsked, Moves
  PROVE  RequestsAsAsked'
  <1>n. click \in Nat /\ \A c \in Click : c \in Nat
    BY SubmissionAssumption DEF TypeOK, Click
  <1>1. CASE Turns
    BY <1>n, <1>1 DEF Turns, ClosureHolds, NotYetAsked, CallsInHand, RequestsAsAsked
  <1>2. CASE Asks
    BY <1>n, <1>2 DEF Asks, ClosureHolds, NotYetAsked, CallsInHand, RequestsAsAsked
  <1>3. CASE Fetches
    BY <1>n, <1>3 DEF Fetches, ClosureHolds, NotYetAsked, CallsInHand, RequestsAsAsked
  <1>4. CASE Uploads
    BY <1>n, <1>4 DEF Uploads, ClosureHolds, NotYetAsked, CallsInHand, RequestsAsAsked
  <1>5. CASE Sends
    BY <1>n, <1>5 DEF Sends, ClosureHolds, NotYetAsked, CallsInHand, RequestsAsAsked
  <1>6. CASE Expires
    BY <1>n, <1>6 DEF Expires, ClosureHolds, NotYetAsked, CallsInHand, RequestsAsAsked
  <1>7. CASE Relocates
    BY <1>n, <1>7 DEF Relocates, ClosureHolds, NotYetAsked, CallsInHand, RequestsAsAsked
  <1>8. ASSUME NEW c \in Click, Auths(c) \/ Resolves(c) \/ Inserts(c) \/ Proceeds(c) \/ Replies(c)
        PROVE  RequestsAsAsked'
    <2>1. CASE Auths(c)
      BY <1>n, <2>1 DEF Auths, ClosureHolds, NotYetAsked, CallsInHand, RequestsAsAsked
    <2>2. CASE Resolves(c)
      BY <1>n, <2>2 DEF Resolves, ClosureHolds, NotYetAsked, CallsInHand, RequestsAsAsked
    <2>3. CASE Inserts(c)
      BY <1>n, <2>3 DEF Inserts, ClosureHolds, NotYetAsked, CallsInHand, RequestsAsAsked
    <2>4. CASE Proceeds(c)
      BY <1>n, <2>4 DEF Proceeds, ClosureHolds, NotYetAsked, CallsInHand, RequestsAsAsked
    <2>5. CASE Replies(c)
      BY <1>n, <2>5 DEF Replies, ClosureHolds, NotYetAsked, CallsInHand, RequestsAsAsked
    <2> QED BY <1>8, <2>1, <2>2, <2>3, <2>4, <2>5
  <1> QED
    BY <1>1, <1>2, <1>3, <1>4, <1>5, <1>6, <1>7, <1>8 DEF Moves

\* A call has its request, its mailbox and its row once it is past their steps.
LEMMA CallsStep ==
  ASSUME TypeOK, ClosureHolds, CallsInHand, Moves
  PROVE  CallsInHand'
  <1>n. click \in Nat /\ \A c \in Click : c \in Nat
    BY SubmissionAssumption DEF TypeOK, Click
  <1>1. CASE Turns
    BY <1>n, <1>1 DEF Turns, ClosureHolds, CallsInHand, Preparing
  <1>2. CASE Asks
    BY <1>n, <1>2 DEF Asks, ClosureHolds, CallsInHand, Preparing
  <1>3. CASE Fetches
    BY <1>n, <1>3 DEF Fetches, ClosureHolds, CallsInHand, Preparing
  <1>4. CASE Uploads
    BY <1>n, <1>4 DEF Uploads, ClosureHolds, CallsInHand, Preparing
  <1>5. CASE Sends
    BY <1>n, <1>5 DEF Sends, ClosureHolds, CallsInHand, Preparing
  <1>6. CASE Expires
    BY <1>n, <1>6 DEF Expires, ClosureHolds, CallsInHand, Preparing
  <1>7. CASE Relocates
    BY <1>n, <1>7 DEF Relocates, ClosureHolds, CallsInHand, Preparing
  <1>8. ASSUME NEW c \in Click, Auths(c) \/ Resolves(c) \/ Inserts(c) \/ Proceeds(c) \/ Replies(c)
        PROVE  CallsInHand'
    <2>1. CASE Auths(c)
      BY <1>n, <2>1 DEF Auths, ClosureHolds, CallsInHand, Preparing
    <2>2. CASE Resolves(c)
      BY <1>n, <2>2 DEF Resolves, ClosureHolds, CallsInHand, Preparing
    <2>3. CASE Inserts(c)
      BY <1>n, <2>3 DEF Inserts, ClosureHolds, CallsInHand, Preparing
    <2>4. CASE Proceeds(c)
      BY <1>n, <2>4 DEF Proceeds, ClosureHolds, CallsInHand, Preparing
    <2>5. CASE Replies(c)
      BY <1>n, <2>5 DEF Replies, ClosureHolds, CallsInHand, Preparing
    <2> QED BY <1>8, <2>1, <2>2, <2>3, <2>4, <2>5
  <1> QED
    BY <1>1, <1>2, <1>3, <1>4, <1>5, <1>6, <1>7, <1>8 DEF Moves

\* A call resolves the recipient to where it was at the click, unless it moved.
LEMMA ResolvedStep ==
  ASSUME TypeOK, HomesStay, NotYetAsked, CallsInHand, RequestsAsAsked, ResolvedAsAsked, Moves
  PROVE  ResolvedAsAsked'
  <1>n. click \in Nat /\ \A c \in Click : c \in Nat
    BY SubmissionAssumption DEF TypeOK, Click
  <1>1. CASE Turns
    BY <1>n, <1>1 DEF Turns, HomesStay, NotYetAsked, CallsInHand, RequestsAsAsked, ResolvedAsAsked
  <1>2. CASE Asks
    BY <1>n, <1>2 DEF Asks, HomesStay, NotYetAsked, CallsInHand, RequestsAsAsked, ResolvedAsAsked
  <1>3. CASE Fetches
    BY <1>n, <1>3 DEF Fetches, HomesStay, NotYetAsked, CallsInHand, RequestsAsAsked, ResolvedAsAsked
  <1>4. CASE Uploads
    BY <1>n, <1>4 DEF Uploads, HomesStay, NotYetAsked, CallsInHand, RequestsAsAsked, ResolvedAsAsked
  <1>5. CASE Sends
    BY <1>n, <1>5 DEF Sends, HomesStay, NotYetAsked, CallsInHand, RequestsAsAsked, ResolvedAsAsked
  <1>6. CASE Expires
    BY <1>n, <1>6 DEF Expires, HomesStay, NotYetAsked, CallsInHand, RequestsAsAsked, ResolvedAsAsked
  <1>7. CASE Relocates
    BY <1>n, <1>7 DEF Relocates, HomesStay, NotYetAsked, CallsInHand, RequestsAsAsked, ResolvedAsAsked
  <1>8. ASSUME NEW c \in Click, Auths(c) \/ Resolves(c) \/ Inserts(c) \/ Proceeds(c) \/ Replies(c)
        PROVE  ResolvedAsAsked'
    <2>1. CASE Auths(c)
      BY <1>n, <2>1 DEF Auths, HomesStay, NotYetAsked, CallsInHand, RequestsAsAsked, ResolvedAsAsked
    <2>2. CASE Resolves(c)
      BY <1>n, <2>2 DEF Resolves, HomesStay, NotYetAsked, CallsInHand, RequestsAsAsked, ResolvedAsAsked
    <2>3. CASE Inserts(c)
      BY <1>n, <2>3 DEF Inserts, HomesStay, NotYetAsked, CallsInHand, RequestsAsAsked, ResolvedAsAsked
    <2>4. CASE Proceeds(c)
      BY <1>n, <2>4 DEF Proceeds, HomesStay, NotYetAsked, CallsInHand, RequestsAsAsked, ResolvedAsAsked
    <2>5. CASE Replies(c)
      BY <1>n, <2>5 DEF Replies, HomesStay, NotYetAsked, CallsInHand, RequestsAsAsked, ResolvedAsAsked
    <2> QED BY <1>8, <2>1, <2>2, <2>3, <2>4, <2>5
  <1> QED
    BY <1>1, <1>2, <1>3, <1>4, <1>5, <1>6, <1>7, <1>8 DEF Moves

\* A row does what its click asked for.
LEMMA JobsStep ==
  ASSUME TypeOK, NotYetAsked, CallsInHand, RequestsAsAsked, ResolvedAsAsked, JobsAsAsked, Moves
  PROVE  JobsAsAsked'
  <1>n. click \in Nat /\ \A c \in Click : c \in Nat
    BY SubmissionAssumption DEF TypeOK, Click
  <1>1. CASE Turns
    BY <1>n, <1>1 DEF Turns, NotYetAsked, CallsInHand, RequestsAsAsked, ResolvedAsAsked, JobsAsAsked
  <1>2. CASE Asks
    BY <1>n, <1>2 DEF Asks, NotYetAsked, CallsInHand, RequestsAsAsked, ResolvedAsAsked, JobsAsAsked
  <1>3. CASE Fetches
    BY <1>n, <1>3 DEF Fetches, NotYetAsked, CallsInHand, RequestsAsAsked, ResolvedAsAsked, JobsAsAsked
  <1>4. CASE Uploads
    BY <1>n, <1>4 DEF Uploads, NotYetAsked, CallsInHand, RequestsAsAsked, ResolvedAsAsked, JobsAsAsked
  <1>5. CASE Sends
    BY <1>n, <1>5 DEF Sends, NotYetAsked, CallsInHand, RequestsAsAsked, ResolvedAsAsked, JobsAsAsked
  <1>6. CASE Expires
    BY <1>n, <1>6 DEF Expires, NotYetAsked, CallsInHand, RequestsAsAsked, ResolvedAsAsked, JobsAsAsked
  <1>7. CASE Relocates
    BY <1>n, <1>7 DEF Relocates, NotYetAsked, CallsInHand, RequestsAsAsked, ResolvedAsAsked, JobsAsAsked
  <1>8. ASSUME NEW c \in Click, Auths(c) \/ Resolves(c) \/ Inserts(c) \/ Proceeds(c) \/ Replies(c)
        PROVE  JobsAsAsked'
    <2>1. CASE Auths(c)
      BY <1>n, <2>1 DEF Auths, NotYetAsked, CallsInHand, RequestsAsAsked, ResolvedAsAsked, JobsAsAsked
    <2>2. CASE Resolves(c)
      BY <1>n, <2>2 DEF Resolves, NotYetAsked, CallsInHand, RequestsAsAsked, ResolvedAsAsked, JobsAsAsked
    <2>3. CASE Inserts(c)
      BY <1>n, <2>3 DEF Inserts, NotYetAsked, CallsInHand, RequestsAsAsked, ResolvedAsAsked, JobsAsAsked
    <2>4. CASE Proceeds(c)
      BY <1>n, <2>4 DEF Proceeds, NotYetAsked, CallsInHand, RequestsAsAsked, ResolvedAsAsked, JobsAsAsked
    <2>5. CASE Replies(c)
      BY <1>n, <2>5 DEF Replies, NotYetAsked, CallsInHand, RequestsAsAsked, ResolvedAsAsked, JobsAsAsked
    <2> QED BY <1>8, <2>1, <2>2, <2>3, <2>4, <2>5
  <1> QED
    BY <1>1, <1>2, <1>3, <1>4, <1>5, <1>6, <1>7, <1>8 DEF Moves

\* Page, request, row and what is shown agree on the token.
LEMMA TokenStep ==
  ASSUME TypeOK, ClosureHolds, NotYetAsked, CallsInHand, AgreeOnToken, Moves
  PROVE  AgreeOnToken'
  <1>n. click \in Nat /\ (click # 0 => click \in Click) /\ \A c \in Click : c \in Nat
    BY SubmissionAssumption DEF TypeOK, Click
  <1>1. CASE Turns
    BY <1>n, <1>1 DEF Turns, ClosureHolds, NotYetAsked, CallsInHand, AgreeOnToken, PageAgrees, CallAgrees, Trackable, Preparing, SignedIn, TypeOK
  <1>2. CASE Asks
    BY <1>n, <1>2 DEF Asks, ClosureHolds, NotYetAsked, CallsInHand, AgreeOnToken, PageAgrees, CallAgrees, Trackable, Preparing, SignedIn, TypeOK
  <1>3. CASE Fetches
    BY <1>n, <1>3 DEF Fetches, ClosureHolds, NotYetAsked, CallsInHand, AgreeOnToken, PageAgrees, CallAgrees, Trackable, Preparing, SignedIn, TypeOK
  <1>4. CASE Uploads
    BY <1>n, <1>4 DEF Uploads, ClosureHolds, NotYetAsked, CallsInHand, AgreeOnToken, PageAgrees, CallAgrees, Trackable, Preparing, SignedIn, TypeOK
  <1>5. CASE Sends
    BY <1>n, <1>5 DEF Sends, ClosureHolds, NotYetAsked, CallsInHand, AgreeOnToken, PageAgrees, CallAgrees, Trackable, Preparing, SignedIn, TypeOK
  <1>6. CASE Expires
    <2>0. /\ stale \subseteq stale'
          /\ \A c \in Click : c <= click /\ server[c] \in {"none", "auth"} => c \in stale'
          /\ UNCHANGED <<click, held, request, server, job, shown>>
      BY <1>6 DEF Expires
    <2>1. PageAgrees'
      <3> SUFFICES ASSUME click # 0, click \notin stale'
                   PROVE  /\ request[click] = None => (held.token <=> SignedIn')
                          /\ request[click] # None => (held.token <=> request[click].token)
        BY <2>0 DEF PageAgrees
      <3>1. click \in Click /\ click <= click /\ click \notin stale
        BY <1>n, <2>0
      <3>2. request[click] # None
        BY <2>0, <3>1 DEF CallsInHand
      <3> QED BY <3>1, <3>2 DEF AgreeOnToken, PageAgrees
    <2>2. ASSUME NEW c \in Click PROVE CallAgrees(c)'
      <3>1. CallAgrees(c)
        BY DEF AgreeOnToken
      <3>2. c \notin stale' => c \notin stale /\ server[c] # "auth"
        BY <1>n, <2>0 DEF CallsInHand, NotYetAsked
      <3> QED BY <2>0, <3>1, <3>2 DEF CallAgrees, Trackable
    <2> QED BY <2>1, <2>2 DEF AgreeOnToken
  <1>7. CASE Relocates
    BY <1>n, <1>7 DEF Relocates, ClosureHolds, NotYetAsked, CallsInHand, AgreeOnToken, PageAgrees, CallAgrees, Trackable, Preparing, SignedIn, TypeOK
  <1>8. ASSUME NEW c \in Click, Auths(c) \/ Resolves(c) \/ Inserts(c) \/ Proceeds(c) \/ Replies(c)
        PROVE  AgreeOnToken'
    <2>1. CASE Auths(c)
      <3>0. /\ server[c] = "auth" /\ server'[c] = "resolve" /\ request[c] # None /\ request'[c] # None
            /\ \A d \in Click : d # c => request'[d] = request[d] /\ server'[d] = server[d]
            /\ UNCHANGED <<access, stale, click, held, job, shown>>
        BY <2>1 DEF Auths, CallsInHand
      <3>1. CallAgrees(c) /\ PageAgrees
        BY DEF AgreeOnToken
      <3>2. c \notin stale => (request'[c].token <=> request[c].token)
        BY <2>1, <3>0, <3>1 DEF Auths, CallAgrees, SignedIn
      <3>3. job[c] = None
        BY <3>0 DEF CallsInHand
      <3>4. PageAgrees'
        <4>1. CASE click = c
          BY <3>0, <3>1, <3>2, <4>1 DEF PageAgrees
        <4>2. CASE click # c
          BY <1>n, <3>0, <3>1, <4>2 DEF PageAgrees, SignedIn
        <4> QED BY <4>1, <4>2
      <3>5. ASSUME NEW d \in Click PROVE CallAgrees(d)'
        <4>1. CallAgrees(d)
          BY DEF AgreeOnToken
        <4>2. CASE d = c
          BY <3>0, <3>3, <4>1, <4>2 DEF CallAgrees, Trackable
        <4>3. CASE d # c
          BY <3>0, <4>1, <4>3 DEF CallAgrees, Trackable, SignedIn
        <4> QED BY <4>2, <4>3
      <3> QED BY <3>4, <3>5 DEF AgreeOnToken
    <2>2. CASE Resolves(c)
      BY <1>n, <2>2 DEF Resolves, ClosureHolds, NotYetAsked, CallsInHand, AgreeOnToken, PageAgrees, CallAgrees, Trackable, Preparing, SignedIn, TypeOK
    <2>3. CASE Inserts(c)
      BY <1>n, <2>3 DEF Inserts, ClosureHolds, NotYetAsked, CallsInHand, AgreeOnToken, PageAgrees, CallAgrees, Trackable, Preparing, SignedIn, TypeOK
    <2>4. CASE Proceeds(c)
      BY <1>n, <2>4 DEF Proceeds, ClosureHolds, NotYetAsked, CallsInHand, AgreeOnToken, PageAgrees, CallAgrees, Trackable, Preparing, SignedIn, TypeOK
    <2>5. CASE Replies(c)
      BY <1>n, <2>5 DEF Replies, ClosureHolds, NotYetAsked, CallsInHand, AgreeOnToken, PageAgrees, CallAgrees, Trackable, Preparing, SignedIn, TypeOK
    <2> QED BY <1>8, <2>1, <2>2, <2>3, <2>4, <2>5
  <1> QED
    BY <1>1, <1>2, <1>3, <1>4, <1>5, <1>6, <1>7, <1>8 DEF Moves

LEMMA InitSubmission == Init => TypeOK /\ SubmissionInv
  <1> SUFFICES ASSUME Init PROVE SubmissionInv
    BY InitTypes
  <1>1. ClosureHolds /\ NotYetAsked /\ HomesStay /\ BlobsAsAsked /\ RequestsAsAsked
    BY SubmissionAssumption DEF Init, ClosureHolds, Preparing, NotYetAsked, HomesStay, BlobsAsAsked, RequestsAsAsked
  <1>2. CallsInHand /\ ResolvedAsAsked /\ JobsAsAsked /\ AgreeOnToken
    BY DEF Init, CallsInHand, ResolvedAsAsked, JobsAsAsked, AgreeOnToken, PageAgrees, CallAgrees,
           Trackable, SignedIn
  <1> QED BY <1>1, <1>2 DEF SubmissionInv

LEMMA SubmissionStep == TypeOK /\ SubmissionInv /\ [Next]_vars => TypeOK' /\ SubmissionInv'
  <1> SUFFICES ASSUME TypeOK, SubmissionInv, [Next]_vars PROVE TypeOK' /\ SubmissionInv'
    OBVIOUS
  <1>1. TypeOK' /\ Moves
    BY StepMoves DEF SubmissionInv
  <1> QED
    BY <1>1, ClosureStep, NotYetStep, HomesStep, BlobsStep, RequestsStep, CallsStep,
       ResolvedStep, JobsStep, TokenStep
    DEF SubmissionInv

----------------------------------------------------------------------------
(* The theorems.                                                           *)

\* Every variable stays in its range: in particular onSubmit never sends a request
\* without a recipient's key, and CreateJob never inserts a row without a mailbox.
THEOREM TypeCorrect == Spec => []TypeOK
  BY InitSubmission, SubmissionStep, PTL DEF Spec

\* What a click asked for is what its job does, whatever the sender edits or
\* searches while onSubmit runs and however many clicks' requests are under way:
\* the document on the page, the key of that document, and the mailbox that the
\* chosen recipient had at the click with the key wrapped for it, unless that very
\* recipient moved before CreateJob resolved it.
THEOREM JobsAreSealedAsAsked == Spec => []SealedAsAsked
  <1>1. SubmissionInv => SealedAsAsked
    BY DEF SubmissionInv, BlobsAsAsked, JobsAsAsked, SealedAsAsked
  <1> QED
    BY <1>1, InitSubmission, SubmissionStep, PTL DEF Spec

\* A sender who was told that the job is accepted can follow it, if the access token
\* was alive when OptionalAuth looked: what that makes of the request is what the
\* page believes, whatever else fails between onSubmit and CreateJob's reply, and
\* whatever becomes of the token for other clicks.
THEOREM AcceptedIsTrackable == Spec => []TrackableWhileFresh
  <1>1. SubmissionInv => TrackableWhileFresh
    BY DEF SubmissionInv, AgreeOnToken, CallAgrees, TrackableWhileFresh
  <1> QED
    BY <1>1, InitSubmission, SubmissionStep, PTL DEF Spec
=============================================================================
