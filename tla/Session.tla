------------------------------ MODULE Session ------------------------------
(***************************************************************************)
(* A sender's session in one browser: the tabs, each with an access token  *)
(* in memory, the cookie jar they share with its one refresh cookie, and   *)
(* the refresh_tokens table behind the /auth handlers.  Every statement of *)
(* a handler is a step, so the calls of two tabs interleave.  One e-mail   *)
(* address, right passwords.                                               *)
(***************************************************************************)
EXTENDS Naturals, FiniteSets

CONSTANTS
    Tab,       \* open pages of the portal
    MaxTok,    \* bound: refresh tokens ever issued
    Environments  \* the sets of faults to consider: subsets of FaultKinds

\* "db"      a statement of a handler fails
\* "lost"    a reply does not reach its tab (the page was left or reloaded)
\* "expire"  an access token's 15 minutes pass
\* "week"    a refresh token's seven days pass
FaultKinds == {"db", "lost", "expire", "week"}

ASSUME SessionAssumption ==
    IsFiniteSet(Tab) /\ MaxTok \in Nat /\ Environments \subseteq SUBSET FaultKinds

VARIABLES
    faults,   \* what may go wrong in this behaviour, chosen at the start
    senders,  \* rows of senders with the address
    tok,      \* refresh_tokens: state of each token, numbered as issued
    jar,      \* the token in the browser's refresh cookie, 0 if there is none
    acc,      \* each tab's access token
    pc,       \* where the auth call of a tab is
    sent,     \* the cookie it was sent with
    got,      \* the token it has been issued
    spent,    \* history: the tokens exchanged for a session or revoked by a Logout
    orphans,  \* history: those whose call was cut off after it had revoked them
    late,     \* history: the tabs whose refresh was sent with a spent token
    left      \* history: whether the sender has logged out and not in again, and
              \* whether a refresh was under way when the cookie was cleared

history == <<spent, orphans, late, left>>
vars == <<faults, senders, tok, jar, acc, pc, sent, got, history>>

Token == 1..MaxTok
TokenState == {"unused", "active", "revoked", "expired"}
Place == {"idle", "check", "revoke", "issue", "reply", "insert", "logout", "clear"}

\* Every variable stays in its range.  The pre-check of Register lets in no more
\* accounts than there are tabs to pass it at the same time.
TypeOK ==
    /\ faults \in Environments
    /\ senders \in 0..Cardinality(Tab)
    /\ tok \in [Token -> TokenState]
    /\ jar \in 0..MaxTok
    /\ acc \in [Tab -> {"none", "fresh", "expired"}]
    /\ pc \in [Tab -> Place]
    /\ sent \in [Tab -> 0..MaxTok] /\ got \in [Tab -> 0..MaxTok]
    /\ spent \in SUBSET Token /\ orphans \in SUBSET Token /\ late \in SUBSET Tab
    /\ left \in {"no", "out", "crossed"}

Init ==
    /\ faults \in Environments
    /\ senders = 0
    /\ tok = [k \in Token |-> "unused"]
    /\ jar = 0
    /\ acc = [t \in Tab |-> "none"] /\ pc = [t \in Tab |-> "idle"]
    /\ sent = [t \in Tab |-> 0] /\ got = [t \in Tab |-> 0]
    /\ spent = {} /\ orphans = {} /\ late = {} /\ left = "no"

Goto(t, place) == pc' = [pc EXCEPT ![t] = place]
Db == "db" \in faults

\* A tab makes a call; nothing in the portal keeps another tab from making one too.
Free(t) == pc[t] = "idle"

\* A call that ends with an error, or is not heard, leaves cookie and access token
\* as they are; if it had revoked its token, nothing replaces it.
Fail(t) ==
    /\ Goto(t, "idle")
    /\ sent' = [sent EXCEPT ![t] = 0] /\ got' = [got EXCEPT ![t] = 0]
    /\ orphans' = IF pc[t] \in {"issue", "reply"} THEN orphans \cup ({sent[t]} \cap Token) ELSE orphans
    /\ late' = late \ {t}
    /\ UNCHANGED <<faults, senders, tok, jar, acc, spent, left>>

----------------------------------------------------------------------------
(* POST /auth/refresh: on page load, or when authFetch has met a 401.      *)

\* Leaving or reloading a page forgets its access token.
Reload(t) ==
    /\ pc[t] = "idle" /\ acc[t] # "none"
    /\ acc' = [acc EXCEPT ![t] = "none"]
    /\ UNCHANGED <<faults, senders, tok, jar, pc, sent, got, history>>

\* The request carries the cookie; without one it is refused at once.
Refresh(t) ==
    /\ Free(t) /\ acc[t] # "fresh" /\ jar # 0
    /\ sent' = [sent EXCEPT ![t] = jar] /\ Goto(t, "check")
    /\ late' = IF jar \in spent THEN late \cup {t} ELSE late
    /\ UNCHANGED <<faults, senders, tok, jar, acc, got, spent, orphans, left>>

\* GetActiveRefreshToken, and the expiry date.
CheckToken(t) ==
    /\ pc[t] = "check"
    /\ \/ /\ tok[sent[t]] = "active" /\ Goto(t, "revoke")
          /\ UNCHANGED <<faults, senders, tok, jar, acc, sent, got, history>>
       \/ (tok[sent[t]] # "active" \/ Db) /\ Fail(t)

\* RevokeRefreshTokenByHash: no error if it is revoked already.
RevokeNothing(t) ==
    /\ pc[t] = "revoke" /\ Goto(t, "issue")
    /\ UNCHANGED <<faults, senders, tok, jar, acc, sent, got, history>>
RevokeToken(t) ==
    /\ pc[t] = "revoke"
    /\ \/ /\ tok' = [tok EXCEPT ![sent[t]] = "revoked"]
          /\ Goto(t, "issue") /\ UNCHANGED <<faults, senders, jar, acc, sent, got, history>>
       \/ Db /\ Fail(t)

\* GetSenderByID and issueSession: a new token is inserted.
IssueSession(t) ==
    /\ pc[t] = "issue"
    /\ \/ /\ \E k \in Token :
               /\ tok[k] = "unused" /\ \A l \in Token : l < k => tok[l] # "unused"
               /\ tok' = [tok EXCEPT ![k] = "active"]
               /\ got' = [got EXCEPT ![t] = k]
          /\ spent' = spent \cup ({sent[t]} \cap Token)
          /\ Goto(t, "reply") /\ UNCHANGED <<faults, senders, jar, acc, sent, orphans, late, left>>
       \/ Db /\ Fail(t)

\* The reply sets the cookie and the tab's access token; one to Login or Register,
\* which send no cookie, signs the sender in.
Reply(t) ==
    /\ pc[t] = "reply"
    /\ \/ /\ jar' = got[t] /\ acc' = [acc EXCEPT ![t] = "fresh"]
          /\ Goto(t, "idle")
          /\ sent' = [sent EXCEPT ![t] = 0] /\ got' = [got EXCEPT ![t] = 0]
          /\ left' = IF sent[t] = 0 THEN "no" ELSE left
          /\ late' = late \ {t} /\ UNCHANGED <<faults, senders, tok, spent, orphans>>
       \/ "lost" \in faults /\ Fail(t)

----------------------------------------------------------------------------
(* Login, Register, Logout.                                                *)

\* POST /auth/login, up to issueSession.
Login(t) ==
    /\ Free(t) /\ acc[t] = "none" /\ senders > 0
    /\ Goto(t, "issue") /\ UNCHANGED <<faults, senders, tok, jar, acc, sent, got, history>>

\* POST /auth/register: the duplicate pre-check ...
RegisterUnchecked(t) ==
    /\ Free(t) /\ acc[t] = "none" /\ senders < 2
    /\ Goto(t, "insert") /\ UNCHANGED <<faults, senders, tok, jar, acc, sent, got, history>>
Register(t) ==
    /\ Free(t) /\ acc[t] = "none" /\ senders = 0
    /\ Goto(t, "insert") /\ UNCHANGED <<faults, senders, tok, jar, acc, sent, got, history>>

\* ... InsertSender, then issueSession.
InsertSender(t) ==
    /\ pc[t] = "insert"
    /\ \/ /\ senders' = senders + 1 /\ Goto(t, "issue")
          /\ UNCHANGED <<faults, tok, jar, acc, sent, got, history>>
       \/ Db /\ Fail(t)

\* POST /auth/logout, with the cookie and the access token.
Logout(t) ==
    /\ Free(t) /\ acc[t] # "none"
    /\ sent' = [sent EXCEPT ![t] = jar] /\ Goto(t, "logout")
    /\ UNCHANGED <<faults, senders, tok, jar, acc, got, history>>

\* However it ends, the tab drops its access token.
SignOut(t) ==
    /\ acc' = [acc EXCEPT ![t] = "none"] /\ Goto(t, "idle")
    /\ sent' = [sent EXCEPT ![t] = 0]

\* requireAuth turns an expired access token away; otherwise the cookie's token
\* is revoked, any error ignored ...
LogoutServe(t) ==
    /\ pc[t] = "logout"
    /\ \/ acc[t] = "expired" /\ SignOut(t) /\ UNCHANGED <<tok, spent>>
       \/ /\ acc[t] = "fresh"
          /\ \/ /\ tok' = [k \in Token |-> IF k = sent[t] THEN "revoked" ELSE tok[k]]
                /\ spent' = spent \cup ({sent[t]} \cap Token)
             \/ Db /\ UNCHANGED <<tok, spent>>
          /\ Goto(t, "clear") /\ UNCHANGED <<acc, sent>>
    /\ UNCHANGED <<faults, senders, jar, got, orphans, late, left>>

\* ... and the reply clears the cookie, unless it is lost.
LogoutKeepsCookie(t) ==
    /\ pc[t] = "clear" /\ SignOut(t)
    /\ UNCHANGED <<faults, senders, tok, jar, got, history>>
Refreshing(t) == sent[t] # 0 /\ pc[t] \in {"check", "revoke", "issue", "reply"}
LogoutReply(t) ==
    /\ pc[t] = "clear" /\ SignOut(t)
    /\ \/ /\ jar' = 0 /\ UNCHANGED orphans
          /\ left' = IF \E u \in Tab : Refreshing(u) THEN "crossed" ELSE "out"
       \/ /\ "lost" \in faults /\ UNCHANGED <<jar, left>>
          /\ orphans' = orphans \cup ({sent[t]} \cap Token)
    /\ UNCHANGED <<faults, senders, tok, got, spent, late>>

----------------------------------------------------------------------------
(* Time.                                                                   *)

AccessExpires(t) ==
    /\ "expire" \in faults /\ acc[t] = "fresh" /\ acc' = [acc EXCEPT ![t] = "expired"]
    /\ UNCHANGED <<faults, senders, tok, jar, pc, sent, got, history>>

TokenExpires(k) ==
    /\ "week" \in faults /\ tok[k] = "active" /\ tok' = [tok EXCEPT ![k] = "expired"]
    /\ UNCHANGED <<faults, senders, jar, acc, pc, sent, got, history>>

Call(t) == CheckToken(t) \/ RevokeToken(t) \/ IssueSession(t) \/ Reply(t)
           \/ InsertSender(t) \/ LogoutServe(t) \/ LogoutReply(t)

Next ==
    \/ \E t \in Tab : Reload(t) \/ Refresh(t) \/ Login(t) \/ Register(t) \/ Logout(t)
                    \/ Call(t) \/ AccessExpires(t)
    \/ \E k \in Token : TokenExpires(k)

Spec == Init /\ [][Next]_vars

----------------------------------------------------------------------------
(* Properties.                                                             *)

\* The browser is not left with a dead session: a cookie whose token has been
\* revoked is about to be replaced or cleared by the call that revoked it, however
\* the calls of the tabs interleave ("a page reload keeps the session",
\* lib/auth.tsx), unless that very call was cut off after the revocation: its next
\* statement failed or its reply was lost.
Replacing(t) == sent[t] = jar /\ pc[t] \in {"issue", "reply", "clear"}
JarIsGood ==
    jar # 0 /\ tok[jar] = "revoked" => jar \in orphans \/ \E t \in Tab : Replacing(t)

\* A refresh token that has served is dead ("single-use", Refresh's doc comment):
\* a refresh sent after the token's exchange was committed, or after a Logout had
\* revoked it, is refused, whatever is lost, fails or expires in between.  Only
\* calls already under way by then can exchange it a second time.
Refused(t) == pc[t] \notin {"issue", "reply"}

\* And a sender who has logged out stays so until he logs in again: the jar is
\* empty and no tab is renewing a session, except after a Logout whose reply a
\* refresh crossed, which puts its own cookie back ("clears the cookie", Logout).
\* A Logout that requireAuth turned away or whose reply was lost is not one.
SignedOut == jar = 0 /\ \A t \in Tab : ~Refreshing(t)

SpentIsDead == (\A t \in late : Refused(t)) /\ (left = "out" => SignedOut)

----------------------------------------------------------------------------
(* Why they hold: an inductive invariant.                                  *)

\* Whoever has passed Register's pre-check and not yet inserted counts.
AccountsBounded ==
    senders + Cardinality({t \in Tab : pc[t] = "insert"}) <= Cardinality(Tab)

\* Only issued tokens are in the jar or travel; a call that must present one does.
CookiesAreIssued ==
    /\ jar # 0 => tok[jar] # "unused"
    /\ \A t \in Tab : sent[t] # 0 => tok[sent[t]] # "unused"
CallsCarry ==
    \A t \in Tab : /\ pc[t] \in {"check", "revoke"} => sent[t] # 0
                   /\ pc[t] \in {"idle", "insert"} => sent[t] = 0

\* A token between issueSession and its reply is known to its call only, so that
\* nothing can have revoked it when the reply puts it in the jar.
OnlyInReply ==
    \A t \in Tab : pc[t] = "reply" =>
        /\ got[t] # 0 /\ got[t] # jar /\ tok[got[t]] \in {"active", "expired"}
        /\ \A u \in Tab : /\ sent[u] # got[t]
                          /\ pc[u] = "reply" /\ got[u] = got[t] => u = t

\* A token is dead before it counts as spent, so a call sent with one never gets
\* past GetActiveRefreshToken.
SpentAreDead ==
    /\ \A k \in spent : tok[k] = "revoked"
    /\ \A t \in Tab : pc[t] = "issue" /\ sent[t] # 0 => tok[sent[t]] = "revoked"
    /\ \A t \in late : pc[t] = "check" /\ sent[t] \in spent

SessionInv == /\ AccountsBounded /\ CookiesAreIssued /\ CallsCarry /\ OnlyInReply
              /\ SpentAreDead /\ JarIsGood /\ SpentIsDead
=============================================================================
