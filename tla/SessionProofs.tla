--------------------------- MODULE SessionProofs ---------------------------
(***************************************************************************)
(* Proofs about the sessions of a browser, for any number of tabs, tokens  *)
(* and faults: every variable keeps its type, the cookie jar is not left   *)
(* with a dead session, and a refresh token that has served is dead.       *)
(***************************************************************************)
EXTENDS Session, FiniteSetTheorems, TLAPS

\* A step of one tab.
Act(t) == \/ Reload(t) \/ Refresh(t) \/ Login(t) \/ Register(t) \/ Logout(t)
          \/ Call(t) \/ AccessExpires(t)

----------------------------------------------------------------------------
(* What the longer actions do, point by point.                             *)

\* A call that fails takes nothing but itself away.
Fails(t) ==
    /\ pc'[t] = "idle" /\ sent'[t] = 0 /\ got'[t] = 0
    /\ \A u \in Tab \ {t} : pc'[u] = pc[u] /\ sent'[u] = sent[u] /\ got'[u] = got[u]
    /\ late' = late \ {t} /\ \A k \in orphans : k \in orphans'
    /\ pc[t] \in {"issue", "reply"} /\ sent[t] \in Token => sent[t] \in orphans'
    /\ UNCHANGED <<faults, senders, tok, jar, acc, spent, left>>

LEMMA FailIs ==
  ASSUME TypeOK, NEW t \in Tab, Fail(t)
  PROVE  Fails(t)
  BY DEF Fail, Fails, Goto, TypeOK

\* GetActiveRefreshToken has found the token.
Checks(t) ==
    /\ pc[t] = "check" /\ pc'[t] = "revoke" /\ sent[t] \in Token /\ tok[sent[t]] = "active"
    /\ \A u \in Tab \ {t} : pc'[u] = pc[u]
    /\ UNCHANGED <<faults, senders, tok, jar, acc, sent, got, spent, orphans, late, left>>

LEMMA CheckIs ==
  ASSUME TypeOK, CallsCarry, NEW t \in Tab, CheckToken(t), ~Fail(t)
  PROVE  Checks(t)
  <1>1. sent[t] \in Token
    BY SessionAssumption DEF CheckToken, CallsCarry, TypeOK, Token
  <1> QED BY <1>1 DEF CheckToken, Checks, Goto, TypeOK, history

\* RevokeRefreshTokenByHash kills the token that was sent, and no other.
Revokes(t) ==
    /\ pc[t] = "revoke" /\ pc'[t] = "issue" /\ sent[t] \in Token
    /\ \A u \in Tab \ {t} : pc'[u] = pc[u]
    /\ tok'[sent[t]] = "revoked"
    /\ \A k \in Token \ {sent[t]} : tok'[k] = tok[k]
    /\ UNCHANGED <<faults, senders, jar, acc, sent, got, spent, orphans, late, left>>

LEMMA RevokeIs ==
  ASSUME TypeOK, CallsCarry, NEW t \in Tab, RevokeToken(t), ~Fail(t)
  PROVE  Revokes(t)
  <1>1. sent[t] \in Token
    BY SessionAssumption DEF RevokeToken, CallsCarry, TypeOK, Token
  <1> QED BY <1>1 DEF RevokeToken, Revokes, Goto, TypeOK, history

\* issueSession makes an unused token active and spends the one that was sent.
Issues(t, k) ==
    /\ tok[k] = "unused" /\ tok'[k] = "active"
    /\ \A l \in Token \ {k} : tok'[l] = tok[l]
    /\ got'[t] = k /\ pc[t] = "issue" /\ pc'[t] = "reply"
    /\ \A u \in Tab \ {t} : pc'[u] = pc[u] /\ got'[u] = got[u]
    /\ \A l \in Token : l \in spent' <=> l \in spent \/ l = sent[t]
    /\ UNCHANGED <<faults, senders, jar, acc, sent, orphans, late, left>>

LEMMA IssueIs ==
  ASSUME TypeOK, NEW t \in Tab, IssueSession(t), ~Fail(t)
  PROVE  \E k \in Token : Issues(t, k)
  <1>1. PICK k \in Token : /\ tok[k] = "unused"
                           /\ tok' = [tok EXCEPT ![k] = "active"]
                           /\ got' = [got EXCEPT ![t] = k]
    BY DEF IssueSession
  <1>2. /\ pc[t] = "issue" /\ pc' = [pc EXCEPT ![t] = "reply"]
        /\ spent' = spent \cup ({sent[t]} \cap Token)
        /\ UNCHANGED <<faults, senders, jar, acc, sent, orphans, late, left>>
    BY DEF IssueSession, Goto
  <1>3. Issues(t, k)
    BY <1>1, <1>2 DEF TypeOK, Issues
  <1> QED BY <1>3

\* The reply puts the new token in the jar.
Replies(t) ==
    /\ pc[t] = "reply" /\ pc'[t] = "idle" /\ jar' = got[t] /\ sent'[t] = 0
    /\ \A u \in Tab \ {t} : pc'[u] = pc[u] /\ sent'[u] = sent[u] /\ got'[u] = got[u]
    /\ left' = IF sent[t] = 0 THEN "no" ELSE left
    /\ late' = late \ {t} /\ UNCHANGED <<faults, senders, tok, spent, orphans>>

LEMMA ReplyIs ==
  ASSUME TypeOK, NEW t \in Tab, Reply(t), ~Fail(t)
  PROVE  Replies(t)
  BY DEF Reply, Replies, Goto, TypeOK

\* InsertSender.
Inserts(t) ==
    /\ pc[t] = "insert" /\ pc'[t] = "issue" /\ senders' = senders + 1
    /\ \A u \in Tab \ {t} : pc'[u] = pc[u]
    /\ UNCHANGED <<faults, tok, jar, acc, sent, got, spent, orphans, late, left>>

LEMMA InsertIs ==
  ASSUME TypeOK, NEW t \in Tab, InsertSender(t), ~Fail(t)
  PROVE  Inserts(t)
  BY DEF InsertSender, Inserts, Goto, TypeOK, history

\* Logout kills at most the token that was sent.
Serves(t) ==
    /\ pc[t] = "logout" /\ pc'[t] \in {"idle", "clear"}
    /\ \A u \in Tab \ {t} : pc'[u] = pc[u] /\ sent'[u] = sent[u] /\ acc'[u] = acc[u]
    /\ pc'[t] = "idle" => sent'[t] = 0 /\ acc'[t] = "none" /\ acc[t] = "expired"
    /\ pc'[t] = "clear" => sent'[t] = sent[t] /\ acc'[t] = acc[t]
    /\ \A k \in Token : \/ tok'[k] = tok[k]
                        \/ k = sent[t] /\ pc'[t] = "clear" /\ tok'[k] = "revoked"
    /\ \A k \in Token : k \in spent' => k \in spent \/ tok'[k] = "revoked"
    /\ \A k \in spent : k \in spent'
    /\ UNCHANGED <<faults, senders, jar, got, orphans, late, left>>

LEMMA LogoutServeIs ==
  ASSUME TypeOK, NEW t \in Tab, LogoutServe(t)
  PROVE  Serves(t)
  <1>1. CASE acc[t] = "expired" /\ SignOut(t) /\ UNCHANGED <<tok, spent>>
    BY <1>1 DEF LogoutServe, Serves, SignOut, Goto, TypeOK
  <1>2. CASE Goto(t, "clear") /\ UNCHANGED <<acc, sent>> /\ Db /\ UNCHANGED <<tok, spent>>
    BY <1>2 DEF LogoutServe, Serves, Goto, Db, TypeOK
  <1>3. CASE /\ Goto(t, "clear") /\ UNCHANGED <<acc, sent>>
             /\ tok' = [k \in Token |-> IF k = sent[t] THEN "revoked" ELSE tok[k]]
             /\ spent' = spent \cup ({sent[t]} \cap Token)
    BY <1>3 DEF LogoutServe, Serves, Goto, TypeOK
  <1> QED BY <1>1, <1>2, <1>3 DEF LogoutServe

\* The reply to Logout clears the jar, or is lost.
Clears(t) ==
    /\ pc[t] = "clear" /\ pc'[t] = "idle" /\ sent'[t] = 0
    /\ \A u \in Tab \ {t} : pc'[u] = pc[u] /\ sent'[u] = sent[u]
    /\ \/ /\ jar' = 0 /\ orphans' = orphans
          /\ (\E u \in Tab : Refreshing(u)) => left' = "crossed"
       \/ /\ jar' = jar /\ left' = left /\ \A k \in orphans : k \in orphans'
          /\ sent[t] \in Token => sent[t] \in orphans'
    /\ UNCHANGED <<faults, senders, tok, got, spent, late>>

LEMMA LogoutReplyIs ==
  ASSUME TypeOK, NEW t \in Tab, LogoutReply(t)
  PROVE  Clears(t)
  BY DEF LogoutReply, Clears, SignOut, Goto, TypeOK

\* The numbers that name tokens.
Numbers ==
    /\ jar \in Token \cup {0}
    /\ \A t \in Tab : sent[t] \in Token \cup {0} /\ got[t] \in Token \cup {0}
    /\ \A k \in Token : k # 0
    /\ \A k \in spent \cup orphans : k \in Token
    /\ \A t \in late : t \in Tab

LEMMA NumbersAre == TypeOK => Numbers
  BY SessionAssumption DEF TypeOK, Numbers, Token

----------------------------------------------------------------------------
(* The invariant, part by part.                                            *)

\* A call carries the cookie it must present.
LEMMA CarryStep ==
  ASSUME TypeOK, CallsCarry, [Next]_vars
  PROVE  CallsCarry'
  <1>a. ASSUME NEW t \in Tab, Act(t) PROVE CallsCarry'
    <2>1. CASE Reload(t)
      BY <2>1 DEF Reload, CallsCarry, TypeOK
    <2>2. CASE Refresh(t)
      BY <2>2 DEF Refresh, Free, Goto, CallsCarry, TypeOK
    <2>3. CASE Login(t)
      BY <2>3 DEF Login, Free, Goto, CallsCarry, TypeOK
    <2>4. CASE Register(t)
      BY <2>4 DEF Register, Free, Goto, CallsCarry, TypeOK
    <2>5. CASE Logout(t)
      BY <2>5 DEF Logout, Free, Goto, CallsCarry, TypeOK
    <2>6. CASE CheckToken(t)
      BY <2>6 DEF CheckToken, Goto, Fail, Db, CallsCarry, TypeOK
    <2>7. CASE RevokeToken(t)
      BY <2>7 DEF RevokeToken, Goto, Fail, Db, CallsCarry, TypeOK
    <2>8. CASE IssueSession(t)
      BY <2>8 DEF IssueSession, Goto, Fail, Db, CallsCarry, TypeOK
    <2>9. CASE Reply(t)
      BY <2>9 DEF Reply, Goto, Fail, CallsCarry, TypeOK
    <2>10. CASE InsertSender(t)
      BY <2>10 DEF InsertSender, Goto, Fail, Db, CallsCarry, TypeOK
    <2>11. CASE LogoutServe(t)
      BY <2>11 DEF LogoutServe, SignOut, Goto, Db, CallsCarry, TypeOK
    <2>12. CASE LogoutReply(t)
      BY <2>12 DEF LogoutReply, SignOut, Goto, CallsCarry, TypeOK
    <2>13. CASE AccessExpires(t)
      BY <2>13 DEF AccessExpires, CallsCarry, TypeOK
    <2> QED
      BY <1>a, <2>1, <2>2, <2>3, <2>4, <2>5, <2>6, <2>7,
         <2>8, <2>9, <2>10, <2>11, <2>12, <2>13 DEF Act, Call
  <1>b. ASSUME NEW k \in Token, TokenExpires(k) PROVE CallsCarry'
    BY <1>b DEF TokenExpires, CallsCarry, TypeOK
  <1>c. CASE UNCHANGED vars
    BY <1>c DEF vars, CallsCarry
  <1> QED BY <1>a, <1>b, <1>c DEF Next, Act

\* No cookie names a token that was never issued.
LEMMA IssuedStep ==
  ASSUME TypeOK, CallsCarry, CookiesAreIssued, OnlyInReply, [Next]_vars
  PROVE  CookiesAreIssued'
  <1>n. Numbers
    BY NumbersAre
  <1>a. ASSUME NEW t \in Tab, Act(t) PROVE CookiesAreIssued'
    <2>1. CASE Reload(t)
      BY <2>1 DEF Reload, CookiesAreIssued, OnlyInReply, TypeOK
    <2>2. CASE Refresh(t)
      BY <2>2, SessionAssumption DEF Token, Refresh, Free, Goto, CookiesAreIssued, OnlyInReply, TypeOK
    <2>3. CASE Login(t)
      BY <2>3 DEF Login, Free, Goto, CookiesAreIssued, OnlyInReply, TypeOK
    <2>4. CASE Register(t)
      BY <2>4 DEF Register, Free, Goto, CookiesAreIssued, OnlyInReply, TypeOK
    <2>5. CASE Logout(t)
      BY <2>5, SessionAssumption DEF Token, Logout, Free, Goto, CookiesAreIssued, OnlyInReply, TypeOK
    <2>6. CASE CheckToken(t)
      <3>1. CASE Fail(t)
        <4>1. Fails(t)
          BY <3>1, FailIs
        <4> QED BY <1>n, <4>1 DEF Fails, CookiesAreIssued, OnlyInReply, Numbers
      <3>2. CASE ~Fail(t)
        <4>1. Checks(t)
          BY <2>6, <3>2, CheckIs
        <4> QED BY <1>n, <4>1 DEF Checks, CookiesAreIssued, OnlyInReply, Numbers
      <3> QED BY <3>1, <3>2
    <2>7. CASE RevokeToken(t)
      <3>1. CASE Fail(t)
        <4>1. Fails(t)
          BY <3>1, FailIs
        <4> QED BY <1>n, <4>1 DEF Fails, CookiesAreIssued, OnlyInReply, Numbers
      <3>2. CASE ~Fail(t)
        <4>1. Revokes(t)
          BY <2>7, <3>2, RevokeIs
        <4> QED BY <1>n, <4>1 DEF Revokes, CookiesAreIssued, OnlyInReply, Numbers
      <3> QED BY <3>1, <3>2
    <2>8. CASE IssueSession(t)
      <3>1. CASE Fail(t)
        <4>1. Fails(t)
          BY <3>1, FailIs
        <4> QED BY <1>n, <4>1 DEF Fails, CookiesAreIssued, OnlyInReply, Numbers
      <3>2. CASE ~Fail(t)
        <4>1. PICK k \in Token : Issues(t, k)
          BY <2>8, <3>2, IssueIs
        <4> QED BY <1>n, <4>1 DEF Issues, CookiesAreIssued, OnlyInReply, Numbers
      <3> QED BY <3>1, <3>2
    <2>9. CASE Reply(t)
      BY <2>9, SessionAssumption DEF Token, Reply, Goto, Fail, CookiesAreIssued, OnlyInReply, TypeOK
    <2>10. CASE InsertSender(t)
      BY <2>10 DEF InsertSender, Goto, Fail, Db, CookiesAreIssued, OnlyInReply, TypeOK
    <2>11. CASE LogoutServe(t)
      <3>1. Serves(t)
        BY <2>11, LogoutServeIs
      <3> QED BY <1>n, <3>1 DEF Serves, CookiesAreIssued, OnlyInReply, Numbers
    <2>12. CASE LogoutReply(t)
      BY <2>12 DEF LogoutReply, SignOut, Goto, CookiesAreIssued, OnlyInReply, TypeOK
    <2>13. CASE AccessExpires(t)
      BY <2>13 DEF AccessExpires, CookiesAreIssued, OnlyInReply, TypeOK
    <2> QED
      BY <1>a, <2>1, <2>2, <2>3, <2>4, <2>5, <2>6, <2>7,
         <2>8, <2>9, <2>10, <2>11, <2>12, <2>13 DEF Act, Call
  <1>b. ASSUME NEW k \in Token, TokenExpires(k) PROVE CookiesAreIssued'
    BY <1>b DEF TokenExpires, CookiesAreIssued, OnlyInReply, TypeOK
  <1>c. CASE UNCHANGED vars
    BY <1>c DEF vars, CookiesAreIssued
  <1> QED BY <1>a, <1>b, <1>c DEF Next, Act

\* A token on its way to the browser is known to its call only.
LEMMA ReplyStep ==
  ASSUME TypeOK, CallsCarry, CookiesAreIssued, OnlyInReply, [Next]_vars
  PROVE  OnlyInReply'
  <1>n. Numbers
    BY NumbersAre
  <1>a. ASSUME NEW t \in Tab, Act(t) PROVE OnlyInReply'
    <2>1. CASE Reload(t)
      BY <2>1 DEF Reload, CookiesAreIssued, OnlyInReply, TypeOK
    <2>2. CASE Refresh(t)
      BY <2>2, SessionAssumption DEF Token, Refresh, Free, Goto, CookiesAreIssued, OnlyInReply, TypeOK
    <2>3. CASE Login(t)
      BY <2>3 DEF Login, Free, Goto, CookiesAreIssued, OnlyInReply, TypeOK
    <2>4. CASE Register(t)
      BY <2>4 DEF Register, Free, Goto, CookiesAreIssued, OnlyInReply, TypeOK
    <2>5. CASE Logout(t)
      BY <2>5, SessionAssumption DEF Token, Logout, Free, Goto, CookiesAreIssued, OnlyInReply, TypeOK
    <2>6. CASE CheckToken(t)
      <3>1. CASE Fail(t)
        <4>1. Fails(t)
          BY <3>1, FailIs
        <4> QED BY <1>n, <4>1 DEF Fails, CookiesAreIssued, OnlyInReply, Numbers
      <3>2. CASE ~Fail(t)
        <4>1. Checks(t)
          BY <2>6, <3>2, CheckIs
        <4> QED BY <1>n, <4>1 DEF Checks, CookiesAreIssued, OnlyInReply, Numbers
      <3> QED BY <3>1, <3>2
    <2>7. CASE RevokeToken(t)
      <3>1. CASE Fail(t)
        <4>1. Fails(t)
          BY <3>1, FailIs
        <4> QED BY <1>n, <4>1 DEF Fails, CookiesAreIssued, OnlyInReply, Numbers
      <3>2. CASE ~Fail(t)
        <4>1. Revokes(t)
          BY <2>7, <3>2, RevokeIs
        <4> QED BY <1>n, <4>1 DEF Revokes, CookiesAreIssued, OnlyInReply, Numbers
      <3> QED BY <3>1, <3>2
    <2>8. CASE IssueSession(t)
      <3>1. CASE Fail(t)
        <4>1. Fails(t)
          BY <3>1, FailIs
        <4> QED BY <1>n, <4>1 DEF Fails, CookiesAreIssued, OnlyInReply, Numbers
      <3>2. CASE ~Fail(t)
        <4>1. PICK k \in Token : Issues(t, k)
          BY <2>8, <3>2, IssueIs
        <4> QED BY <1>n, <4>1 DEF Issues, CookiesAreIssued, OnlyInReply, Numbers
      <3> QED BY <3>1, <3>2
    <2>9. CASE Reply(t)
      <3>1. CASE Fail(t)
        <4>1. Fails(t)
          BY <3>1, FailIs
        <4> QED BY <1>n, <4>1 DEF Fails, CookiesAreIssued, OnlyInReply, Numbers
      <3>2. CASE ~Fail(t)
        <4>1. Replies(t)
          BY <2>9, <3>2, ReplyIs
        <4> QED BY <1>n, <4>1 DEF Replies, CookiesAreIssued, OnlyInReply, Numbers
      <3> QED BY <3>1, <3>2
    <2>10. CASE InsertSender(t)
      <3>1. CASE Fail(t)
        <4>1. Fails(t)
          BY <3>1, FailIs
        <4> QED BY <1>n, <4>1 DEF Fails, CookiesAreIssued, OnlyInReply, Numbers
      <3>2. CASE ~Fail(t)
        <4>1. Inserts(t)
          BY <2>10, <3>2, InsertIs
        <4> QED BY <1>n, <4>1 DEF Inserts, CookiesAreIssued, OnlyInReply, Numbers
      <3> QED BY <3>1, <3>2
    <2>11. CASE LogoutServe(t)
      <3>1. Serves(t)
        BY <2>11, LogoutServeIs
      <3> QED BY <1>n, <3>1 DEF Serves, CookiesAreIssued, OnlyInReply, Numbers
    <2>12. CASE LogoutReply(t)
      BY <2>12 DEF LogoutReply, SignOut, Goto, CookiesAreIssued, OnlyInReply, TypeOK
    <2>13. CASE AccessExpires(t)
      BY <2>13 DEF AccessExpires, CookiesAreIssued, OnlyInReply, TypeOK
    <2> QED
      BY <1>a, <2>1, <2>2, <2>3, <2>4, <2>5, <2>6, <2>7,
         <2>8, <2>9, <2>10, <2>11, <2>12, <2>13 DEF Act, Call
  <1>b. ASSUME NEW k \in Token, TokenExpires(k) PROVE OnlyInReply'
    BY <1>b DEF TokenExpires, CookiesAreIssued, OnlyInReply, TypeOK
  <1>c. CASE UNCHANGED vars
    BY <1>c DEF vars, OnlyInReply
  <1> QED BY <1>a, <1>b, <1>c DEF Next, Act

\* A token counts as spent only when it is dead.
LEMMA DeadStep ==
  ASSUME TypeOK, CallsCarry, CookiesAreIssued, SpentAreDead, [Next]_vars
  PROVE  SpentAreDead'
  <1>n. Numbers
    BY NumbersAre
  <1>a. ASSUME NEW t \in Tab, Act(t) PROVE SpentAreDead'
    <2>1. CASE Reload(t)
      BY <1>n, <2>1 DEF Reload, CallsCarry, CookiesAreIssued, SpentAreDead, TypeOK, Numbers, history
    <2>2. CASE Refresh(t)
      BY <1>n, <2>2 DEF Refresh, Free, Goto, CallsCarry, CookiesAreIssued, SpentAreDead, TypeOK, Numbers, history
    <2>3. CASE Login(t)
      BY <1>n, <2>3 DEF Login, Free, Goto, CallsCarry, CookiesAreIssued, SpentAreDead, TypeOK, Numbers, history
    <2>4. CASE Register(t)
      BY <1>n, <2>4 DEF Register, Free, Goto, CallsCarry, CookiesAreIssued, SpentAreDead, TypeOK, Numbers, history
    <2>5. CASE Logout(t)
      BY <1>n, <2>5 DEF Logout, Free, Goto, CallsCarry, CookiesAreIssued, SpentAreDead, TypeOK, Numbers, history
    <2>6. CASE CheckToken(t)
      <3>1. CASE Fail(t)
        <4>1. Fails(t)
          BY <3>1, FailIs
        <4>2. pc[t] = "check"
          BY <2>6 DEF CheckToken
        <4> QED BY <1>n, <4>1, <4>2 DEF Fails, CallsCarry, CookiesAreIssued, SpentAreDead, Numbers
      <3>2. CASE ~Fail(t)
        <4>1. Checks(t)
          BY <2>6, <3>2, CheckIs
        <4> QED BY <1>n, <4>1 DEF Checks, CallsCarry, CookiesAreIssued, SpentAreDead, Numbers
      <3> QED BY <3>1, <3>2
    <2>7. CASE RevokeToken(t)
      <3>1. CASE Fail(t)
        <4>1. Fails(t)
          BY <3>1, FailIs
        <4>2. pc[t] = "revoke"
          BY <2>7 DEF RevokeToken
        <4> QED BY <1>n, <4>1, <4>2 DEF Fails, CallsCarry, CookiesAreIssued, SpentAreDead, Numbers
      <3>2. CASE ~Fail(t)
        <4>1. Revokes(t)
          BY <2>7, <3>2, RevokeIs
        <4> QED BY <1>n, <4>1 DEF Revokes, CallsCarry, CookiesAreIssued, SpentAreDead, Numbers
      <3> QED BY <3>1, <3>2
    <2>8. CASE IssueSession(t)
      <3>1. CASE Fail(t)
        <4>1. Fails(t)
          BY <3>1, FailIs
        <4>2. pc[t] = "issue"
          BY <2>8 DEF IssueSession
        <4> QED BY <1>n, <4>1, <4>2 DEF Fails, CallsCarry, CookiesAreIssued, SpentAreDead, Numbers
      <3>2. CASE ~Fail(t)
        <4>1. PICK k \in Token : Issues(t, k)
          BY <2>8, <3>2, IssueIs
        <4>2. \A l \in Token : tok[l] = "revoked" => tok'[l] = "revoked"
          BY <4>1 DEF Issues
        <4>3. sent[t] # 0 => tok[sent[t]] = "revoked"
          BY <4>1 DEF Issues, SpentAreDead
        <4>4. \A l \in spent' : l \in Token
          BY <1>n, <2>8, <3>2 DEF IssueSession, Numbers
        <4>5. \A l \in spent' : tok'[l] = "revoked"
          BY <1>n, <4>1, <4>2, <4>3, <4>4 DEF Issues, SpentAreDead, Numbers
        <4>6. \A u \in Tab : pc'[u] = "issue" /\ sent'[u] # 0 => tok'[sent'[u]] = "revoked"
          BY <1>n, <4>1, <4>2 DEF Issues, SpentAreDead, Numbers
        <4>7. \A u \in late' : pc'[u] = "check" /\ sent'[u] \in spent'
          BY <1>n, <4>1 DEF Issues, SpentAreDead, Numbers
        <4> QED BY <4>5, <4>6, <4>7 DEF SpentAreDead
      <3> QED BY <3>1, <3>2
    <2>9. CASE Reply(t)
      <3>1. CASE Fail(t)
        <4>1. Fails(t)
          BY <3>1, FailIs
        <4>2. pc[t] = "reply"
          BY <2>9 DEF Reply
        <4> QED BY <1>n, <4>1, <4>2 DEF Fails, CallsCarry, CookiesAreIssued, SpentAreDead, Numbers
      <3>2. CASE ~Fail(t)
        <4>1. Replies(t)
          BY <2>9, <3>2, ReplyIs
        <4> QED BY <1>n, <4>1 DEF Replies, CallsCarry, CookiesAreIssued, SpentAreDead, Numbers
      <3> QED BY <3>1, <3>2
    <2>10. CASE InsertSender(t)
      <3>1. CASE Fail(t)
        <4>1. Fails(t)
          BY <3>1, FailIs
        <4>2. pc[t] = "insert"
          BY <2>10 DEF InsertSender
        <4> QED BY <1>n, <4>1, <4>2 DEF Fails, CallsCarry, CookiesAreIssued, SpentAreDead, Numbers
      <3>2. CASE ~Fail(t)
        <4>1. Inserts(t)
          BY <2>10, <3>2, InsertIs
        <4> QED BY <1>n, <4>1 DEF Inserts, CallsCarry, CookiesAreIssued, SpentAreDead, Numbers
      <3> QED BY <3>1, <3>2
    <2>11. CASE LogoutServe(t)
      <3>1. Serves(t)
        BY <2>11, LogoutServeIs
      <3>2. \A k \in Token : tok[k] = "revoked" => tok'[k] = "revoked"
        BY <3>1 DEF Serves
      <3>3. \A k \in spent' : k \in Token
        BY <1>n, <2>11 DEF LogoutServe, Numbers
      <3>4. \A k \in spent' : tok'[k] = "revoked"
        BY <3>1, <3>2, <3>3 DEF Serves, SpentAreDead
      <3>5. \A u \in Tab : pc'[u] = "issue" /\ sent'[u] # 0 => tok'[sent'[u]] = "revoked"
        BY <1>n, <3>1, <3>2 DEF Serves, SpentAreDead, Numbers
      <3>6. \A u \in late' : pc'[u] = "check" /\ sent'[u] \in spent'
        BY <1>n, <3>1 DEF Serves, SpentAreDead, Numbers
      <3> QED BY <3>4, <3>5, <3>6 DEF SpentAreDead
    <2>12. CASE LogoutReply(t)
      <3>1. Clears(t)
        BY <2>12, LogoutReplyIs
      <3> QED BY <1>n, <3>1 DEF Clears, CallsCarry, CookiesAreIssued, SpentAreDead, Numbers
    <2>13. CASE AccessExpires(t)
      BY <1>n, <2>13 DEF AccessExpires, CallsCarry, CookiesAreIssued, SpentAreDead, TypeOK, Numbers, history
    <2> QED
      BY <1>a, <2>1, <2>2, <2>3, <2>4, <2>5, <2>6, <2>7,
         <2>8, <2>9, <2>10, <2>11, <2>12, <2>13 DEF Act, Call
  <1>b. ASSUME NEW k \in Token, TokenExpires(k) PROVE SpentAreDead'
    BY <1>n, <1>b DEF TokenExpires, CallsCarry, CookiesAreIssued, SpentAreDead, TypeOK, Numbers, history
  <1>c. CASE UNCHANGED vars
    BY <1>c DEF vars, history, CallsCarry, CookiesAreIssued, SpentAreDead
  <1> QED BY <1>a, <1>b, <1>c DEF Next, Act

\* Nobody renews a session that a Logout has ended undisturbed.
LEMMA LeftStep ==
  ASSUME TypeOK, CallsCarry, CookiesAreIssued, SpentAreDead, SpentIsDead, [Next]_vars
  PROVE  SpentIsDead'
  <1>n. Numbers
    BY NumbersAre
  <1>a. ASSUME NEW t \in Tab, Act(t) PROVE SpentIsDead'
    <2>1. CASE Reload(t)
      BY <1>n, <2>1 DEF Reload, CallsCarry, SpentAreDead, SpentIsDead, Refused, SignedOut, Refreshing, TypeOK, Numbers, history
    <2>2. CASE Refresh(t)
      BY <1>n, <2>2 DEF Refresh, Free, Goto, CallsCarry, SpentAreDead, SpentIsDead, Refused, SignedOut, Refreshing, TypeOK, Numbers, history
    <2>3. CASE Login(t)
      BY <1>n, <2>3 DEF Login, Free, Goto, CallsCarry, SpentAreDead, SpentIsDead, Refused, SignedOut, Refreshing, TypeOK, Numbers, history
    <2>4. CASE Register(t)
      BY <1>n, <2>4 DEF Register, Free, Goto, CallsCarry, SpentAreDead, SpentIsDead, Refused, SignedOut, Refreshing, TypeOK, Numbers, history
    <2>5. CASE Logout(t)
      BY <1>n, <2>5 DEF Logout, Free, Goto, CallsCarry, SpentAreDead, SpentIsDead, Refused, SignedOut, Refreshing, TypeOK, Numbers, history
    <2>6. CASE CheckToken(t)
      <3>1. CASE Fail(t)
        <4>1. Fails(t)
          BY <3>1, FailIs
        <4>2. pc[t] = "check"
          BY <2>6 DEF CheckToken
        <4> QED BY <1>n, <4>1, <4>2 DEF Fails, CallsCarry, SpentAreDead, SpentIsDead, Refused, SignedOut, Refreshing, Numbers
      <3>2. CASE ~Fail(t)
        <4>1. Checks(t)
          BY <2>6, <3>2, CheckIs
        <4> QED BY <1>n, <4>1 DEF Checks, CallsCarry, SpentAreDead, SpentIsDead, Refused, SignedOut, Refreshing, Numbers
      <3> QED BY <3>1, <3>2
    <2>7. CASE RevokeToken(t)
      <3>1. CASE Fail(t)
        <4>1. Fails(t)
          BY <3>1, FailIs
        <4>2. pc[t] = "revoke"
          BY <2>7 DEF RevokeToken
        <4> QED BY <1>n, <4>1, <4>2 DEF Fails, CallsCarry, SpentAreDead, SpentIsDead, Refused, SignedOut, Refreshing, Numbers
      <3>2. CASE ~Fail(t)
        <4>1. Revokes(t)
          BY <2>7, <3>2, RevokeIs
        <4> QED BY <1>n, <4>1 DEF Revokes, CallsCarry, SpentAreDead, SpentIsDead, Refused, SignedOut, Refreshing, Numbers
      <3> QED BY <3>1, <3>2
    <2>8. CASE IssueSession(t)
      <3>1. CASE Fail(t)
        <4>1. Fails(t)
          BY <3>1, FailIs
        <4>2. pc[t] = "issue"
          BY <2>8 DEF IssueSession
        <4> QED BY <1>n, <4>1, <4>2 DEF Fails, CallsCarry, SpentAreDead, SpentIsDead, Refused, SignedOut, Refreshing, Numbers
      <3>2. CASE ~Fail(t)
        <4>1. PICK k \in Token : Issues(t, k)
          BY <2>8, <3>2, IssueIs
        <4> QED BY <1>n, <4>1 DEF Issues, CallsCarry, SpentAreDead, SpentIsDead, Refused, SignedOut, Refreshing, Numbers
      <3> QED BY <3>1, <3>2
    <2>9. CASE Reply(t)
      <3>1. CASE Fail(t)
        <4>1. Fails(t)
          BY <3>1, FailIs
        <4>2. pc[t] = "reply"
          BY <2>9 DEF Reply
        <4> QED BY <1>n, <4>1, <4>2 DEF Fails, CallsCarry, SpentAreDead, SpentIsDead, Refused, SignedOut, Refreshing, Numbers
      <3>2. CASE ~Fail(t)
        <4>1. Replies(t)
          BY <2>9, <3>2, ReplyIs
        <4> QED BY <1>n, <4>1 DEF Replies, CallsCarry, SpentAreDead, SpentIsDead, Refused, SignedOut, Refreshing, Numbers
      <3> QED BY <3>1, <3>2
    <2>10. CASE InsertSender(t)
      <3>1. CASE Fail(t)
        <4>1. Fails(t)
          BY <3>1, FailIs
        <4>2. pc[t] = "insert"
          BY <2>10 DEF InsertSender
        <4> QED BY <1>n, <4>1, <4>2 DEF Fails, CallsCarry, SpentAreDead, SpentIsDead, Refused, SignedOut, Refreshing, Numbers
      <3>2. CASE ~Fail(t)
        <4>1. Inserts(t)
          BY <2>10, <3>2, InsertIs
        <4> QED BY <1>n, <4>1 DEF Inserts, CallsCarry, SpentAreDead, SpentIsDead, Refused, SignedOut, Refreshing, Numbers
      <3> QED BY <3>1, <3>2
    <2>11. CASE LogoutServe(t)
      <3>1. Serves(t)
        BY <2>11, LogoutServeIs
      <3> QED BY <1>n, <3>1 DEF Serves, CallsCarry, SpentAreDead, SpentIsDead, Refused, SignedOut, Refreshing, Numbers
    <2>12. CASE LogoutReply(t)
      <3>1. Clears(t)
        BY <2>12, LogoutReplyIs
      <3> QED BY <1>n, <3>1 DEF Clears, CallsCarry, SpentAreDead, SpentIsDead, Refused, SignedOut, Refreshing, Numbers
    <2>13. CASE AccessExpires(t)
      BY <1>n, <2>13 DEF AccessExpires, CallsCarry, SpentAreDead, SpentIsDead, Refused, SignedOut, Refreshing, TypeOK, Numbers, history
    <2> QED
      BY <1>a, <2>1, <2>2, <2>3, <2>4, <2>5, <2>6, <2>7,
         <2>8, <2>9, <2>10, <2>11, <2>12, <2>13 DEF Act, Call
  <1>b. ASSUME NEW k \in Token, TokenExpires(k) PROVE SpentIsDead'
    BY <1>n, <1>b DEF TokenExpires, CallsCarry, SpentAreDead, SpentIsDead, Refused, SignedOut, Refreshing, TypeOK, Numbers, history
  <1>c. CASE UNCHANGED vars
    BY <1>c DEF vars, history, CallsCarry, SpentAreDead, SpentIsDead, Refused, SignedOut, Refreshing
  <1> QED BY <1>a, <1>b, <1>c DEF Next, Act

\* A revoked token in the jar is about to leave it, or its call was cut off.
LEMMA JarStep ==
  ASSUME TypeOK, CallsCarry, CookiesAreIssued, OnlyInReply, JarIsGood, [Next]_vars
  PROVE  JarIsGood'
  <1>n. Numbers
    BY NumbersAre
  <1>a. ASSUME NEW t \in Tab, Act(t) PROVE JarIsGood'
    <2>1. CASE Reload(t)
      BY <1>n, <2>1 DEF Reload, CallsCarry, CookiesAreIssued, OnlyInReply, JarIsGood, Replacing, TypeOK, Numbers, history
    <2>2. CASE Refresh(t)
      BY <1>n, <2>2 DEF Refresh, Free, Goto, CallsCarry, CookiesAreIssued, OnlyInReply, JarIsGood, Replacing, TypeOK, Numbers, history
    <2>3. CASE Login(t)
      BY <1>n, <2>3 DEF Login, Free, Goto, CallsCarry, CookiesAreIssued, OnlyInReply, JarIsGood, Replacing, TypeOK, Numbers, history
    <2>4. CASE Register(t)
      BY <1>n, <2>4 DEF Register, Free, Goto, CallsCarry, CookiesAreIssued, OnlyInReply, JarIsGood, Replacing, TypeOK, Numbers, history
    <2>5. CASE Logout(t)
      BY <1>n, <2>5 DEF Logout, Free, Goto, CallsCarry, CookiesAreIssued, OnlyInReply, JarIsGood, Replacing, TypeOK, Numbers, history
    <2>6. CASE CheckToken(t)
      <3>1. CASE Fail(t)
        <4>1. Fails(t)
          BY <3>1, FailIs
        <4>2. pc[t] = "check"
          BY <2>6 DEF CheckToken
        <4> QED BY <1>n, <4>1, <4>2 DEF Fails, CallsCarry, CookiesAreIssued, OnlyInReply, JarIsGood, Replacing, Numbers
      <3>2. CASE ~Fail(t)
        <4>1. Checks(t)
          BY <2>6, <3>2, CheckIs
        <4> QED BY <1>n, <4>1 DEF Checks, CallsCarry, CookiesAreIssued, OnlyInReply, JarIsGood, Replacing, Numbers
      <3> QED BY <3>1, <3>2
    <2>7. CASE RevokeToken(t)
      <3>1. CASE Fail(t)
        <4>1. Fails(t)
          BY <3>1, FailIs
        <4>2. pc[t] = "revoke"
          BY <2>7 DEF RevokeToken
        <4> QED BY <1>n, <4>1, <4>2 DEF Fails, CallsCarry, CookiesAreIssued, OnlyInReply, JarIsGood, Replacing, Numbers
      <3>2. CASE ~Fail(t)
        <4>1. Revokes(t)
          BY <2>7, <3>2, RevokeIs
        <4> QED BY <1>n, <4>1 DEF Revokes, CallsCarry, CookiesAreIssued, OnlyInReply, JarIsGood, Replacing, Numbers
      <3> QED BY <3>1, <3>2
    <2>8. CASE IssueSession(t)
      <3>1. CASE Fail(t)
        <4>1. Fails(t)
          BY <3>1, FailIs
        <4>2. pc[t] = "issue"
          BY <2>8 DEF IssueSession
        <4> QED BY <1>n, <4>1, <4>2 DEF Fails, CallsCarry, CookiesAreIssued, OnlyInReply, JarIsGood, Replacing, Numbers
      <3>2. CASE ~Fail(t)
        <4>1. PICK k \in Token : Issues(t, k)
          BY <2>8, <3>2, IssueIs
        <4> QED BY <1>n, <4>1 DEF Issues, CallsCarry, CookiesAreIssued, OnlyInReply, JarIsGood, Replacing, Numbers
      <3> QED BY <3>1, <3>2
    <2>9. CASE Reply(t)
      <3>1. CASE Fail(t)
        <4>1. Fails(t)
          BY <3>1, FailIs
        <4>2. pc[t] = "reply"
          BY <2>9 DEF Reply
        <4> QED BY <1>n, <4>1, <4>2 DEF Fails, CallsCarry, CookiesAreIssued, OnlyInReply, JarIsGood, Replacing, Numbers
      <3>2. CASE ~Fail(t)
        <4>1. Replies(t)
          BY <2>9, <3>2, ReplyIs
        <4> QED BY <1>n, <4>1 DEF Replies, CallsCarry, CookiesAreIssued, OnlyInReply, JarIsGood, Replacing, Numbers
      <3> QED BY <3>1, <3>2
    <2>10. CASE InsertSender(t)
      <3>1. CASE Fail(t)
        <4>1. Fails(t)
          BY <3>1, FailIs
        <4>2. pc[t] = "insert"
          BY <2>10 DEF InsertSender
        <4> QED BY <1>n, <4>1, <4>2 DEF Fails, CallsCarry, CookiesAreIssued, OnlyInReply, JarIsGood, Replacing, Numbers
      <3>2. CASE ~Fail(t)
        <4>1. Inserts(t)
          BY <2>10, <3>2, InsertIs
        <4> QED BY <1>n, <4>1 DEF Inserts, CallsCarry, CookiesAreIssued, OnlyInReply, JarIsGood, Replacing, Numbers
      <3> QED BY <3>1, <3>2
    <2>11. CASE LogoutServe(t)
      <3>1. Serves(t)
        BY <2>11, LogoutServeIs
      <3> QED BY <1>n, <3>1 DEF Serves, CallsCarry, CookiesAreIssued, OnlyInReply, JarIsGood, Replacing, Numbers
    <2>12. CASE LogoutReply(t)
      <3>1. Clears(t)
        BY <2>12, LogoutReplyIs
      <3> QED BY <1>n, <3>1 DEF Clears, CallsCarry, CookiesAreIssued, OnlyInReply, JarIsGood, Replacing, Numbers
    <2>13. CASE AccessExpires(t)
      BY <1>n, <2>13 DEF AccessExpires, CallsCarry, CookiesAreIssued, OnlyInReply, JarIsGood, Replacing, TypeOK, Numbers, history
    <2> QED
      BY <1>a, <2>1, <2>2, <2>3, <2>4, <2>5, <2>6, <2>7,
         <2>8, <2>9, <2>10, <2>11, <2>12, <2>13 DEF Act, Call
  <1>b. ASSUME NEW k \in Token, TokenExpires(k) PROVE JarIsGood'
    BY <1>n, <1>b DEF TokenExpires, CallsCarry, CookiesAreIssued, OnlyInReply, JarIsGood, Replacing, TypeOK, Numbers, history
  <1>c. CASE UNCHANGED vars
    BY <1>c DEF vars, history, CallsCarry, CookiesAreIssued, OnlyInReply, JarIsGood, Replacing
  <1> QED BY <1>a, <1>b, <1>c DEF Next, Act

----------------------------------------------------------------------------
(* Types.                                                                  *)

\* A step that lets nobody else past the pre-check.
LEMMA NoMoreInserts ==
  ASSUME NEW S, IsFiniteSet(S), NEW R \in SUBSET S
  PROVE  Cardinality(R) \in Nat /\ Cardinality(S) \in Nat /\ Cardinality(R) <= Cardinality(S)
  BY FS_Subset, FS_CardinalityType

\* Register lets tabs past its pre-check while there is no account, so no more
\* accounts than tabs are ever made.
LEMMA AccountsStep ==
  ASSUME TypeOK, AccountsBounded, [Next]_vars
  PROVE  AccountsBounded' /\ senders' \in 0..Cardinality(Tab)
  <1> DEFINE In == {t \in Tab : pc[t] = "insert"}
             Jn == {t \in Tab : pc'[t] = "insert"}
  <1>1. /\ IsFiniteSet(Tab) /\ IsFiniteSet(In) /\ senders \in Nat
        /\ Cardinality(In) \in Nat /\ Cardinality(Tab) \in Nat
        /\ senders + Cardinality(In) <= Cardinality(Tab)
    <2>1. IsFiniteSet(Tab) /\ Cardinality(Tab) \in Nat
      BY SessionAssumption, FS_CardinalityType
    <2>2. In \in SUBSET Tab
      OBVIOUS
    <2>3. IsFiniteSet(In) /\ Cardinality(In) \in Nat
      BY <2>1, <2>2, FS_Subset, FS_CardinalityType
    <2> QED BY <2>1, <2>3 DEF TypeOK, AccountsBounded
  <1>2. SUFFICES /\ senders' \in Nat /\ Cardinality(Jn) \in Nat
                 /\ senders' + Cardinality(Jn) <= Cardinality(Tab)
    BY <1>1 DEF AccountsBounded
  <1>3. CASE senders' = senders /\ Jn \in SUBSET In
    BY <1>1, <1>3, NoMoreInserts
  <1>4. ASSUME NEW t \in Tab, Register(t)
        PROVE  /\ senders' \in Nat /\ Cardinality(Jn) \in Nat
               /\ senders' + Cardinality(Jn) <= Cardinality(Tab)
    <2>1. senders' = 0
      BY <1>4 DEF Register
    <2>2. Jn \in SUBSET Tab
      OBVIOUS
    <2> QED BY <1>1, <2>1, <2>2, NoMoreInserts
  <1>5. ASSUME NEW t \in Tab, InsertSender(t), ~Fail(t)
        PROVE  /\ senders' \in Nat /\ Cardinality(Jn) \in Nat
               /\ senders' + Cardinality(Jn) <= Cardinality(Tab)
    <2>1. Inserts(t)
      BY <1>5, InsertIs
    <2>2. t \in In /\ Jn = In \ {t} /\ senders' = senders + 1
      BY <2>1 DEF Inserts
    <2>3. Cardinality(Jn) = Cardinality(In) - 1
      BY <1>1, <2>2, FS_RemoveElement
    <2>4. Cardinality(Jn) \in Nat
      BY <1>1, <2>2, FS_Subset, FS_CardinalityType
    <2> QED BY <1>1, <2>2, <2>3, <2>4
  <1>6. ASSUME NEW t \in Tab, Fail(t)
        PROVE  senders' = senders /\ Jn \in SUBSET In
    <2>1. Fails(t)
      BY <1>6, FailIs
    <2> QED BY <2>1 DEF Fails
  <1>7. ASSUME NEW t \in Tab, Act(t), ~Register(t), ~InsertSender(t), ~Fail(t)
        PROVE  senders' = senders /\ Jn \in SUBSET In
    <2>1. CASE Reload(t) \/ AccessExpires(t)
      BY <2>1 DEF Reload, AccessExpires
    <2>2. CASE Refresh(t) \/ Login(t) \/ Logout(t)
      BY <2>2 DEF Refresh, Login, Logout, Goto, TypeOK
    <2>3. CASE CheckToken(t) \/ RevokeToken(t)
      BY <1>7, <2>3 DEF CheckToken, RevokeToken, Goto, TypeOK
    <2>4. CASE IssueSession(t)
      BY <1>7, <2>4 DEF IssueSession, Goto, TypeOK
    <2>5. CASE Reply(t)
      BY <1>7, <2>5 DEF Reply, Goto, TypeOK
    <2>6. CASE LogoutServe(t)
      <3>1. Serves(t)
        BY <2>6, LogoutServeIs
      <3> QED BY <3>1 DEF Serves
    <2>7. CASE LogoutReply(t)
      BY <2>7 DEF LogoutReply, SignOut, Goto, TypeOK
    <2> QED
      BY <1>7, <2>1, <2>2, <2>3, <2>4, <2>5, <2>6, <2>7 DEF Act, Call
  <1>8. ASSUME NEW k \in Token, TokenExpires(k)
        PROVE  senders' = senders /\ Jn \in SUBSET In
    BY <1>8 DEF TokenExpires
  <1>9. UNCHANGED vars => senders' = senders /\ Jn \in SUBSET In
    BY DEF vars
  <1> QED
    BY <1>3, <1>4, <1>5, <1>6, <1>7, <1>8, <1>9 DEF Next, Act

LEMMA TypesStep ==
  ASSUME TypeOK, AccountsBounded, [Next]_vars
  PROVE  TypeOK'
  <1>0. senders' \in 0..Cardinality(Tab)
    BY AccountsStep
  <1>g. ASSUME NEW t \in Tab, NEW place \in Place, Goto(t, place)
        PROVE  pc' \in [Tab -> Place]
    BY <1>g DEF Goto, TypeOK
  <1>j. jar \in 0..MaxTok /\ 0 \in 0..MaxTok
    BY SessionAssumption DEF TypeOK
  <1>f. ASSUME NEW t \in Tab, Fail(t) PROVE TypeOK'
    <2>1. pc' \in [Tab -> Place]
      BY <1>f, <1>g DEF Fail, Place
    <2>2. sent' \in [Tab -> 0..MaxTok] /\ got' \in [Tab -> 0..MaxTok]
      BY <1>f, <1>j DEF Fail, TypeOK
    <2> QED BY <1>0, <1>f, <2>1, <2>2 DEF Fail, TypeOK
  <1>a. ASSUME NEW t \in Tab, Act(t), ~Fail(t) PROVE TypeOK'
    <2>1. CASE Reload(t)
      BY <1>0, <2>1 DEF Reload, TypeOK, history
    <2>2. CASE Refresh(t) \/ Logout(t)
      <3>1. pc' \in [Tab -> Place]
        BY <1>g, <2>2 DEF Refresh, Logout, Place
      <3>2. sent' \in [Tab -> 0..MaxTok]
        BY <1>j, <2>2 DEF Refresh, Logout, TypeOK
      <3>3. UNCHANGED <<faults, tok, jar, acc, got, spent, orphans, left>> /\ late' \in SUBSET Tab
        BY <2>2 DEF Refresh, Logout, history, TypeOK
      <3> QED BY <1>0, <3>1, <3>2, <3>3 DEF TypeOK
    <2>3. CASE Login(t) \/ Register(t)
      <3>1. pc' \in [Tab -> Place]
        BY <1>g, <2>3 DEF Login, Register, Place
      <3>2. UNCHANGED <<faults, tok, jar, acc, sent, got, history>>
        BY <2>3 DEF Login, Register
      <3> QED BY <1>0, <3>1, <3>2 DEF TypeOK, history
    <2>4. CASE CheckToken(t) \/ InsertSender(t)
      <3>1. pc' \in [Tab -> Place]
        BY <1>a, <1>g, <2>4 DEF CheckToken, InsertSender, Place
      <3>2. UNCHANGED <<faults, tok, jar, acc, sent, got, history>>
        BY <1>a, <2>4 DEF CheckToken, InsertSender
      <3> QED BY <1>0, <3>1, <3>2 DEF TypeOK, history
    <2>5. CASE RevokeToken(t)
      <3>1. pc' \in [Tab -> Place]
        BY <1>a, <1>g, <2>5 DEF RevokeToken, Place
      <3>2. tok' \in [Token -> TokenState]
        BY <1>a, <2>5 DEF RevokeToken, TypeOK, TokenState
      <3>3. UNCHANGED <<faults, jar, acc, sent, got, history>>
        BY <1>a, <2>5 DEF RevokeToken
      <3> QED BY <1>0, <3>1, <3>2, <3>3 DEF TypeOK, history
    <2>6. CASE IssueSession(t)
      <3>1. pc' \in [Tab -> Place]
        BY <1>a, <1>g, <2>6 DEF IssueSession, Place
      <3>2. PICK k \in Token : /\ tok' = [tok EXCEPT ![k] = "active"]
                               /\ got' = [got EXCEPT ![t] = k]
        BY <1>a, <2>6 DEF IssueSession
      <3>3. k \in 0..MaxTok
        BY SessionAssumption DEF Token
      <3>4. tok' \in [Token -> TokenState] /\ got' \in [Tab -> 0..MaxTok]
        BY <3>2, <3>3 DEF TypeOK, TokenState
      <3>5. spent' \in SUBSET Token
        BY <1>a, <2>6 DEF IssueSession, TypeOK
      <3>6. UNCHANGED <<faults, jar, acc, sent, orphans, late, left>>
        BY <1>a, <2>6 DEF IssueSession
      <3> QED BY <1>0, <3>1, <3>4, <3>5, <3>6 DEF TypeOK
    <2>7. CASE Reply(t)
      <3>1. pc' \in [Tab -> Place]
        BY <1>a, <1>g, <2>7 DEF Reply, Place
      <3>2. jar' \in 0..MaxTok
        BY <1>a, <2>7 DEF Reply, TypeOK
      <3>3. /\ sent' \in [Tab -> 0..MaxTok] /\ got' \in [Tab -> 0..MaxTok]
            /\ acc' \in [Tab -> {"none", "fresh", "expired"}]
        BY <1>a, <1>j, <2>7 DEF Reply, TypeOK
      <3>4. /\ UNCHANGED <<faults, tok, spent, orphans>>
            /\ late' \in SUBSET Tab /\ left' \in {"no", "out", "crossed"}
        BY <1>a, <2>7 DEF Reply, TypeOK
      <3> QED BY <1>0, <3>1, <3>2, <3>3, <3>4 DEF TypeOK
    <2>8. CASE LogoutServe(t)
      <3>1. pc' \in [Tab -> Place]
        BY <1>g, <2>8 DEF LogoutServe, SignOut, Place
      <3>2. /\ sent' \in [Tab -> 0..MaxTok]
            /\ acc' \in [Tab -> {"none", "fresh", "expired"}]
        BY <1>j, <2>8 DEF LogoutServe, SignOut, TypeOK
      <3>3. tok' \in [Token -> TokenState]
        BY <2>8 DEF LogoutServe, TypeOK, TokenState
      <3>4. UNCHANGED <<faults, jar, got, orphans, late, left>> /\ spent' \in SUBSET Token
        BY <2>8 DEF LogoutServe, TypeOK
      <3> QED BY <1>0, <3>1, <3>2, <3>3, <3>4 DEF TypeOK
    <2>9. CASE LogoutReply(t)
      <3>1. pc' \in [Tab -> Place]
        BY <1>g, <2>9 DEF LogoutReply, SignOut, Place
      <3>2. /\ sent' \in [Tab -> 0..MaxTok] /\ jar' \in 0..MaxTok
            /\ acc' \in [Tab -> {"none", "fresh", "expired"}]
        BY <1>j, <2>9 DEF LogoutReply, SignOut, TypeOK
      <3>3. /\ UNCHANGED <<faults, tok, got, spent, late>>
            /\ orphans' \in SUBSET Token /\ left' \in {"no", "out", "crossed"}
        BY <2>9 DEF LogoutReply, TypeOK
      <3> QED BY <1>0, <3>1, <3>2, <3>3 DEF TypeOK
    <2>10. CASE AccessExpires(t)
      BY <1>0, <2>10 DEF AccessExpires, TypeOK, history
    <2> QED
      BY <1>a, <2>1, <2>2, <2>3, <2>4, <2>5, <2>6, <2>7, <2>8, <2>9, <2>10 DEF Act, Call
  <1>b. ASSUME NEW k \in Token, TokenExpires(k) PROVE TypeOK'
    BY <1>0, <1>b DEF TokenExpires, TypeOK, TokenState, history
  <1>c. CASE UNCHANGED vars
    BY <1>0, <1>c DEF vars, TypeOK, history
  <1> QED BY <1>a, <1>b, <1>c, <1>f DEF Next, Act

LEMMA InitSession == Init => TypeOK /\ SessionInv
  <1> SUFFICES ASSUME Init PROVE TypeOK /\ SessionInv
    OBVIOUS
  <1>1. IsFiniteSet(Tab) /\ Cardinality(Tab) \in Nat /\ 0 \in 0..MaxTok
    BY SessionAssumption, FS_CardinalityType
  <1>2. TypeOK
    BY <1>1 DEF Init, TypeOK, TokenState, Place
  <1>3. AccountsBounded
    <2>1. {t \in Tab : pc[t] = "insert"} = {}
      BY DEF Init
    <2>2. Cardinality({t \in Tab : pc[t] = "insert"}) = 0
      BY <2>1, FS_EmptySet
    <2> QED BY <1>1, <2>2 DEF Init, AccountsBounded
  <1>4. CookiesAreIssued /\ CallsCarry /\ OnlyInReply /\ JarIsGood
    BY DEF Init, CookiesAreIssued, CallsCarry, OnlyInReply, JarIsGood
  <1>5. SpentAreDead /\ SpentIsDead
    BY DEF Init, SpentAreDead, SpentIsDead
  <1> QED BY <1>2, <1>3, <1>4, <1>5 DEF SessionInv

LEMMA SessionStep == TypeOK /\ SessionInv /\ [Next]_vars => TypeOK' /\ SessionInv'
  BY TypesStep, AccountsStep, CarryStep, IssuedStep, ReplyStep, DeadStep, LeftStep, JarStep
  DEF SessionInv

----------------------------------------------------------------------------
(* The theorems.                                                           *)

\* Every variable stays in its range; in particular the duplicate pre-check of
\* Register, which nothing joins to InsertSender, lets in no more accounts of one
\* address than there are tabs to pass it at the same time.
THEOREM TypeCorrect == Spec => []TypeOK
  BY InitSession, SessionStep, PTL DEF Spec

\* The browser is not left with a dead session: a cookie whose token has been
\* revoked is about to be replaced or cleared by the call that revoked it, or that
\* very call was cut off after the revocation, for any number of tabs and any
\* interleaving of their Refresh, Login, Register and Logout calls, whatever fails.
THEOREM JarStaysGood == Spec => []JarIsGood
  <1>1. SessionInv => JarIsGood
    BY DEF SessionInv
  <1> QED
    BY <1>1, InitSession, SessionStep, PTL DEF Spec

\* A refresh token that has served is dead: a refresh sent after its exchange or
\* after the Logout that revoked it gets nothing, and after a Logout that no
\* refresh crossed the browser has no session until the next login, for any
\* number of tabs, overlapping calls, lost replies, failing statements and expiry.
THEOREM SpentTokensAreDead == Spec => []SpentIsDead
  <1>1. SessionInv => SpentIsDead
    BY DEF SessionInv
  <1> QED
    BY <1>1, InitSession, SessionStep, PTL DEF Spec
=============================================================================
