---------------------------- MODULE AdminProofs ----------------------------
(***************************************************************************)
(* Proofs about the ops dashboard, for any number of jobs, pages, calls    *)
(* and heartbeats: every variable keeps its type, what the pages show      *)
(* leaves nothing out, is what was asked for, and calls no unit offline    *)
(* that Postgres has heard of within the lifetime of its cached state.     *)
(***************************************************************************)
EXTENDS Admin, SequenceTheorems, FiniteSetTheorems, TLAPS

----------------------------------------------------------------------------
(* Sequences: an element comes in, or goes.                                *)

\* t is s with e come in at i.
Inserted(s, i, e, t) ==
    \A k \in 1..(Len(s) + 1) : t[k] = IF k < i THEN s[k] ELSE IF k = i THEN e ELSE s[k - 1]

LEMMA InsertIs ==
  ASSUME NEW S, NEW s \in Seq(S), NEW i \in 1..(Len(s) + 1), NEW e \in S
  PROVE  /\ InsertAt(s, i, e) \in Seq(S)
         /\ Len(InsertAt(s, i, e)) = Len(s) + 1
         /\ Inserted(s, i, e, InsertAt(s, i, e))
  <1> DEFINE a == SubSeq(s, 1, i - 1)
             b == SubSeq(s, i, Len(s))
             c == a \o <<e>>
  <1>1. Len(s) \in Nat /\ \A k \in 1..Len(s) : s[k] \in S
    BY LenProperties, ElementOfSeq
  <1>2. a \in Seq(S) /\ Len(a) = i - 1 /\ \A k \in 1..(i - 1) : a[k] = s[k]
    BY <1>1, SubSeqProperties
  <1>3. b \in Seq(S) /\ Len(b) = Len(s) - i + 1 /\ \A k \in 1..(Len(s) - i + 1) : b[k] = s[i + k - 1]
    BY <1>1, SubSeqProperties
  <1> HIDE DEF a, b
  <1>4. <<e>> \in Seq(S) /\ Len(<<e>>) = 1 /\ <<e>>[1] = e
    OBVIOUS
  <1>5. c \in Seq(S) /\ Len(c) = i /\ \A k \in 1..i : c[k] = IF k < i THEN s[k] ELSE e
    BY <1>2, <1>4, ConcatProperties
  <1> HIDE DEF c
  <1>6. /\ c \o b \in Seq(S) /\ Len(c \o b) = Len(s) + 1
        /\ \A k \in 1..(Len(s) + 1) : (c \o b)[k] = IF k <= i THEN c[k] ELSE b[k - i]
    <2>1. /\ c \o b \in Seq(S) /\ Len(c \o b) = Len(c) + Len(b)
          /\ \A k \in 1..(Len(c) + Len(b)) : (c \o b)[k] = IF k <= Len(c) THEN c[k] ELSE b[k - Len(c)]
      BY <1>3, <1>5, ConcatProperties
    <2>2. Len(c) = i /\ Len(c) + Len(b) = Len(s) + 1
      BY <1>1, <1>3, <1>5
    <2> QED BY <2>1, <2>2
  <1>7. InsertAt(s, i, e) = c \o b
    BY DEF InsertAt, a, b, c
  <1>8. ASSUME NEW k \in 1..(Len(s) + 1)
        PROVE  (c \o b)[k] = IF k < i THEN s[k] ELSE IF k = i THEN e ELSE s[k - 1]
    <2>1. CASE k <= i
      BY <1>1, <1>5, <1>6, <2>1
    <2>2. CASE k > i
      BY <1>1, <1>3, <1>6, <2>2
    <2>3. k <= i \/ k > i
      BY <1>1
    <2> QED BY <2>1, <2>2, <2>3
  <1> QED BY <1>6, <1>7, <1>8 DEF Inserted

LEMMA RemoveIs ==
  ASSUME NEW S, NEW s \in Seq(S), NEW i \in 1..Len(s)
  PROVE  /\ RemoveAt(s, i) \in Seq(S)
         /\ Len(RemoveAt(s, i)) = Len(s) - 1
         /\ \A k \in 1..(Len(s) - 1) : RemoveAt(s, i)[k] = IF k < i THEN s[k] ELSE s[k + 1]
  <1> DEFINE a == SubSeq(s, 1, i - 1)
             b == SubSeq(s, i + 1, Len(s))
  <1>1. Len(s) \in Nat /\ \A k \in 1..Len(s) : s[k] \in S
    BY LenProperties, ElementOfSeq
  <1>2. a \in Seq(S) /\ Len(a) = i - 1 /\ \A k \in 1..(i - 1) : a[k] = s[k]
    BY <1>1, SubSeqProperties
  <1>3. b \in Seq(S) /\ Len(b) = Len(s) - i /\ \A k \in 1..(Len(s) - i) : b[k] = s[i + k]
    BY <1>1, SubSeqProperties
  <1> HIDE DEF a, b
  <1>4. /\ a \o b \in Seq(S) /\ Len(a \o b) = Len(s) - 1
        /\ \A k \in 1..(Len(s) - 1) : (a \o b)[k] = IF k <= i - 1 THEN a[k] ELSE b[k - (i - 1)]
    <2>1. /\ a \o b \in Seq(S) /\ Len(a \o b) = Len(a) + Len(b)
          /\ \A k \in 1..(Len(a) + Len(b)) : (a \o b)[k] = IF k <= Len(a) THEN a[k] ELSE b[k - Len(a)]
      BY <1>2, <1>3, ConcatProperties
    <2>2. Len(a) = i - 1 /\ Len(a) + Len(b) = Len(s) - 1
      BY <1>1, <1>2, <1>3
    <2> QED BY <2>1, <2>2
  <1>5. RemoveAt(s, i) = a \o b
    BY DEF RemoveAt, a, b
  <1>6. ASSUME NEW k \in 1..(Len(s) - 1)
        PROVE  (a \o b)[k] = IF k < i THEN s[k] ELSE s[k + 1]
    <2>1. CASE k < i
      BY <1>1, <1>2, <1>4, <2>1
    <2>2. CASE k >= i
      <3>1. (a \o b)[k] = b[k - (i - 1)] /\ k - (i - 1) \in 1..(Len(s) - i)
        <4>1. ~(k <= i - 1) /\ k - (i - 1) \in 1..(Len(s) - i)
          BY <1>1, <2>2
        <4> QED BY <1>4, <4>1
      <3> QED BY <1>1, <1>3, <2>2, <3>1
    <2>3. k < i \/ k >= i
      BY <1>1
    <2> QED BY <2>1, <2>2, <2>3
  <1> QED BY <1>4, <1>5, <1>6

----------------------------------------------------------------------------
(* Types.                                                                  *)

\* While a page is open, its calls and its answer are of the page's type.
LEMMA OpenTypes ==
  ASSUME TypeOK, view # "login"
  PROVE  /\ view \in Pages /\ calls \in Seq(CallSet) /\ data \in Seq(CallSet)
         /\ Len(calls) \in Nat /\ DOMAIN calls = 1..Len(calls)
         /\ \A i \in 1..Len(calls) : calls[i] \in CallSet
         /\ Len(data) \in Nat /\ DOMAIN data = 1..Len(data)
         /\ \A i \in 1..Len(data) : data[i] \in CallSet
  <1>1. view \in Pages /\ calls \in Seq(CallSet) /\ data \in Seq(CallSet)
    BY DEF TypeOK
  <1> QED BY <1>1, LenProperties, ElementOfSeq

\* Only an open page has calls.
LEMMA CallsAreOpen ==
  ASSUME TypeOK, NEW i \in DOMAIN calls
  PROVE  view # "login"
  <1>1. view = "login" => calls = <<>>
    BY DEF TypeOK
  <1> QED BY <1>1

LEMMA CallFields ==
  ASSUME NEW c \in CallSet
  PROVE  /\ c.filter \in Filters /\ c.page \in PageNumbers /\ c.bearer \in Bearers
         /\ c.stage \in Stages /\ c.got \in GotSet
  BY DEF CallSet

LEMMA BlankIs ==
  ASSUME view \in Pages
  PROVE  Blank[view] \in GotSet
  <1>1. 0 \in 0..Cardinality(Job) /\ 0 \in 0..MaxDay /\ 0 \in 0..MaxClock
    BY AdminAssumption, FS_CardinalityType
  <1>2. CASE view = "jobs"
    BY <1>1, <1>2 DEF Blank, GotSet
  <1>3. CASE view = "overview"
    BY <1>1, <1>3 DEF Blank, GotSet
  <1>4. CASE view = "mailboxes"
    BY <1>1, <1>4 DEF Blank, GotSet
  <1> QED BY <1>2, <1>3, <1>4 DEF Pages

\* A handler's step, one call at a time.
LEMMA HandledIs ==
  ASSUME TypeOK, NEW i \in DOMAIN calls, NEW st \in Stages, NEW g \in GotSet, Handled(i, st, g)
  PROVE  /\ calls' \in Seq(CallSet) /\ Len(calls') = Len(calls)
         /\ \A k \in 1..Len(calls) : k # i => calls'[k] = calls[k]
         /\ calls'[i] = [calls[i] EXCEPT !.stage = st, !.got = g]
  <1>1. view # "login"
    BY CallsAreOpen
  <1>2. calls \in Seq(CallSet) /\ i \in 1..Len(calls) /\ calls[i] \in CallSet
    BY <1>1, OpenTypes
  <1> DEFINE a == [calls[i] EXCEPT !.stage = st]
             b == [a EXCEPT !.got = g]
             s == [calls EXCEPT ![i] = a]
             t == [s EXCEPT ![i] = b]
  <1>3. a \in CallSet /\ b \in CallSet /\ b = [calls[i] EXCEPT !.stage = st, !.got = g]
    BY <1>2 DEF CallSet
  <1>4. /\ s \in Seq(CallSet) /\ Len(s) = Len(calls)
        /\ \A k \in 1..Len(calls) : s[k] = IF k = i THEN a ELSE calls[k]
    BY <1>2, <1>3, ExceptSeq
  <1> HIDE DEF s
  <1>5. /\ t \in Seq(CallSet) /\ Len(t) = Len(s)
        /\ \A k \in 1..Len(s) : t[k] = IF k = i THEN b ELSE s[k]
    BY <1>2, <1>3, <1>4, ExceptSeq
  <1>6. calls' = t
    <2>1. s[i] = a
      BY <1>2, <1>4
    <2>2. calls' = [s EXCEPT ![i] = [s[i] EXCEPT !.got = g]]
      BY DEF Handled, s, a
    <2> QED BY <2>1, <2>2
  <1> HIDE DEF t, b
  <1> QED BY <1>2, <1>3, <1>4, <1>5, <1>6

\* What a handler's step makes of its call: the stage it is at then, and what it has read.
Reads(i, st, g) ==
    \/ /\ view = "jobs" /\ At(i, "first") /\ st = "second"
       /\ g = [Got(i) EXCEPT !.rows = AdminListJobs(calls[i].filter, calls[i].page),
                             !.all = IF calls[i].page = 1 THEN ToSet(order) ELSE {}]
    \/ /\ view = "jobs" /\ At(i, "second") /\ st = "ok"
       /\ g = [Got(i) EXCEPT !.n = AdminCountJobs(calls[i].filter)]
    \/ /\ view = "overview" /\ At(i, "first") /\ st = "second"
       /\ g = [Got(i) EXCEPT !.counts = status]
    \/ /\ view = "overview" /\ At(i, "second") /\ st = "third"
       /\ g = [Got(i) EXCEPT !.since = day]
    \/ /\ view = "overview" /\ At(i, "third") /\ st = "ok"
       /\ g = [Got(i) EXCEPT !.done = AdminCountDeliveredSince(Got(i).since)]
    \/ /\ view = "mailboxes" /\ At(i, "first") /\ st = "second"
       /\ g = [Got(i) EXCEPT !.beat = beat]
    \/ /\ view = "mailboxes" /\ At(i, "second") /\ st = "third" /\ g = Got(i)
    \/ /\ view = "mailboxes" /\ At(i, "third") /\ st = "ok"
       /\ g = [Got(i) EXCEPT !.live = Live, !.at = clock]
Passes(i, st, g) ==
    /\ g = Got(i)
    /\ \/ At(i, "guard") /\ st \in {"unauthorized", "forbidden", "first"}
       \/ st = "error"

LEMMA HandlerIs ==
  ASSUME NEW i \in DOMAIN calls, Handler(i)
  PROVE  \E st, g : Handled(i, st, g) /\ (Reads(i, st, g) \/ Passes(i, st, g))
  <1>1. CASE RequireAdmin(i)
    <2>1. \E st \in {"unauthorized", "forbidden", "first"} : At(i, "guard") /\ Handled(i, st, Got(i))
      BY <1>1 DEF RequireAdmin
    <2> QED BY <2>1 DEF Passes
  <1>2. CASE Fail(i)
    BY <1>2 DEF Fail, Passes
  <1>3. CASE view = "jobs" /\ AdminJobs(i)
    BY <1>3, Zenon DEF AdminJobs, Reads
  <1>4. CASE view = "overview" /\ AdminSummary(i)
    BY <1>4, Zenon DEF AdminSummary, Reads
  <1>5. CASE view = "mailboxes" /\ AdminMailboxes(i)
    BY <1>5, Zenon DEF AdminMailboxes, Reads
  <1> QED BY <1>1, <1>2, <1>3, <1>4, <1>5 DEF Handler

\* The number of rows is within the number of jobs: no job has two.
LEMMA CountIs ==
  ASSUME TypeOK, NEW st
  PROVE  /\ Len(order) \in Nat /\ DOMAIN order = 1..Len(order)
         /\ IsFiniteSet(Matching(st)) /\ AdminCountJobs(st) \in 0..Cardinality(Job)
  <1>1. order \in Seq(Job) /\ IsInjective(order)
    BY DEF TypeOK
  <1>2. Len(order) \in Nat /\ DOMAIN order = 1..Len(order)
    BY <1>1, LenProperties
  <1>3. order \in [DOMAIN order -> Job]
    BY <1>1, <1>2, ElementOfSeq
  <1>4. order \in Injection(DOMAIN order, Job)
    BY <1>1, <1>3 DEF Injection
  <1>5. IsFiniteSet(Job) /\ Cardinality(Job) \in Nat
    BY AdminAssumption, FS_CardinalityType
  <1>6. IsFiniteSet(DOMAIN order) /\ Cardinality(DOMAIN order) <= Cardinality(Job)
    BY <1>4, <1>5, FS_Injection
  <1>7. Matching(st) \subseteq DOMAIN order
    BY DEF Matching
  <1>8. IsFiniteSet(Matching(st)) /\ Cardinality(Matching(st)) <= Cardinality(DOMAIN order)
    BY <1>6, <1>7, FS_Subset
  <1>9. Cardinality(Matching(st)) \in Nat /\ Cardinality(DOMAIN order) \in Nat
    BY <1>6, <1>8, FS_CardinalityType
  <1> QED BY <1>2, <1>5, <1>6, <1>8, <1>9 DEF AdminCountJobs

LEMMA ReadsTypes ==
  ASSUME TypeOK, NEW i \in DOMAIN calls, NEW st, NEW g, Reads(i, st, g) \/ Passes(i, st, g)
  PROVE  st \in Stages /\ g \in GotSet
  <1>1. calls[i] \in CallSet
    BY CallsAreOpen, OpenTypes
  <1>2. Got(i) \in GotSet
    BY <1>1, CallFields DEF Got
  <1>3. st \in Stages
    BY DEF Reads, Passes, Stages
  <1>4. CASE g = Got(i)
    BY <1>2, <1>3, <1>4
  <1>5. CASE view = "jobs" /\ Reads(i, st, g)
    <2>1. /\ AdminListJobs(calls[i].filter, calls[i].page) \in SUBSET Job
          /\ AdminCountJobs(calls[i].filter) \in 0..Cardinality(Job)
          /\ (IF calls[i].page = 1 THEN ToSet(order) ELSE {}) \in SUBSET Job
      <3>1. \A k \in DOMAIN order : order[k] \in Job
        BY DEF TypeOK
      <3> QED BY <3>1, CountIs DEF AdminListJobs, Matching, ToSet
    <2>2. Got(i) \in [rows : SUBSET Job, n : 0..Cardinality(Job), all : SUBSET Job]
      BY <1>2, <1>5 DEF GotSet
    <2>3. g \in [rows : SUBSET Job, n : 0..Cardinality(Job), all : SUBSET Job]
      <3>1. \/ g = [Got(i) EXCEPT !.rows = AdminListJobs(calls[i].filter, calls[i].page),
                                  !.all = IF calls[i].page = 1 THEN ToSet(order) ELSE {}]
            \/ g = [Got(i) EXCEPT !.n = AdminCountJobs(calls[i].filter)]
        BY <1>5 DEF Reads
      <3> QED BY <2>1, <2>2, <3>1
    <2> QED BY <1>3, <1>5, <2>3 DEF GotSet
  <1>6. CASE view = "overview" /\ Reads(i, st, g)
    <2> DEFINE S == [counts : [Job -> Status \cup {"none"}], since : 0..MaxDay, done : SUBSET Job]
    <2>1. Got(i) \in S
      BY <1>2, <1>6 DEF GotSet
    <2>2. /\ status \in [Job -> Status \cup {"none"}] /\ day \in 0..MaxDay
          /\ AdminCountDeliveredSince(Got(i).since) \in SUBSET Job
      BY DEF TypeOK, AdminCountDeliveredSince
    <2>3. \/ g = [Got(i) EXCEPT !.counts = status] \/ g = [Got(i) EXCEPT !.since = day]
          \/ g = [Got(i) EXCEPT !.done = AdminCountDeliveredSince(Got(i).since)]
      BY <1>6 DEF Reads
    <2>4. g \in S
      BY <2>1, <2>2, <2>3
    <2> QED BY <1>3, <1>6, <2>4 DEF GotSet
  <1>7. CASE view = "mailboxes" /\ Reads(i, st, g)
    <2> DEFINE S == [beat : 0..MaxClock, live : BOOLEAN, at : 0..MaxClock]
    <2>1. Got(i) \in S
      BY <1>2, <1>7 DEF GotSet
    <2>2. beat \in 0..MaxClock /\ Live \in BOOLEAN /\ clock \in 0..MaxClock
      BY AdminAssumption DEF TypeOK, Live
    <2>3. \/ g = [Got(i) EXCEPT !.beat = beat] \/ g = Got(i)
          \/ g = [Got(i) EXCEPT !.live = Live, !.at = clock]
      BY <1>7 DEF Reads
    <2>4. g \in S
      BY <2>1, <2>2, <2>3
    <2> QED BY <1>3, <1>7, <2>4 DEF GotSet
  <1>8. g = Got(i) \/ (Reads(i, st, g) /\ view \in Pages)
    BY DEF Passes, Reads, Pages
  <1> QED BY <1>4, <1>5, <1>6, <1>7, <1>8 DEF Pages

\* The pager: there is a page, no more than one for each job, and past the last no job.
LEMMA PagerIs ==
  ASSUME NEW n \in Nat
  PROVE  /\ TotalPages(n) \in Nat \ {0} /\ TotalPages(n) <= n + 1
         /\ \A p \in Nat : p >= TotalPages(n) => n <= p * PerPage
  <1>1. PerPage \in Nat \ {0}
    BY AdminAssumption
  <1>2. CASE n = 0
    BY <1>1, <1>2 DEF TotalPages
  <1>3. CASE n # 0
    <2> DEFINE q == (n + PerPage - 1) \div PerPage
    <2>1. q \in Int /\ PerPage * q <= n + PerPage - 1 /\ n + PerPage - 1 < PerPage * q + PerPage
      BY <1>1
    <2>2. TotalPages(n) = q
      BY <1>3 DEF TotalPages
    <2> HIDE DEF q
    <2>3. n <= PerPage * q
      BY <1>1, <2>1
    <2>4. q >= 1
      <3> SUFFICES ASSUME q <= 0 PROVE FALSE
        BY <2>1
      <3>1. PerPage * q <= 0
        BY <1>1, <2>1
      <3> QED BY <1>1, <1>3, <2>1, <2>3, <3>1
    <2>5. q <= n
      <3> SUFFICES ASSUME q >= n + 1 PROVE FALSE
        BY <2>1
      <3>1. PICK d \in Nat : q = n + 1 + d
        <4>1. q - (n + 1) \in Nat /\ q = n + 1 + (q - (n + 1))
          BY <2>1
        <4> QED BY <4>1
      <3>2. PerPage * q = PerPage * (n + d) + PerPage
        BY <1>1, <3>1
      <3>3. PerPage * (n + d) >= n + d
        BY <1>1, <3>1
      <3> QED BY <1>1, <2>1, <3>1, <3>2, <3>3
    <2>6. ASSUME NEW p \in Nat, p >= q PROVE n <= p * PerPage
      <3>1. PICK d \in Nat : p = q + d
        <4>1. p - q \in Nat /\ p = q + (p - q)
          BY <2>1, <2>6
        <4> QED BY <4>1
      <3>2. p * PerPage = PerPage * q + PerPage * d /\ PerPage * d \in Nat
        BY <1>1, <2>1, <3>1
      <3> QED BY <1>1, <2>1, <2>3, <3>2
    <2> QED BY <2>1, <2>2, <2>4, <2>5, <2>6
  <1> QED BY <1>2, <1>3

LEMMA CallIs ==
  ASSUME TypeOK, view # "login", NEW f \in Filters, NEW p \in PageNumbers
  PROVE  Call(f, p) \in CallSet
  <1>1. view \in Pages /\ token \in Bearers
    BY DEF TypeOK
  <1>2. Blank[view] \in GotSet
    BY <1>1, BlankIs
  <1> QED BY <1>1, <1>2 DEF Call, CallSet, Stages

LEMMA AuthFetchIs ==
  ASSUME TypeOK, NEW i \in DOMAIN calls, AuthFetch(i)
  PROVE  /\ calls' \in Seq(CallSet) /\ Len(calls') = Len(calls) + 1
         /\ \A k \in 1..Len(calls) : k # i => calls'[k] = calls[k]
         /\ calls'[i] = [calls[i] EXCEPT !.stage = "guard", !.bearer = "renewed"]
         /\ calls'[Len(calls) + 1] = [Call(filter, page) EXCEPT !.bearer = "renewed"]
  <1>1. view # "login"
    BY CallsAreOpen
  <1>2. calls \in Seq(CallSet) /\ i \in 1..Len(calls) /\ calls[i] \in CallSet
    BY <1>1, OpenTypes
  <1> DEFINE a == [calls[i] EXCEPT !.stage = "guard"]
             b == [a EXCEPT !.bearer = "renewed"]
             s == [calls EXCEPT ![i] = a]
             t == [s EXCEPT ![i] = b]
             c == [Call(filter, page) EXCEPT !.bearer = "renewed"]
  <1>3. a \in CallSet /\ b \in CallSet /\ b = [calls[i] EXCEPT !.stage = "guard", !.bearer = "renewed"]
    BY <1>2 DEF CallSet, Stages, Bearers
  <1>4. /\ s \in Seq(CallSet) /\ Len(s) = Len(calls)
        /\ \A k \in 1..Len(calls) : s[k] = IF k = i THEN a ELSE calls[k]
    BY <1>2, <1>3, ExceptSeq
  <1> HIDE DEF s
  <1>5. /\ t \in Seq(CallSet) /\ Len(t) = Len(s)
        /\ \A k \in 1..Len(s) : t[k] = IF k = i THEN b ELSE s[k]
    BY <1>2, <1>3, <1>4, ExceptSeq
  <1>6. c \in CallSet
    <2>1. filter \in Filters /\ page \in PageNumbers
      BY DEF TypeOK
    <2>2. Call(filter, page) \in CallSet
      BY <1>1, <2>1, CallIs
    <2> QED BY <2>2 DEF CallSet, Bearers
  <1>7. calls' = Append(t, c)
    <2>1. s[i] = a
      BY <1>2, <1>4
    <2>2. calls' = Append([s EXCEPT ![i] = [s[i] EXCEPT !.bearer = "renewed"]], c)
      BY DEF AuthFetch, s, a
    <2> QED BY <2>1, <2>2
  <1> HIDE DEF t, b, c
  <1>8. /\ Append(t, c) \in Seq(CallSet) /\ Len(Append(t, c)) = Len(t) + 1
        /\ \A k \in 1..Len(t) : Append(t, c)[k] = t[k]
        /\ Append(t, c)[Len(t) + 1] = c
    BY <1>5, <1>6, AppendProperties
  <1>9. /\ \A k \in 1..Len(calls) : k # i => calls'[k] = calls[k]
        /\ calls'[i] = b
    BY <1>2, <1>4, <1>5, <1>7, <1>8
  <1> QED BY <1>3, <1>4, <1>5, <1>7, <1>8, <1>9 DEF c

LEMMA ExpireIs ==
  ASSUME TypeOK, view # "login", Expire
  PROVE  /\ calls' \in Seq(CallSet) /\ Len(calls') = Len(calls)
         /\ \A k \in 1..Len(calls) :
              calls'[k] = calls[k] \/ calls'[k] = [calls[k] EXCEPT !.bearer = "expired"]
  <1>1. /\ Len(calls) \in Nat /\ DOMAIN calls = 1..Len(calls)
        /\ \A k \in 1..Len(calls) : calls[k] \in CallSet
    BY OpenTypes
  <1> DEFINE e(k) == IF At(k, "guard") THEN [calls[k] EXCEPT !.bearer = "expired"] ELSE calls[k]
  <1>2. calls' = [k \in 1..Len(calls) |-> e(k)]
    BY <1>1 DEF Expire
  <1>3. \A k \in 1..Len(calls) : e(k) \in CallSet
    BY <1>1 DEF CallSet, Bearers
  <1>4. \A k \in 1..Len(calls) : e(k) = calls[k] \/ e(k) = [calls[k] EXCEPT !.bearer = "expired"]
    OBVIOUS
  <1> HIDE DEF e
  <1>5. calls' \in Seq(CallSet) /\ Len(calls') = Len(calls)
    BY <1>1, <1>2, <1>3
  <1> QED BY <1>2, <1>4, <1>5

\* TypeOK in three parts: no action writes more than one of them.
JobTypes ==
    /\ order \in Seq(Job) /\ IsInjective(order)
    /\ status \in [Job -> Status \cup {"none"}]
    /\ \A j \in Job : status[j] = "none" <=> ~Contains(order, j)
    /\ on \in [Job -> 0..MaxDay] /\ day \in 0..MaxDay
UnitTypes ==
    /\ clock \in 1..MaxClock /\ up \in BOOLEAN /\ heard \in BOOLEAN
    /\ frame \in {"none", "register", "state", "mirror"}
    /\ expiry \in 0..(MaxClock + TTL) /\ beat \in 0..MaxClock
CallTypes ==
    IF view = "login" THEN calls = <<>> ELSE calls \in Seq(CallSet) /\ data \in Seq(CallSet)
PageTypes ==
    /\ view \in Pages \cup {"login"}
    /\ token \in Bearers /\ filter \in Filters /\ page \in PageNumbers
    /\ CallTypes
    /\ loads \in Nat /\ (view # "login" => loads <= MaxLoads[view])
    /\ error \in {"none", "error", "forbidden"}
    /\ there \subseteq Job /\ seen \subseteq Job /\ patient \in BOOLEAN

LEMMA TypeParts == TypeOK <=> faults \in Environments /\ JobTypes /\ UnitTypes /\ PageTypes
  BY DEF TypeOK, JobTypes, UnitTypes, PageTypes, CallTypes

LEMMA JobsStay == JobTypes /\ UNCHANGED jobVars => JobTypes'
  BY DEF JobTypes, jobVars, Contains, IsInjective

LEMMA UnitStays == UnitTypes /\ UNCHANGED unitVars => UnitTypes'
  BY DEF UnitTypes, unitVars

\* What a call is depends on the page alone.
LEMMA SameCalls == view' = view => CallSet' = CallSet
  BY DEF CallSet, GotSet

LEMMA PageStays == PageTypes /\ UNCHANGED pageVars => PageTypes'
  <1> SUFFICES ASSUME PageTypes, UNCHANGED pageVars PROVE PageTypes'
    OBVIOUS
  <1>1. /\ view' = view /\ filter' = filter /\ page' = page /\ loads' = loads /\ token' = token
        /\ calls' = calls /\ data' = data /\ error' = error
        /\ there' = there /\ seen' = seen /\ patient' = patient
    BY DEF pageVars, askVars, walkVars
  <1>2. CallTypes'
    BY <1>1, SameCalls DEF PageTypes, CallTypes
  <1> QED BY <1>1, <1>2 DEF PageTypes

\* A new row stands where no row of the job stood.
LEMMA InsertJobIs ==
  ASSUME TypeOK, NEW j \in Job, InsertJob(j)
  PROVE  /\ order' \in Seq(Job) /\ Len(order) \in Nat /\ Len(order') = Len(order) + 1
         /\ ~Contains(order, j)
         /\ \E i \in 1..(Len(order) + 1) : \A k \in 1..(Len(order) + 1) : order'[k] =
              IF k < i THEN order[k] ELSE IF k = i THEN j ELSE order[k - 1]
  <1>1. order \in Seq(Job) /\ Len(order) \in Nat /\ ~Contains(order, j)
    BY LenProperties DEF TypeOK, InsertJob
  <1>2. PICK i \in 1..Min({2, Len(order) + 1}) : order' = InsertAt(order, i, j)
    BY DEF InsertJob
  <1>3. i \in 1..(Len(order) + 1)
    <2>1. Min({2, Len(order) + 1}) \in Int /\ Min({2, Len(order) + 1}) <= Len(order) + 1
      <3>1. CASE Len(order) + 1 < 2
        <4>1. \A y \in {2, Len(order) + 1} : Len(order) + 1 <= y
          BY <1>1, <3>1
        <4> QED BY <1>1, <4>1 DEF Min
      <3>2. CASE Len(order) + 1 >= 2
        <4>1. \A y \in {2, Len(order) + 1} : 2 <= y
          BY <1>1, <3>2
        <4> QED BY <1>1, <3>2, <4>1 DEF Min
      <3> QED BY <1>1, <3>1, <3>2
    <2> QED BY <1>1, <2>1
  <1>4. /\ InsertAt(order, i, j) \in Seq(Job) /\ Len(InsertAt(order, i, j)) = Len(order) + 1
        /\ Inserted(order, i, j, InsertAt(order, i, j))
    BY <1>1, <1>3, InsertIs
  <1>5. order' \in Seq(Job) /\ Len(order') = Len(order) + 1 /\ Inserted(order, i, j, order')
    BY <1>2, <1>4
  <1> QED BY <1>1, <1>3, <1>5 DEF Inserted

LEMMA InsertTypes ==
  ASSUME TypeOK, NEW j \in Job, InsertJob(j)
  PROVE  JobTypes'
  <1> DEFINE n == Len(order)
  <1>1. /\ order' \in Seq(Job) /\ n \in Nat /\ Len(order') = n + 1 /\ ~Contains(order, j)
    BY InsertJobIs
  <1>2. PICK i \in 1..(n + 1) : \A k \in 1..(n + 1) : order'[k] =
              IF k < i THEN order[k] ELSE IF k = i THEN j ELSE order[k - 1]
    BY InsertJobIs
  <1>3. /\ order \in Seq(Job) /\ \A a, b \in 1..n : order[a] = order[b] => a = b
        /\ \A a \in 1..n : order[a] # j
    <2>1. order \in Seq(Job) /\ IsInjective(order) /\ DOMAIN order = 1..n
      BY LenProperties DEF TypeOK
    <2> QED BY <1>1, <2>1 DEF IsInjective, Contains
  <1>4. DOMAIN order' = 1..(n + 1)
    BY <1>1
  <1>5. ASSUME NEW a \in 1..(n + 1), NEW b \in 1..(n + 1), order'[a] = order'[b]
        PROVE  a = b
    <2> HIDE DEF n
    <2>1. \A k \in 1..(n + 1) : k < i => k \in 1..n /\ order'[k] = order[k]
      BY <1>1, <1>2
    <2>2. \A k \in 1..(n + 1) : k > i => k - 1 \in 1..n /\ order'[k] = order[k - 1]
      BY <1>1, <1>2
    <2>3. order'[i] = j
      BY <1>1, <1>2
    <2>4. CASE a = i \/ b = i
      <3>1. \A k \in 1..(n + 1) : k # i => order'[k] # j
        BY <1>1, <1>3, <2>1, <2>2
      <3> QED BY <1>5, <2>3, <2>4, <3>1
    <2>5. CASE a < i /\ b < i
      BY <1>3, <1>5, <2>1, <2>5
    <2>6. CASE a > i /\ b > i
      <3>1. a - 1 = b - 1
        BY <1>3, <1>5, <2>2, <2>6
      <3> QED BY <1>1, <3>1
    <2>7. CASE a < i /\ b > i
      <3>1. a = b - 1
        BY <1>3, <1>5, <2>1, <2>2, <2>7
      <3> QED BY <1>1, <2>7, <3>1
    <2>8. CASE a > i /\ b < i
      <3>1. a - 1 = b
        BY <1>3, <1>5, <2>1, <2>2, <2>8
      <3> QED BY <1>1, <2>8, <3>1
    <2> QED BY <1>1, <2>4, <2>5, <2>6, <2>7, <2>8
  <1>6. IsInjective(order')
    BY <1>4, <1>5 DEF IsInjective
  <1>7. \A x \in Job : Contains(order', x) <=> x = j \/ Contains(order, x)
    <2> TAKE x \in Job
    <2>1. ASSUME Contains(order', x) PROVE x = j \/ Contains(order, x)
      <3>1. PICK k \in 1..(n + 1) : order'[k] = x
        BY <1>1, <2>1 DEF Contains
      <3>2. CASE k < i
        <4>1. k \in 1..n /\ order[k] = x
          BY <1>1, <1>2, <3>1, <3>2
        <4> QED BY <4>1 DEF Contains
      <3>3. CASE k > i
        <4>1. k - 1 \in 1..n /\ order[k - 1] = x
          BY <1>1, <1>2, <3>1, <3>3
        <4> QED BY <4>1 DEF Contains
      <3>4. CASE k = i
        BY <1>1, <1>2, <3>1, <3>4
      <3> QED BY <1>1, <3>2, <3>3, <3>4
    <2>2. ASSUME x = j PROVE Contains(order', x)
      <3>1. i \in 1..Len(order') /\ order'[i] = j
        BY <1>1, <1>2
      <3> QED BY <2>2, <3>1 DEF Contains
    <2>3. ASSUME Contains(order, x) PROVE Contains(order', x)
      <3>1. PICK k \in 1..n : order[k] = x
        BY <2>3 DEF Contains
      <3>2. CASE k < i
        <4>1. k \in 1..Len(order') /\ order'[k] = x
          BY <1>1, <1>2, <3>1, <3>2
        <4> QED BY <4>1 DEF Contains
      <3>3. CASE k >= i
        <4>1. k + 1 \in 1..Len(order') /\ order'[k + 1] = x
          BY <1>1, <1>2, <3>1, <3>3
        <4> QED BY <4>1 DEF Contains
      <3> QED BY <1>1, <3>2, <3>3
    <2> QED BY <2>1, <2>2, <2>3
  <1>8. status' = [status EXCEPT ![j] = "waiting"] /\ on' = on /\ day' = day
    BY DEF InsertJob
  <1>9. /\ status \in [Job -> Status \cup {"none"}] /\ on \in [Job -> 0..MaxDay] /\ day \in 0..MaxDay
        /\ \A x \in Job : status[x] = "none" <=> ~Contains(order, x)
    BY DEF TypeOK
  <1>10. status' \in [Job -> Status \cup {"none"}]
    BY <1>8, <1>9 DEF Status
  <1>11. \A x \in Job : status'[x] = "none" <=> ~Contains(order', x)
    BY <1>7, <1>8, <1>9
  <1> QED BY <1>1, <1>6, <1>8, <1>9, <1>10, <1>11 DEF JobTypes

LEMMA UpdateTypes ==
  ASSUME TypeOK, NEW j \in Job, UpdateJobStatus(j)
  PROVE  JobTypes'
  <1>1. PICK s \in Status :
          /\ status[j] # "none"
          /\ status' = [status EXCEPT ![j] = s]
          /\ on' = (IF s = "delivered" THEN [on EXCEPT ![j] = day] ELSE on)
    BY DEF UpdateJobStatus, Reported
  <1>2. order' = order /\ day' = day
    BY DEF UpdateJobStatus
  <1>3. /\ status \in [Job -> Status \cup {"none"}] /\ on \in [Job -> 0..MaxDay] /\ day \in 0..MaxDay
        /\ \A x \in Job : status[x] = "none" <=> ~Contains(order, x)
        /\ order \in Seq(Job) /\ IsInjective(order)
    BY DEF TypeOK
  <1>4. status' \in [Job -> Status \cup {"none"}]
    BY <1>1, <1>3
  <1>5. on' \in [Job -> 0..MaxDay]
    BY <1>1, <1>3
  <1>6. \A x \in Job : status'[x] = "none" <=> status[x] = "none"
    BY <1>1, <1>3 DEF Status
  <1> QED BY <1>2, <1>3, <1>4, <1>5, <1>6 DEF JobTypes

\* The steps that leave the page alone: the jobs change, or the unit does.
JobStep == (\E j \in Job : InsertJob(j) \/ UpdateJobStatus(j)) \/ Midnight
UnitStep ==
    Connect \/ Disconnect \/ Heartbeat \/ SetPrinterState \/ MirrorLiveness \/ Tick
AskStep == NextPage \/ PrevPage \/ (\E f \in Filters : OnFilter(f))

LEMMA NextIs ==
  Next => \/ JobStep \/ UnitStep \/ AskStep \/ Expire \/ Poll
          \/ \E i \in DOMAIN calls : Handler(i) \/ Hook(i)
  BY DEF Next, JobStep, UnitStep, AskStep

LEMMA JobStepFrame == JobStep => UNCHANGED <<faults, unitVars, pageVars>>
  BY DEF JobStep, InsertJob, UpdateJobStatus, Midnight

LEMMA JobStepTypes == TypeOK /\ JobStep => JobTypes'
  <1> SUFFICES ASSUME TypeOK, JobStep PROVE JobTypes'
    OBVIOUS
  <1>1. CASE Midnight
    <2>1. order' = order /\ status' = status /\ on' = on /\ day' = day + 1 /\ day < MaxDay
      BY <1>1 DEF Midnight
    <2>2. JobTypes /\ day \in 0..MaxDay /\ MaxDay \in Nat
      BY TypeParts, AdminAssumption DEF JobTypes
    <2>3. day + 1 \in 0..MaxDay
      BY <2>1, <2>2
    <2> QED BY <2>1, <2>2, <2>3 DEF JobTypes
  <1> QED BY <1>1, InsertTypes, UpdateTypes DEF JobStep

LEMMA UnitStepFrame == UnitStep => UNCHANGED <<faults, jobVars, pageVars>>
  BY DEF UnitStep, Connect, Disconnect, Heartbeat, SetPrinterState, MirrorLiveness, Tick

LEMMA UnitStepTypes == TypeOK /\ UnitStep => UnitTypes'
  <1> SUFFICES ASSUME TypeOK, UnitStep PROVE UnitTypes'
    OBVIOUS
  <1>1. UnitTypes /\ TTL \in Nat \ {0} /\ MaxClock \in Nat \ {0}
    BY TypeParts, AdminAssumption
  <1>2. CASE Connect \/ Disconnect \/ Heartbeat
    BY <1>1, <1>2 DEF Connect, Disconnect, Heartbeat, UnitTypes
  <1>3. CASE SetPrinterState
    <2>1. clock + TTL \in 0..(MaxClock + TTL)
      BY <1>1 DEF UnitTypes
    <2>2. /\ expiry' \in {expiry, clock + TTL} /\ frame' \in {"mirror", "none"}
          /\ clock' = clock /\ up' = up /\ heard' = heard /\ beat' = beat
      BY <1>3 DEF SetPrinterState
    <2> QED BY <1>1, <2>1, <2>2 DEF UnitTypes
  <1>4. CASE MirrorLiveness
    <2>1. /\ beat' \in {beat, clock} /\ frame' = "none"
          /\ clock' = clock /\ up' = up /\ heard' = heard /\ expiry' = expiry
      BY <1>4 DEF MirrorLiveness
    <2> QED BY <1>1, <2>1 DEF UnitTypes
  <1>5. CASE Tick
    <2>1. /\ clock < MaxClock /\ clock' = clock + 1 /\ heard' = FALSE
          /\ up' = up /\ frame' = frame /\ expiry' = expiry /\ beat' = beat
      BY <1>5 DEF Tick
    <2>2. clock' \in 1..MaxClock
      BY <1>1, <2>1 DEF UnitTypes
    <2>3. heard' \in BOOLEAN
      BY <2>1
    <2> QED BY <1>1, <2>1, <2>2, <2>3 DEF UnitTypes
  <1> QED BY <1>2, <1>3, <1>4, <1>5 DEF UnitStep

\* Ask, by the pager or the filter, is for a page that there may be.
LEMMA AskStepIs ==
  ASSUME TypeOK, AskStep
  PROVE  \E f \in Filters, p \in PageNumbers : Ask(f, p)
  <1>1. filter \in Filters /\ page \in PageNumbers
    BY DEF TypeOK
  <1>2. Cardinality(Job) \in Nat
    BY AdminAssumption, FS_CardinalityType
  <1>3. CASE NextPage
    <2>1. view = "jobs" /\ page < TotalPages(Shown) /\ Ask(filter, page + 1)
      BY <1>3 DEF NextPage
    <2>2. Shown \in 0..Cardinality(Job)
      <3>1. CASE data = <<>>
        BY <1>2, <3>1 DEF Shown
      <3>2. CASE data # <<>>
        <4>1. data \in Seq(CallSet) /\ Len(data) \in Nat /\ \A k \in 1..Len(data) : data[k] \in CallSet
          BY <2>1, OpenTypes
        <4>2. 1 \in 1..Len(data)
          BY <3>2, <4>1, EmptySeq
        <4>3. data[1].got \in GotSet
          BY <4>1, <4>2, CallFields
        <4>4. data[1].got.n \in 0..Cardinality(Job)
          BY <2>1, <4>3 DEF GotSet
        <4> QED BY <3>2, <4>4 DEF Shown
      <3> QED BY <3>1, <3>2
    <2>3. TotalPages(Shown) \in Nat /\ TotalPages(Shown) <= Shown + 1
      BY <1>2, <2>2, PagerIs
    <2>4. page + 1 \in PageNumbers
      BY <1>1, <1>2, <2>1, <2>2, <2>3 DEF PageNumbers
    <2> QED BY <1>1, <2>1, <2>4
  <1>4. CASE PrevPage
    <2>1. page > 1 /\ Ask(filter, page - 1)
      BY <1>4 DEF PrevPage
    <2>2. page - 1 \in PageNumbers
      BY <1>1, <1>2, <2>1 DEF PageNumbers
    <2> QED BY <1>1, <2>1, <2>2
  <1>5. CASE \E f \in Filters : OnFilter(f)
    <2>1. 1 \in PageNumbers
      BY <1>2 DEF PageNumbers
    <2> QED BY <1>5, <2>1 DEF OnFilter
  <1> QED BY <1>3, <1>4, <1>5 DEF AskStep

LEMMA AppendIs ==
  ASSUME TypeOK, view # "login", NEW f \in Filters, NEW p \in PageNumbers,
         calls' = Append(calls, Call(f, p))
  PROVE  /\ calls' \in Seq(CallSet) /\ Len(calls') = Len(calls) + 1
         /\ \A k \in 1..Len(calls) : calls'[k] = calls[k]
         /\ calls'[Len(calls) + 1] = Call(f, p)
  <1>1. calls \in Seq(CallSet) /\ Call(f, p) \in CallSet
    BY CallIs, OpenTypes
  <1> QED BY <1>1, AppendProperties

LEMMA RemovalIs ==
  ASSUME TypeOK, NEW i \in DOMAIN calls, calls' = RemoveAt(calls, i)
  PROVE  /\ calls' \in Seq(CallSet) /\ Len(calls') = Len(calls) - 1
         /\ \A k \in 1..(Len(calls) - 1) : calls'[k] = IF k < i THEN calls[k] ELSE calls[k + 1]
  <1>1. calls \in Seq(CallSet) /\ i \in 1..Len(calls)
    BY CallsAreOpen, OpenTypes
  <1>2. /\ RemoveAt(calls, i) \in Seq(CallSet) /\ Len(RemoveAt(calls, i)) = Len(calls) - 1
        /\ \A k \in 1..(Len(calls) - 1) :
             RemoveAt(calls, i)[k] = IF k < i THEN calls[k] ELSE calls[k + 1]
    BY ONLY <1>1, RemoveIs
  <1> QED BY <1>2

\* A step on the page whose calls and answer keep their type.
LEMMA PageStep ==
  ASSUME TypeOK, view # "login", view' = view, calls' \in Seq(CallSet), data' \in Seq(CallSet),
         token' \in Bearers, filter' \in Filters, page' \in PageNumbers,
         loads' \in Nat, loads' <= MaxLoads[view], error' \in {"none", "error", "forbidden"},
         there' \subseteq Job, seen' \subseteq Job, patient' \in BOOLEAN
  PROVE  PageTypes'
  <1>1. CallTypes'
    BY SameCalls DEF CallTypes
  <1>2. view \in Pages
    BY OpenTypes
  <1> QED BY <1>1, <1>2 DEF PageTypes

LEMMA HandlerTypes ==
  ASSUME TypeOK, NEW i \in DOMAIN calls, Handler(i)
  PROVE  PageTypes' /\ UNCHANGED <<faults, jobVars, unitVars>>
  <1>1. view # "login" /\ data \in Seq(CallSet)
    BY CallsAreOpen, OpenTypes
  <1>2. PICK st, g : Handled(i, st, g) /\ (Reads(i, st, g) \/ Passes(i, st, g))
    BY HandlerIs
  <1>3. st \in Stages /\ g \in GotSet
    BY <1>2, ReadsTypes
  <1>4. calls' \in Seq(CallSet)
    BY <1>2, <1>3, HandledIs
  <1>5. /\ UNCHANGED <<faults, jobVars, unitVars>> /\ view' = view /\ filter' = filter /\ page' = page
        /\ loads' = loads /\ token' = token /\ data' = data /\ error' = error
        /\ there' = there /\ seen' = seen /\ patient' = patient
    BY <1>2 DEF Handled, askVars, walkVars
  <1>6. PageTypes
    BY TypeParts
  <1>7. PageTypes'
    BY <1>1, <1>4, <1>5, <1>6, PageStep DEF PageTypes
  <1> QED BY <1>5, <1>7

LEMMA AskTypes ==
  ASSUME TypeOK, NEW f \in Filters, NEW p \in PageNumbers, Ask(f, p)
  PROVE  PageTypes' /\ UNCHANGED <<faults, jobVars, unitVars>>
  <1>1. /\ view = "jobs" /\ loads < MaxLoads[view] /\ filter' = f /\ page' = p
        /\ calls' = Append(calls, Call(f, p)) /\ loads' = loads + 1
        /\ patient' \in BOOLEAN /\ there' \in {there, {}} /\ seen' \in {seen, {}}
        /\ view' = view /\ token' = token /\ data' = data /\ error' = error
        /\ UNCHANGED <<faults, jobVars, unitVars>>
    <2>1. patient' = (calls = <<>> /\ (p = 1 \/ (patient /\ OnScreen)))
      BY DEF Ask
    <2>2. patient' \in BOOLEAN
      BY <2>1, Zenon
    <2> QED BY <2>2 DEF Ask
  <1>2. calls' \in Seq(CallSet) /\ data \in Seq(CallSet)
    BY <1>1, AppendIs, OpenTypes
  <1>3. /\ token \in Bearers /\ loads \in Nat /\ error \in {"none", "error", "forbidden"}
        /\ there \subseteq Job /\ seen \subseteq Job
    BY DEF TypeOK
  <1>4. MaxLoads[view] \in Nat
    BY <1>1, AdminAssumption DEF Pages
  <1>5. /\ loads' \in Nat /\ loads' <= MaxLoads[view] /\ there' \subseteq Job /\ seen' \subseteq Job
    BY <1>1, <1>3, <1>4
  <1> QED BY <1>1, <1>2, <1>3, <1>5, PageStep

LEMMA PollTypes ==
  ASSUME TypeOK, Poll
  PROVE  PageTypes' /\ UNCHANGED <<faults, jobVars, unitVars>>
  <1>1. /\ view \in {"overview", "mailboxes"} /\ loads < MaxLoads[view]
        /\ calls' = Append(calls, Call(filter, page)) /\ loads' = loads + 1
        /\ view' = view /\ filter' = filter /\ page' = page /\ token' = token
        /\ data' = data /\ error' = error
        /\ there' = there /\ seen' = seen /\ patient' = patient
        /\ UNCHANGED <<faults, jobVars, unitVars>>
    BY DEF Poll, walkVars
  <1>2. /\ token \in Bearers /\ loads \in Nat /\ error \in {"none", "error", "forbidden"}
        /\ filter \in Filters /\ page \in PageNumbers
        /\ there \subseteq Job /\ seen \subseteq Job /\ patient \in BOOLEAN
    BY DEF TypeOK
  <1>3. view # "login" /\ calls' \in Seq(CallSet) /\ data \in Seq(CallSet)
    BY <1>1, <1>2, AppendIs, OpenTypes
  <1>4. MaxLoads[view] \in Nat
    BY <1>1, AdminAssumption DEF Pages
  <1>5. loads' \in Nat /\ loads' <= MaxLoads[view]
    BY <1>1, <1>2, <1>4
  <1> QED BY <1>1, <1>2, <1>3, <1>5, PageStep

LEMMA ExpireTypes ==
  ASSUME TypeOK, Expire
  PROVE  PageTypes' /\ UNCHANGED <<faults, jobVars, unitVars>>
  <1>1. /\ token' = "expired" /\ view' = view /\ filter' = filter /\ page' = page /\ loads' = loads
        /\ data' = data /\ error' = error
        /\ there' = there /\ seen' = seen /\ patient' = patient
        /\ UNCHANGED <<faults, jobVars, unitVars>>
    BY DEF Expire, askVars, walkVars
  <1>2. PageTypes
    BY TypeParts
  <1>3. CASE view = "login"
    <2>1. calls = <<>>
      BY <1>2, <1>3 DEF PageTypes, CallTypes
    <2>2. calls' = <<>>
      BY <2>1 DEF Expire
    <2>3. CallTypes'
      BY <1>1, <1>3, <2>2 DEF CallTypes
    <2> QED BY <1>1, <1>2, <1>3, <2>3 DEF PageTypes, Bearers
  <1>4. CASE view # "login"
    <2>1. calls' \in Seq(CallSet) /\ data \in Seq(CallSet)
      BY <1>4, ExpireIs, OpenTypes
    <2> QED BY <1>1, <1>2, <1>4, <2>1, PageStep DEF PageTypes, Bearers
  <1> QED BY <1>3, <1>4

LEMMA HookTypes ==
  ASSUME TypeOK, NEW i \in DOMAIN calls, Hook(i)
  PROVE  PageTypes' /\ UNCHANGED <<faults, jobVars, unitVars>>
  <1>1. PageTypes
    BY TypeParts
  <1>2. view # "login" /\ view \in Pages /\ data \in Seq(CallSet) /\ calls[i] \in CallSet
    BY CallsAreOpen, OpenTypes
  <1>3. CASE SetData(i)
    <2>1. /\ data' = <<calls[i]>> /\ error' = "none" /\ calls' = RemoveAt(calls, i)
          /\ view' = view /\ filter' = filter /\ page' = page /\ loads' = loads /\ token' = token
          /\ patient' = patient /\ UNCHANGED <<faults, jobVars, unitVars>>
      BY <1>3 DEF SetData, askVars
    <2>2. calls' \in Seq(CallSet) /\ data' \in Seq(CallSet)
      BY <1>2, <2>1, RemovalIs
    <2>3. there' \subseteq Job /\ seen' \subseteq Job
      <3>1. there \subseteq Job /\ seen \subseteq Job
        BY <1>1 DEF PageTypes
      <3>2. CASE view = "jobs" /\ patient
        <4>1. Got(i).all \subseteq Job /\ Got(i).rows \subseteq Job
          BY <1>2, <3>2, CallFields DEF Got, GotSet
        <4>2. /\ there' = (IF calls[i].page = 1 THEN Got(i).all ELSE there)
              /\ seen' = (IF calls[i].page = 1 THEN {} ELSE seen) \cup Got(i).rows
          BY <1>3, <3>2 DEF SetData
        <4> QED BY <3>1, <4>1, <4>2
      <3>3. CASE ~(view = "jobs" /\ patient)
        BY <1>3, <3>1, <3>3 DEF SetData
      <3> QED BY <3>2, <3>3
    <2> QED BY <1>1, <1>2, <2>1, <2>2, <2>3, PageStep DEF PageTypes
  <1>4. CASE SetError(i)
    <2>1. /\ error' \in {error, "error", "forbidden"} /\ calls' = RemoveAt(calls, i)
          /\ view' = view /\ filter' = filter /\ page' = page /\ loads' = loads /\ token' = token
          /\ data' = data /\ there' = there /\ seen' = seen /\ patient' = patient
          /\ UNCHANGED <<faults, jobVars, unitVars>>
      BY <1>4 DEF SetError, At, askVars, walkVars
    <2>2. calls' \in Seq(CallSet)
      BY <2>1, RemovalIs
    <2> QED BY <1>1, <1>2, <2>1, <2>2, PageStep DEF PageTypes
  <1>5. CASE AuthFetch(i)
    <2>1. /\ token' = "renewed" /\ loads < MaxLoads[view] /\ loads' = loads + 1
          /\ view' = view /\ filter' = filter /\ page' = page /\ data' = data /\ error' = error
          /\ there' = there /\ seen' = seen /\ patient' = patient
          /\ UNCHANGED <<faults, jobVars, unitVars>>
      BY <1>5 DEF AuthFetch, walkVars
    <2>2. calls' \in Seq(CallSet)
      BY <1>5, AuthFetchIs
    <2>3. loads' \in Nat /\ loads' <= MaxLoads[view] /\ token' \in Bearers
      <3>1. MaxLoads[view] \in Nat /\ loads \in Nat
        BY <1>1, <1>2, AdminAssumption DEF PageTypes
      <3> QED BY <2>1, <3>1 DEF Bearers
    <2> QED BY <1>1, <1>2, <2>1, <2>2, <2>3, PageStep DEF PageTypes
  <1>6. CASE ToLogin(i)
    <2>1. /\ view' = "login" /\ calls' = <<>> /\ token' = token
          /\ filter' = filter /\ page' = page /\ loads' = loads /\ error' = error
          /\ there' = there /\ seen' = seen /\ patient' = patient
          /\ UNCHANGED <<faults, jobVars, unitVars>>
      BY <1>6 DEF ToLogin, walkVars
    <2>2. CallTypes'
      BY <2>1 DEF CallTypes
    <2> QED BY <1>1, <2>1, <2>2 DEF PageTypes
  <1> QED BY <1>3, <1>4, <1>5, <1>6 DEF Hook

LEMMA InitTypes == Init => TypeOK
  <1> SUFFICES ASSUME Init PROVE TypeOK
    OBVIOUS
  <1>1. /\ Cardinality(Job) \in Nat /\ MaxDay \in Nat /\ MaxClock \in Nat \ {0} /\ TTL \in Nat
        /\ MaxLoads \in [Pages -> Nat \ {0}]
    BY AdminAssumption, FS_CardinalityType
  <1>2. JobTypes
    <2>1. /\ order = <<>> /\ status = [j \in Job |-> "none"] /\ on = [j \in Job |-> 0] /\ day = 0
      BY DEF Init
    <2>2. order \in Seq(Job) /\ IsInjective(order) /\ \A j \in Job : ~Contains(order, j)
      BY <2>1 DEF IsInjective, Contains
    <2> QED BY <1>1, <2>1, <2>2 DEF JobTypes
  <1>3. UnitTypes
    <2>1. /\ clock = 1 /\ up = FALSE /\ frame = "none" /\ heard = FALSE /\ expiry = 0 /\ beat = 0
      BY DEF Init
    <2>2. 1 \in 1..MaxClock /\ 0 \in 0..(MaxClock + TTL) /\ 0 \in 0..MaxClock
      BY <1>1
    <2>3. up \in BOOLEAN /\ heard \in BOOLEAN
      BY <2>1
    <2> QED BY <2>1, <2>2, <2>3 DEF UnitTypes
  <1>4. PageTypes
    <2>1. view \in Pages /\ token = "good"
      BY DEF Init
    <2>2. Blank[view] \in GotSet
      BY <2>1, BlankIs
    <2>3. 1 \in PageNumbers /\ "" \in Filters /\ token \in Bearers
      BY <1>1, <2>1 DEF PageNumbers, Filters, Bearers
    <2>4. Call("", 1) \in CallSet
      BY <2>2, <2>3 DEF Call, CallSet, Stages
    <2>5. calls = <<Call("", 1)>> /\ data = <<>>
      BY DEF Init
    <2>6. CallTypes
      <3>1. <<Call("", 1)>> \in Seq(CallSet) /\ <<>> \in Seq(CallSet)
        <4>1. \A c \in CallSet : <<c>> \in Seq(CallSet) /\ <<>> \in Seq(CallSet)
          OBVIOUS
        <4> QED BY <2>4, <4>1
      <3>2. view # "login"
        BY <2>1 DEF Pages
      <3> QED BY <2>5, <3>1, <3>2 DEF CallTypes
    <2>7. /\ filter = "" /\ page = 1 /\ loads = 1 /\ error = "none"
          /\ there = {} /\ seen = {} /\ patient = TRUE
      BY DEF Init
    <2>8. loads \in Nat /\ loads <= MaxLoads[view]
      <3>1. MaxLoads[view] \in Nat \ {0}
        BY <1>1, <2>1
      <3>2. loads = 1
        BY <2>7
      <3>3. \A m \in Nat \ {0} : 1 <= m
        OBVIOUS
      <3> QED BY <3>1, <3>2, <3>3
    <2>9. patient \in BOOLEAN /\ there \subseteq Job /\ seen \subseteq Job
      BY <2>7
    <2> QED BY <2>1, <2>3, <2>6, <2>7, <2>8, <2>9 DEF PageTypes
  <1>5. faults \in Environments
    BY DEF Init
  <1> QED BY <1>2, <1>3, <1>4, <1>5, TypeParts

LEMMA TypesStep == TypeOK /\ [Next]_vars => TypeOK'
  <1> SUFFICES ASSUME TypeOK, [Next]_vars PROVE TypeOK'
    OBVIOUS
  <1>1. faults \in Environments /\ JobTypes /\ UnitTypes /\ PageTypes
    BY TypeParts
  <1>2. SUFFICES /\ UNCHANGED faults /\ JobTypes' /\ UnitTypes' /\ PageTypes'
    BY <1>1, TypeParts DEF TypeOK, JobTypes, UnitTypes, PageTypes, CallTypes
  <1>3. CASE JobStep
    <2>1. UNCHANGED faults /\ UNCHANGED unitVars /\ UNCHANGED pageVars /\ JobTypes'
      BY <1>3, JobStepFrame, JobStepTypes
    <2> QED BY <1>1, <2>1, UnitStays, PageStays
  <1>4. CASE UnitStep
    <2>1. UNCHANGED faults /\ UNCHANGED jobVars /\ UNCHANGED pageVars /\ UnitTypes'
      BY <1>4, UnitStepFrame, UnitStepTypes
    <2> QED BY <1>1, <2>1, JobsStay, PageStays
  <1>5. CASE AskStep \/ Poll \/ Expire \/ \E i \in DOMAIN calls : Handler(i) \/ Hook(i)
    <2>1. PageTypes' /\ UNCHANGED <<faults, jobVars, unitVars>>
      BY <1>5, AskStepIs, AskTypes, PollTypes, ExpireTypes, HandlerTypes, HookTypes
    <2> QED BY <1>1, <2>1, JobsStay, UnitStays
  <1>6. CASE UNCHANGED vars
    <2>1. UNCHANGED faults /\ UNCHANGED jobVars /\ UNCHANGED unitVars /\ UNCHANGED pageVars
      BY <1>6 DEF vars
    <2> QED BY <1>1, <2>1, JobsStay, UnitStays, PageStays
  <1> QED BY <1>3, <1>4, <1>5, <1>6, NextIs

\* Every variable keeps its type: no page number is offered that is past the last
\* page there can be, and the number of jobs counted is within the jobs there are.
THEOREM TypeCorrect == Spec => []TypeOK
  BY InitTypes, TypesStep, PTL DEF Spec

----------------------------------------------------------------------------
(* Where the calls in flight come from: each is new, as it was, or one step *)
(* of its handler further.                                                  *)

Fresh(c) ==
    c.filter = filter' /\ c.page = page' /\ c.stage = "guard" /\ c.got = Blank[view]
Kept(c, m) ==
    /\ c.filter = calls[m].filter /\ c.page = calls[m].page /\ c.got = calls[m].got
    /\ c.stage = calls[m].stage \/ (calls[m].stage = "unauthorized" /\ c.stage = "guard")
Turned(c, m) ==
    /\ c.filter = calls[m].filter /\ c.page = calls[m].page
    /\ Reads(m, c.stage, c.got) \/ Passes(m, c.stage, c.got)
Traced ==
    \A k \in DOMAIN calls' :
        Fresh(calls'[k]) \/ \E m \in DOMAIN calls : Kept(calls'[k], m) \/ Turned(calls'[k], m)

LEMMA HandlerTraces ==
  ASSUME TypeOK, NEW i \in DOMAIN calls, Handler(i)
  PROVE  /\ Traced /\ Len(calls') = Len(calls) /\ DOMAIN calls' = DOMAIN calls
         /\ \A k \in DOMAIN calls : calls'[k].filter = calls[k].filter /\ calls'[k].page = calls[k].page
         /\ UNCHANGED <<faults, jobVars, unitVars, askVars, data, error, walkVars>>
  <1>1. DOMAIN calls = 1..Len(calls) /\ Len(calls) \in Nat /\ calls[i] \in CallSet
    BY CallsAreOpen, OpenTypes
  <1>2. PICK st, g : Handled(i, st, g) /\ (Reads(i, st, g) \/ Passes(i, st, g))
    BY HandlerIs
  <1>3. st \in Stages /\ g \in GotSet
    BY <1>2, ReadsTypes
  <1>4. /\ calls' \in Seq(CallSet) /\ Len(calls') = Len(calls)
        /\ \A k \in 1..Len(calls) : k # i => calls'[k] = calls[k]
        /\ calls'[i] = [calls[i] EXCEPT !.stage = st, !.got = g]
    <2>1. TypeOK /\ Handled(i, st, g)
      BY <1>2
    <2> QED BY ONLY <1>3, <2>1, i \in DOMAIN calls, HandledIs
  <1>5. DOMAIN calls' = DOMAIN calls
    BY <1>1, <1>4, LenProperties
  <1>6. /\ calls'[i].filter = calls[i].filter /\ calls'[i].page = calls[i].page
        /\ calls'[i].stage = st /\ calls'[i].got = g
    BY <1>1, <1>4 DEF CallSet
  <1>7. Turned(calls'[i], i)
    BY <1>2, <1>6 DEF Turned
  <1>8. \A k \in DOMAIN calls : k # i => Kept(calls'[k], k)
    BY <1>1, <1>4 DEF Kept
  <1>9. UNCHANGED <<faults, jobVars, unitVars, askVars, data, error, walkVars>>
    BY <1>2 DEF Handled
  <1>10. Traced
    BY <1>5, <1>7, <1>8 DEF Traced
  <1> QED BY <1>1, <1>4, <1>5, <1>6, <1>9, <1>10

LEMMA AppendTraces ==
  ASSUME TypeOK, view # "login", NEW f \in Filters, NEW p \in PageNumbers,
         calls' = Append(calls, Call(f, p)), filter' = f, page' = p
  PROVE  /\ Traced /\ calls' # <<>> /\ Len(calls') \in Nat
         /\ Fresh(calls'[Len(calls')]) /\ (calls = <<>> => DOMAIN calls' = {1} /\ Len(calls') = 1)
  <1>1. DOMAIN calls = 1..Len(calls) /\ Len(calls) \in Nat /\ calls \in Seq(CallSet)
    BY OpenTypes
  <1>2. /\ calls' \in Seq(CallSet) /\ Len(calls') = Len(calls) + 1
        /\ \A k \in 1..Len(calls) : calls'[k] = calls[k]
        /\ calls'[Len(calls) + 1] = Call(f, p)
    BY AppendIs
  <1>3. DOMAIN calls' = 1..(Len(calls) + 1)
    BY <1>2, LenProperties
  <1>4. Fresh(Call(f, p))
    BY DEF Fresh, Call
  <1>5. \A k \in 1..Len(calls) : Kept(calls'[k], k)
    BY <1>2 DEF Kept
  <1>6. \A k \in DOMAIN calls' : k \in 1..Len(calls) \/ k = Len(calls) + 1
    BY <1>1, <1>3
  <1>7. Traced
    BY <1>1, <1>2, <1>4, <1>5, <1>6 DEF Traced
  <1>8. calls' # <<>>
    BY <1>1, <1>2
  <1>9. calls = <<>> => DOMAIN calls' = {1} /\ Len(calls') = 1
    <2> SUFFICES ASSUME calls = <<>> PROVE DOMAIN calls' = {1} /\ Len(calls') = 1
      OBVIOUS
    <2>1. Len(calls) = 0
      BY <1>1
    <2> QED BY <1>2, <1>3, <2>1
  <1> QED BY <1>1, <1>2, <1>4, <1>7, <1>8, <1>9

LEMMA RemovalTraces ==
  ASSUME TypeOK, NEW i \in DOMAIN calls, calls' = RemoveAt(calls, i)
  PROVE  /\ Traced /\ Len(calls') = Len(calls) - 1 /\ DOMAIN calls' = 1..(Len(calls) - 1)
         /\ \A k \in DOMAIN calls' : \E m \in DOMAIN calls : calls'[k] = calls[m]
         /\ i = 1 /\ calls' # <<>> => calls'[Len(calls')] = calls[Len(calls)]
  <1>1. DOMAIN calls = 1..Len(calls) /\ Len(calls) \in Nat
    BY CallsAreOpen, OpenTypes
  <1>2. /\ calls' \in Seq(CallSet) /\ Len(calls') = Len(calls) - 1
        /\ \A k \in 1..(Len(calls) - 1) : calls'[k] = IF k < i THEN calls[k] ELSE calls[k + 1]
    BY RemovalIs
  <1>3. DOMAIN calls' = 1..(Len(calls) - 1)
    BY <1>2, LenProperties
  <1>4. \A k \in DOMAIN calls' : \E m \in DOMAIN calls : calls'[k] = calls[m]
    <2> TAKE k \in DOMAIN calls'
    <2>1. k \in DOMAIN calls /\ k + 1 \in DOMAIN calls
      BY <1>1, <1>3
    <2>2. calls'[k] = calls[k] \/ calls'[k] = calls[k + 1]
      BY <1>2, <1>3
    <2> QED BY <2>1, <2>2
  <1>5. Traced
    BY <1>4 DEF Traced, Kept
  <1>6. ASSUME i = 1, calls' # <<>> PROVE calls'[Len(calls')] = calls[Len(calls)]
    <2>1. Len(calls') # 0
      BY <1>2, <1>6, EmptySeq
    <2>2. Len(calls) - 1 \in 1..(Len(calls) - 1) /\ ~(Len(calls) - 1 < i) /\ (Len(calls) - 1) + 1 = Len(calls)
      BY <1>1, <1>2, <1>6, <2>1
    <2>3. calls'[Len(calls) - 1] = calls[(Len(calls) - 1) + 1]
      BY <1>2, <2>2
    <2> QED BY <1>2, <2>2, <2>3
  <1> QED BY <1>2, <1>3, <1>4, <1>5, <1>6

LEMMA AuthFetchTraces ==
  ASSUME TypeOK, NEW i \in DOMAIN calls, AuthFetch(i)
  PROVE  /\ Traced /\ calls' # <<>> /\ Fresh(calls'[Len(calls')])
         /\ UNCHANGED <<faults, jobVars, unitVars, view, filter, page, data, error, walkVars>>
  <1>1. /\ DOMAIN calls = 1..Len(calls) /\ Len(calls) \in Nat /\ calls[i] \in CallSet
        /\ view # "login" /\ filter \in Filters /\ page \in PageNumbers
    BY CallsAreOpen, OpenTypes DEF TypeOK
  <1>2. UNCHANGED <<faults, jobVars, unitVars, view, filter, page, data, error, walkVars>>
    BY DEF AuthFetch
  <1>3. /\ calls' \in Seq(CallSet) /\ Len(calls') = Len(calls) + 1
        /\ \A k \in 1..Len(calls) : k # i => calls'[k] = calls[k]
        /\ calls'[i] = [calls[i] EXCEPT !.stage = "guard", !.bearer = "renewed"]
        /\ calls'[Len(calls) + 1] = [Call(filter, page) EXCEPT !.bearer = "renewed"]
    BY AuthFetchIs
  <1>4. DOMAIN calls' = 1..(Len(calls) + 1)
    BY <1>3, LenProperties
  <1>5. Fresh(calls'[Len(calls) + 1])
    BY <1>2, <1>3 DEF Fresh, Call
  <1>6. Kept(calls'[i], i)
    <2>1. calls[i].stage = "unauthorized"
      BY DEF AuthFetch, At
    <2> QED BY <1>1, <1>3, <2>1 DEF Kept, CallSet
  <1>7. \A k \in 1..Len(calls) : Kept(calls'[k], k)
    BY <1>3, <1>6 DEF Kept
  <1>8. \A k \in DOMAIN calls' : k \in 1..Len(calls) \/ k = Len(calls) + 1
    BY <1>1, <1>4
  <1>9. Traced
    BY <1>1, <1>5, <1>7, <1>8 DEF Traced
  <1>10. calls' # <<>>
    BY <1>1, <1>3
  <1> QED BY <1>2, <1>3, <1>5, <1>9, <1>10

LEMMA ExpireTraces ==
  ASSUME TypeOK, view # "login", Expire
  PROVE  /\ Traced /\ Len(calls') = Len(calls) /\ DOMAIN calls' = DOMAIN calls
         /\ \A k \in DOMAIN calls : calls'[k].filter = calls[k].filter /\ calls'[k].page = calls[k].page
         /\ UNCHANGED <<faults, jobVars, unitVars, askVars, data, error, walkVars>>
  <1>1. /\ DOMAIN calls = 1..Len(calls) /\ \A k \in 1..Len(calls) : calls[k] \in CallSet
    BY OpenTypes
  <1>2. /\ calls' \in Seq(CallSet) /\ Len(calls') = Len(calls)
        /\ \A k \in 1..Len(calls) :
              calls'[k] = calls[k] \/ calls'[k] = [calls[k] EXCEPT !.bearer = "expired"]
    BY ExpireIs
  <1>3. DOMAIN calls' = DOMAIN calls
    BY <1>1, <1>2, LenProperties
  <1>4. \A k \in DOMAIN calls : Kept(calls'[k], k)
    <2>1. \A c \in CallSet :
            LET d == [c EXCEPT !.bearer = "expired"]
            IN  d.filter = c.filter /\ d.page = c.page /\ d.got = c.got /\ d.stage = c.stage
      BY DEF CallSet
    <2> TAKE k \in DOMAIN calls
    <2>2. calls[k] \in CallSet
      BY <1>1
    <2>3. calls'[k] = calls[k] \/ calls'[k] = [calls[k] EXCEPT !.bearer = "expired"]
      BY <1>1, <1>2
    <2> QED BY <2>1, <2>2, <2>3 DEF Kept
  <1>5. Traced
    BY <1>3, <1>4 DEF Traced
  <1>6. UNCHANGED <<faults, jobVars, unitVars, askVars, data, error, walkVars>>
    BY DEF Expire
  <1> QED BY <1>2, <1>3, <1>4, <1>5, <1>6 DEF Kept

\* A step of the page that does not leave it: it touches neither jobs nor unit.
PageMove ==
    AskStep \/ Poll \/ Expire \/ \E i \in DOMAIN calls : Handler(i) \/ (Hook(i) /\ ~ToLogin(i))

LEMMA NextParts ==
  Next => \/ JobStep \/ UnitStep \/ PageMove
          \/ \E i \in DOMAIN calls : ToLogin(i)
  BY NextIs DEF PageMove, Hook

LEMMA MovesTrace ==
  ASSUME TypeOK, PageMove
  PROVE  /\ UNCHANGED <<faults, jobVars, unitVars>> /\ view' = view
         /\ view # "login" => Traced
  <1>1. CASE AskStep
    <2>1. PICK f \in Filters, p \in PageNumbers : Ask(f, p)
      BY <1>1, AskStepIs
    <2>2. /\ UNCHANGED <<faults, jobVars, unitVars>> /\ view' = view /\ filter' = f /\ page' = p
          /\ calls' = Append(calls, Call(f, p)) /\ view # "login"
      BY <2>1 DEF Ask
    <2> QED BY <2>2, AppendTraces
  <1>2. CASE Poll
    <2>1. /\ UNCHANGED <<faults, jobVars, unitVars>> /\ view' = view /\ filter' = filter /\ page' = page
          /\ calls' = Append(calls, Call(filter, page)) /\ view # "login"
      BY <1>2 DEF Poll
    <2>2. filter \in Filters /\ page \in PageNumbers
      BY DEF TypeOK
    <2> QED BY <2>1, <2>2, AppendTraces
  <1>3. CASE Expire
    <2>1. UNCHANGED <<faults, jobVars, unitVars>> /\ view' = view
      BY <1>3 DEF Expire, askVars
    <2> QED BY <1>3, <2>1, ExpireTraces
  <1>4. ASSUME NEW i \in DOMAIN calls, Handler(i)
        PROVE  UNCHANGED <<faults, jobVars, unitVars>> /\ view' = view /\ Traced
    BY <1>4, HandlerTraces DEF askVars
  <1>5. ASSUME NEW i \in DOMAIN calls, SetData(i)
        PROVE  UNCHANGED <<faults, jobVars, unitVars>> /\ view' = view /\ Traced
    <2>1. UNCHANGED <<faults, jobVars, unitVars>> /\ view' = view /\ calls' = RemoveAt(calls, i)
      BY <1>5 DEF SetData, askVars
    <2> QED BY <2>1, RemovalTraces
  <1>6. ASSUME NEW i \in DOMAIN calls, SetError(i)
        PROVE  UNCHANGED <<faults, jobVars, unitVars>> /\ view' = view /\ Traced
    <2>1. UNCHANGED <<faults, jobVars, unitVars>> /\ view' = view /\ calls' = RemoveAt(calls, i)
      BY <1>6 DEF SetError, askVars
    <2> QED BY <2>1, RemovalTraces
  <1>7. ASSUME NEW i \in DOMAIN calls, AuthFetch(i)
        PROVE  UNCHANGED <<faults, jobVars, unitVars>> /\ view' = view /\ Traced
    BY <1>7, AuthFetchTraces
  <1> QED BY <1>1, <1>2, <1>3, <1>4, <1>5, <1>6, <1>7 DEF PageMove, Hook

\* The answer on screen stays, or is that of a call that has been answered.
LEMMA MovesShow ==
  ASSUME TypeOK, PageMove
  PROVE  data' = data \/ \E i \in DOMAIN calls : At(i, "ok") /\ data' = <<calls[i]>>
  <1>1. CASE AskStep
    BY <1>1, AskStepIs DEF Ask
  <1>2. CASE Poll \/ Expire
    BY <1>2 DEF Poll, Expire
  <1>3. ASSUME NEW i \in DOMAIN calls, Handler(i) PROVE data' = data
    BY <1>3, HandlerTraces
  <1>4. ASSUME NEW i \in DOMAIN calls, SetData(i) PROVE At(i, "ok") /\ data' = <<calls[i]>>
    BY <1>4 DEF SetData
  <1>5. ASSUME NEW i \in DOMAIN calls, SetError(i) \/ AuthFetch(i) PROVE data' = data
    BY <1>5 DEF SetError, AuthFetch
  <1> QED BY <1>1, <1>2, <1>3, <1>4, <1>5 DEF PageMove, Hook

----------------------------------------------------------------------------
(* What is shown is what was asked for.                                    *)

Asked(c) == c.filter = filter /\ c.page = page
LastAsked == calls # <<>> /\ "reorder" \notin faults => Asked(calls[Len(calls)])
AllAsked == patient => \A i \in DOMAIN calls : Asked(calls[i])

LEMMA AskedParts == LastIsAsked <=> LastAsked /\ AllAsked
  BY DEF LastIsAsked, LastAsked, AllAsked, Asked

LEMMA FreshAsks == \A c : Fresh(c) => c.filter = filter' /\ c.page = page'
  BY DEF Fresh

LEMMA TracedAsks ==
  ASSUME Traced, AllAsked, filter' = filter, page' = page, patient' = patient
  PROVE  AllAsked'
  <1> SUFFICES ASSUME patient, NEW k \in DOMAIN calls'
               PROVE  calls'[k].filter = filter /\ calls'[k].page = page
    BY DEF AllAsked, Asked
  <1>1. CASE Fresh(calls'[k])
    BY <1>1 DEF Fresh
  <1>2. ASSUME NEW m \in DOMAIN calls, Kept(calls'[k], m) \/ Turned(calls'[k], m)
        PROVE  calls'[k].filter = filter /\ calls'[k].page = page
    <2>1. calls'[k].filter = calls[m].filter /\ calls'[k].page = calls[m].page
      BY <1>2 DEF Kept, Turned
    <2> QED BY <2>1 DEF AllAsked, Asked
  <1> QED BY <1>1, <1>2 DEF Traced

LEMMA SameCallsAsk ==
  ASSUME LastIsAsked, Len(calls') = Len(calls), DOMAIN calls' = DOMAIN calls,
         calls # <<>> => Len(calls) \in DOMAIN calls,
         calls' # <<>> => calls # <<>>,
         \A k \in DOMAIN calls : calls'[k].filter = calls[k].filter /\ calls'[k].page = calls[k].page,
         faults' = faults, filter' = filter, page' = page, patient' = patient
  PROVE  LastIsAsked'
  BY DEF LastIsAsked

\* Both kinds of step that change no call's filter, page or place.
LEMMA UnmovedIs ==
  ASSUME TypeOK, Expire \/ \E i \in DOMAIN calls : Handler(i)
  PROVE  /\ Len(calls') = Len(calls) /\ DOMAIN calls' = DOMAIN calls
         /\ calls # <<>> => Len(calls) \in DOMAIN calls
         /\ calls' = <<>> <=> calls = <<>>
         /\ \A k \in DOMAIN calls : calls'[k].filter = calls[k].filter /\ calls'[k].page = calls[k].page
         /\ UNCHANGED <<faults, jobVars, unitVars, askVars, data, error, walkVars>>
  <1>1. CASE view = "login"
    <2>1. calls = <<>>
      BY <1>1 DEF TypeOK
    <2>2. Expire
      BY <2>1
    <2>3. calls' = <<>> /\ UNCHANGED <<faults, jobVars, unitVars, askVars, data, error, walkVars>>
      BY <2>1, <2>2 DEF Expire
    <2> QED BY <2>1, <2>3
  <1>2. CASE view # "login"
    <2>1. /\ Len(calls') = Len(calls) /\ DOMAIN calls' = DOMAIN calls
          /\ \A k \in DOMAIN calls : calls'[k].filter = calls[k].filter /\ calls'[k].page = calls[k].page
          /\ UNCHANGED <<faults, jobVars, unitVars, askVars, data, error, walkVars>>
      BY <1>2, ExpireTraces, HandlerTraces
    <2>2. calls \in Seq(CallSet) /\ DOMAIN calls = 1..Len(calls) /\ Len(calls) \in Nat
      BY <1>2, OpenTypes
    <2>3. calls' \in Seq(CallSet)
      <3>1. ASSUME NEW i \in DOMAIN calls, Handler(i) PROVE calls' \in Seq(CallSet)
        BY <3>1, HandlerIs, ReadsTypes, HandledIs
      <3> QED BY <1>2, <3>1, ExpireIs
    <2>4. calls # <<>> => Len(calls) \in DOMAIN calls
      BY <2>2, EmptySeq
    <2>5. calls' = <<>> <=> calls = <<>>
      BY <2>1, <2>2, <2>3, EmptySeq
    <2> QED BY <2>1, <2>4, <2>5
  <1> QED BY <1>1, <1>2

LEMMA AskedStep ==
  ASSUME TypeOK, LastIsAsked, [Next]_vars
  PROVE  LastIsAsked'
  <1>0. LastAsked /\ AllAsked
    BY AskedParts
  <1>1. SUFFICES LastAsked' /\ AllAsked'
    BY DEF LastIsAsked, LastAsked, AllAsked, Asked
  <1>2. CASE JobStep \/ UnitStep \/ UNCHANGED vars
    <2>1. /\ calls' = calls /\ filter' = filter /\ page' = page /\ patient' = patient /\ faults' = faults
      BY <1>2, JobStepFrame, UnitStepFrame DEF pageVars, askVars, walkVars, vars
    <2> QED BY <1>0, <2>1 DEF LastAsked, AllAsked, Asked
  <1>3. CASE AskStep
    <2>1. PICK f \in Filters, p \in PageNumbers : Ask(f, p)
      BY <1>3, AskStepIs
    <2>2. /\ filter' = f /\ page' = p /\ calls' = Append(calls, Call(f, p)) /\ view # "login"
          /\ (patient' => calls = <<>>)
      BY <2>1 DEF Ask
    <2>3. /\ Fresh(calls'[Len(calls')]) /\ (calls = <<>> => DOMAIN calls' = {1} /\ Len(calls') = 1)
      BY <2>2, AppendTraces
    <2>4. LastAsked'
      BY <2>3, FreshAsks DEF LastAsked, Asked
    <2>5. AllAsked'
      BY <2>2, <2>3, FreshAsks DEF AllAsked, Asked
    <2> QED BY <2>4, <2>5
  <1>4. CASE Poll
    <2>1. /\ filter' = filter /\ page' = page /\ patient' = patient /\ view # "login"
          /\ calls' = Append(calls, Call(filter, page))
      BY <1>4 DEF Poll, walkVars
    <2>2. filter \in Filters /\ page \in PageNumbers
      BY DEF TypeOK
    <2>3. Traced /\ Fresh(calls'[Len(calls')])
      BY <2>1, <2>2, AppendTraces
    <2>4. LastAsked'
      BY <2>3, FreshAsks DEF LastAsked, Asked
    <2> QED BY <1>0, <2>1, <2>3, <2>4, TracedAsks
  <1>5. CASE Expire \/ \E i \in DOMAIN calls : Handler(i)
    <2>1. LastIsAsked'
      BY <1>5, UnmovedIs, SameCallsAsk DEF askVars, walkVars
    <2> QED BY <2>1 DEF LastIsAsked, LastAsked, AllAsked, Asked
  <1>6. ASSUME NEW i \in DOMAIN calls, SetData(i) \/ SetError(i) PROVE LastAsked' /\ AllAsked'
    <2>1. /\ Arrives(i) /\ calls' = RemoveAt(calls, i) /\ filter' = filter /\ page' = page
          /\ patient' = patient /\ faults' = faults
      BY <1>6 DEF SetData, SetError, askVars, walkVars
    <2>2. Traced /\ (i = 1 /\ calls' # <<>> => calls'[Len(calls')] = calls[Len(calls)])
      BY <2>1, RemovalTraces
    <2>3. "reorder" \notin faults => i = 1
      BY <2>1 DEF Arrives
    <2>4. calls # <<>>
      OBVIOUS
    <2>5. LastAsked'
      BY <1>0, <2>1, <2>2, <2>3, <2>4 DEF LastAsked, Asked
    <2> QED BY <1>0, <2>1, <2>2, <2>5, TracedAsks
  <1>7. ASSUME NEW i \in DOMAIN calls, AuthFetch(i) PROVE LastAsked' /\ AllAsked'
    <2>1. /\ Traced /\ Fresh(calls'[Len(calls')])
          /\ filter' = filter /\ page' = page /\ patient' = patient
      BY <1>7, AuthFetchTraces DEF walkVars
    <2>2. LastAsked'
      BY <2>1, FreshAsks DEF LastAsked, Asked
    <2> QED BY <1>0, <2>1, <2>2, TracedAsks
  <1>8. ASSUME NEW i \in DOMAIN calls, ToLogin(i) PROVE LastAsked' /\ AllAsked'
    BY <1>8 DEF ToLogin, LastAsked, AllAsked
  <1> QED BY <1>2, <1>3, <1>4, <1>5, <1>6, <1>7, <1>8, NextIs DEF Hook

LEMMA ShowsStep ==
  ASSUME TypeOK, LastIsAsked, ShowsWhatIsAsked, [Next]_vars
  PROVE  ShowsWhatIsAsked'
  <1>1. SUFFICES ASSUME view' = "jobs", "reorder" \notin faults', calls' = <<>>
                 PROVE  OnScreen' \/ error' # "none"
    BY DEF ShowsWhatIsAsked
  <1>2. ASSUME view' = view, faults' = faults, calls = <<>>, filter' = filter, page' = page,
               data' = data, error' = error
        PROVE  OnScreen' \/ error' # "none"
    <2>1. OnScreen \/ error # "none"
      BY <1>1, <1>2 DEF ShowsWhatIsAsked
    <2> QED BY <1>2, <2>1 DEF OnScreen
  <1>3. CASE JobStep \/ UnitStep \/ UNCHANGED vars
    BY <1>1, <1>2, <1>3, JobStepFrame, UnitStepFrame DEF pageVars, askVars, vars
  <1>4. CASE AskStep
    <2>1. PICK f \in Filters, p \in PageNumbers : Ask(f, p)
      BY <1>4, AskStepIs
    <2>2. /\ filter' = f /\ page' = p /\ calls' = Append(calls, Call(f, p)) /\ view # "login"
      BY <2>1 DEF Ask
    <2>3. calls' # <<>>
      BY <2>2, AppendTraces
    <2> QED BY <1>1, <2>3
  <1>5. CASE Poll
    <2>1. view' # "jobs"
      BY <1>5 DEF Poll
    <2> QED BY <1>1, <2>1
  <1>6. CASE Expire \/ \E i \in DOMAIN calls : Handler(i)
    BY <1>1, <1>2, <1>6, UnmovedIs DEF askVars
  <1>7. ASSUME NEW i \in DOMAIN calls, SetData(i) PROVE OnScreen'
    <2>1. /\ Arrives(i) /\ calls' = RemoveAt(calls, i) /\ data' = <<calls[i]>>
          /\ filter' = filter /\ page' = page /\ faults' = faults
      BY <1>7 DEF SetData, askVars
    <2>2. Len(calls') = Len(calls) - 1 /\ i \in 1..Len(calls) /\ Len(calls) \in Nat
      BY <2>1, RemovalTraces, CallsAreOpen, OpenTypes
    <2>3. Len(calls) = 1 /\ i = 1
      <3>1. Len(calls') = 0
        BY <1>1
      <3> QED BY <2>2, <3>1
    <2>4. calls[i].filter = filter /\ calls[i].page = page
      BY <1>1, <2>1, <2>3 DEF LastIsAsked
    <2> QED BY <2>1, <2>4 DEF OnScreen
  <1>8. ASSUME NEW i \in DOMAIN calls, SetError(i) PROVE error' # "none"
    BY <1>8 DEF SetError, At
  <1>9. ASSUME NEW i \in DOMAIN calls, AuthFetch(i) \/ ToLogin(i) PROVE FALSE
    BY <1>1, <1>9, AuthFetchTraces DEF ToLogin
  <1> QED BY <1>3, <1>4, <1>5, <1>6, <1>7, <1>8, <1>9, NextIs DEF Hook

----------------------------------------------------------------------------
(* What a handler's step reads, page by page.                              *)

LEMMA GotIs ==
  ASSUME TypeOK, NEW m \in DOMAIN calls
  PROVE  calls[m] \in CallSet /\ Got(m) \in GotSet
  BY CallsAreOpen, OpenTypes, CallFields DEF Got

\* It reads nothing if it only passes the guard or fails.
Idle(c, m) ==
    c.got = Got(m) /\ c.stage \in {"unauthorized", "forbidden", "first", "error"}

LEMMA JobsReads ==
  ASSUME TypeOK, view = "jobs", NEW m \in DOMAIN calls, NEW c, Turned(c, m)
  PROVE  \/ Idle(c, m)
         \/ /\ At(m, "first") /\ c.stage = "second"
            /\ c.got.rows = AdminListJobs(calls[m].filter, calls[m].page)
            /\ c.got.all = IF calls[m].page = 1 THEN ToSet(order) ELSE {}
         \/ /\ At(m, "second") /\ c.stage = "ok"
            /\ c.got.rows = Got(m).rows /\ c.got.all = Got(m).all
            /\ c.got.n = AdminCountJobs(calls[m].filter)
  <1>1. Got(m) \in [rows : SUBSET Job, n : 0..Cardinality(Job), all : SUBSET Job]
    BY GotIs DEF GotSet
  <1>2. CASE Passes(m, c.stage, c.got)
    BY <1>2 DEF Passes, Idle
  <1>3. CASE Reads(m, c.stage, c.got)
    <2>1. \/ /\ At(m, "first") /\ c.stage = "second"
             /\ c.got = [Got(m) EXCEPT !.rows = AdminListJobs(calls[m].filter, calls[m].page),
                                       !.all = IF calls[m].page = 1 THEN ToSet(order) ELSE {}]
          \/ /\ At(m, "second") /\ c.stage = "ok"
             /\ c.got = [Got(m) EXCEPT !.n = AdminCountJobs(calls[m].filter)]
      BY <1>3 DEF Reads
    <2> QED BY <1>1, <2>1
  <1> QED BY <1>2, <1>3 DEF Turned

LEMMA OverviewReads ==
  ASSUME TypeOK, view = "overview", NEW m \in DOMAIN calls, NEW c, Turned(c, m)
  PROVE  \/ Idle(c, m)
         \/ At(m, "first") /\ c.stage = "second" /\ c.got.counts = status
         \/ At(m, "second") /\ c.stage = "third" /\ c.got.counts = Got(m).counts
         \/ /\ At(m, "third") /\ c.stage = "ok"
            /\ c.got.counts = Got(m).counts /\ c.got.since = Got(m).since
            /\ c.got.done = AdminCountDeliveredSince(Got(m).since)
  <1>1. Got(m) \in [counts : [Job -> Status \cup {"none"}], since : 0..MaxDay, done : SUBSET Job]
    BY GotIs DEF GotSet
  <1>2. CASE Passes(m, c.stage, c.got)
    BY <1>2 DEF Passes, Idle
  <1>3. CASE Reads(m, c.stage, c.got)
    <2>1. \/ At(m, "first") /\ c.stage = "second" /\ c.got = [Got(m) EXCEPT !.counts = status]
          \/ At(m, "second") /\ c.stage = "third" /\ c.got = [Got(m) EXCEPT !.since = day]
          \/ /\ At(m, "third") /\ c.stage = "ok"
             /\ c.got = [Got(m) EXCEPT !.done = AdminCountDeliveredSince(Got(m).since)]
      BY <1>3 DEF Reads
    <2> QED BY <1>1, <2>1
  <1> QED BY <1>2, <1>3 DEF Turned

LEMMA MailboxReads ==
  ASSUME TypeOK, view = "mailboxes", NEW m \in DOMAIN calls, NEW c, Turned(c, m)
  PROVE  \/ Idle(c, m)
         \/ At(m, "first") /\ c.stage = "second" /\ c.got.beat = beat
         \/ At(m, "second") /\ c.stage = "third" /\ c.got.beat = Got(m).beat
         \/ /\ At(m, "third") /\ c.stage = "ok" /\ c.got.beat = Got(m).beat
            /\ c.got.live = Live /\ c.got.at = clock
  <1>1. Got(m) \in [beat : 0..MaxClock, live : BOOLEAN, at : 0..MaxClock]
    BY GotIs DEF GotSet
  <1>2. CASE Passes(m, c.stage, c.got)
    BY <1>2 DEF Passes, Idle
  <1>3. CASE Reads(m, c.stage, c.got)
    <2>1. \/ At(m, "first") /\ c.stage = "second" /\ c.got = [Got(m) EXCEPT !.beat = beat]
          \/ At(m, "second") /\ c.stage = "third" /\ c.got = Got(m)
          \/ /\ At(m, "third") /\ c.stage = "ok"
             /\ c.got = [Got(m) EXCEPT !.live = Live, !.at = clock]
      BY <1>3 DEF Reads
    <2> QED BY <1>1, <2>1
  <1> QED BY <1>2, <1>3 DEF Turned

----------------------------------------------------------------------------
(* overview: no job is left out of the tiles.                              *)

\* What was delivered stays so, and its day with it, if nothing is printed twice.
LEMMA DeliveredStays ==
  ASSUME TypeOK, [Next]_vars, "twice" \notin faults, NEW j \in Job, status[j] = "delivered"
  PROVE  status'[j] = "delivered" /\ on'[j] = on[j]
  <1>1. /\ status \in [Job -> Status \cup {"none"}] /\ on \in [Job -> 0..MaxDay]
    BY DEF TypeOK
  <1>2. ASSUME NEW x \in Job, InsertJob(x) PROVE status'[j] = "delivered" /\ on'[j] = on[j]
    <2>1. status[x] = "none" /\ status' = [status EXCEPT ![x] = "waiting"] /\ on' = on
      BY <1>2 DEF InsertJob
    <2> QED BY <1>1, <2>1
  <1>3. ASSUME NEW x \in Job, UpdateJobStatus(x) PROVE status'[j] = "delivered" /\ on'[j] = on[j]
    <2>1. PICK s \in Status :
            /\ status[x] # "delivered"
            /\ status' = [status EXCEPT ![x] = s]
            /\ on' = (IF s = "delivered" THEN [on EXCEPT ![x] = day] ELSE on)
      BY <1>3 DEF UpdateJobStatus, Reported
    <2>2. x # j
      BY <2>1
    <2> QED BY <1>1, <2>1, <2>2
  <1>4. CASE Midnight
    BY <1>4 DEF Midnight
  <1>5. CASE UnitStep \/ PageMove \/ UNCHANGED vars
    BY <1>5, UnitStepFrame, MovesTrace DEF jobVars, vars
  <1>6. ASSUME NEW i \in DOMAIN calls, ToLogin(i) PROVE status' = status /\ on' = on
    BY <1>6 DEF ToLogin, jobVars
  <1> QED BY <1>2, <1>3, <1>4, <1>5, <1>6, NextParts DEF JobStep

LEMMA FaultsStay ==
  ASSUME TypeOK, [Next]_vars
  PROVE  faults' = faults
  <1>1. CASE JobStep \/ UnitStep \/ UNCHANGED vars
    BY <1>1, JobStepFrame, UnitStepFrame DEF vars
  <1>2. CASE PageMove
    BY <1>2, MovesTrace
  <1>3. ASSUME NEW i \in DOMAIN calls, ToLogin(i) PROVE faults' = faults
    BY <1>3 DEF ToLogin
  <1> QED BY <1>1, <1>2, <1>3, NextParts

\* The two conditions on what a call has read, after the step.
StandsNext(got) == \A j \in Job : got.counts[j] = "delivered" => status'[j] = "delivered"
TiledNext(got) ==
    \A j \in Job : got.counts[j] # "none"
        => got.counts[j] # "delivered" \/ j \in got.done \/ on'[j] < got.since

LEMMA CountsStep ==
  ASSUME TypeOK, CountsAreCovered, [Next]_vars
  PROVE  CountsAreCovered'
  <1> DEFINE P == \A k \in DOMAIN calls' :
                    StandsNext(calls'[k].got) /\ (calls'[k].stage = "ok" => TiledNext(calls'[k].got))
             Q == \A k \in DOMAIN data' : StandsNext(data'[k].got) /\ TiledNext(data'[k].got)
  <1>0. (view' = "overview" /\ "twice" \notin faults' => P /\ Q) => CountsAreCovered'
    <2>1. P => (\A i \in DOMAIN calls : CountsStand(Got(i)) /\ (At(i, "ok") => Tiled(Got(i))))'
      BY DEF CountsStand, Tiled, OnATile, Got, At, StandsNext, TiledNext
    <2>2. Q => (\A i \in DOMAIN data : CountsStand(data[i].got) /\ Tiled(data[i].got))'
      BY DEF CountsStand, Tiled, OnATile, StandsNext, TiledNext
    <2> HIDE DEF P, Q
    <2> QED BY <2>1, <2>2 DEF CountsAreCovered
  <1> SUFFICES ASSUME view' = "overview", "twice" \notin faults PROVE P /\ Q
    <2> HIDE DEF P, Q
    <2> QED BY <1>0, FaultsStay
  <1>1. view = "overview"
    <2>1. CASE JobStep \/ UnitStep \/ UNCHANGED vars
      BY <2>1, JobStepFrame, UnitStepFrame DEF pageVars, askVars, vars
    <2>2. CASE PageMove
      BY <2>2, MovesTrace
    <2>3. ~(\E i \in DOMAIN calls : ToLogin(i))
      BY DEF ToLogin
    <2> QED BY <2>1, <2>2, <2>3, NextParts
  <1>2. ASSUME NEW g, CountsStand(g) PROVE StandsNext(g)
    BY <1>2, DeliveredStays DEF CountsStand, StandsNext
  <1>3. ASSUME NEW g, CountsStand(g), Tiled(g) PROVE TiledNext(g)
    <2> SUFFICES ASSUME NEW j \in Job, g.counts[j] # "none" PROVE g.counts[j] # "delivered" \/ j \in g.done \/ on'[j] < g.since
      BY DEF TiledNext
    <2>1. OnATile(j, g)
      BY <1>3 DEF Tiled
    <2>2. g.counts[j] = "delivered" => on'[j] = on[j]
      BY <1>3, DeliveredStays DEF CountsStand
    <2> QED BY <2>1, <2>2 DEF OnATile
  <1>4. /\ \A i \in DOMAIN calls : CountsStand(calls[i].got) /\ (calls[i].stage = "ok" => Tiled(calls[i].got))
        /\ \A i \in DOMAIN data : CountsStand(data[i].got) /\ Tiled(data[i].got)
    BY <1>1 DEF CountsAreCovered, Got, At
  <1>5. CASE JobStep \/ UnitStep \/ UNCHANGED vars
    <2>1. calls' = calls /\ data' = data
      BY <1>5, JobStepFrame, UnitStepFrame DEF pageVars, vars
    <2> QED BY <1>2, <1>3, <1>4, <2>1
  <1>6. CASE PageMove
    <2>1. Traced /\ status' = status /\ on' = on
      BY <1>1, <1>6, MovesTrace DEF jobVars
    <2>2. ASSUME NEW k \in DOMAIN calls'
          PROVE  /\ StandsNext(calls'[k].got)
                 /\ calls'[k].stage = "ok" => TiledNext(calls'[k].got)
      <3>1. CASE Fresh(calls'[k])
        <4>1. calls'[k].stage = "guard" /\ calls'[k].got.counts = [j \in Job |-> "none"]
          BY <1>1, <3>1 DEF Fresh, Blank
        <4> QED BY <4>1 DEF StandsNext
      <3>2. ASSUME NEW m \in DOMAIN calls, Kept(calls'[k], m) \/ Turned(calls'[k], m)
            PROVE  /\ StandsNext(calls'[k].got)
                   /\ calls'[k].stage = "ok" => TiledNext(calls'[k].got)
        <4> DEFINE c == calls'[k]
        <4>1. CASE Kept(c, m) \/ Idle(c, m)
          <5>1. c.got = calls[m].got /\ (c.stage = "ok" => calls[m].stage = "ok")
            BY <4>1 DEF Kept, Idle, Got
          <5> QED BY <1>2, <1>3, <1>4, <5>1
        <4>2. CASE At(m, "first") /\ c.stage = "second" /\ c.got.counts = status
          BY <2>1, <4>2 DEF StandsNext
        <4>3. CASE At(m, "second") /\ c.stage = "third" /\ c.got.counts = Got(m).counts
          <5>1. CountsStand(calls[m].got)
            BY <1>4
          <5> QED BY <2>1, <4>3, <5>1 DEF CountsStand, StandsNext, Got
        <4>4. CASE /\ At(m, "third") /\ c.stage = "ok"
                   /\ c.got.counts = Got(m).counts /\ c.got.since = Got(m).since
                   /\ c.got.done = AdminCountDeliveredSince(Got(m).since)
          <5>1. CountsStand(calls[m].got)
            BY <1>4
          <5>2. StandsNext(c.got)
            BY <2>1, <4>4, <5>1 DEF CountsStand, StandsNext, Got
          <5>3. c.got.since \in 0..MaxDay /\ on \in [Job -> 0..MaxDay] /\ MaxDay \in Nat
            <6>1. Got(m).since \in 0..MaxDay
              BY <1>1, GotIs DEF GotSet
            <6> QED BY <4>4, <6>1, AdminAssumption DEF TypeOK
          <5>4. ASSUME NEW j \in Job, c.got.counts[j] = "delivered"
                PROVE  j \in c.got.done \/ on[j] < c.got.since
            <6>1. status[j] = "delivered"
              BY <4>4, <5>1, <5>4 DEF CountsStand, Got
            <6>2. on[j] >= c.got.since \/ on[j] < c.got.since
              BY <5>3
            <6> QED BY <4>4, <6>1, <6>2 DEF AdminCountDeliveredSince
          <5>5. TiledNext(c.got)
            BY <2>1, <5>4 DEF TiledNext
          <5> QED BY <5>2, <5>5
        <4>5. CASE Turned(c, m)
          <5> HIDE DEF c
          <5>1. \/ Idle(c, m)
                \/ At(m, "first") /\ c.stage = "second" /\ c.got.counts = status
                \/ At(m, "second") /\ c.stage = "third" /\ c.got.counts = Got(m).counts
                \/ /\ At(m, "third") /\ c.stage = "ok"
                   /\ c.got.counts = Got(m).counts /\ c.got.since = Got(m).since
                   /\ c.got.done = AdminCountDeliveredSince(Got(m).since)
            BY <1>1, <4>5, OverviewReads
          <5> QED BY <4>1, <4>2, <4>3, <4>4, <5>1
        <4> QED BY <3>2, <4>1, <4>5
      <3> QED BY <2>1, <3>1, <3>2 DEF Traced
    <2>3. \A k \in DOMAIN data' : StandsNext(data'[k].got) /\ TiledNext(data'[k].got)
      <3>1. CASE data' = data
        BY <1>2, <1>3, <1>4, <3>1
      <3>2. ASSUME NEW i \in DOMAIN calls, At(i, "ok"), data' = <<calls[i]>>
            PROVE  \A k \in DOMAIN data' : StandsNext(data'[k].got) /\ TiledNext(data'[k].got)
        <4>1. StandsNext(calls[i].got) /\ TiledNext(calls[i].got)
          BY <1>2, <1>3, <1>4, <3>2 DEF At
        <4>2. \A k \in DOMAIN data' : data'[k] = calls[i]
          BY <3>2
        <4> QED BY <4>1, <4>2
      <3> QED BY <1>6, <3>1, <3>2, MovesShow
    <2> QED BY <2>2, <2>3
  <1>7. ~(\E i \in DOMAIN calls : ToLogin(i))
    BY DEF ToLogin
  <1> QED BY <1>5, <1>6, <1>7, NextParts

----------------------------------------------------------------------------
(* mailboxes: no unit is called offline that Postgres has just heard of.   *)

\* A step that stays on the page, or leaves it for good.
LEMMA ViewStays ==
  ASSUME TypeOK, [Next]_vars, view' # "login"
  PROVE  view' = view /\ (JobStep \/ UnitStep \/ PageMove \/ UNCHANGED vars)
  <1>1. CASE JobStep \/ UnitStep \/ UNCHANGED vars
    BY <1>1, JobStepFrame, UnitStepFrame DEF pageVars, askVars, vars
  <1>2. CASE PageMove
    BY <1>2, MovesTrace
  <1>3. ~(\E i \in DOMAIN calls : ToLogin(i))
    BY DEF ToLogin
  <1> QED BY <1>1, <1>2, <1>3, NextParts

\* CacheOutlives in two parts: the stores, and what the calls have read of them.
Quiet == faults \cap {"redis", "slow"} = {}
StoresAgree ==
    /\ frame = "mirror" => expiry = clock + TTL
    /\ expiry <= clock + TTL
    /\ beat # 0 => expiry >= beat + TTL
CallAgrees(c) ==
    /\ (c.stage = "second" \/ c.stage = "third") /\ c.got.beat # 0 => expiry >= c.got.beat + TTL
    /\ c.stage = "ok" => Silent(c.got)

LEMMA CacheParts ==
  CacheOutlives <=>
    (Quiet => StoresAgree /\ (view = "mailboxes" => \A i \in DOMAIN calls : CallAgrees(calls[i])))
  BY DEF CacheOutlives, Quiet, StoresAgree, CallAgrees, At, Got

\* The cache is written before the row, so it lapses no earlier than TTL after it.
LEMMA StoresStep ==
  ASSUME TypeOK, Quiet, StoresAgree, UnitStep
  PROVE  StoresAgree' /\ expiry' >= expiry
  <1>1. /\ clock \in Nat /\ expiry \in Nat /\ beat \in Nat /\ TTL \in Nat
    BY AdminAssumption DEF TypeOK
  <1>2. "redis" \notin faults /\ "slow" \notin faults
    BY DEF Quiet
  <1>3. CASE Connect \/ Disconnect \/ Heartbeat
    <2>1. /\ clock' = clock /\ expiry' = expiry /\ beat' = beat /\ frame' # "mirror"
      BY <1>3 DEF Connect, Disconnect, Heartbeat
    <2> QED BY <1>1, <2>1 DEF StoresAgree
  <1>4. CASE SetPrinterState
    <2>1. clock' = clock /\ expiry' = clock + TTL /\ beat' = beat
      BY <1>2, <1>4 DEF SetPrinterState
    <2> QED BY <1>1, <2>1 DEF StoresAgree
  <1>5. CASE MirrorLiveness
    <2>1. clock' = clock /\ expiry' = expiry /\ beat' \in {beat, clock} /\ expiry = clock + TTL /\ frame' = "none"
      BY <1>5 DEF MirrorLiveness, StoresAgree
    <2> QED BY <1>1, <2>1 DEF StoresAgree
  <1>6. CASE Tick
    <2>1. clock' = clock + 1 /\ expiry' = expiry /\ beat' = beat /\ frame' = "none"
      BY <1>2, <1>6 DEF Tick
    <2> QED BY <1>1, <2>1 DEF StoresAgree
  <1> QED BY <1>3, <1>4, <1>5, <1>6 DEF UnitStep

LEMMA CacheStep ==
  ASSUME TypeOK, CacheOutlives, [Next]_vars
  PROVE  CacheOutlives'
  <1> DEFINE Agrees(c) ==
        /\ (c.stage = "second" \/ c.stage = "third") /\ c.got.beat # 0 => expiry' >= c.got.beat + TTL
        /\ c.stage = "ok" => Silent(c.got)
  <1>1. faults' = faults
    BY FaultsStay
  <1>2. SUFFICES ASSUME Quiet
                 PROVE  /\ StoresAgree'
                        /\ view' = "mailboxes" => \A k \in DOMAIN calls' : Agrees(calls'[k])
    <2>1. Quiet' <=> Quiet
      BY <1>1 DEF Quiet
    <2>2. (view' = "mailboxes" => \A k \in DOMAIN calls' : Agrees(calls'[k]))
            => (view = "mailboxes" => \A i \in DOMAIN calls : CallAgrees(calls[i]))'
      BY DEF CallAgrees, Silent
    <2> HIDE DEF Agrees
    <2>3. (Quiet => StoresAgree /\ (view = "mailboxes" => \A i \in DOMAIN calls : CallAgrees(calls[i])))'
            => CacheOutlives'
      BY DEF CacheOutlives, Quiet, StoresAgree, CallAgrees, At, Got
    <2> QED BY <2>1, <2>2, <2>3
  <1>3. StoresAgree /\ (view = "mailboxes" => \A i \in DOMAIN calls : CallAgrees(calls[i]))
    BY <1>2, CacheParts
  <1>4. /\ clock \in Nat /\ expiry \in Nat /\ beat \in Nat /\ TTL \in Nat /\ expiry' \in Nat
    <2>1. TypeOK'
      BY TypesStep
    <2> QED BY <2>1, AdminAssumption DEF TypeOK
  <1>5. StoresAgree' /\ expiry' >= expiry
    <2>1. CASE UnitStep
      BY <1>2, <1>3, <2>1, StoresStep
    <2>2. CASE UNCHANGED unitVars
      BY <1>3, <1>4, <2>2 DEF StoresAgree, unitVars
    <2>3. ASSUME NEW i \in DOMAIN calls, ToLogin(i) PROVE UNCHANGED unitVars
      BY <2>3 DEF ToLogin
    <2>4. CASE JobStep \/ PageMove \/ UNCHANGED vars
      <3>1. UNCHANGED unitVars
        BY <2>4, JobStepFrame, MovesTrace DEF vars
      <3> QED BY <2>2, <3>1
    <2> QED BY <2>1, <2>2, <2>3, <2>4, NextParts
  <1>6. ASSUME view' = "mailboxes", NEW k \in DOMAIN calls' PROVE Agrees(calls'[k])
    <2>1. view = "mailboxes" /\ (JobStep \/ UnitStep \/ PageMove \/ UNCHANGED vars)
      BY <1>6, ViewStays
    <2>2. ASSUME NEW m \in DOMAIN calls, NEW c, c.got = calls[m].got, c.stage \in {calls[m].stage, "guard"}
          PROVE  Agrees(c)
      <3>1. CallAgrees(calls[m]) /\ calls[m].got.beat \in Nat
        <4>1. calls[m].got.beat \in 0..MaxClock
          BY <2>1, GotIs DEF Got, GotSet
        <4> QED BY <1>3, <2>1, <4>1, AdminAssumption
      <3>2. c.stage = "second" \/ c.stage = "third" \/ c.stage = "ok" => c.stage = calls[m].stage
        BY <2>2
      <3> QED BY <1>4, <1>5, <2>2, <3>1, <3>2 DEF CallAgrees
    <2>3. CASE JobStep \/ UnitStep \/ UNCHANGED vars
      <3>1. calls' = calls
        BY <2>3, JobStepFrame, UnitStepFrame DEF pageVars, vars
      <3> QED BY <1>6, <2>2, <3>1
    <2>4. CASE PageMove
      <3>1. Traced /\ expiry' = expiry
        BY <2>1, <2>4, MovesTrace DEF unitVars
      <3>2. CASE Fresh(calls'[k])
        BY <3>2 DEF Fresh
      <3>3. ASSUME NEW m \in DOMAIN calls, Kept(calls'[k], m) PROVE Agrees(calls'[k])
        BY <2>2, <3>3 DEF Kept
      <3>4. ASSUME NEW m \in DOMAIN calls, NEW c, Turned(c, m) PROVE Agrees(c)
        <4>1. \/ Idle(c, m)
              \/ At(m, "first") /\ c.stage = "second" /\ c.got.beat = beat
              \/ At(m, "second") /\ c.stage = "third" /\ c.got.beat = Got(m).beat
              \/ /\ At(m, "third") /\ c.stage = "ok" /\ c.got.beat = Got(m).beat
                 /\ c.got.live = Live /\ c.got.at = clock
          BY <2>1, <3>4, MailboxReads
        <4>2. CallAgrees(calls[m])
          BY <1>3, <2>1
        <4>3. CASE Idle(c, m)
          BY <4>3 DEF Idle
        <4>4. CASE At(m, "first") /\ c.stage = "second" /\ c.got.beat = beat
          BY <1>3, <3>1, <4>4 DEF StoresAgree
        <4>5. CASE At(m, "second") /\ c.stage = "third" /\ c.got.beat = Got(m).beat
          BY <3>1, <4>2, <4>5 DEF CallAgrees, At, Got
        <4>6. CASE /\ At(m, "third") /\ c.stage = "ok" /\ c.got.beat = Got(m).beat
                   /\ c.got.live = Live /\ c.got.at = clock
          <5>1. c.got.beat # 0 => expiry >= c.got.beat + TTL
            BY <4>2, <4>6 DEF CallAgrees, At, Got
          <5>2. c.got.beat \in Nat
            <6>1. Got(m).beat \in 0..MaxClock
              BY <2>1, GotIs DEF GotSet
            <6> QED BY <4>6, <6>1, AdminAssumption
          <5>3. ~c.got.live => expiry <= clock
            <6>1. ~c.got.live => ~Live
              BY <4>6, Zenon
            <6>2. ~Live => expiry <= clock
              BY <1>4 DEF Live
            <6> QED BY <6>1, <6>2
          <5>4. Silent(c.got)
            BY <1>4, <4>6, <5>1, <5>2, <5>3 DEF Silent
          <5> QED BY <4>6, <5>4
        <4> QED BY <4>1, <4>3, <4>4, <4>5, <4>6
      <3> QED BY <1>6, <3>1, <3>2, <3>3, <3>4 DEF Traced
    <2> QED BY <2>1, <2>3, <2>4
  <1> QED BY <1>5, <1>6

LEMMA OfflineStep ==
  ASSUME TypeOK, CacheOutlives, OfflineIsSilent, [Next]_vars
  PROVE  OfflineIsSilent'
  <1>1. faults' = faults
    BY FaultsStay
  <1>2. SUFFICES ASSUME view' = "mailboxes", Quiet, NEW k \in DOMAIN data'
                 PROVE  Silent(data'[k].got)
    BY <1>1 DEF OfflineIsSilent, Silent, Quiet
  <1>3. view = "mailboxes" /\ (JobStep \/ UnitStep \/ PageMove \/ UNCHANGED vars)
    BY <1>2, ViewStays
  <1>4. \A i \in DOMAIN data : Silent(data[i].got)
    BY <1>2, <1>3 DEF OfflineIsSilent, Silent, Quiet
  <1>5. \A i \in DOMAIN calls : At(i, "ok") => Silent(calls[i].got)
    BY <1>2, <1>3, CacheParts DEF CallAgrees, At
  <1>6. data' = data \/ \E i \in DOMAIN calls : At(i, "ok") /\ data' = <<calls[i]>>
    <2>1. CASE JobStep \/ UnitStep \/ UNCHANGED vars
      BY <2>1, JobStepFrame, UnitStepFrame DEF pageVars, vars
    <2> QED BY <1>3, <2>1, MovesShow
  <1>7. ASSUME NEW i \in DOMAIN calls, At(i, "ok"), data' = <<calls[i]>> PROVE Silent(data'[k].got)
    <2>1. data'[k] = calls[i]
      BY <1>2, <1>7
    <2> QED BY <1>5, <1>7, <2>1
  <1> QED BY <1>2, <1>4, <1>6, <1>7

----------------------------------------------------------------------------
(* jobs: a walk through the pages misses no job that was there.            *)

\* The first m rows after the step.
TopNext(m) == {order'[k] : k \in {l \in DOMAIN order' : l <= m}}

LEMMA OrderIs ==
  ASSUME TypeOK
  PROVE  /\ order \in Seq(Job) /\ Len(order) \in Nat /\ DOMAIN order = 1..Len(order)
         /\ ToSet(order) = {order[k] : k \in 1..Len(order)}
  BY LenProperties DEF TypeOK, ToSet

\* Rows only move down: one that was not among the first m does not come among them.
LEMMA RowsMoveDown ==
  ASSUME TypeOK, JobStep
  PROVE  /\ ToSet(order) \subseteq ToSet(order')
         /\ \A m \in Nat : TopNext(m) \cap ToSet(order) \subseteq Top(m)
  <1> DEFINE n == Len(order)
  <1>1. order \in Seq(Job) /\ n \in Nat /\ DOMAIN order = 1..n
    BY OrderIs
  <1>2. CASE order' = order
    BY <1>2 DEF TopNext, Top
  <1>3. ASSUME NEW j \in Job, InsertJob(j)
        PROVE  /\ ToSet(order) \subseteq ToSet(order')
               /\ \A m \in Nat : TopNext(m) \cap ToSet(order) \subseteq Top(m)
    <2>1. order' \in Seq(Job) /\ Len(order') = n + 1 /\ ~Contains(order, j)
      BY <1>3, InsertJobIs
    <2>2. PICK i \in 1..(n + 1) : \A k \in 1..(n + 1) : order'[k] =
              IF k < i THEN order[k] ELSE IF k = i THEN j ELSE order[k - 1]
      BY <1>3, InsertJobIs
    <2>3. DOMAIN order' = 1..(n + 1)
      BY <2>1, LenProperties
    <2>4. j \notin ToSet(order)
      BY <1>1, <2>1 DEF Contains, ToSet
    <2>5. ASSUME NEW k \in 1..n PROVE order[k] \in ToSet(order')
      <3>1. CASE k < i
        <4>1. k \in DOMAIN order' /\ order'[k] = order[k]
          BY <1>1, <2>2, <2>3, <3>1
        <4> QED BY <4>1 DEF ToSet
      <3>2. CASE k >= i
        <4>1. k + 1 \in DOMAIN order' /\ order'[k + 1] = order[k]
          BY <1>1, <2>2, <2>3, <3>2
        <4> QED BY <4>1 DEF ToSet
      <3> QED BY <1>1, <3>1, <3>2
    <2>6. ASSUME NEW m \in Nat, NEW k \in 1..(n + 1), k <= m, order'[k] \in ToSet(order)
          PROVE  order'[k] \in Top(m)
      <3>1. CASE k < i
        <4>1. k \in DOMAIN order /\ order'[k] = order[k]
          BY <1>1, <2>2, <3>1
        <4> QED BY <2>6, <4>1 DEF Top
      <3>2. CASE k > i
        <4>1. k - 1 \in DOMAIN order /\ order'[k] = order[k - 1] /\ k - 1 <= m
          BY <1>1, <2>2, <2>6, <3>2
        <4> QED BY <4>1 DEF Top
      <3>3. CASE k = i
        BY <1>1, <2>2, <2>4, <2>6, <3>3
      <3> QED BY <1>1, <3>1, <3>2, <3>3
    <2>7. ToSet(order) \subseteq ToSet(order')
      BY <1>1, <2>5 DEF ToSet
    <2>8. \A m \in Nat : TopNext(m) \cap ToSet(order) \subseteq Top(m)
      BY <2>3, <2>6 DEF TopNext
    <2> QED BY <2>7, <2>8
  <1>4. ASSUME NEW j \in Job, UpdateJobStatus(j) PROVE order' = order
    BY <1>4 DEF UpdateJobStatus
  <1>5. CASE Midnight
    BY <1>2, <1>5 DEF Midnight
  <1> QED BY <1>2, <1>3, <1>4, <1>5 DEF JobStep

LEMMA IntervalIs ==
  ASSUME NEW n \in Nat
  PROVE  Cardinality(1..n) = n
  <1>1. n \in Int /\ 1 \in Int /\ (1 > n => n = 0) /\ n - 1 + 1 = n
    OBVIOUS
  <1>2. Cardinality(1..n) = IF 1 > n THEN 0 ELSE n - 1 + 1
    BY <1>1, FS_Interval
  <1> QED BY <1>1, <1>2

\* The rows above the page and those on it are the rows down to its end.
LEMMA PageIsListed ==
  ASSUME TypeOK, NEW p \in Nat \ {0}
  PROVE  Top(p * PerPage) \subseteq Top(Offset(p)) \cup AdminListJobs("", p)
  <1> DEFINE o == Offset(p)
             e == p * PerPage
  <1>1. PerPage \in Nat \ {0} /\ Len(order) \in Nat /\ DOMAIN order = 1..Len(order)
    BY AdminAssumption, OrderIs
  <1>2. o \in Nat /\ e = o + PerPage
    BY <1>1 DEF Offset
  <1>3. Matching("") = 1..Len(order)
    BY <1>1 DEF Matching
  <1> HIDE DEF o, e
  <1>4. ASSUME NEW k \in 1..Len(order), k <= e, k > o
        PROVE  o <= Above("", k) /\ Above("", k) < o + PerPage
    <2>1. k - 1 \in Nat /\ k \in Nat
      BY <1>1
    <2>2. ASSUME NEW m PROVE m \in 1..Len(order) /\ m < k <=> m \in 1..(k - 1)
      BY <1>1
    <2>3. {m \in Matching("") : m < k} = 1..(k - 1)
      BY <1>3, <2>2
    <2>4. Above("", k) = k - 1
      BY <2>1, <2>3, IntervalIs DEF Above
    <2>5. o <= k - 1 /\ k - 1 < o + PerPage
      <3>1. PerPage \in Nat
        BY <1>1
      <3> QED BY <1>2, <1>4, <2>1, <3>1
    <2> QED BY <2>4, <2>5
  <1>5. ASSUME NEW k \in 1..Len(order), k <= e, k > o
        PROVE  order[k] \in AdminListJobs("", p)
    BY <1>3, <1>4, <1>5 DEF AdminListJobs, o
  <1>6. ASSUME NEW k \in 1..Len(order), k <= o PROVE order[k] \in Top(o)
    BY <1>1, <1>6 DEF Top
  <1>7. \A k \in 1..Len(order) : k <= o \/ k > o
    BY <1>1, <1>2
  <1>8. Top(e) \subseteq Top(o) \cup AdminListJobs("", p)
    <2> SUFFICES ASSUME NEW k \in 1..Len(order), k <= e
                 PROVE  order[k] \in Top(o) \cup AdminListJobs("", p)
      BY <1>1 DEF Top
    <2> QED BY <1>5, <1>6, <1>7
  <1> QED BY <1>8 DEF o, e

\* The number of all jobs is that of the rows, and no row is further down.
LEMMA CountIsAll ==
  ASSUME TypeOK, NEW m \in Nat
  PROVE  AdminCountJobs("") <= m => ToSet(order) \subseteq Top(m)
  <1> DEFINE n == Len(order)
  <1>1. n \in Nat /\ DOMAIN order = 1..n
    BY OrderIs
  <1>2. Matching("") = 1..n
    BY <1>1 DEF Matching
  <1>3. AdminCountJobs("") = n
    BY <1>1, <1>2, IntervalIs DEF AdminCountJobs
  <1> HIDE DEF n
  <1>4. n <= m => \A k \in 1..n : k <= m
    BY <1>1
  <1>5. n <= m => ToSet(order) \subseteq Top(m)
    BY <1>1, <1>4 DEF ToSet, Top
  <1> QED BY <1>3, <1>5

LEMMA TopGrows ==
  ASSUME NEW m \in Nat, NEW n \in Nat, m <= n, TypeOK
  PROVE  Top(m) \subseteq Top(n)
  <1>1. \A l \in DOMAIN order : l \in Nat
    BY OrderIs
  <1> QED BY <1>1 DEF Top

LEMMA NoRowsAbove ==
  ASSUME TypeOK
  PROVE  Top(0) = {} /\ Offset(1) = 0
  <1>1. PerPage \in Nat /\ \A l \in DOMAIN order : ~(l <= 0)
    BY OrderIs, AdminAssumption
  <1> QED BY <1>1 DEF Top, Offset

\* What a step of the page makes of the walk.
LEMMA MovesWalk ==
  ASSUME TypeOK, PageMove
  PROVE  \/ there' = there \/ there' = {}
         \/ view = "jobs" /\ \E i \in DOMAIN calls : there' = Got(i).all
  <1>1. CASE AskStep
    BY <1>1, AskStepIs DEF Ask
  <1>2. CASE Poll \/ Expire
    BY <1>2 DEF Poll, Expire, walkVars
  <1>3. ASSUME NEW i \in DOMAIN calls, Handler(i) PROVE there' = there
    BY <1>3, HandlerTraces DEF walkVars
  <1>4. ASSUME NEW i \in DOMAIN calls, SetData(i)
        PROVE  there' = there \/ (view = "jobs" /\ there' = Got(i).all)
    BY <1>4 DEF SetData
  <1>5. ASSUME NEW i \in DOMAIN calls, SetError(i) \/ AuthFetch(i) PROVE there' = there
    BY <1>5 DEF SetError, AuthFetch, walkVars
  <1> QED BY <1>1, <1>2, <1>3, <1>4, <1>5 DEF PageMove, Hook

LEMMA TableStep ==
  ASSUME TypeOK, InTheTable, [Next]_vars
  PROVE  InTheTable'
  <1>1. SUFFICES /\ there' \subseteq ToSet(order')
                 /\ view' = "jobs" => \A k \in DOMAIN calls' : calls'[k].got.all \subseteq ToSet(order')
    BY DEF InTheTable, Got, ToSet
  <1>2. /\ there \subseteq ToSet(order)
        /\ view = "jobs" => \A i \in DOMAIN calls : calls[i].got.all \subseteq ToSet(order)
    BY DEF InTheTable, Got
  <1>3. CASE JobStep
    <2>1. there' = there /\ calls' = calls /\ view' = view
      BY <1>3, JobStepFrame DEF pageVars, askVars, walkVars
    <2> QED BY <1>2, <1>3, <2>1, RowsMoveDown
  <1>4. CASE UnitStep \/ UNCHANGED vars
    <2>1. there' = there /\ calls' = calls /\ view' = view /\ order' = order
      BY <1>4, UnitStepFrame DEF pageVars, askVars, walkVars, jobVars, vars
    <2> QED BY <1>2, <2>1
  <1>5. CASE PageMove
    <2>1. order' = order /\ view' = view
      BY <1>5, MovesTrace DEF jobVars
    <2>2. there' \subseteq ToSet(order)
      BY <1>2, <1>5, MovesWalk DEF Got
    <2>3. ASSUME view = "jobs", NEW k \in DOMAIN calls' PROVE calls'[k].got.all \subseteq ToSet(order)
      <3>1. Traced
        BY <1>5, <2>3, MovesTrace
      <3>2. CASE Fresh(calls'[k])
        <4>1. calls'[k].got.all = {}
          BY <2>3, <3>2 DEF Fresh, Blank
        <4> QED BY <4>1
      <3>3. ASSUME NEW m \in DOMAIN calls, Kept(calls'[k], m) PROVE calls'[k].got.all \subseteq ToSet(order)
        BY <1>2, <2>3, <3>3 DEF Kept
      <3>4. ASSUME NEW m \in DOMAIN calls, NEW c, Turned(c, m) PROVE c.got.all \subseteq ToSet(order)
        <4>1. c.got.all \in {calls[m].got.all, ToSet(order), {}}
          BY <2>3, <3>4, JobsReads DEF Idle, Got
        <4> QED BY <1>2, <2>3, <4>1
      <3> QED BY <2>3, <3>1, <3>2, <3>3, <3>4 DEF Traced
    <2> QED BY <2>1, <2>2, <2>3
  <1>6. ASSUME NEW i \in DOMAIN calls, ToLogin(i)
        PROVE  there' = there /\ order' = order /\ view' # "jobs"
    BY <1>6 DEF ToLogin, walkVars, jobVars
  <1> QED BY <1>2, <1>3, <1>4, <1>5, <1>6, NextParts

\* The two conditions of a walk, with the values after the step.
PassedNext(some, known, p, n) ==
    some \cap TopNext(p * PerPage) \subseteq known /\ (n <= p * PerPage => some \subseteq known)
CallCovered(c) ==
    LET some  == IF page = 1 THEN c.got.all ELSE there
        known == IF page = 1 THEN c.got.rows ELSE seen \cup c.got.rows
    IN  /\ c.stage = "second" => some \cap Top(page * PerPage) \subseteq known
        /\ c.stage = "ok" => Passed(some, known, page, c.got.n)
CallCoveredNext(c) ==
    LET some  == IF page' = 1 THEN c.got.all ELSE there'
        known == IF page' = 1 THEN c.got.rows ELSE seen' \cup c.got.rows
    IN  /\ c.stage = "second" => some \cap TopNext(page' * PerPage) \subseteq known
        /\ c.stage = "ok" => PassedNext(some, known, page', c.got.n)
WalkNext ==
    /\ there' \cap TopNext(Offset(page')) \subseteq seen'
    /\ OnScreen' => PassedNext(there', seen', page', Shown')
    /\ \A k \in DOMAIN calls' : CallCoveredNext(calls'[k])

LEMMA WalkIs ==
  WalkIsCovered /\ ListsAreCovered <=>
    (Walking => /\ there \cap Top(Offset(page)) \subseteq seen
                /\ OnScreen => Passed(there, seen, page, Shown)
                /\ \A k \in DOMAIN calls : CallCovered(calls[k]))
  BY DEF WalkIsCovered, ListsAreCovered, CallCovered, Got, At

LEMMA WalkNextIs ==
  ASSUME Walking' => WalkNext
  PROVE  WalkIsCovered' /\ ListsAreCovered'
  <1>1. WalkIsCovered'
    <2>1. Walking' => /\ there' \cap Top(Offset(page))' \subseteq seen'
                      /\ OnScreen' => Passed(there, seen, page, Shown)'
      BY DEF WalkNext, PassedNext, Passed, Top, TopNext, Offset
    <2> QED BY <2>1 DEF WalkIsCovered
  <1>2. ListsAreCovered'
    BY DEF WalkNext, CallCoveredNext, ListsAreCovered, PassedNext, Passed, Top, TopNext, Got, At
  <1> QED BY <1>1, <1>2

LEMMA PageIs ==
  ASSUME TypeOK
  PROVE  /\ page \in Nat \ {0} /\ page * PerPage \in Nat /\ Offset(page) \in Nat
         /\ Offset(page) <= page * PerPage /\ Offset(page + 1) = page * PerPage
         /\ page # 1 => Offset(page - 1) \in Nat /\ Offset(page - 1) <= page * PerPage
  <1>1. PerPage \in Nat \ {0} /\ page \in Nat \ {0}
    BY AdminAssumption, FS_CardinalityType DEF TypeOK, PageNumbers
  <1> DEFINE o == Offset(page)
  <1>2. o \in Nat /\ page * PerPage = o + PerPage
    BY <1>1 DEF Offset
  <1>3. Offset(page + 1) = page * PerPage
    BY <1>1 DEF Offset
  <1>4. page # 1 => Offset(page - 1) \in Nat /\ o = Offset(page - 1) + PerPage
    BY <1>1 DEF Offset
  <1> HIDE DEF o
  <1>5. o <= page * PerPage /\ (page # 1 => Offset(page - 1) <= page * PerPage)
    BY <1>1, <1>2, <1>4
  <1> QED BY <1>1, <1>2, <1>3, <1>4, <1>5 DEF o

\* Jobs come in, or move: the rows that are there only move down.
LEMMA WalkJobStep ==
  ASSUME TypeOK, InTheTable, WalkIsCovered, ListsAreCovered, JobStep
  PROVE  WalkIsCovered' /\ ListsAreCovered'
  <1>1. /\ view' = view /\ filter' = filter /\ page' = page /\ patient' = patient
        /\ there' = there /\ seen' = seen /\ calls' = calls /\ data' = data
    BY JobStepFrame DEF pageVars, askVars, walkVars
  <1>2. SUFFICES ASSUME Walking PROVE WalkNext
    <2>1. Walking' <=> Walking
      BY <1>1 DEF Walking
    <2> QED BY <2>1, WalkNextIs
  <1>3. /\ there \cap Top(Offset(page)) \subseteq seen
        /\ OnScreen => Passed(there, seen, page, Shown)
        /\ \A k \in DOMAIN calls : CallCovered(calls[k])
    BY <1>2, WalkIs
  <1>4. OnScreen' = OnScreen /\ Shown' = Shown
    BY <1>1 DEF OnScreen, Shown
  <1>5. page * PerPage \in Nat /\ Offset(page) \in Nat
    BY PageIs
  <1>6. ASSUME NEW some \in SUBSET ToSet(order), NEW known, NEW m \in Nat, some \cap Top(m) \subseteq known
        PROVE  some \cap TopNext(m) \subseteq known
    <2>1. TopNext(m) \cap ToSet(order) \subseteq Top(m)
      BY RowsMoveDown
    <2> QED BY <1>6, <2>1
  <1>7. ASSUME NEW some \in SUBSET ToSet(order), NEW known, NEW n, Passed(some, known, page, n)
        PROVE  PassedNext(some, known, page, n)
    BY <1>5, <1>6, <1>7 DEF Passed, PassedNext
  <1>8. there \in SUBSET ToSet(order) /\ \A k \in DOMAIN calls : calls[k].got.all \in SUBSET ToSet(order)
    BY <1>2 DEF InTheTable, Walking, Got
  <1>9. ASSUME NEW k \in DOMAIN calls PROVE CallCoveredNext(calls[k])
    <2> DEFINE c == calls[k]
               some == IF page = 1 THEN c.got.all ELSE there
               known == IF page = 1 THEN c.got.rows ELSE seen \cup c.got.rows
    <2>1. /\ c.stage = "second" => some \cap Top(page * PerPage) \subseteq known
          /\ c.stage = "ok" => Passed(some, known, page, c.got.n)
      BY <1>3, <1>9 DEF CallCovered
    <2>2. some \in SUBSET ToSet(order)
      BY <1>8, <1>9
    <2> HIDE DEF some, known
    <2>3. /\ c.stage = "second" => some \cap TopNext(page * PerPage) \subseteq known
          /\ c.stage = "ok" => PassedNext(some, known, page, c.got.n)
      BY <1>5, <1>6, <1>7, <2>1, <2>2
    <2> QED BY <1>1, <2>3 DEF CallCoveredNext, some, known
  <1>10. there' \cap TopNext(Offset(page')) \subseteq seen'
    BY <1>1, <1>3, <1>5, <1>6, <1>8
  <1>11. OnScreen' => PassedNext(there', seen', page', Shown')
    BY <1>1, <1>3, <1>4, <1>7, <1>8
  <1> QED BY <1>1, <1>9, <1>10, <1>11 DEF WalkNext

LEMMA TopStays == order' = order => \A m : TopNext(m) = Top(m)
  BY DEF TopNext, Top

\* A step of the page other than a new question or an answer: only a handler's may
\* bring a call on, to the rows of the page or to the number of all.
LEMMA WalkTraced ==
  ASSUME TypeOK, LastIsAsked, InTheTable, WalkIsCovered, ListsAreCovered, view = "jobs", Traced,
         order' = order, view' = view, filter' = filter, page' = page, patient' = patient,
         there' = there, seen' = seen, data' = data
  PROVE  WalkIsCovered' /\ ListsAreCovered'
  <1>1. SUFFICES ASSUME Walking PROVE WalkNext
    <2>1. Walking' <=> Walking
      BY DEF Walking
    <2> QED BY <2>1, WalkNextIs
  <1>2. /\ there \cap Top(Offset(page)) \subseteq seen
        /\ OnScreen => Passed(there, seen, page, Shown)
        /\ \A k \in DOMAIN calls : CallCovered(calls[k])
    BY <1>1, WalkIs
  <1>3. OnScreen' = OnScreen /\ Shown' = Shown
    BY DEF OnScreen, Shown
  <1>4. \A m : TopNext(m) = Top(m)
    BY TopStays
  <1>5. there' \cap TopNext(Offset(page')) \subseteq seen'
    BY <1>2, <1>4
  <1>6. OnScreen' => PassedNext(there', seen', page', Shown')
    BY <1>2, <1>3, <1>4 DEF Passed, PassedNext
  <1>7. ASSUME NEW m \in DOMAIN calls, NEW c, c.got = calls[m].got, c.stage \in {calls[m].stage, "guard"}
        PROVE  CallCoveredNext(c)
    <2>1. CallCovered(calls[m])
      BY <1>2
    <2> QED BY <1>4, <1>7, <2>1 DEF CallCovered, CallCoveredNext, Passed, PassedNext
  <1>8. ASSUME NEW m \in DOMAIN calls, NEW c, Turned(c, m) PROVE CallCoveredNext(c)
    <2>1. calls[m].filter = "" /\ calls[m].page = page
      BY <1>1 DEF LastIsAsked, Walking
    <2>2. CASE Idle(c, m)
      BY <2>2 DEF Idle, CallCoveredNext
    <2>3. CASE /\ At(m, "first") /\ c.stage = "second"
               /\ c.got.rows = AdminListJobs(calls[m].filter, calls[m].page)
               /\ c.got.all = IF calls[m].page = 1 THEN ToSet(order) ELSE {}
      <3>1. Top(page * PerPage) \subseteq Top(Offset(page)) \cup c.got.rows
        BY <2>1, <2>3, PageIs, PageIsListed
      <3>2. page = 1 => Top(Offset(page)) = {}
        BY NoRowsAbove
      <3> QED BY <1>2, <1>4, <2>3, <3>1, <3>2 DEF CallCoveredNext
    <2>4. CASE /\ At(m, "second") /\ c.stage = "ok"
               /\ c.got.rows = Got(m).rows /\ c.got.all = Got(m).all
               /\ c.got.n = AdminCountJobs(calls[m].filter)
      <3> DEFINE some == IF page = 1 THEN c.got.all ELSE there
                 known == IF page = 1 THEN c.got.rows ELSE seen \cup c.got.rows
      <3>1. some \cap Top(page * PerPage) \subseteq known
        BY <1>2, <2>4 DEF CallCovered, At, Got
      <3>2. c.got.n <= page * PerPage => ToSet(order) \subseteq Top(page * PerPage)
        BY <2>1, <2>4, PageIs, CountIsAll
      <3>3. some \subseteq ToSet(order)
        BY <2>4 DEF InTheTable
      <3> HIDE DEF some, known
      <3>4. PassedNext(some, known, page, c.got.n)
        BY <1>4, <3>1, <3>2, <3>3 DEF PassedNext
      <3> QED BY <2>4, <3>4 DEF CallCoveredNext, some, known
    <2> QED BY <1>8, <2>2, <2>3, <2>4, JobsReads
  <1>9. ASSUME NEW k \in DOMAIN calls' PROVE CallCoveredNext(calls'[k])
    <2>1. CASE Fresh(calls'[k])
      BY <2>1 DEF Fresh, CallCoveredNext
    <2>2. ASSUME NEW m \in DOMAIN calls, Kept(calls'[k], m) PROVE CallCoveredNext(calls'[k])
      BY <1>7, <2>2 DEF Kept
    <2> QED BY <1>8, <1>9, <2>1, <2>2 DEF Traced
  <1> QED BY <1>5, <1>6, <1>9 DEF WalkNext

\* A new question: the first page starts a walk, the next one goes on with it.
LEMMA WalkAsks ==
  ASSUME TypeOK, WalkIsCovered, ListsAreCovered, AskStep
  PROVE  WalkIsCovered' /\ ListsAreCovered'
  <1>1. PICK f \in Filters, p \in PageNumbers :
          Ask(f, p) /\ (p = 1 \/ (f = filter /\ (p = page + 1 \/ (p = page - 1 /\ page # 1))))
    <2>1. PICK f \in Filters, p \in PageNumbers : Ask(f, p)
      BY AskStepIs
    <2>2. filter' = f /\ page' = p
      BY <2>1 DEF Ask
    <2>3. /\ NextPage => Ask(filter, page + 1)
          /\ PrevPage => Ask(filter, page - 1) /\ page # 1
          /\ \A x \in Filters : OnFilter(x) => Ask(x, 1)
      BY PageIs DEF NextPage, PrevPage, OnFilter
    <2>4. \/ page' = 1
          \/ filter' = filter /\ page' = page + 1
          \/ filter' = filter /\ page' = page - 1 /\ page # 1
      BY <2>3 DEF AskStep, Ask
    <2> QED BY <2>1, <2>2, <2>4
  <1>2. /\ view = "jobs" /\ view' = view /\ filter' = f /\ page' = p /\ order' = order /\ data' = data
        /\ calls' = Append(calls, Call(f, p))
        /\ patient' = (calls = <<>> /\ (p = 1 \/ (patient /\ OnScreen)))
        /\ there' = (IF patient' /\ p > 1 THEN there ELSE {})
        /\ seen' = (IF patient' /\ p > 1 THEN seen ELSE {})
    BY <1>1 DEF Ask, jobVars
  <1>3. SUFFICES ASSUME Walking' PROVE WalkNext
    BY WalkNextIs
  <1>4. f = "" /\ calls = <<>> /\ (p = 1 \/ (patient /\ OnScreen))
    BY <1>2, <1>3 DEF Walking
  <1>5. ASSUME NEW k \in DOMAIN calls' PROVE CallCoveredNext(calls'[k])
    <2>1. DOMAIN calls' = {1} /\ Len(calls') = 1 /\ Fresh(calls'[Len(calls')])
      BY <1>2, <1>4, AppendTraces
    <2>2. calls'[k].stage = "guard"
      BY <1>5, <2>1 DEF Fresh
    <2> QED BY <2>2 DEF CallCoveredNext
  <1>6. CASE p = 1
    <2>1. there' = {}
      BY <1>2, <1>6
    <2> QED BY <1>5, <2>1 DEF WalkNext, PassedNext
  <1>7. CASE p # 1
    <2>1. /\ f = filter /\ (p = page + 1 \/ (p = page - 1 /\ page # 1))
          /\ patient /\ OnScreen
      BY <1>1, <1>4, <1>7
    <2>2. there' \subseteq there /\ (there' = {} \/ seen' = seen)
      BY <1>2
    <2>3. there \cap Top(page * PerPage) \subseteq seen
      BY <1>2, <1>4, <2>1, WalkIs DEF Walking, Passed
    <2>4. Top(Offset(p)) \subseteq Top(page * PerPage)
      <3>1. Offset(p) \in Nat /\ page * PerPage \in Nat /\ Offset(p) <= page * PerPage
        BY <2>1, PageIs
      <3> QED BY <3>1, TopGrows
    <2>5. ~OnScreen'
      <3>1. data[1].page = page /\ page # p
        BY <2>1, PageIs DEF OnScreen
      <3> QED BY <1>2, <3>1 DEF OnScreen
    <2>6. there' \cap TopNext(Offset(page')) \subseteq seen'
      BY <1>2, <2>2, <2>3, <2>4, TopStays
    <2> QED BY <1>5, <2>5, <2>6 DEF WalkNext
  <1> QED BY <1>6, <1>7

\* An answer comes on screen: what it listed is seen.
LEMMA WalkShows ==
  ASSUME TypeOK, LastIsAsked, WalkIsCovered, ListsAreCovered,
         NEW i \in DOMAIN calls, SetData(i), view = "jobs"
  PROVE  WalkIsCovered' /\ ListsAreCovered'
  <1>1. /\ view' = view /\ filter' = filter /\ page' = page /\ patient' = patient /\ order' = order
        /\ data' = <<calls[i]>> /\ calls' = RemoveAt(calls, i) /\ At(i, "ok")
    BY DEF SetData, askVars, jobVars
  <1>2. SUFFICES ASSUME Walking PROVE WalkNext
    <2>1. Walking' <=> Walking
      BY <1>1 DEF Walking
    <2> QED BY <2>1, WalkNextIs
  <1>3. /\ there \cap Top(Offset(page)) \subseteq seen
        /\ \A k \in DOMAIN calls : CallCovered(calls[k])
    BY <1>2, WalkIs
  <1>4. calls[i].filter = filter /\ calls[i].page = page
    BY <1>2 DEF LastIsAsked, Walking
  <1>5. /\ there' = (IF page = 1 THEN calls[i].got.all ELSE there)
        /\ seen' = (IF page = 1 THEN {} ELSE seen) \cup calls[i].got.rows
    BY <1>2, <1>4 DEF SetData, Walking, Got
  <1>6. \A m : TopNext(m) = Top(m)
    BY <1>1, TopStays
  <1>7. there' \cap TopNext(Offset(page')) \subseteq seen'
    <2>1. page = 1 => Top(Offset(page)) = {}
      BY NoRowsAbove
    <2> QED BY <1>1, <1>3, <1>5, <1>6, <2>1
  <1>8. PassedNext(there', seen', page', Shown')
    <2>1. Shown' = calls[i].got.n
      BY <1>1 DEF Shown
    <2>2. CallCovered(calls[i]) /\ calls[i].stage = "ok"
      BY <1>1, <1>3 DEF At
    <2>3. Passed(there', seen', page, calls[i].got.n)
      BY <1>5, <2>2 DEF CallCovered, Passed
    <2> QED BY <1>1, <1>6, <2>1, <2>3 DEF Passed, PassedNext
  <1>9. ASSUME NEW k \in DOMAIN calls' PROVE CallCoveredNext(calls'[k])
    <2>1. PICK m \in DOMAIN calls : calls'[k] = calls[m]
      BY <1>1, <1>9, RemovalTraces
    <2>2. CallCovered(calls[m])
      BY <1>3
    <2>3. CASE page = 1
      BY <1>1, <1>6, <2>1, <2>2, <2>3 DEF CallCovered, CallCoveredNext, Passed, PassedNext
    <2>4. CASE page # 1
      <3>1. there' = there /\ seen \subseteq seen'
        BY <1>5, <2>4
      <3> QED BY <1>1, <1>6, <2>1, <2>2, <2>4, <3>1 DEF CallCovered, CallCoveredNext, Passed, PassedNext
    <2> QED BY <2>3, <2>4
  <1> QED BY <1>7, <1>8, <1>9 DEF WalkNext

LEMMA WalkStep ==
  ASSUME TypeOK, LastIsAsked, InTheTable, WalkIsCovered, ListsAreCovered, [Next]_vars
  PROVE  WalkIsCovered' /\ ListsAreCovered'
  <1>1. CASE view' # "jobs"
    BY <1>1 DEF WalkIsCovered, ListsAreCovered, Walking
  <1>2. CASE view' = "jobs"
    <2>1. view = "jobs" /\ (JobStep \/ UnitStep \/ PageMove \/ UNCHANGED vars)
      BY <1>2, ViewStays
    <2>2. CASE JobStep
      BY <2>2, WalkJobStep
    <2>3. CASE UnitStep \/ UNCHANGED vars
      <3>1. /\ view' = view /\ filter' = filter /\ page' = page /\ patient' = patient /\ order' = order
            /\ there' = there /\ seen' = seen /\ calls' = calls /\ data' = data
        BY <2>3, UnitStepFrame DEF pageVars, askVars, walkVars, jobVars, vars
      <3>2. Traced
        BY <3>1 DEF Traced, Kept
      <3> QED BY <2>1, <3>1, <3>2, WalkTraced
    <2>4. CASE PageMove
      <3>1. /\ Traced /\ view' = view /\ order' = order
        BY <2>1, <2>4, MovesTrace DEF jobVars
      <3>2. CASE AskStep
        BY <3>2, WalkAsks
      <3>3. ASSUME NEW i \in DOMAIN calls, SetData(i) PROVE WalkIsCovered' /\ ListsAreCovered'
        BY <2>1, <3>3, WalkShows
      <3>4. CASE /\ filter' = filter /\ page' = page /\ patient' = patient
                 /\ there' = there /\ seen' = seen /\ data' = data
        BY <2>1, <3>1, <3>4, WalkTraced
      <3>5. ~Poll
        BY <2>1 DEF Poll
      <3>6. CASE Expire \/ \E i \in DOMAIN calls : Handler(i)
        BY <3>4, <3>6, UnmovedIs DEF askVars, walkVars
      <3>7. ASSUME NEW i \in DOMAIN calls, SetError(i) \/ AuthFetch(i)
            PROVE  WalkIsCovered' /\ ListsAreCovered'
        BY <3>4, <3>7 DEF SetError, AuthFetch, askVars, walkVars
      <3> QED BY <2>4, <3>2, <3>3, <3>5, <3>6, <3>7 DEF PageMove, Hook
    <2> QED BY <2>1, <2>2, <2>3, <2>4
  <1> QED BY <1>1, <1>2

----------------------------------------------------------------------------
(* The theorems.                                                           *)

LEMMA InitInv == Init => AdminInv
  <1> SUFFICES ASSUME Init PROVE AdminInv
    OBVIOUS
  <1>1. /\ calls = <<Call("", 1)>> /\ data = <<>> /\ order = <<>> /\ filter = "" /\ page = 1
        /\ there = {} /\ seen = {} /\ clock = 1 /\ frame = "none" /\ expiry = 0 /\ beat = 0
    BY DEF Init
  <1>2. /\ Len(calls) = 1 /\ DOMAIN calls = {1} /\ DOMAIN data = {} /\ calls # <<>>
        /\ calls[1].filter = "" /\ calls[1].page = 1 /\ calls[1].stage = "guard"
        /\ calls[1].got = Blank[view]
    <2> DEFINE c == Call("", 1)
    <2>1. c.filter = "" /\ c.page = 1 /\ c.stage = "guard" /\ c.got = Blank[view]
      BY DEF Call
    <2> HIDE DEF c
    <2>2. calls = <<c>>
      BY <1>1 DEF c
    <2>3. Len(calls) = 1 /\ DOMAIN calls = {1} /\ calls # <<>> /\ calls[1] = c
      BY <2>2
    <2>4. DOMAIN data = {}
      <3>1. data = <<>>
        BY <1>1
      <3> QED BY ONLY <3>1
    <2> QED BY <2>1, <2>3, <2>4
  <1>3. LastIsAsked
    BY <1>1, <1>2 DEF LastIsAsked
  <1>4. WalkIsCovered /\ ListsAreCovered
    BY <1>1, <1>2 DEF WalkIsCovered, ListsAreCovered, OnScreen, At
  <1>5. InTheTable
    <2>1. view = "jobs" => Got(1).all = {}
      <3>1. Blank["jobs"].all = {}
        BY DEF Blank
      <3> QED BY <1>2, <3>1 DEF Got
    <2> QED BY <1>1, <1>2, <2>1 DEF InTheTable
  <1>6. CountsAreCovered
    <2>1. view = "overview" => Got(1).counts = [j \in Job |-> "none"]
      <3>1. Blank["overview"].counts = [j \in Job |-> "none"]
        BY DEF Blank
      <3> QED BY <1>2, <3>1 DEF Got
    <2>2. view = "overview" => CountsStand(Got(1))
      BY <2>1 DEF CountsStand
    <2>3. ~At(1, "ok")
      BY <1>2 DEF At
    <2> QED BY <1>2, <2>2, <2>3 DEF CountsAreCovered
  <1>7. CacheOutlives
    <2>1. ~At(1, "second") /\ ~At(1, "third") /\ ~At(1, "ok")
      BY <1>2 DEF At
    <2>2. expiry <= clock + TTL /\ frame # "mirror" /\ beat = 0
      <3>1. TTL \in Nat
        BY AdminAssumption
      <3>2. clock = 1 /\ frame = "none" /\ expiry = 0 /\ beat = 0
        BY <1>1
      <3> QED BY ONLY <3>1, <3>2
    <2> QED BY <1>2, <2>1, <2>2 DEF CacheOutlives
  <1>8. ShowsWhatIsAsked /\ OfflineIsSilent
    BY <1>2 DEF ShowsWhatIsAsked, OfflineIsSilent
  <1> QED BY <1>3, <1>4, <1>5, <1>6, <1>7, <1>8 DEF AdminInv

LEMMA InvStep == TypeOK /\ AdminInv /\ [Next]_vars => AdminInv'
  <1> SUFFICES ASSUME TypeOK, AdminInv, [Next]_vars PROVE AdminInv'
    OBVIOUS
  <1>1. /\ LastIsAsked /\ WalkIsCovered /\ ListsAreCovered /\ InTheTable
        /\ CountsAreCovered /\ CacheOutlives /\ ShowsWhatIsAsked /\ OfflineIsSilent
    BY DEF AdminInv
  <1>2. LastIsAsked' /\ ShowsWhatIsAsked'
    BY <1>1, AskedStep, ShowsStep
  <1>3. WalkIsCovered' /\ ListsAreCovered' /\ InTheTable'
    BY <1>1, WalkStep, TableStep
  <1>4. CountsAreCovered'
    BY <1>1, CountsStep
  <1>5. CacheOutlives' /\ OfflineIsSilent'
    BY <1>1, CacheStep, OfflineStep
  <1> QED BY <1>2, <1>3, <1>4, <1>5 DEF AdminInv

\* The inductive invariant holds throughout.
THEOREM DashboardInvariant == Spec => [](TypeOK /\ AdminInv)
  <1>1. Init => TypeOK /\ AdminInv
    BY InitTypes, InitInv
  <1>2. TypeOK /\ AdminInv /\ [Next]_vars => TypeOK' /\ AdminInv'
    BY TypesStep, InvStep
  <1> QED BY <1>1, <1>2, PTL DEF Spec

\* A walk through all pages shows every job that was there when it began, and the
\* overview's tiles every job that was counted: AdminJobs, AdminSummary and the
\* hook read without a transaction, in an order in which nothing is lost.
THEOREM LeavesNothingOut == Spec => []NothingMissed
  <1>1. TypeOK /\ AdminInv => PagesMissNone
    <2> SUFFICES ASSUME TypeOK, AdminInv, Walked PROVE there \subseteq seen
      BY DEF PagesMissNone
    <2>1. Walking /\ OnScreen /\ view = "jobs" /\ page >= TotalPages(Shown)
      BY DEF Walked, Walking
    <2>2. Passed(there, seen, page, Shown)
      BY <2>1 DEF AdminInv, WalkIsCovered
    <2>3. Shown \in Nat
      <3>1. data # <<>> /\ data \in Seq(CallSet) /\ Len(data) \in Nat /\ \A k \in 1..Len(data) : data[k] \in CallSet
        BY <2>1, OpenTypes DEF OnScreen
      <3>2. 1 \in 1..Len(data)
        BY <3>1, EmptySeq
      <3>3. data[1].got \in GotSet
        BY <3>1, <3>2, CallFields
      <3>4. data[1].got.n \in 0..Cardinality(Job)
        BY <2>1, <3>3 DEF GotSet
      <3> QED BY <3>1, <3>4, AdminAssumption, FS_CardinalityType DEF Shown
    <2>4. Shown <= page * PerPage
      BY <2>1, <2>3, PageIs, PagerIs
    <2> QED BY <2>2, <2>4 DEF Passed
  <1>2. TypeOK /\ AdminInv => TilesMissNone
    <2> SUFFICES ASSUME TypeOK, AdminInv, view = "overview", "twice" \notin faults, data # <<>>
                 PROVE  Tiled(data[1].got)
      BY DEF TilesMissNone, Tiled
    <2>1. data \in Seq(CallSet) /\ Len(data) \in Nat /\ DOMAIN data = 1..Len(data)
      BY OpenTypes
    <2>2. 1 \in DOMAIN data
      BY <2>1, EmptySeq
    <2> QED BY <2>2 DEF AdminInv, CountsAreCovered
  <1> QED BY <1>1, <1>2, DashboardInvariant, PTL DEF NothingMissed

\* With answers in the order of their calls, a page that waits for nothing shows what
\* its filter and page number ask for, or says that it could not be had.
THEOREM ShowsWhatItSays == Spec => []ShowsWhatIsAsked
  <1>1. AdminInv => ShowsWhatIsAsked
    BY DEF AdminInv
  <1> QED BY <1>1, DashboardInvariant, PTL

\* A unit that AdminMailboxes shows as offline has not been heard of for the lifetime
\* of its cached state, although the two are in different stores.
THEOREM OfflineUnitsAreSilent == Spec => []OfflineIsSilent
  <1>1. AdminInv => OfflineIsSilent
    BY DEF AdminInv
  <1> QED BY <1>1, DashboardInvariant, PTL
=============================================================================
