------------------------- MODULE PrinterLinkProofs -------------------------
(***************************************************************************)
(* Theorems about PrinterLink, for every set of nodes and jobs, every      *)
(* number of connections and every environment: the types, that the live   *)
(* socket is registered, that the cache is never ahead of the slot, and    *)
(* that the link keeps the contract dispatch relies on.                    *)
(***************************************************************************)
EXTENDS PrinterLink, SequenceTheorems, FiniteSetTheorems, TLAPS

\* A handler that has registered and not seeded the cache has its register frame.
FrameToRead == \A k \in Conn : hub[k] \in {"added", "subscribed"} => wire[k] # <<>>

\* What TypeOK says of the control, without what the frames and counts carry.
ControlOK ==
    /\ faults \in Environments
    /\ opened \in 0..MaxConns /\ cur \in 0..MaxConns
    /\ at \in [Conn -> Node] /\ hub \in [Conn -> HubStage]
    /\ registry \in [Node -> 0..MaxConns] /\ subs \subseteq Conn
    /\ job \in [Job -> JobStage] /\ via \in [Job -> 0..MaxConns] /\ filled \in Nat

\* Wherever an occupancy is kept, it is one of S.
CarriesOnly(S) ==
    /\ occ \in S /\ kept \subseteq S /\ cache \subseteq S
    /\ wire \in [Conn -> Seq(S)] /\ count \in [Job -> S]

\* No step changes what may go wrong.
LEMMA FaultsStay == ASSUME [Next]_vars PROVE faults' = faults
<1> USE DEF printerVars, cloudVars, jobVars
<1>1. ASSUME Dial \/ Break \/ Restart \/ Keepalive \/ KeepaliveSend \/ Expire PROVE faults' = faults
  BY <1>1 DEF Dial, Break, Restart, Disconnect, Keepalive, KeepaliveSend, Expire
<1>2. ASSUME NEW k \in Conn, Accept(k) PROVE faults' = faults
  BY <1>2 DEF Accept, Register, Subscribe, Seed, ReadState, ReadError, Unsubscribe, Deregister
<1>3. ASSUME NEW n \in Node, Crash(n) PROVE faults' = faults
  BY <1>3 DEF Crash
<1>4. ASSUME NEW j \in Job, Eligible(j) \/ Publish(j) \/ Work(j) PROVE faults' = faults
  BY <1>4 DEF Eligible, Publish, Work, PrintDocument, RecordDelivery, SendState
<1>5. QED
  BY <1>1, <1>2, <1>3, <1>4 DEF Next, vars

\* The control keeps its type.
LEMMA ControlStep == ASSUME ControlOK, [Next]_vars PROVE ControlOK'
<1> USE LinkAssumption DEF ControlOK, printerVars, cloudVars, jobVars, Conn, HubStage, JobStage, Goto
<1>1. ASSUME Dial PROVE ControlOK'
  BY <1>1 DEF Dial
<1>2. ASSUME Break PROVE ControlOK'
  BY <1>2 DEF Break, Disconnect
<1>3. ASSUME Restart PROVE ControlOK'
  <2>1. job' \in [Job -> JobStage]
    BY <1>3 DEF Restart
  <2>2. CASE Disconnect
    BY <1>3, <2>1, <2>2 DEF Restart, Disconnect
  <2>3. CASE ~Disconnect
    BY <1>3, <2>1, <2>3 DEF Restart
  <2>4. QED
    BY <2>2, <2>3
<1>4. ASSUME Keepalive \/ KeepaliveSend \/ Expire PROVE ControlOK'
  BY <1>4 DEF Keepalive, KeepaliveSend, Expire
<1>5. ASSUME NEW k \in Conn, Register(k) PROVE ControlOK'
  BY <1>5 DEF Register
<1>6. ASSUME NEW k \in Conn, Subscribe(k) PROVE ControlOK'
  BY <1>6 DEF Subscribe
<1>7. ASSUME NEW k \in Conn, Seed(k) \/ ReadState(k) \/ ReadError(k) \/ Unsubscribe(k) PROVE ControlOK'
  BY <1>7 DEF Seed, ReadState, ReadError, Unsubscribe
<1>8. ASSUME NEW k \in Conn, Deregister(k) PROVE ControlOK'
  BY <1>8 DEF Deregister, Remove
<1>9. ASSUME NEW n \in Node, Crash(n) PROVE ControlOK'
  <2>1. /\ hub' = [k \in Conn |-> IF at[k] = n /\ hub[k] # "none" THEN "gone" ELSE hub[k]]
        /\ cur' \in {0, cur} /\ subs' \subseteq subs
    BY <1>9 DEF Crash
  <2>2. registry' \in [Node -> 0..MaxConns]
    BY <1>9 DEF Crash
  <2>3. QED
    BY <1>9, <2>1, <2>2 DEF Crash
<1>10. ASSUME NEW j \in Job, Eligible(j) \/ Publish(j) PROVE ControlOK'
  BY <1>10 DEF Eligible, Publish
<1>11. ASSUME NEW j \in Job, Work(j) PROVE ControlOK'
  <2>1. CASE PrintDocument(j)
    <3>1. filled' \in Nat
      BY <2>1 DEF PrintDocument
    <3>2. job' = [job EXCEPT ![j] = "printed"] \/ job' = [job EXCEPT ![j] = "done"]
      BY <2>1 DEF PrintDocument
    <3>3. QED
      BY <2>1, <3>1, <3>2 DEF PrintDocument
  <2>2. CASE RecordDelivery(j)
    BY <2>2 DEF RecordDelivery
  <2>3. CASE SendState(j)
    BY <2>3 DEF SendState
  <2>4. QED
    BY <1>11, <2>1, <2>2, <2>3 DEF Work
<1>12. CASE UNCHANGED vars
  BY <1>12 DEF vars
<1>13. QED
  BY <1>1, <1>2, <1>3, <1>4, <1>5, <1>6, <1>7, <1>8, <1>9, <1>10, <1>11, <1>12 DEF Next, Accept

\* recordDelivery counts one more, up to the maximum; only a restart counts from zero.
LEMMA OccupancyStep ==
    ASSUME occ \in Occupancy, [Next]_vars
    PROVE  occ' \in Occupancy /\ ("restart" \notin faults => occ <= occ')
<1> USE LinkAssumption DEF Occupancy, printerVars, cloudVars, jobVars
<1>1. ASSUME Dial \/ Break \/ Restart \/ Keepalive \/ KeepaliveSend \/ Expire
      PROVE  occ' = occ \/ (occ' = 0 /\ "restart" \in faults)
  BY <1>1 DEF Dial, Break, Restart, Keepalive, KeepaliveSend, Expire
<1>2. ASSUME NEW k \in Conn, Accept(k) PROVE occ' = occ
  BY <1>2 DEF Accept, Register, Subscribe, Seed, ReadState, ReadError, Unsubscribe, Deregister
<1>3. ASSUME NEW n \in Node, Crash(n) PROVE occ' = occ
  BY <1>3 DEF Crash
<1>4. ASSUME NEW j \in Job, Eligible(j) \/ Publish(j) \/ PrintDocument(j) \/ SendState(j) PROVE occ' = occ
  BY <1>4 DEF Eligible, Publish, PrintDocument, SendState
<1>5. ASSUME NEW j \in Job, RecordDelivery(j) PROVE occ' \in Occupancy /\ occ <= occ'
  BY <1>5 DEF RecordDelivery
<1>6. QED
  BY <1>1, <1>2, <1>3, <1>4, <1>5 DEF Next, Work, vars

\* What has a length is not empty.
LEMMA LongIsNonempty == \A s : Len(s) > 0 => s # <<>>
  OBVIOUS

\* A frame of S behind frames of S.
LEMMA AppendFacts ==
    ASSUME NEW D, NEW S, NEW f \in [D -> Seq(S)]
    PROVE  \A k \in D, o \in S : Append(f[k], o) \in Seq(S) /\ Append(f[k], o) # <<>>
<1> TAKE k \in D, o \in S
<1>1. f[k] \in Seq(S)
  OBVIOUS
<1>2. QED
  BY <1>1, AppendProperties

\* Frames and counts only ever carry on what was there, or the slot's new count.
LEMMA CarryStep ==
    ASSUME ControlOK, FrameToRead, NEW S, CarriesOnly(S), [Next]_vars, occ' \in S
    PROVE  CarriesOnly(S)' /\ FrameToRead'
<1> USE LinkAssumption DEF ControlOK, CarriesOnly, FrameToRead, printerVars, cloudVars, jobVars,
                           Conn, HubStage, JobStage, Goto
<1> DEFINE Goal == CarriesOnly(S)' /\ FrameToRead'
<1>1. ASSUME Dial PROVE Goal
  <2>1. <<occ, occ>> \in Seq(S) /\ <<occ, occ>> # <<>>
    OBVIOUS
  <2>2. QED
    BY <1>1, <2>1 DEF Dial
<1>2. ASSUME Disconnect PROVE kept' \subseteq S /\ cache' \subseteq S /\ wire' \in [Conn -> Seq(S)] /\ FrameToRead'
  <2>1. cur \in Conn /\ wire[cur] \in Seq(S)
    BY <1>2 DEF Disconnect
  <2>2. PICK i \in (IF hub[cur] \in {"added", "subscribed"} THEN 1 ELSE 0)..Len(wire[cur]) :
          wire' = [wire EXCEPT ![cur] = SubSeq(@, 1, i)]
    BY <1>2 DEF Disconnect
  <2>3. i \in Int /\ \A n \in 1..i : wire[cur][n] \in S
    BY <2>1, <2>2
  <2>4. /\ SubSeq(wire[cur], 1, i) \in Seq(S)
        /\ hub[cur] \in {"added", "subscribed"} => Len(SubSeq(wire[cur], 1, i)) > 0
    BY <2>1, <2>2, <2>3, SubSeqProperties
  <2>5. wire' \in [Conn -> Seq(S)] /\ wire'[cur] = SubSeq(wire[cur], 1, i)
    BY <2>1, <2>2, <2>4
  <2>6. hub[cur] \in {"added", "subscribed"} => wire'[cur] # <<>>
    BY <2>4, <2>5, LongIsNonempty
  <2>7. \A k \in Conn : k # cur => wire'[k] = wire[k]
    BY <2>2
  <2>8. ASSUME NEW k \in Conn, hub'[k] \in {"added", "subscribed"} PROVE wire'[k] # <<>>
    <3>1. hub' = hub
      BY <1>2 DEF Disconnect
    <3>2. QED
      BY <2>6, <2>7, <2>8, <3>1
  <2>9. FrameToRead'
    BY <2>8
  <2>10. kept' \subseteq S /\ cache' \subseteq S
    BY <1>2 DEF Disconnect
  <2>11. QED
    BY <2>5, <2>9, <2>10
<1>3. ASSUME Break PROVE Goal
  BY <1>2, <1>3 DEF Break
<1>4. ASSUME Restart PROVE Goal
  BY <1>2, <1>4 DEF Restart
<1>5. ASSUME Keepalive \/ Expire PROVE Goal
  BY <1>5 DEF Keepalive, Expire
<1>6. ASSUME NEW k \in Conn, NEW o \in S, wire' = [wire EXCEPT ![k] = Append(@, o)], hub' = hub
      PROVE wire' \in [Conn -> Seq(S)] /\ FrameToRead'
  <2>1. Append(wire[k], o) \in Seq(S) /\ Append(wire[k], o) # <<>>
    BY AppendFacts
  <2>2. wire' \in [Conn -> Seq(S)] /\ wire'[k] # <<>> /\ \A l \in Conn : l # k => wire'[l] = wire[l]
    BY <1>6, <2>1
  <2>3. QED
    BY <1>6, <2>2
<1>7. ASSUME KeepaliveSend PROVE Goal
  <2>1. PICK o \in kept : wire' = [wire EXCEPT ![cur] = Append(@, o)]
    BY <1>7 DEF KeepaliveSend
  <2>2. CASE cur \in Conn
    BY <1>6, <1>7, <2>1, <2>2 DEF KeepaliveSend
  <2>3. CASE cur \notin Conn
    BY <1>7, <2>1, <2>3 DEF KeepaliveSend
  <2>4. QED
    BY <2>2, <2>3
<1>8. ASSUME NEW k \in Conn, Register(k) PROVE Goal
  BY <1>8 DEF Register
<1>9. ASSUME NEW k \in Conn, Subscribe(k) PROVE Goal
  BY <1>9 DEF Subscribe
<1>10. ASSUME NEW k \in Conn, Cached(k), wire[k] # <<>>
       PROVE cache' \subseteq S /\ wire' \in [Conn -> Seq(S)] /\ \A l \in Conn : l # k => wire'[l] = wire[l]
  <2>1. Head(wire[k]) \in S /\ Tail(wire[k]) \in Seq(S)
    BY <1>10, HeadTailProperties
  <2>2. QED
    BY <1>10, <2>1 DEF Cached
<1>11. ASSUME NEW k \in Conn, Seed(k) PROVE Goal
  BY <1>10, <1>11 DEF Seed
<1>12. ASSUME NEW k \in Conn, ReadState(k) PROVE Goal
  BY <1>10, <1>12 DEF ReadState
<1>13. ASSUME NEW k \in Conn, ReadError(k) \/ Unsubscribe(k) PROVE Goal
  BY <1>13 DEF ReadError, Unsubscribe
<1>14. ASSUME NEW k \in Conn, Deregister(k) PROVE Goal
  BY <1>14 DEF Deregister
<1>15. ASSUME NEW n \in Node, Crash(n) PROVE Goal
  BY <1>15 DEF Crash
<1>16. ASSUME NEW j \in Job, Eligible(j) \/ Publish(j) \/ PrintDocument(j) PROVE Goal
  BY <1>16 DEF Eligible, Publish, PrintDocument
<1>17. ASSUME NEW j \in Job, RecordDelivery(j) PROVE Goal
  BY <1>17 DEF RecordDelivery
<1>18. ASSUME NEW j \in Job, SendState(j) PROVE Goal
  <2>1. CASE wire' = wire
    BY <1>18, <2>1 DEF SendState
  <2>2. CASE cur \in Conn /\ wire' = [wire EXCEPT ![cur] = Append(@, count[j])]
    BY <1>6, <1>18, <2>2 DEF SendState
  <2>3. QED
    BY <1>18, <2>1, <2>2 DEF SendState
<1>19. CASE UNCHANGED vars
  BY <1>19 DEF vars
<1>20. QED
  BY <1>1, <1>3, <1>4, <1>5, <1>7, <1>8, <1>9, <1>11, <1>12, <1>13, <1>14, <1>15, <1>16, <1>17,
     <1>18, <1>19 DEF Next, Accept, Work

\* The types, in the parts the proofs use.
LEMMA LinkTypes == Spec => [](TypeOK /\ ControlOK /\ CarriesOnly(Occupancy) /\ FrameToRead)
<1> DEFINE Inv == ControlOK /\ CarriesOnly(Occupancy) /\ FrameToRead
<1>1. Inv => TypeOK
  BY DEF TypeOK, ControlOK, CarriesOnly
<1>2. Init => Inv
  <2> SUFFICES ASSUME Init PROVE Inv
    OBVIOUS
  <2>1. 0 \in Occupancy /\ 0 \in 0..MaxConns
    BY LinkAssumption DEF Occupancy
  <2>2. <<>> \in Seq(Occupancy)
    OBVIOUS
  <2>3. QED
    BY <2>1, <2>2 DEF Init, ControlOK, CarriesOnly, FrameToRead, HubStage, JobStage
<1>3. Inv /\ [Next]_vars => Inv'
  <2> SUFFICES ASSUME Inv, [Next]_vars PROVE Inv'
    OBVIOUS
  <2>1. occ' \in Occupancy
    BY OccupancyStep DEF CarriesOnly
  <2>2. Occupancy' = Occupancy
    BY DEF Occupancy
  <2>3. QED
    BY <2>1, <2>2, ControlStep, CarryStep
<1>4. QED
  BY <1>1, <1>2, <1>3, PTL DEF Spec

\* Every variable keeps its type, whatever fails, breaks or is read late.
THEOREM TypeCorrect == Spec => []TypeOK
  BY LinkTypes, PTL

----------------------------------------------------------------------------
\* The Registry holds the live socket, as long as no handler reads its register
\* frame late: Remove only takes the handler's own entry.
THEOREM LiveStaysRegistered == Spec => []LiveIsRegistered
<1>1. Init => LiveIsRegistered
  BY DEF Init, LiveIsRegistered
<1>2. ControlOK /\ LiveIsRegistered /\ [Next]_vars => LiveIsRegistered'
  <2> SUFFICES ASSUME ControlOK, LiveIsRegistered, [Next]_vars, "late" \notin faults
               PROVE  LiveIsRegistered'
    BY FaultsStay DEF LiveIsRegistered
  <2> USE LinkAssumption DEF ControlOK, LiveIsRegistered, printerVars, cloudVars, jobVars, Conn, Goto
  <2>1. ASSUME Dial PROVE LiveIsRegistered'
    BY <2>1 DEF Dial
  <2>2. ASSUME Break \/ Restart PROVE LiveIsRegistered'
    BY <2>2 DEF Break, Restart, Disconnect
  <2>3. ASSUME Keepalive \/ KeepaliveSend \/ Expire PROVE LiveIsRegistered'
    BY <2>3 DEF Keepalive, KeepaliveSend, Expire
  <2>4. ASSUME NEW k \in Conn, Register(k) PROVE LiveIsRegistered'
    BY <2>4 DEF Register
  <2>5. ASSUME NEW k \in Conn, Subscribe(k) PROVE LiveIsRegistered'
    BY <2>5 DEF Subscribe
  <2>6. ASSUME NEW k \in Conn, Seed(k) \/ ReadState(k) \/ ReadError(k) \/ Unsubscribe(k)
        PROVE  LiveIsRegistered'
    BY <2>6 DEF Seed, ReadState, ReadError, Unsubscribe
  <2>7. ASSUME NEW k \in Conn, Deregister(k) PROVE LiveIsRegistered'
    BY <2>7 DEF Deregister, Remove
  <2>8. ASSUME NEW n \in Node, Crash(n) PROVE LiveIsRegistered'
    <3>1. cur' # 0 => cur' = cur /\ (hub[cur] = "none" \/ at[cur] # n)
      BY <2>8 DEF Crash
    <3>2. /\ hub' = [k \in Conn |-> IF at[k] = n /\ hub[k] # "none" THEN "gone" ELSE hub[k]]
          /\ registry' = [registry EXCEPT ![n] = 0] /\ at' = at
      BY <2>8 DEF Crash
    <3>3. QED
      BY <3>1, <3>2
  <2>9. ASSUME NEW j \in Job, Eligible(j) \/ Publish(j) \/ Work(j) PROVE LiveIsRegistered'
    BY <2>9 DEF Eligible, Publish, Work, PrintDocument, RecordDelivery, SendState
  <2>10. CASE UNCHANGED vars
    BY <2>10 DEF vars
  <2>11. QED
    BY <2>1, <2>2, <2>3, <2>4, <2>5, <2>6, <2>7, <2>8, <2>9, <2>10 DEF Next, Accept
<1>3. QED
  BY <1>1, <1>2, LinkTypes, PTL DEF Spec

----------------------------------------------------------------------------
\* Pieces that are in the compartment and not counted yet.
Printed == {j \in Job : job[j] = "printed"}

\* The count, with the pieces still to be counted, is never more than the
\* compartment holds.
CountsPieces == IsFiniteSet(Printed) /\ occ + Cardinality(Printed) <= filled

\* The occupancies CacheNeverAhead admits.
Behind == {o \in Occupancy : o <= Counted /\ ("restart" \notin faults => o <= occ)}

\* recordDelivery takes a piece out of those to be counted when it counts it.
LEMMA CountStep ==
    ASSUME ControlOK, occ \in Occupancy, CountsPieces, [Next]_vars
    PROVE  CountsPieces' /\ filled <= filled'
<1> USE LinkAssumption DEF ControlOK, CountsPieces, Occupancy, printerVars, cloudVars, jobVars, JobStage
<1>0. Cardinality(Printed) \in Nat
  BY FS_CardinalityType
<1>1. ASSUME UNCHANGED <<occ, filled>>, Printed' = Printed PROVE CountsPieces' /\ filled <= filled'
  BY <1>1
<1>2. ASSUME Dial \/ Break \/ Keepalive \/ KeepaliveSend \/ Expire
      PROVE  UNCHANGED <<occ, filled>> /\ Printed' = Printed
  BY <1>2 DEF Dial, Break, Disconnect, Keepalive, KeepaliveSend, Expire, Printed
<1>3. ASSUME Restart PROVE CountsPieces' /\ filled <= filled'
  <2>1. occ' = 0 /\ filled' = filled
    BY <1>3 DEF Restart, Disconnect
  <2>2. Printed' = {}
    BY <1>3 DEF Restart, InHand, Printed
  <2>3. QED
    BY <2>1, <2>2, FS_EmptySet
<1>4. ASSUME NEW k \in Conn, Accept(k) PROVE UNCHANGED <<occ, filled>> /\ Printed' = Printed
  BY <1>4 DEF Accept, Register, Subscribe, Seed, ReadState, ReadError, Unsubscribe, Deregister, Printed
<1>5. ASSUME NEW n \in Node, Crash(n) PROVE UNCHANGED <<occ, filled>> /\ Printed' = Printed
  BY <1>5 DEF Crash, Printed
<1>6. ASSUME NEW j \in Job, Eligible(j) \/ Publish(j) \/ SendState(j)
      PROVE  UNCHANGED <<occ, filled>> /\ Printed' = Printed
  BY <1>6 DEF Eligible, Publish, SendState, Printed
<1>7. ASSUME NEW j \in Job, PrintDocument(j) PROVE CountsPieces' /\ filled <= filled'
  <2>1. CASE filled' = filled + 1 /\ job' = [job EXCEPT ![j] = "printed"]
    <3>1. j \notin Printed /\ Printed' = Printed \cup {j} /\ occ' = occ
      BY <1>7, <2>1 DEF PrintDocument, Printed
    <3>2. IsFiniteSet(Printed') /\ Cardinality(Printed') = Cardinality(Printed) + 1
      BY <3>1, FS_AddElement
    <3>3. QED
      BY <1>0, <2>1, <3>1, <3>2
  <2>2. CASE filled' = filled /\ job' = [job EXCEPT ![j] = "done"]
    BY <1>1, <1>7, <2>2 DEF PrintDocument, Printed
  <2>3. QED
    BY <1>7, <2>1, <2>2 DEF PrintDocument
<1>8. ASSUME NEW j \in Job, RecordDelivery(j) PROVE CountsPieces' /\ filled <= filled'
  <2>1. j \in Printed /\ Printed' = Printed \ {j} /\ occ' <= occ + 1 /\ occ' \in Nat /\ filled' = filled
    BY <1>8 DEF RecordDelivery, Printed
  <2>2. IsFiniteSet(Printed') /\ Cardinality(Printed') = Cardinality(Printed) - 1
    BY <2>1, FS_RemoveElement
  <2>3. QED
    BY <1>0, <2>1, <2>2
<1>9. ASSUME UNCHANGED vars PROVE UNCHANGED <<occ, filled>> /\ Printed' = Printed
  BY <1>9 DEF vars, Printed
<1>10. QED
  BY <1>1, <1>2, <1>3, <1>4, <1>5, <1>6, <1>7, <1>8, <1>9 DEF Next, Work

\* The cache errs on one side only: it is never ahead of the compartment, nor, unless
\* the printer restarts, of what its process has counted, whichever connection a
\* frame came over and however late it was sent or read.
THEOREM NeverAhead == Spec => []CacheNeverAhead
<1> DEFINE Inv == CountsPieces /\ CarriesOnly(Behind)
<1>1. Init => Inv
  <2> SUFFICES ASSUME Init PROVE Inv
    OBVIOUS
  <2>1. 0 \in Behind
    BY LinkAssumption DEF Init, Behind, Occupancy, Counted
  <2>2. Printed = {}
    BY DEF Init, Printed
  <2>3. CountsPieces
    BY <2>2, FS_EmptySet DEF Init, CountsPieces
  <2>4. QED
    BY <2>1, <2>3 DEF Init, CarriesOnly
<1>2. ControlOK /\ FrameToRead /\ occ \in Occupancy /\ Inv /\ [Next]_vars => Inv'
  <2> SUFFICES ASSUME ControlOK, FrameToRead, occ \in Occupancy, Inv, [Next]_vars PROVE Inv'
    OBVIOUS
  <2>1. CountsPieces' /\ filled <= filled' /\ filled' \in Nat
    BY CountStep, ControlStep DEF ControlOK
  <2>2. occ' \in Occupancy /\ ("restart" \notin faults => occ <= occ')
    BY OccupancyStep
  <2>3. Behind \subseteq Behind'
    BY <2>1, <2>2, FaultsStay, LinkAssumption DEF Behind, Occupancy, Counted, ControlOK
  <2>4. occ' \in Behind'
    <3>1. Cardinality(Printed') \in Nat
      BY <2>1, FS_CardinalityType DEF CountsPieces
    <3>2. QED
      BY <2>1, <2>2, <3>1, LinkAssumption DEF Behind, Occupancy, Counted, CountsPieces
  <2>5. PICK S : S = Behind'
    OBVIOUS
  <2>6. CarriesOnly(S)
    <3>1. Seq(Behind) \subseteq Seq(S)
      BY <2>3, <2>5, SeqMonotonic
    <3>2. QED
      BY <2>3, <2>5, <3>1 DEF CarriesOnly
  <2>7. CarriesOnly(S)'
    BY <2>4, <2>5, <2>6, CarryStep
  <2>8. QED
    BY <2>1, <2>5, <2>7 DEF CarriesOnly
<1>3. Inv => CacheNeverAhead
  BY DEF CarriesOnly, Behind, CacheNeverAhead
<1>4. CarriesOnly(Occupancy) => occ \in Occupancy
  BY DEF CarriesOnly
<1>5. QED
  BY <1>1, <1>2, <1>3, <1>4, LinkTypes, PTL DEF Spec

----------------------------------------------------------------------------
\* Connections can be lost.
Breaks == faults \cap {"link", "crash", "restart"} # {}

\* Whether the cached state leaves room in the slot.
Room == \E o \in cache : o < MaxSlot

\* A connection has a handler once it is dialled.
Dialled == \A k \in Conn : k > opened => hub[k] = "none"
LiveIsDialled == cur <= opened /\ (cur # 0 => hub[cur] # "none")

\* The subscribers are the handlers between SUBSCRIBE and its deferred end; only one
\* whose socket has gone is past its last read.
SubscribersServe ==
    \A k \in Conn : /\ hub[k] \in {"subscribed", "serving"} => k \in subs
                    /\ k \in subs => hub[k] \in {"subscribed", "serving", "ended"}
                    /\ k \in subs /\ hub[k] = "ended" => k # cur

\* Unless connections can be lost, every handler serves the live one.
HandlersAreLive ==
    ~Breaks => \A k \in Conn : hub[k] \in {"register", "added", "subscribed", "serving"} => k = cur

ChannelInv == Dialled /\ LiveIsDialled /\ SubscribersServe /\ HandlersAreLive

\* ChannelInv is inductive.
LEMMA ChannelStep == ASSUME ControlOK, ChannelInv, [Next]_vars PROVE ChannelInv'
<1> USE LinkAssumption DEF ControlOK, ChannelInv, Dialled, LiveIsDialled, SubscribersServe,
                           HandlersAreLive, printerVars, cloudVars, jobVars, Conn, HubStage, Goto
<1>0. Breaks' = Breaks
  BY FaultsStay DEF Breaks
<1>1. ASSUME Dial PROVE ChannelInv'
  BY <1>0, <1>1 DEF Dial
<1>2. ASSUME Break \/ Restart PROVE ChannelInv'
  <2>1. Breaks
    BY <1>2 DEF Break, Restart, Breaks
  <2>2. (cur' = 0 \/ cur' = cur) /\ UNCHANGED <<hub, subs, opened>>
    BY <1>2 DEF Break, Restart, Disconnect
  <2>3. QED
    BY <1>0, <2>1, <2>2
<1>3. ASSUME Keepalive \/ KeepaliveSend \/ Expire PROVE ChannelInv'
  BY <1>0, <1>3 DEF Keepalive, KeepaliveSend, Expire
<1>4. ASSUME NEW k \in Conn, Register(k) PROVE ChannelInv'
  <2>1. /\ hub[k] = "register" /\ k \notin subs
        /\ hub' = [hub EXCEPT ![k] = "added"] /\ UNCHANGED <<cur, opened, subs>>
    BY <1>4 DEF Register
  <2>2. QED
    BY <1>0, <2>1
<1>5. ASSUME NEW k \in Conn, Subscribe(k) PROVE ChannelInv'
  <2>1. hub[k] = "added" /\ k \notin subs /\ UNCHANGED <<cur, opened>>
    BY <1>5 DEF Subscribe
  <2>2. \/ subs' = subs \cup {k} /\ hub' = [hub EXCEPT ![k] = "subscribed"]
        \/ subs' = subs /\ hub' = [hub EXCEPT ![k] = "ended"]
    BY <1>5 DEF Subscribe
  <2>3. QED
    BY <1>0, <2>1, <2>2
<1>6. ASSUME NEW k \in Conn, Seed(k) PROVE ChannelInv'
  BY <1>0, <1>6 DEF Seed
<1>7. ASSUME NEW k \in Conn, ReadState(k) \/ ReadError(k) PROVE ChannelInv'
  <2>1. /\ hub' = hub \/ (k # cur /\ hub' \in {[hub EXCEPT ![k] = "gone"], [hub EXCEPT ![k] = "ended"]})
        /\ UNCHANGED <<cur, opened, subs>>
    BY <1>7 DEF ReadState, ReadError
  <2>2. QED
    BY <1>0, <1>7, <2>1 DEF ReadState, ReadError
<1>8. ASSUME NEW k \in Conn, Unsubscribe(k) PROVE ChannelInv'
  BY <1>0, <1>8 DEF Unsubscribe
<1>9. ASSUME NEW k \in Conn, Deregister(k) PROVE ChannelInv'
  <2>1. /\ hub[k] = "closing" /\ hub' = [hub EXCEPT ![k] = "gone"] /\ UNCHANGED <<opened, subs>>
        /\ cur' = (IF k = cur THEN 0 ELSE cur)
    BY <1>9 DEF Deregister
  <2>2. QED
    BY <1>0, <2>1
<1>10. ASSUME NEW n \in Node, Crash(n) PROVE ChannelInv'
  <2>1. Breaks
    BY <1>10 DEF Crash, Breaks
  <2>2. /\ hub' = [k \in Conn |-> IF at[k] = n /\ hub[k] # "none" THEN "gone" ELSE hub[k]]
        /\ subs' = subs \ {k \in Conn : at[k] = n /\ hub[k] # "none"}
        /\ cur' = 0 \/ (cur' = cur /\ (cur # 0 => at[cur] # n))
        /\ opened' = opened
    BY <1>10 DEF Crash
  <2>3. QED
    BY <1>0, <2>1, <2>2
<1>11. ASSUME NEW j \in Job, Eligible(j) \/ Publish(j) \/ Work(j) PROVE ChannelInv'
  BY <1>0, <1>11 DEF Eligible, Publish, Work, PrintDocument, RecordDelivery, SendState
<1>12. CASE UNCHANGED vars
  BY <1>0, <1>12 DEF vars
<1>13. QED
  BY <1>1, <1>2, <1>3, <1>4, <1>5, <1>6, <1>7, <1>8, <1>9, <1>10, <1>11, <1>12 DEF Next, Accept


\* The contract's steps, in terms of what its variables stand for here.
ChannelMove ==
    \/ Room' = Room /\ Listening' = Listening
    \/ Listening # "up" /\ Listening' = "up" /\ Room' = Room
    \/ Breaks /\ Listening = "down" /\ Listening' = "stale" /\ Room' = Room
    \/ Listening # "down" /\ Listening' = Listening
    \/ Room /\ ~Room' /\ Listening' = Listening
    \/ Breaks /\ Listening = "up" /\ Listening' \in {"down", "stale"} /\ Room' = Room
    \/ Listening = "stale" /\ Listening' = "down" /\ Room' = Room

LEMMA OneMailbox ==
    \A a, b : [[m \in {"mailbox"} |-> a] EXCEPT !["mailbox"] = b] = [m \in {"mailbox"} |-> b]
  OBVIOUS

LEMMA MoveIsChannelStep ==
    ASSUME ChannelMove, Breaks' = Breaks
    PROVE  [Channel!Next]_<<faults \cap {"link", "crash", "restart"} # {}, Channel!channelVars>>
<1>1. CASE Room' = Room /\ Listening' = Listening
  <2>1. Channel!channelVars' = Channel!channelVars
    BY <1>1 DEF Channel!channelVars, Room
  <2>2. QED
    BY <2>1 DEF Breaks
<1>2. ASSUME Listening # "up", Listening' = "up", Room' = Room PROVE Channel!Next
  <2>1. Channel!Becomes("mailbox", "up")
    BY <1>2, OneMailbox DEF Channel!Becomes, Room
  <2>2. Channel!Subscribe("mailbox")
    BY <1>2, <2>1 DEF Channel!Subscribe
  <2>3. QED
    BY <2>2 DEF Channel!Next, Breaks
<1>3. ASSUME Breaks, Listening = "down", Listening' = "stale", Room' = Room PROVE Channel!Next
  <2>1. Channel!Becomes("mailbox", "stale")
    BY <1>3, OneMailbox DEF Channel!Becomes, Room
  <2>2. Channel!SubscribeDead("mailbox")
    BY <1>3, <2>1 DEF Channel!SubscribeDead, Breaks
  <2>3. QED
    BY <2>2 DEF Channel!Next, Breaks
<1>4. ASSUME Listening # "down", Listening' = Listening PROVE Channel!Next
  <2>1. Channel!Cache("mailbox")
    <3>1. Room' \in BOOLEAN
      BY DEF Room
    <3>2. [m \in {"mailbox"} |-> Listening]' = [m \in {"mailbox"} |-> Listening]
      BY <1>4
    <3>3. [m \in {"mailbox"} |-> Room]' = [[m \in {"mailbox"} |-> Room] EXCEPT !["mailbox"] = Room']
      BY OneMailbox
    <3>4. QED
      BY <1>4, <3>1, <3>2, <3>3 DEF Channel!Cache, Room
  <2>2. QED
    BY <2>1 DEF Channel!Next, Breaks
<1>5. ASSUME Room, ~Room', Listening' = Listening PROVE Channel!Next
  <2>1. Channel!Expire("mailbox")
    <3>1. [m \in {"mailbox"} |-> Listening]' = [m \in {"mailbox"} |-> Listening]
      BY <1>5
    <3>2. Room' = FALSE
      BY <1>5 DEF Room
    <3>3. [m \in {"mailbox"} |-> Room]' = [[m \in {"mailbox"} |-> Room] EXCEPT !["mailbox"] = FALSE]
      BY <3>2, OneMailbox
    <3>4. QED
      BY <1>5, <3>1, <3>3 DEF Channel!Expire, Room
  <2>2. QED
    BY <2>1 DEF Channel!Next, Breaks
<1>6. ASSUME Breaks, Listening = "up", NEW l \in {"down", "stale"}, Listening' = l, Room' = Room
      PROVE  Channel!Next
  <2>1. Channel!Becomes("mailbox", l)
    BY <1>6, OneMailbox DEF Channel!Becomes, Room
  <2>2. Channel!Break("mailbox")
    BY <1>6, <2>1 DEF Channel!Break, Breaks
  <2>3. QED
    BY <2>2 DEF Channel!Next, Breaks
<1>7. ASSUME Listening = "stale", Listening' = "down", Room' = Room PROVE Channel!Next
  <2>1. Channel!Becomes("mailbox", "down")
    BY <1>7, OneMailbox DEF Channel!Becomes, Room
  <2>2. Channel!NoticeBreak("mailbox")
    BY <1>7, <2>1 DEF Channel!NoticeBreak
  <2>3. QED
    BY <2>2 DEF Channel!Next, Breaks
<1>8. QED
  BY <1>1, <1>2, <1>3, <1>4, <1>5, <1>6, <1>7 DEF ChannelMove

\* Every step of the link is one of the contract's, or none of its concern.
LEMMA LinkMoves == ASSUME ControlOK, ChannelInv, [Next]_vars PROVE ChannelMove
<1> USE LinkAssumption DEF ControlOK, ChannelInv, printerVars, cloudVars, jobVars, Conn, HubStage, Goto
<1>1. ASSUME Dial PROVE ChannelMove
  <2>0. opened < MaxConns /\ cur = 0 /\ cur' = opened + 1 /\ UNCHANGED <<subs, cache>>
    BY <1>1 DEF Dial
  <2>1. opened + 1 \notin subs
    <3>1. opened + 1 \in Conn /\ opened + 1 > opened
      BY <2>0
    <3>2. hub[opened + 1] = "none"
      BY <3>1 DEF Dialled
    <3>3. QED
      BY <3>1, <3>2 DEF SubscribersServe
  <2>2. Listening' = Listening /\ Room' = Room
    BY <2>0, <2>1 DEF Listening, Room
  <2>3. QED
    BY <2>2 DEF ChannelMove
<1>2. ASSUME Break \/ Restart PROVE ChannelMove
  <2>0. Breaks
    BY <1>2 DEF Break, Restart, Breaks
  <2>1. UNCHANGED <<subs, cache>> /\ cur' \in {0, cur}
    BY <1>2 DEF Break, Restart, Disconnect
  <2>2. Room' = Room
    BY <2>1 DEF Room
  <2>3. Listening' = Listening \/ (Listening = "up" /\ Listening' \in {"down", "stale"})
    BY <2>1 DEF Listening
  <2>4. QED
    BY <2>0, <2>2, <2>3 DEF ChannelMove
<1>3. ASSUME UNCHANGED <<subs, cache, cur>> PROVE ChannelMove
  BY <1>3 DEF ChannelMove, Listening, Room
<1>4. ASSUME Expire PROVE ChannelMove
  <2>1. cache' = {} /\ UNCHANGED <<subs, cur>>
    BY <1>4 DEF Expire
  <2>2. ~Room' /\ Listening' = Listening
    BY <2>1 DEF Room, Listening
  <2>3. Room' = Room \/ Room
    BY <2>2 DEF Room
  <2>4. QED
    BY <2>2, <2>3 DEF ChannelMove
<1>5. ASSUME NEW k \in Conn, Subscribe(k) PROVE ChannelMove
  <2>1. hub[k] = "added" /\ UNCHANGED <<cur, cache>> /\ subs' \in {subs, subs \cup {k}}
    BY <1>5 DEF Subscribe
  <2>2. Room' = Room
    BY <2>1 DEF Room
  <2>3. k # 0 /\ (k = cur \/ Breaks)
    BY <2>1 DEF HandlersAreLive
  <2>4. \/ Listening' = Listening
        \/ Listening # "up" /\ Listening' = "up"
        \/ Breaks /\ Listening = "down" /\ Listening' = "stale"
    BY <2>1, <2>3 DEF Listening
  <2>5. QED
    BY <2>2, <2>4 DEF ChannelMove
<1>6. ASSUME NEW k \in Conn, Seed(k) \/ ReadState(k) PROVE ChannelMove
  <2>1. k \in subs /\ UNCHANGED <<cur, subs>>
    BY <1>6 DEF Seed, ReadState, SubscribersServe
  <2>2. Listening # "down" /\ Listening' = Listening
    BY <2>1 DEF Listening
  <2>3. QED
    BY <2>2 DEF ChannelMove
<1>7. ASSUME NEW k \in Conn, Unsubscribe(k) PROVE ChannelMove
  <2>1. hub[k] = "ended" /\ subs' = subs \ {k} /\ UNCHANGED <<cur, cache>>
    BY <1>7 DEF Unsubscribe
  <2>2. k \notin subs \/ k # cur
    BY <2>1 DEF SubscribersServe
  <2>3. Room' = Room
    BY <2>1 DEF Room
  <2>4. Listening' = Listening \/ (Listening = "stale" /\ Listening' = "down")
    BY <2>1, <2>2 DEF Listening
  <2>5. QED
    BY <2>3, <2>4 DEF ChannelMove
<1>8. ASSUME NEW k \in Conn, Deregister(k) PROVE ChannelMove
  <2>1. hub[k] = "closing" /\ cur' = (IF k = cur THEN 0 ELSE cur) /\ UNCHANGED <<subs, cache>>
    BY <1>8 DEF Deregister
  <2>2. k \notin subs
    BY <2>1 DEF SubscribersServe
  <2>3. QED
    BY <2>1, <2>2 DEF ChannelMove, Listening, Room
<1>9. ASSUME NEW n \in Node, Crash(n) PROVE ChannelMove
  <2>0. Breaks /\ UNCHANGED cache
    BY <1>9 DEF Crash, Breaks
  <2>1. PICK dead \in SUBSET Conn : subs' = subs \ dead /\ cur' = (IF cur \in dead THEN 0 ELSE cur)
    BY <1>9 DEF Crash
  <2>2. Room' = Room
    BY <2>0 DEF Room
  <2>3. \/ Listening' = Listening
        \/ Listening = "up" /\ Listening' \in {"down", "stale"}
        \/ Listening = "stale" /\ Listening' = "down"
    BY <2>1 DEF Listening
  <2>4. QED
    BY <2>0, <2>2, <2>3 DEF ChannelMove
<1>10. ASSUME NEW k \in Conn, Register(k) \/ ReadError(k) PROVE ChannelMove
  BY <1>3, <1>10 DEF Register, ReadError
<1>11. ASSUME Keepalive \/ KeepaliveSend PROVE ChannelMove
  BY <1>3, <1>11 DEF Keepalive, KeepaliveSend
<1>12. ASSUME NEW j \in Job, Eligible(j) \/ Publish(j) \/ Work(j) PROVE ChannelMove
  BY <1>3, <1>12 DEF Eligible, Publish, Work, PrintDocument, RecordDelivery, SendState
<1>13. CASE UNCHANGED vars
  BY <1>3, <1>13 DEF vars
<1>14. QED
  BY <1>1, <1>2, <1>4, <1>5, <1>6, <1>7, <1>8, <1>9, <1>10, <1>11, <1>12, <1>13 DEF Next, Accept

\* The link keeps to what dispatch expects of it: the cache is written only while a
\* dispatch PUBLISH finds a subscriber, and a subscriber goes away only with its
\* socket, whatever connections, nodes, handlers and frames there are.
THEOREM KeepsToTheChannel == Spec => KeepsTheChannel
<1> USE LinkAssumption
<1>1. Init => ChannelInv
  BY DEF Init, ChannelInv, Dialled, LiveIsDialled, SubscribersServe, HandlersAreLive, Conn
<1>2. Init => Channel!Init
  <2>1. Breaks \in BOOLEAN
    BY DEF Breaks
  <2>2. Init => Room = FALSE /\ Listening = "down"
    BY DEF Init, Room, Listening
  <2>3. QED
    BY <2>1, <2>2 DEF Channel!Init, Breaks, Room
<1>3. ControlOK /\ ChannelInv /\ [Next]_vars
        => [Channel!Next]_<<faults \cap {"link", "crash", "restart"} # {}, Channel!channelVars>>
  <2>1. [Next]_vars => Breaks' = Breaks
    BY FaultsStay DEF Breaks
  <2>2. QED
    BY <2>1, LinkMoves, MoveIsChannelStep
<1>4. QED
  BY <1>1, <1>2, <1>3, ChannelStep, LinkTypes, PTL DEF Spec, KeepsTheChannel, Channel!Spec
=============================================================================
