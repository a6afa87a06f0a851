---------------------------- MODULE DemuxProofs -----------------------------
(* Proofs about Demux, for every number of requests and every buffer size.  *)
(*                                                                          *)
(* The inductive invariant is TypeOK /\ Building /\ Distinct /\ Routing:    *)
(* the init lock keeps the demux to one reader; ids of requests whose frame *)
(* or response may still be under way are distinct, because the counter     *)
(* cannot wrap before every request has drawn; and an entry of the waiter   *)
(* map, the channel and the wire agree on whose response is whose.          *)
EXTENDS Demux, FiniteSetTheorems, TLAPS

Undrawn == {r \in Requests :
              pc[r] \in {"idle", "init", "connecting", "enter", "register"}}

\* The id of r is in use: its entry, its frame or its response may be around.
Live(r) == pc[r] \in Registered \cup {"poisoning"} \/ wire[r] # "unsent"

Building ==
  /\ readers = IF ready THEN 1 ELSE 0
  /\ reader = "none" <=> ~ready
  /\ \A r \in Requests : pc[r] = "connecting" <=> initLock = r
  /\ ready => \A r \in Requests : pc[r] # "connecting"

Distinct ==
  /\ \A q, r \in Requests : Live(q) /\ Live(r) /\ id[q] = id[r] => q = r
  /\ Undrawn = {} \/ /\ nextId + Cardinality(Undrawn) <= Cardinality(Requests)
                     /\ \A r \in Requests : Live(r) => id[r] < nextId

Entry(r) == [id |-> id[r], req |-> r]

\* An entry of the map is its request's, which is in flight and not answered.
Entries ==
  \A w \in waiters : /\ pc[w.req] \in Registered
                     /\ chan[w.req] = None
                     /\ w = Entry(w.req)

\* A request in flight has an entry unless it has been answered.
Reachable ==
  \A r \in Requests :
    pc[r] \in Registered => chan[r] # None \/ Entry(r) \in waiters

\* What is in a channel is an error or the response that was read for it.
Channels ==
  \A r \in Requests :
    /\ pc[r] = "replied" => chan[r] \notin {None, "error"}
    /\ r \in Undrawn => chan[r] = None
    /\ chan[r] \in {None, "error", r}
    /\ chan[r] = r => wire[r] = "read"
    /\ wire[r] # "unsent" => pc[r] \in Returned \cup {"waiting"}

\* A dead reader leaves poison, and entries only of requests that will see it.
Ended ==
  /\ reader \in {"draining", "gone"} => poison
  /\ reader = "gone" => \A w \in waiters : pc[w.req] = "recheck"

Routing == Entries /\ Reachable /\ Channels /\ Ended

-----------------------------------------------------------------------------
LEMMA TypeStep == TypeOK /\ [Next]_vars => TypeOK'
<1> SUFFICES ASSUME TypeOK, [Next]_vars PROVE TypeOK'
  OBVIOUS
<1> USE DemuxAssumption DEF TypeOK, PcSet, Goto, conn
<1>1. ASSUME NEW r \in Requests, Call(r) PROVE TypeOK'
  BY <1>1 DEF Call
<1>2. ASSUME NEW r \in Requests, RequestStep(r) PROVE TypeOK'
  <2>1. CASE LoseInitRace(r) BY <2>1 DEF LoseInitRace
  <2>2. CASE WinInitRace(r) BY <2>2 DEF WinInitRace
  <2>3. CASE StartDemux(r) BY <2>3 DEF StartDemux
  <2>4. CASE ConnectTimeout(r) BY <2>4 DEF ConnectTimeout
  <2>5. CASE Enter(r) BY <2>5 DEF Enter
  <2>6. CASE Register(r)
    <3>1. nextId' \in 0..(IdSpace - 1)
      BY <2>6 DEF Register
    <3>2. [id |-> nextId, req |-> r] \in [id : Nat, req : Requests]
      OBVIOUS
    <3>3. waiters' \subseteq [id : Nat, req : Requests]
      BY <2>6, <3>2 DEF Register
    <3>4. QED BY <2>6, <3>1, <3>3 DEF Register
  <2>7. CASE Recheck(r) BY <2>7 DEF Recheck, Forget
  <2>8. CASE LockWrite(r) BY <2>8 DEF LockWrite
  <2>9. CASE WriteOk(r) BY <2>9 DEF WriteOk
  <2>10. CASE PoisonStream(r) BY <2>10 DEF PoisonStream
  <2>11. CASE Receive(r) BY <2>11 DEF Receive
  <2>12. CASE GiveUp(r) BY <2>12 DEF GiveUp, Forget
  <2>13. QED
    BY <1>2, <2>1, <2>2, <2>3, <2>4, <2>5, <2>6, <2>7, <2>8, <2>9, <2>10,
       <2>11, <2>12 DEF RequestStep
<1>3. ASSUME NEW r \in Requests, WriteFail(r) PROVE TypeOK'
  BY <1>3 DEF WriteFail, Forget
<1>4. ASSUME NEW r \in Requests, AgentStep(r) PROVE TypeOK'
  BY <1>4 DEF AgentStep, AgentRuns, AgentAnswers
<1>5. ASSUME NEW r \in Requests, Route(r) PROVE TypeOK'
  BY <1>5 DEF Route
<1>6. CASE AgentConnects BY <1>6 DEF AgentConnects
<1>7. CASE ReadFails BY <1>7 DEF ReadFails
<1>8. CASE Drain BY <1>8 DEF Drain
<1>9. CASE Quiet \/ UNCHANGED vars BY <1>9 DEF Quiet, vars
<1>10. QED
  BY <1>1, <1>2, <1>3, <1>4, <1>5, <1>6, <1>7, <1>8, <1>9 DEF Next

LEMMA BuildingStep == TypeOK /\ Building /\ [Next]_vars => Building'
<1> SUFFICES ASSUME TypeOK, Building, [Next]_vars PROVE Building'
  OBVIOUS
<1> USE DemuxAssumption DEF TypeOK, PcSet, Building, Goto, conn
<1>1. ASSUME NEW r \in Requests,
             LoseInitRace(r) \/ WinInitRace(r) \/ StartDemux(r) \/ ConnectTimeout(r)
      PROVE  Building'
  <2>1. CASE LoseInitRace(r) BY <2>1 DEF LoseInitRace
  <2>2. CASE WinInitRace(r) BY <2>2 DEF WinInitRace
  <2>3. CASE StartDemux(r) BY <2>3 DEF StartDemux
  <2>4. CASE ConnectTimeout(r) BY <2>4 DEF ConnectTimeout
  <2>5. QED BY <1>1, <2>1, <2>2, <2>3, <2>4
<1>2. ASSUME NEW r \in Requests,
             \/ Call(r) \/ Enter(r) \/ Register(r) \/ Recheck(r) \/ LockWrite(r)
             \/ WriteOk(r) \/ PoisonStream(r) \/ Receive(r) \/ GiveUp(r)
             \/ WriteFail(r)
      PROVE  Building'
  BY <1>2 DEF Call, Enter, Register, Recheck, LockWrite, WriteOk, PoisonStream,
              Receive, GiveUp, WriteFail
<1>3. ASSUME NEW r \in Requests, AgentStep(r) \/ Route(r) PROVE Building'
  BY <1>3 DEF AgentStep, AgentRuns, AgentAnswers, Route
<1>4. CASE AgentConnects \/ ReadFails \/ Drain
  BY <1>4 DEF AgentConnects, ReadFails, Drain
<1>5. CASE Quiet \/ UNCHANGED vars BY <1>5 DEF Quiet, vars
<1>6. QED BY <1>1, <1>2, <1>3, <1>4, <1>5 DEF Next, RequestStep

LEMMA UndrawnFinite ==
  /\ IsFiniteSet(Undrawn)
  /\ Cardinality(Undrawn) \in Nat
  /\ Cardinality(Undrawn) <= Cardinality(Requests)
  /\ Cardinality(Requests) \in Nat
BY DemuxAssumption, FS_Subset, FS_CardinalityType DEF Undrawn

\* Steps that draw no id keep Distinct.
LEMMA DistinctKept ==
  ASSUME TypeOK, Distinct, TypeOK', UNCHANGED <<nextId, id>>,
         \A r \in Requests : Live(r)' => Live(r),
         Undrawn' \subseteq Undrawn
  PROVE  Distinct'
<1>1. /\ IsFiniteSet(Undrawn)
      /\ Cardinality(Undrawn') <= Cardinality(Undrawn)
      /\ Cardinality(Undrawn') \in Nat
  BY UndrawnFinite, FS_Subset, FS_CardinalityType
<1>2. CASE Undrawn' = {} BY <1>2 DEF Distinct
<1>3. CASE Undrawn' # {}
  <2>1. Undrawn # {} BY <1>3
  <2>2. nextId + Cardinality(Undrawn') <= Cardinality(Requests)
    BY <1>1, <2>1, UndrawnFinite DEF Distinct, TypeOK
  <2>3. QED BY <2>1, <2>2 DEF Distinct
<1>4. QED BY <1>2, <1>3

LEMMA DistinctStep == TypeOK /\ Distinct /\ [Next]_vars => Distinct'
<1> SUFFICES ASSUME TypeOK, Distinct, [Next]_vars PROVE Distinct'
  OBVIOUS
<1> USE DemuxAssumption
<1>1. TypeOK' BY TypeStep
<1>2. ASSUME NEW r \in Requests, Register(r) PROVE Distinct'
  <2> USE DEF TypeOK, PcSet
  <2>1. pc' = [pc EXCEPT ![r] = "recheck"] /\ pc[r] = "register"
    BY <1>2 DEF Register, Goto
  <2>2. r \in Undrawn /\ Undrawn' = Undrawn \ {r}
    BY <2>1 DEF Undrawn
  <2>3. Cardinality(Undrawn') = Cardinality(Undrawn) - 1
    BY <2>2, UndrawnFinite, FS_RemoveElement
  <2>4. /\ nextId + Cardinality(Undrawn) <= Cardinality(Requests)
        /\ \A q \in Requests : Live(q) => id[q] < nextId
    BY <2>2 DEF Distinct
  <2>5. /\ id' = [id EXCEPT ![r] = nextId]
        /\ nextId' = (nextId + 1) % IdSpace
        /\ UNCHANGED wire
    BY <1>2 DEF Register
  <2>6. \A q \in Requests \ {r} : Live(q)' => Live(q)
    BY <2>1, <2>5 DEF Live
  <2>7. \A p, q \in Requests : Live(p)' /\ Live(q)' /\ id'[p] = id'[q] => p = q
    <3> SUFFICES ASSUME NEW p \in Requests, NEW q \in Requests,
                        Live(p)', Live(q)', id'[p] = id'[q]
                 PROVE  p = q
      OBVIOUS
    <3>1. CASE p # r /\ q # r
      BY <3>1, <2>5, <2>6 DEF Distinct
    <3>2. CASE p = r \/ q = r
      BY <3>2, <2>4, <2>5, <2>6
    <3>3. QED BY <3>1, <3>2
  <2>8. CASE Undrawn' = {} BY <2>7, <2>8 DEF Distinct
  <2>9. CASE Undrawn' # {}
    <3>1. Cardinality(Undrawn') \in Nat \ {0}
      BY <2>9, <2>2, UndrawnFinite, FS_EmptySet, FS_Subset, FS_CardinalityType
    <3>2. nextId + 1 < IdSpace
      BY <3>1, <2>3, <2>4, UndrawnFinite DEF DemuxAssumption
    <3>3. nextId' = nextId + 1
      BY <3>2, <2>5
    <3>4. nextId' + Cardinality(Undrawn') <= Cardinality(Requests)
      BY <3>3, <2>3, <2>4, UndrawnFinite
    <3>5. \A q \in Requests : Live(q)' => id'[q] < nextId'
      BY <3>3, <2>4, <2>5, <2>6
    <3>6. QED BY <2>7, <3>4, <3>5 DEF Distinct
  <2>10. QED BY <2>8, <2>9
<1>3. ASSUME UNCHANGED <<nextId, id>>,
             \A r \in Requests : Live(r)' => Live(r),
             Undrawn' \subseteq Undrawn
      PROVE  Distinct'
  BY <1>3, <1>1, DistinctKept
<1> USE DEF TypeOK, PcSet, Goto, conn, Live, Undrawn, Registered
<1>4. ASSUME NEW r \in Requests,
             \/ Call(r) \/ LoseInitRace(r) \/ WinInitRace(r) \/ StartDemux(r)
             \/ ConnectTimeout(r)
      PROVE  Distinct'
  BY <1>4, <1>3 DEF Call, LoseInitRace, WinInitRace, StartDemux, ConnectTimeout
<1>5. ASSUME NEW r \in Requests,
             \/ Enter(r) \/ Recheck(r) \/ LockWrite(r) \/ WriteOk(r)
             \/ PoisonStream(r) \/ Receive(r) \/ GiveUp(r) \/ WriteFail(r)
      PROVE  Distinct'
  BY <1>5, <1>3 DEF Enter, Recheck, LockWrite, WriteOk, PoisonStream, Receive,
                    GiveUp, WriteFail
<1>6. ASSUME NEW r \in Requests, AgentStep(r) \/ Route(r) PROVE Distinct'
  BY <1>6, <1>3 DEF AgentStep, AgentRuns, AgentAnswers, Route
<1>7. CASE AgentConnects \/ ReadFails \/ Drain \/ Quiet \/ UNCHANGED vars
  BY <1>7, <1>3 DEF AgentConnects, ReadFails, Drain, Quiet, vars
<1>8. QED
  BY <1>2, <1>4, <1>5, <1>6, <1>7 DEF Next, RequestStep

\* An entry of the map is its request's own, so an id in use finds that entry.
LEMMA OwnEntry ==
  ASSUME TypeOK, Distinct, Routing, NEW r \in Requests, Live(r)
  PROVE  {w \in waiters : w.id = id[r]} = waiters \cap {Entry(r)}
<1>1. \A w \in waiters : /\ w.req \in Requests /\ w = Entry(w.req)
                        /\ Live(w.req) /\ w.id = id[w.req]
  BY DEF TypeOK, Routing, Entries, Entry, Live
<1>2. \A w \in waiters : w.id = id[r] => w = Entry(r)
  BY <1>1 DEF Distinct
<1>3. Entry(r).id = id[r]
  BY DEF Entry
<1>4. QED BY <1>2, <1>3

LEMMA NotARequest == None # "error" /\ \A r \in Requests : r \notin {None, "error"}
BY DemuxAssumption DEF DemuxAssumption, None

\* A request moves on without touching the map or a channel.
Moves(r, label) ==
  /\ label \in PcSet /\ pc' = [pc EXCEPT ![r] = label]
  /\ UNCHANGED <<waiters, id, chan>>
  /\ poison => poison'
  /\ reader' \in {reader, "reading"} \/ (reader' = "draining" /\ poison')
  /\ \A q \in Requests : /\ wire[q] = "read" => wire'[q] = "read"
                         /\ wire'[q] # "unsent" =>
                              wire[q] # "unsent" \/ (q = r /\ label = "waiting")
  /\ wire[r] # "unsent" => label \in Returned \cup {"waiting"}
  /\ label = "replied" => chan[r] \notin {None, "error"}
  /\ r \notin Undrawn => label \notin {"idle", "init", "connecting", "enter", "register"}
  /\ \/ pc[r] \notin Registered /\ label \notin Registered
     \/ /\ pc[r] \in Registered /\ label \in Registered
        /\ label = pc[r] \/ pc[r] # "recheck" \/ reader # "gone"
     \/ pc[r] \in Registered /\ chan[r] # None /\ label \in Returned

LEMMA RoutingMoves ==
  ASSUME TypeOK, Routing, NEW r \in Requests, NEW label, Moves(r, label)
  PROVE  Routing'
<1> USE DEF TypeOK, PcSet, Registered, Returned, Moves
<1>1. Entries /\ Reachable /\ Channels /\ Ended
  BY DEF Routing
<1>2. \A w \in waiters : w.req \in Requests
  OBVIOUS
<1>3. \A q \in Requests \ {r} : pc'[q] = pc[q]
  OBVIOUS
<1>4. pc'[r] = label
  OBVIOUS
<1>5. \A w \in waiters : w.req = r => pc[r] \in Registered /\ chan[r] = None
  BY <1>1 DEF Entries
<1>6. Entries'
  BY <1>1, <1>2, <1>3, <1>4, <1>5 DEF Entries, Entry
<1>7. Reachable'
  <2> USE DEF Reachable
  <2> TAKE q \in Requests
  <2>1. Entry(q)' = Entry(q) BY DEF Entry
  <2>2. pc'[q] \in Registered => pc[q] \in Registered BY <1>3, <1>4
  <2>3. QED BY <1>1, <2>1, <2>2 DEF Reachable
<1>8. Channels'
  <2> USE DEF Channels
  <2> TAKE q \in Requests
  <2>1. CASE q = r BY <1>1, <1>4, <2>1 DEF Channels, Undrawn
  <2>2. CASE q # r BY <1>1, <1>3, <2>2 DEF Channels, Undrawn
  <2>3. QED BY <2>1, <2>2
<1>9. Ended'
  <2>1. reader' = "gone" => reader = "gone" OBVIOUS
  <2>2. \A w \in waiters : pc[w.req] = "recheck" /\ reader = "gone" => pc'[w.req] = "recheck"
    BY <1>2, <1>3, <1>4, <1>5
  <2>3. QED BY <1>1, <2>1, <2>2 DEF Ended
<1>10. QED BY <1>6, <1>7, <1>8, <1>9 DEF Routing

\* A request leaves the map and fails.
LEMMA RoutingForgets ==
  ASSUME TypeOK, Distinct, Routing, NEW r \in Requests, Live(r), Forget(r),
         NEW label \in {"failed", "poisoning"},
         pc' = [pc EXCEPT ![r] = label],
         wire[r] # "unsent" => label = "failed",
         UNCHANGED <<reader, id, poison, chan, wire>>
  PROVE  Routing'
<1> USE DEF TypeOK, PcSet, Registered, Returned
<1>1. Entries /\ Reachable /\ Channels /\ Ended
  BY DEF Routing
<1>2. waiters' = waiters \ {Entry(r)}
  BY OwnEntry DEF Forget
<1>3. \A w \in waiters' : w \in waiters /\ w.req \in Requests /\ w.req # r
  BY <1>1, <1>2 DEF Entries
<1>4. \A q \in Requests \ {r} : pc'[q] = pc[q] /\ Entry(q)' = Entry(q) /\ Entry(q) # Entry(r)
  BY DEF Entry
<1>5. pc'[r] = label
  OBVIOUS
<1>6. Entries'
  BY <1>1, <1>3, <1>4 DEF Entries
<1>7. Reachable'
  BY <1>1, <1>2, <1>4, <1>5 DEF Reachable
<1>8. Channels'
  <2> USE DEF Channels
  <2> TAKE q \in Requests
  <2>1. CASE q = r
    <3>1. Live(r) => r \notin Undrawn \/ wire[r] # "unsent"
      BY DEF Live, Undrawn
    <3>2. QED BY <1>1, <1>5, <2>1, <3>1 DEF Channels, Undrawn
  <2>2. CASE q # r BY <1>1, <1>4, <2>2 DEF Channels, Undrawn
  <2>3. QED BY <2>1, <2>2
<1>9. Ended'
  BY <1>1, <1>3, <1>4 DEF Ended
<1>10. QED BY <1>6, <1>7, <1>8, <1>9 DEF Routing

LEMMA RoutingRegisters ==
  ASSUME TypeOK, Distinct, Routing, NEW r \in Requests, Register(r)
  PROVE  Routing'
<1> USE DEF TypeOK, PcSet, Registered, Returned
<1>1. Entries /\ Reachable /\ Channels /\ Ended
  BY DEF Routing
<1>2. /\ pc[r] = "register" /\ pc' = [pc EXCEPT ![r] = "recheck"]
      /\ id' = [id EXCEPT ![r] = nextId]
      /\ UNCHANGED <<reader, poison, chan, wire>>
  BY DEF Register, Goto
<1>3. \A w \in waiters : w.req \in Requests /\ w.req # r /\ Live(w.req) /\ w.id = id[w.req]
  BY <1>1, <1>2 DEF Entries, Entry, Live
<1>4. r \in Undrawn BY <1>2 DEF Undrawn
<1>5. \A w \in waiters : w.id # nextId
  BY <1>3, <1>4 DEF Distinct
<1>6. Entry(r)' = [id |-> nextId, req |-> r]
  BY <1>2 DEF Entry
<1>7. waiters' = waiters \cup {Entry(r)'}
  BY <1>5, <1>6 DEF Register
<1>8. \A q \in Requests \ {r} : pc'[q] = pc[q] /\ Entry(q)' = Entry(q)
  BY <1>2 DEF Entry
<1>9. pc'[r] = "recheck" /\ chan'[r] = None
  BY <1>1, <1>2, <1>4 DEF Channels
<1>10. Entry(r)'.req = r BY <1>6
<1>11. Entries'
  <2> USE DEF Entries
  <2> TAKE w \in waiters'
  <2>1. CASE w \in waiters BY <2>1, <1>1, <1>2, <1>3, <1>8 DEF Entries
  <2>2. CASE w = Entry(r)' BY <2>2, <1>9, <1>10
  <2>3. QED BY <2>1, <2>2, <1>7
<1>12. Reachable'
  <2> USE DEF Reachable
  <2> TAKE q \in Requests
  <2>1. CASE q = r BY <2>1, <1>7
  <2>2. CASE q # r BY <2>2, <1>1, <1>2, <1>7, <1>8 DEF Reachable
  <2>3. QED BY <2>1, <2>2
<1>13. Channels'
  <2> USE DEF Channels
  <2> TAKE q \in Requests
  <2>1. CASE q = r BY <1>1, <1>2, <1>9, <2>1 DEF Channels, Undrawn
  <2>2. CASE q # r BY <1>1, <1>2, <1>8, <2>2 DEF Channels, Undrawn
  <2>3. QED BY <2>1, <2>2
<1>14. Ended'
  <2>1. ASSUME reader' = "gone", NEW w \in waiters' PROVE pc'[w.req] = "recheck"
    BY <2>1, <1>1, <1>2, <1>3, <1>7, <1>8, <1>9, <1>10 DEF Ended
  <2>2. QED BY <2>1, <1>1, <1>2 DEF Ended
<1>15. QED BY <1>11, <1>12, <1>13, <1>14 DEF Routing

LEMMA RoutingRoutes ==
  ASSUME TypeOK, Distinct, Routing, NEW r \in Requests, Route(r)
  PROVE  Routing'
<1> USE DEF TypeOK, PcSet, Registered, Returned
<1>1. Entries /\ Reachable /\ Channels /\ Ended
  BY DEF Routing
<1>2. /\ wire[r] = "answered" /\ wire' = [wire EXCEPT ![r] = "read"]
      /\ reader = "reading" /\ UNCHANGED <<pc, reader, id, poison>>
  BY DEF Route
<1>3. {w \in waiters : w.id = id[r]} = waiters \cap {Entry(r)}
  BY <1>2, OwnEntry DEF Live
<1>4. Entry(r).req = r BY DEF Entry
<1>5. waiters' = waiters \ {Entry(r)}
  BY <1>3 DEF Route
<1>6. \A q \in Requests :
        chan'[q] = IF q = r /\ Entry(r) \in waiters THEN r ELSE chan[q]
  BY <1>3, <1>4 DEF Route
<1>7. \A w \in waiters' : w \in waiters /\ w.req \in Requests /\ w.req # r
  BY <1>1, <1>5 DEF Entries
<1>8. \A q \in Requests : Entry(q)' = Entry(q) /\ (q # r => Entry(q) # Entry(r))
  BY <1>2 DEF Entry
<1>9. Entries'
  BY <1>1, <1>2, <1>6, <1>7, <1>8 DEF Entries
<1>10. Reachable'
  <2> USE DEF Reachable
  <2> TAKE q \in Requests
  <2>1. CASE q = r BY <2>1, <1>1, <1>2, <1>6, NotARequest DEF Reachable
  <2>2. CASE q # r BY <2>2, <1>1, <1>2, <1>5, <1>6, <1>8 DEF Reachable
  <2>3. QED BY <2>1, <2>2
<1>11. Channels'
  <2> USE DEF Channels
  <2> TAKE q \in Requests
  <2>1. CASE q = r BY <2>1, <1>1, <1>2, <1>6, NotARequest DEF Channels, Undrawn
  <2>2. CASE q # r BY <2>2, <1>1, <1>2, <1>6 DEF Channels, Undrawn
  <2>3. QED BY <2>1, <2>2
<1>12. Ended'
  BY <1>1, <1>2, <1>7 DEF Ended
<1>13. QED BY <1>9, <1>10, <1>11, <1>12 DEF Routing

LEMMA RoutingDrains ==
  ASSUME TypeOK, Routing, Drain
  PROVE  Routing'
<1> USE DEF TypeOK, PcSet, Registered, Returned
<1>1. Entries /\ Reachable /\ Channels /\ Ended
  BY DEF Routing
<1>2. /\ waiters' = {} /\ reader = "draining" /\ reader' = "gone"
      /\ UNCHANGED <<pc, id, poison, wire>>
  BY DEF Drain
<1>3. \A q \in Requests :
        /\ (\E w \in waiters : w.req = q) => pc[q] \in Registered /\ chan'[q] = "error"
        /\ (~\E w \in waiters : w.req = q) => chan'[q] = chan[q]
  BY <1>1 DEF Drain, Entries
<1>4. \A q \in Requests : Entry(q).req = q
  BY DEF Entry
<1>5. Entries' /\ Ended'
  BY <1>1, <1>2 DEF Entries, Ended
<1>6. Reachable'
  <2> USE DEF Reachable
  <2> TAKE q \in Requests
  <2>1. CASE \E w \in waiters : w.req = q
    BY <2>1, <1>3 DEF None
  <2>2. CASE ~\E w \in waiters : w.req = q
    BY <2>2, <1>1, <1>2, <1>3, <1>4 DEF Reachable
  <2>3. QED BY <2>1, <2>2
<1>7. Channels'
  <2> USE DEF Channels
  <2> TAKE q \in Requests
  <2>1. CASE \E w \in waiters : w.req = q
    BY <2>1, <1>1, <1>2, <1>3, NotARequest DEF Channels, Undrawn
  <2>2. CASE ~\E w \in waiters : w.req = q
    BY <2>2, <1>1, <1>2, <1>3 DEF Channels, Undrawn
  <2>3. QED BY <2>1, <2>2
<1>8. QED BY <1>5, <1>6, <1>7 DEF Routing

LEMMA RoutingStep == TypeOK /\ Distinct /\ Routing /\ [Next]_vars => Routing'
<1> SUFFICES ASSUME TypeOK, Distinct, Routing, [Next]_vars PROVE Routing'
  OBVIOUS
<1> USE NotARequest DEF TypeOK, PcSet, Goto, conn, Registered, Returned
<1>1. Channels /\ Ended BY DEF Routing
<1>2. ASSUME NEW r \in Requests,
             \/ Call(r) \/ LoseInitRace(r) \/ WinInitRace(r) \/ StartDemux(r)
             \/ ConnectTimeout(r) \/ Enter(r)
      PROVE  Routing'
  <2>1. r \in Undrawn /\ wire[r] = "unsent"
    BY <1>1, <1>2 DEF Channels, Undrawn, Call, LoseInitRace, WinInitRace,
                      StartDemux, ConnectTimeout, Enter
  <2>2. PICK label \in {"init", "enter", "connecting", "failed", "register"} :
          pc' = [pc EXCEPT ![r] = label]
    BY <1>2 DEF Call, LoseInitRace, WinInitRace, StartDemux, ConnectTimeout, Enter
  <2>3. /\ UNCHANGED <<waiters, id, chan, wire, poison>>
        /\ reader' \in {reader, "reading"} /\ pc[r] \notin Registered
    BY <1>2 DEF Call, LoseInitRace, WinInitRace, StartDemux, ConnectTimeout, Enter
  <2>4. Moves(r, label) BY <2>1, <2>2, <2>3 DEF Moves
  <2>5. QED BY <2>4, RoutingMoves
<1>3. ASSUME NEW r \in Requests, Recheck(r) PROVE Routing'
  <2>1. r \notin Undrawn /\ wire[r] = "unsent" /\ Live(r)
    BY <1>1, <1>3 DEF Channels, Undrawn, Recheck, Live
  <2>2. CASE poison
    BY <1>3, <2>1, <2>2, RoutingForgets DEF Recheck
  <2>3. CASE ~poison
    <3>1. reader # "gone" BY <1>1, <2>3 DEF Ended
    <3>2. Moves(r, "lock") BY <1>3, <2>1, <2>3, <3>1 DEF Recheck, Moves
    <3>3. QED BY <3>2, RoutingMoves
  <2>4. QED BY <2>2, <2>3
<1>4. ASSUME NEW r \in Requests, LockWrite(r) PROVE Routing'
  <2>1. r \notin Undrawn /\ wire[r] = "unsent"
    BY <1>1, <1>4 DEF Channels, Undrawn, LockWrite
  <2>2. Moves(r, "writing") BY <1>4, <2>1 DEF LockWrite, Moves
  <2>3. QED BY <2>2, RoutingMoves
<1>5. ASSUME NEW r \in Requests, WriteOk(r) PROVE Routing'
  <2>1. r \notin Undrawn /\ wire[r] = "unsent"
    BY <1>1, <1>5 DEF Channels, Undrawn, WriteOk
  <2>2. Moves(r, "waiting") BY <1>5, <2>1 DEF WriteOk, Moves
  <2>3. QED BY <2>2, RoutingMoves
<1>6. ASSUME NEW r \in Requests, WriteFail(r) PROVE Routing'
  <2>1. wire[r] = "unsent" /\ Live(r)
    BY <1>1, <1>6 DEF Channels, WriteFail, Live
  <2>2. QED BY <1>6, <2>1, RoutingForgets DEF WriteFail
<1>7. ASSUME NEW r \in Requests, GiveUp(r) PROVE Routing'
  <2>1. Live(r) BY <1>7 DEF GiveUp, Live
  <2>2. QED BY <1>7, <2>1, RoutingForgets DEF GiveUp
<1>8. ASSUME NEW r \in Requests, PoisonStream(r) PROVE Routing'
  <2>1. Moves(r, "failed") BY <1>8 DEF PoisonStream, Undrawn, Moves
  <2>2. QED BY <2>1, RoutingMoves
<1>9. ASSUME NEW r \in Requests, Receive(r) PROVE Routing'
  <2>1. CASE chan[r] = "error"
    <3>1. Moves(r, "failed") BY <1>9, <2>1 DEF Receive, Undrawn, Moves
    <3>2. QED BY <3>1, RoutingMoves
  <2>2. CASE chan[r] # "error"
    <3>1. Moves(r, "replied") BY <1>9, <2>2 DEF Receive, Undrawn, Moves
    <3>2. QED BY <3>1, RoutingMoves
  <2>3. QED BY <2>1, <2>2
<1>10. ASSUME NEW r \in Requests, AgentStep(r) PROVE Routing'
  <2>1. /\ pc' = [pc EXCEPT ![r] = pc[r]] /\ wire[r] # "unsent"
        /\ UNCHANGED <<waiters, id, chan, reader, poison>>
    BY <1>10 DEF AgentStep, AgentRuns, AgentAnswers
  <2>2. \A q \in Requests : /\ wire[q] = "read" => wire'[q] = "read"
                            /\ wire'[q] # "unsent" => wire[q] # "unsent"
    BY <1>10 DEF AgentStep, AgentRuns, AgentAnswers
  <2>3. Moves(r, pc[r]) BY <1>1, <2>1, <2>2 DEF Moves, Channels, Undrawn
  <2>4. QED BY <2>3, RoutingMoves
<1>11. CASE AgentConnects \/ Quiet \/ UNCHANGED vars
  <2>1. UNCHANGED <<pc, waiters, id, chan, wire, poison, reader>>
    BY <1>11 DEF AgentConnects, Quiet, vars
  <2>2. QED
    BY <2>1 DEF Routing, Entries, Reachable, Channels, Ended, Entry, Undrawn
<1>12. CASE ReadFails
  BY <1>12 DEF ReadFails, Routing, Entries, Reachable, Channels, Ended, Entry, Undrawn
<1>13. QED
  BY <1>2, <1>3, <1>4, <1>5, <1>6, <1>7, <1>8, <1>9, <1>10, <1>11, <1>12,
     RoutingRegisters, RoutingRoutes, RoutingDrains DEF Next, RequestStep

-----------------------------------------------------------------------------
Inv == TypeOK /\ Building /\ Distinct /\ Routing

LEMMA InitInv == Init => Inv
<1> SUFFICES ASSUME Init PROVE Inv
  OBVIOUS
<1> USE DemuxAssumption DEF Init
<1>1. TypeOK
  <2>1. 0 \in 0..(IdSpace - 1) BY DEF DemuxAssumption
  <2>2. QED BY <2>1 DEF TypeOK, PcSet
<1>2. Building BY NotARequest DEF Building
<1>3. \A r \in Requests : ~Live(r) BY DEF Live, Registered
<1>4. Undrawn = Requests BY DEF Undrawn
<1>5. Distinct BY <1>3, <1>4, UndrawnFinite DEF Distinct
<1>6. Routing BY DEF Routing, Entries, Reachable, Channels, Ended, Registered
<1>7. QED BY <1>1, <1>2, <1>5, <1>6 DEF Inv

LEMMA Invariance == Spec => []Inv
<1>1. Inv /\ [Next]_vars => Inv'
  BY TypeStep, BuildingStep, DistinctStep, RoutingStep DEF Inv
<1>2. QED BY InitInv, <1>1, PTL DEF Spec

-----------------------------------------------------------------------------
(* Every variable keeps its type; in particular the counter stays an id.    *)
THEOREM TypeCorrect == Spec => []TypeOK
BY Invariance, PTL DEF Inv

(* The init lock and the second look under it keep two first requests from  *)
(* starting two readers on one fd (session.rs:342-353).                     *)
THEOREM ReaderUnique == Spec => []OneReader
<1>1. Inv => OneReader BY DEF Inv, Building, OneReader
<1>2. QED BY <1>1, Invariance, PTL

(* However a request and the dying reader interleave, a waiting caller has  *)
(* a message or an entry that will be drained (session.rs:223-233).         *)
THEOREM WakeUp == Spec => []NeverStranded
<1>1. Inv => NeverStranded
  <2> SUFFICES ASSUME Inv, NEW r \in Requests, pc[r] \in {"lock", "writing", "waiting"},
                      chan[r] = None
               PROVE  reader # "gone" /\ \E w \in waiters : w.req = r /\ w.id = id[r]
    BY DEF NeverStranded
  <2>1. Entry(r) \in waiters
    BY DEF Inv, Routing, Reachable, Registered
  <2>2. Entry(r).req = r /\ Entry(r).id = id[r]
    BY DEF Entry
  <2>3. reader # "gone"
    BY <2>1, <2>2 DEF Inv, Routing, Ended
  <2>4. QED BY <2>1, <2>2, <2>3
<1>2. QED BY <1>1, Invariance, PTL

(* The map holds only requests in flight that have not been answered, so a  *)
(* one-slot channel is enough for the reader (session.rs:167-170, 282-289). *)
THEOREM ReaderNeverBlocks == Spec => []SendNeverBlocks
<1>1. Inv => SendNeverBlocks BY DEF Inv, Routing, Entries, SendNeverBlocks
<1>2. QED BY <1>1, Invariance, PTL

-----------------------------------------------------------------------------
(* Refinement of Rpc.                                                       *)

Verdict(label) == IF label \in Returned THEN label ELSE "none"

LEMMA OutcomeIs == Inv => Outcome = [r \in Requests |-> Verdict(pc[r])]
<1> SUFFICES ASSUME Inv, NEW r \in Requests
             PROVE  /\ pc[r] = "replied" => chan[r] = r
                    /\ pc[r] \in Returned => pc[r] \in {"replied", "failed"}
  BY DEF Outcome, Verdict, Returned
<1>1. QED BY DEF Inv, Routing, Channels, Returned

(* A request that times out leaves the stream in step: each caller gets the *)
(* reply to its own request, which the guest has run, or an error, once     *)
(* (session.rs:151-153).                                                    *)
THEOREM Refinement == Spec => ImplementsRpc
<1>1. Init => Answers!Init
  BY DEF Init, Answers!Init, Asked, Ran, Outcome
<1>2. Inv /\ Inv' /\ [Next]_vars => [Answers!Next]_<<Asked, Ran, Outcome>>
  <2> SUFFICES ASSUME Inv, Inv', [Next]_vars
               PROVE  [Answers!Next]_<<Asked, Ran, Outcome>>
    OBVIOUS
  <2>0. /\ Outcome = [r \in Requests |-> Verdict(pc[r])]
        /\ Outcome' = [r \in Requests |-> Verdict(pc'[r])]
    <3>1. \A r \in Requests : pc'[r] = "replied" => chan'[r] = r
      BY DEF Inv, Routing, Channels
    <3>2. Outcome' = [r \in Requests |-> Verdict(pc'[r])]
      BY <3>1 DEF Outcome, Verdict, Returned
    <3>3. QED BY <3>2, OutcomeIs
  <2>00. TypeOK /\ Channels BY DEF Inv, Routing
  <2>1. ASSUME NEW r \in Requests, NEW label \in PcSet \ {"idle"}, pc[r] \notin Returned,
               pc' = [pc EXCEPT ![r] = label], Ran' = Ran,
               \/ pc[r] # "idle" /\ label # "replied"
               \/ pc[r] # "idle" /\ r \in Ran
               \/ label \notin Returned
        PROVE  [Answers!Next]_<<Asked, Ran, Outcome>>
    <3>1. Asked' = Asked \cup {r} /\ (r \in Asked <=> pc[r] # "idle")
      BY <2>1, <2>00 DEF Asked, TypeOK
    <3>2. Outcome' = [Outcome EXCEPT ![r] = Verdict(label)] /\ Outcome[r] = "none"
      BY <2>0, <2>1, <2>00 DEF TypeOK, Verdict
    <3>3. CASE label = "failed" /\ pc[r] # "idle"
      <4>1. Answers!Fail(r) BY <3>1, <3>2, <3>3, <2>1 DEF Answers!Fail, Verdict, Returned
      <4>2. QED BY <4>1 DEF Answers!Next
    <3>4. CASE label = "replied" /\ pc[r] # "idle" /\ r \in Ran
      <4>1. Answers!Reply(r) BY <3>1, <3>2, <3>4, <2>1 DEF Answers!Reply, Verdict, Returned
      <4>2. QED BY <4>1 DEF Answers!Next
    <3>5. CASE label \notin Returned
      <4>1. Outcome' = Outcome BY <2>0, <3>2, <3>5 DEF Verdict
      <4>2. CASE pc[r] = "idle"
        <5>1. Answers!Ask(r) BY <4>1, <4>2, <3>1, <2>1 DEF Answers!Ask
        <5>2. QED BY <5>1 DEF Answers!Next
      <4>3. CASE pc[r] # "idle" BY <4>1, <4>3, <3>1, <2>1
      <4>4. QED BY <4>2, <4>3
    <3>6. QED BY <2>1, <3>3, <3>4, <3>5 DEF Returned
  <2>2. ASSUME UNCHANGED pc, Ran' = Ran PROVE [Answers!Next]_<<Asked, Ran, Outcome>>
    BY <2>0, <2>2 DEF Asked
  <2> USE DEF Goto, PcSet, Returned
  <2>3. ASSUME NEW r \in Requests, AgentRuns(r)
        PROVE  [Answers!Next]_<<Asked, Ran, Outcome>>
    <3>1. UNCHANGED pc /\ wire[r] = "unread" /\ wire' = [wire EXCEPT ![r] = "running"]
      BY <2>3 DEF AgentRuns
    <3>2. r \in Asked \ Ran BY <3>1, <2>00 DEF Channels, Asked, Ran
    <3>3. Ran' = Ran \cup {r} BY <3>1, <2>00 DEF Ran, TypeOK
    <3>4. Asked' = Asked /\ Outcome' = Outcome BY <2>0, <3>1 DEF Asked
    <3>5. Answers!Run(r) BY <3>2, <3>3, <3>4 DEF Answers!Run
    <3>6. QED BY <3>5 DEF Answers!Next
  <2>4. ASSUME NEW r \in Requests,
               \/ Call(r) \/ LoseInitRace(r) \/ WinInitRace(r) \/ StartDemux(r)
               \/ ConnectTimeout(r) \/ Enter(r) \/ Register(r) \/ Recheck(r)
               \/ LockWrite(r) \/ WriteFail(r) \/ PoisonStream(r) \/ GiveUp(r)
        PROVE  [Answers!Next]_<<Asked, Ran, Outcome>>
    <3>1. Ran' = Ran
      BY <2>4 DEF Ran, Call, LoseInitRace, WinInitRace, StartDemux, ConnectTimeout,
                  Enter, Register, Recheck, LockWrite, WriteFail, PoisonStream, GiveUp
    <3>2. PICK label \in PcSet \ {"idle", "replied"} : pc' = [pc EXCEPT ![r] = label]
      BY <2>4 DEF Call, LoseInitRace, WinInitRace, StartDemux, ConnectTimeout,
                  Enter, Register, Recheck, LockWrite, WriteFail, PoisonStream, GiveUp
    <3>3. pc[r] \notin Returned
      BY <2>4 DEF Call, LoseInitRace, WinInitRace, StartDemux, ConnectTimeout,
                  Enter, Register, Recheck, LockWrite, WriteFail, PoisonStream, GiveUp
    <3>4. pc[r] = "idle" => label \notin Returned
      <4>1. CASE Call(r) BY <4>1, <3>2, <2>00 DEF Call, TypeOK
      <4>2. CASE ~Call(r)
        BY <4>2, <2>4
        DEF LoseInitRace, WinInitRace, StartDemux, ConnectTimeout, Enter, Register,
            Recheck, LockWrite, WriteFail, PoisonStream, GiveUp
      <4>3. QED BY <4>1, <4>2
    <3>5. QED BY <2>1, <3>1, <3>2, <3>3, <3>4
  <2>5. ASSUME NEW r \in Requests, WriteOk(r)
        PROVE  [Answers!Next]_<<Asked, Ran, Outcome>>
    <3>1. wire[r] = "unsent" BY <2>5, <2>00 DEF WriteOk, Channels
    <3>2. Ran' = Ran BY <2>5, <3>1, <2>00 DEF WriteOk, Ran, TypeOK
    <3>3. pc[r] = "writing" /\ pc' = [pc EXCEPT ![r] = "waiting"] BY <2>5 DEF WriteOk
    <3>4. QED BY <2>1, <3>2, <3>3
  <2>6. ASSUME NEW r \in Requests, Receive(r)
        PROVE  [Answers!Next]_<<Asked, Ran, Outcome>>
    <3>1. pc[r] = "waiting" /\ Ran' = Ran BY <2>6 DEF Receive, Ran
    <3>2. CASE chan[r] = "error" BY <2>1, <2>6, <3>1, <3>2 DEF Receive
    <3>3. CASE chan[r] # "error"
      <4>1. wire[r] = "read" BY <2>6, <2>00, <3>3 DEF Receive, Channels
      <4>2. r \in Ran BY <4>1 DEF Ran
      <4>3. pc' = [pc EXCEPT ![r] = "replied"] BY <2>6, <3>3 DEF Receive
      <4>4. QED BY <2>1, <3>1, <4>2, <4>3
    <3>4. QED BY <3>2, <3>3
  <2>7. ASSUME NEW r \in Requests, AgentAnswers(r) \/ Route(r)
        PROVE  [Answers!Next]_<<Asked, Ran, Outcome>>
    <3>1. UNCHANGED pc /\ Ran' = Ran
      BY <2>7, <2>00 DEF AgentAnswers, Route, Ran, TypeOK
    <3>2. QED BY <2>2, <3>1
  <2>8. CASE AgentConnects \/ ReadFails \/ Drain \/ Quiet \/ UNCHANGED vars
    <3>1. UNCHANGED pc /\ Ran' = Ran
      BY <2>8 DEF AgentConnects, ReadFails, Drain, Quiet, vars, Ran
    <3>2. QED BY <2>2, <3>1
  <2>9. QED
    BY <2>3, <2>4, <2>5, <2>6, <2>7, <2>8 DEF Next, RequestStep, AgentStep
<1>3. QED
  BY <1>1, <1>2, Invariance, PTL DEF Spec, ImplementsRpc, Answers!Spec
=============================================================================
