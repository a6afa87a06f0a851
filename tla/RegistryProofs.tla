--------------------------- MODULE RegistryProofs ---------------------------
(* Proofs about Registry, for every value of its constants.                 *)
(*                                                                          *)
(* The inductive invariant is Typing /\ Stages /\ Owners /\ Account /\      *)
(* CallFresh: how far a boot has come fixes where its entry and its VM can  *)
(* be; each entry has one owner; the counter counts; and a session is never *)
(* longer idle than any call on it has been running.                        *)
EXTENDS Registry, Integers, FiniteSetTheorems, TLAPS

(* TypeOK, but for the counter, which only Account keeps from underflowing. *)
Typing ==
  /\ boot \in [Boots -> BootStages]
  /\ sessions \in SUBSET Boots
  /\ reserving \in Int
  /\ vm \in [Boots -> {"none", "starting", "failed", "up", "down"}]
  /\ idle \in [Boots -> 0..(IdleTtl + 1)]
  /\ view \in SUBSET Boots
  /\ viewers \in [Boots -> 0..MaxViewers]
  /\ call \in [Callers -> Calls \cup {NoCall}]
  /\ queue \in [Finishers -> SUBSET Boots]
  /\ teardown \in [Boots -> {"no", "view", "stop", "join", "done"}]
  /\ phase \in {"serving", "draining", "stopping", "dropping", "exited"}
  /\ runs \in 0..MaxRuns

-----------------------------------------------------------------------------
LEMMA NewCall ==
  ASSUME NEW b \in Boots, NEW poll \in BOOLEAN
  PROVE  [id |-> b, age |-> 0, poll |-> poll] \in Calls
BY RegistryAssumption DEF Calls

LEMMA TypingInit == Init => Typing
BY RegistryAssumption DEF Init, Typing, BootStages

LEMMA TypingStep == Typing /\ [Next]_vars => Typing'
<1> SUFFICES ASSUME Typing, [Next]_vars PROVE Typing'
  OBVIOUS
<1> USE RegistryAssumption DEF Typing
<1>1. ASSUME NEW b \in Boots, StartStep(b) PROVE Typing'
  <2>1. CASE StartRefuse(b) BY <2>1 DEF StartRefuse, BootStages
  <2>2. CASE StartReserve(b) BY <2>2 DEF StartReserve, BootStages
  <2>3. CASE StartFail(b) BY <2>3 DEF StartFail, BootStages
  <2>4. CASE SpawnThread(b) BY <2>4 DEF SpawnThread, BootStages
  <2>5. CASE StartInsert(b) BY <2>5 DEF StartInsert, BootStages
  <2>6. CASE StartCommit(b) BY <2>6 DEF StartCommit, BootStages
  <2>7. CASE StartSettle(b)
    <3>1. call' \in [Callers -> Calls \cup {NoCall}]
      BY <2>7, NewCall DEF StartSettle
    <3>2. QED BY <2>7, <3>1 DEF StartSettle, BootStages
  <2>8. QED
    BY <1>1, <2>1, <2>2, <2>3, <2>4, <2>5, <2>6, <2>7 DEF StartStep
<1>2. ASSUME NEW b \in Boots, ThreadStep(b) \/ GuestEnds(b) PROVE Typing'
  BY <1>2 DEF ThreadStep, SessionUp, SessionFails, StopTakesEffect, GuestEnds
<1>3. ASSUME NEW b \in Boots, ViewStep(b) PROVE Typing'
  BY <1>3 DEF ViewStep, OpenView, ViewerConnects, ViewerLeaves
<1>4. ASSUME NEW c \in Clients, NEW b \in Boots, Stop(c, b) PROVE Typing'
  BY <1>4 DEF Stop, Finishers
<1>5. ASSUME NEW c \in Clients, NEW b \in Boots, NEW poll \in BOOLEAN,
             BeginCall(c, b, poll)
      PROVE  Typing'
  <2>1. call' \in [Callers -> Calls \cup {NoCall}]
    BY <1>5, NewCall DEF BeginCall
  <2>2. QED BY <1>5, <2>1 DEF BeginCall
<1>6. ASSUME NEW t \in Callers, PollAgain(t) PROVE Typing'
  <2>1. call[t] \in Calls BY <1>6 DEF PollAgain
  <2>2. call' \in [Callers -> Calls \cup {NoCall}]
    BY <1>6, <2>1 DEF PollAgain, Calls
  <2>3. idle' \in [Boots -> 0..(IdleTtl + 1)]
    BY <1>6 DEF PollAgain, Touch
  <2>4. QED BY <1>6, <2>2, <2>3 DEF PollAgain
<1>7. ASSUME NEW t \in Callers, EndCall(t) PROVE Typing'
  BY <1>7 DEF EndCall, BootStages
<1>8. ASSUME NEW f \in Finishers, NEW b \in Boots, FinishStep(f, b) PROVE Typing'
  BY <1>8 DEF FinishStep, FinishView, FinishStop, FinishJoin
<1>9. CASE SweepIdle
  BY <1>9 DEF SweepIdle, Stale, Finishers
<1>10. CASE Signal \/ ShutdownStep
  BY <1>10 DEF Signal, ShutdownStep, StopAll, MainReturns, Exit, Finishers
<1>11. CASE RunBegins \/ RunEnds \/ Exited \/ UNCHANGED vars
  BY <1>11 DEF RunBegins, RunEnds, Exited, vars
<1>12. CASE Tick
  <2>1. ASSUME NEW t \in Callers, call[t] # NoCall
        PROVE  [call[t] EXCEPT !.age = @ + 1] \in Calls
    BY <1>12, <2>1 DEF Tick, Calls
  <2>2. call' \in [Callers -> Calls \cup {NoCall}]
    BY <1>12, <2>1 DEF Tick
  <2>3. idle' \in [Boots -> 0..(IdleTtl + 1)]
    BY <1>12 DEF Tick
  <2>4. QED BY <1>12, <2>2, <2>3 DEF Tick
<1>13. QED
  BY <1>1, <1>2, <1>3, <1>4, <1>5, <1>6, <1>7, <1>8, <1>9, <1>10, <1>11, <1>12
  DEF Next

-----------------------------------------------------------------------------
(* What the stage of a boot says about its VM, its entry and its calls.     *)
Stages ==
  /\ \A b \in Boots :
       boot[b] \in {"new", "refused", "reserved"} => vm[b] = "none"
  /\ \A b \in Boots :
       boot[b] \in {"new", "refused", "reserved", "booting", "failed"} =>
         teardown[b] = "no" /\ b \notin sessions
  /\ \A b \in sessions : teardown[b] = "no"
  /\ \A b \in Boots : call[b] # NoCall => boot[b] = "settling"
  /\ phase \in {"serving", "draining"} => queue[Shutdown] = {}
  /\ \A b \in Boots : viewers[b] > 0 => b \in view

(* The counter, and the cap it enforces.                                    *)
Account ==
  /\ IsFiniteSet(sessions)
  /\ IsFiniteSet(Holding)
  /\ ReservationExact
  /\ CapRespected

(* A session has been idle for at most as long as a call on it has run.     *)
CallFresh ==
  \A t \in Callers :
    call[t] # NoCall /\ call[t].id \in sessions => idle[call[t].id] <= call[t].age

-----------------------------------------------------------------------------
LEMMA StagesInit == Init => Stages
BY DEF Init, Stages, Callers, Finishers, Shutdown

LEMMA StagesStep == Typing /\ Stages /\ OneOwner /\ [Next]_vars => Stages'
<1> SUFFICES ASSUME Typing, Stages, OneOwner, [Next]_vars PROVE Stages'
  OBVIOUS
<1> USE RegistryAssumption DEF Typing, Stages
<1>1. ASSUME NEW b \in Boots, StartStep(b) PROVE Stages'
  <2>1. CASE StartRefuse(b) BY <2>1 DEF StartRefuse
  <2>2. CASE StartReserve(b) BY <2>2 DEF StartReserve
  <2>3. CASE StartFail(b) BY <2>3 DEF StartFail
  <2>4. CASE SpawnThread(b) BY <2>4 DEF SpawnThread
  <2>5. CASE StartInsert(b) BY <2>5 DEF StartInsert
  <2>6. CASE StartCommit(b) BY <2>6 DEF StartCommit
  <2>7. CASE StartSettle(b) BY <2>7 DEF StartSettle, Callers
  <2>8. QED
    BY <1>1, <2>1, <2>2, <2>3, <2>4, <2>5, <2>6, <2>7 DEF StartStep
<1>2. ASSUME NEW b \in Boots, ThreadStep(b) \/ GuestEnds(b) PROVE Stages'
  BY <1>2 DEF ThreadStep, SessionUp, SessionFails, StopTakesEffect, GuestEnds
<1>3. ASSUME NEW b \in Boots, ViewStep(b) PROVE Stages'
  BY <1>3 DEF ViewStep, OpenView, ViewerConnects, ViewerLeaves
<1>4. ASSUME NEW c \in Clients, NEW b \in Boots, Stop(c, b) PROVE Stages'
  BY <1>4 DEF Stop, Finishers, Shutdown
<1>5. ASSUME NEW c \in Clients, NEW b \in Boots, NEW poll \in BOOLEAN,
             BeginCall(c, b, poll)
      PROVE  Stages'
  BY <1>5 DEF BeginCall, Callers
<1>6. ASSUME NEW t \in Callers, PollAgain(t) PROVE Stages'
  BY <1>6 DEF PollAgain, Callers
<1>7. ASSUME NEW t \in Callers, EndCall(t) PROVE Stages'
  BY <1>7 DEF EndCall, Callers
<1>8. ASSUME NEW f \in Finishers, NEW b \in Boots, FinishStep(f, b) PROVE Stages'
  <2>1. teardown[b] # "no"
    BY <1>8 DEF FinishStep, FinishView, FinishStop, FinishJoin
  <2>2. QED
    BY <1>8, <2>1
    DEF FinishStep, FinishView, FinishStop, FinishJoin, Finishers, Shutdown
<1>9. CASE SweepIdle
  BY <1>9 DEF SweepIdle, Stale, Finishers, Sweeper, Shutdown
<1>10. CASE Signal \/ ShutdownStep
  BY <1>10 DEF Signal, ShutdownStep, StopAll, MainReturns, Exit, Finishers, Shutdown
<1>11. CASE RunBegins \/ RunEnds \/ Exited \/ UNCHANGED vars
  BY <1>11 DEF RunBegins, RunEnds, Exited, vars
<1>12. CASE Tick
  BY <1>12 DEF Tick, Callers
<1>13. QED
  BY <1>1, <1>2, <1>3, <1>4, <1>5, <1>6, <1>7, <1>8, <1>9, <1>10, <1>11, <1>12
  DEF Next

-----------------------------------------------------------------------------
LEMMA OwnersInit == Init => OneOwner /\ NoOrphanVm
BY DEF Init, OneOwner, NoOrphanVm

LEMMA OwnersStep ==
  Typing /\ Stages /\ OneOwner /\ NoOrphanVm /\ [Next]_vars
    => OneOwner' /\ NoOrphanVm'
<1> SUFFICES ASSUME Typing, Stages, OneOwner, NoOrphanVm, [Next]_vars
             PROVE  OneOwner' /\ NoOrphanVm'
  OBVIOUS
<1> USE RegistryAssumption DEF Typing, OneOwner, NoOrphanVm
<1>1. ASSUME NEW b \in Boots, StartStep(b) PROVE OneOwner' /\ NoOrphanVm'
  <2>1. CASE StartRefuse(b) BY <2>1 DEF StartRefuse
  <2>2. CASE StartReserve(b) BY <2>2 DEF StartReserve
  <2>3. CASE StartFail(b) BY <2>3 DEF StartFail, Stages
  <2>4. CASE SpawnThread(b) BY <2>4 DEF SpawnThread
  <2>5. CASE StartInsert(b)
    <3>1. teardown[b] = "no" BY <2>5 DEF StartInsert, Stages
    <3>2. \A f \in Finishers : b \notin queue[f] BY <3>1
    <3>3. OneOwner' BY <2>5, <3>2 DEF StartInsert
    <3>4. NoOrphanVm' BY <2>5 DEF StartInsert
    <3>5. QED BY <3>3, <3>4
  <2>6. CASE StartCommit(b) BY <2>6 DEF StartCommit
  <2>7. CASE StartSettle(b) BY <2>7 DEF StartSettle
  <2>8. QED
    BY <1>1, <2>1, <2>2, <2>3, <2>4, <2>5, <2>6, <2>7 DEF StartStep
<1>2. ASSUME NEW b \in Boots, ThreadStep(b) \/ GuestEnds(b)
      PROVE  OneOwner' /\ NoOrphanVm'
  BY <1>2 DEF ThreadStep, SessionUp, SessionFails, StopTakesEffect, GuestEnds
<1>3. ASSUME NEW b \in Boots, ViewStep(b) PROVE OneOwner' /\ NoOrphanVm'
  BY <1>3 DEF ViewStep, OpenView, ViewerConnects, ViewerLeaves
<1>4. ASSUME NEW c \in Clients, NEW b \in Boots, Stop(c, b)
      PROVE  OneOwner' /\ NoOrphanVm'
  <2>1. c \in Finishers BY DEF Finishers
  <2>2. queue'[c] = {b} /\ \A f \in Finishers : f # c => queue'[f] = queue[f]
    BY <1>4, <2>1 DEF Stop
  <2>3. \A f \in Finishers : b \notin queue[f] BY <1>4 DEF Stop
  <2>4. OneOwner' BY <1>4, <2>1, <2>2, <2>3 DEF Stop
  <2>5. NoOrphanVm' BY <1>4, <2>1, <2>2 DEF Stop
  <2>6. QED BY <2>4, <2>5
<1>5. ASSUME NEW c \in Clients, NEW b \in Boots, NEW poll \in BOOLEAN,
             BeginCall(c, b, poll)
      PROVE  OneOwner' /\ NoOrphanVm'
  BY <1>5 DEF BeginCall
<1>6. ASSUME NEW t \in Callers, PollAgain(t) PROVE OneOwner' /\ NoOrphanVm'
  BY <1>6 DEF PollAgain
<1>7. ASSUME NEW t \in Callers, EndCall(t) PROVE OneOwner' /\ NoOrphanVm'
  BY <1>7 DEF EndCall, Stages
<1>8. ASSUME NEW f \in Finishers, NEW b \in Boots, FinishStep(f, b)
      PROVE  OneOwner' /\ NoOrphanVm'
  <2>1. CASE FinishView(f, b) BY <2>1 DEF FinishView
  <2>2. CASE FinishStop(f, b) BY <2>2 DEF FinishStop
  <2>3. CASE FinishJoin(f, b)
    <3>1. \A g \in Finishers : b \notin queue'[g]
      BY <2>3 DEF FinishJoin
    <3>2. OneOwner' BY <2>3, <3>1 DEF FinishJoin
    <3>3. NoOrphanVm' BY <2>3 DEF FinishJoin
    <3>4. QED BY <3>2, <3>3
  <2>4. QED BY <1>8, <2>1, <2>2, <2>3 DEF FinishStep
<1>9. CASE SweepIdle
  <2>1. Sweeper \in Finishers /\ Stale \subseteq sessions
    BY DEF Finishers, Stale
  <2>2. /\ queue'[Sweeper] = Stale
        /\ \A f \in Finishers : f # Sweeper => queue'[f] = queue[f]
    BY <1>9, <2>1 DEF SweepIdle
  <2>3. OneOwner' BY <1>9, <2>1, <2>2 DEF SweepIdle
  <2>4. NoOrphanVm' BY <1>9, <2>1, <2>2 DEF SweepIdle
  <2>5. QED BY <2>3, <2>4
<1>10. CASE StopAll
  <2>1. Shutdown \in Finishers /\ queue[Shutdown] = {}
    BY <1>10 DEF Finishers, StopAll, Stages
  <2>2. /\ queue'[Shutdown] = sessions
        /\ \A f \in Finishers : f # Shutdown => queue'[f] = queue[f]
    BY <1>10, <2>1 DEF StopAll
  <2>3. OneOwner' BY <1>10, <2>1, <2>2 DEF StopAll
  <2>4. NoOrphanVm' BY <1>10, <2>1, <2>2 DEF StopAll
  <2>5. QED BY <2>3, <2>4
<1>11. CASE \/ Signal \/ MainReturns \/ Exit \/ Exited \/ Tick
            \/ RunBegins \/ RunEnds \/ UNCHANGED vars
  BY <1>11 DEF Signal, MainReturns, Exit, Exited, Tick, RunBegins, RunEnds, vars
<1>12. QED
  BY <1>1, <1>2, <1>3, <1>4, <1>5, <1>6, <1>7, <1>8, <1>9, <1>10, <1>11
  DEF Next, ShutdownStep

-----------------------------------------------------------------------------
LEMMA AccountInit == Init => Account
<1> SUFFICES ASSUME Init PROVE Account
  OBVIOUS
<1>1. sessions = {} /\ Holding = {} /\ Held = {} /\ reserving = 0
  BY DEF Init, Holding, Held, Pending
<1>2. QED
  BY <1>1, FS_EmptySet, RegistryAssumption
  DEF Account, ReservationExact, CapRespected

(* The slots in use, finite because the map and the counter are.            *)
LEMMA HeldFinite ==
  ASSUME Typing, Account
  PROVE  /\ IsFiniteSet(Held)
         /\ Cardinality(Held) <= Cardinality(sessions) + Cardinality(Holding)
         /\ Cardinality(sessions) \in Nat /\ Cardinality(Holding) \in Nat
<1>1. Pending \in SUBSET Holding
  BY DEF Pending, Holding
<1>2. IsFiniteSet(Pending) /\ Cardinality(Pending) <= Cardinality(Holding)
  BY <1>1, FS_Subset DEF Account
<1>3. /\ IsFiniteSet(sessions \cup Pending)
      /\ Cardinality(sessions \cup Pending) =
           Cardinality(sessions) + Cardinality(Pending)
             - Cardinality(sessions \cap Pending)
  BY <1>2, FS_Union DEF Account
<1>4. IsFiniteSet(sessions \cap Pending)
  BY <1>2, FS_Subset
<1>5. /\ Cardinality(sessions \cap Pending) \in Nat
      /\ Cardinality(sessions) \in Nat
      /\ Cardinality(Pending) \in Nat
      /\ Cardinality(Holding) \in Nat
  BY <1>2, <1>4, FS_CardinalityType DEF Account
<1>6. QED
  BY <1>2, <1>3, <1>5 DEF Held

(* A step that reserves nothing and frees some slots keeps the account.     *)
LEMMA AccountShrinks ==
  ASSUME Typing, Account,
         Holding' = Holding, reserving' = reserving,
         IsFiniteSet(sessions'), Held' \in SUBSET Held
  PROVE  Account'
<1>1. IsFiniteSet(Held) /\ Cardinality(Held) <= Max
  BY HeldFinite DEF Account, CapRespected
<1>2. IsFiniteSet(Held') /\ Cardinality(Held') <= Cardinality(Held)
  BY <1>1, FS_Subset
<1>3. Cardinality(Held) \in Nat /\ Cardinality(Held') \in Nat
  BY <1>1, <1>2, FS_CardinalityType
<1>4. Cardinality(Held') <= Max
  BY <1>1, <1>2, <1>3, RegistryAssumption
<1>5. QED
  BY <1>4 DEF Account, ReservationExact, CapRespected

LEMMA AccountStep == Typing /\ Stages /\ Account /\ [Next]_vars => Account'
<1> SUFFICES ASSUME Typing, Stages, Account, [Next]_vars PROVE Account'
  OBVIOUS
<1> USE RegistryAssumption
<1>1. ASSUME NEW b \in Boots, StartReserve(b) PROVE Account'
  <2>1. /\ Holding' = Holding \cup {b} /\ b \notin Holding
        /\ Held' = Held \cup {b}
        /\ sessions' = sessions /\ reserving' = reserving + 1
    BY <1>1 DEF StartReserve, Typing, Holding, Held, Pending
  <2>2. Cardinality(sessions) + Cardinality(Holding) < Max
    BY <1>1, HeldFinite DEF StartReserve, AtCap, Account, ReservationExact
  <2>3. /\ IsFiniteSet(Holding')
        /\ Cardinality(Holding') = Cardinality(Holding) + 1
    BY <2>1, FS_AddElement DEF Account
  <2>4. IsFiniteSet(Held) /\ Cardinality(Held) \in Nat
    BY HeldFinite, FS_CardinalityType
  <2>5. Cardinality(Held') = IF b \in Held THEN Cardinality(Held)
                                          ELSE Cardinality(Held) + 1
    BY <2>1, <2>4, FS_AddElement
  <2>6. Cardinality(Held') <= Max
    BY <2>2, <2>4, <2>5, HeldFinite
  <2>7. QED
    BY <2>1, <2>3, <2>6 DEF Account, ReservationExact, CapRespected
<1>2. ASSUME NEW b \in Boots, StartFail(b) \/ StartCommit(b) PROVE Account'
  <2>1. /\ Holding' = Holding \ {b} /\ b \in Holding
        /\ sessions' = sessions /\ reserving' = reserving - 1
    BY <1>2 DEF StartFail, StartCommit, Typing, Holding
  <2>2. Held' \in SUBSET Held
    BY <1>2, <2>1 DEF StartFail, StartCommit, Typing, Held, Pending
  <2>3. IsFiniteSet(Held) /\ Cardinality(Held) <= Max
    BY HeldFinite DEF Account, CapRespected
  <2>4. /\ Cardinality(Held') <= Cardinality(Held)
        /\ Cardinality(Held') \in Nat /\ Cardinality(Held) \in Nat
    BY <2>2, <2>3, FS_Subset, FS_CardinalityType
  <2>5. /\ IsFiniteSet(Holding')
        /\ Cardinality(Holding') = Cardinality(Holding) - 1
    BY <2>1, FS_RemoveElement DEF Account
  <2>6. Cardinality(Held') <= Max
    BY <2>3, <2>4
  <2>7. QED
    BY <2>1, <2>5, <2>6 DEF Account, ReservationExact, CapRespected
<1>3. ASSUME NEW b \in Boots, StartInsert(b) PROVE Account'
  <2>1. /\ Holding' = Holding /\ Held' = Held /\ reserving' = reserving
        /\ sessions' = sessions \cup {b}
    BY <1>3 DEF StartInsert, Typing, Holding, Held, Pending
  <2>2. IsFiniteSet(sessions')
    BY <2>1, FS_AddElement DEF Account
  <2>3. QED BY <2>1, <2>2, AccountShrinks
<1>4. ASSUME NEW b \in Boots,
             StartRefuse(b) \/ SpawnThread(b) \/ StartSettle(b)
      PROVE  Account'
  <2>1. /\ Holding' = Holding /\ Held' = Held /\ reserving' = reserving
        /\ sessions' = sessions
    BY <1>4 DEF StartRefuse, SpawnThread, StartSettle, Typing, Holding, Held, Pending
  <2>2. QED BY <2>1, AccountShrinks DEF Account
<1>5. ASSUME NEW t \in Callers, EndCall(t) PROVE Account'
  <2>1. \A b \in Boots : boot'[b] # boot[b] => boot[b] = "settling" /\ boot'[b] = "returned"
    BY <1>5 DEF EndCall, Typing, Stages
  <2>2. Holding' = Holding /\ Pending' = Pending
    BY <2>1 DEF Holding, Pending
  <2>3. QED BY <1>5, <2>2, AccountShrinks DEF EndCall, Held, Account
<1>6. CASE SweepIdle \/ StopAll \/ \E c \in Clients, b \in Boots : Stop(c, b)
  <2>1. /\ sessions' \in SUBSET sessions
        /\ boot' = boot /\ reserving' = reserving
    BY <1>6 DEF SweepIdle, StopAll, Stop
  <2>2. Holding' = Holding /\ Pending' = Pending
    BY <2>1 DEF Holding, Pending
  <2>3. IsFiniteSet(sessions')
    BY <2>1, FS_Subset DEF Account
  <2>4. QED BY <2>1, <2>2, <2>3, AccountShrinks DEF Held
<1>7. CASE UNCHANGED <<boot, sessions, reserving>>
  BY <1>7, AccountShrinks DEF Account, Holding, Held, Pending
<1>8. QED
  <2>1. CASE \E b \in Boots : StartStep(b)
    BY <2>1, <1>1, <1>2, <1>3, <1>4 DEF StartStep
  <2>2. CASE \E b \in Boots : ThreadStep(b) \/ GuestEnds(b) \/ ViewStep(b)
    BY <2>2, <1>7 DEF ThreadStep, SessionUp, SessionFails, StopTakesEffect,
                      GuestEnds, ViewStep, OpenView, ViewerConnects, ViewerLeaves
  <2>3. CASE \E c \in Clients, b \in Boots :
               Stop(c, b) \/ \E poll \in BOOLEAN : BeginCall(c, b, poll)
    BY <2>3, <1>6, <1>7 DEF BeginCall
  <2>4. CASE \E t \in Callers : PollAgain(t) \/ EndCall(t)
    BY <2>4, <1>5, <1>7 DEF PollAgain
  <2>5. CASE \E f \in Finishers, b \in Boots : FinishStep(f, b)
    BY <2>5, <1>7 DEF FinishStep, FinishView, FinishStop, FinishJoin
  <2>6. CASE \/ SweepIdle \/ Signal \/ ShutdownStep \/ Exited \/ Tick
             \/ RunBegins \/ RunEnds \/ UNCHANGED vars
    BY <2>6, <1>6, <1>7
    DEF Signal, ShutdownStep, MainReturns, Exit, Exited, Tick, RunBegins,
        RunEnds, vars
  <2>7. QED BY <2>1, <2>2, <2>3, <2>4, <2>5, <2>6 DEF Next

-----------------------------------------------------------------------------
LEMMA CallFreshInit == Init => CallFresh
BY DEF Init, CallFresh

LEMMA CallFreshStep == Typing /\ CallFresh /\ [Next]_vars => CallFresh'
<1> SUFFICES ASSUME Typing, CallFresh, [Next]_vars,
                    NEW t \in Callers, call'[t] # NoCall, call'[t].id \in sessions'
             PROVE  idle'[call'[t].id] <= call'[t].age
  BY DEF CallFresh
<1> DEFINE s == call'[t].id
<1> USE RegistryAssumption DEF Typing, CallFresh
<1>0. \A x \in Callers : call[x] # NoCall => call[x] \in Calls
  OBVIOUS
<1>1. ASSUME NEW b \in Boots, StartInsert(b) PROVE idle'[s] <= call'[t].age
  BY <1>0, <1>1 DEF StartInsert, Calls
<1>2. ASSUME NEW b \in Boots, StartSettle(b) PROVE idle'[s] <= call'[t].age
  BY <1>0, <1>2 DEF StartSettle, Calls
<1>3. ASSUME NEW b \in Boots, OpenView(b) PROVE idle'[s] <= call'[t].age
  BY <1>0, <1>3 DEF OpenView, Calls
<1>4. ASSUME NEW c \in Clients, NEW b \in Boots, NEW poll \in BOOLEAN,
             BeginCall(c, b, poll)
      PROVE  idle'[s] <= call'[t].age
  <2>1. CASE t = c BY <1>4, <2>1 DEF BeginCall
  <2>2. CASE t # c BY <1>0, <1>4, <2>2 DEF BeginCall, Calls
  <2>3. QED BY <2>1, <2>2
<1>5. ASSUME NEW u \in Callers, PollAgain(u) PROVE idle'[s] <= call'[t].age
  <2>1. CASE t = u BY <1>0, <1>5, <2>1 DEF PollAgain, Touch, Calls
  <2>2. CASE t # u BY <1>0, <1>5, <2>2 DEF PollAgain, Touch, Calls
  <2>3. QED BY <2>1, <2>2
<1>6. ASSUME NEW u \in Callers, EndCall(u) PROVE idle'[s] <= call'[t].age
  BY <1>0, <1>6 DEF EndCall
<1>7. CASE SweepIdle \/ StopAll \/ \E c \in Clients, b \in Boots : Stop(c, b)
  BY <1>0, <1>7 DEF SweepIdle, StopAll, Stop, Calls
<1>8. CASE Tick
  BY <1>0, <1>8 DEF Tick, Calls
<1>9. CASE UNCHANGED <<sessions, idle, call>>
  BY <1>9
<1>10. QED
  <2>1. CASE \E b \in Boots : StartStep(b)
    BY <2>1, <1>1, <1>2, <1>9
    DEF StartStep, StartRefuse, StartReserve, StartFail, SpawnThread, StartCommit
  <2>2. CASE \E b \in Boots : ThreadStep(b) \/ GuestEnds(b) \/ ViewStep(b)
    BY <2>2, <1>3, <1>9 DEF ThreadStep, SessionUp, SessionFails, StopTakesEffect,
                            GuestEnds, ViewStep, ViewerConnects, ViewerLeaves
  <2>3. CASE \E c \in Clients, b \in Boots :
               Stop(c, b) \/ \E poll \in BOOLEAN : BeginCall(c, b, poll)
    BY <2>3, <1>4, <1>7
  <2>4. CASE \E u \in Callers : PollAgain(u) \/ EndCall(u)
    BY <2>4, <1>5, <1>6
  <2>5. CASE \E f \in Finishers, b \in Boots : FinishStep(f, b)
    BY <2>5, <1>9 DEF FinishStep, FinishView, FinishStop, FinishJoin
  <2>6. CASE \/ SweepIdle \/ Signal \/ ShutdownStep \/ Exited \/ Tick
             \/ RunBegins \/ RunEnds \/ UNCHANGED vars
    BY <2>6, <1>7, <1>8, <1>9
    DEF Signal, ShutdownStep, MainReturns, Exit, Exited, RunBegins, RunEnds,
        vars
  <2>7. QED BY <2>1, <2>2, <2>3, <2>4, <2>5, <2>6 DEF Next

-----------------------------------------------------------------------------
Inv == Typing /\ Stages /\ OneOwner /\ NoOrphanVm /\ Account /\ CallFresh

LEMMA Invariance == Spec => []Inv
<1>1. Init => Inv
  BY TypingInit, StagesInit, OwnersInit, AccountInit, CallFreshInit DEF Inv
<1>2. Inv /\ [Next]_vars => Inv'
  BY TypingStep, StagesStep, OwnersStep, AccountStep, CallFreshStep DEF Inv
<1>3. QED
  BY <1>1, <1>2, PTL DEF Spec

(* Every variable keeps its type; in particular the in-flight counter, an   *)
(* unsigned atomic in the code, never goes below zero.                      *)
THEOREM TypeCorrect == Spec => []TypeOK
<1>1. Inv => TypeOK
  <2> SUFFICES ASSUME Inv PROVE TypeOK
    OBVIOUS
  <2>1. reserving \in Nat
    BY HeldFinite DEF Inv, Account, ReservationExact
  <2>2. QED BY <2>1 DEF Inv, Typing, TypeOK
<1>2. QED BY <1>1, Invariance, PTL

(* The cap: registry.rs:174-189 admits no more sessions than Max, whatever  *)
(* starts, stops and sweeps overlap.                                        *)
THEOREM CapSafe == Spec => []CapRespected
<1>1. Inv => CapRespected BY DEF Inv, Account
<1>2. QED BY <1>1, Invariance, PTL

(* No path of start() leaks a reservation or releases one twice.            *)
THEOREM ReservationsSafe == Spec => []ReservationExact
<1>1. Inv => ReservationExact BY DEF Inv, Account
<1>2. QED BY <1>1, Invariance, PTL

(* Stop, sweep and shutdown never finish() the same entry twice.            *)
THEOREM OwnershipSafe == Spec => []OneOwner
<1>1. Inv => OneOwner BY DEF Inv
<1>2. QED BY <1>1, Invariance, PTL

(* A running VM is always known to somebody who will stop it.               *)
THEOREM OrphanFree == Spec => []NoOrphanVm
<1>1. Inv => NoOrphanVm BY DEF Inv
<1>2. QED BY <1>1, Invariance, PTL

(* The sweeper never takes a session out of the map while it is watched or  *)
(* a thread is blocked in a call on it.                                     *)
THEOREM SweepSafe == Spec => NeverReapedInUse
<1> DEFINE Kept ==
      \A b \in queue'[Sweeper] \ queue[Sweeper] :
         /\ viewers[b] = 0
         /\ \A t \in Callers : call[t] # NoCall => call[t].id # b
<1>1. Inv /\ [Next]_vars => [Kept]_vars
  <2> SUFFICES ASSUME Inv, [Next]_vars,
                      NEW b \in queue'[Sweeper] \ queue[Sweeper]
               PROVE  /\ viewers[b] = 0
                      /\ \A t \in Callers : call[t] # NoCall => call[t].id # b
    OBVIOUS
  <2> USE DEF Inv, Typing
  <2>1. SweepIdle
    <3>1. Sweeper \in Finishers BY DEF Finishers
    <3>2. Sweeper # Shutdown /\ Sweeper \notin Clients
      BY RegistryAssumption DEF Sweeper, Shutdown
    <3>3. CASE \E f \in Finishers, x \in Boots : FinishStep(f, x)
      BY <3>1, <3>3 DEF FinishStep, FinishView, FinishStop, FinishJoin
    <3>4. CASE \E c \in Clients, x \in Boots : Stop(c, x)
      BY <3>1, <3>2, <3>4 DEF Stop
    <3>5. CASE StopAll
      BY <3>1, <3>2, <3>5 DEF StopAll
    <3>6. CASE UNCHANGED queue
      BY <3>6
    <3>7. QED
      <4>1. CASE \E x \in Boots : StartStep(x)
        BY <4>1, <3>6 DEF StartStep, StartRefuse, StartReserve, StartFail,
                          SpawnThread, StartInsert, StartCommit, StartSettle
      <4>2. CASE \E x \in Boots : ThreadStep(x) \/ GuestEnds(x) \/ ViewStep(x)
        BY <4>2, <3>6 DEF ThreadStep, SessionUp, SessionFails, StopTakesEffect,
                          GuestEnds, ViewStep, OpenView, ViewerConnects, ViewerLeaves
      <4>3. CASE \E c \in Clients, x \in Boots : \E poll \in BOOLEAN : BeginCall(c, x, poll)
        BY <4>3, <3>6 DEF BeginCall
      <4>4. CASE \E t \in Callers : PollAgain(t) \/ EndCall(t)
        BY <4>4, <3>6 DEF PollAgain, EndCall
      <4>5. CASE \/ Signal \/ MainReturns \/ Exit \/ Exited \/ Tick
                 \/ RunBegins \/ RunEnds \/ UNCHANGED vars
        BY <4>5, <3>6 DEF Signal, MainReturns, Exit, Exited, Tick, RunBegins, RunEnds, vars
      <4>6. QED BY <4>1, <4>2, <4>3, <4>4, <4>5, <3>3, <3>4, <3>5 DEF Next, ShutdownStep
  <2>2. b \in Stale
    BY <2>1 DEF SweepIdle, Finishers
  <2>3. b \in sessions /\ b \notin Watched /\ idle[b] > IdleTtl
    BY <2>2 DEF Stale
  <2>4. viewers[b] = 0
    BY <2>3, RegistryAssumption DEF Watched, Stages
  <2>5. ASSUME NEW t \in Callers, call[t] # NoCall, call[t].id = b
        PROVE  FALSE
    <3>1. call[t] \in Calls BY <2>5
    <3>2. idle[b] <= call[t].age BY <2>3, <2>5 DEF CallFresh
    <3>3. QED BY <2>3, <3>1, <3>2, RegistryAssumption DEF Calls
  <2>6. QED BY <2>4, <2>5
<1>2. QED BY <1>1, Invariance, PTL DEF Spec, NeverReapedInUse

(* The registry implements the abstract slot pool: the critical section of  *)
(* start() is a grant, leaving the map or failing to boot is a release, and *)
(* the move from reservation to map entry is invisible.                     *)
THEOREM Refinement == Spec => ImplementsPool
<1>1. Init => Held = {}
  BY DEF Init, Held, Pending
<1>2. ASSUME Held' \in SUBSET Held PROVE [Pool!Next]_Held
  <2>1. CASE Held' = Held BY <2>1
  <2>2. CASE Held' # Held
    <3>1. /\ Held \ Held' # {} /\ Held \ Held' \in SUBSET Held
          /\ Held' = Held \ (Held \ Held')
      BY <1>2, <2>2
    <3>2. Pool!Release(Held \ Held')
      BY <3>1 DEF Pool!Release
    <3>3. QED BY <3>1, <3>2 DEF Pool!Next
  <2>3. QED BY <2>1, <2>2
<1>3. Inv /\ [Next]_vars => [Pool!Next]_Held
  <2> SUFFICES ASSUME Inv, [Next]_vars PROVE [Pool!Next]_Held
    OBVIOUS
  <2> USE RegistryAssumption DEF Inv
  <2>1. ASSUME NEW b \in Boots, StartReserve(b) PROVE [Pool!Next]_Held
    <3>1. b \notin Held /\ Held' = Held \cup {b}
      BY <2>1 DEF StartReserve, Typing, Stages, Held, Pending
    <3>2. Cardinality(sessions) + Cardinality(Holding) < Max
      BY <2>1, HeldFinite DEF StartReserve, AtCap, Account, ReservationExact
    <3>3. Cardinality(Held) < Max
      BY <3>2, HeldFinite, FS_CardinalityType
    <3>4. Pool!Cardinality(Held) = Cardinality(Held)
      BY DEF Pool!Cardinality, Cardinality, Pool!IsFiniteSet, IsFiniteSet
    <3>5. Pool!Grant(b) BY <3>1, <3>3, <3>4 DEF Pool!Grant
    <3>6. QED BY <3>5 DEF Pool!Next
  <2>2. ASSUME NEW b \in Boots, StartStep(b), ~StartReserve(b) PROVE Held' \in SUBSET Held
    BY <2>2 DEF StartStep, StartRefuse, StartFail, SpawnThread, StartInsert,
                StartCommit, StartSettle, Typing, Held, Pending
  <2>3. ASSUME NEW t \in Callers, EndCall(t) PROVE Held' \in SUBSET Held
    BY <2>3 DEF EndCall, Typing, Stages, Held, Pending
  <2>4. CASE SweepIdle \/ StopAll \/ \E c \in Clients, b \in Boots : Stop(c, b)
    BY <2>4, <1>2 DEF SweepIdle, StopAll, Stop, Held, Pending
  <2>5. CASE UNCHANGED <<boot, sessions>>
    <3>1. Held' = Held BY <2>5 DEF Held, Pending
    <3>2. QED BY <3>1
  <2>6. QED
    <3>1. CASE \E b \in Boots : StartStep(b)
      BY <3>1, <2>1, <2>2, <1>2
    <3>2. CASE \E b \in Boots : ThreadStep(b) \/ GuestEnds(b) \/ ViewStep(b)
      BY <3>2, <2>5 DEF ThreadStep, SessionUp, SessionFails, StopTakesEffect,
                        GuestEnds, ViewStep, OpenView, ViewerConnects, ViewerLeaves
    <3>3. CASE \E c \in Clients, b \in Boots :
                 Stop(c, b) \/ \E poll \in BOOLEAN : BeginCall(c, b, poll)
      BY <3>3, <2>4, <2>5 DEF BeginCall
    <3>4. CASE \E t \in Callers : PollAgain(t) \/ EndCall(t)
      BY <3>4, <2>3, <2>5, <1>2 DEF PollAgain
    <3>5. CASE \E f \in Finishers, b \in Boots : FinishStep(f, b)
      BY <3>5, <2>5 DEF FinishStep, FinishView, FinishStop, FinishJoin
    <3>6. CASE \/ SweepIdle \/ Signal \/ ShutdownStep \/ Exited \/ Tick
               \/ RunBegins \/ RunEnds \/ UNCHANGED vars
      BY <3>6, <2>4, <2>5
      DEF Signal, ShutdownStep, MainReturns, Exit, Exited, Tick, RunBegins,
        RunEnds, vars
    <3>7. QED BY <3>1, <3>2, <3>3, <3>4, <3>5, <3>6 DEF Next
<1>4. QED
  BY <1>1, <1>3, Invariance, PTL DEF Spec, ImplementsPool, Pool!Spec, Pool!Init
=============================================================================
