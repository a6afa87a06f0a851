--------------------------- MODULE TarCacheProofs ---------------------------
(* Proofs about TarCache, for any number of resolvers, errors and crashes.  *)
(*                                                                          *)
(* The inductive invariant IInv has four parts, each proved with those      *)
(* before it: Typing; Places, which names a tree may have and how far its   *)
(* resolver then is; Bodily, that a tree with a name was extracted; and     *)
(* Restorable, that a resolver which met no other still holds what it       *)
(* found, under dest or in its trash, unless two errors are behind it.  A   *)
(* tree that resists its removal is sealed, and stays so while its name is  *)
(* staging or trash: only what stands at dest is ever made writable.        *)
EXTENDS TarCache, TLAPS

(* The types of the variables. *)
Contents == [body : Bodies, marker : Markers \cup {"none"}, tmp : BOOLEAN]
Memories == [at : Trees \cup {None}, has : Bodies \cup {"unknown"}, ready : BOOLEAN]

Typing ==
  /\ pc \in [Processes -> Stages]
  /\ dest \in Trees \cup {None}
  /\ staging \subseteq Resolvers
  /\ trash \in [Resolvers -> Trees \cup {None}]
  /\ tree \in [Trees -> Contents]
  /\ victim \in [Processes -> Trees \cup {None}]
  /\ \A p \in Processes : pc[p] = "sweep" => victim[p] \in Trees
  /\ again \in BOOLEAN
  /\ sealed \subseteq Trees
  /\ faults \in 0..MaxFaults /\ crashes \in 0..MaxCrashes
  /\ before \in [Resolvers -> Memories]

\* The contents that the actions write are of their type.
LEMMA ContentsTyped ==
  /\ NoTree \in Contents
  /\ \A b \in Bodies : Content(b) \in Contents
  /\ [Content("whole") EXCEPT !.marker = "stale"] \in Contents
  /\ NotAlone \in Memories
BY DEF Contents, NoTree, Content, Bodies, Markers, Memories, NotAlone

\* So are those with one field changed.
LEMMA ContentsUpdated == ASSUME NEW c \in Contents PROVE
  /\ c.marker \in Markers \cup {"none"}
  /\ c.body \in Bodies
  /\ \A b \in Bodies : [c EXCEPT !.body = b] \in Contents
  /\ \A m \in Markers \cup {"none"} : [c EXCEPT !.marker = m] \in Contents
  /\ \A m \in Markers, f \in BOOLEAN : [c EXCEPT !.tmp = f, !.marker = m] \in Contents
  /\ \A f \in BOOLEAN : [c EXCEPT !.tmp = f] \in Contents
BY DEF Contents

\* None is no tree, and resolvers name trees and processes.
LEMMA TreesAre ==
  /\ Resolvers \subseteq Trees /\ Old \in Trees /\ None \notin Trees
  /\ \A r \in Resolvers : Husk(r) \in Trees
  /\ Resolvers \subseteq Processes /\ Other \in Processes
<1>1. None # Old
  BY DEF None, Old
<1>2. \A r \in Resolvers : None # Husk(r)
  BY DEF None, Husk
<1> QED BY <1>1, <1>2, TarCacheAssumption DEF Trees, Processes, TarCacheAssumption

\* What remove_dir_all leaves: nothing, or of a sealed tree a torn one.
LEMMA LeftAre == \A t : \A left \in Left(t) :
  /\ left \in {NoTree, Content("torn")} /\ left \in Contents
  /\ left # NoTree => t \in sealed /\ left = Content("torn")
BY ContentsTyped DEF Left, Bodies

\* After an attempt to drop the staging directory.
LEMMA StagingDropped == ASSUME Typing, NEW r \in Resolvers, DropStaging(r) PROVE
  /\ staging' \subseteq staging /\ staging \ {r} \subseteq staging'
  /\ r \in staging' => r \in sealed
  /\ tree' \in [Trees -> Contents]
  /\ \A t \in Trees \ {r} : tree'[t] = tree[t]
<1>1. PICK left \in Left(r) : /\ staging' = IF left = NoTree THEN staging \ {r} ELSE staging
                             /\ tree' = [tree EXCEPT ![r] = left]
  BY DEF DropStaging
<1>2. left \in Contents /\ (left # NoTree => r \in sealed)
  BY LeftAre
<1> QED BY <1>1, <1>2 DEF Typing

\* After an attempt to drop the trash: it is gone, or is torn.
LEMMA TrashDropped == ASSUME Typing, NEW r \in Resolvers, DropTrash(r) PROVE
  /\ trash' \in [Resolvers -> Trees \cup {None}]
  /\ \A q \in Resolvers \ {r} : trash'[q] = trash[q]
  /\ trash'[r] \in {trash[r], None}
  /\ trash'[r] # None => trash[r] \in sealed /\ tree'[trash[r]] = Content("torn")
  /\ tree' \in [Trees -> Contents]
  /\ \A t \in Trees \ {trash[r]} : tree'[t] = tree[t]
<1>1. PICK left \in Left(trash[r]) :
        /\ trash' = [trash EXCEPT ![r] = IF left = NoTree THEN None ELSE @]
        /\ tree' = [t \in Trees |-> IF t = trash[r] THEN left ELSE tree[t]]
  BY DEF DropTrash
<1>2. left \in Contents /\ (left # NoTree => trash[r] \in sealed /\ left = Content("torn"))
  BY LeftAre
<1> QED BY <1>1, <1>2 DEF Typing

\* After the attempts of a resolver that takes another's tree.
LEMMA WinnerAccepted == ASSUME Typing, NEW r \in Resolvers, AcceptWinner(r) PROVE
  /\ staging' \subseteq staging /\ staging \ {r} \subseteq staging'
  /\ r \in staging' => r \in sealed
  /\ trash' \in [Resolvers -> Trees \cup {None}]
  /\ \A q \in Resolvers \ {r} : trash'[q] = trash[q]
  /\ trash'[r] \in {trash[r], None}
  /\ trash'[r] \notin {None, r} => trash[r] \in sealed /\ tree'[trash[r]] = Content("torn")
  /\ tree' \in [Trees -> Contents]
  /\ \A t \in Trees \ {r, trash[r]} : tree'[t] = tree[t]
<1>1. PICK staged \in Left(r), old \in Left(trash[r]) :
        /\ staging' = IF staged = NoTree THEN staging \ {r} ELSE staging
        /\ trash' = [trash EXCEPT ![r] = IF old = NoTree THEN None ELSE @]
        /\ tree' = [t \in Trees |-> IF t = r THEN staged
                                    ELSE IF t = trash[r] THEN old ELSE tree[t]]
  BY DEF AcceptWinner
<1>2. /\ staged \in Contents /\ (staged # NoTree => r \in sealed)
      /\ old \in Contents /\ (old # NoTree => trash[r] \in sealed /\ old = Content("torn"))
  BY LeftAre
<1>3. tree' \in [Trees -> Contents]
  BY <1>1, <1>2 DEF Typing
<1>4. \A t \in Trees \ {r, trash[r]} : tree'[t] = tree[t]
  BY <1>1
<1>5. trash[r] \notin {None, r} => tree'[trash[r]] = old
  BY <1>1 DEF Typing
<1>6. trash'[r] # None => old # NoTree
  BY <1>1 DEF Typing
<1>7. /\ trash' \in [Resolvers -> Trees \cup {None}]
      /\ \A q \in Resolvers \ {r} : trash'[q] = trash[q]
      /\ trash'[r] \in {trash[r], None}
  BY <1>1 DEF Typing
<1> QED BY <1>1, <1>2, <1>3, <1>4, <1>5, <1>6, <1>7

\* What follows an attempt to remove dest that has failed.
LEMMA Retried == ASSUME Typing, NEW p \in Processes, Retry(p) PROVE
  /\ pc' \in [Processes -> Stages] /\ victim' \in [Processes -> Trees \cup {None}]
  /\ \A q \in Processes \ {p} : pc'[q] = pc[q] /\ victim'[q] = victim[q]
  /\ pc'[p] # "sweep" /\ (p # Other => pc'[p] = "restore" /\ sealed' = sealed)
  /\ again' \in BOOLEAN
  /\ sealed' \subseteq sealed /\ sealed \ {dest} \subseteq sealed'
<1>1. PICK l \in {"tear", "idle", "restore"} :
        pc' = [pc EXCEPT ![p] = l] /\ (p # Other => l = "restore")
  BY DEF Retry, Goto, After
<1>2. again' \in BOOLEAN
  BY DEF Typing, Retry
<1>3. /\ sealed' \subseteq sealed /\ sealed \ {dest} \subseteq sealed'
      /\ p # Other => sealed' = sealed
  BY DEF Retry
<1>4. victim' = [victim EXCEPT ![p] = None]
  BY DEF Retry
<1> QED BY <1>1, <1>2, <1>3, <1>4 DEF Typing, Stages

\* What a resolver may note about dest is of its type.
LEMMA FoundTyped == Typing => Found \in Memories
BY ContentsUpdated DEF Typing, Found, Ready, Memories, Bodies

\* The initial states are typed.
LEMMA TypingInit == Init => Typing
<1> SUFFICES ASSUME Init PROVE Typing
  OBVIOUS
<1> USE TreesAre DEF Init
<1>1. tree \in [Trees -> Contents]
  BY ContentsTyped
<1>2. before \in [Resolvers -> Memories]
  BY ContentsTyped
<1>3. faults \in 0..MaxFaults /\ crashes \in 0..MaxCrashes
  BY TarCacheAssumption DEF TarCacheAssumption
<1>4. pc \in [Processes -> Stages] /\ ~(\E p \in Processes : pc[p] = "sweep")
  BY DEF Stages
<1>5. sealed \subseteq Trees
  OBVIOUS
<1> QED BY <1>1, <1>2, <1>3, <1>4, <1>5 DEF Typing

\* The counters stay within their bounds.
LEMMA FaultTyped == Typing /\ (Fault \/ UNCHANGED bounds) =>
  faults' \in 0..MaxFaults /\ crashes' \in 0..MaxCrashes
<1>1. MaxFaults \in Nat
  BY TarCacheAssumption DEF TarCacheAssumption
<1>2. Typing /\ Fault => faults' \in 0..MaxFaults /\ crashes' \in 0..MaxCrashes
  BY <1>1 DEF Typing, Fault
<1>3. Typing /\ UNCHANGED bounds => faults' \in 0..MaxFaults /\ crashes' \in 0..MaxCrashes
  BY DEF Typing, bounds
<1> QED BY <1>2, <1>3

\* Every step keeps the types.
LEMMA TypingStep == ASSUME Typing, Next PROVE Typing'
<1> USE TreesAre DEF Typing
<1>1. ASSUME NEW r \in Resolvers, FastPath(r) PROVE Typing'
  <2>0. Inject(r) => dest' \in Trees \cup {None}
    BY DEF Inject
  <2> USE DEF Goto, Stages, names, removal, bounds
  <2>1. ASSUME NEW offline \in BOOLEAN, Call(r, offline) PROVE Typing'
    <3>1. before' \in [Resolvers -> Memories]
      BY <2>1, FoundTyped, ContentsTyped DEF Call, Met
    <3> QED BY <2>1, <3>1 DEF Call
  <2>2. CASE Hit(r)
    <3>1. tree' \in [Trees -> Contents]
      <4>1. CASE ~Ready
        BY <2>2, <4>1 DEF Hit
      <4>2. CASE Ready
        <5>1. dest \in Trees /\ "recent" \in Markers
          BY <4>2 DEF Ready, Markers, Recent
        <5>2. [tree[dest] EXCEPT !.marker = "recent"] \in Contents
          BY <5>1, ContentsUpdated
        <5> QED BY <2>2, <4>2, <5>1, <5>2 DEF Hit
      <4> QED BY <4>1, <4>2
    <3> QED BY <2>2, <3>1 DEF Hit
  <2>3. CASE Refetch(r)
    BY <2>3 DEF Refetch
  <2>4. CASE Inject(r)
    <3>1. tree' \in [Trees -> Contents]
      <4>1. Content("husk") \in Contents /\ Husk(r) \in Trees
        BY ContentsTyped DEF Bodies
      <4>2. tree' = tree \/ tree' = [tree EXCEPT ![Husk(r)] = Content("husk")]
        BY <2>4 DEF Inject
      <4>3. CASE tree' = tree
        BY <4>3
      <4>4. CASE tree' = [tree EXCEPT ![Husk(r)] = Content("husk")]
        BY <4>1, <4>4
      <4> QED BY <4>2, <4>3, <4>4
    <3>2. dest' \in Trees \cup {None}
      BY <2>0, <2>4
    <3>3. /\ pc' \in [Processes -> Stages]
          /\ \A q \in Processes : pc'[q] = "sweep" => pc[q] = "sweep"
      <4>1. CASE pc[r] = "inject" /\ Pruning
        BY <2>4, <4>1 DEF Inject
      <4>2. CASE ~(pc[r] = "inject" /\ Pruning)
        BY <2>4, <4>2 DEF Inject
      <4> QED BY <4>1, <4>2
    <3> QED BY <2>4, <3>1, <3>2, <3>3 DEF Inject
  <2> QED BY <1>1, <2>1, <2>2, <2>3, <2>4 DEF FastPath
<1>2. ASSUME NEW r \in Resolvers, Extraction(r) PROVE Typing'
  <2> USE DEF Goto, Stages, names, removal, bounds
  <2>1. CASE FetchFails(r)
    BY <2>1 DEF FetchFails
  <2>2. CASE Fetch(r)
    <3>1. tree' \in [Trees -> Contents]
      <4>1. Content("partial") \in Contents
        BY ContentsTyped DEF Bodies
      <4> QED BY <2>2, <4>1 DEF Fetch
    <3> QED BY <2>2, <3>1 DEF Fetch
  <2>3. CASE ExtractFails(r)
    BY <2>3, StagingDropped DEF ExtractFails
  <2>4. CASE Extract(r)
    <3>1. tree' \in [Trees -> Contents]
      <4>1. Content("whole") \in Contents /\ Content("holey") \in Contents
        BY ContentsTyped DEF Bodies
      <4>2. CASE tree' = [tree EXCEPT ![r] = Content("whole")]
        BY <4>1, <4>2
      <4>3. CASE tree' = [tree EXCEPT ![r] = Content("holey")]
        BY <4>1, <4>3
      <4> QED BY <2>4, <4>2, <4>3 DEF Extract
    <3>2. faults' \in 0..MaxFaults /\ crashes' \in 0..MaxCrashes
      BY <2>4, FaultTyped DEF Extract
    <3> QED BY <2>4, <3>1, <3>2 DEF Extract
  <2> QED BY <1>2, <2>1, <2>2, <2>3, <2>4 DEF Extraction
<1>3. ASSUME NEW r \in Resolvers, Swap(r) PROVE Typing'
  <2> USE DEF Goto, Stages, names, removal, bounds
  <2> DEFINE Bound == faults' \in 0..MaxFaults /\ crashes' \in 0..MaxCrashes
  <2>0. Fault \/ UNCHANGED bounds => Bound
    BY FaultTyped
  <2> HIDE DEF Bound
  <2>1. CASE MoveAside(r)
    BY <2>1 DEF MoveAside
  <2>2. CASE MoveAsideFails(r)
    BY <2>0, <2>2, StagingDropped DEF MoveAsideFails, Bound
  <2>3. CASE RenameIn(r)
    <3>1. tree' \in [Trees -> Contents]
      BY <2>3, ContentsTyped DEF RenameIn, Land
    <3> QED BY <2>3, <3>1 DEF RenameIn, Land
  <2>4. CASE RenameInFails(r)
    <3>1. Bound
      BY <2>0, <2>4 DEF RenameInFails
    <3> QED BY <2>4, <3>1 DEF RenameInFails, Bound
  <2>5. CASE AcceptWinner(r)
    <3>1. tree' \in [Trees -> Contents] /\ trash' \in [Resolvers -> Trees \cup {None}]
      BY <2>5, WinnerAccepted
    <3>2. staging' \subseteq Resolvers
      BY <2>5, WinnerAccepted
    <3> QED BY <2>5, <3>1, <3>2 DEF AcceptWinner
  <2>6. CASE RenameLost(r)
    BY <2>6, StagingDropped DEF RenameLost
  <2>7. CASE Restore(r)
    <3>1. tree' \in [Trees -> Contents]
      BY <2>7, ContentsTyped DEF Restore, Land
    <3> QED BY <2>7, <3>1 DEF Restore, Land
  <2>8. CASE RestoreNothing(r)
    <3>1. Bound
      BY <2>0, <2>8 DEF RestoreNothing
    <3> QED BY <2>8, <3>1 DEF RestoreNothing, Bound
  <2>9. CASE WriteTmp(r)
    <3>1. tree' \in [Trees -> Contents]
      <4>1. dest \in Trees
        BY <2>9 DEF WriteTmp
      <4>2. [tree[dest] EXCEPT !.tmp = TRUE] \in Contents
        BY <4>1, ContentsUpdated
      <4> QED BY <2>9, <4>1, <4>2 DEF WriteTmp
    <3> QED BY <2>9, <3>1 DEF WriteTmp
  <2>10. CASE Publish(r)
    <3>1. tree' \in [Trees -> Contents]
      <4>1. dest \in Trees /\ "recent" \in Markers
        BY <2>10 DEF Publish, Markers, Recent
      <4>2. [tree[dest] EXCEPT !.tmp = FALSE, !.marker = "recent"] \in Contents
        BY <4>1, ContentsUpdated
      <4>3. tree' = [tree EXCEPT ![dest] = [@ EXCEPT !.tmp = FALSE, !.marker = "recent"]]
        BY <2>10, <4>1 DEF Publish
      <4> QED BY <4>1, <4>2, <4>3
    <3> QED BY <2>10, <3>1 DEF Publish
  <2>11. CASE MarkFails(r)
    <3>1. tree' \in [Trees -> Contents]
      BY <2>11, ContentsUpdated DEF MarkFails
    <3>2. Bound
      BY <2>0, <2>11 DEF MarkFails
    <3> QED BY <2>11, <3>1, <3>2 DEF MarkFails, Bound
  <2>12. CASE Clean(r)
    BY <2>12, TrashDropped DEF Clean
  <2> QED BY <1>3, <2>1, <2>2, <2>3, <2>4, <2>5, <2>6, <2>7, <2>8, <2>9, <2>10, <2>11, <2>12
          DEF Swap
<1>4. ASSUME NEW p \in Processes, RemovalStep(p) PROVE Typing'
  <2> USE DEF Goto, Stages, names, removal, bounds, After
  <2>1. CASE Tear(p)
    <3>1. tree' \in [Trees -> Contents]
      <4>1. dest \in Trees /\ "torn" \in Bodies
        BY <2>1 DEF Tear, Bodies
      <4>2. [tree[dest] EXCEPT !.body = "torn"] \in Contents
        BY <4>1, ContentsUpdated
      <4> QED BY <2>1, <4>1, <4>2 DEF Tear
    <3> QED BY <2>1, <3>1 DEF Tear
  <2>2. CASE TearNothing(p)
    BY <2>2 DEF TearNothing
  <2>3. CASE Sweep(p)
    <3>1. tree' \in [Trees -> Contents]
      <4>1. Content("empty") \in Contents
        BY ContentsTyped DEF Bodies
      <4> QED BY <2>3, <4>1 DEF Sweep
    <3> QED BY <2>3, <3>1 DEF Sweep
  <2>4. CASE Rmdir(p)
    <3>1. tree' \in [Trees -> Contents]
      <4>1. NoTree \in Contents /\ dest \in Trees /\ tree' = [tree EXCEPT ![dest] = NoTree]
        BY <2>4, ContentsTyped DEF Rmdir
      <4> QED BY <4>1
    <3> QED BY <2>4, <3>1 DEF Rmdir
  <2>5. CASE RmdirFails(p)
    <3>1. /\ pc' \in [Processes -> Stages] /\ again' \in BOOLEAN /\ sealed' \subseteq Trees
          /\ victim' \in [Processes -> Trees \cup {None}]
      BY <2>5, Retried DEF RmdirFails
    <3>2. \A q \in Processes : pc'[q] = "sweep" => victim'[q] \in Trees
      BY <2>5, Retried DEF RmdirFails
    <3> QED BY <2>5, <3>1, <3>2 DEF RmdirFails
  <2>6. CASE SweepFails(p)
    <3>1. tree' \in [Trees -> Contents]
      <4>1. Content("torn") \in Contents
        BY ContentsTyped DEF Bodies
      <4>2. PICK v \in Trees : v = victim[p]
        BY <2>6 DEF SweepFails
      <4>3. tree' = tree \/ tree' = [tree EXCEPT ![v] = Content("torn")]
        BY <2>6, <4>2 DEF SweepFails
      <4>4. CASE tree' = tree
        BY <4>4
      <4>5. CASE tree' = [tree EXCEPT ![v] = Content("torn")]
        BY <4>1, <4>5
      <4> QED BY <4>3, <4>4, <4>5
    <3>2. /\ pc' \in [Processes -> Stages] /\ again' \in BOOLEAN /\ sealed' \subseteq Trees
          /\ victim' \in [Processes -> Trees \cup {None}]
      BY <2>6, Retried DEF SweepFails
    <3>3. \A q \in Processes : pc'[q] = "sweep" => victim'[q] \in Trees
      BY <2>6, Retried DEF SweepFails
    <3> QED BY <2>6, <3>1, <3>2, <3>3 DEF SweepFails
  <2> QED BY <1>4, <2>1, <2>2, <2>3, <2>4, <2>5, <2>6 DEF RemovalStep
<1>5. ASSUME NEW p \in Processes, SweepOrphans(p) PROVE Typing'
  <2>1. tree' \in [Trees -> Contents]
    BY <1>5, ContentsTyped DEF SweepOrphans
  <2>2. before' \in [Resolvers -> Memories]
    BY <1>5, ContentsTyped DEF SweepOrphans, Met
  <2>3. trash' \in [Resolvers -> Trees \cup {None}] /\ staging' \subseteq Resolvers
    BY <1>5 DEF SweepOrphans
  <2>4. /\ pc' \in [Processes -> Stages]
        /\ \A q \in Processes : pc'[q] = "sweep" => pc[q] = "sweep"
    BY <1>5 DEF SweepOrphans, Goto, Stages
  <2> QED BY <1>5, <2>1, <2>2, <2>3, <2>4 DEF SweepOrphans, removal, bounds
<1>6. ASSUME NEW p \in Processes, Crash(p) PROVE Typing'
  <2>1. pc' \in [Processes -> Stages]
    BY <1>6 DEF Crash, Goto, Stages
  <2>2. crashes' \in 0..MaxCrashes
    BY <1>6, TarCacheAssumption DEF Crash, TarCacheAssumption
  <2>3. /\ victim' \in [Processes -> Trees \cup {None}]
        /\ \A q \in Processes : pc'[q] = "sweep" => victim'[q] \in Trees
    BY <1>6 DEF Crash, Goto
  <2> QED BY <1>6, <2>1, <2>2, <2>3 DEF Crash, names
<1>7. ASSUME NEW t \in Trees, MarkerAges(t) PROVE Typing'
  <2>1. /\ [tree[t] EXCEPT !.marker = "warm"] \in Contents
        /\ [tree[t] EXCEPT !.marker = "stale"] \in Contents
    BY ContentsUpdated DEF Markers, Fresh
  <2>2. tree' \in [Trees -> Contents]
    BY <1>7, <2>1 DEF MarkerAges
  <2> QED BY <1>7, <2>2 DEF MarkerAges, names, removal, bounds
<1>8. CASE Evict
  <2>1. before' \in [Resolvers -> Memories]
    BY <1>8, ContentsTyped DEF Evict, Met
  <2> QED BY <1>8, <2>1 DEF Evict, Goto, Stages, names, removal, bounds
<1>9. CASE Rebuild
  <2>1. \A t \in Trees : \A m \in {"outdated", "stale", tree[t].marker} :
          [tree[t] EXCEPT !.marker = m] \in Contents
    <3>1. "outdated" \in Markers /\ "stale" \in Markers
      BY DEF Markers, Recent
    <3>2. \A t \in Trees : tree[t] \in Contents
      OBVIOUS
    <3> QED BY <3>1, <3>2, ContentsUpdated
  <2>2. tree' \in [Trees -> Contents]
    BY <1>9, <2>1 DEF Rebuild
  <2> QED BY <1>9, <2>2 DEF Rebuild, names, removal, bounds
<1>10. CASE Idle
  BY <1>10 DEF Idle, vars
<1> QED BY <1>1, <1>2, <1>3, <1>4, <1>5, <1>6, <1>7, <1>8, <1>9, <1>10 DEF Next

(* Where the trees are: the names dest, staging and trash do not share one, *)
(* and each says how far its resolver is.                                   *)
Staged  == {"extract", "aside", "in", "taken"}
Early   == {"idle", "judge", "judge offline", "fetch", "inject on hit"}
Holding == {"in", "taken", "restore", "mark", "publish", "tear", "sweep", "rmdir",
            "clean", "err", "dead"}

Dropped == {"inject", "prune", "ok"}

Sited(t) == dest = t \/ \E q \in Resolvers : trash[q] = t

\* What is staged, and what is in a trash, is in use or could not be removed.
StagingUsed(r) == \/ pc[r] \in Staged \cup {"dead"}
                  \/ r \in sealed /\ pc[r] \in Dropped \cup {"restore", "err"}
TrashUsed(r)   == pc[r] \in Holding \/ (trash[r] \in sealed /\ pc[r] \in Dropped)

StagingHidden == \A r \in staging : StagingUsed(r) /\ ~Sited(r)
StagingThere  == \A r \in Resolvers : pc[r] \in Staged => r \in staging
TrashHeld     == \A r \in Resolvers : trash[r] # None => TrashUsed(r) /\ trash[r] # dest
TrashOnce     == \A r, q \in Resolvers : trash[r] # None /\ trash[r] = trash[q] => r = q
TreesMoved    == \A r \in Resolvers : Sited(r) => pc[r] \notin Early \cup Staged
HusksLate     == \A r \in Resolvers : Sited(Husk(r)) => pc[r] \in {"prune", "ok", "dead"}

Places == StagingHidden /\ StagingThere /\ TrashHeld /\ TrashOnce /\ TreesMoved /\ HusksLate

\* Two resolvers do not make the same helper directory.
LEMMA HusksDiffer == \A r, q \in Resolvers :
  Husk(r) = Husk(q) => r = q
BY DEF Husk

\* Initially only an old tree, at dest, has a name.
LEMMA PlacesInit == Init => Places
<1> SUFFICES ASSUME Init PROVE Places
  OBVIOUS
<1>1. \A t \in Trees : Sited(t) => t = Old
  BY TreesAre DEF Init, Sited
<1>2. \A r \in Resolvers : ~Sited(r) /\ ~Sited(Husk(r))
  <2>1. \A r \in Resolvers : r # Old /\ Husk(r) # Old
    BY TarCacheAssumption DEF TarCacheAssumption, Husk, Old
  <2> QED BY <1>1, <2>1, TreesAre
<1> QED BY <1>2, TreesAre
  DEF Init, Places, StagingHidden, StagingThere, TrashHeld, TrashOnce, TreesMoved, HusksLate, Staged

\* Each name keeps what it has or loses it, and no process gets where it
\* would say otherwise.
Forward(q) ==
  /\ pc'[q] \in Staged => pc[q] \in Staged /\ q \in staging'
  /\ q \in staging' => StagingUsed(q)'
  /\ trash'[q] # None => TrashUsed(q)'
  /\ pc'[q] \in Early \cup Staged => pc[q] \in Early \cup Staged
  /\ pc[q] \in {"prune", "ok", "dead"} => pc'[q] \in {"prune", "ok", "dead"}

\* A step in which no name gains a tree keeps Places.
LEMMA PlacesKept ==
  ASSUME Places, dest' \in {dest, None}, staging' \subseteq staging,
         \A q \in Resolvers : trash'[q] \in {trash[q], None} /\ Forward(q),
         staging \subseteq Resolvers
  PROVE  Places'
<1>1. \A t \in Trees : Sited(t)' => Sited(t)
  BY TreesAre DEF Sited
<1>2. StagingHidden'
  BY <1>1, TreesAre DEF Places, StagingHidden, Forward
<1>3. StagingThere'
  BY DEF StagingThere, Forward
<1>4. TrashHeld'
  BY DEF Places, TrashHeld, Forward
<1>5. TrashOnce'
  BY DEF Places, TrashOnce
<1>6. TreesMoved'
  BY <1>1, TreesAre DEF Places, TreesMoved, Forward
<1>7. HusksLate'
  BY <1>1, TreesAre DEF Places, HusksLate, Forward
<1> QED BY <1>2, <1>3, <1>4, <1>5, <1>6, <1>7 DEF Places

\* What the invariants say of a process that does not move.
LEMMA ForwardIdle ==
  ASSUME Places, NEW q \in Resolvers, pc'[q] = pc[q], staging' \subseteq staging,
         trash'[q] \in {trash[q], None}, q \in staging => q \in staging' \/ Quiet(q),
         sealed \ {dest} \subseteq sealed'
  PROVE  Forward(q)
<1>1. q \in staging' => StagingUsed(q)'
  BY DEF Places, StagingHidden, StagingUsed, Sited
<1>2. trash'[q] # None => TrashUsed(q)'
  BY DEF Places, TrashHeld, TrashUsed
<1>3. pc'[q] \in Staged => q \in staging'
  BY DEF Places, StagingThere, Quiet, Staged
<1> QED BY <1>1, <1>2, <1>3 DEF Forward

\* What they say of one that does, its trees being where they were.
LEMMA ForwardMoved ==
  ASSUME Typing, Places, NEW q \in Resolvers, UNCHANGED <<staging, trash>>,
         sealed \ {dest} \subseteq sealed',
         pc'[q] \in Staged => pc[q] \in Staged,
         pc'[q] \in Early \cup Staged => pc[q] \in Early \cup Staged,
         pc[q] \in {"prune", "ok", "dead"} => pc'[q] \in {"prune", "ok", "dead"},
         pc[q] \in Staged => pc'[q] \in Staged \cup {"dead"},
         pc[q] \in Dropped => pc'[q] \in Dropped \cup {"dead"},
         pc[q] \in Holding => pc'[q] \in Holding,
         pc[q] \in {"restore", "err"} => pc'[q] \in Dropped \cup {"restore", "err", "dead"},
         pc[q] = "dead" => pc'[q] = "dead"
  PROVE  Forward(q)
<1>1. q \in staging' => StagingUsed(q)'
  BY DEF Places, StagingHidden, StagingUsed, Sited
<1>2. trash'[q] # None => TrashUsed(q)'
  BY DEF Places, TrashHeld, TrashUsed, Holding
<1>3. pc'[q] \in Staged => q \in staging'
  BY DEF Places, StagingThere
<1> QED BY <1>1, <1>2, <1>3 DEF Forward

\* The tree g comes to stand at dest.
LEMMA PlacesLanded ==
  ASSUME Places, staging' \subseteq staging, staging \subseteq Resolvers,
         NEW g \in Trees, dest' = g, g \notin staging',
         \A q \in Resolvers : /\ trash'[q] \in {trash[q], None}
                              /\ trash'[q] # g
                              /\ Forward(q),
         \A q \in Resolvers : /\ g = q => pc'[q] \notin Early \cup Staged
                              /\ g = Husk(q) => pc'[q] \in {"prune", "ok", "dead"}
  PROVE  Places'
<1>1. \A t \in Trees : Sited(t)' => Sited(t) \/ t = g
  BY TreesAre DEF Sited
<1>2. StagingHidden'
  BY <1>1, TreesAre DEF Places, StagingHidden, Forward
<1>3. StagingThere'
  BY DEF StagingThere, Forward
<1>4. TrashHeld'
  BY DEF TrashHeld, Forward
<1>5. TrashOnce'
  BY DEF Places, TrashOnce
<1>6. TreesMoved'
  BY <1>1, TreesAre DEF Places, TreesMoved, Forward
<1>7. HusksLate'
  BY <1>1, TreesAre DEF Places, HusksLate, Forward
<1> QED BY <1>2, <1>3, <1>4, <1>5, <1>6, <1>7 DEF Places

\* Every step keeps Places: Fetch and MoveAside make a name anew, Inject,
\* RenameIn and Restore land a tree at dest, and the others lose names.
LEMMA PlacesStep == ASSUME Typing, Places, Next PROVE Places'
<1> USE TreesAre DEF Staged, Early, Holding, Dropped
<1>1. ASSUME NEW p \in Processes, NEW l, Goto(p, l) PROVE
        /\ p \in Resolvers => pc'[p] = l
        /\ \A q \in Resolvers \ {p} : pc'[q] = pc[q]
  BY <1>1 DEF Typing, Goto
<1>2. Other \notin Resolvers /\ staging \subseteq Resolvers
  BY TarCacheAssumption DEF Typing, TarCacheAssumption
<1>3. ASSUME NEW r \in Resolvers, FastPath(r) PROVE Places'
  <2>1. ASSUME NEW offline \in BOOLEAN, Call(r, offline) PROVE Places'
    <3>1. Forward(r)
      <4>1. pc[r] = "idle" /\ pc'[r] \in {"judge", "judge offline", "err", "fetch"}
        BY <1>1, <2>1 DEF Call
      <4>2. UNCHANGED <<staging, trash>> /\ sealed \ {dest} \subseteq sealed'
        BY <2>1 DEF Call, names, removal
      <4> QED BY <4>1, <4>2, ForwardMoved
    <3>2. \A q \in Resolvers \ {r} : Forward(q)
      BY <1>1, <1>2, <2>1, ForwardIdle DEF Call, names, removal
    <3> QED BY <1>2, <2>1, <3>1, <3>2, PlacesKept DEF Call, names
  <2>2. CASE Hit(r)
    <3>1. Forward(r)
      <4>1. pc[r] \in {"judge", "judge offline"} /\ pc'[r] = "inject on hit"
        BY <1>1, <2>2 DEF Hit, MayHit
      <4>2. UNCHANGED <<staging, trash>> /\ sealed \ {dest} \subseteq sealed'
        BY <2>2 DEF Hit, MayHit, names, removal
      <4> QED BY <4>1, <4>2, ForwardMoved
    <3>2. \A q \in Resolvers \ {r} : Forward(q)
      BY <1>1, <1>2, <2>2, ForwardIdle DEF Hit, names, MayHit, removal
    <3> QED BY <1>2, <2>2, <3>1, <3>2, PlacesKept DEF Hit, names, MayHit
  <2>3. CASE Refetch(r)
    <3>1. Forward(r)
      <4>1. pc[r] = "judge" /\ pc'[r] = "fetch"
        BY <1>1, <2>3 DEF Refetch
      <4>2. UNCHANGED <<staging, trash>> /\ sealed \ {dest} \subseteq sealed'
        BY <2>3 DEF Refetch, names, removal
      <4> QED BY <4>1, <4>2, ForwardMoved
    <3>2. \A q \in Resolvers \ {r} : Forward(q)
      BY <1>1, <1>2, <2>3, ForwardIdle DEF Refetch, names, removal
    <3> QED BY <1>2, <2>3, <3>1, <3>2, PlacesKept DEF Refetch, names
  <2>4. CASE Inject(r)
    <3>1. Forward(r) /\ pc[r] \in {"inject", "inject on hit"} /\ pc'[r] \in {"prune", "ok"}
      <4>1. pc[r] \in {"inject on hit", "inject"} /\ pc'[r] \in {"prune", "ok"}
        BY <1>1, <2>4 DEF Inject
      <4>2. UNCHANGED <<staging, trash>> /\ sealed \ {dest} \subseteq sealed'
        BY <2>4 DEF Inject, removal
      <4> QED BY <4>1, <4>2, ForwardMoved
    <3>2. \A q \in Resolvers \ {r} : Forward(q)
      BY <1>1, <1>2, <2>4, ForwardIdle DEF Inject, removal
    <3>3. CASE UNCHANGED <<dest, tree>>
      BY <1>2, <2>4, <3>1, <3>2, <3>3, PlacesKept DEF Inject
    <3>4. CASE dest = None /\ dest' = Husk(r)
      <4>1. ~Sited(Husk(r))
        BY <3>1 DEF Places, HusksLate
      <4>2. \A q \in Resolvers : Husk(r) # q /\ trash[q] # Husk(r)
        BY <4>1, TarCacheAssumption DEF Sited, TarCacheAssumption
      <4>3. UNCHANGED staging /\ UNCHANGED trash
        BY <2>4 DEF Inject
      <4>4. \A q \in Resolvers : Husk(r) = Husk(q) => pc'[q] \in {"prune", "ok", "dead"}
        BY <3>1, HusksDiffer
      <4> QED BY <1>2, <3>1, <3>2, <3>4, <4>2, <4>3, <4>4, PlacesLanded
    <3> QED BY <2>4, <3>3, <3>4 DEF Inject
  <2> QED BY <1>3, <2>1, <2>2, <2>3, <2>4
          DEF FastPath
<1>4. ASSUME NEW r \in Resolvers, Extraction(r) PROVE Places'
  <2>1. CASE FetchFails(r)
    <3>1. Forward(r)
      <4>1. pc[r] = "fetch" /\ pc'[r] = "err"
        BY <1>1, <2>1 DEF FetchFails
      <4>2. UNCHANGED <<staging, trash>> /\ sealed \ {dest} \subseteq sealed'
        BY <2>1 DEF FetchFails, names, removal
      <4> QED BY <4>1, <4>2, ForwardMoved
    <3>2. \A q \in Resolvers \ {r} : Forward(q)
      BY <1>1, <1>2, <2>1, ForwardIdle DEF FetchFails, names, removal
    <3> QED BY <1>2, <2>1, <3>1, <3>2, PlacesKept DEF FetchFails, names
  <2>2. CASE Fetch(r)
    <3>1. /\ pc[r] = "fetch" /\ pc'[r] = "extract"
          /\ \A q \in Resolvers \ {r} : pc'[q] = pc[q]
          /\ UNCHANGED <<dest, trash>> /\ staging' = staging \cup {r}
      BY <1>1, <2>2 DEF Fetch
    <3>2. \A t \in Trees : Sited(t)' <=> Sited(t)
      BY <3>1 DEF Sited
    <3>3. ~Sited(r) /\ trash[r] = None /\ sealed' = sealed
      BY <2>2, <3>1 DEF Fetch, removal, Places, TreesMoved, TrashHeld, TrashUsed
    <3>4. StagingHidden' /\ StagingThere'
      BY <1>2, <3>1, <3>2, <3>3 DEF Places, StagingHidden, StagingUsed, StagingThere
    <3>5. TrashHeld' /\ TrashOnce'
      BY <3>1, <3>3 DEF Places, TrashHeld, TrashUsed, TrashOnce
    <3>6. TreesMoved'
      BY <3>1, <3>2, <3>3 DEF Places, TreesMoved
    <3>7. HusksLate'
      BY <3>1, <3>2 DEF Places, HusksLate
    <3> QED BY <3>4, <3>5, <3>6, <3>7 DEF Places
  <2>3. CASE ExtractFails(r)
    <3>1. Forward(r)
      <4>1. pc[r] = "extract" /\ pc'[r] = "err"
        BY <1>1, <2>3 DEF ExtractFails, DropStaging
      <4>2. UNCHANGED <<trash, sealed>> /\ staging' \subseteq staging /\ (r \in staging' => r \in sealed)
        BY <2>3, StagingDropped DEF ExtractFails, removal
      <4> QED BY <4>1, <4>2 DEF Places, StagingHidden, StagingUsed, StagingThere, TrashHeld, TrashUsed, Forward
    <3>2. \A q \in Resolvers \ {r} : Forward(q)
      BY <1>1, <1>2, <2>3, StagingDropped, ForwardIdle DEF ExtractFails, removal
    <3> QED BY <1>2, <2>3, <3>1, <3>2, StagingDropped, PlacesKept DEF ExtractFails
  <2>4. CASE Extract(r)
    <3>1. Forward(r)
      <4>1. pc[r] = "extract" /\ pc'[r] = "aside"
        BY <1>1, <2>4 DEF Extract
      <4>2. UNCHANGED <<staging, trash>> /\ sealed \ {dest} \subseteq sealed'
        BY <2>4 DEF Extract, names, removal
      <4> QED BY <4>1, <4>2, ForwardMoved
    <3>2. \A q \in Resolvers \ {r} : Forward(q)
      BY <1>1, <1>2, <2>4, ForwardIdle DEF Extract, names, removal
    <3> QED BY <1>2, <2>4, <3>1, <3>2, PlacesKept DEF Extract, names
  <2> QED BY <1>4, <2>1, <2>2, <2>3, <2>4
          DEF Extraction
<1>5. ASSUME NEW r \in Resolvers, Swap(r) PROVE Places'
  <2>1. CASE MoveAside(r)
    <3>1. /\ pc[r] = "aside" /\ pc'[r] = "in"
          /\ \A q \in Resolvers \ {r} : pc'[q] = pc[q]
          /\ dest' = None /\ trash' = [trash EXCEPT ![r] = dest]
          /\ UNCHANGED <<staging, sealed>>
      BY <1>1, <2>1 DEF MoveAside, removal
    <3>2. trash'[r] = dest /\ \A q \in Resolvers \ {r} : trash'[q] = trash[q]
      BY <3>1 DEF Typing
    <3>3. \A t \in Trees : Sited(t)' => Sited(t)
      BY <3>1, <3>2 DEF Sited
    <3>4. StagingHidden' /\ StagingThere'
      BY <1>2, <3>1, <3>3 DEF Places, StagingHidden, StagingUsed, StagingThere
    <3>5. TrashHeld'
      BY <3>1, <3>2 DEF Places, TrashHeld, TrashUsed
    <3>6. TrashOnce'
      <4>1. \A q \in Resolvers : trash[q] # None => trash[q] # dest
        BY DEF Places, TrashHeld
      <4> QED BY <3>2, <4>1 DEF Places, TrashOnce
    <3>7. TreesMoved'
      BY <3>1, <3>3 DEF Places, TreesMoved
    <3>8. HusksLate'
      BY <3>1, <3>3 DEF Places, HusksLate
    <3> QED BY <3>4, <3>5, <3>6, <3>7, <3>8 DEF Places
  <2>2. CASE MoveAsideFails(r)
    <3>1. Forward(r)
      <4>1. pc[r] = "aside" /\ pc'[r] = "err"
        BY <1>1, <2>2 DEF MoveAsideFails, DropStaging
      <4>2. UNCHANGED <<trash, sealed>> /\ staging' \subseteq staging /\ (r \in staging' => r \in sealed)
        BY <2>2, StagingDropped DEF MoveAsideFails, removal
      <4> QED BY <4>1, <4>2 DEF Places, StagingHidden, StagingUsed, StagingThere, TrashHeld, TrashUsed, Forward
    <3>2. \A q \in Resolvers \ {r} : Forward(q)
      BY <1>1, <1>2, <2>2, StagingDropped, ForwardIdle DEF MoveAsideFails, removal
    <3> QED BY <1>2, <2>2, <3>1, <3>2, StagingDropped, PlacesKept DEF MoveAsideFails
  <2>3. CASE RenameIn(r)
    <3>1. /\ pc[r] = "in" /\ pc'[r] = "mark"
          /\ \A q \in Resolvers \ {r} : pc'[q] = pc[q]
          /\ dest' = r /\ staging' = staging \ {r} /\ UNCHANGED <<trash, sealed>>
      BY <1>1, <2>3 DEF RenameIn, Land, removal
    <3>2. Forward(r)
      BY <3>1 DEF TrashUsed, Forward
    <3>3. \A q \in Resolvers \ {r} : Forward(q)
      BY <1>2, <3>1, ForwardIdle
    <3>4. ~Sited(r)
      BY <3>1 DEF Places, TreesMoved
    <3>5. \A q \in Resolvers : trash[q] # r /\ r # Husk(q)
      BY <3>4, TarCacheAssumption DEF Sited, TarCacheAssumption
    <3> QED BY <1>2, <3>1, <3>2, <3>3, <3>5, PlacesLanded
  <2>4. CASE RenameInFails(r)
    <3>1. Forward(r)
      <4>1. pc[r] = "in" /\ pc'[r] = "taken"
        BY <1>1, <2>4 DEF RenameInFails
      <4>2. UNCHANGED <<staging, trash>> /\ sealed \ {dest} \subseteq sealed'
        BY <2>4 DEF RenameInFails, names, removal
      <4> QED BY <4>1, <4>2, ForwardMoved
    <3>2. \A q \in Resolvers \ {r} : Forward(q)
      BY <1>1, <1>2, <2>4, ForwardIdle DEF RenameInFails, names, removal
    <3> QED BY <1>2, <2>4, <3>1, <3>2, PlacesKept DEF RenameInFails, names
  <2>5. CASE AcceptWinner(r)
    <3>1. Forward(r)
      <4>1. pc[r] = "taken" /\ pc'[r] = "inject"
        BY <1>1, <2>5 DEF AcceptWinner
      <4>2. /\ sealed' = sealed /\ (r \in staging' => r \in sealed)
            /\ trash'[r] # None => trash'[r] = trash[r]
        BY <2>5, WinnerAccepted DEF AcceptWinner, removal
      <4>3. trash'[r] # None => trash[r] \in sealed
        <5>1. trash[r] # r
          BY <4>1 DEF Places, TreesMoved, Sited
        <5> QED BY <2>5, <4>2, <5>1, WinnerAccepted
      <4> QED BY <4>1, <4>2, <4>3 DEF StagingUsed, TrashUsed, Forward
    <3>2. \A q \in Resolvers \ {r} : Forward(q)
      BY <1>1, <1>2, <2>5, WinnerAccepted, ForwardIdle DEF AcceptWinner, removal
    <3>3. \A q \in Resolvers : trash'[q] \in {trash[q], None}
      BY <2>5, WinnerAccepted
    <3> QED BY <1>2, <2>5, <3>1, <3>2, <3>3, WinnerAccepted, PlacesKept DEF AcceptWinner
  <2>6. CASE RenameLost(r)
    <3>1. Forward(r)
      <4>1. pc[r] = "taken" /\ pc'[r] = "restore"
        BY <1>1, <2>6 DEF RenameLost, DropStaging
      <4>2. UNCHANGED <<trash, sealed>> /\ staging' \subseteq staging /\ (r \in staging' => r \in sealed)
        BY <2>6, StagingDropped DEF RenameLost, removal
      <4> QED BY <4>1, <4>2 DEF Places, StagingHidden, StagingUsed, StagingThere, TrashHeld, TrashUsed, Forward
    <3>2. \A q \in Resolvers \ {r} : Forward(q)
      BY <1>1, <1>2, <2>6, StagingDropped, ForwardIdle DEF RenameLost, removal
    <3> QED BY <1>2, <2>6, <3>1, <3>2, StagingDropped, PlacesKept DEF RenameLost
  <2>7. CASE Restore(r)
    <3>1. /\ pc[r] = "restore" /\ pc'[r] = "err"
          /\ \A q \in Resolvers \ {r} : pc'[q] = pc[q]
          /\ trash[r] # None /\ dest' = trash[r] /\ UNCHANGED <<staging, sealed>>
          /\ trash' = [trash EXCEPT ![r] = None]
      BY <1>1, <2>7 DEF Restore, Land, removal
    <3>2. /\ trash[r] \in Trees /\ trash'[r] = None
          /\ \A q \in Resolvers \ {r} : trash'[q] = trash[q]
      BY <3>1 DEF Typing
    <3>3. Forward(r)
      BY <3>1, <3>2 DEF Places, StagingHidden, StagingUsed, Forward
    <3>4. \A q \in Resolvers \ {r} : Forward(q)
      BY <1>2, <3>1, <3>2, ForwardIdle
    <3>5. \A q \in Resolvers : trash'[q] # trash[r] /\ trash'[q] \in {trash[q], None}
      BY <3>1, <3>2 DEF Places, TrashOnce
    <3>6. PICK g \in Trees : g = trash[r]
      BY <3>2
    <3>7. Sited(g)
      BY <3>6 DEF Sited
    <3>8. g \notin staging' /\ staging' \subseteq staging /\ staging \subseteq Resolvers
      BY <1>2, <3>1, <3>7 DEF Places, StagingHidden
    <3>9. \A q \in Resolvers : g = q => pc'[q] \notin Early \cup Staged
      BY <3>1, <3>7 DEF Places, TreesMoved
    <3>10. \A q \in Resolvers : g = Husk(q) => pc'[q] \in {"prune", "ok", "dead"}
      BY <3>1, <3>7 DEF Places, HusksLate
    <3>11. \A q \in Resolvers : trash'[q] \in {trash[q], None} /\ trash'[q] # g /\ Forward(q)
      BY <3>3, <3>4, <3>5, <3>6
    <3>12. dest' = g
      BY <3>1, <3>6
    <3> HIDE DEF Early, Staged, Holding, Dropped
    <3> QED BY <3>8, <3>9, <3>10, <3>11, <3>12, PlacesLanded
  <2>8. CASE RestoreNothing(r)
    <3>1. Forward(r)
      <4>1. pc[r] = "restore" /\ pc'[r] = "err"
        BY <1>1, <2>8 DEF RestoreNothing
      <4>2. UNCHANGED <<staging, trash>> /\ sealed \ {dest} \subseteq sealed'
        BY <2>8 DEF RestoreNothing, names, removal
      <4> QED BY <4>1, <4>2, ForwardMoved
    <3>2. \A q \in Resolvers \ {r} : Forward(q)
      BY <1>1, <1>2, <2>8, ForwardIdle DEF RestoreNothing, names, removal
    <3> QED BY <1>2, <2>8, <3>1, <3>2, PlacesKept DEF RestoreNothing, names
  <2>9. CASE WriteTmp(r)
    <3>1. Forward(r)
      <4>1. pc[r] = "mark" /\ pc'[r] = "publish"
        BY <1>1, <2>9 DEF WriteTmp
      <4>2. UNCHANGED <<staging, trash>> /\ sealed \ {dest} \subseteq sealed'
        BY <2>9 DEF WriteTmp, names, removal
      <4> QED BY <4>1, <4>2, ForwardMoved
    <3>2. \A q \in Resolvers \ {r} : Forward(q)
      BY <1>1, <1>2, <2>9, ForwardIdle DEF WriteTmp, names, removal
    <3> QED BY <1>2, <2>9, <3>1, <3>2, PlacesKept DEF WriteTmp, names
  <2>10. CASE Publish(r)
    <3>1. Forward(r)
      <4>1. pc[r] = "publish" /\ pc'[r] = "clean"
        BY <1>1, <2>10 DEF Publish
      <4>2. UNCHANGED <<staging, trash>> /\ sealed \ {dest} \subseteq sealed'
        BY <2>10 DEF Publish, names, removal
      <4> QED BY <4>1, <4>2, ForwardMoved
    <3>2. \A q \in Resolvers \ {r} : Forward(q)
      BY <1>1, <1>2, <2>10, ForwardIdle DEF Publish, names, removal
    <3> QED BY <1>2, <2>10, <3>1, <3>2, PlacesKept DEF Publish, names
  <2>11. CASE MarkFails(r)
    <3>1. Forward(r)
      <4>1. pc[r] \in {"mark", "publish"} /\ pc'[r] = "tear"
        BY <1>1, <2>11 DEF MarkFails
      <4>2. UNCHANGED <<staging, trash>> /\ sealed \ {dest} \subseteq sealed'
        BY <2>11 DEF MarkFails, names, removal
      <4> QED BY <4>1, <4>2, ForwardMoved
    <3>2. \A q \in Resolvers \ {r} : Forward(q)
      BY <1>1, <1>2, <2>11, ForwardIdle DEF MarkFails, names, removal
    <3> QED BY <1>2, <2>11, <3>1, <3>2, PlacesKept DEF MarkFails, names
  <2>12. CASE Clean(r)
    <3>1. Forward(r)
      <4>1. pc[r] = "clean" /\ pc'[r] = "inject"
        BY <1>1, <2>12 DEF Clean, DropTrash
      <4>2. /\ UNCHANGED <<staging, sealed>>
            /\ trash'[r] # None => trash'[r] = trash[r] /\ trash[r] \in sealed
        BY <2>12, TrashDropped DEF Clean, removal
      <4>3. r \notin staging
        BY <4>1 DEF Places, StagingHidden, StagingUsed
      <4> QED BY <4>1, <4>2, <4>3 DEF TrashUsed, Forward
    <3>2. \A q \in Resolvers \ {r} : Forward(q)
      BY <1>1, <1>2, <2>12, TrashDropped, ForwardIdle DEF Clean, removal
    <3>3. \A q \in Resolvers : trash'[q] \in {trash[q], None}
      BY <2>12, TrashDropped DEF Clean
    <3> QED BY <1>2, <2>12, <3>1, <3>2, <3>3, PlacesKept DEF Clean
  <2> QED BY <1>5, <2>1, <2>2, <2>3, <2>4, <2>5, <2>6, <2>7, <2>8, <2>9, <2>10, <2>11, <2>12
          DEF Swap
<1>6. ASSUME NEW p \in Processes, RemovalStep(p) PROVE Places'
  <2>1. CASE Tear(p)
    <3>1. ASSUME p \in Resolvers PROVE Forward(p)
      <4>1. pc[p] = "tear" /\ pc'[p] = "sweep"
        BY <1>1, <1>2, <2>1, <3>1 DEF Tear
      <4>2. UNCHANGED <<staging, trash>> /\ sealed \ {dest} \subseteq sealed'
        BY <2>1 DEF Tear, names, removal
      <4> QED BY <3>1, <4>1, <4>2, ForwardMoved
    <3>2. \A q \in Resolvers \ {p} : Forward(q)
      BY <1>1, <1>2, <2>1, ForwardIdle DEF Tear, names, removal
    <3> QED BY <1>2, <2>1, <3>1, <3>2, PlacesKept DEF Tear, names
  <2>2. CASE TearNothing(p)
    <3>1. ASSUME p \in Resolvers PROVE Forward(p)
      <4>1. pc[p] = "tear" /\ pc'[p] = "restore"
        BY <1>1, <1>2, <2>2, <3>1 DEF TearNothing, After
      <4>2. UNCHANGED <<staging, trash>> /\ sealed \ {dest} \subseteq sealed'
        BY <2>2 DEF TearNothing, After, names, removal
      <4> QED BY <3>1, <4>1, <4>2, ForwardMoved
    <3>2. \A q \in Resolvers \ {p} : Forward(q)
      BY <1>1, <1>2, <2>2, ForwardIdle DEF TearNothing, names, After, removal
    <3> QED BY <1>2, <2>2, <3>1, <3>2, PlacesKept DEF TearNothing, names, After
  <2>3. CASE Sweep(p)
    <3>1. ASSUME p \in Resolvers PROVE Forward(p)
      <4>1. pc[p] = "sweep" /\ pc'[p] = "rmdir"
        BY <1>1, <1>2, <2>3, <3>1 DEF Sweep
      <4>2. UNCHANGED <<staging, trash>> /\ sealed \ {dest} \subseteq sealed'
        BY <2>3 DEF Sweep, names, removal
      <4> QED BY <3>1, <4>1, <4>2, ForwardMoved
    <3>2. \A q \in Resolvers \ {p} : Forward(q)
      BY <1>1, <1>2, <2>3, ForwardIdle DEF Sweep, names, removal
    <3> QED BY <1>2, <2>3, <3>1, <3>2, PlacesKept DEF Sweep, names
  <2>4. CASE Rmdir(p)
    <3>1. ASSUME p \in Resolvers PROVE Forward(p)
      <4>1. pc[p] = "rmdir" /\ pc'[p] = "restore"
        BY <1>1, <1>2, <2>4, <3>1 DEF Rmdir, After
      <4>2. UNCHANGED <<staging, trash>> /\ sealed \ {dest} \subseteq sealed'
        BY <2>4 DEF Rmdir, After, names, removal
      <4> QED BY <3>1, <4>1, <4>2, ForwardMoved
    <3>2. \A q \in Resolvers \ {p} : Forward(q)
      BY <1>1, <1>2, <2>4, ForwardIdle DEF Rmdir, names, After, removal
    <3> QED BY <1>2, <2>4, <3>1, <3>2, PlacesKept DEF Rmdir, names, After
  <2>5. CASE RmdirFails(p)
    <3>0. UNCHANGED names /\ sealed \ {dest} \subseteq sealed'
      BY <2>5, Retried DEF RmdirFails
    <3>1. ASSUME p \in Resolvers PROVE Forward(p)
      <4>1. pc[p] = "rmdir" /\ pc'[p] = "restore"
        BY <1>2, <2>5, <3>1, Retried DEF RmdirFails
      <4> QED BY <3>0, <3>1, <4>1, ForwardMoved DEF names
    <3>2. \A q \in Resolvers \ {p} : Forward(q)
      <4>1. \A q \in Resolvers \ {p} : pc'[q] = pc[q]
        BY <2>5, Retried DEF RmdirFails, Typing
      <4> QED BY <3>0, <4>1, ForwardIdle DEF names
    <3> QED BY <1>2, <3>0, <3>1, <3>2, PlacesKept DEF names
  <2>6. CASE SweepFails(p)
    <3>0. UNCHANGED names /\ sealed \ {dest} \subseteq sealed'
      BY <2>6, Retried DEF SweepFails
    <3>1. ASSUME p \in Resolvers PROVE Forward(p)
      <4>1. pc[p] = "sweep" /\ pc'[p] = "restore"
        BY <1>2, <2>6, <3>1, Retried DEF SweepFails
      <4> QED BY <3>0, <3>1, <4>1, ForwardMoved DEF names
    <3>2. \A q \in Resolvers \ {p} : Forward(q)
      <4>1. \A q \in Resolvers \ {p} : pc'[q] = pc[q]
        BY <2>6, Retried DEF SweepFails, Typing
      <4> QED BY <3>0, <4>1, ForwardIdle DEF names
    <3> QED BY <1>2, <3>0, <3>1, <3>2, PlacesKept DEF names
  <2> QED BY <1>6, <2>1, <2>2, <2>3, <2>4, <2>5, <2>6
          DEF RemovalStep
<1>7. ASSUME NEW p \in Processes, SweepOrphans(p) PROVE Places'
  <2>1. ASSUME p \in Resolvers PROVE Forward(p)
    <3>1. pc[p] = "prune" /\ pc'[p] = "ok"
      BY <1>1, <1>2, <1>7, <2>1 DEF SweepOrphans
    <3>2. staging' \subseteq staging /\ trash'[p] \in {trash[p], None} /\ sealed' = sealed
      BY <1>7, <2>1 DEF SweepOrphans, removal
    <3> QED BY <2>1, <3>1, <3>2 DEF Places, StagingHidden, StagingUsed, TrashHeld, TrashUsed, Forward
  <2>2. \A q \in Resolvers \ {p} : Forward(q)
    BY <1>1, <1>2, <1>7, ForwardIdle DEF SweepOrphans, names, removal
  <2> QED BY <1>2, <1>7, <2>1, <2>2, PlacesKept DEF SweepOrphans, names
<1>8. ASSUME NEW p \in Processes, Crash(p) PROVE Places'
  <2>1. ASSUME p \in Resolvers PROVE Forward(p)
    <3>1. pc'[p] = "dead"
      BY <1>1, <1>2, <1>8, <2>1 DEF Crash
    <3>2. UNCHANGED <<staging, trash>> /\ sealed \ {dest} \subseteq sealed'
      BY <1>8 DEF Crash, names, removal
    <3> QED BY <2>1, <3>1, <3>2, ForwardMoved
  <2>2. \A q \in Resolvers \ {p} : Forward(q)
    BY <1>1, <1>2, <1>8, ForwardIdle DEF Crash, names, removal
  <2> QED BY <1>2, <1>8, <2>1, <2>2, PlacesKept DEF Crash, names
<1>9. ASSUME NEW t \in Trees, MarkerAges(t) PROVE Places'
  BY <1>2, <1>9, PlacesKept, ForwardIdle DEF MarkerAges, names, removal
<1>10. CASE Evict
  BY <1>1, <1>2, <1>10, PlacesKept, ForwardIdle DEF Evict, names, removal
<1>11. CASE Rebuild
  BY <1>2, <1>11, PlacesKept, ForwardIdle DEF Rebuild, names, removal
<1>12. CASE Idle
  BY <1>2, <1>12, PlacesKept, ForwardIdle DEF Idle, vars
<1> QED BY <1>3, <1>4, <1>5, <1>6, <1>7, <1>8, <1>9, <1>10, <1>11, <1>12 DEF Next

-----------------------------------------------------------------------------
(* What the named trees hold: a tree goes under a name only when it was     *)
(* extracted to the end, and is emptied, not half filled, from there on.    *)
Extracted(t) == tree[t].body \notin {"none", "partial"}

NamedExtracted  == \A t \in Trees : Sited(t) => Extracted(t)
StagedExtracted == \A r \in Resolvers : pc[r] \in {"aside", "in", "taken"} => Extracted(r)

Bodily == NamedExtracted /\ StagedExtracted

\* The old tree was extracted.
LEMMA BodilyInit == Init => Bodily
<1> SUFFICES ASSUME Init PROVE Bodily
  OBVIOUS
<1>1. \A t \in Trees : Sited(t) => t = dest
  BY TreesAre DEF Init, Sited
<1>2. \A t \in Trees : t = dest => tree[t].body = "whole"
  BY DEF Init, Content, NoTree
<1>3. NamedExtracted
  BY <1>1, <1>2 DEF NamedExtracted, Extracted
<1> QED BY <1>3, TreesAre DEF Init, Bodily, StagedExtracted

\* The trees in D are dropped or refilled; what has a name after the step is
\* not among them, unless it is extracted all the same.
LEMMA BodilyKept ==
  ASSUME Bodily, NEW D,
         \A t \in Trees \ D : Extracted(t) => Extracted(t)',
         \A t \in Trees : Sited(t)' => Extracted(t)' \/ (Sited(t) /\ t \notin D),
         \A q \in Resolvers : pc'[q] \in {"aside", "in", "taken"} =>
            Extracted(q)' \/ (pc[q] \in {"aside", "in", "taken"} /\ q \notin D)
  PROVE  Bodily'
<1>1. NamedExtracted'
  BY DEF Bodily, NamedExtracted
<1>2. StagedExtracted'
  BY TreesAre DEF Bodily, StagedExtracted
<1> QED BY <1>1, <1>2 DEF Bodily

\* The same where no tree is dropped.
LEMMA BodilyUpdated ==
  ASSUME Bodily,
         \A t \in Trees : Extracted(t) => Extracted(t)',
         \A t \in Trees : Sited(t)' => Extracted(t)' \/ Sited(t),
         \A q \in Resolvers : pc'[q] \in {"aside", "in", "taken"} =>
            Extracted(q)' \/ pc[q] \in {"aside", "in", "taken"}
  PROVE  Bodily'
BY TreesAre DEF Bodily, NamedExtracted, StagedExtracted

\* Every step keeps Bodily: what is dropped has no name left, by Places.
LEMMA BodilyStep == ASSUME Typing, Places, Bodily, Next PROVE Bodily'
<1> USE TreesAre
<1>1. ASSUME NEW p \in Processes, NEW l, Goto(p, l) PROVE
        /\ p \in Resolvers => pc'[p] = l
        /\ \A q \in Resolvers \ {p} : pc'[q] = pc[q]
  BY <1>1 DEF Typing, Goto
<1>2. Other \notin Resolvers /\ staging \subseteq Resolvers
  BY TarCacheAssumption DEF Typing, TarCacheAssumption
<1>3. ASSUME NEW r \in Resolvers, FastPath(r) PROVE Bodily'
  <2>1. ASSUME NEW offline \in BOOLEAN, Call(r, offline) PROVE Bodily'
    <3>1. \A t \in Trees : Extracted(t) => Extracted(t)'
      BY <2>1 DEF Call, Typing, Contents, Extracted
    <3>2. \A t \in Trees : Sited(t)' => Sited(t)
      BY <2>1 DEF Call, Sited, names
    <3>3. \A q \in Resolvers : pc'[q] \in {"aside", "in", "taken"} => pc[q] \in {"aside", "in", "taken"}
      BY <1>1, <1>2, <2>1 DEF Call
    <3> QED BY <3>1, <3>2, <3>3, BodilyUpdated
  <2>2. CASE Hit(r)
    <3>1. \A t \in Trees : Extracted(t) => Extracted(t)'
      BY <2>2 DEF Hit, Typing, Contents, Extracted
    <3>2. \A t \in Trees : Sited(t)' => Sited(t)
      BY <2>2 DEF Hit, Sited, names
    <3>3. \A q \in Resolvers : pc'[q] \in {"aside", "in", "taken"} => pc[q] \in {"aside", "in", "taken"}
      BY <1>1, <1>2, <2>2 DEF Hit
    <3> QED BY <3>1, <3>2, <3>3, BodilyUpdated
  <2>3. CASE Refetch(r)
    <3>1. \A t \in Trees : Extracted(t) => Extracted(t)'
      BY <2>3 DEF Refetch, Typing, Contents, Extracted
    <3>2. \A t \in Trees : Sited(t)' => Sited(t)
      BY <2>3 DEF Refetch, Sited, names
    <3>3. \A q \in Resolvers : pc'[q] \in {"aside", "in", "taken"} => pc[q] \in {"aside", "in", "taken"}
      BY <1>1, <1>2, <2>3 DEF Refetch
    <3> QED BY <3>1, <3>2, <3>3, BodilyUpdated
  <2>4. CASE Inject(r)
    <3>0. \/ UNCHANGED <<dest, tree>>
          \/ dest' = Husk(r) /\ tree' = [tree EXCEPT ![Husk(r)] = Content("husk")]
      BY <2>4 DEF Inject
    <3>1. Content("husk").body = "husk"
      BY DEF Content, NoTree
    <3>2. /\ \A t \in Trees : Extracted(t) => Extracted(t)'
          /\ \A t \in Trees : Sited(t)' => Sited(t) \/ Extracted(t)'
      <4>1. CASE UNCHANGED <<dest, tree>>
        BY <2>4, <4>1 DEF Inject, Sited, Extracted
      <4>2. CASE dest' = Husk(r) /\ tree' = [tree EXCEPT ![Husk(r)] = Content("husk")]
        <5>1. Husk(r) \in Trees /\ tree'[Husk(r)] = Content("husk")
          BY <4>2 DEF Typing
        <5>2. \A t \in Trees \ {Husk(r)} : tree'[t] = tree[t]
          BY <4>2 DEF Typing
        <5>3. \A t \in Trees : Sited(t)' => Sited(t) \/ t = Husk(r)
          BY <2>4, <4>2 DEF Inject, Sited
        <5> QED BY <3>1, <5>1, <5>2, <5>3 DEF Extracted
      <4> QED BY <3>0, <4>1, <4>2
    <3>3. \A q \in Resolvers : pc'[q] \in {"aside", "in", "taken"} => pc[q] \in {"aside", "in", "taken"}
      BY <1>1, <2>4 DEF Inject
    <3> QED BY <3>2, <3>3, BodilyUpdated
  <2> QED BY <1>3, <2>1, <2>2, <2>3, <2>4
          DEF FastPath
<1>4. ASSUME NEW r \in Resolvers, Extraction(r) PROVE Bodily'
  <2>1. CASE FetchFails(r)
    <3>1. \A t \in Trees : Extracted(t) => Extracted(t)'
      BY <2>1 DEF FetchFails, Typing, Contents, Extracted
    <3>2. \A t \in Trees : Sited(t)' => Sited(t)
      BY <2>1 DEF FetchFails, Sited, names
    <3>3. \A q \in Resolvers : pc'[q] \in {"aside", "in", "taken"} => pc[q] \in {"aside", "in", "taken"}
      BY <1>1, <1>2, <2>1 DEF FetchFails
    <3> QED BY <3>1, <3>2, <3>3, BodilyUpdated
  <2>2. CASE Fetch(r)
    <3>1. \A t \in Trees \ {r} : Extracted(t) => Extracted(t)'
      BY <2>2 DEF Fetch, Typing, Extracted
    <3>2. \A t \in Trees : Sited(t)' => Sited(t) /\ t \notin {r}
      BY <1>2, <2>2 DEF Fetch, Typing, Sited, Places, TreesMoved, Early
    <3>3. \A q \in Resolvers : pc'[q] \in {"aside", "in", "taken"} =>
           pc[q] \in {"aside", "in", "taken"} /\ q \notin {r}
      BY <1>1, <1>2, <2>2 DEF Fetch, Places, StagingThere, StagingHidden, Staged, Sited
    <3> QED BY <3>1, <3>2, <3>3, BodilyKept
  <2>3. CASE ExtractFails(r)
    <3>1. \A t \in Trees \ {r} : Extracted(t) => Extracted(t)'
      BY <2>3, StagingDropped DEF ExtractFails, Extracted
    <3>2. \A t \in Trees : Sited(t)' => Sited(t) /\ t \notin {r}
      BY <1>2, <2>3 DEF ExtractFails, Sited, Places, StagingHidden, StagingThere, Staged
    <3>3. \A q \in Resolvers : pc'[q] \in {"aside", "in", "taken"} =>
           pc[q] \in {"aside", "in", "taken"} /\ q \notin {r}
      BY <1>1, <1>2, <2>3 DEF ExtractFails
    <3> QED BY <3>1, <3>2, <3>3, BodilyKept
  <2>4. CASE Extract(r)
    <3>1. Extracted(r)' /\ \A t \in Trees : Extracted(t) => Extracted(t)'
      BY <2>4 DEF Extract, Typing, Extracted, Content, NoTree
    <3>2. \A t \in Trees : Sited(t)' => Sited(t)
      BY <2>4 DEF Extract, Sited, names
    <3>3. \A q \in Resolvers : pc'[q] \in {"aside", "in", "taken"} => q = r \/ pc[q] \in {"aside", "in", "taken"}
      BY <1>1, <2>4 DEF Extract
    <3> QED BY <3>1, <3>2, <3>3, BodilyUpdated
  <2> QED BY <1>4, <2>1, <2>2, <2>3, <2>4
          DEF Extraction
<1>5. ASSUME NEW r \in Resolvers, Swap(r) PROVE Bodily'
  <2>1. CASE MoveAside(r)
    <3>1. \A t \in Trees : Extracted(t) => Extracted(t)'
      BY <2>1 DEF MoveAside, Typing, Contents, Extracted
    <3>2. \A t \in Trees : Sited(t)' => Sited(t)
      BY <2>1 DEF MoveAside, Sited, names
    <3>3. \A q \in Resolvers : pc'[q] \in {"aside", "in", "taken"} => pc[q] \in {"aside", "in", "taken"}
      BY <1>1, <1>2, <2>1 DEF MoveAside
    <3> QED BY <3>1, <3>2, <3>3, BodilyUpdated
  <2>2. CASE MoveAsideFails(r)
    <3>1. \A t \in Trees \ {r} : Extracted(t) => Extracted(t)'
      BY <2>2, StagingDropped DEF MoveAsideFails, Extracted
    <3>2. \A t \in Trees : Sited(t)' => Sited(t) /\ t \notin {r}
      BY <1>2, <2>2 DEF MoveAsideFails, Sited, Places, StagingHidden, StagingThere, Staged
    <3>3. \A q \in Resolvers : pc'[q] \in {"aside", "in", "taken"} =>
           pc[q] \in {"aside", "in", "taken"} /\ q \notin {r}
      BY <1>1, <1>2, <2>2 DEF MoveAsideFails
    <3> QED BY <3>1, <3>2, <3>3, BodilyKept
  <2>3. CASE RenameIn(r)
    <3>1. \A t \in Trees \ {dest} : Extracted(t) => Extracted(t)'
      BY <2>3 DEF RenameIn, Typing, Extracted, Land
    <3>2. \A q \in Resolvers : pc[q] \in {"aside", "in", "taken"} => Extracted(q)'
      <4>1. \A q \in Resolvers : pc[q] \in {"aside", "in", "taken"} => Extracted(q) /\ q # dest
        BY DEF Bodily, StagedExtracted, Places, StagingThere, StagingHidden, Staged, Sited
      <4> QED BY <3>1, <4>1
    <3>3. pc[r] = "in" /\ \A t \in Trees : Sited(t)' => t = r \/ (Sited(t) /\ t # dest)
      BY <2>3 DEF RenameIn, Sited, Places, TrashHeld, Land
    <3>4. \A q \in Resolvers : pc'[q] \in {"aside", "in", "taken"} => pc[q] \in {"aside", "in", "taken"}
      BY <1>1, <2>3 DEF RenameIn
    <3>5. \A t \in Trees : Sited(t)' => Extracted(t)' \/ (Sited(t) /\ t \notin {dest})
      BY <3>2, <3>3
    <3>6. \A q \in Resolvers : pc'[q] \in {"aside", "in", "taken"} => Extracted(q)'
      BY <3>2, <3>4
    <3> QED BY <3>1, <3>5, <3>6, BodilyKept
  <2>4. CASE RenameInFails(r)
    <3>1. \A t \in Trees : Extracted(t) => Extracted(t)'
      BY <2>4 DEF RenameInFails, Typing, Contents, Extracted
    <3>2. \A t \in Trees : Sited(t)' => Sited(t)
      BY <2>4 DEF RenameInFails, Sited, names
    <3>3. \A q \in Resolvers : pc'[q] \in {"aside", "in", "taken"} => pc[q] \in {"aside", "in", "taken"}
      BY <1>1, <1>2, <2>4 DEF RenameInFails
    <3> QED BY <3>1, <3>2, <3>3, BodilyUpdated
  <2>5. CASE AcceptWinner(r)
    <3>1. \A t \in Trees \ {r, trash[r]} : Extracted(t) => Extracted(t)'
      BY <2>5, WinnerAccepted DEF Extracted
    <3>2. ASSUME NEW t \in Trees, Sited(t)'
          PROVE  Extracted(t)' \/ (Sited(t) /\ t \notin {r, trash[r]})
      <4>1. ~Sited(r) /\ Sited(t)
        BY <2>5, <3>2, WinnerAccepted
           DEF AcceptWinner, Sited, Places, StagingHidden, StagingThere, Staged
      <4>2. CASE t # trash[r]
        BY <4>1, <4>2
      <4>3. CASE t = trash[r]
        <5>1. trash'[r] = t
          BY <2>5, <3>2, <4>3, WinnerAccepted DEF AcceptWinner, Sited, Places, TrashHeld, TrashOnce
        <5>2. tree'[t] = Content("torn")
          BY <2>5, <4>1, <4>3, <5>1, WinnerAccepted
        <5> QED BY <5>2 DEF Extracted, Content, NoTree
      <4> QED BY <4>2, <4>3
    <3>3. \A q \in Resolvers : pc'[q] \in {"aside", "in", "taken"} =>
           pc[q] \in {"aside", "in", "taken"} /\ q \notin {r, trash[r]}
      BY <1>1, <1>2, <2>5 DEF AcceptWinner, Places, StagingThere, StagingHidden, Staged, Sited
    <3> QED BY <3>1, <3>2, <3>3, BodilyKept
  <2>6. CASE RenameLost(r)
    <3>1. \A t \in Trees \ {r} : Extracted(t) => Extracted(t)'
      BY <2>6, StagingDropped DEF RenameLost, Extracted
    <3>2. \A t \in Trees : Sited(t)' => Sited(t) /\ t \notin {r}
      BY <1>2, <2>6 DEF RenameLost, Sited, Places, StagingHidden, StagingThere, Staged
    <3>3. \A q \in Resolvers : pc'[q] \in {"aside", "in", "taken"} =>
           pc[q] \in {"aside", "in", "taken"} /\ q \notin {r}
      BY <1>1, <1>2, <2>6 DEF RenameLost
    <3> QED BY <3>1, <3>2, <3>3, BodilyKept
  <2>7. CASE Restore(r)
    <3>1. \A t \in Trees \ {dest} : Extracted(t) => Extracted(t)'
      BY <2>7 DEF Restore, Typing, Extracted, Land
    <3>2. \A t \in Trees : Sited(t)' => Sited(t) /\ t \notin {dest}
      BY <1>2, <2>7 DEF Restore, Typing, Sited, Places, TrashHeld, TrashOnce, Land
    <3>3. \A q \in Resolvers : pc'[q] \in {"aside", "in", "taken"} =>
           pc[q] \in {"aside", "in", "taken"} /\ q \notin {dest}
      BY <1>1, <1>2, <2>7 DEF Restore, Places, StagingThere, StagingHidden, Staged, Sited, Land
    <3> QED BY <3>1, <3>2, <3>3, BodilyKept
  <2>8. CASE RestoreNothing(r)
    <3>1. \A t \in Trees : Extracted(t) => Extracted(t)'
      BY <2>8 DEF RestoreNothing, Typing, Contents, Extracted
    <3>2. \A t \in Trees : Sited(t)' => Sited(t)
      BY <2>8 DEF RestoreNothing, Sited, names
    <3>3. \A q \in Resolvers : pc'[q] \in {"aside", "in", "taken"} => pc[q] \in {"aside", "in", "taken"}
      BY <1>1, <1>2, <2>8 DEF RestoreNothing
    <3> QED BY <3>1, <3>2, <3>3, BodilyUpdated
  <2>9. CASE WriteTmp(r)
    <3>1. \A t \in Trees : Extracted(t) => Extracted(t)'
      BY <2>9 DEF WriteTmp, Typing, Contents, Extracted
    <3>2. \A t \in Trees : Sited(t)' => Sited(t)
      BY <2>9 DEF WriteTmp, Sited, names
    <3>3. \A q \in Resolvers : pc'[q] \in {"aside", "in", "taken"} => pc[q] \in {"aside", "in", "taken"}
      BY <1>1, <1>2, <2>9 DEF WriteTmp
    <3> QED BY <3>1, <3>2, <3>3, BodilyUpdated
  <2>10. CASE Publish(r)
    <3>1. \A t \in Trees : Extracted(t) => Extracted(t)'
      BY <2>10 DEF Publish, Typing, Contents, Extracted
    <3>2. \A t \in Trees : Sited(t)' => Sited(t)
      BY <2>10 DEF Publish, Sited, names
    <3>3. \A q \in Resolvers : pc'[q] \in {"aside", "in", "taken"} => pc[q] \in {"aside", "in", "taken"}
      BY <1>1, <1>2, <2>10 DEF Publish
    <3> QED BY <3>1, <3>2, <3>3, BodilyUpdated
  <2>11. CASE MarkFails(r)
    <3>1. \A t \in Trees : Extracted(t) => Extracted(t)'
      BY <2>11 DEF MarkFails, Typing, Contents, Extracted
    <3>2. \A t \in Trees : Sited(t)' => Sited(t)
      BY <2>11 DEF MarkFails, Sited, names
    <3>3. \A q \in Resolvers : pc'[q] \in {"aside", "in", "taken"} => pc[q] \in {"aside", "in", "taken"}
      BY <1>1, <1>2, <2>11 DEF MarkFails
    <3> QED BY <3>1, <3>2, <3>3, BodilyUpdated
  <2>12. CASE Clean(r)
    <3>1. \A t \in Trees \ {trash[r]} : Extracted(t) => Extracted(t)'
      BY <2>12, TrashDropped DEF Clean, Extracted
    <3>2. ASSUME NEW t \in Trees, Sited(t)'
          PROVE  Extracted(t)' \/ (Sited(t) /\ t \notin {trash[r]})
      <4>1. Sited(t)
        BY <2>12, <3>2, TrashDropped DEF Clean, Sited
      <4>2. CASE t = trash[r]
        <5>1. trash'[r] = t
          BY <2>12, <3>2, <4>2, TrashDropped DEF Clean, Sited, Places, TrashHeld, TrashOnce
        <5>2. tree'[t] = Content("torn")
          BY <2>12, <4>2, <5>1, TrashDropped DEF Clean
        <5> QED BY <5>2 DEF Extracted, Content, NoTree
      <4> QED BY <4>1, <4>2
    <3>3. \A q \in Resolvers : pc'[q] \in {"aside", "in", "taken"} =>
           pc[q] \in {"aside", "in", "taken"} /\ q \notin {trash[r]}
      BY <1>1, <1>2, <2>12 DEF Clean, Places, StagingThere, StagingHidden, Staged, Sited
    <3> QED BY <3>1, <3>2, <3>3, BodilyKept
  <2> QED BY <1>5, <2>1, <2>2, <2>3, <2>4, <2>5, <2>6, <2>7, <2>8, <2>9, <2>10, <2>11, <2>12
          DEF Swap
<1>6. ASSUME NEW p \in Processes, RemovalStep(p) PROVE Bodily'
  <2>1. CASE Tear(p)
    <3>1. \A t \in Trees : Extracted(t) => Extracted(t)'
      BY <2>1 DEF Tear, Typing, Contents, Extracted
    <3>2. \A t \in Trees : Sited(t)' => Sited(t)
      BY <2>1 DEF Tear, Sited, names
    <3>3. \A q \in Resolvers : pc'[q] \in {"aside", "in", "taken"} => pc[q] \in {"aside", "in", "taken"}
      BY <1>1, <1>2, <2>1 DEF Tear
    <3> QED BY <3>1, <3>2, <3>3, BodilyUpdated
  <2>2. CASE TearNothing(p)
    <3>1. \A t \in Trees : Extracted(t) => Extracted(t)'
      BY <2>2 DEF TearNothing, Typing, Contents, Extracted, After
    <3>2. \A t \in Trees : Sited(t)' => Sited(t)
      BY <2>2 DEF TearNothing, Sited, names
    <3>3. \A q \in Resolvers : pc'[q] \in {"aside", "in", "taken"} => pc[q] \in {"aside", "in", "taken"}
      BY <1>1, <1>2, <2>2 DEF TearNothing, After
    <3> QED BY <3>1, <3>2, <3>3, BodilyUpdated
  <2>3. CASE Sweep(p)
    <3>1. \A t \in Trees : Extracted(t) => Extracted(t)'
      BY <2>3 DEF Sweep, Typing, Contents, Extracted, Content, NoTree
    <3>2. \A t \in Trees : Sited(t)' => Sited(t)
      BY <2>3 DEF Sweep, Sited, names
    <3>3. \A q \in Resolvers : pc'[q] \in {"aside", "in", "taken"} => pc[q] \in {"aside", "in", "taken"}
      BY <1>1, <1>2, <2>3 DEF Sweep, Content, NoTree
    <3> QED BY <3>1, <3>2, <3>3, BodilyUpdated
  <2>4. CASE Rmdir(p)
    <3>1. \A t \in Trees \ {dest} : Extracted(t) => Extracted(t)'
      BY <2>4 DEF Rmdir, Typing, Extracted, After
    <3>2. \A t \in Trees : Sited(t)' => Sited(t) /\ t \notin {dest}
      BY <1>2, <2>4 DEF Rmdir, Typing, Sited, Places, TrashHeld, After
    <3>3. \A q \in Resolvers : pc'[q] \in {"aside", "in", "taken"} =>
           pc[q] \in {"aside", "in", "taken"} /\ q \notin {dest}
      BY <1>1, <1>2, <2>4 DEF Rmdir, Places, StagingThere, StagingHidden, Staged, Sited, After
    <3> QED BY <3>1, <3>2, <3>3, BodilyKept
  <2>5. CASE RmdirFails(p)
    <3>1. \A t \in Trees : Extracted(t) => Extracted(t)'
      BY <2>5 DEF RmdirFails, Extracted
    <3>2. \A t \in Trees : Sited(t)' => Sited(t)
      BY <2>5 DEF RmdirFails, Sited, names
    <3>3. \A q \in Resolvers : pc'[q] \in {"aside", "in", "taken"} => pc[q] \in {"aside", "in", "taken"}
      BY <1>2, <2>5, Retried DEF RmdirFails
    <3> QED BY <3>1, <3>2, <3>3, BodilyUpdated
  <2>6. CASE SweepFails(p)
    <3>1. \A t \in Trees : Extracted(t) => Extracted(t)'
      <4>1. tree' = tree \/ tree' = [tree EXCEPT ![victim[p]] = Content("torn")]
        BY <2>6 DEF SweepFails
      <4> QED BY <4>1 DEF Typing, Extracted, Content, NoTree
    <3>2. \A t \in Trees : Sited(t)' => Sited(t)
      BY <2>6 DEF SweepFails, Sited, names
    <3>3. \A q \in Resolvers : pc'[q] \in {"aside", "in", "taken"} => pc[q] \in {"aside", "in", "taken"}
      BY <1>2, <2>6, Retried DEF SweepFails
    <3> QED BY <3>1, <3>2, <3>3, BodilyUpdated
  <2> QED BY <1>6, <2>1, <2>2, <2>3, <2>4, <2>5, <2>6
          DEF RemovalStep
<1>7. ASSUME NEW p \in Processes, SweepOrphans(p) PROVE Bodily'
  <2>1. PICK T \in SUBSET Resolvers, S \in SUBSET {q \in staging : Quiet(q)} :
          /\ trash' = [q \in Resolvers |-> IF q \in T THEN None ELSE trash[q]]
          /\ tree' = [t \in Trees |-> IF t \in S \cup {trash[q] : q \in T} THEN NoTree
                                      ELSE tree[t]]
    BY <1>7 DEF SweepOrphans
  <2> DEFINE D == S \cup {trash[q] : q \in T}
  <2>2. \A t \in Trees \ D : Extracted(t) => Extracted(t)'
    BY <2>1 DEF Extracted
  <2>3. \A t \in Trees : Sited(t)' => Sited(t) /\ t \notin D
    <3> SUFFICES ASSUME NEW t \in Trees, Sited(t)' PROVE Sited(t) /\ t \notin D
      OBVIOUS
    <3>1. Sited(t)
      BY <1>7, <2>1 DEF SweepOrphans, Sited
    <3>2. t \notin S
      BY <1>2, <3>1 DEF Places, StagingHidden
    <3>3. \A q \in T : t # trash[q]
      <4>1. CASE dest = t
        BY <4>1 DEF Places, TrashHeld
      <4>2. ASSUME NEW u \in Resolvers, trash'[u] = t PROVE \A q \in T : t # trash[q]
        BY <2>1, <4>2 DEF Places, TrashOnce
      <4> QED BY <1>7, <4>1, <4>2 DEF SweepOrphans, Sited
    <3> QED BY <3>1, <3>2, <3>3
  <2>4. \A q \in Resolvers : pc'[q] \in {"aside", "in", "taken"} =>
          pc[q] \in {"aside", "in", "taken"} /\ q \notin D
    <3> SUFFICES ASSUME NEW q \in Resolvers, pc'[q] \in {"aside", "in", "taken"}
                 PROVE  pc[q] \in {"aside", "in", "taken"} /\ q \notin D
      OBVIOUS
    <3>1. pc[q] \in {"aside", "in", "taken"}
      BY <1>1, <1>2, <1>7 DEF SweepOrphans
    <3>2. q \in staging /\ q \notin S
      BY <3>1 DEF Places, StagingThere, Staged, Quiet
    <3>3. \A u \in Resolvers : trash[u] # q
      BY <3>2 DEF Places, StagingHidden, Sited
    <3> QED BY <3>1, <3>2, <3>3
  <2> HIDE DEF D
  <2> QED BY <2>2, <2>3, <2>4, BodilyKept
<1>8. ASSUME NEW p \in Processes, Crash(p) PROVE Bodily'
  <2>1. \A t \in Trees : Extracted(t) => Extracted(t)'
    BY <1>8 DEF Crash, Typing, Contents, Extracted
  <2>2. \A t \in Trees : Sited(t)' => Sited(t)
    BY <1>8 DEF Crash, Sited, names
  <2>3. \A q \in Resolvers : pc'[q] \in {"aside", "in", "taken"} => pc[q] \in {"aside", "in", "taken"}
    BY <1>1, <1>2, <1>8 DEF Crash
  <2> QED BY <2>1, <2>2, <2>3, BodilyUpdated
<1>9. ASSUME NEW u \in Trees, MarkerAges(u) PROVE Bodily'
  <2>1. \A t \in Trees : Extracted(t) => Extracted(t)'
    <3>1. PICK m \in {"warm", "stale"} : tree' = [tree EXCEPT ![u].marker = m]
      BY <1>9 DEF MarkerAges
    <3> QED BY <3>1 DEF Typing, Contents, Extracted
  <2>2. \A t \in Trees : Sited(t)' => Sited(t)
    BY <1>9 DEF MarkerAges, Sited, names
  <2>3. \A q \in Resolvers : pc'[q] \in {"aside", "in", "taken"} => pc[q] \in {"aside", "in", "taken"}
    BY <1>1, <1>2, <1>9 DEF MarkerAges
  <2> QED BY <2>1, <2>2, <2>3, BodilyUpdated
<1>10. CASE Evict
  <2>1. \A t \in Trees : Extracted(t) => Extracted(t)'
    BY <1>10 DEF Evict, Typing, Contents, Extracted
  <2>2. \A t \in Trees : Sited(t)' => Sited(t)
    BY <1>10 DEF Evict, Sited, names
  <2>3. \A q \in Resolvers : pc'[q] \in {"aside", "in", "taken"} => pc[q] \in {"aside", "in", "taken"}
    BY <1>1, <1>2, <1>10 DEF Evict
  <2> QED BY <2>1, <2>2, <2>3, BodilyUpdated
<1>11. CASE Rebuild
  <2>1. \A t \in Trees : Extracted(t) => Extracted(t)'
    BY <1>11 DEF Rebuild, Typing, Contents, Extracted
  <2>2. \A t \in Trees : Sited(t)' => Sited(t)
    BY <1>11 DEF Rebuild, Sited, names
  <2>3. \A q \in Resolvers : pc'[q] \in {"aside", "in", "taken"} => pc[q] \in {"aside", "in", "taken"}
    BY <1>1, <1>2, <1>11 DEF Rebuild
  <2> QED BY <2>1, <2>2, <2>3, BodilyUpdated
<1>12. CASE Idle
  <2>1. \A t \in Trees : Extracted(t) => Extracted(t)'
    BY <1>12 DEF Idle, Typing, Contents, Extracted, vars
  <2>2. \A t \in Trees : Sited(t)' => Sited(t)
    BY <1>12 DEF Idle, Sited, vars
  <2>3. \A q \in Resolvers : pc'[q] \in {"aside", "in", "taken"} => pc[q] \in {"aside", "in", "taken"}
    BY <1>1, <1>2, <1>12 DEF Idle, vars
  <2> QED BY <2>1, <2>2, <2>3, BodilyUpdated
<1> QED BY <1>3, <1>4, <1>5, <1>6, <1>7, <1>8, <1>9, <1>10, <1>11, <1>12 DEF Next

-----------------------------------------------------------------------------
(* A resolver that met no other: until it is done it has what it found,     *)
(* under dest or in its trash, or it has two errors behind it.  It is left  *)
(* in the trash where a sealed tree that cannot be removed stands at dest.  *)

\* The tree t is what b remembers.
Kept(b, t) ==
  /\ b.at = t
  /\ t # None => tree[t].body = b.has /\ (b.ready <=> tree[t].marker # "none")
  /\ t = None => b.has = "none" /\ ~b.ready

Untouched(r) == trash[r] = None /\ Kept(before[r], dest)
Stashed(r)   == Kept(before[r], trash[r])
Blocked(r)   == r \in sealed /\ Stashed(r)
Alone(r)     == \A p \in Processes \ {r} : Quiet(p)

Progress(r) ==
  /\ pc[r] \in {"judge", "judge offline", "fetch", "extract", "aside"} => Untouched(r)
  /\ pc[r] = "in" => dest = None /\ Stashed(r)
  /\ pc[r] = "taken" => dest = None /\ Stashed(r) /\ faults >= 1
  /\ pc[r] = "restore" /\ faults <= 1 =>
       /\ dest = None \/ (dest = r /\ r \in sealed)
       /\ Stashed(r) /\ faults >= 1
  /\ pc[r] = "mark" => dest = r /\ Stashed(r)
  /\ pc[r] = "publish" => dest = r /\ Stashed(r) /\ tree[r].tmp
  /\ pc[r] \in {"tear", "sweep", "rmdir"} => dest = r /\ Stashed(r) /\ faults >= 1
  /\ pc[r] = "sweep" => victim[r] = r
  /\ pc[r] = "rmdir" => tree[r] = Content("empty")
  /\ pc[r] = "err" /\ faults <= 1 => Untouched(r) \/ Blocked(r)

Restorable == \A r \in Resolvers : before[r] # NotAlone => Alone(r) /\ Progress(r)

\* Initially no resolver has looked at dest.
LEMMA RestorableInit == Init => Restorable
BY DEF Init, Restorable

\* Only a process at work moves, so whoever else was alone is no more.
LEMMA RestorableMoved ==
  ASSUME Restorable, NEW p \in Processes, ~Quiet(p), UNCHANGED before,
         \A q \in Processes \ {p} : pc'[q] = pc[q],
         p \in Resolvers /\ before[p] # NotAlone /\ Progress(p) => Progress(p)'
  PROVE  Restorable'
<1> SUFFICES ASSUME NEW r \in Resolvers, before[r] # NotAlone
             PROVE  Alone(r)' /\ Progress(r)'
  BY DEF Restorable
<1>1. Alone(r) /\ Progress(r)
  BY DEF Restorable
<1>2. r = p
  BY <1>1 DEF Alone
<1> QED BY <1>1, <1>2 DEF Alone, Quiet

\* Only the time passes for the tree t.
Aged(t) ==
  /\ tree'[t].body = tree[t].body
  /\ tree'[t].tmp = tree[t].tmp
  /\ tree'[t].marker # "none" <=> tree[t].marker # "none"
  /\ tree[t].marker = "none" => tree'[t] = tree[t]

\* Every step keeps Restorable.
LEMMA RestorableStep == ASSUME Typing, Places, Bodily, Restorable, [Next]_vars PROVE Restorable'
<1> USE TreesAre
<1>1. ASSUME NEW p \in Processes, NEW l, Goto(p, l) PROVE
        /\ pc'[p] = l
        /\ \A q \in Processes \ {p} : pc'[q] = pc[q]
  BY <1>1 DEF Typing, Goto
<1>2. Other \notin Resolvers /\ None \notin Resolvers
  BY TarCacheAssumption DEF TarCacheAssumption
<1>3. ASSUME NEW r \in Resolvers, FastPath(r) PROVE Restorable'
  <2>1. ASSUME NEW offline \in BOOLEAN, Call(r, offline) PROVE Restorable'
    <3>1. pc[r] = "idle" /\ pc'[r] \in {"judge", "judge offline", "err", "fetch"}
      BY <1>1, <2>1 DEF Call
    <3>2. /\ \A q \in Resolvers \ {r} : before'[q] = NotAlone
          /\ before'[r] # NotAlone => Alone(r) /\ before'[r] = Found
      BY <2>1 DEF Call, Met, Alone
    <3>3. Alone(r) => Alone(r)'
      BY <1>1, <2>1 DEF Call, Alone, Quiet
    <3>4. before'[r] = Found => Untouched(r)'
      <4>1. trash'[r] = None /\ UNCHANGED <<dest, tree>>
        BY <2>1, <3>1 DEF Call, names, Places, TrashHeld, TrashUsed, Holding, Dropped
      <4>2. Kept(Found, dest)
        <5>1. /\ Found.at = dest /\ Found.ready = Ready
              /\ dest # None => Found.has = tree[dest].body
              /\ dest = None => Found.has = "none"
          BY DEF Found
        <5> QED BY <5>1 DEF Kept, Ready
      <4> QED BY <4>1, <4>2 DEF Untouched, Kept
    <3>5. before'[r] = Found => Progress(r)'
      BY <3>1, <3>4 DEF Progress
    <3> QED BY <3>2, <3>3, <3>5 DEF Restorable
  <2>2. CASE Hit(r)
    <3>1. pc[r] \in {"judge", "judge offline"} /\ pc'[r] = "inject on hit"
      BY <1>1, <2>2 DEF Hit, MayHit
    <3>2. ASSUME Progress(r) PROVE Progress(r)'
      BY <3>1 DEF Progress
    <3> QED BY <1>1, <2>2, <3>1, <3>2, RestorableMoved DEF Hit, Quiet, removal, bounds
  <2>3. CASE Refetch(r)
    <3>1. pc[r] = "judge" /\ pc'[r] = "fetch"
      BY <1>1, <2>3 DEF Refetch
    <3>2. ASSUME Progress(r) PROVE Progress(r)'
      <4>1. Kept(before[r], dest)' <=> Kept(before[r], dest)
        BY <2>3 DEF Refetch, Kept, names, removal, bounds
      <4> QED BY <2>3, <3>1, <3>2, <4>1 DEF Refetch, Progress, Untouched, names, removal, bounds
    <3> QED BY <1>1, <2>3, <3>1, <3>2, RestorableMoved DEF Refetch, Quiet, removal, bounds
  <2>4. CASE Inject(r)
    <3>1. pc[r] \in {"inject on hit", "inject"} /\ pc'[r] \in {"ok", "prune"}
      BY <1>1, <2>4 DEF Inject
    <3>2. ASSUME Progress(r) PROVE Progress(r)'
      BY <3>1 DEF Progress
    <3> QED BY <1>1, <2>4, <3>1, <3>2, RestorableMoved DEF Inject, Quiet, removal, bounds
  <2> QED BY <1>3, <2>1, <2>2, <2>3, <2>4
          DEF FastPath
<1>4. ASSUME NEW r \in Resolvers, Extraction(r) PROVE Restorable'
  <2>1. CASE FetchFails(r)
    <3>1. pc[r] = "fetch" /\ pc'[r] = "err"
      BY <1>1, <2>1 DEF FetchFails
    <3>2. ASSUME Progress(r) PROVE Progress(r)'
      <4>1. Kept(before[r], dest)' <=> Kept(before[r], dest)
        BY <2>1 DEF FetchFails, Kept, names, removal, bounds
      <4> QED BY <2>1, <3>1, <3>2, <4>1 DEF FetchFails, Progress, Untouched, names, removal, bounds
    <3> QED BY <1>1, <2>1, <3>1, <3>2, RestorableMoved DEF FetchFails, Quiet, removal, bounds
  <2>2. CASE Fetch(r)
    <3>1. pc[r] = "fetch" /\ pc'[r] = "extract"
      BY <1>1, <2>2 DEF Fetch
    <3>2. ASSUME Progress(r) PROVE Progress(r)'
      <4>1. r # dest
        BY <3>1 DEF Places, TreesMoved, Sited, Early, Staged
      <4>2. dest' = dest /\ (dest # None => tree'[dest] = tree[dest])
        BY <2>2, <4>1 DEF Fetch, Typing, names
      <4>3. Kept(before[r], dest)' <=> Kept(before[r], dest)
        BY <2>2, <4>2 DEF Fetch, Kept, bounds
      <4> QED BY <2>2, <3>1, <3>2, <4>3 DEF Fetch, Progress, Untouched, names, removal, bounds
    <3> QED BY <1>1, <2>2, <3>1, <3>2, RestorableMoved DEF Fetch, Quiet, removal, bounds
  <2>3. CASE ExtractFails(r)
    <3>1. pc[r] = "extract" /\ pc'[r] = "err"
      BY <1>1, <2>3 DEF ExtractFails
    <3>2. ASSUME Progress(r) PROVE Progress(r)'
      <4>1. r # dest
        BY <3>1 DEF Places, TreesMoved, Sited, Early, Staged
      <4>2. dest' = dest /\ (dest # None => tree'[dest] = tree[dest])
        BY <2>3, <4>1, StagingDropped DEF ExtractFails, Typing
      <4>3. Kept(before[r], dest)' <=> Kept(before[r], dest)
        BY <2>3, <4>2 DEF ExtractFails, Kept, bounds
      <4> QED BY <2>3, <3>1, <3>2, <4>3 DEF ExtractFails, Progress, Untouched
    <3> QED BY <1>1, <2>3, <3>1, <3>2, RestorableMoved DEF ExtractFails, Quiet, removal, bounds
  <2>4. CASE Extract(r)
    <3>1. pc[r] = "extract" /\ pc'[r] = "aside"
      BY <1>1, <2>4 DEF Extract
    <3>2. ASSUME Progress(r) PROVE Progress(r)'
      <4>1. r # dest
        BY <3>1 DEF Places, TreesMoved, Sited, Early, Staged
      <4>2. dest' = dest /\ (dest # None => tree'[dest] = tree[dest])
        BY <2>4, <4>1 DEF Extract, Typing, names
      <4>3. Kept(before[r], dest)' <=> Kept(before[r], dest)
        BY <2>4, <4>2 DEF Extract, Kept, bounds
      <4> QED BY <2>4, <3>1, <3>2, <4>3 DEF Extract, Progress, Untouched, names, removal, bounds
    <3> QED BY <1>1, <2>4, <3>1, <3>2, RestorableMoved DEF Extract, Quiet, removal, bounds
  <2> QED BY <1>4, <2>1, <2>2, <2>3, <2>4
          DEF Extraction
<1>5. ASSUME NEW r \in Resolvers, Swap(r) PROVE Restorable'
  <2>1. CASE MoveAside(r)
    <3>1. pc[r] = "aside" /\ pc'[r] = "in"
      BY <1>1, <2>1 DEF MoveAside
    <3>2. ASSUME Progress(r) PROVE Progress(r)'
      <4>1. dest' = None /\ trash'[r] = dest /\ UNCHANGED <<tree, before>>
        BY <2>1 DEF MoveAside, Typing
      <4>2. Kept(before[r], dest)
        BY <3>1, <3>2 DEF Progress, Untouched
      <4>3. Stashed(r)'
        BY <4>1, <4>2 DEF Stashed, Kept
      <4> QED BY <3>1, <4>1, <4>3 DEF Progress
    <3> QED BY <1>1, <2>1, <3>1, <3>2, RestorableMoved DEF MoveAside, Quiet, removal, bounds
  <2>2. CASE MoveAsideFails(r)
    <3>1. pc[r] = "aside" /\ pc'[r] = "err"
      BY <1>1, <2>2 DEF MoveAsideFails
    <3>2. ASSUME Progress(r) PROVE Progress(r)'
      <4>1. r # dest
        BY <3>1 DEF Places, TreesMoved, Sited, Early, Staged
      <4>2. dest' = dest /\ (dest # None => tree'[dest] = tree[dest])
        BY <2>2, <4>1, StagingDropped DEF MoveAsideFails, Typing
      <4>3. Kept(before[r], dest)' <=> Kept(before[r], dest)
        BY <2>2, <4>2 DEF MoveAsideFails, Kept, bounds
      <4> QED BY <2>2, <3>1, <3>2, <4>3 DEF MoveAsideFails, Progress, Untouched
    <3> QED BY <1>1, <2>2, <3>1, <3>2, RestorableMoved DEF MoveAsideFails, Quiet, removal, bounds
  <2>3. CASE RenameIn(r)
    <3>1. pc[r] = "in" /\ pc'[r] = "mark"
      BY <1>1, <2>3 DEF RenameIn
    <3>2. ASSUME Progress(r) PROVE Progress(r)'
      <4>1. dest = None
        BY <3>1, <3>2 DEF Progress
      <4>2. trash'[r] = trash[r] /\ (trash[r] # None => tree'[trash[r]] = tree[trash[r]])
        BY <2>3, <4>1 DEF RenameIn, Typing, names, Land
      <4>3. Stashed(r)' <=> Stashed(r)
        BY <2>3, <4>2 DEF RenameIn, Stashed, Kept
      <4> QED BY <1>2, <2>3, <3>1, <3>2, <4>1, <4>2, <4>3 DEF RenameIn, Progress, Typing, names, removal, bounds, Land
    <3> QED BY <1>1, <2>3, <3>1, <3>2, RestorableMoved DEF RenameIn, Quiet, removal, bounds
  <2>4. CASE RenameInFails(r)
    <3>1. pc[r] = "in" /\ pc'[r] = "taken"
      BY <1>1, <2>4 DEF RenameInFails
    <3>2. ASSUME Progress(r) PROVE Progress(r)'
      <4>1. dest = None /\ faults' >= 1
        <5>1. dest = None /\ Vacant
          BY <3>1, <3>2 DEF Progress, Vacant
        <5> QED BY <2>4, <5>1 DEF RenameInFails, Fault, Typing
      <4>2. trash'[r] = trash[r] /\ (trash[r] # None => tree'[trash[r]] = tree[trash[r]])
        BY <2>4, <4>1 DEF RenameInFails, Typing, names
      <4>3. Stashed(r)' <=> Stashed(r)
        BY <2>4, <4>2 DEF RenameInFails, Stashed, Kept
      <4> QED BY <1>2, <2>4, <3>1, <3>2, <4>1, <4>2, <4>3 DEF RenameInFails, Progress, Typing, names, removal, bounds
    <3> QED BY <1>1, <2>4, <3>1, <3>2, RestorableMoved DEF RenameInFails, Quiet, removal, bounds
  <2>5. CASE AcceptWinner(r)
    <3>1. pc[r] = "taken" /\ pc'[r] = "inject"
      BY <1>1, <2>5 DEF AcceptWinner
    <3>2. ASSUME Progress(r) PROVE Progress(r)'
      BY <3>1 DEF Progress
    <3> QED BY <1>1, <2>5, <3>1, <3>2, RestorableMoved DEF AcceptWinner, Quiet, removal, bounds
  <2>6. CASE RenameLost(r)
    <3>1. pc[r] = "taken" /\ pc'[r] = "restore"
      BY <1>1, <2>6 DEF RenameLost
    <3>2. ASSUME Progress(r) PROVE Progress(r)'
      <4>1. trash[r] # r
        BY <3>1 DEF Places, TreesMoved, Sited, Staged
      <4>2. trash'[r] = trash[r] /\ (trash[r] # None => tree'[trash[r]] = tree[trash[r]])
        BY <2>6, <4>1, StagingDropped DEF RenameLost, Typing
      <4>3. Stashed(r)' <=> Stashed(r)
        BY <2>6, <4>2 DEF RenameLost, Stashed, Kept
      <4> QED BY <1>2, <2>6, <3>1, <3>2, <4>1, <4>2, <4>3 DEF RenameLost, Progress, Typing, bounds
    <3> QED BY <1>1, <2>6, <3>1, <3>2, RestorableMoved DEF RenameLost, Quiet, removal, bounds
  <2>7. CASE Restore(r)
    <3>1. pc[r] = "restore" /\ pc'[r] = "err"
      BY <1>1, <2>7 DEF Restore
    <3>2. ASSUME Progress(r) PROVE Progress(r)'
      <4>1. faults' <= 1 => Stashed(r)
        BY <2>7, <3>1, <3>2 DEF Restore, Progress, bounds
      <4>2. /\ trash'[r] = None /\ dest' = trash[r] /\ UNCHANGED before
            /\ trash[r] # None /\ tree'[trash[r]] = tree[trash[r]]
        <5>1. trash[r] \in Trees /\ trash[r] # dest
          BY <2>7 DEF Restore, Typing, Places, TrashHeld
        <5>2. tree' = tree \/ tree' = [tree EXCEPT ![dest] = NoTree]
          BY <2>7 DEF Restore, Land
        <5>3. tree'[trash[r]] = tree[trash[r]]
          BY <5>1, <5>2 DEF Typing
        <5>4. trash'[r] = None
          BY <2>7 DEF Restore, Typing
        <5> QED BY <2>7, <5>1, <5>3, <5>4 DEF Restore, Land
      <4>3. faults' <= 1 => Untouched(r)'
        BY <4>1, <4>2 DEF Stashed, Untouched, Kept
      <4> QED BY <3>1, <4>3 DEF Progress
    <3> QED BY <1>1, <2>7, <3>1, <3>2, RestorableMoved DEF Restore, Quiet, removal, bounds
  <2>8. CASE RestoreNothing(r)
    <3>1. pc[r] = "restore" /\ pc'[r] = "err"
      BY <1>1, <2>8 DEF RestoreNothing
    <3>2. ASSUME Progress(r) PROVE Progress(r)'
      <4>1. faults' <= 1 => Stashed(r) /\ ((dest = None /\ trash[r] = None) \/ r \in sealed)
        <5>1. faults <= 1 => /\ Stashed(r) /\ faults >= 1
                             /\ (dest = None /\ Vacant) \/ r \in sealed
          BY <3>1, <3>2 DEF Progress, Vacant
        <5>2. CASE Fault
          BY <5>1, <5>2 DEF Fault, Typing
        <5>3. CASE (trash[r] = None \/ ~Vacant) /\ UNCHANGED bounds
          BY <5>1, <5>3 DEF bounds
        <5> QED BY <2>8, <5>2, <5>3 DEF RestoreNothing
      <4>2. faults' <= 1 => Untouched(r)' \/ Blocked(r)'
        BY <2>8, <4>1 DEF RestoreNothing, Stashed, Untouched, Blocked, Kept, names, removal
      <4> QED BY <3>1, <4>2 DEF Progress
    <3> QED BY <1>1, <2>8, <3>1, <3>2, RestorableMoved DEF RestoreNothing, Quiet, removal, bounds
  <2>9. CASE WriteTmp(r)
    <3>1. pc[r] = "mark" /\ pc'[r] = "publish"
      BY <1>1, <2>9 DEF WriteTmp
    <3>2. ASSUME Progress(r) PROVE Progress(r)'
      <4>1. dest = r /\ trash[r] # r
        BY <1>2, <3>1, <3>2 DEF Progress, Places, TrashHeld
      <4>2. trash'[r] = trash[r] /\ (trash[r] # None => tree'[trash[r]] = tree[trash[r]])
        BY <2>9, <4>1 DEF WriteTmp, Typing, names
      <4>3. Stashed(r)' <=> Stashed(r)
        BY <2>9, <4>2 DEF WriteTmp, Stashed, Kept
      <4> QED BY <1>2, <2>9, <3>1, <3>2, <4>1, <4>2, <4>3 DEF WriteTmp, Progress, Typing, names, removal, bounds
    <3> QED BY <1>1, <2>9, <3>1, <3>2, RestorableMoved DEF WriteTmp, Quiet, removal, bounds
  <2>10. CASE Publish(r)
    <3>1. pc[r] = "publish" /\ pc'[r] = "clean"
      BY <1>1, <2>10 DEF Publish
    <3>2. ASSUME Progress(r) PROVE Progress(r)'
      BY <3>1 DEF Progress
    <3> QED BY <1>1, <2>10, <3>1, <3>2, RestorableMoved DEF Publish, Quiet, removal, bounds
  <2>11. CASE MarkFails(r)
    <3>1. pc[r] \in {"mark", "publish"} /\ pc'[r] = "tear"
      BY <1>1, <2>11 DEF MarkFails
    <3>2. ASSUME Progress(r) PROVE Progress(r)'
      <4>1. dest = r /\ trash[r] # r /\ Stashed(r)
        BY <1>2, <3>1, <3>2 DEF Progress, Places, TrashHeld
      <4>0. faults' >= 1
        <5>1. Fault
          BY <1>2, <2>11, <3>1, <3>2 DEF MarkFails, Progress
        <5> QED BY <5>1 DEF Fault, Typing
      <4>2. trash'[r] = trash[r] /\ (trash[r] # None => tree'[trash[r]] = tree[trash[r]])
        BY <2>11, <4>1 DEF MarkFails, Typing, names
      <4>3. Stashed(r)' <=> Stashed(r)
        BY <2>11, <4>2 DEF MarkFails, Stashed, Kept
      <4> QED BY <1>2, <2>11, <3>1, <3>2, <4>1, <4>2, <4>3, <4>0 DEF MarkFails, Progress, Typing, names, removal, bounds
    <3> QED BY <1>1, <2>11, <3>1, <3>2, RestorableMoved DEF MarkFails, Quiet, removal, bounds
  <2>12. CASE Clean(r)
    <3>1. pc[r] = "clean" /\ pc'[r] = "inject"
      BY <1>1, <2>12 DEF Clean
    <3>2. ASSUME Progress(r) PROVE Progress(r)'
      BY <3>1 DEF Progress
    <3> QED BY <1>1, <2>12, <3>1, <3>2, RestorableMoved DEF Clean, Quiet, removal, bounds
  <2> QED BY <1>5, <2>1, <2>2, <2>3, <2>4, <2>5, <2>6, <2>7, <2>8, <2>9, <2>10, <2>11, <2>12
          DEF Swap
<1>6. ASSUME NEW p \in Processes, RemovalStep(p) PROVE Restorable'
  <2>1. CASE Tear(p)
    <3>1. ASSUME p \in Resolvers, Progress(p) PROVE Progress(p)'
      <4>1. pc[p] = "tear" /\ pc'[p] = "sweep"
        BY <1>1, <1>2, <2>1, <3>1 DEF Tear
      <4>2. dest = p /\ trash[p] # p /\ Stashed(p) /\ faults >= 1
        BY <1>2, <3>1, <4>1 DEF Progress, Places, TrashHeld
      <4>3. trash'[p] = trash[p] /\ (trash[p] # None => tree'[trash[p]] = tree[trash[p]])
        BY <2>1, <3>1, <4>1, <4>2 DEF Tear, Typing, names
      <4>4. Stashed(p)'
        BY <2>1, <4>2, <4>3 DEF Tear, Stashed, Kept
      <4> QED BY <1>2, <2>1, <3>1, <4>1, <4>2, <4>3, <4>4 DEF Tear, Progress, Typing, names, removal, bounds
    <3> QED BY <1>1, <2>1, <3>1, RestorableMoved DEF Tear, Quiet, removal, bounds
  <2>2. CASE TearNothing(p)
    <3>1. ASSUME p \in Resolvers, Progress(p) PROVE Progress(p)'
      <4>1. pc[p] = "tear" /\ pc'[p] = "restore"
        BY <1>1, <1>2, <2>2, <3>1 DEF TearNothing, After
      <4>2. dest = p
        BY <3>1, <4>1 DEF Progress
      <4> QED BY <1>2, <2>2, <3>1, <4>2 DEF TearNothing
    <3> QED BY <1>1, <2>2, <3>1, RestorableMoved DEF TearNothing, Quiet, removal, bounds
  <2>3. CASE Sweep(p)
    <3>1. ASSUME p \in Resolvers, Progress(p) PROVE Progress(p)'
      <4>1. pc[p] = "sweep" /\ pc'[p] = "rmdir"
        BY <1>1, <1>2, <2>3, <3>1 DEF Sweep
      <4>2. dest = p /\ trash[p] # p /\ Stashed(p) /\ faults >= 1
        BY <1>2, <3>1, <4>1 DEF Progress, Places, TrashHeld
      <4>5. victim[p] = p /\ tree[p] # NoTree
        <5>1. Extracted(p)
          BY <3>1, <4>2 DEF Bodily, NamedExtracted, Sited
        <5> QED BY <3>1, <4>1, <5>1 DEF Progress, Extracted, NoTree
      <4>3. trash'[p] = trash[p] /\ (trash[p] # None => tree'[trash[p]] = tree[trash[p]])
        BY <2>3, <3>1, <4>1, <4>2, <4>5 DEF Sweep, Typing, names
      <4>4. Stashed(p)'
        BY <2>3, <4>2, <4>3 DEF Sweep, Stashed, Kept
      <4> QED BY <1>2, <2>3, <3>1, <4>1, <4>2, <4>3, <4>4, <4>5 DEF Sweep, Progress, Typing, names, removal, bounds
    <3> QED BY <1>1, <2>3, <3>1, RestorableMoved DEF Sweep, Quiet, removal, bounds
  <2>4. CASE Rmdir(p)
    <3>1. ASSUME p \in Resolvers, Progress(p) PROVE Progress(p)'
      <4>1. pc[p] = "rmdir" /\ pc'[p] = "restore"
        BY <1>1, <1>2, <2>4, <3>1 DEF Rmdir, After
      <4>2. dest = p /\ trash[p] # p /\ Stashed(p) /\ faults >= 1
        BY <1>2, <3>1, <4>1 DEF Progress, Places, TrashHeld
      <4>3. trash'[p] = trash[p] /\ (trash[p] # None => tree'[trash[p]] = tree[trash[p]])
        BY <2>4, <3>1, <4>1, <4>2 DEF Rmdir, Typing, names
      <4>4. Stashed(p)'
        BY <2>4, <4>2, <4>3 DEF Rmdir, Stashed, Kept
      <4> QED BY <1>2, <2>4, <3>1, <4>1, <4>2, <4>3, <4>4 DEF Rmdir, Progress, Typing, names, removal, bounds
    <3> QED BY <1>1, <2>4, <3>1, RestorableMoved DEF Rmdir, Quiet, removal, bounds
  <2>5. CASE RmdirFails(p)
    <3>1. ASSUME p \in Resolvers, Progress(p) PROVE Progress(p)'
      <4>1. pc[p] = "rmdir"
        BY <2>5 DEF RmdirFails
      <4>2. dest = p /\ Vacant
        BY <3>1, <4>1 DEF Progress, Vacant
      <4> QED BY <1>2, <2>5, <3>1, <4>2 DEF RmdirFails
    <3> QED BY <2>5, <3>1, Retried, RestorableMoved DEF RmdirFails, Quiet
  <2>6. CASE SweepFails(p)
    <3>1. ASSUME p \in Resolvers, Progress(p) PROVE Progress(p)'
      <4>1. pc[p] = "sweep" /\ pc'[p] = "restore" /\ UNCHANGED <<names, sealed, bounds, before>>
        BY <1>2, <2>6, <3>1, Retried DEF SweepFails
      <4>2. dest = p /\ trash[p] # p /\ Stashed(p) /\ faults >= 1 /\ victim[p] = p
        BY <1>2, <3>1, <4>1 DEF Progress, Places, TrashHeld
      <4>3. p \in sealed
        BY <2>6, <4>2 DEF SweepFails
      <4>4. trash[p] # None => tree'[trash[p]] = tree[trash[p]]
        <5>1. tree' = tree \/ tree' = [tree EXCEPT ![p] = Content("torn")]
          BY <2>6, <4>2 DEF SweepFails
        <5> QED BY <3>1, <4>2, <5>1 DEF Typing
      <4>5. Stashed(p)'
        BY <4>1, <4>2, <4>4 DEF Stashed, Kept, names
      <4> QED BY <4>1, <4>2, <4>3, <4>5 DEF Progress, names, bounds
    <3> QED BY <2>6, <3>1, Retried, RestorableMoved DEF SweepFails, Quiet
  <2> QED BY <1>6, <2>1, <2>2, <2>3, <2>4, <2>5, <2>6
          DEF RemovalStep
<1>7. ASSUME NEW p \in Processes, SweepOrphans(p) PROVE Restorable'
  <2>1. CASE p = Other
    BY <1>7, <2>1 DEF SweepOrphans, Met, Restorable
  <2>2. CASE p \in Resolvers
    <3>1. pc[p] = "prune" /\ pc'[p] = "ok"
      BY <1>1, <1>2, <1>7, <2>2 DEF SweepOrphans
    <3>2. Progress(p)'
      BY <3>1 DEF Progress
    <3> QED BY <1>1, <1>2, <1>7, <2>2, <3>1, <3>2, RestorableMoved DEF SweepOrphans, Quiet
  <2> QED BY <2>1, <2>2 DEF Processes
<1>8. ASSUME NEW p \in Processes, Crash(p) PROVE Restorable'
  <2>1. pc'[p] = "dead"
    BY <1>1, <1>8 DEF Crash
  <2>2. Progress(p)'
    BY <2>1 DEF Progress
  <2> QED BY <1>1, <1>8, <2>2, RestorableMoved DEF Crash
<1>9. ASSUME UNCHANGED <<pc, names, removal, bounds, before>>, \A t \in Trees : Aged(t)
      PROVE  Restorable'
  <2> SUFFICES ASSUME NEW r \in Resolvers, before[r] # NotAlone, Alone(r), Progress(r)
               PROVE  Alone(r)' /\ Progress(r)'
    BY <1>9 DEF Restorable
  <2>1. Alone(r)'
    BY <1>9 DEF Alone, Quiet
  <2>2. \A t \in Trees \cup {None} : Kept(before[r], t) => Kept(before[r], t)'
    <3> SUFFICES ASSUME NEW t \in Trees \cup {None}, Kept(before[r], t)
                 PROVE  Kept(before[r], t)'
      OBVIOUS
    <3>1. before'[r] = before[r]
      BY <1>9
    <3>2. t # None => Aged(t)
      BY <1>9
    <3> QED BY <3>1, <3>2 DEF Kept, Aged
  <2>3. /\ Untouched(r) => Untouched(r)'
        /\ Stashed(r) => Stashed(r)'
        /\ Blocked(r) => Blocked(r)'
    BY <1>9, <2>2 DEF Untouched, Stashed, Blocked, names, removal, Typing
  <2>4. Content("empty").marker = "none"
    BY DEF Content, NoTree
  <2>5. Aged(r)
    BY <1>9
  <2> QED BY <1>9, <2>1, <2>3, <2>4, <2>5 DEF Progress, Aged, names, removal, bounds
<1>10. ASSUME NEW u \in Trees, MarkerAges(u) PROVE Restorable'
  <2>1. PICK m \in {"warm", "stale"} : tree' = [tree EXCEPT ![u].marker = m]
    BY <1>10 DEF MarkerAges
  <2>2. tree[u].marker # "none"
    BY <1>10 DEF MarkerAges
  <2>3. \A t \in Trees : Aged(t)
    BY <2>1, <2>2 DEF Aged, Typing, Contents
  <2> QED BY <1>9, <1>10, <2>3 DEF MarkerAges
<1>11. CASE Evict
  BY <1>11 DEF Evict, Met, Restorable
<1>12. CASE Rebuild
  <2>1. \A t \in Trees : Aged(t)
    BY <1>12 DEF Rebuild, Aged, Typing, Contents
  <2> QED BY <1>9, <1>12, <2>1 DEF Rebuild
<1>13. CASE UNCHANGED vars
  BY <1>9, <1>13 DEF Aged, vars, names, removal, bounds
<1> QED BY <1>3, <1>4, <1>5, <1>6, <1>7, <1>8, <1>10, <1>11, <1>12, <1>13 DEF Next, Idle

-----------------------------------------------------------------------------
(* The theorems. *)

IInv == Typing /\ Places /\ Bodily /\ Restorable

(* The conjunction of the four parts is an invariant. *)
THEOREM Inductive == Spec => []IInv
<1>1. Init => IInv
  BY TypingInit, PlacesInit, BodilyInit, RestorableInit DEF IInv
<1>2. IInv /\ [Next]_vars => IInv'
  <2> SUFFICES ASSUME IInv, [Next]_vars PROVE IInv'
    OBVIOUS
  <2>1. CASE Next
    BY <2>1, TypingStep, PlacesStep, BodilyStep, RestorableStep DEF IInv
  <2>2. CASE UNCHANGED vars
    <3>1. Typing'
      BY <2>2 DEF IInv, Typing, vars
    <3>2. Places'
      BY <2>2 DEF IInv, Places, StagingHidden, StagingUsed, StagingThere, TrashHeld, TrashUsed,
                  TrashOnce, TreesMoved, HusksLate, Sited, vars
    <3>3. Bodily'
      BY <2>2 DEF IInv, Bodily, NamedExtracted, StagedExtracted, Extracted, Sited, vars
    <3>4. Restorable'
      BY <2>2, RestorableStep DEF IInv
    <3> QED BY <3>1, <3>2, <3>3, <3>4 DEF IInv
  <2> QED BY <2>1, <2>2
<1> QED BY <1>1, <1>2, PTL DEF Spec

(* Every variable keeps its type, and a tree has one name only: no rename   *)
(* of provide() leaves a tree both at the cache path and in a trash.        *)
THEOREM TypeCorrect == Spec => []TypeOK
<1>1. IInv => TypeOK
  BY DEF IInv, Typing, Places, TrashHeld, TypeOK, Contents, Memories
<1> QED BY <1>1, Inductive, PTL

(* A tree at the cache path was extracted to the end, whatever fails or     *)
(* dies, and however many resolvers run.                                    *)
THEOREM ExtractedToTheEnd == Spec => []NeverPartial
<1>1. IInv => NeverPartial
  BY TreesAre DEF IInv, Typing, Bodily, NamedExtracted, Extracted, Sited, NeverPartial
<1> QED BY <1>1, Inductive, PTL

(* Whatever others do, a resolver that returned has left no staging         *)
(* directory and, if it succeeded, no trash, unless that tree was sealed;   *)
(* nor has one that failed with one error and met no other left a trash,    *)
(* unless the tree it could not take out of the way was sealed.             *)
THEOREM NothingLeft == Spec => []NoLeak
<1>1. IInv => NoLeak
  <2> SUFFICES ASSUME IInv, NEW r \in Resolvers
               PROVE  /\ pc[r] \in {"ok", "err"} /\ r \in staging => r \in sealed
                      /\ pc[r] = "ok" /\ trash[r] # None => trash[r] \in sealed
                      /\ pc[r] = "err" /\ before[r] # NotAlone /\ faults <= 1
                            /\ trash[r] # None => r \in sealed
    BY DEF NoLeak
  <2>1. pc[r] \in {"ok", "err"} /\ r \in staging => r \in sealed
    BY DEF IInv, Places, StagingHidden, StagingUsed, Staged
  <2>2. pc[r] = "ok" /\ trash[r] # None => trash[r] \in sealed
    BY DEF IInv, Places, TrashHeld, TrashUsed, Holding
  <2>3. pc[r] = "err" /\ before[r] # NotAlone /\ faults <= 1 /\ trash[r] # None => r \in sealed
    BY DEF IInv, Restorable, Progress, Untouched, Blocked
  <2> QED BY <2>1, <2>2, <2>3
<1> QED BY <1>1, Inductive, PTL

(* A resolver that fails with one error and met no other leaves the cache   *)
(* path as it found it, so that a predecessor that worked still does, or    *)
(* has that predecessor unharmed in its trash, its own tree being sealed.   *)
THEOREM PredecessorBack == Spec => []PredecessorKept
<1>1. IInv => PredecessorKept
  <2> SUFFICES ASSUME IInv, NEW r \in Resolvers, pc[r] = "err", before[r] # NotAlone, faults <= 1
               PROVE  \/ before[r] = Found
                      \/ r \in sealed /\ before[r].at = trash[r]
                           /\ (trash[r] # None => before[r].has = tree[trash[r]].body)
    BY DEF PredecessorKept
  <2> DEFINE b == before[r]
  <2>1. Kept(b, dest) \/ Blocked(r)
    BY DEF IInv, Restorable, Progress, Untouched
  <2>2. b \in Memories
    BY DEF IInv, Typing
  <2>3. CASE Kept(b, dest)
    <3>1. b = [at |-> b.at, has |-> b.has, ready |-> b.ready] /\ b.ready \in BOOLEAN
      BY <2>2 DEF Memories
    <3>2. b.ready = Ready
      BY <2>3, <3>1 DEF Kept, Ready
    <3>3. b.at = dest /\ b.has = IF dest = None THEN "none" ELSE tree[dest].body
      BY <2>3 DEF Kept
    <3> HIDE DEF b
    <3>4. b = Found
      BY <3>1, <3>2, <3>3 DEF Found
    <3> QED BY <3>4 DEF b
  <2>4. CASE Blocked(r)
    BY <2>4 DEF Blocked, Stashed, Kept
  <2> QED BY <2>1, <2>3, <2>4
<1> QED BY <1>1, Inductive, PTL
=============================================================================
