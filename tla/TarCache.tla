------------------------------ MODULE TarCache ------------------------------
(***************************************************************************)
(* One entry of the tar provider's cache (vmette-provider-tar/lib.rs):     *)
(* provide(), run for the same URL by several processes that share nothing *)
(* but the cache directory, and prune_cache(), which a resolver of another *)
(* URL runs over it.                                                       *)
(*                                                                         *)
(* A tree is a directory on disk, named by the resolver that extracted it  *)
(* (Old: one left by an earlier run; Husk(r): what inject_guest_helpers    *)
(* makes of a path that is not there).  The names dest, staging and trash  *)
(* are looked up anew by each system call, and each rename, marker write   *)
(* and directory removal is an action.                                     *)
(*                                                                         *)
(* Time is kept as what the code asks of a marker's mtime: whether a hit   *)
(* may use the tree (it is within the TTL and not older than the source    *)
(* archive), and whether it was touched within EVICT_MIN_AGE.  A trash     *)
(* directory keeps the mtime of the tree that was moved, so it may look    *)
(* abandoned at once; a live staging directory is taken to be younger than *)
(* ORPHAN_GRACE.                                                           *)
(*                                                                         *)
(* A tree may be sealed: it has directories that its owner may not write,  *)
(* as extracted distributions do, on which remove_dir_all fails half way.  *)
(* provide() ignores that; prune_cache() makes them writable and tries     *)
(* again (force_remove_dir_all).                                           *)
(*                                                                         *)
(* Left out: archive formats and the size cap (extraction ends complete,   *)
(* with entries skipped, or in an error), and the sizes that decide        *)
(* whether the cache is over its cap.                                      *)
(***************************************************************************)
EXTENDS Naturals, FiniteSets

CONSTANTS
  Resolvers,  \* calls of provide() for this URL
  Pruning,    \* cache_max_bytes > 0
  MaxFaults,  \* bound: I/O errors
  MaxCrashes  \* bound: processes killed

Other == "other"           \* the resolver of another URL

\* Trees other than those the resolvers extract, and no tree.
None    == <<"none">>
Old     == <<"old">>
Husk(r) == <<"husk", r>>

ASSUME TarCacheAssumption ==
  /\ Pruning \in BOOLEAN /\ MaxFaults \in Nat /\ MaxCrashes \in Nat
  /\ Other \notin Resolvers /\ Old \notin Resolvers
  /\ \A r \in Resolvers : r # None /\ Husk(r) \notin Resolvers

VARIABLES
  pc,       \* where each process is
  dest,     \* the tree at the cache path, or None
  staging,  \* resolvers whose staging directory exists
  trash,    \* the tree in each resolver's trash directory
  tree,     \* what is in each tree
  victim,   \* the tree each process opened to remove it
  again,    \* the eviction is at the second attempt of force_remove_dir_all
  sealed,   \* the trees with directories that may not be written
  faults, crashes,
  before    \* what each resolver found at dest that has met no other process

vars == <<pc, dest, staging, trash, tree, victim, again, sealed, faults,
          crashes, before>>

names   == <<dest, staging, trash>>
removal == <<victim, again, sealed>>
bounds  == <<faults, crashes>>

Processes == Resolvers \cup {Other}
Trees == Resolvers \cup {Old} \cup {Husk(r) : r \in Resolvers}

\* Markers touched within EVICT_MIN_AGE, and markers a hit accepts.
Recent == {"recent", "outdated"}
Fresh  == {"recent", "warm"}
Markers == Recent \cup Fresh \cup {"stale"}

Bodies  == {"none", "partial", "whole", "holey", "husk", "torn", "empty"}
NoTree  == [body |-> "none", marker |-> "none", tmp |-> FALSE]
Content(b) == [NoTree EXCEPT !.body = b]

Quiet(p) == pc[p] \in {"idle", "ok", "err", "dead"}
Goto(p, label) == pc' = [pc EXCEPT ![p] = label]

\* The ready marker is seen under dest, and what else is there.
Ready == dest # None /\ tree[dest].marker # "none"
Found == [at |-> dest, has |-> IF dest = None THEN "none" ELSE tree[dest].body,
          ready |-> Ready]
NotAlone == [at |-> None, has |-> "unknown", ready |-> FALSE]
Met == before' = [r \in Resolvers |-> NotAlone]

Init ==
  /\ pc = [p \in Processes |-> "idle"]
  /\ dest \in {None, Old}
  /\ staging = {}
  /\ trash = [r \in Resolvers |-> None]
  /\ tree = [t \in Trees |-> IF t = dest THEN [Content("whole") EXCEPT !.marker = "stale"]
                             ELSE NoTree]
  /\ victim = [p \in Processes |-> None]
  /\ again = FALSE
  /\ sealed \in SUBSET (Resolvers \cup {dest}) /\ None \notin sealed
  /\ faults = 0 /\ crashes = 0
  /\ before = [r \in Resolvers |-> NotAlone]

Fault == faults < MaxFaults /\ faults' = faults + 1 /\ UNCHANGED crashes

-----------------------------------------------------------------------------
(* provide(): the fast path.                                               *)

\* marker.exists().
Call(r, offline) ==
  /\ pc[r] = "idle"
  /\ Goto(r, IF Ready THEN (IF offline THEN "judge offline" ELSE "judge")
             ELSE (IF offline THEN "err" ELSE "fetch"))
  /\ IF \A p \in Processes \ {r} : Quiet(p)
     THEN before' = [[q \in Resolvers |-> NotAlone] EXCEPT ![r] = Found]
     ELSE Met
  /\ UNCHANGED <<names, tree, removal, bounds>>

\* A marker that has gone meanwhile counts as new and not outdated.
MayHit(r) ==
  \/ pc[r] = "judge offline"
  \/ pc[r] = "judge" /\ (Ready => tree[dest].marker \in Fresh)

\* A hit: touch the marker and use the tree.
Hit(r) ==
  /\ MayHit(r)
  /\ Goto(r, "inject on hit")
  /\ tree' = IF Ready THEN [tree EXCEPT ![dest].marker = "recent"] ELSE tree
  /\ UNCHANGED <<names, removal, bounds, before>>

Refetch(r) ==
  /\ pc[r] = "judge" /\ ~MayHit(r)
  /\ Goto(r, "fetch")
  /\ UNCHANGED <<names, tree, removal, bounds, before>>

\* inject_guest_helpers creates what is missing on the way to usr/local/bin,
\* unless there are no guest_helpers or it fails.
Inject(r) ==
  /\ pc[r] \in {"inject on hit", "inject"}
  /\ Goto(r, IF pc[r] = "inject" /\ Pruning THEN "prune" ELSE "ok")
  /\ \/ UNCHANGED <<dest, tree>>
     \/ dest = None /\ dest' = Husk(r)
        /\ tree' = [tree EXCEPT ![Husk(r)] = Content("husk")]
  /\ UNCHANGED <<staging, trash, removal, bounds, before>>

-----------------------------------------------------------------------------
(* provide(): fetch and extract into a staging directory.                  *)

FetchFails(r) ==
  /\ pc[r] = "fetch"
  /\ Goto(r, "err")
  /\ UNCHANGED <<names, tree, removal, bounds, before>>

Fetch(r) ==
  /\ pc[r] = "fetch"
  /\ Goto(r, "extract")
  /\ staging' = staging \cup {r}
  /\ tree' = [tree EXCEPT ![r] = Content("partial")]
  /\ UNCHANGED <<dest, trash, removal, bounds, before>>

\* An entry that cannot be written is skipped with a warning.
Extract(r) ==
  /\ pc[r] = "extract"
  /\ Goto(r, "aside")
  /\ \/ tree' = [tree EXCEPT ![r] = Content("whole")] /\ UNCHANGED bounds
     \/ tree' = [tree EXCEPT ![r] = Content("holey")] /\ Fault
  /\ UNCHANGED <<names, removal, before>>

\* Mutant: the error of extract_into is logged, not returned.
ExtractFailsOnward(r) ==
  /\ pc[r] = "extract"
  /\ Goto(r, "aside")
  /\ UNCHANGED <<names, tree, removal, bounds, before>>

\* What remove_dir_all may leave of a tree: an extraction that was not complete
\* need not have come to what is sealed.
Left(t) ==
  IF t \notin sealed THEN {NoTree}
  ELSE IF tree[t].body \in {"partial", "holey"} THEN {NoTree, Content("torn")}
  ELSE {Content("torn")}

\* Whether it worked is not looked at.
DropStaging(r) ==
  \E left \in Left(r) :
    /\ staging' = IF left = NoTree THEN staging \ {r} ELSE staging
    /\ tree' = [tree EXCEPT ![r] = left]

ExtractFails(r) ==
  /\ pc[r] = "extract"
  /\ Goto(r, "err")
  /\ DropStaging(r)
  /\ UNCHANGED <<dest, trash, removal, bounds, before>>

-----------------------------------------------------------------------------
(* provide(): swap the staged tree in.                                     *)

\* rename(dest, trash); NotFound means that there is nothing to move.
MoveAside(r) ==
  /\ pc[r] = "aside"
  /\ Goto(r, "in")
  /\ dest' = None
  /\ trash' = [trash EXCEPT ![r] = dest]
  /\ UNCHANGED <<staging, tree, removal, bounds, before>>

\* Mutant: the early return leaves the staging directory.
MoveAsideFailsLeaks(r) ==
  /\ pc[r] = "aside" /\ Fault
  /\ Goto(r, "err")
  /\ UNCHANGED <<names, tree, removal, before>>

MoveAsideFails(r) ==
  /\ pc[r] = "aside" /\ Fault
  /\ Goto(r, "err")
  /\ DropStaging(r)
  /\ UNCHANGED <<dest, trash, removal, before>>

\* A directory may be renamed onto one that is not there or empty.
Vacant == dest # None => tree[dest] = Content("empty")

\* The tree t comes to stand at dest; an empty one there goes.
Land(t) == dest' = t /\ tree' = IF dest = None THEN tree ELSE [tree EXCEPT ![dest] = NoTree]

\* rename(staging, dest).
RenameIn(r) ==
  /\ pc[r] = "in" /\ Vacant
  /\ Goto(r, "mark")
  /\ Land(r)
  /\ staging' = staging \ {r}
  /\ UNCHANGED <<trash, removal, bounds, before>>

RenameInFails(r) ==
  /\ pc[r] = "in"
  /\ \/ ~Vacant /\ UNCHANGED bounds
     \/ Fault
  /\ Goto(r, "taken")
  /\ UNCHANGED <<names, tree, removal, before>>

DropTrash(r) ==
  \E left \in Left(trash[r]) :
    /\ trash' = [trash EXCEPT ![r] = IF left = NoTree THEN None ELSE @]
    /\ tree' = [t \in Trees |-> IF t = trash[r] THEN left ELSE tree[t]]

\* dest.exists(): another resolver won.  Drop both directories, use its tree.
AcceptWinner(r) ==
  /\ pc[r] = "taken" /\ dest # None
  /\ Goto(r, "inject")
  /\ \E staged \in Left(r), old \in Left(trash[r]) :
       /\ staging' = IF staged = NoTree THEN staging \ {r} ELSE staging
       /\ trash' = [trash EXCEPT ![r] = IF old = NoTree THEN None ELSE @]
       /\ tree' = [t \in Trees |-> IF t = r THEN staged
                                   ELSE IF t = trash[r] THEN old ELSE tree[t]]
  /\ UNCHANGED <<dest, removal, bounds, before>>

RenameLost(r) ==
  /\ pc[r] = "taken" /\ dest = None
  /\ Goto(r, "restore")
  /\ DropStaging(r)
  /\ UNCHANGED <<dest, trash, removal, bounds, before>>

\* Mutant: the predecessor is dropped where it should be put back.
RestoreForgets(r) ==
  /\ pc[r] = "restore" /\ trash[r] # None
  /\ Goto(r, "err")
  /\ DropTrash(r)
  /\ UNCHANGED <<dest, staging, removal, bounds, before>>

\* rename(trash, dest) if a predecessor was moved aside.
Restore(r) ==
  /\ pc[r] = "restore" /\ trash[r] # None /\ Vacant
  /\ Goto(r, "err")
  /\ Land(trash[r])
  /\ trash' = [trash EXCEPT ![r] = None]
  /\ UNCHANGED <<staging, removal, bounds, before>>

\* There is nothing to restore, or it cannot be, and the trash stays.
RestoreNothing(r) ==
  /\ pc[r] = "restore"
  /\ \/ (trash[r] = None \/ ~Vacant) /\ UNCHANGED bounds
     \/ Fault
  /\ Goto(r, "err")
  /\ UNCHANGED <<names, tree, removal, before>>

-----------------------------------------------------------------------------
(* provide(): the ready marker, and the way back if it fails.              *)

WriteTmp(r) ==
  /\ pc[r] = "mark" /\ dest # None
  /\ Goto(r, "publish")
  /\ tree' = [tree EXCEPT ![dest].tmp = TRUE]
  /\ UNCHANGED <<names, removal, bounds, before>>

\* rename(marker_tmp, marker), both looked up under dest.
Publish(r) ==
  /\ pc[r] = "publish" /\ dest # None /\ tree[dest].tmp
  /\ Goto(r, "clean")
  /\ tree' = [tree EXCEPT ![dest].tmp = FALSE, ![dest].marker = "recent"]
  /\ UNCHANGED <<names, removal, bounds, before>>

\* Either call fails: an I/O error, or dest was moved away or replaced.
MarkFails(r) ==
  /\ \/ pc[r] \in {"mark", "publish"} /\ Fault
     \/ pc[r] = "mark" /\ dest = None /\ UNCHANGED bounds
     \/ pc[r] = "publish" /\ ~(dest # None /\ tree[dest].tmp) /\ UNCHANGED bounds
  /\ Goto(r, "tear")
  /\ tree' = [t \in Trees |-> IF t = dest THEN [tree[t] EXCEPT !.tmp = FALSE] ELSE tree[t]]
  /\ UNCHANGED <<names, removal, before>>

\* The predecessor is no longer needed.
Clean(r) ==
  /\ pc[r] = "clean"
  /\ Goto(r, "inject")
  /\ DropTrash(r)
  /\ UNCHANGED <<dest, staging, removal, bounds, before>>

-----------------------------------------------------------------------------
(* remove_dir_all(dest), by a resolver whose marker failed or by the       *)
(* resolver of another URL that evicts.                                    *)

\* What follows the removal.
After(p) == IF p = Other THEN "idle" ELSE "restore"

\* The directory is opened, and its entries start to go.
Tear(p) ==
  /\ pc[p] = "tear" /\ dest # None
  /\ Goto(p, "sweep")
  /\ victim' = [victim EXCEPT ![p] = dest]
  /\ tree' = [tree EXCEPT ![dest].body = "torn"]
  /\ UNCHANGED <<names, again, sealed, bounds, before>>

TearNothing(p) ==
  /\ pc[p] = "tear" /\ dest = None
  /\ Goto(p, After(p))
  /\ again' = (again /\ p # Other)
  /\ UNCHANGED <<names, tree, victim, sealed, bounds, before>>

\* The first attempt of force_remove_dir_all has failed: what is at the path by
\* now is made writable, and is removed.  remove_dir_all itself gives up.
Retry(p) ==
  /\ Goto(p, IF p = Other /\ ~again THEN "tear" ELSE After(p))
  /\ victim' = [victim EXCEPT ![p] = None]
  /\ again' = IF p = Other THEN ~again ELSE again
  /\ sealed' = IF p = Other /\ ~again THEN sealed \ {dest} ELSE sealed

\* The last entry that was listed is gone, wherever the directory is by now.
Sweep(p) ==
  /\ pc[p] = "sweep" /\ (victim[p] \in sealed => tree[victim[p]] = NoTree)
  /\ Goto(p, "rmdir")
  /\ tree' = IF tree[victim[p]] = NoTree THEN tree
             ELSE [tree EXCEPT ![victim[p]] = Content("empty")]
  /\ UNCHANGED <<names, removal, bounds, before>>

\* An entry that may not be unlinked ends it, before or after the marker went.
SweepFails(p) ==
  /\ pc[p] = "sweep" /\ victim[p] \in sealed /\ tree[victim[p]] # NoTree
  /\ Retry(p)
  /\ tree' \in {tree, [tree EXCEPT ![victim[p]] = Content("torn")]}
  /\ UNCHANGED <<names, bounds, before>>

\* The directory itself goes, by its path.
Rmdir(p) ==
  /\ pc[p] = "rmdir" /\ dest # None /\ Vacant
  /\ Goto(p, After(p))
  /\ dest' = None
  /\ tree' = [tree EXCEPT ![dest] = NoTree]
  /\ victim' = [victim EXCEPT ![p] = None]
  /\ again' = (again /\ p # Other)
  /\ UNCHANGED <<staging, trash, sealed, bounds, before>>

\* It is not empty, or not there.
RmdirFails(p) ==
  /\ pc[p] = "rmdir" /\ (dest = None \/ ~Vacant)
  /\ Retry(p)
  /\ UNCHANGED <<names, tree, bounds, before>>

-----------------------------------------------------------------------------
(* prune_cache().                                                          *)

\* By the resolver of this URL, which keeps dest, or of another: abandoned
\* intermediates go, sealed or not.
SweepOrphans(p) ==
  /\ Pruning
  /\ pc[p] = IF p = Other THEN "idle" ELSE "prune"
  /\ Goto(p, IF p = Other THEN "idle" ELSE "ok")
  /\ \E T \in SUBSET Resolvers, S \in SUBSET {q \in staging : Quiet(q)} :
       /\ trash' = [q \in Resolvers |-> IF q \in T THEN None ELSE trash[q]]
       /\ staging' = staging \ S
       /\ tree' = [t \in Trees |-> IF t \in S \cup {trash[q] : q \in T} THEN NoTree
                                   ELSE tree[t]]
  /\ IF p = Other THEN Met ELSE UNCHANGED before
  /\ UNCHANGED <<dest, removal, bounds>>

\* The resolver of another URL lists dest for eviction, later to remove it.
Evict ==
  /\ Pruning /\ pc[Other] = "idle" /\ Ready /\ tree[dest].marker \notin Recent
  /\ Goto(Other, "tear")
  /\ Met
  /\ UNCHANGED <<names, tree, removal, bounds>>

-----------------------------------------------------------------------------
(* The surroundings.                                                       *)

Crash(p) ==
  /\ ~Quiet(p) /\ crashes < MaxCrashes
  /\ Goto(p, "dead")
  /\ victim' = [victim EXCEPT ![p] = None]
  /\ crashes' = crashes + 1
  /\ UNCHANGED <<names, tree, again, sealed, faults, before>>

\* EVICT_MIN_AGE, then the TTL pass, or the archive is built anew (tar+file).
MarkerAges(t) ==
  /\ \/ tree[t].marker = "recent" /\ tree' = [tree EXCEPT ![t].marker = "warm"]
     \/ tree[t].marker \in {"warm", "outdated"}
        /\ tree' = [tree EXCEPT ![t].marker = "stale"]
  /\ UNCHANGED <<pc, names, removal, bounds, before>>

Rebuild ==
  /\ \E t \in Trees : tree[t].marker \in Fresh
  /\ tree' = [t \in Trees |->
       [tree[t] EXCEPT !.marker = CASE @ = "recent" -> "outdated"
                                    [] @ = "warm" -> "stale"
                                    [] OTHER -> @]]
  /\ UNCHANGED <<pc, names, removal, bounds, before>>

Idle == (\A r \in Resolvers : Quiet(r)) /\ UNCHANGED vars

FastPath(r) == (\E offline \in BOOLEAN : Call(r, offline)) \/ Hit(r) \/ Refetch(r) \/ Inject(r)
Extraction(r) == FetchFails(r) \/ Fetch(r) \/ ExtractFails(r) \/ Extract(r)
Swap(r) == \/ MoveAside(r) \/ MoveAsideFails(r) \/ RenameIn(r) \/ RenameInFails(r)
           \/ AcceptWinner(r) \/ RenameLost(r) \/ Restore(r) \/ RestoreNothing(r)
           \/ WriteTmp(r) \/ Publish(r) \/ MarkFails(r) \/ Clean(r)
RemovalStep(p) == \/ Tear(p) \/ TearNothing(p) \/ Sweep(p) \/ SweepFails(p)
                  \/ Rmdir(p) \/ RmdirFails(p)

Next ==
  \/ \E r \in Resolvers : FastPath(r) \/ Extraction(r) \/ Swap(r)
  \/ \E p \in Processes : RemovalStep(p) \/ SweepOrphans(p) \/ Crash(p)
  \/ \E t \in Trees : MarkerAges(t)
  \/ Evict \/ Rebuild \/ Idle

Spec == Init /\ [][Next]_vars

-----------------------------------------------------------------------------
(* Type invariant; a tree has one name only. *)
Stages == {"idle", "judge", "judge offline", "fetch", "extract", "aside", "in",
           "taken", "restore", "mark", "publish", "tear", "sweep", "rmdir", "clean",
           "inject on hit", "inject", "prune", "ok", "err", "dead"}

TypeOK ==
  /\ pc \in [Processes -> Stages]
  /\ dest \in Trees \cup {None}
  /\ staging \subseteq Resolvers
  /\ trash \in [Resolvers -> Trees \cup {None}]
  /\ \A r \in Resolvers : trash[r] = dest => dest = None
  /\ tree \in [Trees -> [body : Bodies, marker : Markers \cup {"none"}, tmp : BOOLEAN]]
  /\ victim \in [Processes -> Trees \cup {None}]
  /\ again \in BOOLEAN /\ sealed \subseteq Trees
  /\ faults \in 0..MaxFaults /\ crashes \in 0..MaxCrashes
  /\ before \in [Resolvers -> [at : Trees \cup {None}, has : Bodies \cup {"unknown"},
                               ready : BOOLEAN]]

(* An extraction that failed or was killed half way never gets to the cache *)
(* path, and a predecessor never comes back to it from a deleted directory: *)
(* what stands there was extracted to the end, or is on its way out, or is  *)
(* a helper directory (lib.rs:224-225, 243-247).                            *)
NeverPartial == dest # None => tree[dest].body \notin {"none", "partial"}

(* A resolver that returns leaves no directory behind but what could not be *)
(* removed: its staging is gone, and so is its trash, unless one of them    *)
(* was sealed, or others or a second error kept it from putting the         *)
(* predecessor back (lib.rs:243-247, 264-267, 290, 327-328, 331-353).       *)
NoLeak == \A r \in Resolvers :
  /\ pc[r] \in {"ok", "err"} /\ r \in staging => r \in sealed
  /\ pc[r] = "ok" /\ trash[r] # None => trash[r] \in sealed
  /\ pc[r] = "err" /\ before[r] # NotAlone /\ faults <= 1 /\ trash[r] # None => r \in sealed

(* A resolver that fails with a single I/O error, and that met no other,    *)
(* leaves the cache as it found it: a predecessor that was working still    *)
(* stands at the path (lib.rs:278-283, 293-297, 331-334) -- or, when what   *)
(* the resolver had put there is sealed and in the way, unharmed in its     *)
(* trash (lib.rs:295-297, "we leave trash on disk for manual recovery").    *)
PredecessorKept == \A r \in Resolvers :
  pc[r] = "err" /\ before[r] # NotAlone /\ faults <= 1 =>
    \/ before[r] = Found
    \/ r \in sealed /\ before[r].at = trash[r]
         /\ (trash[r] # None => before[r].has = tree[trash[r]].body)
=============================================================================
