----------------------------- MODULE HostProofs -----------------------------
(* Proofs about what processes of one host share on its disk, besides the   *)
(* tar cache (TarCacheProofs): the OCI cache, the squashfs cache and the    *)
(* workspaces, for any number of processes, digests, layers, runs, errors   *)
(* and kills, and the layers of an image, for any of them.  Each component  *)
(* has its inductive invariant; the behaviours of MCHost, which are those   *)
(* of its components, keep all of them.                                     *)
EXTENDS MCHost, Counting, Sequences, TLAPS

-----------------------------------------------------------------------------
(* The OCI cache.  A digest that no two pulls met over has at most one      *)
(* puller behind its look at the marker, the tree is not marked while that  *)
(* puller works, and the content is what its stage says.                    *)

\* The pullers that have resolved a digest, and that know what they pull.
OciStages ==
  \A p \in Resolvers :
    /\ ociPc[p] \in {"check", "pull", "clear", "rmdir", "make", "extract", "mark",
                     "ref", "done"} => digest[p] \in Digests
    /\ ociPc[p] \in {"clear", "rmdir", "make", "extract", "mark"} =>
         /\ pulled[p] \in Digests
         /\ digest[p] \notin moved => pulled[p] = digest[p]
    /\ ociPc[p] \notin {"extract", "mark", "ref", "done", "failed", "dead"} =>
         layer[p] = 0
    /\ ociPc[p] = "mark" => layer[p] = NumLayers

PullsAlone ==
  \A p, q \in Resolvers : \A d \in Digests \ overlapped :
    OC!PullsInto(p, d) /\ OC!PullsInto(q, d) => p = q

NotYetMarked ==
  \A p \in Resolvers : \A d \in Digests \ overlapped :
    OC!PullsInto(p, d) => d \notin marker

NoTreeNoContent == \A d \in Digests \ exists : content[d] = {}

ContentOfStage ==
  \A p \in Resolvers : \A d \in Digests \ (overlapped \cup moved) :
    digest[p] = d =>
      /\ ociPc[p] = "make" => content[d] = {}
      /\ ociPc[p] \in {"extract", "mark"} =>
           d \in exists /\ content[d] = {d} \X (1..layer[p])

StaysMarked ==
  \A p \in Resolvers :
    ociPc[p] \in {"ref", "done"} /\ digest[p] \notin overlapped => digest[p] \in marker

OciInv ==
  /\ OC!TypeOK
  /\ OciStages /\ PullsAlone /\ NotYetMarked /\ NoTreeNoContent /\ ContentOfStage
  /\ OC!ReadyIsComplete /\ StaysMarked

LEMMA OciInit == OC!Init => OciInv
<1> SUFFICES ASSUME OC!Init PROVE OciInv
  OBVIOUS
<1> USE HostAssumption DEF OC!OciCacheAssumption, OC!Init
<1>1. OC!TypeOK
  <2>1. content \in [Digests -> SUBSET (Digests \X (1..NumLayers))]
    OBVIOUS
  <2>2. layer \in [Resolvers -> 0..NumLayers]
    OBVIOUS
  <2>3. QED BY <2>1, <2>2 DEF OC!TypeOK
<1>2. OciStages /\ PullsAlone /\ NotYetMarked
  BY DEF OciStages, PullsAlone, NotYetMarked, OC!PullsInto
<1>3. NoTreeNoContent /\ ContentOfStage /\ OC!ReadyIsComplete /\ StaysMarked
  BY DEF NoTreeNoContent, ContentOfStage, OC!ReadyIsComplete, StaysMarked
<1>4. QED BY <1>1, <1>2, <1>3 DEF OciInv

LEMMA OciTypeStep == OciInv /\ [OC!Next]_OC!vars => OC!TypeOK'
<1> SUFFICES ASSUME OciInv, [OC!Next]_OC!vars PROVE OC!TypeOK'
  OBVIOUS
<1> USE HostAssumption
    DEF OC!OciCacheAssumption, OC!TypeOK, OC!Goto, OC!tree, OC!local, OC!bounds, OC!history
<1>1. OC!TypeOK /\ OciStages BY DEF OciInv
<1>2. ASSUME NEW p \in Resolvers, OC!FastPath(p) \/ OC!ScanOffline(p) \/ OC!Resolve(p)
      PROVE  OC!TypeOK'
  BY <1>1, <1>2 DEF OC!FastPath, OC!HasHit, OC!ScanOffline, OC!Resolve
<1>3. ASSUME NEW p \in Resolvers, OC!CheckReady(p) PROVE OC!TypeOK'
  BY <1>1, <1>3 DEF OC!CheckReady, OciStages
<1>4. ASSUME NEW p \in Resolvers, OC!Pull(p) PROVE OC!TypeOK'
  BY <1>1, <1>4 DEF OC!Pull, OciStages
<1>5. ASSUME NEW p \in Resolvers, OC!Clear(p) \/ OC!ClearFails(p) \/ OC!Rmdir(p) \/ OC!Make(p)
      PROVE  OC!TypeOK'
  <2>1. CASE OC!ClearFails(p)
    <3>1. digest[p] \in Digests BY <1>1, <2>1 DEF OC!ClearFails, OciStages
    <3>2. PICK left \in SUBSET content[digest[p]] :
            content' = [content EXCEPT ![digest[p]] = left]
      BY <2>1 DEF OC!ClearFails
    <3>3. content' \in [Digests -> SUBSET (Digests \X (1..NumLayers))]
      BY <1>1, <3>1, <3>2
    <3>4. QED BY <1>1, <2>1, <3>1, <3>3 DEF OC!ClearFails
  <2>2. CASE OC!Clear(p) \/ OC!Rmdir(p) \/ OC!Make(p)
    BY <1>1, <2>2 DEF OC!Clear, OC!Rmdir, OC!Make, OciStages
  <2>3. QED BY <1>5, <2>1, <2>2
<1>6. ASSUME NEW p \in Resolvers, OC!Extract(p) PROVE OC!TypeOK'
  <2>1. digest[p] \in Digests /\ pulled[p] \in Digests /\ layer'[p] \in 1..NumLayers
    BY <1>1, <1>6 DEF OC!Extract, OciStages
  <2>2. QED BY <1>1, <1>6, <2>1 DEF OC!Extract
<1>7. ASSUME NEW p \in Resolvers, OC!Extracted(p) \/ OC!Mark(p) \/ OC!WriteRef(p)
      PROVE  OC!TypeOK'
  BY <1>1, <1>7 DEF OC!Extracted, OC!Mark, OC!WriteRef, OciStages
<1>8. ASSUME NEW p \in Resolvers, OC!Fails(p) \/ OC!Crash(p) PROVE OC!TypeOK'
  BY <1>1, <1>8 DEF OC!Fails, OC!Crash
<1>9. CASE OC!Expire \/ OC!TagMoves
  BY <1>1, <1>9 DEF OC!Expire, OC!TagMoves
<1>10. CASE OC!AllOver \/ UNCHANGED OC!vars
  BY <1>1, <1>10 DEF OC!AllOver, OC!vars
<1>11. QED
  BY <1>2, <1>3, <1>4, <1>5, <1>6, <1>7, <1>8, <1>9, <1>10 DEF OC!Next, OC!PullStep

LEMMA OciStep == OciInv /\ [OC!Next]_OC!vars => OciInv'
<1> SUFFICES ASSUME OciInv, [OC!Next]_OC!vars PROVE OciInv'
  OBVIOUS
<1> DEFINE Staged == OciStages' /\ PullsAlone' /\ NotYetMarked'
           Held   == NoTreeNoContent' /\ ContentOfStage' /\ OC!ReadyIsComplete' /\ StaysMarked'
<1>1. OC!TypeOK' BY OciTypeStep
<1> USE DEF OciStages, PullsAlone, NotYetMarked, NoTreeNoContent, ContentOfStage,
            OC!ReadyIsComplete, StaysMarked, OC!PullsInto, OC!Complete,
            OC!Goto, OC!tree, OC!local, OC!bounds, OC!history
<1>2. OC!TypeOK /\ OciStages /\ PullsAlone /\ NotYetMarked /\ NoTreeNoContent
      /\ ContentOfStage /\ OC!ReadyIsComplete /\ StaysMarked
  BY DEF OciInv
<1>3. ASSUME NEW p \in Resolvers, OC!FastPath(p) \/ OC!ScanOffline(p) \/ OC!Resolve(p)
      PROVE  Staged /\ Held
  BY <1>2, <1>3 DEF OC!FastPath, OC!HasHit, OC!ScanOffline, OC!Resolve, OC!TypeOK
<1>4. ASSUME NEW p \in Resolvers, OC!CheckReady(p) PROVE Staged /\ Held
  BY <1>2, <1>4 DEF OC!CheckReady, OC!TypeOK
<1>5. ASSUME NEW p \in Resolvers, OC!Pull(p) PROVE Staged /\ Held
  BY <1>2, <1>5 DEF OC!Pull, OC!TypeOK
<1>6. ASSUME NEW p \in Resolvers, OC!Clear(p) PROVE Staged /\ Held
  BY <1>2, <1>6 DEF OC!Clear, OC!TypeOK
<1>17. ASSUME NEW p \in Resolvers, OC!ClearFails(p) PROVE Staged /\ Held
  <2>1. PICK left \in SUBSET content[digest[p]] :
          content' = [content EXCEPT ![digest[p]] = left]
    BY <1>17 DEF OC!ClearFails
  <2>2. /\ ociPc[p] = "clear" /\ ociPc' = [ociPc EXCEPT ![p] = "failed"]
        /\ marker' \in {marker, marker \ {digest[p]}}
        /\ UNCHANGED <<exists, digest, pulled, layer, overlapped, moved>>
    BY <1>17 DEF OC!ClearFails
  <2>3. digest[p] \in Digests BY <1>2, <2>2
  <2>4. Staged BY <1>2, <2>2, <2>3 DEF OC!TypeOK
  <2>5. NoTreeNoContent' BY <1>2, <2>1, <2>2, <2>3 DEF OC!TypeOK
  <2>6. ContentOfStage' BY <1>2, <2>1, <2>2, <2>3 DEF OC!TypeOK
  <2>7. OC!ReadyIsComplete' BY <1>2, <2>1, <2>2, <2>3 DEF OC!TypeOK
  <2>8. StaysMarked' BY <1>2, <2>2, <2>3 DEF OC!TypeOK
  <2>9. QED BY <2>4, <2>5, <2>6, <2>7, <2>8
<1>7. ASSUME NEW p \in Resolvers, OC!Rmdir(p) PROVE Staged /\ Held
  BY <1>2, <1>7 DEF OC!Rmdir, OC!TypeOK
<1>8. ASSUME NEW p \in Resolvers, OC!Make(p) PROVE Staged /\ Held
  BY <1>2, <1>8 DEF OC!Make, OC!TypeOK
<1>9. ASSUME NEW p \in Resolvers, OC!Extract(p) PROVE Staged /\ Held
  BY <1>2, <1>9 DEF OC!Extract, OC!TypeOK
<1>10. ASSUME NEW p \in Resolvers, OC!Extracted(p) PROVE Staged /\ Held
  BY <1>2, <1>10 DEF OC!Extracted, OC!TypeOK
<1>11. ASSUME NEW p \in Resolvers, OC!Mark(p) PROVE Staged /\ Held
  BY <1>2, <1>11 DEF OC!Mark, OC!TypeOK
<1>12. ASSUME NEW p \in Resolvers, OC!WriteRef(p) PROVE Staged /\ Held
  BY <1>2, <1>12 DEF OC!WriteRef, OC!TypeOK
<1>13. ASSUME NEW p \in Resolvers, OC!Fails(p) \/ OC!Crash(p) PROVE Staged /\ Held
  BY <1>2, <1>13 DEF OC!Fails, OC!Crash, OC!TypeOK
<1>14. CASE OC!Expire \/ OC!TagMoves
  <2>1. Staged /\ Held
    BY <1>2, <1>14 DEF OC!Expire, OC!TagMoves
  <2>2. QED BY <1>1, <2>1 DEF OciInv
<1>15. CASE OC!AllOver \/ UNCHANGED OC!vars
  <2>1. Staged /\ Held
    BY <1>2, <1>15 DEF OC!AllOver, OC!vars
  <2>2. QED BY <1>1, <2>1 DEF OciInv
<1>16. QED
  BY <1>1, <1>3, <1>4, <1>5, <1>6, <1>7, <1>8, <1>9, <1>10, <1>11, <1>12, <1>13, <1>14,
     <1>15, <1>17 DEF OC!Next, OC!PullStep, OciInv

LEMMA OciSafe == OciInv => OC!ReadyIsComplete /\ OC!ReturnedTreeStays
BY DEF OciInv, StaysMarked, OC!ReturnedTreeStays

-----------------------------------------------------------------------------
(* The squashfs cache.  The staging file holds what the server sent, and    *)
(* what is about to be renamed has passed both checks.                      *)

StagingOfStage ==
  \A r \in Resolvers :
    /\ at[r] \in {"idle", "get"} => body[r] = "none"
    /\ at[r] \in {"create", "copy"} => body[r] # "none"
    /\ at[r] \in {"sync", "verify", "rename"} =>
         download[r] = body[r] /\ body[r] \in {"image", "page", "cut"}
    /\ at[r] = "rename" => body[r] # "page"

SqInv == SQ!TypeOK /\ StagingOfStage /\ SQ!PublishedIsWhole /\ SQ!StagingGoes

LEMMA SqInit == SQ!Init => SqInv
<1> SUFFICES ASSUME SQ!Init PROVE SqInv
  OBVIOUS
<1> USE DEF SQ!Init
<1>1. SQ!TypeOK
  <2>1. faults \in 0..MaxFaults /\ crashes \in 0..MaxCrashes
    BY HostAssumption DEF SQ!SquashfsAssumption
  <2>2. QED BY <2>1 DEF SQ!TypeOK, SQ!Bodies
<1>2. StagingOfStage /\ SQ!PublishedIsWhole /\ SQ!StagingGoes
  BY DEF StagingOfStage, SQ!PublishedIsWhole, SQ!StagingGoes
<1>3. QED BY <1>1, <1>2 DEF SqInv

LEMMA SqStep == SqInv /\ [SQ!Next]_SQ!vars => SqInv'
<1> SUFFICES ASSUME SqInv, [SQ!Next]_SQ!vars PROVE SqInv'
  OBVIOUS
<1> USE HostAssumption
    DEF SQ!SquashfsAssumption, SqInv, SQ!TypeOK, StagingOfStage, SQ!PublishedIsWhole,
        SQ!StagingGoes, SQ!Working, SQ!Bodies, SQ!Goto, SQ!Put, SQ!Discard
<1>1. ASSUME NEW r \in Resolvers, SQ!Lookup(r) PROVE SqInv'
  BY <1>1 DEF SQ!Lookup
<1>2. ASSUME NEW r \in Resolvers, SQ!Request(r) PROVE SqInv'
  BY <1>2 DEF SQ!Request
<1>3. ASSUME NEW r \in Resolvers, SQ!Create(r) \/ SQ!Sync(r) PROVE SqInv'
  <2>1. CASE SQ!Create(r) BY <2>1 DEF SQ!Create
  <2>2. CASE SQ!Sync(r) BY <2>2 DEF SQ!Sync
  <2>3. QED BY <1>3, <2>1, <2>2
<1>4. ASSUME NEW r \in Resolvers, SQ!Copy(r) PROVE SqInv'
  BY <1>4 DEF SQ!Copy
<1>5. ASSUME NEW r \in Resolvers, SQ!Verify(r) PROVE SqInv'
  BY <1>5 DEF SQ!Verify
<1>6. ASSUME NEW r \in Resolvers, SQ!Rename(r) PROVE SqInv'
  BY <1>6 DEF SQ!Rename
<1>7. ASSUME NEW r \in Resolvers, SQ!Fails(r) PROVE SqInv'
  BY <1>7 DEF SQ!Fails
<1>8. ASSUME NEW r \in Resolvers, SQ!Crash(r) PROVE SqInv'
  BY <1>8 DEF SQ!Crash
<1>9. CASE SQ!Expire \/ SQ!AllOver \/ UNCHANGED SQ!vars
  BY <1>9 DEF SQ!Expire, SQ!AllOver, SQ!vars
<1>10. QED
  BY <1>1, <1>2, <1>3, <1>4, <1>5, <1>6, <1>7, <1>8, <1>9 DEF SQ!Next

-----------------------------------------------------------------------------
(* The workspaces.  A server's ids are fresh, none of them is open and      *)
(* about to be removed, and a stop slot says how far the run's worker is.   *)

FreshIds ==
  \A s \in Resolvers :
    /\ server[s] = "down" =>
         open[s] = {} /\ removing[s] = {} /\ disk[s] = {} /\ made[s] = 0
    /\ open[s] \cup removing[s] \subseteq 1..made[s]
    /\ open[s] \cap removing[s] = {}

StageOfRun ==
  \A r \in Runs :
    /\ call[r] = "none" => worker[r] = "none" /\ place[r] = WS!NoPlace
    /\ worker[r] \in {"none", "resolve", "boot", "failed"} => vm[r] = "none"
    /\ worker[r] \in {"done", "over"} => vm[r] \in {"none", "over"}
    /\ slot[r] # "empty" => worker[r] \in {"wait", "done", "over"}
    /\ call[r] = "answered" => worker[r] = "over"
    /\ call[r] = "wedged" /\ r \notin early => worker[r] \in {"wait", "done", "over"}
    /\ r \in early => call[r] = "wedged"
    /\ vm[r] = "stopping" => call[r] = "wedged" /\ r \notin early

WsInv == WS!TypeOK /\ FreshIds /\ StageOfRun /\ WS!WorkspaceKept /\ WS!RunsAreOver

LEMMA WsInit == WS!Init => WsInv
<1> SUFFICES ASSUME WS!Init PROVE WsInv
  OBVIOUS
<1> USE DEF WS!Init
<1>1. WS!TypeOK
  BY HostAssumption DEF WS!WorkspaceAssumption, WS!TypeOK, WS!NoPlace, WS!Ids
<1>2. FreshIds /\ StageOfRun
  BY DEF FreshIds, StageOfRun
<1>3. WS!WorkspaceKept /\ WS!RunsAreOver
  BY DEF WS!WorkspaceKept, WS!RunsAreOver
<1>4. QED BY <1>1, <1>2, <1>3 DEF WsInv

\* Removing bases only takes directories away, and only in those bases.
LEMMA RemovedBases ==
  ASSUME WS!TypeOK, NEW T, NEW born \in SUBSET Resolvers, WS!RemoveBases(T, born)
  PROVE  /\ base' \in SUBSET Resolvers /\ age' \in [Resolvers -> 0..2]
         /\ disk' \in [Resolvers -> SUBSET WS!Ids]
         /\ \A t \in Resolvers : disk'[t] \subseteq disk[t] /\ (t \notin T => disk'[t] = disk[t])
<1>1. disk' \in {left \in [Resolvers -> SUBSET WS!Ids] : \A t \in Resolvers :
                   left[t] \subseteq disk[t] /\ (t \notin T => left[t] = disk[t])}
  BY DEF WS!RemoveBases
<1>2. age' = [t \in Resolvers |-> IF t \in base' /\ disk'[t] = disk[t] THEN age[t] ELSE 0]
  BY DEF WS!RemoveBases
<1>3. base' = {t \in base : t \in T => disk'[t] # {}} \cup born
  BY DEF WS!RemoveBases
<1>4. base \in SUBSET Resolvers /\ age \in [Resolvers -> 0..2] BY DEF WS!TypeOK
<1>5. base' \in SUBSET Resolvers BY <1>3, <1>4
<1>6. age' \in [Resolvers -> 0..2] BY <1>2, <1>4
<1>7. QED BY <1>1, <1>5, <1>6

\* What a step of a server means for the workspaces of the others.
LEMMA WsServerStep ==
  ASSUME WsInv, NEW s \in Resolvers, WS!ServerStep(s)
  PROVE  WsInv'
<1> USE HostAssumption
    DEF WS!WorkspaceAssumption, WS!TypeOK, FreshIds, StageOfRun, WS!WorkspaceKept,
        WS!RunsAreOver, WS!Alive, WS!StaleBase, WS!Ids, WS!Of, WS!NoPlace,
        WS!bases, WS!state, WS!runs, WS!history
<1>1. WS!TypeOK /\ FreshIds /\ StageOfRun /\ WS!WorkspaceKept /\ WS!RunsAreOver
  BY DEF WsInv
<1> DEFINE All == WS!TypeOK' /\ FreshIds' /\ StageOfRun' /\ WS!WorkspaceKept' /\ WS!RunsAreOver'
<1>2. CASE WS!StartServer(s)
  <2> DEFINE T == {t \in base : WS!StaleBase(t)}
  <2>1. /\ WS!RemoveBases(T, {s})
        /\ server[s] = "down" /\ server' = [server EXCEPT ![s] = "up"]
        /\ dayOld' = dayOld \cup {t \in T : age[t] >= 2}
        /\ UNCHANGED <<open, removing, made, call, worker, place, slot, vm, early>>
    BY <1>2 DEF WS!StartServer, WS!Reap
  <2>2. T \subseteq Resolvers /\ \A t \in T : WS!StaleBase(t) BY <1>1
  <2>3. \A t \in T : server[t] \in {"up", "closing"} => age[t] >= 2 BY <2>2
  <2> HIDE DEF T
  <2>4. /\ base' \in SUBSET Resolvers /\ age' \in [Resolvers -> 0..2]
        /\ disk' \in [Resolvers -> SUBSET WS!Ids]
        /\ \A t \in Resolvers : disk'[t] \subseteq disk[t] /\ (t \notin T => disk'[t] = disk[t])
    BY <1>1, <2>1, RemovedBases
  <2>5. WS!TypeOK' BY <1>1, <2>1, <2>2, <2>4
  <2>6. FreshIds' BY <1>1, <2>1, <2>4
  <2>7. StageOfRun' /\ WS!RunsAreOver' BY <1>1, <2>1
  <2>8. WS!WorkspaceKept' BY <1>1, <2>1, <2>2, <2>3, <2>4
  <2>9. QED BY <2>5, <2>6, <2>7, <2>8 DEF WsInv
<1>3. CASE WS!ReapPeriodically(s)
  <2>1. PICK t \in base :
          /\ WS!StaleBase(t) /\ WS!RemoveBases({t}, {})
          /\ dayOld' = dayOld \cup {u \in {t} : age[u] >= 2}
    BY <1>3 DEF WS!ReapPeriodically, WS!Reap
  <2>2. UNCHANGED <<server, open, removing, made, call, worker, place, slot, vm, early>>
    BY <1>3 DEF WS!ReapPeriodically
  <2>3. t \in Resolvers /\ (server[t] \in {"up", "closing"} => age[t] >= 2) BY <1>1, <2>1
  <2>4. /\ base' \in SUBSET Resolvers /\ age' \in [Resolvers -> 0..2]
        /\ disk' \in [Resolvers -> SUBSET WS!Ids]
        /\ \A u \in Resolvers : disk'[u] \subseteq disk[u] /\ (u \notin {t} => disk'[u] = disk[u])
    BY <1>1, <2>1, RemovedBases
  <2>5. WS!TypeOK' BY <1>1, <2>1, <2>2, <2>3, <2>4
  <2>6. FreshIds' BY <1>1, <2>2, <2>4
  <2>7. StageOfRun' /\ WS!RunsAreOver' BY <1>1, <2>2
  <2>8. WS!WorkspaceKept' BY <1>1, <2>1, <2>2, <2>3, <2>4
  <2>9. QED BY <2>5, <2>6, <2>7, <2>8 DEF WsInv
<1>4. CASE WS!TimePasses(s)
  <2>1. All BY <1>1, <1>4 DEF WS!TimePasses
  <2>2. QED BY <2>1 DEF WsInv
<1>5. CASE WS!CloseServer(s)
  <2>1. /\ server' = [server EXCEPT ![s] = "closing"]
        /\ call' = [r \in Runs |-> IF r \in WS!Of(s) /\ call[r] = "open" THEN "dropped"
                                   ELSE call[r]]
        /\ open' = [open EXCEPT ![s] = {}]
        /\ removing' = [removing EXCEPT ![s] = {}]
        /\ made' = [made EXCEPT ![s] = 0]
        /\ dayOld' = dayOld \ {s}
        /\ UNCHANGED <<worker, place, slot, vm, early>>
    BY <1>5 DEF WS!CloseServer, WS!Close
  <2>2. WS!RemoveBases(base \cap {s}, {}) BY <1>5 DEF WS!CloseServer
  <2>3. /\ base' \in SUBSET Resolvers /\ age' \in [Resolvers -> 0..2]
        /\ disk' \in [Resolvers -> SUBSET WS!Ids]
        /\ \A u \in Resolvers : disk'[u] \subseteq disk[u]
             /\ (u \notin base \cap {s} => disk'[u] = disk[u])
    BY <1>1, <2>2, RemovedBases
  <2>4. WS!TypeOK'
    <3>1. /\ server' \in [Resolvers -> {"down", "up", "closing", "gone"}]
          /\ open' \in [Resolvers -> SUBSET WS!Ids]
          /\ removing' \in [Resolvers -> SUBSET WS!Ids]
      BY <1>1, <2>1
    <3>2. made' \in [Resolvers -> 0..MaxIds] BY <1>1, <2>1
    <3>3. call' \in [Runs -> {"none", "open", "answered", "wedged", "dropped"}]
      BY <1>1, <2>1
    <3>4. dayOld' \in SUBSET Resolvers BY <1>1, <2>1
    <3> HIDE DEF WS!Ids
    <3>5. QED BY <1>1, <2>1, <2>3, <3>1, <3>2, <3>3, <3>4
  <2>5. FreshIds' BY <1>1, <2>1, <2>3
  <2>6. StageOfRun' /\ WS!RunsAreOver' BY <1>1, <2>1
  <2>7. WS!WorkspaceKept' BY <1>1, <2>1, <2>3
  <2>8. QED BY <2>4, <2>5, <2>6, <2>7 DEF WsInv
<1>6. CASE WS!EndServer(s)
  <2>1. All BY <1>1, <1>6 DEF WS!EndServer
  <2>2. QED BY <2>1 DEF WsInv
<1>7. CASE WS!KillServer(s)
  <2>1. All BY <1>1, <1>7 DEF WS!KillServer, WS!Close
  <2>2. QED BY <2>1 DEF WsInv
<1>8. CASE WS!Create(s)
  <2>1. All BY <1>1, <1>8 DEF WS!Create
  <2>2. QED BY <2>1 DEF WsInv
<1>9. CASE WS!Destroy(s)
  <2>1. All BY <1>1, <1>9 DEF WS!Destroy
  <2>2. QED BY <2>1 DEF WsInv
<1>10. CASE WS!RemoveDir(s)
  <2>1. PICK id \in removing[s] :
          /\ removing' = [removing EXCEPT ![s] = @ \ {id}]
          /\ disk' \in {disk, [disk EXCEPT ![s] = @ \ {id}]}
    BY <1>10 DEF WS!RemoveDir
  <2>2. UNCHANGED <<server, base, open, made, call, worker, place, slot, vm, dayOld, early>>
    BY <1>10 DEF WS!RemoveDir
  <2>3. age' \in [Resolvers -> 0..2] BY <1>1, <1>10 DEF WS!RemoveDir
  <2>4. WS!TypeOK'
    <3>1. removing' \in [Resolvers -> SUBSET WS!Ids] BY <1>1, <2>1
    <3>2. disk' \in [Resolvers -> SUBSET WS!Ids] BY <1>1, <2>1
    <3>3. QED BY <1>1, <2>2, <2>3, <3>1, <3>2
  <2>5. FreshIds' BY <1>1, <2>1, <2>2
  <2>6. StageOfRun' /\ WS!RunsAreOver' BY <1>1, <2>2
  <2>7. WS!WorkspaceKept' BY <1>1, <2>1, <2>2
  <2>8. QED BY <2>4, <2>5, <2>6, <2>7 DEF WsInv
<1>11. QED
  BY <1>2, <1>3, <1>4, <1>5, <1>6, <1>7, <1>8, <1>9, <1>10 DEF WS!ServerStep

LEMMA WsRunStep ==
  ASSUME WsInv, NEW r \in Runs, WS!RunStep(r) \/ \E s \in Resolvers : WS!CallRun(s, r)
  PROVE  WsInv'
<1> USE DEF WS!TypeOK, FreshIds, StageOfRun, WS!WorkspaceKept, WS!RunsAreOver, WS!Goto,
            WS!Ids, WS!NoPlace, WS!bases, WS!state, WS!runs, WS!history
<1>1. WS!TypeOK /\ FreshIds /\ StageOfRun /\ WS!WorkspaceKept /\ WS!RunsAreOver
  BY DEF WsInv
<1> DEFINE All == WS!TypeOK' /\ FreshIds' /\ StageOfRun' /\ WS!WorkspaceKept' /\ WS!RunsAreOver'
<1>2. ASSUME NEW s \in Resolvers, WS!CallRun(s, r) PROVE All
  <2>1. WS!TypeOK' BY <1>1, <1>2 DEF WS!CallRun
  <2>2. StageOfRun' BY <1>1, <1>2 DEF WS!CallRun
  <2>3. FreshIds' /\ WS!WorkspaceKept' /\ WS!RunsAreOver' BY <1>1, <1>2 DEF WS!CallRun
  <2>4. QED BY <2>1, <2>2, <2>3
<1>3. ASSUME WS!ResolveImage(r) PROVE All
  <2>1. WS!TypeOK' BY <1>1, <1>3 DEF WS!ResolveImage
  <2>2. StageOfRun' BY <1>1, <1>3 DEF WS!ResolveImage
  <2>3. FreshIds' /\ WS!WorkspaceKept' /\ WS!RunsAreOver' BY <1>1, <1>3 DEF WS!ResolveImage
  <2>4. QED BY <2>1, <2>2, <2>3
<1>4. ASSUME WS!BootVm(r) PROVE All
  <2>1. WS!TypeOK' BY <1>1, <1>4 DEF WS!BootVm
  <2>2. StageOfRun' /\ WS!RunsAreOver' BY <1>1, <1>4 DEF WS!BootVm
  <2>3. FreshIds' /\ WS!WorkspaceKept' BY <1>1, <1>4 DEF WS!BootVm
  <2>4. QED BY <2>1, <2>2, <2>3
<1>5. ASSUME WS!PublishHandle(r) PROVE All
  <2>1. WS!TypeOK' BY <1>1, <1>5 DEF WS!PublishHandle
  <2>2. StageOfRun' BY <1>1, <1>5 DEF WS!PublishHandle
  <2>3. FreshIds' /\ WS!WorkspaceKept' BY <1>1, <1>5 DEF WS!PublishHandle
  <2>4. WS!RunsAreOver' BY <1>1, <1>5 DEF WS!PublishHandle
  <2>5. QED BY <2>1, <2>2, <2>3, <2>4
<1>6. ASSUME WS!VmEnds(r) PROVE All
  <2>1. WS!TypeOK' BY <1>1, <1>6 DEF WS!VmEnds
  <2>2. StageOfRun' BY <1>1, <1>6 DEF WS!VmEnds
  <2>3. FreshIds' /\ WS!WorkspaceKept' BY <1>1, <1>6 DEF WS!VmEnds
  <2>4. WS!RunsAreOver' BY <1>1, <1>6 DEF WS!VmEnds
  <2>5. QED BY <2>1, <2>2, <2>3, <2>4
<1>7. ASSUME WS!WorkerReturns(r) PROVE All
  <2>1. WS!TypeOK' BY <1>1, <1>7 DEF WS!WorkerReturns
  <2>2. StageOfRun' BY <1>1, <1>7 DEF WS!WorkerReturns
  <2>3. FreshIds' /\ WS!WorkspaceKept' BY <1>1, <1>7 DEF WS!WorkerReturns
  <2>4. WS!RunsAreOver' BY <1>1, <1>7 DEF WS!WorkerReturns
  <2>5. QED BY <2>1, <2>2, <2>3, <2>4
<1>8. ASSUME WS!Answer(r) PROVE All
  <2>1. WS!TypeOK' BY <1>1, <1>8 DEF WS!Answer
  <2>2. StageOfRun' BY <1>1, <1>8 DEF WS!Answer
  <2>3. FreshIds' /\ WS!WorkspaceKept' BY <1>1, <1>8 DEF WS!Answer
  <2>4. WS!RunsAreOver' BY <1>1, <1>8 DEF WS!Answer
  <2>5. QED BY <2>1, <2>2, <2>3, <2>4
<1>9. ASSUME WS!GuardFires(r) PROVE All
  <2>1. WS!TypeOK'
    <3>1. CASE slot[r] = "handle" BY <1>1, <1>9, <3>1 DEF WS!GuardFires
    <3>2. CASE slot[r] # "handle" BY <1>1, <1>9, <3>2 DEF WS!GuardFires
    <3>3. QED BY <3>1, <3>2
  <2>2. StageOfRun'
    <3>1. CASE slot[r] = "handle" BY <1>1, <1>9, <3>1 DEF WS!GuardFires
    <3>2. CASE slot[r] # "handle" BY <1>1, <1>9, <3>2 DEF WS!GuardFires
    <3>3. QED BY <3>1, <3>2
  <2>3. FreshIds' /\ WS!WorkspaceKept' BY <1>1, <1>9 DEF WS!GuardFires
  <2>4. WS!RunsAreOver' BY <1>1, <1>9 DEF WS!GuardFires
  <2>5. QED BY <2>1, <2>2, <2>3, <2>4
<1>10. All
  BY <1>2, <1>3, <1>4, <1>5, <1>6, <1>7, <1>8, <1>9 DEF WS!RunStep
<1>11. QED BY <1>10 DEF WsInv

LEMMA WsStep == WsInv /\ [WS!Next]_WS!vars => WsInv'
<1> SUFFICES ASSUME WsInv, [WS!Next]_WS!vars PROVE WsInv'
  OBVIOUS
<1>1. CASE WS!AllGone \/ UNCHANGED WS!vars
  BY <1>1
  DEF WS!AllGone, WS!vars, WS!bases, WS!state, WS!runs, WS!history, WsInv, WS!TypeOK,
      FreshIds, StageOfRun, WS!WorkspaceKept, WS!RunsAreOver, WS!Ids, WS!NoPlace
<1>2. QED BY <1>1, WsServerStep, WsRunStep DEF WS!Next

-----------------------------------------------------------------------------
(* The layers of an image.  After any number of its entries a layer has     *)
(* made of a file system what the image specification means by those        *)
(* entries; what the whole layer hides need not have been hidden yet.       *)

\* What entry by entry becomes of a file system.
Applies(r, fs, es) ==
  /\ r[0] = fs
  /\ \A n \in 0..(Len(es) - 1) : r[n + 1] = LA!ApplyEntry(r[n], es[n + 1])

LEMMA AppliesExists ==
  ASSUME NEW es, Len(es) \in Nat, NEW fs
  PROVE  \E r : Applies(r, fs, es) /\ LA!ApplyLayer(fs, es) = r[Len(es)]
<1> DEFINE N == Len(es)
           Body(f, m) == IF m = 0 THEN fs ELSE LA!ApplyEntry(f[m - 1], es[m])
           Is(f, n) == f = [m \in 0..n |-> Body(f, m)]
           S == {n \in 0..N : \E f : Is(f, n)}
<1>1. N \in Nat OBVIOUS
<1> HIDE DEF N
<1>2. 0 \in S
  <2>1. Is([m \in 0..0 |-> fs], 0) OBVIOUS
  <2>2. 0 \in 0..N BY <1>1
  <2> HIDE DEF Is
  <2>3. QED BY <2>1, <2>2
<1>3. ASSUME NEW n \in 0..(N - 1), n \in S PROVE n + 1 \in S
  <2>1. PICK f : Is(f, n) BY <1>3
  <2> DEFINE g == [m \in 0..(n + 1) |-> IF m = n + 1 THEN Body(f, m) ELSE f[m]]
  <2>2. \A m \in 0..n : f[m] = Body(f, m) BY <2>1
  <2>3. \A m \in 0..n : g[m] = f[m] BY <1>1
  <2>4. \A m \in 0..(n + 1) : m # 0 => m - 1 \in 0..n BY <1>1
  <2>5. \A m \in 0..(n + 1) : Body(g, m) = Body(f, m) BY <2>3, <2>4
  <2>6. \A m \in 0..(n + 1) : g[m] = Body(g, m)
    <3>1. \A m \in 0..(n + 1) : m = n + 1 \/ m \in 0..n BY <1>1
    <3>2. g[n + 1] = Body(f, n + 1) BY <1>1
    <3>3. QED BY <2>2, <2>3, <2>5, <3>1, <3>2
  <2>7. Is(g, n + 1) BY <2>6
  <2>8. n + 1 \in 0..N BY <1>1
  <2>9. QED BY <2>7, <2>8
<1>4. N \in S
  <2> HIDE DEF S
  <2>1. \A n \in 0..N : n \in S BY <1>1, <1>2, <1>3, Onward
  <2>2. QED BY <1>1, <2>1
<1>5. PICK f : Is(f, N) BY <1>4
<1> DEFINE r == CHOOSE h : Is(h, N)
<1>6. Is(r, N) BY <1>5
<1>7. LA!ApplyLayer(fs, es) = r[N] BY DEF LA!ApplyLayer, N
<1>8. Applies(r, fs, es)
  <2>1. \A m \in 0..N : r[m] = Body(r, m) BY <1>6
  <2> HIDE DEF r
  <2>2. r[0] = fs
    <3>1. 0 \in 0..N /\ Body(r, 0) = fs BY <1>1
    <3> HIDE DEF Body
    <3>2. QED BY <2>1, <3>1
  <2>3. ASSUME NEW n \in 0..(N - 1) PROVE r[n + 1] = LA!ApplyEntry(r[n], es[n + 1])
    <3>1. n + 1 \in 0..N /\ n + 1 # 0 /\ (n + 1) - 1 = n BY <1>1
    <3>2. QED BY <2>1, <3>1
  <2>4. QED BY <2>2, <2>3 DEF Applies, N
<1>9. QED BY <1>7, <1>8 DEF N

-----------------------------------------------------------------------------
(* The layers.  What the first n entries make of a file system, said of all *)
(* of them at once: the paths that they add or make as parents, and those   *)
(* below that none of them hides, each with the content of the last entry   *)
(* of its own.                                                              *)

Adds(e)  == ~e.unsafe /\ e.what \notin {"opaque", "whiteout"}
Makes(e) == {e.path} \cup LA!Parents(e.path)
Hides(e, q) ==
  /\ ~e.unsafe
  /\ \/ e.what = "opaque" /\ LA!Under(q, e.path)
     \/ e.what = "whiteout" /\ (q = e.path \/ LA!Under(q, e.path))

Made(es, n, q) == \E i \in 1..n : Adds(es[i]) /\ q \in Makes(es[i])
Hid(es, n, q)  == \E i \in 1..n : Hides(es[i], q)
Named(es, n, q, i) == i \in 1..n /\ Adds(es[i]) /\ es[i].path = q
LastOf(es, n, q, i) == Named(es, n, q, i) /\ \A j \in 1..n : Named(es, n, q, j) => j <= i

Means(f, fs, es, n) ==
  /\ f = [q \in DOMAIN f |-> f[q]]
  /\ \A q : q \in DOMAIN f <=> Made(es, n, q) \/ (q \in DOMAIN fs /\ ~Hid(es, n, q))
  /\ \A q \in DOMAIN f :
       /\ \A i : LastOf(es, n, q, i) => f[q] = es[i].what
       /\ (\A i \in 1..n : ~Named(es, n, q, i)) =>
            f[q] = IF Made(es, n, q) THEN "dir" ELSE fs[q]

\* An entry hides nothing that an earlier one has added or made.
HidesNoneMade(es) ==
  \A i, j \in 1..Len(es) : \A q :
    i < j /\ Adds(es[i]) /\ q \in Makes(es[i]) => ~Hides(es[j], q)

\* What nobody hides below is a directory where an entry makes one, and a file
\* where one adds a file; so are two entries of one path.
KindsMeet(fs, es) ==
  \A i \in 1..Len(es) : \A q :
    Adds(es[i]) /\ q \in Makes(es[i]) =>
      /\ q = es[i].path /\ q \in LA!Parents(es[i].path) => es[i].what = "dir"
      /\ q \in DOMAIN fs /\ ~Hid(es, Len(es), q) =>
           (fs[q] = "dir" <=> (q = es[i].path => es[i].what = "dir"))
      /\ \A j \in 1..Len(es) :
           Adds(es[j]) /\ q \in Makes(es[j]) =>
             ((q = es[i].path => es[i].what = "dir") <=>
              (q = es[j].path => es[j].what = "dir"))

LEMMA LastExists ==
  ASSUME NEW es, NEW n \in Nat, NEW q, NEW k \in 1..n, Named(es, n, q, k)
  PROVE  \E i \in 1..n : LastOf(es, n, q, i)
<1> DEFINE S == {i \in 1..n : Named(es, n, q, i)}
<1>1. S \in SUBSET (1..n) /\ S # {} OBVIOUS
<1> HIDE DEF S
<1>2. PICK m \in S : \A j \in S : j <= m BY <1>1, GreatestOfSet
<1>3. QED BY <1>2 DEF S, LastOf

\* What the first n entries have left where the next makes something is of the
\* kind that it makes there.
LEMMA KindBefore ==
  ASSUME NEW es, Len(es) \in Nat, NEW fs, HidesNoneMade(es), KindsMeet(fs, es),
         NEW n \in 0..(Len(es) - 1), NEW f, Means(f, fs, es, n), Adds(es[n + 1]),
         NEW q \in DOMAIN f, q \in Makes(es[n + 1])
  PROVE  f[q] = "dir" <=> (q = es[n + 1].path => es[n + 1].what = "dir")
<1> DEFINE N == Len(es)
<1>1. n \in Nat /\ n + 1 \in 1..N /\ \A i \in 1..n : i \in 1..N /\ i < n + 1 OBVIOUS
<1>2. CASE \E k \in 1..n : Named(es, n, q, k)
  <2>1. PICK i \in 1..n : LastOf(es, n, q, i) BY <1>1, <1>2, LastExists
  <2>2. f[q] = es[i].what /\ Adds(es[i]) /\ es[i].path = q
    BY <2>1 DEF Means, LastOf, Named
  <2>3. q \in Makes(es[i]) BY <2>2 DEF Makes
  <2>4. QED BY <1>1, <2>2, <2>3 DEF KindsMeet
<1>3. CASE (\A k \in 1..n : ~Named(es, n, q, k)) /\ Made(es, n, q)
  <2>1. f[q] = "dir" BY <1>3 DEF Means
  <2>2. PICK i \in 1..n : Adds(es[i]) /\ q \in Makes(es[i]) BY <1>3 DEF Made
  <2>3. q # es[i].path BY <1>3, <2>2 DEF Named
  <2>4. QED BY <1>1, <2>1, <2>2, <2>3 DEF KindsMeet
<1>4. CASE (\A k \in 1..n : ~Named(es, n, q, k)) /\ ~Made(es, n, q)
  <2>1. f[q] = fs[q] /\ q \in DOMAIN fs /\ ~Hid(es, n, q) BY <1>4 DEF Means
  <2>2. ~Hid(es, N, q)
    <3> SUFFICES ASSUME NEW j \in 1..N, Hides(es[j], q) PROVE FALSE BY DEF Hid
    <3>1. CASE j \in 1..n BY <2>1, <3>1 DEF Hid
    <3>2. CASE j = n + 1 BY <3>2 DEF Hides, Adds
    <3>3. CASE n + 1 < j BY <1>1, <3>3 DEF HidesNoneMade
    <3>4. QED BY <1>1, <3>1, <3>2, <3>3
  <2>3. QED BY <1>1, <2>1, <2>2 DEF KindsMeet
<1>5. QED BY <1>2, <1>3, <1>4

LEMMA MeansStep ==
  ASSUME NEW es, Len(es) \in Nat, \A i \in 1..Len(es) : es[i].unsafe \in BOOLEAN,
         NEW fs, HidesNoneMade(es), KindsMeet(fs, es),
         NEW n \in 0..(Len(es) - 1), NEW f, Means(f, fs, es, n)
  PROVE  Means(LA!ApplyEntry(f, es[n + 1]), fs, es, n + 1)
<1> DEFINE e == es[n + 1]
           g == LA!ApplyEntry(f, e)
<1>1. /\ n \in Nat /\ n + 1 \in 1..Len(es) /\ e.unsafe \in BOOLEAN
      /\ \A i : i \in 1..(n + 1) <=> i \in 1..n \/ i = n + 1
      /\ \A i \in 1..n : i \in 1..Len(es) /\ i < n + 1 /\ ~(n + 1 <= i)
  OBVIOUS
<1>2. \A q : Made(es, n + 1, q) <=> Made(es, n, q) \/ (Adds(e) /\ q \in Makes(e))
  BY <1>1 DEF Made
<1>3. \A q : Hid(es, n + 1, q) <=> Hid(es, n, q) \/ Hides(e, q)
  BY <1>1 DEF Hid
<1>4. \A q, i : Named(es, n + 1, q, i) <=>
                  Named(es, n, q, i) \/ (i = n + 1 /\ Adds(e) /\ e.path = q)
  BY <1>1 DEF Named
<1>5. \A q, i : LastOf(es, n + 1, q, i) =>
         \/ i = n + 1 /\ Adds(e) /\ e.path = q
         \/ LastOf(es, n, q, i) /\ ~(Adds(e) /\ e.path = q)
  <2>1. \A q, i : LastOf(es, n + 1, q, i) /\ i # n + 1 => LastOf(es, n, q, i)
    BY <1>4 DEF LastOf
  <2>2. \A q, i : LastOf(es, n + 1, q, i) /\ Adds(e) /\ e.path = q => i = n + 1
    BY <1>1, <1>4 DEF LastOf, Named
  <2>3. \A q : LastOf(es, n + 1, q, n + 1) => Adds(e) /\ e.path = q
    BY DEF LastOf, Named
  <2>4. QED BY <2>1, <2>2, <2>3
<1>6. /\ f = [q \in DOMAIN f |-> f[q]]
      /\ \A q : q \in DOMAIN f <=> Made(es, n, q) \/ (q \in DOMAIN fs /\ ~Hid(es, n, q))
      /\ \A q \in DOMAIN f :
           /\ \A i : LastOf(es, n, q, i) => f[q] = es[i].what
           /\ (\A i \in 1..n : ~Named(es, n, q, i)) =>
                f[q] = IF Made(es, n, q) THEN "dir" ELSE fs[q]
  BY DEF Means
<1>7. CASE Adds(e)
  <2>1. ~e.unsafe /\ e.what # "opaque" /\ e.what # "whiteout" BY <1>7 DEF Adds
  <2>2. \A q \in DOMAIN f : q \in Makes(e) =>
          (f[q] = "dir" <=> (q = e.path => e.what = "dir"))
    BY <1>7, KindBefore
  <2>3. e.path \in Makes(e) /\ \A q \in LA!Parents(e.path) : q \in Makes(e)
    BY DEF Makes
  <2>4. ASSUME NEW q \in LA!Parents(e.path), q = e.path PROVE e.what = "dir"
    BY <1>1, <1>7, <2>3, <2>4 DEF KindsMeet
  <2>5. ~LA!Blocked(f, e)
    BY <2>2, <2>3, <2>4 DEF LA!Blocked
  <2>6. g = LA!Unpack(f, e) BY <2>1 DEF LA!ApplyEntry
  <2>7. g = [q \in DOMAIN f \cup LA!Parents(e.path) \cup {e.path} |->
               IF q = e.path THEN e.what
               ELSE IF q \in DOMAIN f THEN f[q] ELSE "dir"]
    BY <2>5, <2>6 DEF LA!Unpack
  <2>8. DOMAIN g = DOMAIN f \cup Makes(e) BY <2>7 DEF Makes
  <2>9. \A q : ~Hides(e, q) BY <2>1 DEF Hides
  <2>10. \A q : q \in DOMAIN g <=>
           Made(es, n + 1, q) \/ (q \in DOMAIN fs /\ ~Hid(es, n + 1, q))
    BY <1>2, <1>3, <1>6, <1>7, <2>8, <2>9
  <2>11. g[e.path] = e.what BY <2>7
  <2>12. \A q \in DOMAIN f : q # e.path => g[q] = f[q] BY <2>7
  <2>13. \A q \in DOMAIN g : q # e.path /\ q \notin DOMAIN f =>
            g[q] = "dir" /\ q \in Makes(e)
    BY <2>7, <2>8
  <2>14. ASSUME NEW q \in DOMAIN g, NEW i, LastOf(es, n + 1, q, i)
         PROVE  g[q] = es[i].what
    <3>1. CASE i = n + 1 /\ e.path = q BY <2>11, <3>1
    <3>2. CASE LastOf(es, n, q, i) /\ e.path # q
      <4>1. Made(es, n, q) BY <3>2 DEF LastOf, Named, Made, Makes
      <4>2. QED BY <1>6, <2>12, <3>2, <4>1
    <3>3. QED BY <1>5, <1>7, <2>14, <3>1, <3>2
  <2>15. ASSUME NEW q \in DOMAIN g, \A i \in 1..(n + 1) : ~Named(es, n + 1, q, i)
         PROVE  g[q] = IF Made(es, n + 1, q) THEN "dir" ELSE fs[q]
    <3>1. q # e.path /\ \A i \in 1..n : ~Named(es, n, q, i)
      BY <1>1, <1>4, <1>7, <2>15
    <3>2. CASE q \notin DOMAIN f
      BY <1>2, <1>7, <2>13, <3>1, <3>2
    <3>3. CASE q \in DOMAIN f /\ q \in Makes(e) /\ ~Made(es, n, q)
      <4>1. g[q] = "dir" BY <2>2, <2>12, <3>1, <3>3
      <4>2. QED BY <1>2, <1>7, <3>3, <4>1
    <3>4. CASE q \in DOMAIN f /\ (q \in Makes(e) => Made(es, n, q))
      BY <1>2, <1>6, <2>12, <3>1, <3>4
    <3>5. QED BY <3>2, <3>3, <3>4
  <2>16. g = [q \in DOMAIN g |-> g[q]] BY <2>7
  <2> HIDE DEF g
  <2>17. Means(g, fs, es, n + 1) BY <2>10, <2>14, <2>15, <2>16 DEF Means
  <2>18. QED BY <2>17 DEF g
<1>8. CASE ~Adds(e)
  <2>1. \/ e.unsafe
        \/ ~e.unsafe /\ e.what = "opaque"
        \/ ~e.unsafe /\ e.what = "whiteout"
    BY <1>8 DEF Adds
  <2>2. DOMAIN g = {q \in DOMAIN f : ~Hides(e, q)} /\ \A q \in DOMAIN g : g[q] = f[q]
    <3>1. CASE e.unsafe
      <4>1. g = f BY <3>1 DEF LA!ApplyEntry
      <4> HIDE DEF g
      <4>2. QED BY <3>1, <4>1 DEF Hides
    <3>2. CASE ~e.unsafe /\ e.what = "opaque"
      <4>1. g = LA!ClearDirContents(f, e.path) BY <3>2 DEF LA!ApplyEntry
      <4>2. QED BY <3>2, <4>1 DEF LA!ClearDirContents, LA!Restrict, Hides
    <3>3. CASE ~e.unsafe /\ e.what = "whiteout"
      <4>1. g = LA!RemoveAnything(f, e.path) BY <3>3 DEF LA!ApplyEntry
      <4>2. QED BY <3>3, <4>1 DEF LA!RemoveAnything, LA!Restrict, Hides
    <3>4. QED BY <2>1, <3>1, <3>2, <3>3
  <2>3. g = [q \in DOMAIN g |-> g[q]]
    <3>1. CASE e.unsafe
      <4>1. g = f BY <3>1 DEF LA!ApplyEntry
      <4> HIDE DEF g
      <4>2. QED BY <1>6, <4>1
    <3>2. CASE ~e.unsafe /\ e.what = "opaque"
      <4>1. g = LA!ClearDirContents(f, e.path) BY <3>2 DEF LA!ApplyEntry
      <4>2. QED BY <4>1 DEF LA!ClearDirContents, LA!Restrict
    <3>3. CASE ~e.unsafe /\ e.what = "whiteout"
      <4>1. g = LA!RemoveAnything(f, e.path) BY <3>3 DEF LA!ApplyEntry
      <4>2. QED BY <4>1 DEF LA!RemoveAnything, LA!Restrict
    <3>4. QED BY <2>1, <3>1, <3>2, <3>3
  <2> HIDE DEF g
  <2>4. \A q : Made(es, n, q) => ~Hides(e, q)
    BY <1>1 DEF Made, HidesNoneMade
  <2>5. \A q : q \in DOMAIN g <=>
           Made(es, n + 1, q) \/ (q \in DOMAIN fs /\ ~Hid(es, n + 1, q))
    BY <1>2, <1>3, <1>6, <1>8, <2>2, <2>4
  <2>6. \A q \in DOMAIN g : \A i : LastOf(es, n + 1, q, i) => g[q] = es[i].what
    BY <1>5, <1>6, <1>8, <2>2
  <2>7. ASSUME NEW q \in DOMAIN g, \A i \in 1..(n + 1) : ~Named(es, n + 1, q, i)
        PROVE  g[q] = IF Made(es, n + 1, q) THEN "dir" ELSE fs[q]
    <3>1. \A i \in 1..n : ~Named(es, n, q, i) BY <1>1, <1>4, <2>7
    <3>2. QED BY <1>2, <1>6, <1>8, <2>2, <3>1
  <2>8. Means(g, fs, es, n + 1) BY <2>3, <2>5, <2>6, <2>7 DEF Means
  <2>9. QED BY <2>8 DEF g
<1>9. QED BY <1>7, <1>8

LEMMA MeansAll ==
  ASSUME NEW es, Len(es) \in Nat, \A i \in 1..Len(es) : es[i].unsafe \in BOOLEAN,
         NEW S, NEW T, NEW fs \in [S -> T], HidesNoneMade(es), KindsMeet(fs, es)
  PROVE  Means(LA!ApplyLayer(fs, es), fs, es, Len(es))
<1>1. PICK r : Applies(r, fs, es) /\ LA!ApplyLayer(fs, es) = r[Len(es)]
  BY AppliesExists
<1> DEFINE Good == {n \in 0..Len(es) : Means(r[n], fs, es, n)}
<1>2. 0 \in Good
  <2>1. \A q : ~Made(es, 0, q) /\ ~Hid(es, 0, q) BY DEF Made, Hid
  <2>2. \A q, i : ~LastOf(es, 0, q, i) BY DEF LastOf, Named
  <2>3. Means(fs, fs, es, 0) BY <2>1, <2>2 DEF Means
  <2>4. QED BY <1>1, <2>3 DEF Applies
<1>3. ASSUME NEW n \in 0..(Len(es) - 1), n \in Good PROVE n + 1 \in Good
  <2>1. Means(LA!ApplyEntry(r[n], es[n + 1]), fs, es, n + 1) BY <1>3, MeansStep
  <2>2. r[n + 1] = LA!ApplyEntry(r[n], es[n + 1]) BY <1>1 DEF Applies
  <2>3. QED BY <2>1, <2>2
<1> HIDE DEF Good
<1>4. Len(es) \in Good
  <2>1. \A n \in 0..Len(es) : n \in Good BY <1>2, <1>3, Onward
  <2>2. QED BY <2>1
<1>5. QED BY <1>1, <1>4 DEF Good

\* A layer: paths of any kind, contents of any kind.
LayersOver(Paths, Kinds) == Seq([path : Paths, what : Kinds, unsafe : BOOLEAN])

LEMMA LayerTyped ==
  ASSUME NEW Paths, NEW Kinds, NEW es \in LayersOver(Paths, Kinds)
  PROVE  /\ Len(es) \in Nat /\ DOMAIN es = 1..Len(es)
         /\ \A i \in 1..Len(es) : es[i].unsafe \in BOOLEAN
<1> DEFINE E == [path : Paths, what : Kinds, unsafe : BOOLEAN]
<1>1. es \in Seq(E) BY DEF LayersOver
<1>2. \A e \in E : e.unsafe \in BOOLEAN OBVIOUS
<1> HIDE DEF E
<1>3. Len(es) \in Nat /\ DOMAIN es = 1..Len(es) /\ \A i \in 1..Len(es) : es[i] \in E
  BY <1>1
<1>4. QED BY <1>2, <1>3

\* The image specification's words, in those of Made and Hid.
LEMMA SpecifiedWords ==
  ASSUME NEW Paths, NEW Kinds, NEW es \in LayersOver(Paths, Kinds)
  PROVE  /\ \A e : e \in LA!Added(es) <=> \E i \in 1..Len(es) : e = es[i] /\ Adds(e)
         /\ \A q : LA!Hidden(es, q) <=> Hid(es, Len(es), q)
         /\ \A i \in 1..Len(es) : \A q : LA!Hidden(<<es[i]>>, q) <=> Hides(es[i], q)
<1>1. /\ Len(es) \in Nat /\ DOMAIN es = 1..Len(es)
      /\ \A i \in 1..Len(es) : es[i].unsafe \in BOOLEAN
  BY LayerTyped
<1>2. \A e : e \in LA!Entries(es) <=> \E i \in 1..Len(es) : e = es[i] /\ ~es[i].unsafe
  BY <1>1 DEF LA!Entries
<1>3. \A e : e \in LA!Added(es) <=> \E i \in 1..Len(es) : e = es[i] /\ Adds(e)
  BY <1>2 DEF LA!Added, Adds
<1>4. \A q : LA!Hidden(es, q) <=> Hid(es, Len(es), q)
  BY <1>2 DEF LA!Hidden, Hid, Hides
<1>5. ASSUME NEW i \in 1..Len(es), NEW q
      PROVE  LA!Hidden(<<es[i]>>, q) <=> Hides(es[i], q)
  <2> DEFINE x == es[i]
  <2> HIDE DEF x
  <2>1. DOMAIN <<x>> = {1} /\ <<x>>[1] = x OBVIOUS
  <2>2. \A e : e \in LA!Entries(<<x>>) <=> e = x /\ ~x.unsafe
    BY <2>1 DEF LA!Entries
  <2>3. LA!Hidden(<<x>>, q) <=> Hides(x, q) BY <2>2 DEF LA!Hidden, Hides
  <2>4. QED BY <2>3 DEF x
<1>6. QED BY <1>3, <1>4, <1>5

LEMMA SpecifiedHides ==
  ASSUME NEW Paths, NEW Kinds, NEW es \in LayersOver(Paths, Kinds), LA!HidesFirst(es)
  PROVE  HidesNoneMade(es)
<1>1. DOMAIN es = 1..Len(es) BY LayerTyped
<1> SUFFICES ASSUME NEW i \in 1..Len(es), NEW j \in 1..Len(es), NEW q,
                    i < j, Adds(es[i]), q \in Makes(es[i])
             PROVE  ~Hides(es[j], q)
  BY DEF HidesNoneMade
<1>2. es[i] \in LA!Added(es) BY SpecifiedWords
<1>3. ~LA!Hidden(<<es[j]>>, q) BY <1>1, <1>2 DEF LA!HidesFirst, Makes
<1>4. QED BY <1>3, SpecifiedWords

LEMMA SpecifiedKinds ==
  ASSUME NEW Paths, NEW Kinds, NEW es \in LayersOver(Paths, Kinds), NEW fs,
         LA!KindsAgree(fs, es)
  PROVE  KindsMeet(fs, es)
<1> DEFINE
      below == {q \in DOMAIN fs : ~LA!Hidden(es, q)}
      Dirs  == {q \in below : fs[q] = "dir"}
                 \cup {e.path : e \in {e \in LA!Added(es) : e.what = "dir"}}
                 \cup UNION {LA!Parents(e.path) : e \in LA!Added(es)}
      Files == {q \in below : fs[q] # "dir"}
                 \cup {e.path : e \in {e \in LA!Added(es) : e.what # "dir"}}
<1>1. \A q : ~(q \in Dirs /\ q \in Files) BY DEF LA!KindsAgree
<1>2. \A i \in 1..Len(es) : Adds(es[i]) => es[i] \in LA!Added(es) BY SpecifiedWords
<1>3. \A q : q \in DOMAIN fs /\ ~Hid(es, Len(es), q) =>
               (fs[q] = "dir" => q \in Dirs) /\ (fs[q] # "dir" => q \in Files)
  BY SpecifiedWords
<1>4. \A i \in 1..Len(es) : Adds(es[i]) =>
        /\ es[i].what = "dir" => es[i].path \in Dirs
        /\ es[i].what # "dir" => es[i].path \in Files
        /\ \A q \in LA!Parents(es[i].path) : q \in Dirs
  BY <1>2
<1> HIDE DEF Dirs, Files
<1>5. \A i \in 1..Len(es) : \A q : Adds(es[i]) /\ q \in Makes(es[i]) =>
        /\ (q = es[i].path => es[i].what = "dir") => q \in Dirs
        /\ ~(q = es[i].path => es[i].what = "dir") => q \in Files
  BY <1>4 DEF Makes
<1>6. QED BY <1>1, <1>3, <1>4, <1>5 DEF KindsMeet

(* A layer of any length, over any file system, gives what the image        *)
(* specification means by it, where its hiding comes first and its kinds    *)
(* agree (extract_layer in vmette-provider-oci lib.rs).                     *)
THEOREM LayerExact ==
  ASSUME NEW Paths, NEW Kinds, NEW es \in LayersOver(Paths, Kinds),
         NEW S, NEW T, NEW fs \in [S -> T]
  PROVE  LA!LayerAsSpecified(fs, es)
<1> SUFFICES ASSUME LA!HidesFirst(es), LA!KindsAgree(fs, es)
             PROVE  LA!ApplyLayer(fs, es) = LA!OverlaidBy(fs, es)
  BY DEF LA!LayerAsSpecified
<1> DEFINE N == Len(es)
           g == LA!ApplyLayer(fs, es)
           own  == UNION {{e.path} \cup LA!Parents(e.path) : e \in LA!Added(es)}
           kept == {q \in DOMAIN fs : ~LA!Hidden(es, q)}
           Last1(q) == LA!SelectLastInSeq(es, LAMBDA e : e \in LA!Added(es) /\ e.path = q)
           what(q) == IF q \in own THEN (IF Last1(q) > 0 THEN es[Last1(q)].what ELSE "dir")
                      ELSE fs[q]
<1>1. N \in Nat /\ \A i \in 1..N : es[i].unsafe \in BOOLEAN BY LayerTyped
<1>2. Means(g, fs, es, N) BY <1>1, SpecifiedHides, SpecifiedKinds, MeansAll
<1>3. \A q : q \in own <=> Made(es, N, q) BY SpecifiedWords DEF Made, Makes
<1>4. \A q : q \in kept <=> q \in DOMAIN fs /\ ~Hid(es, N, q) BY SpecifiedWords
<1>5. LA!OverlaidBy(fs, es) = [q \in own \cup kept |-> what(q)]
  BY DEF LA!OverlaidBy
<1>6. \A i \in 1..N : \A q : es[i] \in LA!Added(es) /\ es[i].path = q <=> Named(es, N, q, i)
  BY SpecifiedWords DEF Named
<1>7. ASSUME NEW q
      PROVE  \/ (\A i \in 1..N : ~Named(es, N, q, i)) /\ Last1(q) = 0
             \/ LastOf(es, N, q, Last1(q))
  <2> DEFINE I == {i \in 1..N : es[i] \in LA!Added(es) /\ es[i].path = q}
  <2>1. Last1(q) = IF I # {} THEN LA!Max(I) ELSE 0 BY DEF LA!SelectLastInSeq
  <2>2. I = {i \in 1..N : Named(es, N, q, i)} BY <1>6
  <2> HIDE DEF I, Last1, N
  <2>3. CASE I = {} BY <2>1, <2>2, <2>3
  <2>4. CASE I # {}
    <3>1. PICK m \in I : \A j \in I : j <= m
      <4>1. I \in SUBSET (1..N) BY <2>2
      <4>2. QED BY <1>1, <2>4, <4>1, GreatestOfSet
    <3>2. \A j \in I : m >= j BY <1>1, <2>2, <3>1
    <3>3. LA!Max(I) \in I /\ \A j \in I : LA!Max(I) >= j BY <3>1, <3>2 DEF LA!Max
    <3>4. LastOf(es, N, q, LA!Max(I)) BY <1>1, <2>2, <3>3 DEF LastOf
    <3>5. QED BY <2>1, <2>4, <3>4
  <2>5. QED BY <2>3, <2>4
<1> HIDE DEF own, kept, Last1, g, N
<1>8. g = [q \in DOMAIN g |-> g[q]] /\ \A q : q \in DOMAIN g <=> q \in own \cup kept
  BY <1>2, <1>3, <1>4 DEF Means
<1>9. ASSUME NEW q \in DOMAIN g PROVE g[q] = what(q)
  <2>1. CASE LastOf(es, N, q, Last1(q))
    <3>1. g[q] = es[Last1(q)].what BY <1>2, <2>1 DEF Means
    <3>2. Made(es, N, q) /\ Last1(q) > 0 BY <1>1, <2>1 DEF LastOf, Named, Made, Makes
    <3>3. QED BY <1>3, <3>1, <3>2
  <2>2. CASE (\A i \in 1..N : ~Named(es, N, q, i)) /\ Last1(q) = 0
    <3>1. g[q] = IF Made(es, N, q) THEN "dir" ELSE fs[q] BY <1>2, <2>2 DEF Means
    <3>2. ~(Last1(q) > 0) BY <2>2
    <3>3. QED BY <1>3, <3>1, <3>2
  <2>3. QED BY <1>7, <2>1, <2>2
<1>10. DOMAIN g = own \cup kept BY <1>8
<1> HIDE DEF what
<1>11. g = [q \in own \cup kept |-> what(q)]
  <2>1. [q \in DOMAIN g |-> g[q]] = [q \in DOMAIN g |-> what(q)] BY <1>9
  <2>2. QED BY <1>8, <1>10, <2>1
<1>12. QED BY <1>5, <1>11 DEF g, what

-----------------------------------------------------------------------------
(* The behaviours of MCHost are those of its components: a step of one      *)
(* leaves the others' variables as they are.  The caches share nothing but  *)
(* the bounds on errors and kills, which every invariant allows to grow.    *)

HostInv ==
  /\ part = "oci" => OciInv
  /\ part = "squashfs" => SqInv
  /\ part = "workspace" => WsInv

LEMMA HostInvInit == HostInit => HostInv
BY OciInit, SqInit, WsInit DEF HostInit, HostInv

LEMMA HostInvStep ==
  HostInv /\ [HostNext]_<<part, case, hostVars>> => HostInv'
<1> SUFFICES ASSUME HostInv, [HostNext]_<<part, case, hostVars>>
             PROVE  HostInv'
  OBVIOUS
<1>1. part' = part
  BY DEF HostNext
<1>2. CASE part = "oci"
  <2>1. [OC!Next]_OC!vars
    BY <1>2 DEF HostNext, OC!vars, OC!tree, OC!local, OC!bounds, OC!history, ociVars, vars, hostVars
  <2>2. QED BY <1>1, <1>2, <2>1, OciStep DEF HostInv
<1>3. CASE part = "squashfs"
  <2>1. [SQ!Next]_SQ!vars
    BY <1>3 DEF HostNext, SQ!vars, sqVars, vars, hostVars
  <2>2. QED BY <1>1, <1>3, <2>1, SqStep DEF HostInv
<1>4. CASE part = "workspace"
  <2>1. [WS!Next]_WS!vars
    BY <1>4
    DEF HostNext, WS!vars, WS!bases, WS!state, WS!runs, WS!history, wsVars, hostVars
  <2>2. QED BY <1>1, <1>4, <2>1, WsStep DEF HostInv
<1>5. CASE part \notin {"oci", "squashfs", "workspace"}
  BY <1>1, <1>5 DEF HostInv
<1>6. QED BY <1>2, <1>3, <1>4, <1>5

LEMMA HostInvariance == HostSpec => []HostInv
BY HostInvInit, HostInvStep, PTL DEF HostSpec

-----------------------------------------------------------------------------
(* The OCI cache's types are kept.                                          *)
THEOREM OciTypeCorrect == OC!Spec => []OC!TypeOK
<1>1. OciInv => OC!TypeOK BY DEF OciInv
<1>2. QED BY <1>1, OciInit, OciStep, PTL DEF OC!Spec

(* A ready marker means that all layers of its own digest were applied, and *)
(* a tree that was returned stays, for any number of pullers, digests,      *)
(* layers, errors and kills (vmette-provider-oci lib.rs: pull_with_options).*)
THEOREM OciCacheSafe == OC!Spec => [](OC!ReadyIsComplete /\ OC!ReturnedTreeStays)
BY OciInit, OciStep, OciSafe, PTL DEF OC!Spec

(* What is at the squashfs cache path is a whole image, and no staging file *)
(* outlives its download (vmette-provider-squashfs lib.rs: download_to).    *)
THEOREM SquashfsSafe == SQ!Spec => [](SQ!PublishedIsWhole /\ SQ!StagingGoes)
<1>1. SqInv => SQ!PublishedIsWhole /\ SQ!StagingGoes BY DEF SqInv
<1>2. QED BY <1>1, SqInit, SqStep, PTL DEF SQ!Spec

(* Open workspaces keep their directory and answered runs have no VM, for   *)
(* any number of servers, workspaces and runs (workspace.rs, sandbox.rs).   *)
THEOREM WorkspacesSafe == WS!Spec => []WS!WorkspaceSound
<1>1. WsInv => WS!WorkspaceSound BY DEF WsInv, WS!WorkspaceSound
<1>2. QED BY <1>1, WsInit, WsStep, PTL DEF WS!Spec

(* In every behaviour of the host, both image caches are sound.             *)
THEOREM HostCaches == HostSpec => []CachesSound
<1>1. HostInv => CachesSound
  BY OciSafe DEF HostInv, CachesSound, SqInv
<1>2. QED BY <1>1, HostInvariance, PTL

(* In every behaviour of the host, its workspaces are sound.                *)
THEOREM HostWorkspaces == HostSpec => []WorkspaceSound
<1>1. HostInv => WorkspaceSound
  BY DEF HostInv, WorkspaceSound, WsInv, WS!WorkspaceSound
<1>2. QED BY <1>1, HostInvariance, PTL

(* Every layer that the runs try gives what the image specification means   *)
(* by it, as every other does by LayerExact (extract_layer).                *)
THEOREM HostLayers == HostSpec => []LayerAsSpecified
<1> DEFINE Paths == {D, A, B, F}
           Kinds == {"dir", "new", "opaque", "whiteout"}
           LayersTyped ==
             /\ case.layer \in LayersOver(Paths, Kinds)
             /\ \E S \in SUBSET Paths : case.fs \in [S -> {"dir", "old"}]
<1>1. EntriesOf \subseteq [path : Paths, what : Kinds, unsafe : BOOLEAN]
  <2>1. \A p \in Paths, w \in Kinds, u \in BOOLEAN :
          [path |-> p, what |-> w, unsafe |-> u]
            \in [path : Paths, what : Kinds, unsafe : BOOLEAN]
    OBVIOUS
  <2>2. /\ D \in Paths /\ A \in Paths /\ B \in Paths /\ F \in Paths
        /\ "dir" \in Kinds /\ "new" \in Kinds /\ "opaque" \in Kinds /\ "whiteout" \in Kinds
    OBVIOUS
  <2> HIDE DEF Paths, Kinds
  <2>3. QED BY <2>1, <2>2 DEF EntriesOf, Entry
<1>2. ASSUME NEW n \in 0..3, NEW s \in [1..n -> EntriesOf]
      PROVE  s \in LayersOver(Paths, Kinds)
  <2> DEFINE E == [path : Paths, what : Kinds, unsafe : BOOLEAN]
  <2>1. EntriesOf \subseteq E BY <1>1
  <2> HIDE DEF E
  <2>2. s \in [1..n -> E] /\ n \in Nat BY <2>1
  <2>3. s \in Seq(E) BY <2>2
  <2>4. QED BY <2>3 DEF E, LayersOver
<1>3. HostInit => LayersTyped
  <2>1. ASSUME case \in Cases PROVE LayersTyped
    <3>1. /\ case.fs \in Below
          /\ case.layer \in UNION {[1..n -> EntriesOf] : n \in 0..3}
      BY <2>1 DEF Cases
    <3>2. case.layer \in LayersOver(Paths, Kinds) BY <1>2, <3>1
    <3>3. \E S \in SUBSET Paths : case.fs \in [S -> {"dir", "old"}]
      BY <3>1 DEF Below
    <3>4. QED BY <3>2, <3>3
  <2>2. ASSUME case = NoCase PROVE LayersTyped
    <3>1. case.layer = <<>> /\ case.fs = [q \in {D} |-> "dir"] BY <2>2 DEF NoCase
    <3>2. case.layer \in LayersOver(Paths, Kinds) BY <3>1 DEF LayersOver
    <3>3. {D} \in SUBSET Paths /\ case.fs \in [{D} -> {"dir", "old"}] BY <3>1
    <3>4. QED BY <3>2, <3>3
  <2> HIDE DEF LayersTyped
  <2>3. QED BY <2>1, <2>2 DEF HostInit
<1>4. LayersTyped /\ [HostNext]_<<part, case, hostVars>> => LayersTyped'
  BY DEF HostNext
<1>5. LayersTyped => LayerAsSpecified BY LayerExact DEF LayerAsSpecified
<1>6. QED BY <1>3, <1>4, <1>5, PTL DEF HostSpec
=============================================================================
