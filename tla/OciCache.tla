------------------------------ MODULE OciCache ------------------------------
(***************************************************************************)
(* The cache of the OCI provider (vmette-provider-oci/lib.rs) for one      *)
(* image reference: pulls by several processes into a shared directory,    *)
(* the ready marker, the entry in refs/, and a registry whose tag moves    *)
(* from one manifest to another.                                           *)
(*                                                                         *)
(* Trees are named by the digest their path has.  A tree's content is the  *)
(* set of layers in it, each with the manifest it came from.  How a layer  *)
(* is applied is module Layers.  Left out: credentials, the environment    *)
(* file, the guest helpers, and references whose sanitised names collide.  *)
(***************************************************************************)
EXTENDS Naturals, FiniteSets

CONSTANTS
  Pullers,     \* the processes that resolve the reference, once each
  Digests,     \* the manifests the tag names over time
  NumLayers,   \* layers of an image
  MaxFaults,   \* bound: I/O and network errors
  MaxCrashes   \* bound: processes killed

OciCacheAssumption ==
  /\ NumLayers \in Nat \ {0} /\ MaxFaults \in Nat /\ MaxCrashes \in Nat
  /\ "none" \notin Digests /\ Digests # {}

VARIABLES
  tag,        \* the manifest the registry has under the reference
  entry,      \* the ref entry: a digest, or "none"
  expired,    \* the entry is older than the TTL
  exists,     \* the digests with a tree
  content,    \* the layers that were applied to it
  skips,      \* the digests whose tree lacks an entry of one of them
  marker,     \* the digests with a ready marker
  pc,         \* each puller's stage
  offline,    \* the pullers that may not use the network
  digest,     \* the digest it resolved, or the tree it returns
  pulled,     \* the manifest whose layers it has downloaded
  layer,      \* the layers it has applied
  faults, crashes,
  overlapped, \* history: the digests that two pulls worked on at a time
  moved       \* history: the digests under which another manifest was pulled

tree == <<exists, content, skips, marker>>
local == <<offline, digest, pulled, layer>>
bounds == <<faults, crashes>>
history == <<overlapped, moved>>
vars == <<tag, entry, expired, tree, pc, local, bounds, history>>

Init ==
  /\ tag \in Digests
  /\ entry = "none" /\ expired = FALSE
  /\ exists = {} /\ marker = {} /\ skips = {}
  /\ content = [d \in Digests |-> {}]
  /\ pc = [p \in Pullers |-> "idle"]
  /\ offline \in SUBSET Pullers
  /\ digest = [p \in Pullers |-> "none"]
  /\ pulled = [p \in Pullers |-> "none"]
  /\ layer = [p \in Pullers |-> 0]
  /\ faults = 0 /\ crashes = 0
  /\ overlapped = {} /\ moved = {}

Goto(p, stage) == pc' = [pc EXCEPT ![p] = stage]

-----------------------------------------------------------------------------
(* Looking into the cache.                                                 *)

\* fast_path_lookup: the entry names a ready tree and is young enough.
HasHit(p) == entry \in marker /\ (p \in offline \/ ~expired)

FastPath(p) ==
  /\ pc[p] = "idle"
  /\ IF HasHit(p)
       THEN Goto(p, "done") /\ digest' = [digest EXCEPT ![p] = entry]
       ELSE /\ Goto(p, IF p \in offline THEN "scan" ELSE "resolve")
            /\ UNCHANGED digest
  /\ UNCHANGED <<tag, entry, expired, tree, offline, pulled, layer, bounds, history>>

\* scan_offline_fallback: a ready tree, whatever the entry says, the latest.
ScanOffline(p) ==
  /\ pc[p] = "scan"
  /\ IF marker = {}
       THEN Goto(p, "failed") /\ UNCHANGED digest
       ELSE \E d \in marker : Goto(p, "done") /\ digest' = [digest EXCEPT ![p] = d]
  /\ UNCHANGED <<tag, entry, expired, tree, offline, pulled, layer, bounds, history>>

\* fetch_manifest_digest.
Resolve(p) ==
  /\ pc[p] = "resolve"
  /\ Goto(p, "check")
  /\ digest' = [digest EXCEPT ![p] = tag]
  /\ UNCHANGED <<tag, entry, expired, tree, offline, pulled, layer, bounds, history>>

\* The puller works on the tree of d, from its look at the marker on.
PullsInto(q, d) ==
  digest[q] = d /\ pc[q] \in {"pull", "clear", "rmdir", "make", "extract", "mark"}

\* Mutant: a tree that is ready is pulled again.
CheckReadyNot(p) ==
  /\ pc[p] = "check"
  /\ Goto(p, "pull")
  /\ UNCHANGED <<tag, entry, expired, tree, local, bounds, history>>

CheckReady(p) ==
  /\ pc[p] = "check"
  /\ IF digest[p] \in marker
       THEN Goto(p, "ref") /\ UNCHANGED overlapped
       ELSE /\ Goto(p, "pull")
            /\ overlapped' = overlapped \cup
                 {d \in {digest[p]} : \E q \in Pullers \ {p} : PullsInto(q, d)}
  /\ UNCHANGED <<tag, entry, expired, tree, local, bounds, moved>>

-----------------------------------------------------------------------------
(* Pulling and extracting.                                                 *)

\* pull() asks for the reference again, not for the digest.
Pull(p) ==
  /\ pc[p] = "pull"
  /\ Goto(p, IF digest[p] \in exists THEN "clear" ELSE "make")
  /\ pulled' = [pulled EXCEPT ![p] = tag]
  /\ moved' = IF tag = digest[p] THEN moved ELSE moved \cup {digest[p]}
  /\ UNCHANGED <<tag, entry, expired, tree, offline, digest, layer, bounds,
                 overlapped>>

\* remove_dir_all empties the directory and then removes it.
Clear(p) ==
  /\ pc[p] = "clear"
  /\ Goto(p, "rmdir")
  /\ content' = [content EXCEPT ![digest[p]] = {}]
  /\ skips' = skips \ {digest[p]}
  /\ marker' = marker \ {digest[p]}
  /\ UNCHANGED <<tag, entry, expired, exists, local, bounds, history>>

\* It meets a directory of the image that its owner may not write, and gives up
\* with what is left of the tree.
ClearFails(p) ==
  /\ pc[p] = "clear"
  /\ Goto(p, "failed")
  /\ \E left \in SUBSET content[digest[p]] :
       content' = [content EXCEPT ![digest[p]] = left]
  /\ skips' = skips \cup {digest[p]}
  /\ marker' \in {marker, marker \ {digest[p]}}
  /\ UNCHANGED <<tag, entry, expired, exists, local, bounds, history>>

Rmdir(p) ==
  /\ pc[p] = "rmdir"
  /\ IF content[digest[p]] = {} /\ digest[p] \notin marker
       THEN Goto(p, "make") /\ exists' = exists \ {digest[p]}
       ELSE Goto(p, "failed") /\ UNCHANGED exists
  /\ UNCHANGED <<tag, entry, expired, content, skips, marker, local, bounds, history>>

Make(p) ==
  /\ pc[p] = "make"
  /\ Goto(p, "extract")
  /\ exists' = exists \cup {digest[p]}
  /\ UNCHANGED <<tag, entry, expired, content, skips, marker, local, bounds, history>>

\* A layer into the directory at that path, made anew if it is gone.  Entries
\* that cannot be written are skipped with a warning: some, or all of a layer
\* whose directory is gone.
Extract(p) ==
  /\ pc[p] = "extract" /\ layer[p] < NumLayers
  /\ layer' = [layer EXCEPT ![p] = @ + 1]
  /\ \/ /\ exists' = exists \cup {digest[p]}
        /\ content' = [content EXCEPT ![digest[p]] = @ \cup {<<pulled[p], layer'[p]>>}]
        /\ skips' \in {skips, skips \cup {digest[p]}}
     \/ /\ digest[p] \notin exists
        /\ UNCHANGED <<exists, content, skips>>
  /\ UNCHANGED <<tag, entry, expired, marker, pc, offline, digest, pulled, bounds,
                 history>>

Extracted(p) ==
  /\ pc[p] = "extract" /\ layer[p] = NumLayers
  /\ Goto(p, "mark")
  /\ UNCHANGED <<tag, entry, expired, tree, local, bounds, history>>

\* The marker is staged and renamed.
Mark(p) ==
  /\ pc[p] = "mark"
  /\ IF digest[p] \in exists
       THEN Goto(p, "ref") /\ marker' = marker \cup {digest[p]}
       ELSE Goto(p, "failed") /\ UNCHANGED marker
  /\ UNCHANGED <<tag, entry, expired, exists, content, skips, local, bounds, history>>

\* write_ref_entry: the digest, or its age only.
WriteRef(p) ==
  /\ pc[p] = "ref"
  /\ Goto(p, "done")
  /\ entry' = digest[p] /\ expired' = FALSE
  /\ UNCHANGED <<tag, tree, local, bounds, history>>

-----------------------------------------------------------------------------
(* Errors, kills, time, and the registry.                                  *)

Working(p) == pc[p] \notin {"idle", "done", "failed", "dead"}

\* The network, an archive that cannot be read, or the file system under the
\* tree, the marker and the entry, but for the entries of a layer (Extract): the
\* step ends the pull with its error, and leaves what is on disk.
Fails(p) ==
  /\ Working(p) /\ faults < MaxFaults
  /\ faults' = faults + 1
  /\ Goto(p, "failed")
  /\ UNCHANGED <<tag, entry, expired, tree, local, crashes, history>>

\* A kill, which can hit the middle of a layer as well.
Crash(p) ==
  /\ Working(p) /\ crashes < MaxCrashes
  /\ crashes' = crashes + 1
  /\ Goto(p, "dead")
  /\ UNCHANGED <<tag, entry, expired, tree, local, faults, history>>

Expire ==
  /\ ~expired /\ entry # "none"
  /\ expired' = TRUE
  /\ UNCHANGED <<tag, entry, tree, pc, local, bounds, history>>

TagMoves ==
  /\ tag' \in Digests \ {tag}
  /\ UNCHANGED <<entry, expired, tree, pc, local, bounds, history>>

AllOver == (\A p \in Pullers : pc[p] \in {"done", "failed", "dead"}) /\ UNCHANGED vars

-----------------------------------------------------------------------------
PullStep(p) ==
  \/ FastPath(p) \/ ScanOffline(p) \/ Resolve(p) \/ CheckReady(p) \/ Pull(p)
  \/ Clear(p) \/ ClearFails(p) \/ Rmdir(p) \/ Make(p) \/ Extract(p) \/ Extracted(p) \/ Mark(p)
  \/ WriteRef(p)

Next ==
  \/ \E p \in Pullers : PullStep(p) \/ Fails(p) \/ Crash(p)
  \/ Expire \/ TagMoves \/ AllOver

Spec == Init /\ [][Next]_vars

-----------------------------------------------------------------------------
(* Type invariant. *)
TypeOK ==
  /\ tag \in Digests /\ entry \in Digests \cup {"none"} /\ expired \in BOOLEAN
  /\ exists \in SUBSET Digests /\ skips \in SUBSET Digests /\ marker \in SUBSET exists
  /\ content \in [Digests -> SUBSET (Digests \X (1..NumLayers))]
  /\ pc \in [Pullers -> {"idle", "scan", "resolve", "check", "pull", "clear",
                         "rmdir", "make", "extract", "mark", "ref", "done",
                         "failed", "dead"}]
  /\ offline \in SUBSET Pullers
  /\ digest \in [Pullers -> Digests \cup {"none"}]
  /\ pulled \in [Pullers -> Digests \cup {"none"}]
  /\ layer \in [Pullers -> 0..NumLayers]
  /\ overlapped \in SUBSET Digests /\ moved \in SUBSET Digests

\* Every layer of the manifest was applied, to the end, and nothing else.
Complete(d) == content[d] = {d} \X (1..NumLayers)

(* The ready marker means that every layer of its own manifest was applied  *)
(* to the tree after it was emptied, and no other, whatever errors and      *)
(* kills the pulls before met and wherever they stopped -- unless two pulls *)
(* of it overlapped or the tag moved between the two requests of a pull.    *)
(* It does not mean that every entry of a layer is there: an entry that     *)
(* cannot be written is passed over with a warning (lib.rs:822-827), so     *)
(* that a marked tree may be in skips.                                      *)
ReadyIsComplete ==
  \A d \in marker \ (overlapped \cup moved) : Complete(d)

(* A tree that was handed out, on which a VM may run, is not taken away by  *)
(* a later pull, under the same exception.                                  *)
ReturnedTreeStays ==
  \A p \in Pullers :
    pc[p] = "done" /\ digest[p] \notin overlapped => digest[p] \in marker
=============================================================================
