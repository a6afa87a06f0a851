------------------------------- MODULE MCHost -------------------------------
(* Instances for TLC of what processes of one host share on its disk: the   *)
(* tar, OCI and squashfs caches, the layers of an image and the workspaces. *)
(* They do not meet, so a behaviour is one of one part, and the variables   *)
(* of the others stay as they are.  The same two processes resolve images   *)
(* and are the servers that keep workspaces.                                *)
EXTENDS TarCache, TLC

CONSTANTS Digests, NumLayers, Runs, MaxIds, Cap

VARIABLES
  part,
  tag, entry, expired, exists, content, skips, marker, ociPc, offline, digest, pulled,
  layer, overlapped, moved,
  image, imageExpired, imageOffline, at, body, download, stranded,
  case,
  server, base, age, open, disk, removing, made, call, worker, place, slot, vm,
  dayOld, early

OC == INSTANCE OciCache WITH Pullers <- Resolvers, pc <- ociPc
SQ == INSTANCE Squashfs WITH dest <- image, expired <- imageExpired,
        offline <- imageOffline, staging <- download
WS == INSTANCE Workspace WITH Servers <- Resolvers
LA == INSTANCE Layers

ASSUME HostAssumption ==
  OC!OciCacheAssumption /\ SQ!SquashfsAssumption /\ WS!WorkspaceAssumption

Symmetry == Permutations(Resolvers)

tarVars == <<pc, dest, staging, trash, tree, victim, again, sealed, before>>
ociVars == <<tag, entry, expired, exists, content, skips, marker, ociPc, offline,
             digest, pulled, layer, overlapped, moved>>
sqVars  == <<image, imageExpired, imageOffline, at, body, download, stranded>>
wsVars  == <<server, base, age, open, disk, removing, made, call, worker, place,
             slot, vm, dayOld, early>>
hostVars == <<vars, ociVars, sqVars, wsVars>>

-----------------------------------------------------------------------------
(* File systems of a directory with two files and of a file beside it, and  *)
(* layers of up to three entries.                                           *)
D == <<"d">>
A == <<"d", "a">>
B == <<"d", "b">>
F == <<"f">>

Below == {fs \in UNION {[S -> {"dir", "old"}] : S \in SUBSET {D, A, B, F}} :
            /\ \A q \in DOMAIN fs : (q = D) <=> (fs[q] = "dir")
            /\ {A, B} \cap DOMAIN fs # {} => D \in DOMAIN fs}

Entry(p, w) == [path |-> p, what |-> w, unsafe |-> FALSE]
EntriesOf ==
  {Entry(D, "dir"), Entry(A, "new"), Entry(B, "new"), Entry(F, "new"),
   Entry(D, "opaque"), Entry(D, "whiteout"), Entry(A, "whiteout"),
   Entry(F, "whiteout"), [path |-> A, what |-> "new", unsafe |-> TRUE]}

Cases == [fs : Below, layer : UNION {[1..n -> EntriesOf] : n \in 0..3}]
NoCase == [fs |-> [q \in {D} |-> "dir"], layer |-> <<>>]

-----------------------------------------------------------------------------
\* Either every archive has directories that may not be written, or none.
HostInit ==
  /\ part \in {"tar", "oci", "squashfs", "layers", "workspace"}
  /\ Init /\ IF part = "tar" THEN sealed \in {{}, Resolvers \cup ({dest} \ {None})}
             ELSE dest = None /\ sealed = {}
  /\ OC!Init /\ (part = "oci" \/ (offline = {} /\ tag = CHOOSE d \in Digests : TRUE))
  /\ SQ!Init /\ (part = "squashfs" \/ imageOffline = {})
  /\ WS!Init
  /\ case \in IF part = "layers" THEN Cases ELSE {NoCase}

HostNext ==
  /\ UNCHANGED <<part, case>>
  /\ \/ part = "tar" /\ Next /\ UNCHANGED <<ociVars, sqVars, wsVars>>
     \/ part = "oci" /\ OC!Next /\ UNCHANGED <<tarVars, sqVars, wsVars>>
     \/ part = "squashfs" /\ SQ!Next /\ UNCHANGED <<tarVars, ociVars, wsVars>>
     \/ part = "workspace" /\ WS!Next /\ UNCHANGED <<vars, ociVars, sqVars>>
     \/ part = "layers" /\ UNCHANGED hostVars

HostSpec == HostInit /\ [][HostNext]_<<part, case, hostVars>>

-----------------------------------------------------------------------------
(* What a VM boots from is what was asked for: in the OCI cache the marker  *)
(* says that every layer of the image, and of no other, was applied, in the *)
(* squashfs cache the name that the image is whole; it stays where it was   *)
(* handed out, and a download that fails leaves nothing beside it:          *)
(* OciCache!ReadyIsComplete and ReturnedTreeStays,                          *)
(* Squashfs!PublishedIsWhole and StagingGoes.                               *)
CachesSound ==
  /\ part = "oci" => OC!ReadyIsComplete /\ OC!ReturnedTreeStays
  /\ part = "squashfs" => SQ!PublishedIsWhole /\ SQ!StagingGoes

(* A layer applied entry by entry (extract_layer) gives the file system     *)
(* that the image specification means: Layers!LayerAsSpecified.             *)
LayerAsSpecified == part = "layers" => LA!LayerAsSpecified(case.fs, case.layer)

(* An open workspace keeps its directory (WorkspaceState, reap_orphans),    *)
(* and an answered run has no VM that nobody stops (Sandbox::run):          *)
(* Workspace!WorkspaceKept and RunsAreOver.                                 *)
WorkspaceSound == part = "workspace" => WS!WorkspaceSound

=============================================================================
