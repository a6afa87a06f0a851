------------------------------- MODULE Layers -------------------------------
(***************************************************************************)
(* How the OCI provider builds a root filesystem out of an image's layers  *)
(* (extract_layer in vmette-provider-oci/lib.rs): entry by entry, in the   *)
(* order of the archive, with whiteouts and opaque markers.                *)
(*                                                                         *)
(* A path is a sequence of names, a file system a function from paths to   *)
(* "dir" or the content of a file.  Left out: compression, links, modes    *)
(* and times.                                                              *)
(***************************************************************************)
EXTENDS Naturals, Sequences, SequencesExt

Under(q, p) == IsStrictPrefix(p, q)
Parents(p)  == {SubSeq(p, 1, n) : n \in 1..(Len(p) - 1)}

-----------------------------------------------------------------------------
\* remove_anything: an entry with what is under it.
RemoveAnything(fs, p) == Restrict(fs, {q \in DOMAIN fs : q # p /\ ~Under(q, p)})

\* clear_dir_contents: what is under a directory.
ClearDirContents(fs, p) == Restrict(fs, {q \in DOMAIN fs : ~Under(q, p)})

\* unpack_in makes the parents that are missing.  It does not put a file
\* where a directory is, or the other way round, nor anything below a file:
\* the entry is skipped with a warning.
Blocked(fs, e) ==
  \/ \E q \in Parents(e.path) \cap DOMAIN fs : fs[q] # "dir"
  \/ e.path \in DOMAIN fs /\ (fs[e.path] = "dir") # (e.what = "dir")

Unpack(fs, e) ==
  IF Blocked(fs, e) THEN fs
  ELSE [q \in DOMAIN fs \cup Parents(e.path) \cup {e.path} |->
          IF q = e.path THEN e.what
          ELSE IF q \in DOMAIN fs THEN fs[q] ELSE "dir"]

\* An entry: a whiteout of a path, an opaque marker in one, or a file or
\* directory.  Absolute paths and those with a ".." are skipped.
ApplyEntry(fs, e) ==
  IF e.unsafe THEN fs
  ELSE CASE e.what = "opaque"   -> ClearDirContents(fs, e.path)
         [] e.what = "whiteout" -> RemoveAnything(fs, e.path)
         [] OTHER               -> Unpack(fs, e)

\* Mutant: a whiteout of a directory removes no more than an empty one.
ApplyLayerShallow(fs, layer) ==
  LET after[n \in 0..Len(layer)] ==
        IF n = 0 THEN fs
        ELSE IF layer[n].what = "whiteout"
                /\ \E q \in DOMAIN after[n - 1] : Under(q, layer[n].path)
             THEN after[n - 1] ELSE ApplyEntry(after[n - 1], layer[n])
  IN after[Len(layer)]

ApplyLayer(fs, layer) ==
  LET after[n \in 0..Len(layer)] ==
        IF n = 0 THEN fs ELSE ApplyEntry(after[n - 1], layer[n])
  IN after[Len(layer)]

-----------------------------------------------------------------------------
(* What the image specification says (external): whiteouts and opaque       *)
(* markers hide what is in the layers below, and nothing of their own       *)
(* layer.                                                                  *)

Entries(layer) == {layer[i] : i \in {i \in DOMAIN layer : ~layer[i].unsafe}}

Hidden(layer, q) ==
  \E e \in Entries(layer) :
    \/ e.what = "opaque" /\ Under(q, e.path)
    \/ e.what = "whiteout" /\ (q = e.path \/ Under(q, e.path))

Added(layer) ==
  {e \in Entries(layer) : e.what \notin {"opaque", "whiteout"}}

\* The last of several entries of one path counts.
OverlaidBy(fs, layer) ==
  LET own  == UNION {{e.path} \cup Parents(e.path) : e \in Added(layer)}
      kept == {q \in DOMAIN fs : ~Hidden(layer, q)}
      Last1(q) == SelectLastInSeq(layer, LAMBDA e : e \in Added(layer) /\ e.path = q)
  IN [q \in own \cup kept |->
        IF q \in own THEN (IF Last1(q) > 0 THEN layer[Last1(q)].what ELSE "dir")
        ELSE fs[q]]

\* The layer hides nothing that it has added before ...
HidesFirst(layer) ==
  \A i, j \in DOMAIN layer :
    i < j /\ layer[i] \in Added(layer) =>
      ~Hidden(<<layer[j]>>, layer[i].path)
      /\ \A q \in Parents(layer[i].path) : ~Hidden(<<layer[j]>>, q)

\* ... and no path is a file and a directory at a time.
KindsAgree(fs, layer) ==
  LET below == {q \in DOMAIN fs : ~Hidden(layer, q)}
      Dirs  == {q \in below : fs[q] = "dir"}
                 \cup {e.path : e \in {e \in Added(layer) : e.what = "dir"}}
                 \cup UNION {Parents(e.path) : e \in Added(layer)}
      Files == {q \in below : fs[q] # "dir"}
                 \cup {e.path : e \in {e \in Added(layer) : e.what # "dir"}}
  IN Dirs \cap Files = {}

(* Applying a layer entry by entry gives the file system that the image     *)
(* specification means by it, in every order of its entries that puts the   *)
(* whiteouts before what the layer itself adds there (extract_layer).       *)
LayerAsSpecified(fs, layer) ==
  HidesFirst(layer) /\ KindsAgree(fs, layer) =>
    ApplyLayer(fs, layer) = OverlaidBy(fs, layer)
=============================================================================
