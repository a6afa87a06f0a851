------------------------------ MODULE Squashfs ------------------------------
(***************************************************************************)
(* The squashfs provider's cache (vmette-provider-squashfs/lib.rs) for one *)
(* URL: downloads by several processes, each to a staging file of its own  *)
(* that is renamed to the cache path, from a server that may answer with   *)
(* anything and may break off.                                             *)
(*                                                                         *)
(* A body is what the server sends in one answer: the image, another file  *)
(* ("page"), one over the cap ("big"), or the beginning of the image with  *)
(* an end that looks regular, as HTTP without a length has it ("cut").     *)
(* Left out: file:// images, which are checked and used where they are.    *)
(***************************************************************************)
EXTENDS Naturals

CONSTANTS
  Resolvers,   \* the calls of provide()
  MaxFaults,   \* bound: I/O and network errors
  MaxCrashes   \* bound: processes killed

SquashfsAssumption == MaxFaults \in Nat /\ MaxCrashes \in Nat

VARIABLES
  dest,      \* the body of the file at the cache path, or "none"
  expired,   \* it is older than the TTL
  offline,   \* the resolvers that may not use the network
  at,        \* where each resolver is
  body,      \* what its server sends
  staging,   \* the content of its staging file: "none", "part" or a body
  faults, crashes,
  stranded   \* history: the resolvers that were killed or could not rename

vars == <<dest, expired, offline, at, body, staging, faults, crashes, stranded>>

Bodies == {"image", "page", "big", "cut"}

Init ==
  /\ dest = "none" /\ expired = FALSE
  /\ offline \in SUBSET Resolvers
  /\ at = [r \in Resolvers |-> "idle"]
  /\ body = [r \in Resolvers |-> "none"]
  /\ staging = [r \in Resolvers |-> "none"]
  /\ faults = 0 /\ crashes = 0
  /\ stranded = {}

Goto(r, where) == at' = [at EXCEPT ![r] = where]
Put(r, what)   == staging' = [staging EXCEPT ![r] = what]
Working(r)     == at[r] \in {"get", "create", "copy", "sync", "verify", "rename"}

-----------------------------------------------------------------------------
\* resolve_remote: an image that is there is used offline, or within its TTL.
Lookup(r) ==
  /\ at[r] = "idle"
  /\ Goto(r, IF dest # "none" /\ (r \in offline \/ ~expired) THEN "ok"
             ELSE IF r \in offline THEN "err" ELSE "get")
  /\ UNCHANGED <<dest, expired, offline, body, staging, faults, crashes, stranded>>

Request(r) ==
  /\ at[r] = "get"
  /\ Goto(r, "create")
  /\ \E b \in Bodies : body' = [body EXCEPT ![r] = b]
  /\ UNCHANGED <<dest, expired, offline, staging, faults, crashes, stranded>>

Create(r) ==
  /\ at[r] = "create"
  /\ Goto(r, "copy")
  /\ Put(r, "part")
  /\ UNCHANGED <<dest, expired, offline, body, faults, crashes, stranded>>

\* The end of download_to after an error: the staging file goes.
Discard(r) == Goto(r, "err") /\ Put(r, "none")

\* copy_capped.
Copy(r) ==
  /\ at[r] = "copy"
  /\ IF body[r] = "big" THEN Discard(r) ELSE Goto(r, "sync") /\ Put(r, body[r])
  /\ UNCHANGED <<dest, expired, offline, body, faults, crashes, stranded>>

Sync(r) ==
  /\ at[r] = "sync"
  /\ Goto(r, "verify")
  /\ UNCHANGED <<dest, expired, offline, body, staging, faults, crashes, stranded>>

\* Mutant: what has been downloaded is published.
VerifyNot(r) ==
  /\ at[r] = "verify"
  /\ Goto(r, "rename")
  /\ UNCHANGED <<dest, expired, offline, body, staging, faults, crashes, stranded>>

\* verify_squashfs_magic: the superblock is at the beginning.
Verify(r) ==
  /\ at[r] = "verify"
  /\ IF staging[r] = "page" THEN Discard(r) ELSE Goto(r, "rename") /\ UNCHANGED staging
  /\ UNCHANGED <<dest, expired, offline, body, faults, crashes, stranded>>

Rename(r) ==
  /\ at[r] = "rename"
  /\ Goto(r, "ok")
  /\ dest' = staging[r] /\ expired' = FALSE
  /\ Put(r, "none")
  /\ UNCHANGED <<offline, body, faults, crashes, stranded>>

-----------------------------------------------------------------------------
\* An error in any step.  A rename that fails leaves the staging file.
Fails(r) ==
  /\ Working(r) /\ faults < MaxFaults
  /\ faults' = faults + 1
  /\ IF at[r] = "rename"
       THEN Goto(r, "err") /\ stranded' = stranded \cup {r} /\ UNCHANGED staging
       ELSE Discard(r) /\ UNCHANGED stranded
  /\ UNCHANGED <<dest, expired, offline, body, crashes>>

Crash(r) ==
  /\ Working(r) /\ crashes < MaxCrashes
  /\ crashes' = crashes + 1
  /\ Goto(r, "dead")
  /\ stranded' = stranded \cup {r}
  /\ UNCHANGED <<dest, expired, offline, body, staging, faults>>

Expire ==
  /\ dest # "none" /\ ~expired
  /\ expired' = TRUE
  /\ UNCHANGED <<dest, offline, at, body, staging, faults, crashes, stranded>>

AllOver == (\A r \in Resolvers : at[r] \in {"ok", "err", "dead"}) /\ UNCHANGED vars

Next ==
  \/ \E r \in Resolvers :
       Lookup(r) \/ Request(r) \/ Create(r) \/ Copy(r) \/ Sync(r) \/ Verify(r)
       \/ Rename(r) \/ Fails(r) \/ Crash(r)
  \/ Expire \/ AllOver

Spec == Init /\ [][Next]_vars

-----------------------------------------------------------------------------
\* The type invariant.
TypeOK ==
  /\ dest \in Bodies \cup {"none"} /\ expired \in BOOLEAN
  /\ offline \subseteq Resolvers /\ stranded \subseteq Resolvers
  /\ at \in [Resolvers -> {"idle", "get", "create", "copy", "sync", "verify",
                          "rename", "ok", "err", "dead"}]
  /\ body \in [Resolvers -> Bodies \cup {"none"}]
  /\ staging \in [Resolvers -> Bodies \cup {"none", "part"}]
  /\ faults \in 0..MaxFaults /\ crashes \in 0..MaxCrashes

(* What stands at the cache path, and so what a VM boots from and a later   *)
(* hit trusts unread, is a whole image: no page of a server's, no image     *)
(* over the cap, no download an error or a kill broke off ("a               *)
(* crashed/partial download never gets mistaken for a complete image") --   *)
(* excepting a body whose end could not be told from its breaking off.      *)
PublishedIsWhole ==
  /\ dest # "image" =>
       dest = "none" \/ (dest = "cut" /\ \E r \in Resolvers : body[r] = "cut")
  /\ \A r \in Resolvers : at[r] = "ok" => dest # "none"

(* Nothing is left beside it but by a kill, or a rename that fails. *)
StagingGoes ==
  \A r \in Resolvers : staging[r] # "none" => Working(r) \/ r \in stranded
=============================================================================
