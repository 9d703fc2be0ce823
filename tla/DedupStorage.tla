---------------------------- MODULE DedupStorage ----------------------------
(***************************************************************************)
(* What the table dedup_files promises about the storage of each file      *)
(* (docs/dedup.md, "storage_kind"): a file starts "full", may become the   *)
(* "base" of a group, or is packed as a "delta" that names a base.  A base *)
(* stays a base and a delta keeps its base, so that what a reader resolves *)
(* once it can resolve ever after.                                         *)
(***************************************************************************)
CONSTANTS Files, NoFile

VARIABLES kind, base

storage == <<kind, base>>

Init ==
  /\ kind = [f \in Files |-> "full"]
  /\ base = [f \in Files |-> NoFile]

Same(f) == kind'[f] = kind[f] /\ base'[f] = base[f]

BecomeBase(f) == kind[f] = "full" /\ kind'[f] = "base" /\ base'[f] = base[f]

Pack(f) ==
  /\ kind[f] = "full"
  /\ kind'[f] = "delta"
  /\ base'[f] \in Files \ {f}
  /\ kind'[base'[f]] = "base"

\* A commit may publish the progress of several files at once.
Next == \A f \in Files : Same(f) \/ BecomeBase(f) \/ Pack(f)

Spec == Init /\ [][Next]_storage
============================================================================
