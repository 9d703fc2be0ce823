---------------------------- MODULE IndexTables ----------------------------
(***************************************************************************)
(* What the committed tables of the index promise to whoever reads them:   *)
(* one transaction publishes one file, with its mark, its row and the      *)
(* sources found for it.  An artifact that was found once is found ever    *)
(* after, at this path or at one with a copy at least as new; a source     *)
(* that is marked, and so skipped by the next scan, has a row.             *)
(***************************************************************************)
EXTENDS Integers

CONSTANTS Elf, Src, Ids, Times, None

VARIABLES scanned, artifact, sources

tables == <<scanned, artifact, sources>>

Init ==
  /\ scanned = [f \in Elf \cup Src |-> None]
  /\ artifact = [id \in Ids |-> None]
  /\ sources = {}

AtLeastAsNew(row, old) == old # None => row.mtime >= old.mtime

\* Marks of files without a build-id may come with those of p and S: they wait for the
\* next commit.
Publish(p, id, S) ==
  /\ scanned' \in [Elf \cup Src -> Times \cup {None}]
  /\ \A f \in {p} \cup S : scanned'[f] # None
  /\ \A f \in Elf : scanned[f] # None => scanned'[f] # None
  /\ \A s \in Src \ S : scanned'[s] = scanned[s]
  /\ artifact'[id] # None
  /\ artifact'[id] = artifact[id] \/ artifact'[id].path = p
  /\ AtLeastAsNew(artifact'[id], artifact[id])
  /\ \A k \in Ids \ {id} : artifact'[k] = artifact[k]
  /\ sources' = sources \cup ({id} \X S)

Next == \E p \in Elf, id \in Ids, S \in SUBSET Src : Publish(p, id, S)

Spec == Init /\ [][Next]_tables
============================================================================
